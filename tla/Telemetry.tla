----------------------------- MODULE Telemetry -----------------------------
(***************************************************************************)
(* The numbers of the status page (src/webui/telemetry.c).  Each worker      *)
(* counts into tables of its own without a lock; once a second it folds them *)
(* into the shared ones under g_lock (elpis_tm_publish); the page's thread   *)
(* takes a sample of the totals a second (elpis_tm_tick) and reads the       *)
(* history and the largest rows.                                             *)
(*                                                                           *)
(* A worker's row is found by a hash of the raw name; the shared row by a    *)
(* hash of the text, which is cut to 63 characters.  Hashes are taken to     *)
(* differ; where a hash falls in a table is Home.                            *)
(***************************************************************************)
EXTENDS Integers, Sequences, SequencesExt, FiniteSets, FiniteSetsExt, Functions

CONSTANTS Worker, Name,
          Text,         \* per name: its text, two long names may share one
          Home,         \* where the hash of a name or a text points
          SLOTS, PROBE, \* ELPIS_TM_SLOTS; the 8 of tab_bump()
          HISTORY,      \* ELPIS_TM_HISTORY
          ANSWERS, TICKS, TOP  \* bounds: answers, samples, rows asked for

None == [key |-> "none", text |-> "none", n |-> 0]
Empty == [i \in 0..(SLOTS - 1) |-> None]

VARIABLES wtm,     \* per worker: the table, rtt_count, dirty
          g_tab, g_rtt_count,
          g_prev,  \* have, rtt_count at the last tick
          g_hist, g_hist_n, g_hist_head,
          answers, gone, samples, before   \* history: see below
vars == <<wtm, g_tab, g_rtt_count, g_prev, g_hist, g_hist_n, g_hist_head,
          answers, gone, samples, before>>

\* answers: per name, how often it was answered; gone: texts that lost a row to
\* another; samples: all samples; before: what the first tick found.
Init ==
    /\ wtm = [w \in Worker |-> [tab |-> Empty, n |-> 0, dirty |-> FALSE]]
    /\ g_tab = Empty /\ g_rtt_count = 0
    /\ g_prev = [have |-> FALSE, n |-> 0]
    /\ g_hist = [i \in 0..(HISTORY - 1) |-> 0] /\ g_hist_n = 0 /\ g_hist_head = 0
    /\ answers = [x \in Name |-> 0] /\ gone = {} /\ samples = <<>> /\ before = 0

-----------------------------------------------------------------------------
\* The slots tab_bump() looks at, in order.
Probe(key) == [i \in 1..PROBE |-> (Home[key] + i - 1) % SLOTS]

\* The first element of a sequence that satisfies Test, or -1.
First(s, Test(_)) == IF \E i \in DOMAIN s : Test(s[i])
                     THEN s[CHOOSE i \in DOMAIN s : Test(s[i]) /\ \A j \in 1..(i - 1) : ~Test(s[j])]
                     ELSE -1

\* The slot tab_bump() uses: the key's, the first free one, or the victim, the
\* first of the smallest count.
Slot(t, key) ==
    LET p == Probe(key)
        found == First(p, LAMBDA i : t[i] = None \/ t[i].key = key)
    IN  IF found # -1 THEN found
        ELSE First(p, LAMBDA i : \A j \in Range(p) : t[i].n <= t[j].n)

\* tab_bump() and the text its callers fill in when the row is new.
tab_bump(t, key, text, by) ==
    LET i == Slot(t, key)
    IN  [t EXCEPT ![i] = IF @.key = key THEN [@ EXCEPT !.n = @ + by]
                         ELSE [key |-> key, text |-> text, n |-> by]]

\* The text that loses its row to key, if any.
Loses(t, key) == LET r == t[Slot(t, key)] IN IF r = None \/ r.key = key THEN {} ELSE {r.text}

-----------------------------------------------------------------------------
\* elpis_tm_observe() and elpis_tm_answer() for an answer about name x.
elpis_tm_answer(w, x) ==
    /\ SumFunction(answers) < ANSWERS
    /\ wtm' = [wtm EXCEPT ![w] = [tab |-> tab_bump(@.tab, x, Text[x], 1),
                                  n |-> @.n + 1, dirty |-> TRUE]]
    /\ gone' = gone \cup Loses(wtm[w].tab, x)
    /\ answers' = [answers EXCEPT ![x] = @ + 1]
    /\ UNCHANGED <<g_tab, g_rtt_count, g_prev, g_hist, g_hist_n, g_hist_head, samples, before>>

\* elpis_tm_publish(): the rows of a worker's table merged in order into t, with
\* the texts that lost their row on the way.
Merge(tab, t) ==
    FoldLeft(LAMBDA acc, i : IF tab[i] = None THEN acc
                             ELSE [tab |-> tab_bump(acc.tab, tab[i].text, tab[i].text, tab[i].n),
                                   gone |-> acc.gone \cup Loses(acc.tab, tab[i].text)],
             [tab |-> t, gone |-> {}], [i \in 1..SLOTS |-> i - 1])

\* What a worker starts its next second with.
Reset(w) == [tab |-> Empty, n |-> 0, dirty |-> FALSE]

elpis_tm_publish(w) ==
    /\ wtm[w].n > 0
    /\ g_rtt_count' = g_rtt_count + wtm[w].n
    /\ LET m == Merge(wtm[w].tab, g_tab)
       IN  /\ g_tab' = IF wtm[w].dirty THEN m.tab ELSE g_tab
           /\ gone' = IF wtm[w].dirty THEN gone \cup m.gone ELSE gone
    /\ wtm' = [wtm EXCEPT ![w] = Reset(w)]
    /\ UNCHANGED <<g_prev, g_hist, g_hist_n, g_hist_head, answers, samples, before>>

\* elpis_tm_tick(): a sample is what was counted since the one before; the first
\* tick only takes note.
elpis_tm_tick ==
    /\ Len(samples) < TICKS
    /\ LET d == g_rtt_count - g_prev.n
       IN  IF g_prev.have
           THEN /\ g_hist' = [g_hist EXCEPT ![g_hist_head] = d]
                /\ g_hist_head' = (g_hist_head + 1) % HISTORY
                /\ g_hist_n' = IF g_hist_n < HISTORY THEN g_hist_n + 1 ELSE g_hist_n
                /\ samples' = Append(samples, d) /\ before' = before
           ELSE /\ before' = g_rtt_count
                /\ UNCHANGED <<g_hist, g_hist_head, g_hist_n, samples>>
    /\ g_prev' = [have |-> TRUE, n |-> g_rtt_count]
    /\ UNCHANGED <<wtm, g_tab, g_rtt_count, answers, gone>>

Next ==
    \/ \E w \in Worker : elpis_tm_publish(w) \/ \E x \in Name : elpis_tm_answer(w, x)
    \/ elpis_tm_tick

Spec == Init /\ [][Next]_vars

\* elpis_tm_history(): the last samples, newest last.
elpis_tm_history(max) ==
    LET n == IF g_hist_n < max THEN g_hist_n ELSE max
        start == (g_hist_head + HISTORY - n) % HISTORY
    IN  [i \in 1..n |-> g_hist[(start + i - 1) % HISTORY]]

\* One turn of elpis_tm_top(): rows not smaller than r stay before it, the
\* smaller ones move down and the last falls off.
Insert(out, r, max) ==
    LET j == Cardinality({i \in DOMAIN out : out[i].n >= r.n})
        all == InsertAt(out, j + 1, r)
    IN  IF j >= max THEN out ELSE SubSeq(all, 1, IF Len(all) < max THEN Len(all) ELSE max)

\* elpis_tm_top()
elpis_tm_top(max) ==
    FoldLeft(LAMBDA out, i : IF g_tab[i] = None THEN out ELSE Insert(out, g_tab[i], max),
             <<>>, [i \in 1..SLOTS |-> i - 1])

-----------------------------------------------------------------------------
Truth(x) == SumFunctionOnSet(answers, {y \in Name : Text[y] = x})
Rows(t, x) == {i \in DOMAIN t : t[i].text = x}
In(t, x) == SumFunctionOnSet([i \in DOMAIN t |-> t[i].n], Rows(t, x))
Waiting(x) == SumFunction([w \in Worker |-> In(wtm[w].tab, x)])

\* "Every answer is counted, and counted exactly": what the shared table and the
\* workers' hold for a text is what was answered, unless the text lost its row to
\* another; then it is less, never more.  A text has one shared row.
CountedExactly ==
    \A x \in Range(Text) :
       /\ Cardinality(Rows(g_tab, x)) <= 1
       /\ In(g_tab, x) + Waiting(x) <= Truth(x)
       /\ x \notin gone => In(g_tab, x) + Waiting(x) = Truth(x)

\* No answer is in two samples and none is missed between them, however the
\* ticks of the page's thread fall between those of the workers.
SamplesAddUp ==
    g_prev.have =>
       FoldLeft(LAMBDA a, b : a + b, 0, samples) + (g_rtt_count - g_prev.n)
          + SumFunction([w \in Worker |-> wtm[w].n]) = SumFunction(answers) - before

\* The page gets the newest samples, oldest of them first, before and after the
\* ring is full.
NewestLast ==
    \A max \in 1..(HISTORY + 1) :
       LET h == elpis_tm_history(max)
       IN  IsSuffix(h, samples) /\ Len(h) = Min({max, HISTORY, Len(samples)})

\* The page shows the largest rows, largest first, and as many as there are.
LargestShown ==
    \A max \in 1..TOP :
       LET out == elpis_tm_top(max)
           rows == {i \in DOMAIN g_tab : g_tab[i] # None}
       IN  /\ Len(out) = Min({max, Cardinality(rows)})
           /\ \A i, j \in DOMAIN out : i < j => out[i].n >= out[j].n /\ out[i].text # out[j].text
           /\ \A i \in rows : g_tab[i] \in Range(out) \/ \A j \in DOMAIN out : out[j].n >= g_tab[i].n
=============================================================================
