------------------------------ MODULE MCStores -------------------------------
(***************************************************************************)
(* Answers and the tables of the resolver side by side: each behaviour is    *)
(* one of a machine of its own (the assembly of an answer, the message       *)
(* cache, the hash table of the caches, the RRset store, the telemetry, the  *)
(* rows of silent and of DoT servers, the status page) while the others      *)
(* stand still in their first state.                                         *)
(***************************************************************************)
EXTENDS Answer, TLC

CONSTANTS
          t1, t2   \* two of a kind, in every machine that has interchangeable parts

VARIABLE which          \* the machine of this behaviour; the others stand still
VARIABLES msg_entry, msg_now, msg_task, msg_job, msg_told, msg_sure
VARIABLES table_t, table_now
VARIABLES sets_store, sets_held, sets_last, sets_taken
VARIABLES tm_wtm, tm_g_tab, tm_g_rtt_count, tm_g_prev, tm_g_hist,
          tm_g_hist_n, tm_g_hist_head, tm_answers, tm_gone, tm_samples,
          tm_before
VARIABLES rows_table, rows_g_held, rows_g_dot, rows_now, rows_reports,
          rows_read, rows_last, rows_events
VARIABLES page_g_sess, page_g_login, page_granted, page_owed, page_reply

msg_vars == <<msg_entry, msg_now, msg_task, msg_job, msg_told, msg_sure>>
table_vars == <<table_t, table_now>>
sets_vars == <<sets_store, sets_held, sets_last, sets_taken>>
tm_vars == <<tm_wtm, tm_g_tab, tm_g_rtt_count, tm_g_prev, tm_g_hist,
             tm_g_hist_n, tm_g_hist_head, tm_answers, tm_gone, tm_samples,
             tm_before>>
rows_vars == <<rows_table, rows_g_held, rows_g_dot, rows_now, rows_reports,
               rows_read, rows_last, rows_events>>
page_vars == <<page_g_sess, page_g_login, page_granted, page_owed,
               page_reply>>

Twins == Permutations({t1, t2})

\* Answers: x is an alias of y, y may be one of z, or y is below x.
ChainNames == {"x", "y", "z"}
NamesAbove == [n \in ChainNames |-> IF n = "y" THEN {"x"} ELSE {}]
World(hx, hy, signed, faulty, rotates, tailors, along, asked) ==
    [has |-> "x" :> hx @@ "y" :> hy @@ "z" :> "data", to |-> "x" :> "y" @@ "y" :> "z" @@ "z" :> "z",
     signed |-> signed, faulty |-> faulty, rotates |-> rotates, tailors |-> tailors,
     along |-> along, asked |-> asked]
Plain(q) == <<q, FALSE, Nil>>
\* Records that fail, somewhere along an alias, for clients with CD and without.
Failing ==
    {World("alias", "data", s, f, {}, {}, FALSE, {Plain("x"), Plain("y"), <<"x", TRUE, Nil>>}) :
         s \in {{"x", "y"}, {"x"}, {"y"}}, f \in {{"x"}, {"y"}}}
\* A target that rotates, and comes with its alias.
Rotating == {World("alias", "data", {"x", "y"}, {}, {"y"}, {}, TRUE, {Plain("x"), Plain("y")})}
\* An alias of an alias, the one in the middle unsigned or with records that fail.
Chaining ==
    {World("alias", "alias", s, f, {}, {}, FALSE, {Plain("x"), Plain("z")}) :
         s \in {{"x", "z"}, ChainNames}, f \in {{"y"}}}
\* Zones that answer each subnet differently.
Tailoring ==
    {World("alias", "data", {"x", "y"}, {}, {}, ts, FALSE,
           {Plain("x"), <<"x", FALSE, "s1">>, <<"x", FALSE, "s2">>}) : ts \in {{"y"}, {"x"}}}
\* Names without the data, or that do not exist.
Denying ==
    {World(hs[1], hs[2], {"x", "y"}, {}, {}, {}, FALSE, {Plain("x"), Plain("y")}) :
         hs \in {<<"alias", "nodata">>, <<"alias", "nx">>, <<"nx", "nx">>}}
AllWorlds == Failing \cup Rotating \cup Chaining \cup Tailoring \cup Denying

\* Two keys of the same hash, one of another tag.
TableHash == (t1 :> 6) @@ (t2 :> 6) @@ ("k3" :> 7)
TableEntries == {[size |-> 1, pinned |-> FALSE, expiry |-> 2],
                 [size |-> 2, pinned |-> TRUE, expiry |-> 0]}

D(type, id, ttl) == [type |-> type, id |-> id, ttl |-> ttl, covers |-> "none", above |-> FALSE, minimum |-> 0]
S(covers, id, ttl) == [D("RRSIG", id, ttl) EXCEPT !.covers = covers]
Soa(above, ttl, minimum) == [D("SOA", "soa", ttl) EXCEPT !.above = above, !.minimum = minimum]
TOP_BIT == 8

\* Two to four records of one or two sets, in orders a zone may choose, with
\* TTLs that differ within a set, are 0, or have the top bit set; one set is
\* too large for the buffer.
SectionsSent ==
    {<<D("A", "a1", t), D("A", "a2", u)>> : t \in {0, 2, TOP_BIT}, u \in {0, 1, TOP_BIT}}
    \cup {<<S("A", "s1", 2), D("A", "a1", t), S("A", "s2", 2), D("A", "a2", u)>> : t, u \in {0, 2}}
    \cup {<<D("A", "a1", 2), D("CNAME", "c1", t), S("CNAME", "s3", 2), D("A", "a2", 1)>> : t \in {0, 1}}
    \cup {<<S("A", "s1", 1), D("A", "a1", 1), D("A", "a2", 2), D("A", "a3", 1), D("A", "a4", 2)>>}
DenialsSent ==
    {<<D("NSEC", "n1", 2), Soa(TRUE, t, u), S("NSEC", "s4", 2)>> : t, u \in {0, 1, 2}}
    \cup {<<Soa(FALSE, 2, 2), D("NSEC", "n1", 2)>>,
          <<Soa(TRUE, 1, 2), D("NSEC", "n1", 2), S("NSEC", "s4", 2), D("NSEC", "n2", 2)>>}

\* Four names, the last two of them long and alike in their first characters.
ShownText == [a |-> "a", b |-> "b", c |-> "cc", d |-> "cc"]
ShownHome == [a |-> 0, b |-> 1, c |-> 0, d |-> 1, cc |-> 2]

Msg == INSTANCE MsgCache WITH
    Workers <- {t1, t2}, TaskIds <- {t1, t2},
    Outcomes <- {"answer", "answer0", "nxdomain", "failed"}, Ttl <- 2, SERVE_STALE <- 1,
    PREFETCH_PCT <- 50, REFRESH_MAX <- 2, NX_CONFIRM <- 2, BOOT <- 64,
    MaxNow <- 68,
    entry <- msg_entry, now <- msg_now, task <- msg_task, job <- msg_job,
    told <- msg_told, sure <- msg_sure

Table == INSTANCE CacheTable WITH
    Keys <- {t1, t2, "k3"}, Entries <- TableEntries, None <- Nil,
    BUDGET <- 3, Hash <- TableHash, TAGS <- 2, GROUP <- 2, MIN_CAP <- 4,
    PER <- 2, MaxNow <- 2,
    t <- table_t, now <- table_now

Sets == INSTANCE RRsetStore WITH
    Sections <- SectionsSent, Negatives <- DenialsSent, MAX_RR <- 3, DONE <- 2,
    MIN_TTL <- 0, MAX_TTL <- 2, TOP <- TOP_BIT, SERVE_STALE <- 1,
    RESPONSES <- 2,
    store <- sets_store, held <- sets_held, last <- sets_last,
    taken <- sets_taken

Tm == INSTANCE Telemetry WITH
    Worker <- {t1, t2}, Name <- {"a", "b", "c", "d"}, Text <- ShownText,
    Home <- ShownHome, SLOTS <- 3, PROBE <- 2, HISTORY <- 2, ANSWERS <- 4,
    TICKS <- 3, TOP <- 3,
    wtm <- tm_wtm, g_tab <- tm_g_tab, g_rtt_count <- tm_g_rtt_count,
    g_prev <- tm_g_prev, g_hist <- tm_g_hist, g_hist_n <- tm_g_hist_n,
    g_hist_head <- tm_g_hist_head, answers <- tm_answers, gone <- tm_gone,
    samples <- tm_samples, before <- tm_before

Rows == INSTANCE HeldRows WITH
    Server <- {t1, t2, "s3"}, ROWS <- 2, STREAKS <- 2, EVENTS <- 5,
    TIMES <- 2,
    table <- rows_table, g_held <- rows_g_held, g_dot <- rows_g_dot,
    now <- rows_now, reports <- rows_reports, read <- rows_read,
    last <- rows_last, events <- rows_events

Page == INSTANCE StatusPage WITH
    Token <- {"k1", "k2", "k3"}, Peer <- {t1, t2}, SESSIONS <- 2,
    SESSION_SECS <- 2, LOGIN_SLOTS <- 1, LOGIN_FREE <- 1,
    LOGIN_MAX_WAIT <- 2, FAILS <- 3,
    g_sess <- page_g_sess, g_login <- page_g_login, granted <- page_granted,
    owed <- page_owed, reply <- page_reply

allvars == <<which, vars, msg_vars, table_vars, sets_vars, tm_vars, rows_vars,
            page_vars>>

AnyInit ==
    /\ which \in {"ans", "msg", "table", "sets", "tm", "rows", "page"}
    /\ Init
    /\ Msg!Init
    /\ Table!Init
    /\ Sets!Init
    /\ Tm!Init
    /\ Rows!Init
    /\ which # "rows" => rows_table = "held"
    /\ Page!Init

AnyNext ==
    /\ UNCHANGED which
    /\ IF which = "ans" THEN Next ELSE UNCHANGED vars
    /\ IF which = "msg" THEN Msg!Next ELSE UNCHANGED msg_vars
    /\ IF which = "table" THEN Table!Next ELSE UNCHANGED table_vars
    /\ IF which = "sets" THEN Sets!Next ELSE UNCHANGED sets_vars
    /\ IF which = "tm" THEN Tm!Next ELSE UNCHANGED tm_vars
    /\ IF which = "rows" THEN Rows!Next ELSE UNCHANGED rows_vars
    /\ IF which = "page" THEN Page!Next ELSE UNCHANGED page_vars

AnySpec == AnyInit /\ [][AnyNext]_allvars

\* The assembly of an answer by itself.
AnswersSpec == AnySpec /\ which = "ans"

-----------------------------------------------------------------------------
\* The hash table beneath every cache: its control bytes, counters and bytes
\* charged agree with its slots, and a lookup finds the one slot of a key
\* whenever there is one, whatever was inserted, removed, evicted or moved by
\* growth before (find_slot(), slot_drop(), shard_rehash()).
TableSound ==
    which = "table" =>
        /\ Table!Sound
        /\ Table!Finds

\* The table is that map: a replacement, an eviction, a sweep of the hand or
\* a growth loses no entry but to make room, to expiry or on request, none
\* that is pinned to make room, and no more than it takes; and an entry is
\* refused only when dropping all that may be dropped would not make room for
\* it.
TableIsMap ==
    /\ Table!Map!Init
    /\ [][which = "table" => [Table!Map!Next]_(Table!Map!vars)]_table_vars

-----------------------------------------------------------------------------
\* RRsets out of a reply whose records come in any order: a set is cached
\* whole, with its signatures, with the proof of a denial, for no longer than
\* any of its records allows, and where a validation can find it
\* (cache_section(), the negative marker).
SetsWhole ==
    which = "sets" =>
        /\ Sets!WholeSets
        /\ Sets!ProofKept
        /\ Sets!NoLongerThanAny
        /\ Sets!WaitedForIsFound

-----------------------------------------------------------------------------
\* The status page answers only a token it gave out, in its time and not
\* logged out, and makes an address wait exactly as its failed logins cost it
\* (session_valid(), login_wait()).
SessionsTrue ==
    which = "page" =>
        /\ Page!HonouredIsGranted
        /\ Page!RefusedWhenOwed

-----------------------------------------------------------------------------
\* The figures of the status page: every answer is in the shared tables or still
\* in its worker's, once, the samples of the history add up to the totals and come
\* newest last, and the rows shown are the largest; a row of a server is taken
\* only from the one used longest ago, tells of one silence, and is about DoT only
\* where DoT has worked (telemetry.c).
FiguresTrue ==
    /\ which = "tm" => /\ Tm!CountedExactly /\ Tm!SamplesAddUp
                       /\ Tm!NewestLast /\ Tm!LargestShown
    /\ which = "rows" => Rows!OldestGivesWay /\ Rows!OneSilence /\ Rows!WorkedOnly

\* What a step of a store may not do, with two workers counting under the shared
\* lock: a refresh decides to remove an answer only when NX_CONFIRM refreshes of
\* that very answer were counted as NXDOMAIN, no other outcome between them but
\* one whose count was overwritten; an answer denied that often one after the
\* other is on its way out; and a refresh puts an NXDOMAIN in the place of an
\* answer that says the name exists only when that answer came after it had looked
\* (elpis_mcache_refresh_outcome(), nxdomain_storable()); a session of the status
\* page ends by its logout, by its time, or as the oldest of a full table.
StoresStep ==
    [][/\ which = "msg" => Msg!Believed /\ Msg!Confirmed /\ Msg!PositiveStands
       /\ which = "page" => Page!SessionEnds]_allvars
=============================================================================
