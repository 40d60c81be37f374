----------------------------- MODULE StatusPage -----------------------------
(***************************************************************************)
(* The status page's requests (src/webui/webui.c): its one thread reads a    *)
(* request, and handle_conn() answers it.  Sessions live in a table of       *)
(* SESSIONS slots; failed logins are counted per address in a table of       *)
(* LOGIN_SLOTS, and an address with too many waits.                          *)
(*                                                                           *)
(* Times are what is left of them, in seconds.  A wait is 2 to the number of *)
(* failures past LOGIN_FREE, capped.                                         *)
(***************************************************************************)
EXTENDS Naturals, FiniteSets, FiniteSetsExt, Functions

CONSTANTS Token, Peer, SESSIONS, SESSION_SECS, LOGIN_SLOTS, LOGIN_FREE, LOGIN_MAX_WAIT,
          FAILS   \* bound: failures counted

NoSession == [token |-> "none", left |-> 0]
NoLogin == [ip |-> "none", fails |-> 0, until |-> 0, age |-> 0]

VARIABLES g_sess, g_login,
          granted,  \* history: per token, "new", "in", "out"; seconds since its login
          owed,     \* history: per address, failures in a row and the wait they cost
          reply     \* the last answer
vars == <<g_sess, g_login, granted, owed, reply>>

SSlot == 1..SESSIONS
LSlot == 1..LOGIN_SLOTS
OLD == LOGIN_MAX_WAIT + 2      \* ages are not told apart beyond this

Init ==
    /\ g_sess = [i \in SSlot |-> NoSession] /\ g_login = [i \in LSlot |-> NoLogin]
    /\ granted = [t \in Token |-> [is |-> "new", age |-> 0]]
    /\ owed = [p \in Peer |-> [fails |-> 0, wait |-> 0]]
    /\ reply = [to |-> "none"]

-----------------------------------------------------------------------------
Live(i) == g_sess[i].token # "none" /\ g_sess[i].left > 0

\* session_new(): the first slot that is free or expired, else the first of those
\* that expire soonest.
Victim == IF \E i \in SSlot : ~Live(i) THEN Min({i \in SSlot : ~Live(i)})
          ELSE Min({i \in SSlot : \A j \in SSlot : g_sess[i].left <= g_sess[j].left})

\* Mutant: expiry is looked at only when room is needed.
session_valid_Forever(t) == \E i \in SSlot : g_sess[i].token = t

session_valid(t) == \E i \in SSlot : Live(i) /\ g_sess[i].token = t

session_drop(t) == [i \in SSlot |-> IF g_sess[i].token = t THEN NoSession ELSE g_sess[i]]

\* login_slot(): an address's slot, or 0.
Slot(p) == LET own == {i \in LSlot : g_login[i].ip = p} IN IF own = {} THEN 0 ELSE Min(own)

\* The slot that makes room: the first unused one, else the one that failed
\* longest ago.
Room == LET unused == {i \in LSlot : g_login[i] = NoLogin}
        IN  Min(IF unused # {} THEN unused
                ELSE {i \in LSlot : \A j \in LSlot : g_login[i].age >= g_login[j].age})

\* login_wait()
login_wait(p) == IF Slot(p) = 0 THEN 0 ELSE g_login[Slot(p)].until

Wait(fails) == IF fails <= LOGIN_FREE THEN 0
               ELSE Min({2 ^ (fails - LOGIN_FREE - 1), LOGIN_MAX_WAIT})

\* login_result(): the table after a login of p was checked.
login_result(p, ok) ==
    IF ok THEN [i \in LSlot |-> IF g_login[i].ip = p THEN NoLogin ELSE g_login[i]]
    ELSE LET i == IF Slot(p) # 0 THEN Slot(p) ELSE Room
             fails == IF Slot(p) # 0 THEN g_login[i].fails + 1 ELSE 1
         IN  [g_login EXCEPT ![i] = [ip |-> p, fails |-> fails, until |-> Wait(fails), age |-> 0]]

-----------------------------------------------------------------------------
\* Addresses the table has forgotten owe nothing.
Forgotten(p) == p \notin {g_login'[i].ip : i \in LSlot}

\* POST /api/login from p with the right password or not; t is the new token.
Login(p, ok, t) ==
    /\ granted[t].is = "new" /\ (ok \/ owed[p].fails < FAILS)
    /\ IF login_wait(p) > 0
       THEN /\ reply' = [to |-> "login", ip |-> p, is |-> 429, owed |-> owed[p].wait]
            /\ UNCHANGED <<g_sess, g_login, granted, owed>>
       ELSE /\ g_login' = login_result(p, ok)
            /\ reply' = [to |-> "login", ip |-> p, is |-> IF ok THEN 200 ELSE 401, owed |-> owed[p].wait]
            /\ owed' = [x \in Peer |->
                  IF Forgotten(x) THEN [fails |-> 0, wait |-> 0]
                  ELSE IF x = p THEN [fails |-> owed[p].fails + 1, wait |-> Wait(owed[p].fails + 1)]
                  ELSE owed[x]]
            /\ IF ok THEN /\ g_sess' = [g_sess EXCEPT ![Victim] = [token |-> t, left |-> SESSION_SECS]]
                          /\ granted' = [granted EXCEPT ![t] = [is |-> "in", age |-> 0]]
               ELSE UNCHANGED <<g_sess, granted>>

\* POST /api/logout with the cookie t.
Logout(t) ==
    /\ granted[t].is = "in"
    /\ g_sess' = session_drop(t) /\ granted' = [granted EXCEPT ![t].is = "out"]
    /\ reply' = [to |-> "logout"]
    /\ UNCHANGED <<g_login, owed>>

\* GET /api/status or /api/session with the cookie t: whether it is honoured.
Status(t) ==
    /\ reply' = [to |-> "status", token |-> t, is |-> IF session_valid(t) THEN 200 ELSE 401]
    /\ UNCHANGED <<g_sess, g_login, granted, owed>>

Minus(n) == IF n > 0 THEN n - 1 ELSE 0

Second ==
    /\ g_sess' = [i \in SSlot |-> [g_sess[i] EXCEPT !.left = Minus(@)]]
    /\ g_login' = [i \in LSlot |-> IF g_login[i] = NoLogin THEN NoLogin
                     ELSE [g_login[i] EXCEPT !.until = Minus(@), !.age = IF @ < OLD THEN @ + 1 ELSE @]]
    /\ granted' = [t \in Token |-> [granted[t] EXCEPT !.age = IF @ < SESSION_SECS /\ granted[t].is # "new" THEN @ + 1 ELSE @]]
    /\ owed' = [p \in Peer |-> [owed[p] EXCEPT !.wait = Minus(@)]]
    /\ reply' = [to |-> "none"]

NextToken == {t \in Token : granted[t].is = "new"}
Next ==
    \/ \E p \in Peer, ok \in BOOLEAN : NextToken # {} /\ Login(p, ok, CHOOSE t \in NextToken : TRUE)
    \/ \E t \in Token : Logout(t) \/ Status(t)
    \/ Second

Spec == Init /\ [][Next]_vars

-----------------------------------------------------------------------------
\* The page shows its numbers only to a token it gave out, less than SESSION_SECS
\* ago, that has not logged out.
HonouredIsGranted ==
    reply.to = "status" /\ reply.is = 200 =>
       granted[reply.token].is = "in" /\ granted[reply.token].age < SESSION_SECS

\* A session ends by its own logout, by its time, or because all slots were live
\* at a login and none had been logged in longer.
SessionEnds ==
    \A i \in SSlot : Live(i) /\ g_sess'[i].token # g_sess[i].token =>
       \/ granted'[g_sess[i].token].is = "out"
       \/ /\ \A j \in SSlot : Live(j) /\ granted[g_sess[j].token].age <= granted[g_sess[i].token].age

\* An address is refused a try exactly when the failures it made since its last
\* success, as far as the table has not forgotten it, say so: no guess is checked
\* early, and an address that got in is not kept waiting.
RefusedWhenOwed ==
    reply.to = "login" => (reply.is = 429 <=> reply.owed > 0)
=============================================================================
