------------------------------ MODULE Sockets ------------------------------
(***************************************************************************)
(* A worker's pool of outgoing UDP sockets (src/resolver/outbound.c):        *)
(* elpis_out_init() opens a socket per slot, families alternating, and keeps *)
(* for later the slots whose outgoing-interface address is not up yet;       *)
(* elpis_out_refill(), run every second, tries those again at growing        *)
(* intervals.  A query remembers the index of the socket it left from.       *)
(***************************************************************************)
EXTENDS Naturals, Sequences, SequencesExt

CONSTANTS SLOTS,        \* out_sockets
          MAX_SRC,      \* ELPIS_MAX_OUT_SRC
          MAX_BACK      \* the longest interval, 10 s in the code

Slot == 0..(SLOTS - 1)
Found == {"up", "absent", "broken"}     \* what binding to an address meets

VARIABLES phase,         \* "start", "running", "failed"
          conf,          \* the families in use; have_src of each
          net,           \* per address: Found
          osock,         \* the open sockets, by index: the slot of each
          missing,       \* osock_missing
          backoff, left, \* osock_backoff; seconds until osock_retry_ms
          given          \* history: slots given up at the start

vars == <<phase, conf, net, osock, missing, backoff, left, given>>

slot_family(i) == IF conf.on = {4, 6} THEN IF i % 2 = 0 THEN 4 ELSE 6
                  ELSE CHOOSE f \in conf.on : TRUE

\* The address a slot leaves from; 0 stands for any address of the family.
slot_src(i) == LET f == slot_family(i)
               IN  <<f, IF conf.have[f] = 0 THEN 0 ELSE 1 + (i % conf.have[f])>>

\* The addresses of a configuration.
Addresses(c) == UNION {{f} \X (IF c.have[f] = 0 THEN {0} ELSE 1..c.have[f]) : f \in c.on}

\* slot_open(): an address that is absent is worth waiting for if it was asked for.
slot_open(i) == IF net[slot_src(i)] = "absent" /\ conf.have[slot_family(i)] = 0
                THEN "broken" ELSE net[slot_src(i)]

Init ==
    /\ phase = "start"
    /\ conf \in [on : (SUBSET {4, 6}) \ {{}}, have : [{4, 6} -> 0..MAX_SRC]]
    /\ \A f \in {4, 6} \ conf.on : conf.have[f] = 0
    /\ net \in [Addresses(conf) -> Found]
    /\ osock = <<>> /\ missing = <<>>
    /\ backoff = 1 /\ left = 1 /\ given = {}

\* The slots elpis_out_init() comes to: it stops after an IPv4 one it cannot open.
Reached == {i \in Slot : \A j \in 0..(i - 1) : slot_open(j) = "broken" => slot_family(j) = 6}

\* The slots of S in order.
Ordered(S) == SelectSeq([i \in 1..SLOTS |-> i - 1], LAMBDA i : i \in S)

elpis_out_init ==
    /\ phase = "start"
    /\ osock' = Ordered({i \in Reached : slot_open(i) = "up"})
    /\ missing' = Ordered({i \in Reached : slot_open(i) = "absent"})
    /\ given' = {i \in Slot : i \in Reached => slot_open(i) = "broken"}
    /\ phase' = IF osock' = <<>> /\ missing' = <<>> THEN "failed" ELSE "running"
    /\ UNCHANGED <<conf, net, backoff, left>>

\* The pool once the slots of new are open.
Pool(new) == osock \o new

\* Mutant: a slot that fails otherwise than by its address is dropped, as at the start.
Keeps_Absent(i) == slot_open(i) = "absent"

\* elpis_out_refill() keeps a slot it could not open, for whatever reason.
Keeps(i) == slot_open(i) # "up"

\* Some slots are missing, and the time for trying them has come.
Retry == missing # <<>> /\ left = 0

elpis_out_refill ==
    /\ phase = "running" /\ Retry
    /\ osock' = Pool(SelectSeq(missing, LAMBDA i : slot_open(i) = "up"))
    /\ missing' = SelectSeq(missing, Keeps)
    /\ backoff' = IF 2 * backoff > MAX_BACK THEN MAX_BACK ELSE 2 * backoff
    /\ left' = backoff'
    /\ UNCHANGED <<phase, conf, net, given>>

\* maint_tick() when it is not time yet.
Tick ==
    /\ phase = "running" /\ missing # <<>> /\ left > 0
    /\ left' = left - 1
    /\ UNCHANGED <<phase, conf, net, osock, missing, backoff, given>>

\* Addresses come and go, and other errors with them.
Change ==
    /\ phase = "running"
    /\ \E x \in DOMAIN net, s \in Found : s # net[x] /\ net' = [net EXCEPT ![x] = s]
    /\ UNCHANGED <<phase, conf, osock, missing, backoff, left, given>>

\* elpis_out_fini()
Fini ==
    /\ phase = "running" /\ phase' = "failed"
    /\ osock' = <<>> /\ missing' = <<>>
    /\ UNCHANGED <<conf, net, backoff, left, given>>

Next == elpis_out_init \/ elpis_out_refill \/ Tick \/ Change \/ Fini

\* The tick runs every second as long as the worker does.
Step == elpis_out_init \/ elpis_out_refill \/ Tick
Spec == Init /\ [][Next]_vars /\ WF_vars(Step)

-----------------------------------------------------------------------------
\* Every slot is open, kept for later or given up at the start, and only one of
\* these: none is opened twice or forgotten by the loop of elpis_out_refill()
\* that opens some while it moves the others down.
Accounted ==
    phase = "running" =>
       /\ IsInjective(osock \o missing)
       /\ Range(osock \o missing) = Slot \ given

\* A socket keeps its index while the pool lives, whatever is opened later: a
\* reply is matched by the index its query left from.
IndexKept ==
    phase' # "failed" => IsPrefix(osock, osock')

\* A slot kept at the start whose address is up for good from some time on is
\* opened, whatever other errors it met on the way, unless the worker ends.
ComesUp ==
    \A i \in Slot :
       []<>(i \in Range(missing) => phase = "failed" \/ slot_open(i) # "up")

\* docs/configuration.md: the addresses of a family "are used round-robin across
\* the outbound socket pool".  With slots enough for all, all of them open, a
\* query can leave from each address.
RoundRobin ==
    phase = "running" /\ given = {} /\ missing = <<>> =>
       \A x \in Addresses(conf) : \E i \in DOMAIN osock : slot_src(osock[i]) = x
=============================================================================
