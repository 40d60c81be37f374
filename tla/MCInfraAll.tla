----------------------------- MODULE MCInfraAll -----------------------------
(***************************************************************************)
(* Infra with five sets of callers, one per behaviour, the workers'        *)
(* read-modify-writes interleaved in each: workers that time servers out   *)
(* and hold them; workers that test DoT for long enough to give it up,     *)
(* alone, with plain answers recorded in between, and while the cache      *)
(* evicts the entry at any time; and workers that mark what a server's     *)
(* answers taught.                                                         *)
(***************************************************************************)
EXTENDS Infra, TLC

VARIABLE calls          \* the callers of this behaviour

WorkerSymmetry == Permutations(Workers)

Dot == INSTANCE Infra WITH
    Ops <- {"dot_claim"}, RTTs <- {0}, RTT_INITIAL <- 0, RTT_MAX <- 0,
    MaxNow <- 4

Mixed == INSTANCE Infra WITH
    Ops <- {"rtt_ok", "dot_claim"}, RTTs <- {0}, RTT_INITIAL <- 0, RTT_MAX <- 0,
    INFRA_TTL <- 1, MaxNow <- 2

Evict == INSTANCE Infra WITH
    Ops <- {"dot_claim"}, RTTs <- {0}, RTT_INITIAL <- 0, RTT_MAX <- 0,
    INFRA_TTL <- 1, CachePressure <- TRUE, MaxNow <- 2

Marks == INSTANCE Infra WITH
    Ops <- {"flag", "edns", "ecs_off"}, INFRA_TTL <- 1, CachePressure <- TRUE,
    MaxNow <- 2

AnyInit ==
    \/ calls = "hold" /\ Init
    \/ calls = "dot" /\ Dot!Init
    \/ calls = "mixed" /\ Mixed!Init
    \/ calls = "evict" /\ Evict!Init
    \/ calls = "marks" /\ Marks!Init

AnyNext ==
    /\ UNCHANGED calls
    /\ \/ calls = "hold" /\ Next
       \/ calls = "dot" /\ Dot!Next
       \/ calls = "mixed" /\ Mixed!Next
       \/ calls = "evict" /\ Evict!Next
       \/ calls = "marks" /\ Marks!Next

AnySpec == AnyInit /\ [][AnyNext]_<<calls, vars>>
=============================================================================
