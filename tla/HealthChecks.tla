---------------------------- MODULE HealthChecks ----------------------------
(***************************************************************************)
(* features/bot/health: CheckHealthUseCase over the database's and the     *)
(* cache's check, asked by /ping, which any number of users may run at     *)
(* once, and by the watch job.  The cache is the memory cache, alone or in *)
(* front of Redis; all checks of all instances write the one key "probe".  *)
(*                                                                         *)
(* A write to memory is done when the call is made and a write to Redis    *)
(* when it lands; a check of the database or a command to Redis fails      *)
(* after its own timeouts at the latest.  Time is left out: the key may    *)
(* lapse at any moment.                                                    *)
(***************************************************************************)
EXTENDS Naturals

CONSTANTS
    Checkers,       \* who asks for reports, each for one at a time
    Nothing,
    Elsewhere,      \* a token of another instance
    MaxReports      \* bound: reports per checker

ASSUME BoundAssumption == MaxReports \in Nat \ {0}

\* performance.now() at the start of a check: no two are alike.
Token(c, n) == <<c, n>>

Tokens == {Token(c, n) : c \in Checkers, n \in 1..MaxReports}

ASSUME NamesAssumption == Nothing # Elsewhere /\ Tokens \cap {Nothing, Elsewhere} = {}

VARIABLES
    tiered,         \* Redis is configured
    l1, l2,         \* the key in this instance's memory and in Redis
    redisUp,
    databaseUp,
    check,          \* check[c]: c's report under way, or its last one
    disturbed       \* disturbed[c]: history, the key was lost or overwritten under c's check

healthVars == <<tiered, l1, l2, redisUp, databaseUp, check, disturbed>>

Idle == [n |-> 0, cache |-> "idle", database |-> "idle"]

HealthInit ==
    /\ tiered \in BOOLEAN
    /\ l1 = Nothing /\ l2 = Nothing
    /\ redisUp = TRUE /\ databaseUp = TRUE
    /\ check = [c \in Checkers |-> Idle]
    /\ disturbed = [c \in Checkers |-> FALSE]

Mine(c) == Token(c, check[c].n)
Verdicts == {"good", "bad"}
Reported(c) == {check[c].cache, check[c].database} \subseteq Verdicts
Checking(c) == check[c].n > 0 /\ ~Reported(c)

Disturbs(cs) == disturbed' = [c \in Checkers |-> disturbed[c] \/ (c \in cs /\ Checking(c))]

-----------------------------------------------------------------------------
(* CheckHealthUseCase.execute: all checks at once *)

\* Mutant of SetMemory: a tiered cache writes to Redis only.
SetMemoryUnlessTiered(token) == l1' = IF tiered THEN l1 ELSE token

\* Cache.set reaches memory at once, also in front of Redis.
SetMemory(token) == l1' = token

Begin(c) ==
    /\ ~Checking(c) /\ check[c].n < MaxReports
    /\ LET n == check[c].n + 1
       IN  /\ check' = [check EXCEPT ![c] =
                [n |-> n, cache |-> IF tiered THEN "writing" ELSE "written", database |-> "asked"]]
           /\ SetMemory(Token(c, n))
    /\ disturbed' = [d \in Checkers |-> d # c /\ (disturbed[d] \/ Checking(d))]
    /\ UNCHANGED <<tiered, l2, redisUp, databaseUp>>

-----------------------------------------------------------------------------
(* CacheHealthCheck.check, through MemoryCache or TieredCache *)

\* A write to Redis that fails is logged and otherwise as good as one that
\* landed; its acknowledgement may be what was lost.
RedisSet(c) ==
    /\ check[c].cache = "writing"
    /\ l2' \in IF redisUp THEN {l2, Mine(c)} ELSE {l2}
    /\ check' = [check EXCEPT ![c].cache = "written"]
    /\ Disturbs(IF l2' = l2 THEN {} ELSE Checkers \ {c})
    /\ UNCHANGED <<tiered, l1, redisUp, databaseUp>>

Judge(c, value) == [check EXCEPT ![c].cache = IF value = Mine(c) THEN "good" ELSE "bad"]

ReadMemory(c) ==
    /\ check[c].cache = "written"
    /\ check' = IF l1 # Nothing \/ ~tiered THEN Judge(c, l1)
                ELSE [check EXCEPT ![c].cache = "asking"]
    /\ UNCHANGED <<tiered, l1, l2, redisUp, databaseUp, disturbed>>

\* A read that fails is a miss; what was found is promoted to memory.
RedisGet(c) ==
    /\ check[c].cache = "asking"
    /\ \E value \in {Nothing} \cup (IF redisUp THEN {l2} ELSE {}) :
        /\ check' = Judge(c, value)
        /\ l1' = IF value = Nothing THEN l1 ELSE value
    /\ Disturbs(IF l1' = l1 THEN {} ELSE Checkers \ {c})
    /\ UNCHANGED <<tiered, l2, redisUp, databaseUp>>

\* The entry's five seconds are over, or it was evicted.
MemoryLapses ==
    /\ l1 # Nothing
    /\ l1' = Nothing
    /\ Disturbs(Checkers)
    /\ UNCHANGED <<tiered, l2, redisUp, databaseUp, check>>

RedisLapses ==
    /\ l2 # Nothing
    /\ l2' = Nothing
    /\ Disturbs(Checkers)
    /\ UNCHANGED <<tiered, l1, redisUp, databaseUp, check>>

\* An instance beside this one checks its health over the same Redis.
ElsewhereChecks ==
    /\ tiered /\ redisUp /\ l2 # Elsewhere
    /\ l2' = Elsewhere
    /\ Disturbs(Checkers)
    /\ UNCHANGED <<tiered, l1, redisUp, databaseUp, check>>

-----------------------------------------------------------------------------
(* DatabaseHealthCheck.check, and runSafely around it *)

\* Mutant of DatabaseFails: what the query throws is not caught.
DatabaseFailsUncaught(c) ==
    /\ check[c].database = "asked"
    /\ check' = [check EXCEPT ![c].database = "thrown"]
    /\ UNCHANGED <<tiered, l1, l2, redisUp, databaseUp, disturbed>>

\* A database that is up may fail the query too, when its pool has no connection
\* to give.
DatabaseFails(c) ==
    /\ check[c].database = "asked"
    /\ check' = [check EXCEPT ![c].database = "bad"]
    /\ UNCHANGED <<tiered, l1, l2, redisUp, databaseUp, disturbed>>

DatabaseAnswers(c) ==
    /\ check[c].database = "asked" /\ databaseUp
    /\ check' = [check EXCEPT ![c].database = "good"]
    /\ UNCHANGED <<tiered, l1, l2, redisUp, databaseUp, disturbed>>

-----------------------------------------------------------------------------
RedisChanges ==
    /\ tiered
    /\ redisUp' = ~redisUp
    /\ UNCHANGED <<tiered, l1, l2, databaseUp, check, disturbed>>

DatabaseChanges ==
    /\ databaseUp' = ~databaseUp
    /\ UNCHANGED <<tiered, l1, l2, redisUp, check, disturbed>>

CacheStep(c) == RedisSet(c) \/ ReadMemory(c) \/ RedisGet(c)
DatabaseStep(c) == DatabaseFails(c) \/ DatabaseAnswers(c)

HealthNext ==
    \/ \E c \in Checkers : Begin(c) \/ CacheStep(c) \/ DatabaseStep(c)
    \/ MemoryLapses \/ RedisLapses \/ ElsewhereChecks
    \/ RedisChanges \/ DatabaseChanges

\* Every command to Redis and every query ends, if only by its timeout.
HealthFairness == \A c \in Checkers : WF_healthVars(CacheStep(c)) /\ WF_healthVars(DatabaseStep(c))

HealthSpec == HealthInit /\ [][HealthNext]_healthVars /\ HealthFairness

-----------------------------------------------------------------------------
(* Properties *)

HealthTypeOK ==
    /\ {tiered, redisUp, databaseUp} \subseteq BOOLEAN
    /\ {l1, l2} \subseteq Tokens \cup {Nothing, Elsewhere}
    /\ check \in [Checkers ->
        [n : 0..MaxReports,
         cache : {"idle", "writing", "written", "asking"} \cup Verdicts,
         database : {"idle", "asked"} \cup Verdicts]]
    /\ disturbed \in [Checkers -> BOOLEAN]

\* A cache is reported broken only when the key was taken from under the check:
\* another check wrote it, here or on another instance, it lapsed, or it was
\* promoted from Redis over a newer one.  What Redis does to a check that nobody
\* disturbs is never seen, since memory answers first (cache.health-check.ts:37-46
\* over tiered.cache.ts:24-52).
CacheAlarmsAreExplained ==
    /\ HealthTypeOK
    /\ \A c \in Checkers : check[c].cache = "bad" => disturbed[c]

\* A report is given whatever is down: a check that throws is a dependency that
\* is down (check-health.usecase.ts:39-54).
EveryReportEnds == \A c \in Checkers : Checking(c) ~> Reported(c)
=============================================================================
