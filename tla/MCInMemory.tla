----------------------------- MODULE MCInMemory -----------------------------
(* Instances of TtlCache, Workers and ReadCache for TLC.  They share         *)
(* nothing, so that a behaviour is of one of them, the others staying as     *)
(* they began: the cache with two documents and a list, a small and a large  *)
(* value and one larger than the cache; the pool; the bucket of the calls to *)
(* Telegram and one of a client of the API; and cached reads, where pages    *)
(* and query results live no tick after the one they are stored in, other    *)
(* entries one.                                                              *)
EXTENDS Integers, Sequences, FiniteSets

CONSTANTS
  doc1, doc2, list, small, large, huge, json_doc, json_list,
  Keys, Contents, Ttls, Absent, Namespaces, NamespaceOf, SizeOf, Groups, MaxEntries, MaxBytes,
  Jobs, MaxWorkers, Callers, MaxRetries, Repeat, Floods, MaxFloodWait, Addresses, Telegram,
  Burst, TicksPerToken, Clients, DocIds, List, PublicKey, TtlOf, KeyWrites, MaxWrites,
  Scenes

VARIABLES
  scene, cache, recent, job, waiters, free, active, bucket, call, debt,
  table, revoked, cached, session, writes

C == INSTANCE TtlCache
W == INSTANCE Workers
R == INSTANCE ReadCache

ASSUME InMemoryAssumption == C!TtlCacheAssumption /\ W!WorkersAssumption /\ R!ReadCacheAssumption

cacheVars == <<cache, recent>>
workVars == <<job, waiters, free, active, bucket, call, debt>>
readVars == <<table, revoked, cached, session, writes>>
vars == <<scene, cacheVars, workVars, readVars>>

MCNamespaceOf == [k \in Keys |-> IF k = list THEN json_list ELSE json_doc]
MCSizeOf == [v \in Contents |-> CASE v = small -> 1 [] v = large -> 2 [] v = huge -> 4]
MCGroups == {{doc1, doc2}}
MCTtlOf == [k \in DocIds \cup {List, PublicKey} |-> IF k = List THEN 0 ELSE 1]

Init == scene \in Scenes /\ C!Init /\ W!Init /\ R!Init

Next ==
  /\ \/ scene = "cache" /\ C!Next /\ UNCHANGED <<workVars, readVars>>
     \/ scene = "pool" /\ W!PoolNext /\ UNCHANGED <<cacheVars, readVars>>
     \/ scene = "buckets" /\ W!BucketNext /\ UNCHANGED <<cacheVars, readVars>>
     \/ scene = "reads" /\ R!Next /\ UNCHANGED <<cacheVars, workVars>>
  /\ UNCHANGED scene

(* That of Workers and of ReadCache. *)
Fairness ==
  /\ \A j \in Jobs :
       /\ WF_vars(scene = "pool" /\ W!Begin(j) /\ UNCHANGED <<scene, cacheVars, readVars>>)
       /\ WF_vars(scene = "pool" /\ W!End(j) /\ UNCHANGED <<scene, cacheVars, readVars>>)
  /\ \A c \in Callers : WF_vars(scene = "buckets" /\ W!Work(c) /\ UNCHANGED <<scene, cacheVars, readVars>>)
  /\ WF_vars(scene = "buckets" /\ W!Tick /\ UNCHANGED <<scene, cacheVars, readVars>>)
  /\ WF_vars(scene = "reads" /\ R!Tick /\ UNCHANGED <<scene, cacheVars, workVars>>)

Spec == Init /\ [][Next]_vars /\ Fairness

(* The cache's counters are those of its entries, each key is there once,    *)
(* and neither of its limits is exceeded.                                    *)
CacheBounded == C!AccountingExact /\ C!WithinLimits
(* The cache implements ForgetfulMap, and a set makes it forget what was     *)
(* used longest ago.                                                         *)
PromiseKept == C!PromiseKept /\ [][scene = "cache" => C!EvictsOldest]_vars
(* No slot of the pool is lost or used twice, and no bucket gives out more   *)
(* than its burst and what time refills.                                     *)
WorkersBounded == W!SlotsExact /\ W!BurstBounded
(* A submitted job runs or is cancelled, and a call to Telegram ends.        *)
EverybodyServed == W!EveryJobEnds /\ W!EveryCallEnds
(* A cached read goes stale only by a race that is known: a late fill, a     *)
(* write through a publishable key, or one about to delete the entry.        *)
StaleOnlyByRace == R!StaleOnlyByRace
(* No stale entry is there for ever, and a revoked key opens nothing at last.*)
StaleAnswersEnd == R!StaleAnswersEnd
=============================================================================
