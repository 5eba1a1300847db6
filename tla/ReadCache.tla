------------------------------ MODULE ReadCache ------------------------------
(***************************************************************************)
(* The cached reads of one JSON collection (lcloud/api/json_db.py) over    *)
(* the cache of lcloud/cache.py, which is used through its promise,        *)
(* ForgetfulMap.                                                           *)
(*                                                                         *)
(* A read asks the cache, SELECTs on a miss, closes its session and stores *)
(* what it read; a write commits and then deletes the keys it touched.     *)
(* Every arrow of these is an await: other requests run between the steps. *)
(* The routers differ: the owner's and the by-id router read and delete    *)
(* the cached documents; the publishable-key router caches the lookup of   *)
(* its key only, reads documents from the table and deletes nothing.       *)
(*                                                                         *)
(* List stands for the pages and the query results of the collection.      *)
(***************************************************************************)
EXTENDS Integers, FiniteSets

CONSTANTS
  Clients,
  DocIds,
  List,       \* the json_list: and json_query: keys of the collection
  PublicKey,  \* the json_public_key: entry of a publishable key
  TtlOf,      \* key -> time to live in ticks
  Absent,     \* not cached; also a document that is not there
  KeyWrites,  \* whether clients write through the publishable key
  MaxWrites   \* bound: committed document writes

VARIABLES
  table,    \* doc_id -> number of the write its data is from, or Absent
  revoked,  \* the key's revoked_at is set
  cached,   \* the cache
  session,  \* client -> what its request is at
  writes    \* number of the last write

vars == <<table, revoked, cached, session, writes>>

CacheKeys == DocIds \cup {List, PublicKey}
Table == [DocIds -> (1..MaxWrites) \cup {Absent}]
CacheContents == (1..MaxWrites) \cup Table \cup {TRUE}
Cache == INSTANCE ForgetfulMap
  WITH Keys <- CacheKeys, Contents <- CacheContents, Ttls <- {TtlOf[k] : k \in CacheKeys}

ReadCacheAssumption ==
  /\ TtlOf \in [CacheKeys -> Nat]
  /\ KeyWrites \in BOOLEAN
  /\ MaxWrites \in Nat

Idle == [at |-> "idle"]
At(c, place) == session[c].at = place
Goto(c, s) == session' = [session EXCEPT ![c] = s]

Init ==
  /\ table = [d \in DocIds |-> Absent]
  /\ revoked = FALSE
  /\ Cache!Init
  /\ session = [c \in Clients |-> Idle]
  /\ writes = 0

-----------------------------------------------------------------------------
(* Reads *)

(* What a SELECT for the key answers; Absent is a 404.                     *)
Source(k) ==
  CASE k = List      -> table
    [] k = PublicKey -> IF revoked THEN Absent ELSE TRUE
    [] OTHER         -> table[k]

(* Who has the lookup of the key goes on to the documents with it.         *)
Answered(k) == IF k = PublicKey THEN [at |-> "admitted"] ELSE Idle

(* Mutant: a hit renews the entry's time to live. *)
HitRenews(c, k) ==
  /\ At(c, "idle")
  /\ cached[k] # Absent
  /\ Goto(c, Answered(k))
  /\ cached' = [cached EXCEPT ![k].left = TtlOf[k]]
  /\ UNCHANGED <<table, revoked, writes>>

Hit(c, k) ==
  /\ At(c, "idle")
  /\ cached[k] # Absent
  /\ Goto(c, Answered(k))
  /\ UNCHANGED <<table, revoked, cached, writes>>

Miss(c, k) ==
  /\ At(c, "idle")
  /\ cached[k] = Absent
  /\ Goto(c, [at |-> "missed", key |-> k])
  /\ UNCHANGED <<table, revoked, cached, writes>>

Select(c) ==
  /\ At(c, "missed")
  /\ LET k == session[c].key IN
       Goto(c, IF Source(k) = Absent THEN Idle
               ELSE [at |-> "selected", key |-> k, value |-> Source(k)])
  /\ UNCHANGED <<table, revoked, cached, writes>>

Fill(c) ==
  /\ At(c, "selected")
  /\ LET k == session[c].key IN
       /\ Cache!Store(k, session[c].value, TtlOf[k], {})
       /\ Goto(c, Answered(k))
  /\ UNCHANGED <<table, revoked, writes>>

-----------------------------------------------------------------------------
(* Writes *)

(* A committed write of the documents S: new data, or a deletion.          *)
Written(S) ==
  /\ writes < MaxWrites
  /\ writes' = writes + 1
  /\ \E gone \in SUBSET S :
       table' = [d \in DocIds |-> IF d \notin S THEN table[d]
                                  ELSE IF d \in gone THEN Absent ELSE writes + 1]

(* Mutant: the pages and query results are left in the cache. *)
InvalidatedDocOnly(S) == S
(* invalidate_json_document; a batch calls invalidate_json_collection.     *)
Invalidated(S) == IF Cardinality(S) = 1 THEN S \cup {List} ELSE DocIds \cup {List}

CommitWrite(c, S) ==
  /\ At(c, "idle")
  /\ Written(S)
  /\ Goto(c, [at |-> "committed", keys |-> Invalidated(S)])
  /\ UNCHANGED <<revoked, cached>>

CommitRevoke(c) ==
  /\ At(c, "idle")
  /\ revoked' = TRUE
  /\ Goto(c, [at |-> "committed", keys |-> {PublicKey}])
  /\ UNCHANGED <<table, cached, writes>>

Invalidate(c) ==
  /\ At(c, "committed")
  /\ Cache!Drop(session[c].keys)
  /\ Goto(c, Idle)
  /\ UNCHANGED <<table, revoked, writes>>

(* A request the key admitted: a read of the table, or a write.            *)
KeyRequest(c) ==
  /\ At(c, "admitted")
  /\ Goto(c, Idle)
  /\ \/ UNCHANGED <<table, writes>>
     \/ KeyWrites /\ \E d \in DocIds : Written({d})
  /\ UNCHANGED <<revoked, cached>>

-----------------------------------------------------------------------------
(* The world around *)

(* What other routes store pushes entries out; the owner clears the cache. *)
Forget ==
  /\ \E k \in CacheKeys : cached[k] # Absent /\ Cache!Drop({k})
  /\ UNCHANGED <<table, revoked, session, writes>>

Tick ==
  /\ Cache!Age
  /\ UNCHANGED <<table, revoked, session, writes>>

Restart ==
  /\ Cache!Drop(CacheKeys)
  /\ session' = [c \in Clients |-> Idle]
  /\ UNCHANGED <<table, revoked, writes>>

Next ==
  \/ \E c \in Clients :
       \/ \E k \in CacheKeys : Hit(c, k) \/ Miss(c, k)
       \/ Select(c) \/ Fill(c)
       \/ \E S \in SUBSET DocIds \ {{}} : CommitWrite(c, S)
       \/ CommitRevoke(c) \/ Invalidate(c)
       \/ KeyRequest(c)
  \/ Forget \/ Tick \/ Restart

(* Time passes; nothing is assumed of the requests.                        *)
Spec == Init /\ [][Next]_vars /\ WF_vars(Tick)

-----------------------------------------------------------------------------
(* Properties *)

TypeOK ==
  /\ table \in Table
  /\ revoked \in BOOLEAN
  /\ \A k \in CacheKeys : cached[k] # Absent =>
       /\ cached[k].left \in 0..TtlOf[k]
       /\ cached[k].value \in CASE k = List -> Table
                                [] k = PublicKey -> {TRUE}
                                [] OTHER -> 1..MaxWrites
  /\ \A c \in Clients : session[c].at \in
       {"idle", "missed", "selected", "admitted", "committed"}

Stale(k) == cached[k] # Absent /\ cached[k].value # Source(k)
Quiet == \A c \in Clients : session[c].at \in {"idle", "admitted"}

(* An entry becomes stale in no other way than by a read that stores what  *)
(* it SELECTed before a write, by a write through the publishable key, or  *)
(* by a write that is just about to delete it: no page, query result or    *)
(* key is forgotten by the invalidation, and no two requests conspire.     *)
LateFill(k) ==
  \E c \in Clients : /\ At(c, "selected") /\ session'[c].at # "selected"
                     /\ session[c].key = k /\ session[c].value # Source(k)
ByKey == \E c \in Clients : At(c, "admitted") /\ session'[c].at # "admitted"
ToBeDeleted(k) ==
  \E c \in Clients : session'[c].at = "committed" /\ k \in session'[c].keys
StaleOnlyByRace ==
  [][\A k \in CacheKeys : ~Stale(k) /\ Stale(k)' => LateFill(k) \/ ByKey \/ ToBeDeleted(k)]_vars

(* "Cached data is invalidated automatically after writes": when no        *)
(* request is between two of its steps, the cache answers what the tables  *)
(* would.                                                                  *)
Coherent == Quiet => \A k \in CacheKeys : ~Stale(k)

(* Whatever overlaps, a stale answer is not given for ever, however often  *)
(* the key is read; and there comes a time after which no request is       *)
(* admitted with a revoked key.                                            *)
StaleAnswersEnd ==
  /\ \A k \in CacheKeys : []<>~Stale(k)
  /\ revoked ~> [](cached[PublicKey] = Absent)

=============================================================================
