----------------------------- MODULE PublicKeys -----------------------------
(***************************************************************************)
(* A user's keys (lcloud/api/storage_public.py; the limit is that of       *)
(* api_keys.py and of the publishable keys of json_db.py too): made up to  *)
(* a limit, revoked, and, for storage keys, used through a cache of the    *)
(* key with its cloud and user.                                            *)
(*                                                                         *)
(* The limit is a SELECT of the count and an INSERT, nothing holding the    *)
(* one to the other.  Revoking commits and then empties the cache.  Using  *)
(* a key asks the cache, SELECTs key, cloud and user on a miss, and stores *)
(* them.  Disconnecting the cloud deletes its keys by cascade, and no one  *)
(* tells the cache.                                                        *)
(***************************************************************************)
EXTENDS Integers, FiniteSets

CONSTANTS
  Clients,  \* requests in progress at one time
  Keys,     \* keys that may be made
  Clouds,
  MaxKeys   \* MAX_STORAGE_PUBLIC_KEYS_PER_USER and its like

VARIABLES
  key,    \* key -> "unmade", "active", "revoked" or "deleted"
  of,     \* key -> its cloud_id
  clouds, \* the user's clouds
  cached, \* keys with an entry in the cache
  task    \* client -> what its request is at

vars == <<key, of, clouds, cached, task>>

PublicKeysAssumption ==
  /\ MaxKeys \in Nat \ {0}
  /\ IsFiniteSet(Keys) /\ IsFiniteSet(Clients)

Idle == [at |-> "idle"]
At(c, place) == task[c].at = place
Goto(c, t) == task' = [task EXCEPT ![c] = t]

Init ==
  /\ key = [k \in Keys |-> "unmade"]
  /\ of \in [Keys -> Clouds]
  /\ clouds = Clouds
  /\ cached = {}
  /\ task = [c \in Clients |-> Idle]

ActiveKeys == {k \in Keys : key[k] = "active"}

-----------------------------------------------------------------------------
(* Made and revoked *)

(* Mutant: the limit is passed by one. *)
RoomByOne == Cardinality(ActiveKeys) =< MaxKeys
Room == Cardinality(ActiveKeys) < MaxKeys

CountActive(c) ==
  /\ At(c, "idle")
  /\ Room
  /\ \E cloud \in clouds : Goto(c, [at |-> "insert", cloud |-> cloud])
  /\ UNCHANGED <<key, of, clouds, cached>>

(* The INSERT fails if the cloud is gone (foreign_keys=ON).                *)
Insert(c) ==
  /\ At(c, "insert")
  /\ \/ /\ task[c].cloud \in clouds
        /\ \E k \in Keys : /\ key[k] = "unmade" /\ of[k] = task[c].cloud
                           /\ key' = [key EXCEPT ![k] = "active"]
        /\ Goto(c, [at |-> "invalidate"])
     \/ /\ task[c].cloud \notin clouds
        /\ Goto(c, Idle)
        /\ UNCHANGED key
  /\ UNCHANGED <<of, clouds, cached>>

(* A key revoked before is left alone, and the cache emptied again.        *)
Revoke(c, k) ==
  /\ At(c, "idle")
  /\ key[k] \in {"active", "revoked"}
  /\ key' = [key EXCEPT ![k] = "revoked"]
  /\ Goto(c, [at |-> "invalidate"])
  /\ UNCHANGED <<of, clouds, cached>>

(* Mutant: the cache is left to expire. *)
InvalidatedNever == cached
(* invalidate_json_storage_keys: all entries of the namespace.             *)
Invalidated == {}

Invalidate(c) ==
  /\ At(c, "invalidate")
  /\ cached' = Invalidated
  /\ Goto(c, Idle)
  /\ UNCHANGED <<key, of, clouds>>

Disconnect(cloud) ==
  /\ cloud \in clouds
  /\ clouds' = clouds \ {cloud}
  /\ key' = [k \in Keys |-> IF of[k] = cloud /\ key[k] # "unmade" THEN "deleted" ELSE key[k]]
  /\ UNCHANGED <<of, cached, task>>

-----------------------------------------------------------------------------
(* Used: _load_public_storage_context *)

(* Mutant: a key is found though it is revoked. *)
FoundAnyway(k) == key[k] \in {"active", "revoked"}
Found(k) == key[k] = "active"

AskCache(c, k) ==
  /\ At(c, "idle")
  /\ key[k] # "unmade"
  /\ \/ k \in cached /\ Goto(c, [at |-> "serve", key |-> k])
     \/ k \notin cached /\ Found(k) /\ Goto(c, [at |-> "cloud", key |-> k])
  /\ UNCHANGED <<key, of, clouds, cached>>

(* SELECT of the cloud, the user and the database; 404 without one.        *)
LoadCloud(c) ==
  /\ At(c, "cloud")
  /\ Goto(c, IF of[task[c].key] \in clouds THEN [task[c] EXCEPT !.at = "fill"] ELSE Idle)
  /\ UNCHANGED <<key, of, clouds, cached>>

Fill(c) ==
  /\ At(c, "fill")
  /\ cached' = cached \cup {task[c].key}
  /\ Goto(c, [task[c] EXCEPT !.at = "serve"])
  /\ UNCHANGED <<key, of, clouds>>

(* The listing, upload or download the key was presented for.              *)
Serve(c) ==
  /\ At(c, "serve")
  /\ Goto(c, Idle)
  /\ UNCHANGED <<key, of, clouds, cached>>

(* PUBLIC_KEY_TTL passes.                                                  *)
Expire(k) ==
  /\ k \in cached
  /\ cached' = cached \ {k}
  /\ UNCHANGED <<key, of, clouds, task>>

Step(c) == Insert(c) \/ Invalidate(c) \/ LoadCloud(c) \/ Fill(c) \/ Serve(c)

Next ==
  \/ \E c \in Clients : Step(c) \/ CountActive(c)
  \/ \E c \in Clients, k \in Keys : Revoke(c, k) \/ AskCache(c, k)
  \/ \E k \in Keys : Expire(k)
  \/ \E cloud \in Clouds : Disconnect(cloud)

(* Requests go on, and entries of the cache expire.                        *)
Fairness ==
  /\ \A c \in Clients : WF_vars(Step(c))
  /\ \A k \in Keys : WF_vars(Expire(k))

Spec == Init /\ [][Next]_vars /\ Fairness

-----------------------------------------------------------------------------
(* Properties *)

(* Each request that overlaps with others may add one key to a full house. *)
ActiveKeysWithin(overlapping) == Cardinality(ActiveKeys) =< MaxKeys - 1 + overlapping

(* A key that was revoked does nothing more.                               *)
RevokedRefused == \A c \in Clients : At(c, "serve") => key[task[c].key] # "revoked"

(* A fill under way may bring a revoked or deleted key back; in the end it *)
(* is forgotten for good.                                                  *)
DeadKeysForgotten ==
  \A k \in Keys : key[k] \in {"revoked", "deleted"} ~> [](k \notin cached)

(* What the code does not give: a disconnected cloud's keys are cached on. *)
DeletedRefused == \A c \in Clients : At(c, "serve") => key[task[c].key] # "deleted"
=============================================================================
