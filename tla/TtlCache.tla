------------------------------ MODULE TtlCache ------------------------------
(***************************************************************************)
(* class TTLCache (lcloud/cache.py): an OrderedDict from the key used      *)
(* longest ago to the one used last, with counters of the bytes and of the *)
(* entries per namespace that are kept beside it.  No method awaits while  *)
(* it holds the lock, so each is one step.  The hit, miss and eviction     *)
(* statistics are left out.                                                *)
(*                                                                         *)
(* The OrderedDict is a function, data, and the order its keys are in: the *)
(* pairs of keys of which the first comes before the second.               *)
(***************************************************************************)
EXTENDS Integers, FiniteSetsExt, Functions

CONSTANTS
  Keys,
  Contents,     \* values to store
  Ttls,         \* times to live, in ticks; a ttl of 0 stores nothing
  Absent,
  Namespaces,
  NamespaceOf,  \* key -> namespace
  SizeOf,       \* value -> estimated bytes, its key's length included
  Groups,       \* the sets of keys that share a prefix
  MaxEntries, MaxBytes

VARIABLES
  cache,   \* [data, order, bytes, entries, nsBytes]
  recent   \* history: the pairs of keys of which the second was set or hit later

vars == <<cache, recent>>

TtlCacheAssumption ==
  /\ NamespaceOf \in [Keys -> Namespaces]
  /\ SizeOf \in [Contents -> Nat]
  /\ Ttls \subseteq Nat
  /\ Absent \notin [value : Contents, left : Nat]
  /\ Groups \subseteq SUBSET Keys
  /\ {MaxEntries, MaxBytes} \subseteq Nat

Zeros == [n \in Namespaces |-> 0]
Fresh == [data |-> <<>>, order |-> {}, bytes |-> 0, entries |-> Zeros, nsBytes |-> Zeros]

Init == cache = Fresh /\ recent = {}

-----------------------------------------------------------------------------
(* Accounting *)

Held(c) == DOMAIN c.data
InNamespace(c, n) == {k \in Held(c) : c.data[k].ns = n}
Bytes(data, S) == MapThenSumSet(LAMBDA k : data[k].size, S)

NotNegative(n) == IF n < 0 THEN 0 ELSE n

AccountAdd(c, e) ==
  [c EXCEPT !.bytes = @ + e.size,
            !.entries[e.ns] = @ + 1,
            !.nsBytes[e.ns] = @ + e.size]

(* The entries S, one after another.                                       *)
AccountRemove(c, S) ==
  [c EXCEPT !.bytes = NotNegative(@ - Bytes(c.data, S)),
            !.entries = [n \in Namespaces |-> NotNegative(@[n] - Cardinality(S \cap InNamespace(c, n)))],
            !.nsBytes = [n \in Namespaces |-> NotNegative(@[n] - Bytes(c.data, S \cap InNamespace(c, n)))]]

Keep(c, S) == [c EXCEPT !.data = Restrict(@, S), !.order = @ \cap (S \X S)]
RemoveKeys(c, S) == Keep(AccountRemove(c, S \cap Held(c)), Held(c) \ S)

(* Mutant: the entry that is replaced keeps its share of the counters. *)
ReplacedUncounted(c, k) == Keep(c, Held(c) \ {k})
Replaced(c, k) == RemoveKeys(c, {k})

(* What comes before the rest.                                             *)
Beginnings(c) == {P \in SUBSET Held(c) : \A x \in Held(c), y \in P : <<x, y>> \in c.order => x \in P}
Over(c) == Cardinality(Held(c)) > MaxEntries \/ c.bytes > MaxBytes

(* Mutant: one entry at most is evicted. *)
EvictOne(c) ==
  IF Over(c) THEN RemoveKeys(c, CHOOSE P \in Beginnings(c) : Cardinality(P) = 1) ELSE c

(* The entries used longest ago go until both limits are kept; an entry    *)
(* that is too large for the cache takes all the others with it.           *)
Evict(c) ==
  LET enough == {P \in Beginnings(c) : P = Held(c) \/ ~Over(RemoveKeys(c, P))}
  IN RemoveKeys(c, CHOOSE P \in enough : \A Q \in enough : Cardinality(P) =< Cardinality(Q))

-----------------------------------------------------------------------------
(* Methods *)

(* k comes last, after the keys S.                                         *)
Latest(order, k, S) == {p \in order : k \notin {p[1], p[2]}} \cup ((S \ {k}) \X {k})
Used(k) == recent' = Latest(recent, k, Keys)

(* Mutant: an entry outlives its time by a tick. *)
UsableTooLong(e) == e.left >= -1
Usable(e) == e.left >= 0

(* Mutant: a hit leaves the order alone. *)
TouchedNot(c, k) == c
Touched(c, k) == [c EXCEPT !.order = Latest(@, k, Held(c))]

Get(k) ==
  /\ k \in Held(cache)
  /\ IF Usable(cache.data[k])
       THEN cache' = Touched(cache, k) /\ Used(k)
       ELSE cache' = RemoveKeys(cache, {k}) /\ UNCHANGED recent

(* The entry e is put under k, behind the others.                          *)
Added(c, k, e) ==
  [c EXCEPT !.data = [x \in Held(c) \cup {k} |-> IF x = k THEN e ELSE @[x]],
            !.order = Latest(@, k, Held(c))]

Set(k, v, ttl) ==
  /\ ttl > 0
  /\ LET e == [value |-> v, left |-> ttl, size |-> SizeOf[v], ns |-> NamespaceOf[k]]
     IN cache' = Evict(AccountAdd(Added(Replaced(cache, k), k, e), e))
  /\ Used(k)

(* delete, delete_prefix, delete_namespace *)
Delete(S) ==
  /\ cache' = RemoveKeys(cache, S)
  /\ UNCHANGED recent

Clear ==
  /\ cache' = Fresh
  /\ UNCHANGED recent

(* time.monotonic() moves on.                                              *)
Aged(e) == [e EXCEPT !.left = IF @ < 0 THEN @ ELSE @ - 1]

Tick ==
  /\ cache' = [cache EXCEPT !.data = [k \in Held(cache) |-> Aged(cache.data[k])]]
  /\ UNCHANGED recent

Next ==
  \/ \E k \in Keys :
       \/ Get(k)
       \/ \E v \in Contents, ttl \in Ttls : Set(k, v, ttl)
       \/ Delete({k})
  \/ \E S \in Groups : Delete(S)
  \/ \E n \in Namespaces : Delete(InNamespace(cache, n))
  \/ Clear
  \/ Tick

Spec == Init /\ [][Next]_vars

-----------------------------------------------------------------------------
(* Properties *)

(* The counters stats() reports are those of the entries that are there,   *)
(* after any sequence of sets, replacements, evictions and deletions.      *)
AccountingExact ==
  /\ cache.bytes = Bytes(cache.data, Held(cache))
  /\ \A n \in Namespaces :
       /\ cache.entries[n] = Cardinality(InNamespace(cache, n))
       /\ cache.nsBytes[n] = Bytes(cache.data, InNamespace(cache, n))

(* Between two calls neither limit is exceeded.                            *)
WithinLimits == ~Over(cache)

(* An entry that a set pushes out was used longer ago than every entry it  *)
(* leaves (the new one aside, which may be too large to stay).             *)
EvictsOldest ==
  \A k \in Keys, v \in Contents, ttl \in Ttls : Set(k, v, ttl) =>
    \A x \in (Held(cache) \ Held(cache')) \ {k},
       y \in (Held(cache) \cap Held(cache')) \ {k} : <<x, y>> \in recent

(* The class keeps the promise of ForgetfulMap.                            *)
answers ==
  [k \in Keys |-> IF k \in Held(cache) /\ Usable(cache.data[k])
                    THEN [value |-> cache.data[k].value, left |-> cache.data[k].left]
                    ELSE Absent]
Promise == INSTANCE ForgetfulMap WITH cached <- answers
PromiseKept == Promise!Spec

=============================================================================
