---------------------------- MODULE ForgetfulMap ----------------------------
(***************************************************************************)
(* What lcloud/cache.py promises its callers: a map that answers with the  *)
(* value stored last under a key, for no longer than the time to live it   *)
(* was stored with, and that may forget anything at any time.              *)
(***************************************************************************)
EXTENDS Integers

CONSTANTS
  Keys,
  Contents,   \* what may be stored
  Ttls,       \* times to live, in ticks of the clock
  Absent      \* nothing is stored

VARIABLE cached   \* what get() answers now: key -> [value, left] or Absent

Nothing == [k \in Keys |-> Absent]

(* Storing may push out any of the entries, the new one among them.        *)
Store(k, v, ttl, evicted) ==
  cached' = [x \in Keys |-> IF x \in evicted THEN Absent
                            ELSE IF x = k THEN [value |-> v, left |-> ttl]
                            ELSE cached[x]]

Drop(S) == cached' = [x \in Keys |-> IF x \in S THEN Absent ELSE cached[x]]

(* The clock ticks: an entry in its last tick is gone after it.            *)
Age ==
  cached' = [x \in Keys |->
               IF cached[x] = Absent \/ cached[x].left = 0 THEN Absent
               ELSE [cached[x] EXCEPT !.left = @ - 1]]

Init == cached = Nothing

Next ==
  \/ \E k \in Keys, v \in Contents, ttl \in Ttls, S \in SUBSET Keys : Store(k, v, ttl, S)
  \/ \E S \in SUBSET Keys : Drop(S)
  \/ Age

Spec == Init /\ [][Next]_cached

=============================================================================
