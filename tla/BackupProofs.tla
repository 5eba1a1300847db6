---------------------------- MODULE BackupProofs ----------------------------
(***************************************************************************)
(* What is proved of the backup of the operation log and the restore, for  *)
(* any databases, principals, documents and bounds: whatever crashes, is   *)
(* refused or comes late, the watermark never passes what is in the chat,  *)
(* the worker is never stuck on a range it marked, and what is in the chat *)
(* restores the database.                                                  *)
(***************************************************************************)
EXTENDS MCBackup, FiniteSetTheorems, SequenceTheorems, NaturalsInduction, WellFoundedInduction, TLAPS

-----------------------------------------------------------------------------
(* Numbers and sequences *)

LEMMA Lowest ==
  ASSUME NEW T \in SUBSET Nat, T # {}
  PROVE  Min(T) \in T /\ \A m \in T : Min(T) =< m
<1>1. PICK n \in T : \A m \in T : ~(<<m, n>> \in OpToRel(<, Nat))
  BY NatLessThanWellFounded, WFMin
<1>2. ASSUME NEW m \in T PROVE n =< m
  <2>1. ~(m < n)
    BY <1>1 DEF OpToRel
  <2> QED BY <2>1
<1>3. \E m \in T : \A y \in T : m =< y
  BY <1>2
<1> QED BY <1>3 DEF Min

LEMMA Highest ==
  ASSUME NEW T \in SUBSET Nat, T # {}, NEW bound \in Nat, \A n \in T : n =< bound
  PROVE  Max(T) \in T /\ \A m \in T : m =< Max(T)
<1>1. PICK D : D = {bound - n : n \in T}
  OBVIOUS
<1>2. D \in SUBSET Nat /\ D # {}
  <2>1. ASSUME NEW n \in T PROVE bound - n \in Nat
    <3>1. n \in Nat /\ n =< bound
      OBVIOUS
    <3> QED BY <3>1
  <2> QED BY <1>1, <2>1
<1>3. PICK d \in D : \A e \in D : d =< e
  BY <1>2, Lowest
<1>4. PICK n \in T : d = bound - n
  BY <1>1, <1>3
<1>5. ASSUME NEW m \in T PROVE n >= m
  <2>1. bound - m \in D
    BY <1>1
  <2>2. bound - n =< bound - m
    BY <1>3, <1>4, <2>1
  <2> QED BY <2>2
<1>6. \E n_1 \in T : \A m \in T : n_1 >= m
  BY <1>5
<1>7. Max(T) \in T /\ \A m \in T : Max(T) >= m
  BY <1>6 DEF Max
<1>8. \A m \in T : Max(T) \in Nat /\ m \in Nat /\ Max(T) >= m
  BY <1>7
<1> QED BY <1>7, <1>8

(* The messages of a chat, of whatever kind.                               *)
IsChat(q) == \E S : q \in Seq(S)

LEMMA Appending ==
  ASSUME NEW q, IsChat(q), NEW message
  PROVE  /\ IsChat(Append(q, message))
         /\ \A i \in DOMAIN q : i \in DOMAIN Append(q, message) /\ Append(q, message)[i] = q[i]
         /\ \E i \in DOMAIN Append(q, message) : Append(q, message)[i] = message
<1>1. PICK S : q \in Seq(S)
  BY DEF IsChat
<1>2. PICK T : T = S \cup {message}
  OBVIOUS
<1>3. q \in Seq(T) /\ message \in T
  BY <1>1, <1>2, SeqMonotonic
<1>4. PICK r : r = Append(q, message)
  OBVIOUS
<1>5. /\ r \in Seq(T) /\ Len(q) \in Nat /\ DOMAIN q = 1..Len(q) /\ DOMAIN r = 1..(Len(q) + 1)
      /\ (\A i \in DOMAIN q : r[i] = q[i]) /\ r[Len(q) + 1] = message
  BY <1>3, <1>4
<1>6. IsChat(r)
  BY <1>5 DEF IsChat
<1>7. \A i \in DOMAIN q : i \in DOMAIN r
  BY <1>5
<1>8. Len(q) + 1 \in DOMAIN r
  BY <1>5
<1> QED BY <1>4, <1>5, <1>6, <1>7, <1>8

-----------------------------------------------------------------------------
(* What is always so *)

Places == {"asleep", "busy", "built", "sent"}
Shaped(w) == \E pc \in Places : \E q, s : w = [pc |-> pc, queue |-> q, segment |-> s]
Holds == worker.pc \in {"built", "sent"}

TypeInv ==
  /\ colls \in [CollIds -> CollRow \cup {Absent}]
  /\ IsFiniteSet(ops) /\ \A o \in ops : o.id \in 1..MaxOps /\ o.coll \in Existing
  /\ mark \in [Dbs -> Nat] /\ segments \in [Dbs -> SUBSET (Nat \X Nat)]
  /\ chat \in [Dbs -> {chat[b] : b \in Dbs}] /\ \A b \in Dbs : IsChat(chat[b])
  /\ Shaped(worker) /\ deletes \in Nat

(* A segment is above the watermark and the ranges are not.                *)
Above ==
  /\ \A b \in Dbs : \A k \in segments[b] : k[2] =< mark[b]
  /\ Holds => /\ worker.segment.db \in Dbs
              /\ worker.segment.first \in 1..MaxOps /\ worker.segment.last \in 1..MaxOps
              /\ mark[worker.segment.db] < worker.segment.first
              /\ worker.segment.first =< worker.segment.last

(* A segment has all that waits up to its last id, which no later operation*)
(* can get.                                                                *)
Complete(s) ==
  /\ s.last \in OpIds
  /\ \A o \in OpsOf(s.db) : mark[s.db] < o.id /\ o.id =< s.last => \E e \in s.ops : e.row = o
Posted(s) == \E i \in DOMAIN chat[s.db] : chat[s.db][i] = s

Covered ==
  /\ \A b \in Dbs : mark[b] = 0 \/ mark[b] \in OpIds
  /\ MarkedIsInChat
  /\ Holds => Complete(worker.segment)
  /\ worker.pc = "sent" => Posted(worker.segment)

LEMMA Bounds ==
  /\ MaxOps \in Nat /\ BatchLimit \in Nat \ {0} /\ Absent \notin CollRow
  /\ CollIds \in SUBSET Nat /\ \A k \in CollIds : k =< MaxOps
<1>1. MaxOps \in Nat /\ BatchLimit \in Nat \ {0} /\ Absent \notin CollRow
  BY OpLogBackupAssumption
<1> QED BY <1>1 DEF CollIds

LEMMA Rows ==
  ASSUME TypeInv, NEW o \in ops
  PROVE  /\ o.id \in Nat \ {0} /\ o.id =< MaxOps /\ o.coll \in CollIds
         /\ colls[o.coll] \in CollRow /\ colls[o.coll].db \in Dbs
<1>1. o.id \in 1..MaxOps /\ o.coll \in CollIds /\ colls[o.coll] # Absent
  BY DEF TypeInv, Existing
<1>2. colls[o.coll] \in CollRow
  BY <1>1 DEF TypeInv
<1> QED BY <1>1, <1>2, Bounds DEF CollRow

(* The ids SQLite gives are above those there are.                         *)
LEMMA NewIds ==
  ASSUME NEW T \in SUBSET Nat, NEW bound \in Nat, \A n \in T : n =< bound
  PROVE  NextId(T) \in Nat \ {0} /\ \A n \in T : n < NextId(T)
<1>1. PICK U : U = T \cup {0}
  OBVIOUS
<1>2. U \in SUBSET Nat /\ U # {} /\ \A n \in U : n =< bound
  BY <1>1
<1>3. Max(U) \in U /\ \A m \in U : m =< Max(U)
  BY <1>2, Highest
<1>4. NextId(T) = Max(U) + 1
  BY <1>1 DEF NextId
<1>5. Max(U) \in Nat
  BY <1>2, <1>3
<1> QED BY <1>1, <1>2, <1>3, <1>4, <1>5

LEMMA NewOp ==
  ASSUME TypeInv
  PROVE  NextId(OpIds) \in Nat \ {0} /\ \A o \in ops : o.id < NextId(OpIds)
<1>1. \A o \in ops : o.id \in Nat /\ o.id =< MaxOps
  BY Rows
<1>2. OpIds \in SUBSET Nat /\ \A n \in OpIds : n =< MaxOps
  BY <1>1 DEF OpIds
<1> QED BY <1>2, Bounds, NewIds DEF OpIds

LEMMA NewColl ==
  ASSUME TypeInv
  PROVE  NextId(Existing) \notin Existing
<1>1. Existing \in SUBSET Nat /\ \A k \in Existing : k =< MaxOps
  BY Bounds DEF Existing
<1>2. NextId(Existing) \in Nat /\ \A k \in Existing : k < NextId(Existing)
  BY <1>1, Bounds, NewIds
<1> QED BY <1>1, <1>2

-----------------------------------------------------------------------------
(* What a segment is made of *)

LEMMA Batch ==
  ASSUME NEW S, IsFiniteSet(S), S # {}, \A o \in S : o.id \in Nat
  PROVE  /\ OldestOf(S) \in SUBSET S /\ OldestOf(S) # {}
         /\ \A o \in S, p \in OldestOf(S) : o.id =< p.id => o \in OldestOf(S)
<1>1. OldestOf(S) \in SUBSET S
  BY DEF OldestOf
<1>2. OldestOf(S) # {}
  <2>1. PICK T : T = {o.id : o \in S}
    OBVIOUS
  <2>2. T \in SUBSET Nat /\ T # {}
    BY <2>1
  <2>3. PICK n : n = Min(T)
    OBVIOUS
  <2>4. n \in T /\ \A m \in T : n =< m
    BY <2>2, <2>3, Lowest
  <2>5. PICK o \in S : o.id = n
    BY <2>1, <2>4
  <2>6. {p \in S : p.id < o.id} = {}
    BY <2>1, <2>4, <2>5
  <2>7. o \in OldestOf(S)
    BY <2>6, FS_EmptySet, Bounds DEF OldestOf
  <2> QED BY <2>7
<1>3. ASSUME NEW o \in S, NEW p \in OldestOf(S), o.id =< p.id PROVE o \in OldestOf(S)
  <2>1. PICK A, B : A = {x \in S : x.id < o.id} /\ B = {x \in S : x.id < p.id}
    OBVIOUS
  <2>2. A \in SUBSET B /\ B \in SUBSET S
    BY <1>1, <1>3, <2>1
  <2>3. IsFiniteSet(B) /\ Cardinality(B) \in Nat /\ Cardinality(A) \in Nat /\ Cardinality(A) =< Cardinality(B)
    BY <2>2, FS_Subset, FS_CardinalityType
  <2>4. Cardinality(B) < BatchLimit
    BY <2>1 DEF OldestOf
  <2>5. Cardinality(A) < BatchLimit
    BY <2>3, <2>4, Bounds
  <2> QED BY <2>1, <2>5 DEF OldestOf
<1> QED BY <1>1, <1>2, <1>3

LEMMA Cut ==
  ASSUME TypeInv, NEW b, Pending(b) # {}
  PROVE  /\ b \in Dbs /\ Segment(b).db = b
         /\ Segment(b).first \in 1..MaxOps /\ Segment(b).last \in 1..MaxOps
         /\ mark[b] < Segment(b).first /\ Segment(b).first =< Segment(b).last
         /\ Complete(Segment(b))
<1>1. PICK S : S = Pending(b)
  OBVIOUS
<1>2. /\ S \in SUBSET ops
      /\ \A o \in S : o.id \in Nat \ {0} /\ o.id =< MaxOps /\ b \in Dbs /\ o.id > mark[b]
  BY <1>1, Rows DEF Pending, OpsOf
<1>3. b \in Dbs /\ IsFiniteSet(S) /\ S # {}
  BY <1>1, <1>2, FS_Subset DEF TypeInv
<1>4. PICK rows : rows = OldestOf(S)
  OBVIOUS
<1>5. /\ rows \in SUBSET S /\ rows # {}
      /\ \A o \in S, p \in rows : o.id =< p.id => o \in rows
  BY <1>2, <1>3, <1>4, Batch
<1>6. PICK ids : ids = {o.id : o \in rows}
  OBVIOUS
<1>7. ids \in SUBSET Nat /\ ids # {} /\ \A n \in ids : n =< MaxOps
  BY <1>2, <1>5, <1>6
<1>8. PICK low, high : low = Min(ids) /\ high = Max(ids)
  OBVIOUS
<1>9. /\ low \in ids /\ (\A n \in ids : low =< n)
      /\ high \in ids /\ (\A n \in ids : n =< high)
  BY <1>7, <1>8, Lowest, Highest, Bounds
<1>10. PICK s : s = [db |-> b, first |-> low, last |-> high,
                     ops |-> {[row |-> o, meta |-> colls[o.coll]] : o \in rows}]
  OBVIOUS
<1>11. s = Segment(b)
  BY <1>1, <1>4, <1>6, <1>8, <1>10 DEF Segment
<1>12. s.db = b /\ s.first = low /\ s.last = high
       /\ \A o \in rows : \E e \in s.ops : e.row = o
  <2>1. ASSUME NEW o \in rows PROVE \E e \in s.ops : e.row = o
    <3>1. PICK e : e = [row |-> o, meta |-> colls[o.coll]]
      OBVIOUS
    <3>2. e \in s.ops
      BY <1>10, <3>1
    <3>3. e.row = o
      BY <3>1
    <3> QED BY <3>2, <3>3
  <2>2. s.db = b /\ s.first = low /\ s.last = high
    BY <1>10
  <2> QED BY <2>1, <2>2
<1>13. PICK p \in rows, p_1 \in rows : p.id = low /\ p_1.id = high
  BY <1>6, <1>9
<1>14. /\ mark[b] < low /\ low =< high /\ low \in 1..MaxOps /\ high \in 1..MaxOps
  <2>1. /\ p.id \in Nat \ {0} /\ p.id =< MaxOps /\ p.id > mark[b]
        /\ p_1.id \in Nat \ {0} /\ p_1.id =< MaxOps
    BY <1>2, <1>5
  <2>2. mark[b] \in Nat
    BY <1>3 DEF TypeInv
  <2> QED BY <1>9, <1>13, <2>1, <2>2, Bounds
<1>15. high \in OpIds
  BY <1>2, <1>5, <1>13 DEF OpIds
<1>16. ASSUME NEW o \in OpsOf(b), mark[b] < o.id, o.id =< high PROVE \E e \in s.ops : e.row = o
  <2>1. o \in S
    <3>1. o.id \in Nat /\ mark[b] \in Nat
      BY <1>3, Rows DEF OpsOf, TypeInv
    <3> QED BY <1>1, <1>16, <3>1 DEF Pending
  <2> QED BY <1>5, <1>12, <1>13, <1>16, <2>1
<1>17. Complete(s)
  BY <1>12, <1>15, <1>16 DEF Complete
<1> QED BY <1>3, <1>11, <1>12, <1>14, <1>17

-----------------------------------------------------------------------------
(* What steps do to the log *)

(* One operation more, of a collection that is there, with an id of its own.*)
Grown ==
  /\ colls' \in [CollIds -> CollRow \cup {Absent}]
  /\ \A k \in Existing : k \in Existing' /\ colls'[k].db = colls[k].db
  /\ \E new : /\ ops' = ops \cup {new} /\ new.id = NextId(OpIds) /\ new.id \in 1..MaxOps
              /\ new.coll \in Existing'
  /\ UNCHANGED <<mark, segments, chat, worker, deletes>>

LEMMA Logs ==
  ASSUME TypeInv, NEW k, NEW op, NEW body, Log(k, op, body), Counted
  PROVE  /\ \E new : /\ ops' = ops \cup {new} /\ new.id = NextId(OpIds) /\ new.id \in 1..MaxOps
                     /\ new.coll = k
         /\ UNCHANGED <<mark, segments, chat, worker, deletes>>
<1>1. PICK new : new = [id |-> NextId(OpIds), coll |-> k, op |-> op, body |-> body]
  OBVIOUS
<1>2. new.id = NextId(OpIds) /\ new.coll = k
  BY <1>1
<1>3. NextId(OpIds) =< MaxOps /\ UNCHANGED <<mark, segments, chat, worker, deletes>>
  BY DEF Counted, backup
<1>4. NextId(OpIds) \in 1..MaxOps
  BY <1>3, NewOp, Bounds
<1>5. ops' = ops \cup {new}
  BY <1>1 DEF Log
<1> QED BY <1>2, <1>3, <1>4, <1>5

LEMMA HasCreated ==
  ASSUME TypeInv, NEW b \in Dbs, NEW name \in Names, CreateCollection(b, name)
  PROVE  Grown
<1>1. PICK k : k = NextId(Existing)
  OBVIOUS
<1>2. PICK row : row = [db |-> b, name |-> name, settings |-> Default]
  OBVIOUS
<1>3. /\ k \in CollIds /\ colls' = [colls EXCEPT ![k] = row]
      /\ Log(k, "collection", [name |-> name]) /\ Counted
  BY <1>1, <1>2 DEF CreateCollection
<1>4. row \in CollRow /\ row # Absent
  BY <1>2, Bounds, OpLogBackupAssumption DEF CollRow
<1>5. k \notin Existing
  BY <1>1, NewColl
<1>6. /\ colls' \in [CollIds -> CollRow \cup {Absent}] /\ k \in Existing'
      /\ \A j \in Existing : j \in Existing' /\ colls'[j].db = colls[j].db
  BY <1>3, <1>4, <1>5 DEF TypeInv, Existing
<1>7. /\ \E new : /\ ops' = ops \cup {new} /\ new.id = NextId(OpIds) /\ new.id \in 1..MaxOps
                  /\ new.coll = k
      /\ UNCHANGED <<mark, segments, chat, worker, deletes>>
  BY <1>3, Logs
<1> QED BY <1>6, <1>7 DEF Grown

LEMMA HasChanged ==
  ASSUME TypeInv, NEW k \in Existing, NEW s \in Settings, ChangeSettings(k, s)
  PROVE  Grown
<1>1. PICK row : row = [colls[k] EXCEPT !.settings = s]
  OBVIOUS
<1>2. k \in CollIds /\ colls[k] \in CollRow
  BY DEF Existing, TypeInv
<1>3. row \in CollRow /\ row # Absent /\ row.db = colls[k].db
  BY <1>1, <1>2, Bounds DEF CollRow
<1>4. colls' = [colls EXCEPT ![k] = row] /\ Log(k, "rules", [settings |-> s]) /\ Counted
  BY <1>1 DEF ChangeSettings
<1>5. /\ colls' \in [CollIds -> CollRow \cup {Absent}] /\ k \in Existing'
      /\ \A j \in Existing : j \in Existing' /\ colls'[j].db = colls[j].db
  BY <1>2, <1>3, <1>4 DEF TypeInv, Existing
<1>6. /\ \E new : /\ ops' = ops \cup {new} /\ new.id = NextId(OpIds) /\ new.id \in 1..MaxOps
                  /\ new.coll = k
      /\ UNCHANGED <<mark, segments, chat, worker, deletes>>
  BY <1>4, Logs
<1> QED BY <1>5, <1>6 DEF Grown

LEMMA HasWritten ==
  ASSUME TypeInv, NEW k \in Existing, NEW p, NEW w, WriteDocument(k, p, w)
  PROVE  Grown
<1>1. PICK row, body : row = docs[k][w.id]
                       /\ body = [doc |-> w.id, data |-> w.data, owner |-> OpOwner(p, NewRow(p, w, row))]
  OBVIOUS
<1>2. UNCHANGED colls /\ Log(k, LoggedOp(w, row), body) /\ Counted
  BY <1>1 DEF WriteDocument
<1>3. /\ colls' \in [CollIds -> CollRow \cup {Absent}] /\ Existing' = Existing
  BY <1>2 DEF TypeInv, Existing
<1>4. /\ \E new : /\ ops' = ops \cup {new} /\ new.id = NextId(OpIds) /\ new.id \in 1..MaxOps
                  /\ new.coll = k
      /\ UNCHANGED <<mark, segments, chat, worker, deletes>>
  BY <1>2, Logs
<1> QED BY <1>2, <1>3, <1>4 DEF Grown

LEMMA HasDeleted ==
  ASSUME TypeInv, NEW k \in Existing, DeleteCollection(k)
  PROVE  /\ colls' \in [CollIds -> CollRow \cup {Absent}] /\ ops' \in SUBSET ops
         /\ \A o \in ops' : o.coll \in Existing'
         /\ deletes' \in Nat \ {0} /\ UNCHANGED <<mark, segments, chat, worker>>
<1>1. /\ colls' = [colls EXCEPT ![k] = Absent] /\ ops' = {o \in ops : o.coll # k} /\ deletes' = deletes + 1
      /\ UNCHANGED <<mark, segments, chat, worker>>
  BY DEF DeleteCollection, backup
<1>2. \A o \in ops' : o.coll \in Existing'
  BY <1>1 DEF TypeInv, Existing
<1>3. deletes' \in Nat \ {0}
  BY <1>1 DEF TypeInv
<1>4. colls' \in [CollIds -> CollRow \cup {Absent}]
  BY <1>1 DEF TypeInv
<1> QED BY <1>1, <1>2, <1>3, <1>4

(* A request makes the log grow, or deletes a collection.                  *)
LEMMA Requests ==
  ASSUME TypeInv, NEW Ds, NEW Ss, NEW Ps, NEW Bs, Ds \subseteq Dbs, Ss \subseteq Settings, Request(Ds, Ss, Ps, Bs)
  PROVE  Grown \/ \E k \in Existing : DeleteCollection(k)
<1>1. CASE \E b \in Ds : \E name \in Names : CreateCollection(b, name)
  BY <1>1, HasCreated
<1>2. ASSUME NEW k \in Existing, NEW s \in Ss, ChangeSettings(k, s) PROVE Grown
  BY <1>2, HasChanged
<1>3. ASSUME NEW k \in Existing, NEW p, NEW w, WriteDocument(k, p, w) PROVE Grown
  BY <1>3, HasWritten
<1> QED BY <1>1, <1>2, <1>3 DEF Request

(* What the worker's steps leave alone.                                    *)
Still == UNCHANGED <<colls, ops, mark, segments, chat, deletes>>

LEMMA Sleeps ==
  ASSUME worker' = Sleeping
  PROVE  Shaped(worker') /\ worker'.pc = "asleep"
BY DEF Sleeping, Shaped, Places

LEMMA HasBuilt ==
  ASSUME TypeInv, Build
  PROVE  /\ Still /\ Shaped(worker') /\ ~Holds
         /\ \/ worker'.pc = "busy"
            \/ \E b : Pending(b) # {} /\ worker'.pc = "built" /\ worker'.segment = Segment(b)
<1>1. PICK w : w = worker
  OBVIOUS
<1>2. PICK pc \in Places : \E q, s : w = [pc |-> pc, queue |-> q, segment |-> s]
  BY <1>1 DEF TypeInv, Shaped
<1>3. PICK q, s : w = [pc |-> pc, queue |-> q, segment |-> s]
  BY <1>2
<1>4. PICK b : b = Head(w.queue)
  OBVIOUS
<1>5. /\ w.pc = "busy" /\ Still
      /\ worker' = IF Pending(b) = {} THEN [w EXCEPT !.queue = Tail(@)]
                   ELSE [w EXCEPT !.pc = "built", !.segment = Segment(b)]
  BY <1>1, <1>4 DEF Build, Still, store
<1>6. CASE Pending(b) = {}
  <2>1. worker' = [pc |-> pc, queue |-> Tail(q), segment |-> s]
    BY <1>3, <1>5, <1>6
  <2>2. pc = "busy"
    BY <1>3, <1>5
  <2>3. worker'.pc = "busy" /\ Shaped(worker')
    BY <2>1, <2>2 DEF Shaped
  <2> QED BY <1>1, <1>5, <2>3 DEF Holds
<1>7. CASE Pending(b) # {}
  <2>1. worker' = [pc |-> "built", queue |-> q, segment |-> Segment(b)]
    BY <1>3, <1>5, <1>7
  <2>2. worker'.pc = "built" /\ Shaped(worker') /\ worker'.segment = Segment(b)
    BY <2>1 DEF Shaped, Places
  <2> QED BY <1>1, <1>5, <1>7, <2>2 DEF Holds
<1> QED BY <1>6, <1>7

LEMMA HasListed ==
  ASSUME TypeInv, ListPending
  PROVE  Still /\ Shaped(worker') /\ worker'.pc = "busy"
<1>1. PICK queue : queue = OldestFirst
  OBVIOUS
<1>2. PICK pc \in Places : \E q, s : worker = [pc |-> pc, queue |-> q, segment |-> s]
  BY DEF TypeInv, Shaped
<1>3. PICK q, s : worker = [pc |-> pc, queue |-> q, segment |-> s]
  BY <1>2
<1>4. worker' = [worker EXCEPT !.pc = "busy", !.queue = queue] /\ Still
  BY <1>1 DEF ListPending, Still, store
<1>5. worker' = [pc |-> "busy", queue |-> queue, segment |-> s]
  BY <1>3, <1>4
<1> QED BY <1>4, <1>5 DEF Shaped, Places

LEMMA HasPosted ==
  ASSUME TypeInv, Upload
  PROVE  /\ worker.pc = "built" /\ worker'.pc = "sent" /\ Shaped(worker') /\ worker'.segment = worker.segment
         /\ chat' = [chat EXCEPT ![worker.segment.db] = Append(@, worker.segment)]
         /\ UNCHANGED <<colls, ops, mark, segments, deletes>>
<1>1. PICK pc \in Places : \E q, s : worker = [pc |-> pc, queue |-> q, segment |-> s]
  BY DEF TypeInv, Shaped
<1>2. PICK q, s : worker = [pc |-> pc, queue |-> q, segment |-> s]
  BY <1>1
<1>3. worker' = [worker EXCEPT !.pc = "sent"]
  BY DEF Upload
<1>4. worker' = [pc |-> "sent", queue |-> q, segment |-> s]
  BY <1>2, <1>3
<1>5. worker'.pc = "sent" /\ Shaped(worker') /\ worker'.segment = worker.segment
  BY <1>2, <1>4 DEF Shaped, Places
<1> QED BY <1>5 DEF Upload, store

LEMMA HasMarked ==
  ASSUME TypeInv, MarkUploaded
  PROVE  /\ worker.pc = "sent" /\ worker'.pc = "busy" /\ Shaped(worker')
         /\ segments' = [segments EXCEPT ![worker.segment.db] = @ \cup {Key(worker.segment)}]
         /\ mark' = [mark EXCEPT ![worker.segment.db] = Max({@, worker.segment.last})]
         /\ UNCHANGED <<colls, ops, chat, deletes>>
<1>1. PICK pc \in Places : \E q, s : worker = [pc |-> pc, queue |-> q, segment |-> s]
  BY DEF TypeInv, Shaped
<1>2. PICK q, s : worker = [pc |-> pc, queue |-> q, segment |-> s]
  BY <1>1
<1>3. worker' = [worker EXCEPT !.pc = "busy", !.queue = Tail(@), !.segment = None]
  BY DEF MarkUploaded
<1>4. worker' = [pc |-> "busy", queue |-> Tail(q), segment |-> None]
  BY <1>2, <1>3
<1>5. worker'.pc = "busy" /\ Shaped(worker')
  BY <1>4 DEF Shaped, Places
<1> QED BY <1>5 DEF MarkUploaded, store

-----------------------------------------------------------------------------
(* Every step keeps them *)

LEMMA BackupStart == Init => TypeInv /\ Above /\ Covered
<1> SUFFICES ASSUME Init PROVE TypeInv /\ Above /\ Covered
  OBVIOUS
<1>1. /\ colls = [k \in CollIds |-> Absent] /\ ops = {}
      /\ mark = [b \in Dbs |-> 0] /\ segments = [b \in Dbs |-> {}] /\ chat = [b \in Dbs |-> <<>>]
      /\ worker = [pc |-> "asleep", queue |-> <<>>, segment |-> None] /\ deletes = 0
  BY DEF Init, Sleeping
<1>2. Shaped(worker) /\ worker.pc = "asleep"
  BY <1>1 DEF Shaped, Places
<1>3. \A b \in Dbs : IsChat(chat[b])
  BY <1>1 DEF IsChat
<1>4. TypeInv
  BY <1>1, <1>2, <1>3, FS_EmptySet DEF TypeInv
<1>5. Above
  BY <1>1, <1>2 DEF Above, Holds
<1>6. Covered
  BY <1>1, <1>2 DEF Covered, Holds, MarkedIsInChat, OpsOf
<1> QED BY <1>4, <1>5, <1>6

LEMMA GrownKeeps ==
  ASSUME TypeInv, Above, Grown
  PROVE  TypeInv' /\ Above' /\ (Covered => Covered')
<1>1. PICK new : /\ ops' = ops \cup {new} /\ new.id = NextId(OpIds) /\ new.id \in 1..MaxOps
                 /\ new.coll \in Existing'
  BY DEF Grown
<1>2. /\ colls' \in [CollIds -> CollRow \cup {Absent}]
      /\ \A k \in Existing : k \in Existing' /\ colls'[k].db = colls[k].db
      /\ UNCHANGED <<mark, segments, chat, worker, deletes>>
  BY DEF Grown
<1>3. IsFiniteSet(ops')
  BY <1>1, FS_AddElement DEF TypeInv
<1>4. TypeInv'
  BY <1>1, <1>2, <1>3 DEF TypeInv
<1>5. Above'
  BY <1>2 DEF Above, Holds
<1>6. \A n \in OpIds : n \in OpIds' /\ n < new.id
  BY <1>1, NewOp DEF OpIds
<1>7. \A b : OpsOf(b)' \in SUBSET (OpsOf(b) \cup {new})
  BY <1>1, <1>2 DEF OpsOf, TypeInv
<1>8. ASSUME Covered PROVE Covered'
  <2>1. \A b \in Dbs : mark[b] \in Nat /\ mark[b] < new.id /\ (mark[b] = 0 \/ mark[b] \in OpIds')
    BY <1>1, <1>6, <1>8 DEF Covered, TypeInv
  <2>2. ASSUME NEW b \in Dbs, NEW o \in OpsOf(b)', o.id =< mark[b] PROVE InChat(b, o)
    <3>1. new.id \in Nat /\ mark[b] \in Nat /\ mark[b] < new.id
      BY <1>1, <2>1, Bounds
    <3>2. o # new
      BY <2>2, <3>1
    <3>3. o \in OpsOf(b)
      BY <1>7, <3>2
    <3> QED BY <1>8, <2>2, <3>3 DEF Covered, MarkedIsInChat
  <2>3. MarkedIsInChat'
    BY <1>2, <2>2 DEF MarkedIsInChat, InChat
  <2>4. ASSUME NEW s, s.db \in Dbs, Complete(s) PROVE Complete(s)'
    <3>1. s.last \in OpIds' /\ s.last < new.id /\ s.last \in Nat
      BY <1>6, <2>4, Rows DEF Complete, OpIds
    <3>2. ASSUME NEW o \in OpsOf(s.db)', mark[s.db] < o.id, o.id =< s.last PROVE \E e \in s.ops : e.row = o
      <4>1. new.id \in Nat
        BY <1>1, Bounds
      <4>2. o # new
        BY <3>1, <3>2, <4>1
      <4> QED BY <1>7, <2>4, <3>2, <4>2 DEF Complete
    <3> QED BY <1>2, <3>1, <3>2 DEF Complete
  <2>5. Holds' => Complete(worker.segment)'
    BY <1>2, <1>8, <2>4 DEF Covered, Holds, Above
  <2>6. (worker.pc = "sent")' => Posted(worker.segment)'
    BY <1>2, <1>8 DEF Covered, Posted
  <2> QED BY <1>2, <2>1, <2>3, <2>5, <2>6 DEF Covered
<1> QED BY <1>4, <1>5, <1>8

LEMMA DeletedKeeps ==
  ASSUME TypeInv, Above, NEW k \in Existing, DeleteCollection(k)
  PROVE  TypeInv' /\ Above' /\ deletes' # 0
<1>1. /\ colls' \in [CollIds -> CollRow \cup {Absent}] /\ ops' \in SUBSET ops
      /\ \A o \in ops' : o.coll \in Existing'
      /\ deletes' \in Nat \ {0} /\ UNCHANGED <<mark, segments, chat, worker>>
  BY HasDeleted
<1>2. IsFiniteSet(ops')
  BY <1>1, FS_Subset DEF TypeInv
<1>3. TypeInv'
  BY <1>1, <1>2 DEF TypeInv
<1>4. Above'
  BY <1>1 DEF Above, Holds
<1> QED BY <1>1, <1>3, <1>4

(* A worker that holds nothing.                                            *)
LEMMA EmptyHanded ==
  ASSUME TypeInv, Above, Still, Shaped(worker'), worker'.pc \in {"asleep", "busy"}
  PROVE  TypeInv' /\ Above' /\ (Covered => Covered')
<1>1. TypeInv'
  BY DEF TypeInv, Still, Existing
<1>2. Above' /\ ~Holds'
  BY DEF Above, Holds, Still
<1>3. ASSUME Covered PROVE Covered'
  BY <1>2, <1>3 DEF Covered, Holds, MarkedIsInChat, InChat, OpsOf, OpIds, Still
<1> QED BY <1>1, <1>2, <1>3

LEMMA BuildKeeps ==
  ASSUME TypeInv, Above, Build
  PROVE  TypeInv' /\ Above' /\ (Covered => Covered')
<1>1. Still /\ Shaped(worker')
  BY HasBuilt
<1>2. CASE worker'.pc = "busy"
  BY <1>1, <1>2, EmptyHanded
<1>3. CASE \E b : Pending(b) # {} /\ worker'.pc = "built" /\ worker'.segment = Segment(b)
  <2>1. PICK b : Pending(b) # {} /\ worker'.pc = "built" /\ worker'.segment = Segment(b)
    BY <1>3
  <2>2. PICK s : s = Segment(b)
    OBVIOUS
  <2>3. /\ b \in Dbs /\ s.db = b /\ s.first \in 1..MaxOps /\ s.last \in 1..MaxOps
        /\ mark[b] < s.first /\ s.first =< s.last /\ Complete(s)
    BY <2>1, <2>2, Cut
  <2>4. TypeInv'
    BY <1>1 DEF TypeInv, Still, Existing
  <2>5. worker'.segment = s
    BY <2>1, <2>2
  <2>6. Above'
    BY <1>1, <2>3, <2>5 DEF Above, Holds, Still
  <2>7. Complete(worker.segment)'
    BY <1>1, <2>3, <2>5 DEF Complete, Still, OpsOf, OpIds
  <2>8. ASSUME Covered PROVE Covered'
    BY <1>1, <2>1, <2>7, <2>8 DEF Covered, MarkedIsInChat, InChat, OpsOf, OpIds, Still
  <2> QED BY <2>4, <2>6, <2>8
<1> QED BY <1>2, <1>3, HasBuilt

LEMMA UploadKeeps ==
  ASSUME TypeInv, Above, Upload
  PROVE  TypeInv' /\ Above' /\ (Covered => Covered')
<1>1. PICK s : s = worker.segment
  OBVIOUS
<1>2. /\ worker.pc = "built" /\ worker'.pc = "sent" /\ Shaped(worker') /\ worker'.segment = s
      /\ chat' = [chat EXCEPT ![s.db] = Append(@, s)]
      /\ UNCHANGED <<colls, ops, mark, segments, deletes>>
  BY <1>1, HasPosted
<1>3. s.db \in Dbs /\ DOMAIN chat = Dbs
  BY <1>1, <1>2 DEF Above, Holds, TypeInv
<1>4. chat'[s.db] = Append(chat[s.db], s) /\ DOMAIN chat' = Dbs /\ \A b \in Dbs : b # s.db => chat'[b] = chat[b]
  BY <1>2, <1>3
<1>5. /\ IsChat(Append(chat[s.db], s))
      /\ \A i \in DOMAIN chat[s.db] : i \in DOMAIN chat'[s.db] /\ chat'[s.db][i] = chat[s.db][i]
      /\ \E i \in DOMAIN chat'[s.db] : chat'[s.db][i] = s
  <2>1. PICK q : q = chat[s.db]
    OBVIOUS
  <2>2. IsChat(q)
    BY <1>3, <2>1 DEF TypeInv
  <2>3. /\ IsChat(Append(q, s))
        /\ \A i \in DOMAIN q : i \in DOMAIN Append(q, s) /\ Append(q, s)[i] = q[i]
        /\ \E i \in DOMAIN Append(q, s) : Append(q, s)[i] = s
    BY <2>2, Appending
  <2> QED BY <1>4, <2>1, <2>3
<1>6. \A b \in Dbs : IsChat(chat'[b])
  BY <1>4, <1>5 DEF TypeInv
<1>7. chat' \in [Dbs -> {chat'[b] : b \in Dbs}]
  BY <1>2, <1>3
<1>8. TypeInv'
  BY <1>2, <1>6, <1>7 DEF TypeInv, Existing, IsChat
<1>9. Above'
  BY <1>1, <1>2 DEF Above, Holds
<1>10. ASSUME Covered PROVE Covered'
  <2>1. ASSUME NEW b \in Dbs, NEW o, InChat(b, o) PROVE InChat(b, o)'
    BY <1>4, <1>5, <2>1 DEF InChat
  <2>2. MarkedIsInChat'
    BY <1>2, <1>10, <2>1 DEF Covered, MarkedIsInChat, OpsOf
  <2>3. Complete(worker.segment)'
    BY <1>1, <1>2, <1>10 DEF Covered, Holds, Complete, OpsOf, OpIds
  <2>4. Posted(worker.segment)'
    BY <1>2, <1>5 DEF Posted
  <2> QED BY <1>2, <1>10, <2>2, <2>3, <2>4 DEF Covered, OpIds
<1> QED BY <1>8, <1>9, <1>10

LEMMA MarkKeeps ==
  ASSUME TypeInv, Above, MarkUploaded
  PROVE  TypeInv' /\ Above' /\ (Covered => Covered')
<1>1. PICK s : s = worker.segment
  OBVIOUS
<1>2. /\ worker.pc = "sent" /\ worker'.pc = "busy" /\ Shaped(worker')
      /\ segments' = [segments EXCEPT ![s.db] = @ \cup {Key(s)}]
      /\ mark' = [mark EXCEPT ![s.db] = Max({@, s.last})]
      /\ UNCHANGED <<colls, ops, chat, deletes>>
  BY <1>1, HasMarked
<1>3. /\ s.db \in Dbs /\ s.first \in Nat /\ s.last \in Nat /\ mark[s.db] < s.first /\ s.first =< s.last
      /\ mark[s.db] \in Nat
  <2>1. /\ s.db \in Dbs /\ s.first \in 1..MaxOps /\ s.last \in 1..MaxOps /\ mark[s.db] < s.first
        /\ s.first =< s.last
    BY <1>1, <1>2 DEF Above, Holds
  <2> QED BY <2>1, Bounds DEF TypeInv
<1>4. PICK T : T = {mark[s.db], s.last}
  OBVIOUS
<1>5. Max(T) = s.last
  <2>1. T \in SUBSET Nat /\ T # {} /\ \A n \in T : n =< s.last
    BY <1>3, <1>4
  <2>2. Max(T) \in T /\ \A n \in T : n =< Max(T)
    BY <1>3, <2>1, Highest
  <2> QED BY <1>3, <1>4, <2>1, <2>2
<1>6. mark' = [mark EXCEPT ![s.db] = s.last]
  BY <1>2, <1>3, <1>4, <1>5 DEF TypeInv
<1>7. /\ mark' \in [Dbs -> Nat] /\ mark'[s.db] = s.last
      /\ \A b \in Dbs : b # s.db => mark'[b] = mark[b]
  BY <1>3, <1>6 DEF TypeInv
<1>8. PICK k : k = Key(s)
  OBVIOUS
<1>9. k \in Nat \X Nat /\ k[2] = s.last
  BY <1>3, <1>8 DEF Key
<1>10. /\ segments' \in [Dbs -> SUBSET (Nat \X Nat)] /\ segments'[s.db] = segments[s.db] \cup {k}
       /\ \A b \in Dbs : b # s.db => segments'[b] = segments[b]
  BY <1>2, <1>3, <1>8, <1>9 DEF TypeInv
<1>11. TypeInv'
  BY <1>2, <1>7, <1>10 DEF TypeInv, Existing
<1>12. ASSUME NEW b \in Dbs, NEW x \in segments'[b] PROVE x[2] =< mark'[b]
  <2>1. CASE b = s.db
    <3>1. CASE x = k
      BY <1>3, <1>7, <1>9, <2>1, <3>1
    <3>2. CASE x \in segments[b]
      <4>1. x[2] \in Nat /\ x[2] =< mark[b]
        BY <3>2 DEF TypeInv, Above
      <4> QED BY <1>3, <1>7, <2>1, <4>1
    <3> QED BY <1>10, <1>12, <2>1, <3>1, <3>2
  <2>2. CASE b # s.db
    BY <1>7, <1>10, <1>12, <2>2 DEF Above
  <2> QED BY <2>1, <2>2
<1>13. Above' /\ ~Holds'
  BY <1>2, <1>12 DEF Above, Holds
<1>14. ASSUME Covered PROVE Covered'
  <2>1. Complete(s) /\ Posted(s)
    BY <1>1, <1>2, <1>14 DEF Covered, Holds
  <2>2. \A b \in Dbs : mark'[b] = 0 \/ mark'[b] \in OpIds
    BY <1>7, <1>14, <2>1 DEF Covered, Complete
  <2>3. ASSUME NEW b \in Dbs, NEW o \in OpsOf(b), o.id =< mark'[b] PROVE InChat(b, o)
    <3>1. CASE o.id =< mark[b]
      BY <1>14, <3>1 DEF Covered, MarkedIsInChat
    <3>2. CASE ~(o.id =< mark[b])
      <4>1. o.id \in Nat /\ mark[b] \in Nat
        BY Rows DEF OpsOf, TypeInv
      <4>2. b = s.db /\ mark[b] < o.id /\ o.id =< s.last
        BY <1>7, <2>3, <3>2, <4>1
      <4>3. \E e \in s.ops : e.row = o
        BY <2>1, <4>2 DEF Complete
      <4> QED BY <2>1, <4>2, <4>3 DEF InChat, Posted
    <3> QED BY <3>1, <3>2
  <2>4. MarkedIsInChat'
    BY <1>2, <2>3 DEF MarkedIsInChat, InChat, OpsOf
  <2> QED BY <1>2, <1>13, <2>2, <2>4 DEF Covered, OpIds
<1> QED BY <1>11, <1>13, <1>14

LEMMA WorkKeeps ==
  ASSUME TypeInv, Above, Work \/ Interrupt
  PROVE  TypeInv' /\ Above' /\ (Covered => Covered') /\ deletes' = deletes
<1>1. CASE ListPending
  BY <1>1, HasListed, EmptyHanded DEF Still
<1>2. CASE Build
  BY <1>2, HasBuilt, BuildKeeps DEF Still
<1>3. CASE Upload
  BY <1>3, HasPosted, UploadKeeps
<1>4. CASE MarkUploaded
  BY <1>4, HasMarked, MarkKeeps
<1>5. CASE Refused \/ EndPass \/ Interrupt
  <2>1. Still /\ worker' = Sleeping
    BY <1>5 DEF Refused, EndPass, Interrupt, Still, store
  <2> QED BY <2>1, Sleeps, EmptyHanded DEF Still
<1> QED BY <1>1, <1>2, <1>3, <1>4, <1>5 DEF Work

-----------------------------------------------------------------------------
(* The theorem *)

BackupInv == TypeInv /\ Above /\ (deletes = 0 => Covered)

LEMMA BackupStep == BackupInv /\ [MCNext]_<<vars, scene>> => BackupInv'
<1> SUFFICES ASSUME BackupInv, [MCNext]_<<vars, scene>> PROVE BackupInv'
  OBVIOUS
<1>1. TypeInv /\ Above /\ (deletes = 0 => Covered)
  BY DEF BackupInv
<1>2. CASE Grown
  BY <1>1, <1>2, GrownKeeps DEF BackupInv, Grown
<1>3. CASE \E k \in Existing : DeleteCollection(k)
  BY <1>1, <1>3, DeletedKeeps DEF BackupInv
<1>4. CASE Work \/ Interrupt
  BY <1>1, <1>4, WorkKeeps DEF BackupInv
<1>5. CASE UNCHANGED <<vars, scene>>
  <2>1. Still /\ UNCHANGED worker
    BY <1>5 DEF vars, Still
  <2>2. TypeInv' /\ Above'
    BY <1>1, <2>1 DEF TypeInv, Above, Holds, Still, Existing
  <2>3. ASSUME Covered PROVE Covered'
    BY <2>1, <2>3 DEF Covered, Holds, Complete, Posted, MarkedIsInChat, InChat, OpsOf, OpIds, Still
  <2> QED BY <1>1, <2>1, <2>2, <2>3 DEF BackupInv, Still
<1>6. CASE Request({b1}, Settings, Writers, Bodies)
  <2>1. {b1} \subseteq Dbs
    BY MCBackupAssumption
  <2> QED BY <1>1, <1>2, <1>3, <1>6, <2>1, Requests
<1>7. CASE Request(Dbs, {closed}, {Owner}, OneBody)
  <2>1. {closed} \subseteq Settings
    BY MCBackupAssumption
  <2> QED BY <1>1, <1>2, <1>3, <1>7, <2>1, Requests
<1> QED BY <1>4, <1>5, <1>6, <1>7 DEF MCNext

(* MarksSound: _mark_segment_uploaded never moves a watermark past an      *)
(* operation that no message of the chat has, whatever failed between the  *)
(* upload and the mark and whichever segments were sent twice; and it never*)
(* inserts a range json_backup_segments has, which is unique.              *)
THEOREM MarksAreSound == MCSpec => []MarksSound
<1>1. MCInit => BackupInv
  BY BackupStart DEF MCInit, BackupInv
<1>2. ASSUME BackupInv PROVE MarksSound
  <2>1. ASSUME worker.pc = "sent", Key(worker.segment) \in segments[worker.segment.db] PROVE FALSE
    <3>1. PICK s : s = worker.segment
      OBVIOUS
    <3>2. /\ s.db \in Dbs /\ s.first \in 1..MaxOps /\ s.last \in 1..MaxOps /\ mark[s.db] < s.first
          /\ s.first =< s.last
      BY <1>2, <2>1, <3>1 DEF BackupInv, Above, Holds
    <3>3. mark[s.db] \in Nat /\ s.first \in Nat /\ s.last \in Nat
      BY <1>2, <3>2, Bounds DEF BackupInv, TypeInv
    <3>4. Key(s)[2] = s.last
      BY DEF Key
    <3>5. s.last =< mark[s.db]
      BY <1>2, <2>1, <3>1, <3>2, <3>4 DEF BackupInv, Above
    <3> QED BY <3>2, <3>3, <3>5
  <2>2. MarkNeverConflicts
    BY <2>1 DEF MarkNeverConflicts
  <2> QED BY <1>2, <2>2 DEF MarksSound, BackupInv, Covered
<1> QED BY <1>1, <1>2, BackupStep, PTL DEF MCSpec

-----------------------------------------------------------------------------
(* Rows, as they are written and as they are replayed *)

LEMMA Merging ==
  ASSUME NEW a \in Data, NEW b \in Data
  PROVE  Merge(a, b) \in Data /\ Merge(Merge(a, b), b) = Merge(a, b)
<1>1. PICK F \in SUBSET Fields : a \in [F -> Values]
  BY DEF Data
<1>2. PICK G \in SUBSET Fields : b \in [G -> Values]
  BY DEF Data
<1>3. Merge(a, b) \in [F \cup G -> Values]
  BY <1>1, <1>2 DEF Merge
<1>4. Merge(a, b) \in Data
  BY <1>3 DEF Data
<1>5. DOMAIN a = F /\ DOMAIN b = G
  BY <1>1, <1>2
<1>6. Merge(a, b) = [f_1 \in F \cup G |-> IF f_1 \in G THEN b[f_1] ELSE a[f_1]]
  BY <1>5 DEF Merge
<1>7. Merge(Merge(a, b), b) = Merge(a, b)
  <2>1. PICK m : m = Merge(a, b)
    OBVIOUS
  <2>2. DOMAIN m = F \cup G /\ m = [f_1 \in F \cup G |-> IF f_1 \in G THEN b[f_1] ELSE a[f_1]]
    BY <1>3, <1>6, <2>1
  <2>3. Merge(m, b) = [f_1 \in F \cup G |-> IF f_1 \in G THEN b[f_1] ELSE m[f_1]]
    <3>1. (F \cup G) \cup G = F \cup G
      OBVIOUS
    <3> QED BY <1>5, <2>2, <3>1 DEF Merge
  <2>4. \A f_1 \in F \cup G : (IF f_1 \in G THEN b[f_1] ELSE m[f_1]) = m[f_1]
    BY <2>2
  <2>5. Merge(m, b) = m
    BY <2>2, <2>3, <2>4
  <2> QED BY <2>1, <2>5
<1> QED BY <1>4, <1>7

(* What the operation o makes of a row, whoever asked for it.              *)
Became(row, new, o) ==
  /\ row \in Row \cup {Absent} /\ new \in Row
  /\ o.op \in Ops /\ o.body.data \in Data /\ o.body.owner \in Apps \cup {None}
  /\ row = Absent => /\ o.op \in {"create", "set"}
                     /\ new.owner = o.body.owner /\ new.version = 1
  /\ row # Absent => /\ new.owner = row.owner /\ o.body.owner \in {row.owner, None}
                     /\ new.version = row.version + 1
  /\ o.op \in {"create", "set"} => new.data = o.body.data /\ ~new.deleted
  /\ o.op = "patch" => new.data = Merge(row.data, o.body.data) /\ (new.deleted <=> row.deleted)
  /\ o.op = "delete" => new.data = row.data /\ new.deleted

Copied(row, copy) == row \in Row \cup {Absent} /\ copy \in Row \cup {Absent} /\ SameContent(row, copy)

LEMMA RowShape ==
  /\ Absent \notin Row
  /\ \A row \in Row : /\ row.owner \in Apps \cup {None} /\ row.data \in Data
                      /\ row.version \in Nat \ {0} /\ row.deleted \in BOOLEAN
                      /\ row = [owner |-> row.owner, data |-> row.data,
                                version |-> row.version, deleted |-> row.deleted]
<1>1. Absent \notin Row
  BY JsonRowsAssumption
<1>2. \A row \in Row : /\ row.owner \in Apps \cup {None} /\ row.data \in Data
                      /\ row.version \in Nat \ {0} /\ row.deleted \in BOOLEAN
                      /\ row = [owner |-> row.owner, data |-> row.data,
                                version |-> row.version, deleted |-> row.deleted]
  BY DEF Row
<1> QED BY <1>1, <1>2

(* What the functions on rows make of one, field by field.                 *)
LEMMA Replacing ==
  ASSUME NEW row \in Row, NEW w, w.data \in Data
  PROVE  /\ ReplaceRow(row, w) \in Row
         /\ ReplaceRow(row, w).owner = row.owner /\ ReplaceRow(row, w).data = w.data
         /\ ReplaceRow(row, w).version = row.version + 1 /\ ReplaceRow(row, w).deleted = FALSE
<1>0. PICK r, data : data = w.data /\ r = ReplaceRow(row, w)
  OBVIOUS
<1>1. row.version + 1 \in Nat \ {0} /\ data \in Data
  BY <1>0 DEF Row
<1>2. r = [row EXCEPT !.data = data, !.version = @ + 1, !.deleted = FALSE]
  BY <1>0 DEF ReplaceRow
<1>3. r \in Row
  BY <1>1, <1>2 DEF Row
<1>4. r.owner = row.owner /\ r.data = data /\ r.version = row.version + 1
  BY <1>2 DEF Row
<1>5. r.deleted = FALSE
  BY <1>2 DEF Row
<1> QED BY <1>0, <1>3, <1>4, <1>5

LEMMA Patching ==
  ASSUME NEW row \in Row, NEW w, w.data \in Data
  PROVE  /\ PatchRow(row, w) \in Row
         /\ PatchRow(row, w).owner = row.owner /\ PatchRow(row, w).data = Merge(row.data, w.data)
         /\ PatchRow(row, w).version = row.version + 1 /\ PatchRow(row, w).deleted = row.deleted
<1>0. PICK r, m : m = Merge(row.data, w.data) /\ r = PatchRow(row, w)
  OBVIOUS
<1>1. m \in Data /\ row.version + 1 \in Nat \ {0}
  BY <1>0, RowShape, Merging
<1>2. r = [row EXCEPT !.data = m, !.version = @ + 1]
  BY <1>0 DEF PatchRow
<1>3. r \in Row
  BY <1>1, <1>2 DEF Row
<1>4. r.owner = row.owner /\ r.data = m /\ r.version = row.version + 1
  BY <1>2 DEF Row
<1>5. r.deleted = row.deleted
  BY <1>2 DEF Row
<1> QED BY <1>0, <1>3, <1>4, <1>5

LEMMA Deleting ==
  ASSUME NEW row \in Row
  PROVE  /\ DeleteRow(row) \in Row
         /\ DeleteRow(row).owner = row.owner /\ DeleteRow(row).data = row.data
         /\ DeleteRow(row).version = row.version + 1 /\ DeleteRow(row).deleted = TRUE
<1>0. PICK r : r = DeleteRow(row)
  OBVIOUS
<1>1. row.version + 1 \in Nat \ {0}
  BY DEF Row
<1>2. r = [row EXCEPT !.version = @ + 1, !.deleted = TRUE]
  BY <1>0 DEF DeleteRow
<1>3. r \in Row
  BY <1>1, <1>2 DEF Row
<1>4. r.owner = row.owner /\ r.data = row.data /\ r.version = row.version + 1
  BY <1>2 DEF Row
<1>5. r.deleted = TRUE
  BY <1>2 DEF Row
<1> QED BY <1>0, <1>3, <1>4, <1>5

Inserted(owner, data, version) == [owner |-> owner, data |-> data, version |-> version, deleted |-> FALSE]
IsInserted(r, owner, data, version) ==
  r \in Row /\ r.owner = owner /\ r.data = data /\ r.version = version /\ r.deleted = FALSE

LEMMA Inserting ==
  ASSUME NEW owner \in Apps \cup {None}, NEW data \in Data, NEW version, version \in Nat \ {0}
  PROVE  IsInserted(Inserted(owner, data, version), owner, data, version)
<1>0. PICK r : r = Inserted(owner, data, version)
  OBVIOUS
<1>r. r = [owner |-> owner, data |-> data, version |-> version, deleted |-> FALSE]
  BY <1>0 DEF Inserted
<1>1. r \in Row
  BY <1>r DEF Row
<1>2. r.owner = owner /\ r.data = data /\ r.version = version
  BY <1>r
<1>3. r.deleted = FALSE
  BY <1>r
<1> QED BY <1>0, <1>1, <1>2, <1>3 DEF IsInserted

(* A write makes of a row what the operation it logs says.                 *)
LEMMA WritesBecome ==
  ASSUME NEW row \in Row \cup {Absent}, NEW p, p.app \in Apps \cup {None}, NEW w, w.op \in Ops, w.data \in Data,
         Finds(w, row), NEW o, NEW new, new = NewRow(p, w, row),
         o.op = LoggedOp(w, row), o.body.data = w.data, o.body.owner = OpOwner(p, new)
  PROVE  Became(row, new, o)
<1>2. w.op \in {"create", "set", "patch", "delete"} /\ (w.op \in {"patch", "delete"} => row # Absent)
  <2>1. w.op \in {"create", "set", "patch", "delete"}
    BY DEF Ops
  <2>2. CASE w.op \in {"patch", "delete"}
    <3>1. Live(row)
      BY <2>2 DEF Finds
    <3> QED BY <2>1, <3>1 DEF Live
  <2> QED BY <2>1, <2>2
<1>3. CASE row = Absent
  <2>1. w.op \in {"create", "set"} /\ new = InsertRow(p, w)
    BY <1>2, <1>3 DEF NewRow
  <2>2. InsertOwner(p) \in Apps \cup {None}
    BY DEF InsertOwner
  <2>3. new = Inserted(InsertOwner(p), w.data, 1)
    BY <2>1 DEF InsertRow, Inserted
  <2>4. new \in Row /\ new.owner = InsertOwner(p) /\ new.data = w.data /\ new.version = 1 /\ new.deleted = FALSE
    <3>1. PICK v : v = 1
      OBVIOUS
    <3>2. v \in Nat \ {0}
      BY <3>1
    <3>3. new = Inserted(InsertOwner(p), w.data, v)
      BY <2>3, <3>1
    <3>4. IsInserted(new, InsertOwner(p), w.data, v)
      BY <2>2, <3>2, <3>3, Inserting
    <3> QED BY <3>1, <3>4 DEF IsInserted
  <2>5. o.op = "create"
    BY <1>2, <1>3, <2>1 DEF LoggedOp
  <2>6. o.body.owner = InsertOwner(p)
    BY <2>4 DEF OpOwner, InsertOwner
  <2> QED BY <1>3, <2>2, <2>4, <2>5, <2>6 DEF Became, Ops
<1>4. CASE row \in Row
  <2>0. row # Absent
    BY <1>4, RowShape
  <2>1. /\ new \in Row /\ new.owner = row.owner /\ new.version = row.version + 1
        /\ w.op \in {"create", "set"} => new.data = w.data /\ new.deleted = FALSE
        /\ w.op = "patch" => new.data = Merge(row.data, w.data) /\ new.deleted = row.deleted
        /\ w.op = "delete" => new.data = row.data /\ new.deleted = TRUE
    <3>1. CASE w.op \in {"create", "set"}
      <4>1. new = ReplaceRow(row, w)
        BY <2>0, <3>1 DEF NewRow
      <4>2. /\ ReplaceRow(row, w) \in Row
            /\ ReplaceRow(row, w).owner = row.owner /\ ReplaceRow(row, w).data = w.data
            /\ ReplaceRow(row, w).version = row.version + 1 /\ ReplaceRow(row, w).deleted = FALSE
        BY <1>4, Replacing
      <4>3. w.op # "patch" /\ w.op # "delete"
        BY <3>1
      <4> QED BY <4>1, <4>2, <4>3
    <3>2. CASE w.op = "patch"
      <4>1. new = PatchRow(row, w)
        BY <3>2 DEF NewRow
      <4> QED BY <1>4, <3>2, <4>1, Patching
    <3>3. CASE w.op = "delete"
      <4>1. new = DeleteRow(row)
        BY <3>3 DEF NewRow
      <4> QED BY <1>4, <3>3, <4>1, Deleting
    <3> QED BY <1>2, <3>1, <3>2, <3>3
  <2>3. o.op = w.op
    BY <2>0 DEF LoggedOp
  <2>5. o.body.owner \in {row.owner, None} /\ row.owner \in Apps \cup {None}
    BY <1>4, <2>1, RowShape DEF OpOwner
  <2> QED BY <1>4, <2>0, <2>1, <2>3, <2>5 DEF Became
<1> QED BY <1>3, <1>4

(* Replaying an operation on a row that is there.                          *)
Redone(copy, o, r) ==
  /\ r \in Row /\ r.version = copy.version + 1
  /\ o.op \in {"create", "set"} =>
       /\ r.owner = (IF copy.owner = None THEN o.body.owner ELSE copy.owner)
       /\ r.data = o.body.data /\ r.deleted = FALSE
  /\ o.op = "patch" => r.owner = copy.owner /\ r.data = Merge(copy.data, o.body.data) /\ r.deleted = copy.deleted
  /\ o.op = "delete" => r.owner = copy.owner /\ r.data = copy.data /\ r.deleted = TRUE

LEMMA Replaying ==
  ASSUME NEW o, o.op \in Ops, o.body.data \in Data, o.body.owner \in Apps \cup {None},
         NEW copy \in Row
  PROVE  Redone(copy, o, ReplayRow(copy, Entry(o)))
<1>0. PICK r : r = ReplayRow(copy, Entry(o))
  OBVIOUS
<1>1. PICK e : e = Entry(o)
  OBVIOUS
<1>2. e.op = o.op /\ e.data = o.body.data /\ e.owner = o.body.owner
  BY <1>1 DEF Entry
<1>3. copy # Absent /\ copy.version + 1 \in Nat \ {0} /\ copy.owner \in Apps \cup {None}
  BY RowShape
<1>4. ASSUME o.op \in {"create", "set"} PROVE Redone(copy, o, r)
  <2>1. PICK owner : owner = IF copy.owner = None THEN o.body.owner ELSE copy.owner
    OBVIOUS
  <2>2. r = Inserted(owner, o.body.data, copy.version + 1)
    BY <1>0, <1>1, <1>2, <1>3, <1>4, <2>1 DEF ReplayRow, Inserted
  <2>3. owner \in Apps \cup {None}
    BY <1>3, <2>1
  <2>4. r \in Row /\ r.owner = owner /\ r.data = o.body.data /\ r.version = copy.version + 1 /\ r.deleted = FALSE
    <3>1. PICK v : v = copy.version + 1
      OBVIOUS
    <3>2. v \in Nat \ {0}
      BY <1>3, <3>1
    <3>3. r = Inserted(owner, o.body.data, v)
      BY <2>2, <3>1
    <3>4. IsInserted(r, owner, o.body.data, v)
      BY <2>3, <3>2, <3>3, Inserting
    <3> QED BY <3>1, <3>4 DEF IsInserted
  <2> QED BY <1>4, <2>1, <2>4 DEF Redone
<1>5. ASSUME o.op = "patch" PROVE Redone(copy, o, r)
  <2>1. r = PatchRow(copy, e)
    BY <1>0, <1>1, <1>2, <1>5 DEF ReplayRow, PatchRow
  <2> QED BY <1>2, <1>5, <2>1, Patching DEF Redone
<1>6. ASSUME o.op = "delete" PROVE Redone(copy, o, r)
  <2>1. r = DeleteRow(copy)
    BY <1>0, <1>1, <1>2, <1>6 DEF ReplayRow, DeleteRow
  <2> QED BY <1>6, <2>1, Deleting DEF Redone
<1>7. o.op \in {"create", "set", "patch", "delete"}
  BY DEF Ops
<1> QED BY <1>0, <1>4, <1>5, <1>6, <1>7

(* Replayed on a copy of the row it was written on, an operation makes a   *)
(* copy of what it made; and so it does when it is replayed on that again. *)
LEMMA FirstReplay ==
  ASSUME NEW row, NEW new, NEW o, Became(row, new, o), NEW copy, Copied(row, copy)
  PROVE  /\ o.op \in {"patch", "delete"} => copy # Absent
         /\ Copied(new, ReplayRow(copy, Entry(o)))
<1>0. PICK r : r = ReplayRow(copy, Entry(o))
  OBVIOUS
<1>1. /\ new \in Row /\ o.op \in Ops /\ o.body.data \in Data /\ o.body.owner \in Apps \cup {None}
  BY DEF Became
<1>2. CASE row = Absent
  <2>1. copy = Absent /\ o.op \in {"create", "set"} /\ o.op \notin {"patch", "delete"}
    BY <1>1, <1>2 DEF Copied, SameContent, Became
  <2>2. r = Inserted(o.body.owner, o.body.data, 1)
    BY <1>0, <2>1 DEF ReplayRow, Entry, Inserted
  <2>3. PICK v : v = 1
    OBVIOUS
  <2>4. r \in Row /\ r.owner = o.body.owner /\ r.data = o.body.data /\ r.version = v /\ r.deleted = FALSE
    <3>1. v \in Nat \ {0}
      BY <2>3
    <3>2. r = Inserted(o.body.owner, o.body.data, v)
      BY <2>2, <2>3
    <3>3. IsInserted(r, o.body.owner, o.body.data, v)
      BY <1>1, <3>1, <3>2, Inserting
    <3> QED BY <3>3 DEF IsInserted
  <2>5. new.owner = o.body.owner /\ new.data = o.body.data /\ new.version = 1 /\ ~new.deleted
    BY <1>2, <2>1 DEF Became
  <2>6. new.deleted = r.deleted
    BY <1>1, <2>4, <2>5, RowShape
  <2>7. SameContent(new, r)
    BY <1>1, <2>3, <2>4, <2>5, <2>6, RowShape DEF SameContent
  <2> QED BY <1>0, <1>1, <2>1, <2>4, <2>7 DEF Copied
<1>3. CASE row \in Row
  <2>1. /\ copy \in Row /\ row.data = copy.data /\ row.deleted = copy.deleted /\ row.owner = copy.owner
        /\ row.version =< copy.version /\ copy # Absent
    BY <1>3, RowShape DEF Copied, SameContent
  <2>2. /\ r \in Row /\ r.version = copy.version + 1
        /\ o.op \in {"create", "set"} =>
              /\ r.owner = (IF copy.owner = None THEN o.body.owner ELSE copy.owner)
              /\ r.data = o.body.data /\ r.deleted = FALSE
        /\ o.op = "patch" => r.owner = copy.owner /\ r.data = Merge(copy.data, o.body.data) /\ r.deleted = copy.deleted
        /\ o.op = "delete" => r.owner = copy.owner /\ r.data = copy.data /\ r.deleted = TRUE
    BY <1>0, <1>1, <2>1, Replaying DEF Redone
  <2>3. /\ new.owner = row.owner /\ new.version = row.version + 1 /\ o.body.owner \in {row.owner, None}
    BY <1>3, <2>1, RowShape DEF Became
  <2>4. r.owner = new.owner
    BY <1>1, <2>1, <2>2, <2>3 DEF Ops
  <2>5. r.data = new.data
    BY <1>1, <2>1, <2>2 DEF Ops, Became
  <2>6. r.deleted <=> new.deleted
    <3>1. CASE o.op \in {"create", "set"}
      BY <2>2, <3>1 DEF Became
    <3>2. CASE o.op = "patch"
      <4>1. new.deleted <=> row.deleted
        BY <3>2 DEF Became
      <4> QED BY <2>1, <2>2, <3>2, <4>1
    <3>3. CASE o.op = "delete"
      BY <2>2, <3>3 DEF Became
    <3> QED BY <1>1, <3>1, <3>2, <3>3 DEF Ops
  <2>7. r.deleted = new.deleted
    BY <1>1, <2>2, <2>6, RowShape
  <2>8. new.version =< r.version
    BY <1>3, <2>1, <2>2, <2>3, RowShape
  <2>9. SameContent(new, r)
    BY <1>1, <2>2, <2>4, <2>5, <2>7, <2>8, RowShape DEF SameContent
  <2> QED BY <1>0, <1>1, <2>1, <2>2, <2>9 DEF Copied
<1> QED BY <1>2, <1>3 DEF Became

LEMMA ReplayAgain ==
  ASSUME NEW row, NEW new, NEW o, Became(row, new, o), NEW copy, Copied(new, copy)
  PROVE  copy # Absent /\ Copied(new, ReplayRow(copy, Entry(o)))
<1>0. PICK r : r = ReplayRow(copy, Entry(o))
  OBVIOUS
<1>1. /\ new \in Row /\ o.op \in Ops /\ o.body.data \in Data /\ o.body.owner \in Apps \cup {None}
  BY DEF Became
<1>2. /\ copy \in Row /\ new.data = copy.data /\ new.deleted = copy.deleted /\ new.owner = copy.owner
      /\ new.version =< copy.version /\ copy # Absent
  BY <1>1, RowShape DEF Copied, SameContent
<1>3. new.owner = None => o.body.owner = None
  BY RowShape DEF Became
<1>4. /\ r \in Row /\ r.version = copy.version + 1
      /\ o.op \in {"create", "set"} =>
           /\ r.owner = (IF copy.owner = None THEN o.body.owner ELSE copy.owner)
           /\ r.data = o.body.data /\ r.deleted = FALSE
      /\ o.op = "patch" => r.owner = copy.owner /\ r.data = Merge(copy.data, o.body.data) /\ r.deleted = copy.deleted
      /\ o.op = "delete" => r.owner = copy.owner /\ r.data = copy.data /\ r.deleted = TRUE
  BY <1>0, <1>1, <1>2, Replaying DEF Redone
<1>5. r.owner = new.owner
  BY <1>1, <1>2, <1>3, <1>4 DEF Ops
<1>6. r.data = new.data
  <2>1. CASE o.op \in {"create", "set"}
    BY <1>4, <2>1 DEF Became
  <2>2. CASE o.op = "patch"
    <3>1. row \in Row /\ new.data = Merge(row.data, o.body.data)
      BY <2>2 DEF Became
    <3>2. Merge(new.data, o.body.data) = new.data
      BY <1>1, <3>1, Merging, RowShape
    <3> QED BY <1>2, <1>4, <2>2, <3>2
  <2>3. CASE o.op = "delete"
    BY <1>2, <1>4, <2>3
  <2> QED BY <1>1, <2>1, <2>2, <2>3 DEF Ops
<1>7. r.deleted <=> new.deleted
  <2>1. CASE o.op \in {"create", "set"}
    BY <1>4, <2>1 DEF Became
  <2>2. CASE o.op = "patch"
    BY <1>2, <1>4, <2>2
  <2>3. CASE o.op = "delete"
    BY <1>4, <2>3 DEF Became
  <2> QED BY <1>1, <2>1, <2>2, <2>3 DEF Ops
<1>8. r.deleted = new.deleted
  BY <1>1, <1>4, <1>7, RowShape
<1>9. new.version =< r.version
  BY <1>1, <1>2, <1>4, RowShape
<1>10. SameContent(new, r)
  BY <1>1, <1>4, <1>5, <1>6, <1>8, <1>9, RowShape DEF SameContent
<1> QED BY <1>0, <1>1, <1>2, <1>4, <1>10 DEF Copied

-----------------------------------------------------------------------------
(* The log, and how the collections come from it *)

Writes(k, d) == {o \in ops : o.coll = k /\ o.op \in Ops /\ o.body.doc = d}
RulesOf(k) == {o \in ops : o.coll = k /\ o.op = "rules"}

NoneBefore(T, n) == \A p \in T : ~(p.id < n)
LastBefore(T, n, o) == o \in T /\ o.id < n /\ \A p \in T : p.id < n => p.id =< o.id

(* A row and a collection's settings as they were before the operation n,  *)
(* where A has the row each write made.                                    *)
Stood(A, k, d, n, row) ==
  \/ row = Absent /\ NoneBefore(Writes(k, d), n)
  \/ \E o : LastBefore(Writes(k, d), n, o) /\ row = A[o.id]
Ruled(k, n, s) ==
  \/ s = Default /\ NoneBefore(RulesOf(k), n)
  \/ \E o : LastBefore(RulesOf(k), n, o) /\ s = o.body.settings

End == MaxOps + 1

(* Every write made its row of the row there was, and what is there now was*)
(* made last.                                                              *)
Told(A) ==
  /\ \A o \in ops : o.op \in Ops =>
       /\ o.body.doc \in DocIds
       /\ \E row : Stood(A, o.coll, o.body.doc, o.id, row) /\ Became(row, A[o.id], o)
  /\ \A k \in CollIds, d \in DocIds : Stood(A, k, d, End, docs[k][d])

LogInv ==
  /\ docs \in [CollIds -> [DocIds -> Row \cup {Absent}]]
  /\ \A o, p \in ops : o.id = p.id => o = p
  /\ \A j, k \in Existing : colls[j].db = colls[k].db /\ colls[j].name = colls[k].name => j = k
  /\ \A k \in Existing : (\E o \in ops : o.coll = k) /\ Ruled(k, End, colls[k].settings)
  /\ \E A : Told(A)

LEMMA LastOne ==
  ASSUME NEW T, NEW n, NEW o, NEW p, LastBefore(T, n, o), LastBefore(T, n, p), o.id \in Nat, p.id \in Nat
  PROVE  o.id = p.id
BY DEF LastBefore

(* What a set of operations says of what was before n is not changed by a  *)
(* later operation.                                                        *)
LEMMA LaterIsNotBefore ==
  ASSUME NEW T, NEW o, NEW U, U \in SUBSET (T \cup {o}), T \in SUBSET U, NEW n \in Nat, o.id \in Nat, n =< o.id
  PROVE  /\ NoneBefore(T, n) => NoneBefore(U, n)
         /\ \A p : LastBefore(T, n, p) => LastBefore(U, n, p)
<1>1. \A p \in U : p.id < n => p \in T
  OBVIOUS
<1>2. ASSUME NoneBefore(T, n) PROVE NoneBefore(U, n)
  BY <1>1, <1>2 DEF NoneBefore
<1>3. ASSUME NEW p, LastBefore(T, n, p) PROVE LastBefore(U, n, p)
  BY <1>1, <1>3 DEF LastBefore
<1> QED BY <1>2, <1>3

(* Where all of them are before both, it does not matter which.            *)
LEMMA AllBefore ==
  ASSUME NEW T, NEW m, NEW n, \A p \in T : p.id < m /\ p.id < n
  PROVE  /\ NoneBefore(T, m) => NoneBefore(T, n)
         /\ \A p : LastBefore(T, m, p) => LastBefore(T, n, p)
BY DEF NoneBefore, LastBefore

(* One more operation of the log.                                          *)
Grows(o) ==
  /\ ops' = ops \cup {o} /\ o.id = NextId(OpIds) /\ o.id =< MaxOps
  /\ \A k \in Existing : k \in Existing' /\ colls'[k].db = colls[k].db /\ colls'[k].name = colls[k].name
  /\ UNCHANGED <<mark, segments, chat, worker, deletes>>

LEMMA GrowsLast ==
  ASSUME TypeInv, NEW o, Grows(o)
  PROVE  /\ o.id \in Nat /\ o.id < End /\ End \in Nat /\ o \notin ops
         /\ \A p \in ops : p.id \in Nat /\ p.id < o.id /\ p.id < End
<1>1. o.id \in Nat \ {0} /\ o.id =< MaxOps /\ \A p \in ops : p.id < o.id
  BY NewOp DEF Grows
<1>2. o.id < End /\ End \in Nat
  BY <1>1, Bounds DEF End
<1>3. \A p \in ops : p.id \in Nat /\ p.id =< MaxOps
  BY Rows
<1>4. \A p \in ops : p.id < End
  BY <1>3, Bounds DEF End
<1> QED BY <1>1, <1>2, <1>3, <1>4

LEMMA StoodStays ==
  ASSUME TypeInv, NEW o, Grows(o), NEW A, NEW B, \A p \in ops : B[p.id] = A[p.id],
         NEW k, NEW d, NEW n \in Nat, n =< o.id, NEW row, Stood(A, k, d, n, row)
  PROVE  Stood(B, k, d, n, row)'
<1>1. PICK T, U : T = Writes(k, d) /\ U = Writes(k, d)'
  OBVIOUS
<1>2. T \in SUBSET ops /\ U \in SUBSET (T \cup {o}) /\ T \in SUBSET U
  BY <1>1 DEF Writes, Grows
<1>3. (NoneBefore(T, n) => NoneBefore(U, n)) /\ \A p : LastBefore(T, n, p) => LastBefore(U, n, p)
  BY <1>2, GrowsLast, LaterIsNotBefore
<1>4. CASE row = Absent /\ NoneBefore(T, n)
  BY <1>1, <1>3, <1>4 DEF Stood
<1>5. ASSUME NEW p, LastBefore(T, n, p), row = A[p.id] PROVE Stood(B, k, d, n, row)'
  <2>1. p \in ops /\ row = B[p.id] /\ LastBefore(U, n, p)
    BY <1>2, <1>3, <1>5 DEF LastBefore
  <2> QED BY <1>1, <2>1 DEF Stood
<1> QED BY <1>1, <1>4, <1>5 DEF Stood

LEMMA RuledStays ==
  ASSUME TypeInv, NEW o, Grows(o), NEW k, NEW n \in Nat, n =< o.id, NEW s, Ruled(k, n, s)
  PROVE  Ruled(k, n, s)'
<1>1. PICK T, U : T = RulesOf(k) /\ U = RulesOf(k)'
  OBVIOUS
<1>2. T \in SUBSET ops /\ U \in SUBSET (T \cup {o}) /\ T \in SUBSET U
  BY <1>1 DEF RulesOf, Grows
<1>3. (NoneBefore(T, n) => NoneBefore(U, n)) /\ \A p : LastBefore(T, n, p) => LastBefore(U, n, p)
  BY <1>2, GrowsLast, LaterIsNotBefore
<1> QED BY <1>1, <1>3 DEF Ruled

(* Where the new operation is not one of them, what was last is last.      *)
LEMMA StandsStill ==
  ASSUME TypeInv, NEW o, Grows(o), NEW A, NEW B, \A p \in ops : B[p.id] = A[p.id],
         NEW k, NEW d, o \notin Writes(k, d)', NEW row, Stood(A, k, d, End, row)
  PROVE  Stood(B, k, d, End, row)'
<1>1. PICK T : T = Writes(k, d)
  OBVIOUS
<1>2. T \in SUBSET ops /\ Writes(k, d)' = T
  BY <1>1 DEF Writes, Grows
<1>3. \A p : LastBefore(T, End, p) => p \in ops
  BY <1>2 DEF LastBefore
<1>4. End' = End
  BY DEF End
<1> QED BY <1>1, <1>2, <1>3, <1>4 DEF Stood

LEMMA RulesStill ==
  ASSUME TypeInv, NEW o, Grows(o), NEW k, o \notin RulesOf(k)', NEW s, Ruled(k, End, s)
  PROVE  Ruled(k, End, s)'
<1>1. RulesOf(k)' = RulesOf(k) /\ End' = End
  BY DEF RulesOf, Grows, End
<1> QED BY <1>1 DEF Ruled

(* What was there when the log grew was last before the new operation.     *)
LEMMA StandsBefore ==
  ASSUME TypeInv, NEW o, Grows(o), NEW A, NEW k, NEW d, NEW row, Stood(A, k, d, End, row)
  PROVE  Stood(A, k, d, o.id, row)
<1>1. PICK T : T = Writes(k, d)
  OBVIOUS
<1>2. \A p \in T : p.id < o.id /\ p.id < End
  BY <1>1, GrowsLast DEF Writes
<1>3. (NoneBefore(T, End) => NoneBefore(T, o.id)) /\ \A p : LastBefore(T, End, p) => LastBefore(T, o.id, p)
  BY <1>2, AllBefore
<1> QED BY <1>1, <1>3 DEF Stood

(* The writes before the new operation were made of what they were made of.*)
LEMMA ToldStays ==
  ASSUME TypeInv, NEW o, Grows(o), NEW A, NEW B, \A p \in ops : B[p.id] = A[p.id], Told(A),
         NEW p \in ops, p.op \in Ops
  PROVE  /\ p.body.doc \in DocIds
         /\ \E row : Stood(B, p.coll, p.body.doc, p.id, row)' /\ Became(row, B[p.id], p)
<1>1. PICK row : Stood(A, p.coll, p.body.doc, p.id, row) /\ Became(row, A[p.id], p)
  BY DEF Told
<1>2. p.id \in Nat /\ p.id =< o.id
  BY GrowsLast
<1>3. Stood(B, p.coll, p.body.doc, p.id, row)'
  BY <1>1, <1>2, StoodStays
<1> QED BY <1>1, <1>3 DEF Told

(* An operation on no document.                                            *)
LEMMA ToldOther ==
  ASSUME TypeInv, NEW o, Grows(o), o.op \notin Ops, UNCHANGED docs, NEW A, Told(A)
  PROVE  Told(A)'
<1>1. ASSUME NEW p \in ops', p.op \in Ops
      PROVE  /\ p.body.doc \in DocIds
             /\ \E row : Stood(A, p.coll, p.body.doc, p.id, row)' /\ Became(row, A[p.id], p)
  <2>1. p \in ops
    BY <1>1 DEF Grows
  <2> QED BY <1>1, <2>1, ToldStays
<1>2. ASSUME NEW k \in CollIds, NEW d \in DocIds PROVE Stood(A, k, d, End, docs[k][d])'
  <2>1. o \notin Writes(k, d)'
    BY DEF Writes
  <2>2. Stood(A, k, d, End, docs[k][d])
    BY DEF Told
  <2>3. PICK row : row = docs[k][d]
    OBVIOUS
  <2>4. Stood(A, k, d, End, row)'
    BY <2>1, <2>2, <2>3, StandsStill
  <2> QED BY <2>3, <2>4 DEF Stood
<1> QED BY <1>1, <1>2 DEF Told, CollIds

(* The three requests that make the log grow.                              *)
LEMMA Appends ==
  ASSUME TypeInv, NEW k, NEW op, NEW body, Log(k, op, body), Counted,
         \A j \in Existing : j \in Existing' /\ colls'[j].db = colls[j].db /\ colls'[j].name = colls[j].name
  PROVE  \E o : /\ Grows(o) /\ o.coll = k /\ o.op = op /\ o.body = body
                /\ o = [id |-> NextId(OpIds), coll |-> k, op |-> op, body |-> body]
<1>1. PICK o : o = [id |-> NextId(OpIds), coll |-> k, op |-> op, body |-> body]
  OBVIOUS
<1>2. o.id = NextId(OpIds) /\ o.coll = k /\ o.op = op /\ o.body = body
  BY <1>1
<1>3. ops' = ops \cup {o} /\ o.id =< MaxOps /\ UNCHANGED <<mark, segments, chat, worker, deletes>>
  BY <1>1, <1>2 DEF Log, Counted, backup
<1>4. Grows(o)
  BY <1>2, <1>3 DEF Grows
<1> QED BY <1>1, <1>2, <1>4

LEMMA UniqueStays ==
  ASSUME TypeInv, LogInv, NEW o, Grows(o)
  PROVE  /\ \A p, q \in ops' : p.id = q.id => p = q
         /\ ops \in SUBSET ops' /\ o \in ops'
<1>1. \A p, q \in ops : p.id = q.id => p = q
  BY DEF LogInv
<1>2. \A p \in ops : p.id \in Nat /\ o.id \in Nat /\ p.id < o.id
  BY GrowsLast
<1>3. \A p \in ops : p.id # o.id
  BY <1>2
<1>4. ops' = ops \cup {o}
  BY DEF Grows
<1> QED BY <1>1, <1>3, <1>4

LEMMA CreateLogs ==
  ASSUME TypeInv, LogInv, NEW b \in Dbs, NEW name \in Names, CreateCollection(b, name)
  PROVE  LogInv' /\ \E o : Grows(o)
<1>1. PICK k : k = NextId(Existing)
  OBVIOUS
<1>2. PICK row : row = [db |-> b, name |-> name, settings |-> Default]
  OBVIOUS
<1>3. /\ k \in CollIds /\ colls' = [colls EXCEPT ![k] = row] /\ UNCHANGED docs
      /\ Log(k, "collection", [name |-> name]) /\ Counted
      /\ \A j \in Existing : ~(colls[j].db = b /\ colls[j].name = name)
  BY <1>1, <1>2 DEF CreateCollection
<1>4. row # Absent /\ row.db = b /\ row.name = name /\ row.settings = Default
  <2>1. row \in CollRow
    BY <1>2, OpLogBackupAssumption DEF CollRow
  <2> QED BY <1>2, <2>1, Bounds
<1>5. k \notin Existing
  BY <1>1, NewColl
<1>6. Existing' = Existing \cup {k} /\ colls'[k] = row /\ \A j \in Existing : colls'[j] = colls[j] /\ j # k
  BY <1>3, <1>4, <1>5 DEF TypeInv, Existing
<1>7. PICK o : Grows(o) /\ o.coll = k /\ o.op = "collection"
  BY <1>3, <1>6, Appends
<1>8. docs' \in [CollIds -> [DocIds -> Row \cup {Absent}]]
  BY <1>3 DEF LogInv
<1>9. (\A p, q \in ops' : p.id = q.id => p = q) /\ ops \in SUBSET ops' /\ o \in ops'
  BY <1>7, UniqueStays
<1>10. \A i, j \in Existing' : colls'[i].db = colls'[j].db /\ colls'[i].name = colls'[j].name => i = j
  BY <1>3, <1>4, <1>6 DEF LogInv
<1>11. ASSUME NEW j \in Existing' PROVE (\E p \in ops' : p.coll = j) /\ Ruled(j, End, colls[j].settings)'
  <2>1. o \notin RulesOf(j)'
    BY <1>7 DEF RulesOf
  <2>2. CASE j \in Existing
    <3>1. PICK s : s = colls[j].settings
      OBVIOUS
    <3>2. Ruled(j, End, s) /\ \E p \in ops : p.coll = j
      BY <2>2, <3>1 DEF LogInv
    <3>3. Ruled(j, End, s)' /\ s = colls'[j].settings
      BY <1>6, <1>7, <2>1, <2>2, <3>1, <3>2, RulesStill
    <3> QED BY <1>9, <3>2, <3>3 DEF Ruled
  <2>3. CASE j = k
    <3>1. \A p \in ops : p.coll # k
      BY <1>5 DEF TypeInv
    <3>2. NoneBefore(RulesOf(j), End)
      BY <2>3, <3>1 DEF RulesOf, NoneBefore
    <3>3. Ruled(j, End, Default)
      BY <3>2 DEF Ruled
    <3>4. Ruled(j, End, Default)' /\ Default = colls'[j].settings
      BY <1>4, <1>6, <1>7, <2>1, <2>3, <3>3, RulesStill
    <3> QED BY <1>7, <1>9, <2>3, <3>4 DEF Ruled
  <2> QED BY <1>6, <2>2, <2>3
<1>12. PICK A : Told(A)
  BY DEF LogInv
<1>13. Told(A)'
  <2>1. o.op \notin Ops
    BY <1>7 DEF Ops
  <2> QED BY <1>3, <1>7, <1>12, <2>1, ToldOther
<1> QED BY <1>7, <1>8, <1>9, <1>10, <1>11, <1>13 DEF LogInv

LEMMA SettingsLog ==
  ASSUME TypeInv, LogInv, NEW k \in Existing, NEW s \in Settings, ChangeSettings(k, s)
  PROVE  LogInv' /\ \E o : Grows(o)
<1>1. PICK row : row = [colls[k] EXCEPT !.settings = s]
  OBVIOUS
<1>2. k \in CollIds /\ colls[k] \in CollRow
  BY DEF Existing, TypeInv
<1>3. row \in CollRow /\ row # Absent /\ row.db = colls[k].db /\ row.name = colls[k].name /\ row.settings = s
  BY <1>1, <1>2, Bounds DEF CollRow
<1>4. /\ colls' = [colls EXCEPT ![k] = row] /\ UNCHANGED docs
      /\ Log(k, "rules", [settings |-> s]) /\ Counted
  BY <1>1 DEF ChangeSettings
<1>6. /\ Existing' = Existing /\ colls'[k] = row /\ \A j \in Existing : j # k => colls'[j] = colls[j]
  BY <1>2, <1>3, <1>4 DEF TypeInv, Existing
<1>7. PICK o : Grows(o) /\ o.coll = k /\ o.op = "rules" /\ o.body = [settings |-> s]
  BY <1>3, <1>4, <1>6, Appends
<1>8. docs' \in [CollIds -> [DocIds -> Row \cup {Absent}]]
  BY <1>4 DEF LogInv
<1>9. (\A p, q \in ops' : p.id = q.id => p = q) /\ ops \in SUBSET ops' /\ o \in ops'
  BY <1>7, UniqueStays
<1>10. \A i, j \in Existing' : colls'[i].db = colls'[j].db /\ colls'[i].name = colls'[j].name => i = j
  <2>1. \A j \in Existing : colls'[j].db = colls[j].db /\ colls'[j].name = colls[j].name
    BY <1>3, <1>6
  <2> QED BY <1>6, <2>1 DEF LogInv
<1>11. ASSUME NEW j \in Existing' PROVE (\E p \in ops' : p.coll = j) /\ Ruled(j, End, colls[j].settings)'
  <2>1. PICK t : t = colls[j].settings
    OBVIOUS
  <2>2. Ruled(j, End, t) /\ \E p \in ops : p.coll = j
    BY <1>6, <2>1 DEF LogInv
  <2>3. CASE j # k
    <3>1. o \notin RulesOf(j)'
      BY <1>7, <2>3 DEF RulesOf
    <3>3. Ruled(j, End, t)' /\ t = colls'[j].settings
      BY <1>6, <1>7, <2>1, <2>2, <2>3, <3>1, RulesStill
    <3> QED BY <1>9, <2>2, <3>3 DEF Ruled
  <2>4. CASE j = k
    <3>1. o \in RulesOf(j)'
      BY <1>7, <1>9, <2>4 DEF RulesOf
    <3>2. \A p \in RulesOf(j)' : p.id =< o.id
      <4>1. \A p \in ops : p.id \in Nat /\ p.id < o.id /\ o.id \in Nat
        BY <1>7, GrowsLast
      <4>2. \A p \in ops' : p \in ops \/ p = o
        BY <1>7 DEF Grows
      <4>3. o.id \in Nat
        BY <1>7, GrowsLast
      <4> QED BY <4>1, <4>2, <4>3 DEF RulesOf
    <3>3. o.id < End /\ End' = End
      BY <1>7, GrowsLast DEF End
    <3>4. LastBefore(RulesOf(j)', End', o)
      BY <3>1, <3>2, <3>3 DEF LastBefore
    <3>5. o.body.settings = colls'[j].settings
      BY <1>3, <1>6, <1>7, <2>4
    <3>6. Ruled(j, End, colls[j].settings)'
      BY <3>4, <3>5 DEF Ruled
    <3> QED BY <1>9, <2>2, <3>6
  <2> QED BY <2>3, <2>4
<1>12. PICK A : Told(A)
  BY DEF LogInv
<1>13. Told(A)'
  <2>1. o.op \notin Ops
    BY <1>7 DEF Ops
  <2> QED BY <1>4, <1>7, <1>12, <2>1, ToldOther
<1> QED BY <1>7, <1>8, <1>9, <1>10, <1>11, <1>13 DEF LogInv

LEMMA WriteLogs ==
  ASSUME TypeInv, LogInv, NEW k \in Existing, NEW p, p.app \in Apps \cup {None},
         NEW w, w.op \in Ops, w.id \in DocIds, w.data \in Data, WriteDocument(k, p, w)
  PROVE  LogInv' /\ \E o : Grows(o)
<1>1. PICK d, row : d = w.id /\ row = docs[k][d]
  OBVIOUS
<1>2. PICK new : new = NewRow(p, w, row)
  OBVIOUS
<1>3. PICK body : body = [doc |-> d, data |-> w.data, owner |-> OpOwner(p, new)]
  OBVIOUS
<1>4. /\ Finds(w, row) /\ docs' = [docs EXCEPT ![k][d] = new] /\ UNCHANGED colls
      /\ Log(k, LoggedOp(w, row), body) /\ Counted
  BY <1>1, <1>2, <1>3 DEF WriteDocument
<1>5. k \in CollIds /\ d \in DocIds /\ docs \in [CollIds -> [DocIds -> Row \cup {Absent}]] /\ row \in Row \cup {Absent}
  BY <1>1 DEF Existing, LogInv
<1>6. Existing' = Existing
  BY <1>4 DEF Existing
<1>7. PICK o : Grows(o) /\ o.coll = k /\ o.op = LoggedOp(w, row) /\ o.body = body
  BY <1>4, <1>6, Appends
<1>8. o.body.doc = d /\ o.body.data = w.data /\ o.body.owner = OpOwner(p, new)
  BY <1>3, <1>7
<1>9. Became(row, new, o)
  BY <1>2, <1>4, <1>5, <1>7, <1>8, WritesBecome
<1>10. new \in Row /\ o.op \in Ops
  BY <1>9 DEF Became
<1>11. /\ docs' \in [CollIds -> [DocIds -> Row \cup {Absent}]] /\ docs'[k][d] = new
       /\ \A j \in CollIds, e \in DocIds : j # k \/ e # d => docs'[j][e] = docs[j][e]
  BY <1>4, <1>5, <1>10
<1>12. (\A q, r \in ops' : q.id = r.id => q = r) /\ ops \in SUBSET ops' /\ o \in ops'
  BY <1>7, UniqueStays
<1>13. \A i, j \in Existing' : colls'[i].db = colls'[j].db /\ colls'[i].name = colls'[j].name => i = j
  BY <1>4, <1>6 DEF LogInv
<1>14. ASSUME NEW j \in Existing' PROVE (\E q \in ops' : q.coll = j) /\ Ruled(j, End, colls[j].settings)'
  <2>1. PICK t : t = colls[j].settings
    OBVIOUS
  <2>2. Ruled(j, End, t) /\ \E q \in ops : q.coll = j
    BY <1>6, <2>1 DEF LogInv
  <2>3. o \notin RulesOf(j)'
    BY <1>10 DEF RulesOf, Ops
  <2>4. Ruled(j, End, t)' /\ t = colls'[j].settings
    BY <1>4, <1>7, <2>1, <2>2, <2>3, RulesStill
  <2> QED BY <1>12, <2>2, <2>4 DEF Ruled
<1>15. PICK A : Told(A)
  BY DEF LogInv
<1>16. /\ o.id \in Nat /\ o.id < End /\ \A q \in ops : q.id \in Nat /\ q.id < o.id /\ q.id < End
  BY <1>7, GrowsLast
<1>17. PICK B : B = [i \in Nat |-> IF i = o.id THEN new ELSE A[i]]
  OBVIOUS
<1>18. B[o.id] = new /\ \A q \in ops : B[q.id] = A[q.id]
  <2>1. \A q \in ops : q.id \in Nat /\ q.id # o.id
    BY <1>16
  <2> QED BY <1>16, <1>17, <2>1
<1>19. ASSUME NEW q \in ops', q.op \in Ops
       PROVE  /\ q.body.doc \in DocIds
              /\ \E r : Stood(B, q.coll, q.body.doc, q.id, r)' /\ Became(r, B[q.id], q)
  <2>1. CASE q \in ops
    BY <1>7, <1>15, <1>18, <1>19, <2>1, ToldStays
  <2>2. CASE q = o
    <3>1. Stood(A, k, d, End, row)
      BY <1>1, <1>5, <1>15 DEF Told
    <3>2. Stood(A, k, d, o.id, row)
      BY <1>7, <3>1, StandsBefore
    <3>3. o.id =< o.id
      BY <1>16
    <3>4. Stood(B, k, d, o.id, row)'
      BY <1>7, <1>16, <1>18, <3>2, <3>3, StoodStays
    <3>5. q.coll = k /\ q.body.doc = d /\ q.id = o.id /\ Became(row, B[q.id], q)
      BY <1>7, <1>8, <1>9, <1>18, <2>2
    <3> QED BY <1>5, <3>4, <3>5
  <2> QED BY <1>7, <2>1, <2>2 DEF Grows
<1>20. ASSUME NEW j \in CollIds, NEW e \in DocIds PROVE Stood(B, j, e, End, docs[j][e])'
  <2>1. PICK r : r = docs'[j][e]
    OBVIOUS
  <2>2. CASE j = k /\ e = d
    <3>1. o \in Writes(j, e)'
      BY <1>7, <1>8, <1>10, <1>12, <2>2 DEF Writes
    <3>2. \A q \in ops' : q.id \in Nat /\ q.id =< o.id
      <4>1. \A q \in ops' : q \in ops \/ q = o
        BY <1>7 DEF Grows
      <4>2. \A q \in ops : q.id =< o.id
        BY <1>16
      <4> QED BY <1>16, <4>1, <4>2
    <3>3. LastBefore(Writes(j, e)', End', o)
      BY <1>16, <3>1, <3>2 DEF LastBefore, Writes, End
    <3>4. r = B[o.id]
      BY <1>11, <1>18, <2>1, <2>2
    <3>5. Stood(B, j, e, End, r)'
      BY <3>3, <3>4 DEF Stood
    <3> QED BY <2>1, <3>5 DEF Stood
  <2>3. CASE j # k \/ e # d
    <3>1. o \notin Writes(j, e)'
      BY <1>7, <1>8, <2>3 DEF Writes
    <3>2. r = docs[j][e] /\ Stood(A, j, e, End, docs[j][e])
      BY <1>11, <1>15, <2>1, <2>3 DEF Told
    <3>3. Stood(B, j, e, End, r)'
      BY <1>7, <1>18, <3>1, <3>2, StandsStill
    <3> QED BY <2>1, <3>3 DEF Stood
  <2> QED BY <2>2, <2>3
<1>21. Told(B)'
  BY <1>19, <1>20 DEF Told, CollIds
<1> QED BY <1>7, <1>11, <1>12, <1>13, <1>14, <1>21 DEF LogInv

LEMMA RequestLogs ==
  ASSUME TypeInv, LogInv, NEW Ds, NEW Ss, NEW Ps, NEW Bs,
         Ds \subseteq Dbs, Ss \subseteq Settings, Ps \subseteq Writers, Bs \subseteq Bodies, Request(Ds, Ss, Ps, Bs)
  PROVE  (LogInv' /\ \E o : Grows(o)) \/ \E k \in Existing : DeleteCollection(k)
<1>1. CASE \E b \in Ds : \E name \in Names : CreateCollection(b, name)
  BY <1>1, CreateLogs
<1>2. ASSUME NEW k \in Existing, NEW s \in Ss, ChangeSettings(k, s) PROVE LogInv' /\ \E o : Grows(o)
  BY <1>2, SettingsLog
<1>3. ASSUME NEW k \in Existing, NEW p \in Ps, NEW op \in Ops, NEW d \in DocIds, NEW data \in Bs,
             WriteDocument(k, p, [op |-> op, id |-> d, data |-> IF op = "delete" THEN NoData ELSE data])
      PROVE  LogInv' /\ \E o : Grows(o)
  <2>1. PICK w : w = [op |-> op, id |-> d, data |-> IF op = "delete" THEN NoData ELSE data]
    OBVIOUS
  <2>2. p.app \in Apps \cup {None} /\ data \in Data
    BY OpLogBackupAssumption
  <2>3. NoData \in Data
    <3>1. NoData \in [{} -> Values]
      BY DEF NoData
    <3> QED BY <3>1 DEF Data
  <2>4. w.op = op /\ w.id = d /\ w.data \in Data
    BY <2>1, <2>2, <2>3
  <2> QED BY <1>3, <2>1, <2>2, <2>4, WriteLogs
<1> QED BY <1>1, <1>2, <1>3 DEF Request

-----------------------------------------------------------------------------
(* What the segments hold *)

(* A segment has the operations of its range, each once, with the name of  *)
(* its collection and settings that are new only if they were changed.     *)
SegmentOK(s) ==
  /\ s.first \in Nat /\ s.last \in OpIds /\ IsFiniteSet(s.ops)
  /\ \A e \in s.ops : /\ e.row \in OpsOf(s.db) /\ s.first =< e.row.id /\ e.row.id =< s.last
                      /\ e.meta.name = colls[e.row.coll].name
                      /\ e.meta.settings = Default \/ RulesOf(e.row.coll) # {}
  /\ \A e, e_1 \in s.ops : e.row = e_1.row => e = e_1
  /\ \A o \in OpsOf(s.db) : s.first =< o.id /\ o.id =< s.last => \E e \in s.ops : e.row = o

(* What a chat has of a database are its operations up to some id.         *)
ChatInv ==
  /\ \A b \in Dbs : \A i \in DOMAIN chat[b] :
       /\ chat[b][i].db = b /\ SegmentOK(chat[b][i])
       /\ \A o \in OpsOf(b) : o.id =< chat[b][i].last => InChat(b, o)
  /\ Holds => SegmentOK(worker.segment)

LEMMA OpsGrow ==
  ASSUME TypeInv, NEW o, Grows(o), NEW b
  PROVE  OpsOf(b) \in SUBSET OpsOf(b)' /\ OpsOf(b)' \in SUBSET (OpsOf(b) \cup {o})
<1>1. \A p \in ops : p.coll \in Existing /\ p \in ops'
  BY DEF TypeInv, Grows
<1> QED BY <1>1 DEF OpsOf, Grows

LEMMA SegmentStays ==
  ASSUME TypeInv, NEW o, Grows(o), NEW s, SegmentOK(s)
  PROVE  SegmentOK(s)' /\ s.last < o.id
<1>1. OpsOf(s.db) \in SUBSET OpsOf(s.db)' /\ OpsOf(s.db)' \in SUBSET (OpsOf(s.db) \cup {o})
  BY OpsGrow
<1>2. o.id \in Nat /\ \A p \in ops : p.id \in Nat /\ p.id < o.id
  BY GrowsLast
<1>3. s.last \in Nat /\ s.last < o.id /\ s.last \in OpIds'
  BY <1>2 DEF SegmentOK, OpIds, Grows
<1>4. ASSUME NEW e \in s.ops
      PROVE  /\ e.row \in OpsOf(s.db)' /\ e.meta.name = colls'[e.row.coll].name
             /\ e.meta.settings = Default \/ RulesOf(e.row.coll)' # {}
  <2>1. /\ e.row \in OpsOf(s.db) /\ e.meta.name = colls[e.row.coll].name
        /\ e.meta.settings = Default \/ RulesOf(e.row.coll) # {}
    BY DEF SegmentOK
  <2>2. e.row.coll \in Existing
    BY <2>1 DEF OpsOf, TypeInv
  <2>3. RulesOf(e.row.coll) \in SUBSET RulesOf(e.row.coll)'
    BY DEF RulesOf, Grows
  <2> QED BY <1>1, <2>1, <2>2, <2>3 DEF Grows
<1>5. ASSUME NEW p \in OpsOf(s.db)', s.first =< p.id, p.id =< s.last PROVE \E e \in s.ops : e.row = p
  <2>1. p # o
    BY <1>2, <1>3, <1>5
  <2> QED BY <1>1, <1>5, <2>1 DEF SegmentOK
<1> QED BY <1>3, <1>4, <1>5 DEF SegmentOK

LEMMA ChatGrows ==
  ASSUME TypeInv, ChatInv, NEW o, Grows(o)
  PROVE  ChatInv'
<1>1. UNCHANGED <<chat, worker>>
  BY DEF Grows
<1>2. ASSUME NEW b \in Dbs, NEW i \in DOMAIN chat[b]
      PROVE  /\ chat'[b][i].db = b /\ SegmentOK(chat[b][i])'
             /\ \A p \in OpsOf(b)' : p.id =< chat'[b][i].last => InChat(b, p)'
  <2>1. PICK s : s = chat[b][i]
    OBVIOUS
  <2>2. s.db = b /\ SegmentOK(s) /\ \A p \in OpsOf(b) : p.id =< s.last => InChat(b, p)
    BY <2>1 DEF ChatInv
  <2>3. SegmentOK(s)' /\ s.last < o.id
    BY <2>2, SegmentStays
  <2>4. ASSUME NEW p \in OpsOf(b)', p.id =< s.last PROVE InChat(b, p)
    <3>1. o.id \in Nat /\ s.last \in Nat
      BY <2>2, GrowsLast DEF SegmentOK, OpIds
    <3>2. p # o
      BY <2>3, <2>4, <3>1
    <3>3. p \in OpsOf(b)
      BY <2>4, <3>2, OpsGrow
    <3> QED BY <2>2, <2>4, <3>3
  <2>5. s = chat'[b][i]
    BY <1>1, <2>1
  <2>6. \A p \in OpsOf(b)' : p.id =< s.last => InChat(b, p)'
    BY <1>1, <2>4 DEF InChat
  <2> QED BY <2>2, <2>3, <2>5, <2>6 DEF SegmentOK
<1>3. ASSUME Holds PROVE SegmentOK(worker.segment)'
  <2>1. PICK s : s = worker.segment
    OBVIOUS
  <2>2. SegmentOK(s)'
    BY <1>3, <2>1, SegmentStays DEF ChatInv
  <2>3. s = worker'.segment
    BY <1>1, <2>1
  <2> QED BY <2>2, <2>3 DEF SegmentOK
<1> QED BY <1>1, <1>2, <1>3 DEF ChatInv, Holds

(* Where neither the log nor the chats change.                             *)
LEMMA ChatStays ==
  ASSUME ChatInv, UNCHANGED <<colls, ops, chat>>, Holds' => SegmentOK(worker.segment)'
  PROVE  ChatInv'
<1>1. \A b : OpsOf(b)' = OpsOf(b)
  BY DEF OpsOf
<1>2. \A s : SegmentOK(s) => SegmentOK(s)'
  BY DEF SegmentOK, OpsOf, OpIds, RulesOf
<1> QED BY <1>1, <1>2 DEF ChatInv, InChat

LEMMA Image ==
  ASSUME NEW S, IsFiniteSet(S), NEW F, NEW T, \A y \in T : \E x \in S : y = F[x]
  PROVE  IsFiniteSet(T)
<1>1. PICK U : U = {F[x] : x \in S}
  OBVIOUS
<1>2. PICK h : h = [x \in S |-> F[x]]
  OBVIOUS
<1>3. h \in Surjection(S, U)
  BY <1>1, <1>2 DEF Surjection
<1>4. IsFiniteSet(U)
  BY <1>3, FS_Surjection
<1>5. T \in SUBSET U
  BY <1>1
<1> QED BY <1>4, <1>5, FS_Subset

LEMMA CutOK ==
  ASSUME TypeInv, LogInv, NEW b, Pending(b) # {}
  PROVE  SegmentOK(Segment(b))
<1>1. PICK S : S = Pending(b)
  OBVIOUS
<1>2. S \in SUBSET OpsOf(b) /\ OpsOf(b) \in SUBSET ops /\ \A o \in S : o.id \in Nat /\ o.id =< MaxOps
  BY <1>1, Rows DEF Pending, OpsOf
<1>3. IsFiniteSet(S) /\ S # {}
  BY <1>1, <1>2, FS_Subset DEF TypeInv
<1>4. PICK rows : rows = OldestOf(S)
  OBVIOUS
<1>5. rows \in SUBSET S /\ rows # {}
  BY <1>2, <1>3, <1>4, Batch
<1>6. PICK ids : ids = {o.id : o \in rows}
  OBVIOUS
<1>7. ids \in SUBSET Nat /\ ids # {} /\ \A n \in ids : n =< MaxOps
  BY <1>2, <1>5, <1>6
<1>8. PICK low, high : low = Min(ids) /\ high = Max(ids)
  OBVIOUS
<1>9. /\ low \in ids /\ (\A n \in ids : low =< n)
      /\ high \in ids /\ (\A n \in ids : n =< high)
  BY <1>7, <1>8, Lowest, Highest, Bounds
<1>10. PICK s : s = [db |-> b, first |-> low, last |-> high,
                     ops |-> {[row |-> o, meta |-> colls[o.coll]] : o \in rows}]
  OBVIOUS
<1>11. s = Segment(b)
  BY <1>1, <1>4, <1>6, <1>8, <1>10 DEF Segment
<1>12. /\ s.db = b /\ s.first = low /\ s.last = high
       /\ s.ops = {[row |-> o, meta |-> colls[o.coll]] : o \in rows}
  BY <1>10
<1>13. \A e \in s.ops : e.row \in rows /\ e = [row |-> e.row, meta |-> colls[e.row.coll]] /\ e.meta = colls[e.row.coll]
  BY <1>12
<1>14. IsFiniteSet(s.ops)
  <2>1. IsFiniteSet(rows)
    BY <1>3, <1>5, FS_Subset
  <2>2. PICK F : F = [o \in rows |-> [row |-> o, meta |-> colls[o.coll]]]
    OBVIOUS
  <2>3. ASSUME NEW e \in s.ops PROVE \E o \in rows : e = F[o]
    <3>1. PICK o \in rows : e = [row |-> o, meta |-> colls[o.coll]]
      BY <1>12
    <3> QED BY <2>2, <3>1
  <2> QED BY <2>1, <2>3, Image
<1>15. s.last \in OpIds /\ s.first \in Nat
  BY <1>2, <1>5, <1>6, <1>7, <1>9, <1>12 DEF OpIds
<1>16. ASSUME NEW e \in s.ops
       PROVE  /\ e.row \in OpsOf(s.db) /\ s.first =< e.row.id /\ e.row.id =< s.last
              /\ e.meta.name = colls[e.row.coll].name
              /\ e.meta.settings = Default \/ RulesOf(e.row.coll) # {}
  <2>1. e.row \in rows /\ e.meta = colls[e.row.coll]
    BY <1>13
  <2>2. e.row \in OpsOf(s.db) /\ s.first =< e.row.id /\ e.row.id =< s.last
    BY <1>2, <1>5, <1>6, <1>9, <1>12, <2>1
  <2>3. e.row.coll \in Existing
    BY <2>2 DEF OpsOf, TypeInv
  <2>4. Ruled(e.row.coll, End, colls[e.row.coll].settings)
    BY <2>3 DEF LogInv
  <2>5. colls[e.row.coll].settings = Default \/ RulesOf(e.row.coll) # {}
    BY <2>4 DEF Ruled, LastBefore
  <2> QED BY <2>1, <2>2, <2>5
<1>17. \A e, e_1 \in s.ops : e.row = e_1.row => e = e_1
  BY <1>13
<1>18. ASSUME NEW o \in OpsOf(s.db), s.first =< o.id, o.id =< s.last PROVE \E e \in s.ops : e.row = o
  <2>1. mark[b] < s.first /\ Complete(s) /\ b \in Dbs
    BY <1>11, <1>12, Cut
  <2>2. mark[b] \in Nat /\ s.first \in Nat /\ o.id \in Nat
    BY <1>2, <1>12, <1>15, <2>1, Rows DEF TypeInv, OpsOf
  <2>3. mark[s.db] < o.id
    BY <1>12, <1>18, <2>1, <2>2
  <2> QED BY <1>18, <2>1, <2>3 DEF Complete
<1>19. SegmentOK(s)
  BY <1>14, <1>15, <1>16, <1>17, <1>18 DEF SegmentOK
<1> QED BY <1>11, <1>19

LEMMA ChatPosts ==
  ASSUME TypeInv, Above, Covered, ChatInv, Upload
  PROVE  ChatInv'
<1>1. PICK s : s = worker.segment
  OBVIOUS
<1>2. /\ worker.pc = "built" /\ worker'.segment = s
      /\ chat' = [chat EXCEPT ![s.db] = Append(@, s)] /\ UNCHANGED <<colls, ops, mark>>
  BY <1>1, HasPosted
<1>3. s.db \in Dbs /\ DOMAIN chat = Dbs /\ SegmentOK(s) /\ Complete(s) /\ Holds
  BY <1>1, <1>2 DEF Above, Holds, TypeInv, ChatInv, Covered
<1>4. PICK q, r : q = chat[s.db] /\ r = Append(q, s)
  OBVIOUS
<1>5. chat'[s.db] = r /\ \A b \in Dbs : b # s.db => chat'[b] = chat[b]
  BY <1>2, <1>3, <1>4
<1>6. /\ \A i \in DOMAIN q : i \in DOMAIN r /\ r[i] = q[i]
      /\ \E i \in DOMAIN r : r[i] = s
      /\ \A i \in DOMAIN r : i \in DOMAIN q \/ r[i] = s
  <2>1. PICK S : q \in Seq(S)
    BY <1>3, <1>4 DEF TypeInv, IsChat
  <2>2. PICK T : T = S \cup {s}
    OBVIOUS
  <2>3. q \in Seq(T) /\ s \in T
    BY <2>1, <2>2, SeqMonotonic
  <2>4. /\ Len(q) \in Nat /\ DOMAIN q = 1..Len(q) /\ DOMAIN r = 1..(Len(q) + 1)
        /\ (\A i \in DOMAIN q : r[i] = q[i]) /\ r[Len(q) + 1] = s
    BY <1>4, <2>3
  <2>5. \A i \in DOMAIN r : i \in DOMAIN q \/ i = Len(q) + 1
    BY <2>4
  <2>6. (\A i \in DOMAIN q : i \in DOMAIN r) /\ Len(q) + 1 \in DOMAIN r
    BY <2>4
  <2> QED BY <2>4, <2>5, <2>6
<1>7. ASSUME NEW b \in Dbs, NEW o, InChat(b, o) PROVE InChat(b, o)'
  BY <1>4, <1>5, <1>6, <1>7 DEF InChat
<1>8. \A b : OpsOf(b)' = OpsOf(b)
  BY <1>2 DEF OpsOf
<1>9. \A t : SegmentOK(t) => SegmentOK(t)'
  BY <1>2 DEF SegmentOK, OpsOf, OpIds, RulesOf
<1>10. ASSUME NEW o \in OpsOf(s.db), o.id =< s.last PROVE InChat(s.db, o)'
  <2>1. CASE o.id =< mark[s.db]
    <3>1. InChat(s.db, o)
      BY <1>3, <2>1 DEF Covered, MarkedIsInChat
    <3> QED BY <1>3, <1>7, <3>1
  <2>2. CASE ~(o.id =< mark[s.db])
    <3>1. mark[s.db] \in Nat /\ o.id \in Nat
      BY <1>3, Rows DEF TypeInv, OpsOf
    <3>2. \E e \in s.ops : e.row = o
      BY <1>3, <1>10, <2>2, <3>1 DEF Complete
    <3> QED BY <1>5, <1>6, <3>2 DEF InChat
  <2> QED BY <2>1, <2>2
<1>11. ASSUME NEW b \in Dbs, NEW i \in DOMAIN chat'[b]
       PROVE  /\ chat'[b][i].db = b /\ SegmentOK(chat[b][i])'
              /\ \A o \in OpsOf(b)' : o.id =< chat'[b][i].last => InChat(b, o)'
  <2>1. PICK t : t = chat'[b][i]
    OBVIOUS
  <2>2. CASE i \in DOMAIN chat[b] /\ t = chat[b][i]
    <3>1. t.db = b /\ SegmentOK(t) /\ \A o \in OpsOf(b) : o.id =< t.last => InChat(b, o)
      BY <2>2 DEF ChatInv
    <3>2. \A o \in OpsOf(b)' : o.id =< t.last => InChat(b, o)'
      BY <1>7, <1>8, <3>1
    <3>3. SegmentOK(t)'
      BY <1>9, <3>1
    <3> QED BY <2>1, <3>1, <3>2, <3>3 DEF SegmentOK
  <2>3. CASE b = s.db /\ t = s
    <3>1. \A o \in OpsOf(b)' : o.id =< t.last => InChat(b, o)'
      BY <1>8, <1>10, <2>3
    <3>2. SegmentOK(t)'
      BY <1>3, <1>9, <2>3
    <3> QED BY <2>1, <2>3, <3>1, <3>2 DEF SegmentOK
  <2> QED BY <1>4, <1>5, <1>6, <2>1, <2>2, <2>3
<1>12. SegmentOK(worker.segment)'
  <2>1. SegmentOK(s)'
    BY <1>3, <1>9
  <2> QED BY <1>2, <2>1 DEF SegmentOK
<1> QED BY <1>11, <1>12 DEF ChatInv

(* Where nothing is written.                                               *)
LEMMA LogStays ==
  ASSUME LogInv, UNCHANGED <<colls, docs, ops>>
  PROVE  LogInv'
<1>1. Existing' = Existing /\ End' = End /\ \A k : RulesOf(k)' = RulesOf(k)
  BY DEF Existing, End, RulesOf
<1>2. \A k, d : Writes(k, d)' = Writes(k, d)
  BY DEF Writes
<1>3. \A A, k, d, n, row : Stood(A, k, d, n, row) => Stood(A, k, d, n, row)'
  BY <1>2 DEF Stood
<1>4. \A k, n, s : Ruled(k, n, s) => Ruled(k, n, s)'
  BY <1>1 DEF Ruled
<1>5. ASSUME NEW A, Told(A) PROVE Told(A)'
  <2>1. ASSUME NEW o \in ops, o.op \in Ops
        PROVE  /\ o.body.doc \in DocIds
               /\ \E row : Stood(A, o.coll, o.body.doc, o.id, row)' /\ Became(row, A[o.id], o)
    BY <1>3, <1>5, <2>1 DEF Told
  <2>2. \A k \in CollIds, d \in DocIds : Stood(A, k, d, End, docs[k][d])'
    <3>1. ASSUME NEW k \in CollIds, NEW d \in DocIds PROVE Stood(A, k, d, End, docs[k][d])'
      <4>1. PICK row : row = docs[k][d]
        OBVIOUS
      <4>2. PICK n : n = End
        OBVIOUS
      <4>3. Stood(A, k, d, n, row)'
        BY <1>3, <1>5, <4>1, <4>2 DEF Told
      <4> QED BY <1>1, <4>1, <4>2, <4>3 DEF Stood
    <3> QED BY <3>1
  <2> QED BY <2>1, <2>2 DEF Told
<1>6. \A k \in Existing : Ruled(k, End, colls[k].settings)'
  <2>1. ASSUME NEW k \in Existing PROVE Ruled(k, End, colls[k].settings)'
    <3>1. PICK s, n : s = colls[k].settings /\ n = End
      OBVIOUS
    <3>2. Ruled(k, n, s)'
      BY <1>4, <3>1 DEF LogInv
    <3> QED BY <1>1, <3>1, <3>2 DEF Ruled
  <2> QED BY <2>1
<1> QED BY <1>1, <1>5, <1>6 DEF LogInv

LEMMA WorkChats ==
  ASSUME TypeInv, Above, Covered, LogInv, ChatInv, Work \/ Interrupt
  PROVE  LogInv' /\ ChatInv'
<1>1. UNCHANGED <<colls, docs, ops>>
  BY DEF Work, Interrupt, ListPending, Build, Upload, Refused, MarkUploaded, EndPass, store
<1>2. LogInv'
  BY <1>1, LogStays
<1>3. CASE ListPending
  <2>1. UNCHANGED chat /\ worker'.pc = "busy"
    BY <1>3, HasListed DEF Still
  <2> QED BY <1>1, <1>2, <2>1, ChatStays DEF Holds
<1>4. CASE Build
  <2>1. UNCHANGED chat
    BY <1>4, HasBuilt DEF Still
  <2>2. ASSUME Holds' PROVE SegmentOK(worker.segment)'
    <3>1. PICK b : Pending(b) # {} /\ worker'.segment = Segment(b)
      BY <1>4, <2>2, HasBuilt DEF Holds
    <3>2. PICK s : s = Segment(b)
      OBVIOUS
    <3>3. SegmentOK(s)
      BY <3>1, <3>2, CutOK
    <3>4. SegmentOK(s)'
      BY <1>1, <3>3 DEF SegmentOK, OpsOf, OpIds, RulesOf
    <3> QED BY <3>1, <3>2, <3>4 DEF SegmentOK
  <2> QED BY <1>1, <1>2, <2>1, <2>2, ChatStays
<1>5. CASE Upload
  BY <1>2, <1>5, ChatPosts
<1>6. CASE MarkUploaded
  <2>1. UNCHANGED chat /\ worker'.pc = "busy"
    BY <1>6, HasMarked
  <2> QED BY <1>1, <1>2, <2>1, ChatStays DEF Holds
<1>7. CASE Refused \/ EndPass \/ Interrupt
  <2>1. UNCHANGED chat /\ worker' = Sleeping
    BY <1>7 DEF Refused, EndPass, Interrupt, store
  <2> QED BY <1>1, <1>2, <2>1, Sleeps, ChatStays DEF Holds
<1> QED BY <1>3, <1>4, <1>5, <1>6, <1>7 DEF Work

-----------------------------------------------------------------------------
(* Places in an order *)

Linear(R, M) ==
  /\ \A x \in M : <<x, x>> \notin R
  /\ \A x, y \in M : x = y \/ <<x, y>> \in R \/ <<y, x>> \in R
  /\ \A x, y, z \in M : <<x, y>> \in R /\ <<y, z>> \in R => <<x, z>> \in R

Under(R, M, d) == {e \in M : <<e, d>> \in R}

(* In a finite linear order what has i - 1 before it is there, and is one. *)
LEMMA Ranks ==
  ASSUME NEW M, IsFiniteSet(M), NEW R, Linear(R, M)
  PROVE  /\ \A d \in M : Cardinality(Under(R, M, d)) \in Nat /\ Cardinality(Under(R, M, d)) < Cardinality(M)
         /\ \A d, e \in M : <<d, e>> \in R <=> Cardinality(Under(R, M, d)) < Cardinality(Under(R, M, e))
         /\ \A d, e \in M : Cardinality(Under(R, M, d)) = Cardinality(Under(R, M, e)) => d = e
         /\ \A i \in 1..Cardinality(M) : \E d \in M : Cardinality(Under(R, M, d)) = i - 1
<1> DEFINE rank == [d \in M |-> Cardinality(Under(R, M, d))]
           n == Cardinality(M)
<1>0. n \in Nat
  BY FS_CardinalityType
<1>1. ASSUME NEW d \in M PROVE IsFiniteSet(Under(R, M, d)) /\ rank[d] \in Nat /\ rank[d] < n
  <2>1. Under(R, M, d) \in SUBSET M /\ d \in M /\ d \notin Under(R, M, d)
    BY DEF Linear, Under
  <2>2. IsFiniteSet(Under(R, M, d)) /\ Cardinality(Under(R, M, d)) \in Nat
        /\ Cardinality(Under(R, M, d)) =< n /\ Cardinality(Under(R, M, d)) # n
    BY <2>1, FS_Subset, FS_CardinalityType
  <2> QED BY <1>0, <2>2
<1>2. ASSUME NEW d \in M, NEW e \in M, <<d, e>> \in R PROVE rank[d] < rank[e]
  <2>1. Under(R, M, d) \in SUBSET Under(R, M, e) /\ d \in Under(R, M, e) /\ d \notin Under(R, M, d)
    BY <1>2 DEF Linear, Under
  <2>2. Cardinality(Under(R, M, d)) =< Cardinality(Under(R, M, e))
        /\ Cardinality(Under(R, M, d)) # Cardinality(Under(R, M, e))
    BY <1>1, <2>1, FS_Subset
  <2>3. Cardinality(Under(R, M, d)) \in Nat /\ Cardinality(Under(R, M, e)) \in Nat
    BY <1>1
  <2> QED BY <2>2, <2>3
<1>3. ASSUME NEW d \in M, NEW e \in M, rank[d] = rank[e] PROVE d = e
  <2>1. rank[d] \in Nat /\ ~(rank[d] < rank[e]) /\ ~(rank[e] < rank[d])
    BY <1>1, <1>3
  <2>2. <<d, e>> \notin R /\ <<e, d>> \notin R
    BY <1>2, <2>1
  <2> QED BY <2>2 DEF Linear
<1>4. ASSUME NEW d \in M, NEW e \in M, rank[d] < rank[e] PROVE <<d, e>> \in R
  <2>1. rank[d] \in Nat /\ rank[e] \in Nat
    BY <1>1
  <2>2. d # e /\ ~(rank[e] < rank[d])
    BY <1>4, <2>1
  <2>3. <<e, d>> \notin R
    BY <1>2, <2>2
  <2> QED BY <2>2, <2>3 DEF Linear
<1>5. ASSUME NEW i \in 1..n PROVE \E d \in M : rank[d] = i - 1
  <2> DEFINE T == 0..(n - 1)
  <2>1. rank \in Injection(M, T)
    <3>1. rank \in [M -> T]
      <4>1. \A d \in M : rank[d] \in T
        BY <1>0, <1>1
      <4> QED BY <4>1
    <3> HIDE DEF rank, T
    <3> QED BY <1>3, <3>1 DEF Injection, IsInjective
  <2>2. IsFiniteSet(T) /\ Cardinality(T) = n
    <3>1. PICK m : m = n - 1
      OBVIOUS
    <3>2. m \in Int /\ n = m + 1 /\ m >= -1 /\ T = 0..m
      BY <1>0, <3>1
    <3>3. IsFiniteSet(0..m) /\ Cardinality(0..m) = IF 0 > m THEN 0 ELSE m - 0 + 1
      BY <3>2, FS_Interval
    <3> HIDE DEF T, n
    <3>4. Cardinality(0..m) = n
      BY <3>2, <3>3
    <3> QED BY <3>2, <3>3, <3>4
  <2> HIDE DEF rank, T
  <2>3. rank \in Surjection(M, T)
    BY <2>1, <2>2, FS_Injection
  <2>4. i - 1 \in T
    BY <1>0 DEF T
  <2> QED BY <2>3, <2>4 DEF Surjection
<1> QED BY <1>1, <1>2, <1>3, <1>4, <1>5

-----------------------------------------------------------------------------
(* The operations a restore replays, in their order *)

LEMMA Kept ==
  ASSUME NEW m, IsChat(m)
  PROVE  /\ IsFiniteSet(Deduped(m))
         /\ \A s \in Deduped(m) : \E i \in DOMAIN m : s = m[i]
         /\ \A s, t \in Deduped(m) : Key(s) = Key(t) => s = t
         /\ \A i \in DOMAIN m : \E s \in Deduped(m) : Key(s) = Key(m[i])
<1>2. PICK n : n \in Nat /\ DOMAIN m = 1..n
  <2>1. PICK S : m \in Seq(S)
    BY DEF IsChat
  <2> QED BY <2>1
<1>3. PICK S : S = Deduped(m)
  OBVIOUS
<1>4. /\ \A s \in S : \E i \in 1..n : s = m[i] /\ \A j \in 1..n : j > i => Key(m[j]) # Key(m[i])
      /\ \A i \in 1..n : (\A j \in 1..n : j > i => Key(m[j]) # Key(m[i])) => m[i] \in S
  BY <1>2, <1>3 DEF Deduped
<1>5. IsFiniteSet(S)
  <2>1. IsFiniteSet(1..n)
    BY <1>2, FS_Interval
  <2>2. \A s \in S : \E i \in 1..n : s = m[i]
    BY <1>4
  <2> QED BY <2>1, <2>2, Image
<1>6. ASSUME NEW s \in S, NEW t \in S, Key(s) = Key(t) PROVE s = t
  <2>1. PICK i \in 1..n : s = m[i] /\ \A j \in 1..n : j > i => Key(m[j]) # Key(m[i])
    BY <1>4
  <2>2. PICK j \in 1..n : t = m[j] /\ \A i_1 \in 1..n : i_1 > j => Key(m[i_1]) # Key(m[j])
    BY <1>4
  <2>3. ~(j > i) /\ ~(i > j)
    BY <1>6, <2>1, <2>2
  <2>4. i = j
    BY <1>2, <2>3
  <2> QED BY <2>1, <2>2, <2>4
<1>7. ASSUME NEW i \in 1..n PROVE \E s \in S : Key(s) = Key(m[i])
  <2>1. PICK T : T = {j \in 1..n : Key(m[j]) = Key(m[i])}
    OBVIOUS
  <2>2. T \in SUBSET Nat /\ T # {} /\ \A j \in T : j =< n
    BY <1>2, <2>1
  <2>3. PICK h : h \in T /\ \A j \in T : j =< h
    BY <1>2, <2>2, Highest
  <2>4. h \in 1..n /\ Key(m[h]) = Key(m[i])
    BY <2>1, <2>3
  <2>5. ASSUME NEW j \in 1..n, j > h PROVE Key(m[j]) # Key(m[h])
    <3>1. ~(j =< h)
      BY <1>2, <2>4, <2>5
    <3>2. j \notin T
      BY <2>3, <3>1
    <3> QED BY <2>1, <2>4, <3>2
  <2> QED BY <1>4, <2>4, <2>5
<1>8. \A s \in S : \E i \in DOMAIN m : s = m[i]
  BY <1>2, <1>4
<1>9. \A s, t \in S : Key(s) = Key(t) => s = t
  BY <1>6
<1>10. \A i \in DOMAIN m : \E s \in S : Key(s) = Key(m[i])
  BY <1>2, <1>7
<1> QED BY <1>3, <1>5, <1>8, <1>9, <1>10

(* An entry of a segment of the database.                                  *)
Logged(b, e) ==
  /\ e.row \in OpsOf(b) /\ e.meta.name = colls[e.row.coll].name
  /\ e.meta.settings = Default \/ RulesOf(e.row.coll) # {}

LEMMA ItemsAre ==
  ASSUME TypeInv, LogInv, ChatInv, NEW b \in Dbs
  PROVE  /\ IsFiniteSet(Items(chat[b]))
         /\ \A x \in Items(chat[b]) :
              /\ x = <<x[1], x[2]>> /\ x[1] \in Deduped(chat[b]) /\ x[2] \in x[1].ops /\ SegmentOK(x[1])
              /\ Logged(b, x[2]) /\ x[1].first \in Nat /\ x[1].last \in Nat /\ x[2].row.id \in Nat
              /\ \A o \in OpsOf(b) : o.id =< x[2].row.id => InChat(b, o)
         /\ \A o : InChat(b, o) => \E x \in Items(chat[b]) : x[2].row = o
<1>1. PICK S : S = Deduped(chat[b])
  OBVIOUS
<1>2. IsChat(chat[b])
  BY DEF TypeInv
<1>3. /\ IsFiniteSet(S) /\ \A s \in S : \E i \in DOMAIN chat[b] : s = chat[b][i]
      /\ \A i \in DOMAIN chat[b] : \E s \in S : Key(s) = Key(chat[b][i])
  BY <1>1, <1>2, Kept
<1>4. \A i \in DOMAIN chat[b] : /\ chat[b][i].db = b /\ SegmentOK(chat[b][i])
                                /\ \A o \in OpsOf(b) : o.id =< chat[b][i].last => InChat(b, o)
  BY DEF ChatInv
<1>5. \A s \in S : s.db = b /\ SegmentOK(s) /\ \A o \in OpsOf(b) : o.id =< s.last => InChat(b, o)
  BY <1>3, <1>4
<1>6. \A o \in OpsOf(b) : o.id \in Nat
  BY Rows DEF OpsOf
<1>7. \A s \in S : s.first \in Nat /\ s.last \in Nat
  <2>1. \A n \in OpIds : n \in Nat
    BY Rows DEF OpIds
  <2> QED BY <1>5, <2>1 DEF SegmentOK
<1>8. PICK I : I = UNION {{s} \X s.ops : s \in S}
  OBVIOUS
<1>9. I = Items(chat[b])
  BY <1>1, <1>8 DEF Items
<1>10. \A x \in I : \E s \in S : \E e \in s.ops : x = <<s, e>>
  BY <1>8
<1>11. \A s \in S : \A e \in s.ops : <<s, e>> \in I
  BY <1>8
<1>12. IsFiniteSet(I)
  <2>1. PICK T : T = {{s} \X s.ops : s \in S}
    OBVIOUS
  <2>2. IsFiniteSet(T)
    <3>1. PICK F : F = [s \in S |-> {s} \X s.ops]
      OBVIOUS
    <3>2. \A y \in T : \E s \in S : y = F[s]
      BY <2>1, <3>1
    <3> QED BY <1>3, <3>2, Image
  <2>3. ASSUME NEW s \in S PROVE IsFiniteSet({s} \X s.ops)
    <3>1. IsFiniteSet({s}) /\ IsFiniteSet(s.ops)
      BY <1>5, FS_Singleton DEF SegmentOK
    <3> QED BY <3>1, FS_Product
  <2>4. \A t \in T : IsFiniteSet(t)
    BY <2>1, <2>3
  <2>5. IsFiniteSet(UNION T)
    BY <2>2, <2>4, FS_UNION
  <2> QED BY <1>8, <2>1, <2>5
<1>13. ASSUME NEW x \in I
       PROVE  /\ x = <<x[1], x[2]>> /\ x[1] \in S /\ x[2] \in x[1].ops /\ SegmentOK(x[1])
              /\ Logged(b, x[2]) /\ x[1].first \in Nat /\ x[1].last \in Nat /\ x[2].row.id \in Nat
              /\ \A o \in OpsOf(b) : o.id =< x[2].row.id => InChat(b, o)
  <2>1. PICK s \in S : \E e \in s.ops : x = <<s, e>>
    BY <1>10
  <2>2. PICK e \in s.ops : x = <<s, e>>
    BY <2>1
  <2>3. x[1] = s /\ x[2] = e /\ SegmentOK(s) /\ s.db = b
    BY <1>5, <2>2
  <2>4. Logged(b, e) /\ e.row.id =< s.last
    BY <2>3 DEF SegmentOK, Logged
  <2>5. e.row.id \in Nat /\ s.first \in Nat /\ s.last \in Nat
    BY <1>6, <1>7, <2>4 DEF Logged
  <2>6. ASSUME NEW o \in OpsOf(b), o.id =< e.row.id PROVE InChat(b, o)
    <3>1. o.id =< s.last
      BY <1>6, <2>4, <2>5, <2>6
    <3> QED BY <1>5, <3>1
  <2> QED BY <2>2, <2>3, <2>4, <2>5, <2>6
<1>14. ASSUME NEW o, InChat(b, o) PROVE \E x \in I : x[2].row = o
  <2>1. PICK i \in DOMAIN chat[b] : \E e \in chat[b][i].ops : e.row = o
    BY <1>14 DEF InChat
  <2>2. PICK t : t = chat[b][i]
    OBVIOUS
  <2>3. PICK s \in S : Key(s) = Key(t)
    BY <1>3, <2>2
  <2>4. s.first = t.first /\ s.last = t.last /\ t.db = b /\ SegmentOK(t) /\ SegmentOK(s) /\ s.db = b
    BY <1>4, <1>5, <2>2, <2>3 DEF Key
  <2>5. o \in OpsOf(b) /\ s.first =< o.id /\ o.id =< s.last
    BY <2>1, <2>2, <2>4 DEF SegmentOK
  <2>6. PICK e \in s.ops : e.row = o
    BY <2>4, <2>5 DEF SegmentOK
  <2>7. <<s, e>> \in I /\ <<s, e>>[2].row = o
    BY <1>11, <2>6
  <2> QED BY <2>7
<1> QED BY <1>1, <1>9, <1>12, <1>13, <1>14

Follows(messages) == {p \in Items(messages) \X Items(messages) : Sooner(p[1], p[2])}

LEMMA ItemsOrdered ==
  ASSUME TypeInv, LogInv, ChatInv, NEW b \in Dbs
  PROVE  Linear(Follows(chat[b]), Items(chat[b]))
<1>1. PICK I, R : I = Items(chat[b]) /\ R = Follows(chat[b])
  OBVIOUS
<1>2. \A x, y \in I : <<x, y>> \in R <=> Sooner(x, y)
  BY <1>1 DEF Follows
<1>3. \A x \in I : x[1].first \in Nat /\ x[1].last \in Nat /\ x[2].row.id \in Nat
  BY <1>1, ItemsAre
<1>4. \A x \in I : ~Sooner(x, x)
  BY <1>3 DEF Sooner
<1>5. \A x, y, z \in I : Sooner(x, y) /\ Sooner(y, z) => Sooner(x, z)
  BY <1>3 DEF Sooner
<1>6. ASSUME NEW x \in I, NEW y \in I, ~Sooner(x, y), ~Sooner(y, x) PROVE x = y
  <2>1. x[2].row.id = y[2].row.id /\ x[1].first = y[1].first /\ x[1].last = y[1].last
    BY <1>3, <1>6 DEF Sooner
  <2>2. /\ x = <<x[1], x[2]>> /\ x[1] \in Deduped(chat[b]) /\ x[2] \in x[1].ops /\ SegmentOK(x[1])
        /\ y = <<y[1], y[2]>> /\ y[1] \in Deduped(chat[b]) /\ y[2] \in y[1].ops
        /\ x[2].row \in OpsOf(b) /\ y[2].row \in OpsOf(b)
    BY <1>1, ItemsAre DEF Logged
  <2>3. Key(x[1]) = Key(y[1])
    BY <2>1 DEF Key
  <2>4. IsChat(chat[b])
    BY DEF TypeInv
  <2>5. x[1] = y[1]
    BY <2>2, <2>3, <2>4, Kept
  <2>6. x[2].row = y[2].row
    BY <2>1, <2>2 DEF LogInv, OpsOf
  <2>7. x[2] = y[2]
    BY <2>2, <2>5, <2>6 DEF SegmentOK
  <2> QED BY <2>2, <2>5, <2>7
<1> QED BY <1>1, <1>2, <1>4, <1>5, <1>6 DEF Linear

(* What a restore replays are operations of the database, those with a     *)
(* smaller id first, and none up to the last of them is missing.           *)
Orderly(b, q, n) ==
  /\ n \in Nat
  /\ \A i \in 1..n : Logged(b, q[i][2])
  /\ \A i, j \in 1..n : i =< j => q[i][2].row.id =< q[j][2].row.id
  /\ \A i \in 1..n : \A o \in OpsOf(b) : o.id =< q[i][2].row.id => \E j \in 1..i : q[j][2].row = o

LEMMA SortedIsOrderly ==
  ASSUME TypeInv, LogInv, ChatInv, NEW b \in Dbs, NEW q, NEW n,
         q = Sorted(Items(chat[b])), n = Cardinality(Items(chat[b]))
  PROVE  /\ Orderly(b, q, n)
         /\ \A o : InChat(b, o) => \E i \in 1..n : q[i][2].row = o
<1>1. PICK I, R : I = Items(chat[b]) /\ R = Follows(chat[b])
  OBVIOUS
<1>2. IsFiniteSet(I) /\ Linear(R, I) /\ n = Cardinality(I) /\ n \in Nat
  BY <1>1, ItemsAre, ItemsOrdered, FS_CardinalityType
<1>3. \A x \in I : Before(I, x) = Under(R, I, x)
  BY <1>1 DEF Before, Under, Follows
<1>4. PICK F : F = [x \in I |-> Cardinality(Under(R, I, x))]
  OBVIOUS
<1>5. /\ \A x \in I : F[x] \in Nat /\ F[x] < n
      /\ \A x, y \in I : <<x, y>> \in R <=> F[x] < F[y]
      /\ \A x, y \in I : F[x] = F[y] => x = y
      /\ \A i \in 1..n : \E x \in I : F[x] = i - 1
  <2>1. \A x \in I : F[x] = Cardinality(Under(R, I, x))
    BY <1>4
  <2> QED BY <1>2, <2>1, Ranks
<1>6. q = [i \in 1..n |-> CHOOSE x \in I : Cardinality(Before(I, x)) = i - 1]
  BY <1>1 DEF Sorted
<1>7. ASSUME NEW i \in 1..n PROVE q[i] \in I /\ F[q[i]] = i - 1
  <2>1. q[i] = CHOOSE x \in I : Cardinality(Before(I, x)) = i - 1
    BY <1>6
  <2>2. \A x \in I : Cardinality(Before(I, x)) = F[x]
    BY <1>3, <1>4
  <2>3. \E x \in I : Cardinality(Before(I, x)) = i - 1
    BY <1>5, <2>2
  <2>4. q[i] \in I /\ Cardinality(Before(I, q[i])) = i - 1
    BY <2>1, <2>3
  <2> QED BY <2>2, <2>4
<1>8. ASSUME NEW x \in I PROVE \E i \in 1..n : q[i] = x
  <2>1. F[x] + 1 \in 1..n
    BY <1>2, <1>5
  <2>2. q[F[x] + 1] \in I /\ F[q[F[x] + 1]] = (F[x] + 1) - 1
    BY <1>7, <2>1
  <2>3. q[F[x] + 1] = x
    BY <1>5, <2>2
  <2> QED BY <2>1, <2>3
<1>9. /\ \A x \in I : Logged(b, x[2]) /\ x[2].row.id \in Nat /\ \A o \in OpsOf(b) : o.id =< x[2].row.id => InChat(b, o)
      /\ \A o : InChat(b, o) => \E x \in I : x[2].row = o
  BY <1>1, ItemsAre
<1>10. ASSUME NEW i \in 1..n, NEW j \in 1..n, i =< j PROVE q[i][2].row.id =< q[j][2].row.id
  <2>1. q[i] \in I /\ q[j] \in I /\ F[q[i]] = i - 1 /\ F[q[j]] = j - 1
    BY <1>7
  <2>2. CASE i = j
    BY <1>9, <2>1, <2>2
  <2>3. CASE i < j
    <3>1. F[q[i]] < F[q[j]]
      BY <1>2, <2>1, <2>3
    <3>2. Sooner(q[i], q[j])
      BY <1>1, <1>5, <2>1, <3>1 DEF Follows
    <3>3. q[i][2].row.id \in Nat /\ q[j][2].row.id \in Nat
      BY <1>9, <2>1
    <3> QED BY <3>2, <3>3 DEF Sooner
  <2> QED BY <1>2, <1>10, <2>2, <2>3
<1>11. ASSUME NEW o, InChat(b, o) PROVE \E i \in 1..n : q[i][2].row = o
  BY <1>8, <1>9, <1>11
<1>12. ASSUME NEW i \in 1..n, NEW o \in OpsOf(b), o.id =< q[i][2].row.id PROVE \E j \in 1..i : q[j][2].row = o
  <2>1. q[i] \in I /\ Logged(b, q[i][2]) /\ q[i][2].row.id \in Nat /\ i \in 1..i
    BY <1>2, <1>7, <1>9
  <2>2. PICK j \in 1..n : q[j][2].row = o
    BY <1>9, <1>11, <1>12, <2>1
  <2>3. CASE j =< i
    BY <1>2, <2>2, <2>3
  <2>4. CASE i =< j
    <3>1. q[i][2].row.id =< o.id
      BY <1>10, <2>2, <2>4
    <3>2. q[i][2].row.id = o.id
      <4>1. o.id \in Nat
        BY Rows DEF OpsOf
      <4> QED BY <1>12, <2>1, <3>1, <4>1
    <3>3. q[i][2].row = o
      BY <2>1, <3>2 DEF LogInv, OpsOf, Logged
    <3> QED BY <2>1, <3>3
  <2> QED BY <1>2, <2>3, <2>4
<1> QED BY <1>2, <1>7, <1>9, <1>10, <1>11, <1>12 DEF Orderly

-----------------------------------------------------------------------------
(* What the replay of one operation does to the target of a restore        *)

Shape(st) ==
  \E ok, target, settings, known : \E rows :
    st = [ok |-> ok, target |-> target, settings |-> settings, docs |-> rows, known |-> known]

Filled(target, settings, e) ==
  IF target[e.row.coll] # Absent THEN settings ELSE [settings EXCEPT ![e.meta.name] = e.meta.settings]
Tuned(settings, row, name) ==
  IF row.op = "rules" THEN [settings EXCEPT ![name] = row.body.settings] ELSE settings
Redrawn(rows, row, name) ==
  IF row.op \in Ops
    THEN [rows EXCEPT ![name][row.body.doc] = ReplayRow(rows[name][row.body.doc], Entry(row))]
    ELSE rows
Noted(known, row) ==
  IF known[row.id] = Absent THEN [known EXCEPT ![row.id] = What(row)] ELSE known

LEMMA Ensures ==
  ASSUME NEW st, Shape(st), NEW e, st.target \in [CollIds -> Names \cup {Absent}],
         e.row.coll \in CollIds, st.target[e.row.coll] \in {Absent, e.meta.name}
  PROVE  /\ Shape(Ensure(st, e))
         /\ Ensure(st, e).ok = st.ok /\ Ensure(st, e).docs = st.docs /\ Ensure(st, e).known = st.known
         /\ Ensure(st, e).target = [st.target EXCEPT ![e.row.coll] = e.meta.name]
         /\ Ensure(st, e).settings = Filled(st.target, st.settings, e)
<1>1. PICK k, name, s : k = e.row.coll /\ name = e.meta.name /\ s = e.meta.settings
  OBVIOUS
<1>2. PICK ok, target, settings, known : \E rows :
        st = [ok |-> ok, target |-> target, settings |-> settings, docs |-> rows, known |-> known]
  BY DEF Shape
<1>3. PICK rows : st = [ok |-> ok, target |-> target, settings |-> settings, docs |-> rows, known |-> known]
  BY <1>2
<1>4. st.ok = ok /\ st.target = target /\ st.settings = settings /\ st.docs = rows /\ st.known = known
  BY <1>3
<1>5. CASE target[k] # Absent
  <2>1. Ensure(st, e) = st
    BY <1>1, <1>4, <1>5 DEF Ensure
  <2>2. target[k] = name
    BY <1>1, <1>4, <1>5
  <2>3. [target EXCEPT ![k] = name] = target
    BY <1>4, <2>2
  <2>4. Filled(target, settings, e) = settings
    BY <1>1, <1>5 DEF Filled
  <2> QED BY <1>1, <1>4, <2>1, <2>3, <2>4
<1>6. CASE target[k] = Absent
  <2>1. PICK t : t = [target EXCEPT ![k] = name]
    OBVIOUS
  <2>2. PICK u : u = [settings EXCEPT ![name] = s]
    OBVIOUS
  <2>3. Ensure(st, e) = [st EXCEPT !.target[k] = name, !.settings[name] = s]
    BY <1>1, <1>4, <1>6 DEF Ensure
  <2>4. Ensure(st, e) = [ok |-> ok, target |-> t, settings |-> u, docs |-> rows, known |-> known]
    BY <1>3, <2>1, <2>2, <2>3
  <2>5. Filled(target, settings, e) = u
    BY <1>1, <1>6, <2>2 DEF Filled
  <2>6. PICK r : r = Ensure(st, e)
    OBVIOUS
  <2>7. r = [ok |-> ok, target |-> t, settings |-> u, docs |-> rows, known |-> known]
    BY <2>4, <2>6
  <2>8. Shape(r)
    BY <2>7 DEF Shape
  <2>9. r.ok = ok /\ r.target = t /\ r.settings = u /\ r.docs = rows /\ r.known = known
    BY <2>7
  <2> QED BY <1>1, <1>4, <2>1, <2>5, <2>6, <2>8, <2>9
<1> QED BY <1>5, <1>6

LEMMA Replays ==
  ASSUME NEW st, Shape(st), NEW row, NEW name, row.op \in Ops => CanReplay(st.docs[name], Entry(row))
  PROVE  /\ Shape(Replayed(st, row, name))
         /\ Replayed(st, row, name).ok = st.ok /\ Replayed(st, row, name).target = st.target
         /\ Replayed(st, row, name).known = st.known
         /\ Replayed(st, row, name).settings = Tuned(st.settings, row, name)
         /\ Replayed(st, row, name).docs = Redrawn(st.docs, row, name)
<1>2. PICK ok, target, settings, known : \E rows :
        st = [ok |-> ok, target |-> target, settings |-> settings, docs |-> rows, known |-> known]
  BY DEF Shape
<1>3. PICK rows : st = [ok |-> ok, target |-> target, settings |-> settings, docs |-> rows, known |-> known]
  BY <1>2
<1>4. st.ok = ok /\ st.target = target /\ st.settings = settings /\ st.docs = rows /\ st.known = known
  BY <1>3
<1>5. PICK r : r = Replayed(st, row, name)
  OBVIOUS
<1>6. CASE row.op = "rules"
  <2>1. PICK s, u : s = row.body.settings /\ u = [settings EXCEPT ![name] = s]
    OBVIOUS
  <2>2. r = [st EXCEPT !.settings[name] = s]
    BY <1>5, <1>6, <2>1 DEF Replayed
  <2>3. r = [ok |-> ok, target |-> target, settings |-> u, docs |-> rows, known |-> known]
    BY <1>3, <2>1, <2>2
  <2>4. r.ok = ok /\ r.target = target /\ r.settings = u /\ r.docs = rows /\ r.known = known
    BY <2>3
  <2>5. Shape(r)
    BY <2>3 DEF Shape
  <2>6. Tuned(settings, row, name) = u /\ Redrawn(rows, row, name) = rows
    BY <1>6, <2>1 DEF Tuned, Redrawn, Ops
  <2> QED BY <1>4, <1>5, <2>4, <2>5, <2>6
<1>7. CASE row.op # "rules" /\ row.op \notin Ops
  <2>1. r = st
    BY <1>5, <1>7 DEF Replayed
  <2>2. Tuned(settings, row, name) = settings /\ Redrawn(rows, row, name) = rows
    BY <1>7 DEF Tuned, Redrawn
  <2> QED BY <1>4, <1>5, <2>1, <2>2
<1>8. CASE row.op \in Ops
  <2>0. row.op # "rules" /\ CanReplay(rows[name], Entry(row))
    BY <1>4, <1>8 DEF Ops
  <2>1. PICK x, y : x = row.body.doc /\ y = ReplayRow(rows[name][x], Entry(row))
    OBVIOUS
  <2>2. PICK u : u = [rows EXCEPT ![name][x] = y]
    OBVIOUS
  <2>3. r = [st EXCEPT !.docs[name][x] = y]
    BY <1>4, <1>5, <1>8, <2>0, <2>1 DEF Replayed
  <2>4. r = [ok |-> ok, target |-> target, settings |-> settings, docs |-> u, known |-> known]
    BY <1>3, <2>2, <2>3
  <2>5. r.ok = ok /\ r.target = target /\ r.settings = settings /\ r.docs = u /\ r.known = known
    BY <2>4
  <2>6. Shape(r)
    BY <2>4 DEF Shape
  <2>7. Tuned(settings, row, name) = settings /\ Redrawn(rows, row, name) = u
    BY <1>8, <2>0, <2>1, <2>2 DEF Tuned, Redrawn
  <2> QED BY <1>4, <1>5, <2>5, <2>6, <2>7
<1> QED BY <1>6, <1>7, <1>8

LEMMA Records ==
  ASSUME NEW st, Shape(st), NEW row, st.known[row.id] \in {Absent, What(row)}
  PROVE  /\ Shape(Recorded(st, row))
         /\ Recorded(st, row).ok = st.ok /\ Recorded(st, row).target = st.target
         /\ Recorded(st, row).settings = st.settings /\ Recorded(st, row).docs = st.docs
         /\ Recorded(st, row).known = Noted(st.known, row)
<1>2. PICK ok, target, settings, known : \E rows :
        st = [ok |-> ok, target |-> target, settings |-> settings, docs |-> rows, known |-> known]
  BY DEF Shape
<1>3. PICK rows : st = [ok |-> ok, target |-> target, settings |-> settings, docs |-> rows, known |-> known]
  BY <1>2
<1>4. st.ok = ok /\ st.target = target /\ st.settings = settings /\ st.docs = rows /\ st.known = known
  BY <1>3
<1>5. PICK r : r = Recorded(st, row)
  OBVIOUS
<1>6. CASE known[row.id] = Absent
  <2>1. PICK i, w, u : i = row.id /\ w = What(row) /\ u = [known EXCEPT ![i] = w]
    OBVIOUS
  <2>2. r = [st EXCEPT !.known[i] = w]
    BY <1>4, <1>5, <1>6, <2>1 DEF Recorded
  <2>3. r = [ok |-> ok, target |-> target, settings |-> settings, docs |-> rows, known |-> u]
    BY <1>3, <2>1, <2>2
  <2>4. r.ok = ok /\ r.target = target /\ r.settings = settings /\ r.docs = rows /\ r.known = u
    BY <2>3
  <2>5. Shape(r)
    BY <2>3 DEF Shape
  <2>6. Noted(known, row) = u
    BY <1>6, <2>1 DEF Noted
  <2> QED BY <1>4, <1>5, <2>4, <2>5, <2>6
<1>7. CASE known[row.id] # Absent
  <2>1. r = st
    BY <1>4, <1>5, <1>7 DEF Recorded
  <2>2. Noted(known, row) = known
    BY <1>7 DEF Noted
  <2> QED BY <1>4, <1>5, <2>1, <2>2
<1> QED BY <1>6, <1>7

LEMMA Replaces ==
  ASSUME NEW st, Shape(st), st.ok = TRUE, NEW e, st.target \in [CollIds -> Names \cup {Absent}],
         e.row.coll \in CollIds, st.target[e.row.coll] \in {Absent, e.meta.name},
         e.row.op \in Ops => CanReplay(st.docs[e.meta.name], Entry(e.row)),
         st.known[e.row.id] \in {Absent, What(e.row)}
  PROVE  /\ Shape(ReplayOne(st, e)) /\ ReplayOne(st, e).ok = TRUE
         /\ ReplayOne(st, e).target = [st.target EXCEPT ![e.row.coll] = e.meta.name]
         /\ ReplayOne(st, e).settings = Tuned(Filled(st.target, st.settings, e), e.row, e.meta.name)
         /\ ReplayOne(st, e).docs = Redrawn(st.docs, e.row, e.meta.name)
         /\ ReplayOne(st, e).known = Noted(st.known, e.row)
<1>1. PICK x : x = Ensure(st, e)
  OBVIOUS
<1>2. /\ Shape(x) /\ x.ok = st.ok /\ x.docs = st.docs /\ x.known = st.known
      /\ x.target = [st.target EXCEPT ![e.row.coll] = e.meta.name]
      /\ x.settings = Filled(st.target, st.settings, e)
  BY <1>1, Ensures
<1>3. x.target[e.row.coll] = e.meta.name
  BY <1>2
<1>4. PICK y : y = Replayed(x, e.row, e.meta.name)
  OBVIOUS
<1>5. e.row.op \in Ops => CanReplay(x.docs[e.meta.name], Entry(e.row))
  BY <1>2
<1>6. /\ Shape(y) /\ y.ok = x.ok /\ y.target = x.target /\ y.known = x.known
      /\ y.settings = Tuned(x.settings, e.row, e.meta.name) /\ y.docs = Redrawn(x.docs, e.row, e.meta.name)
  BY <1>2, <1>4, <1>5, Replays
<1>7. PICK z : z = Recorded(y, e.row)
  OBVIOUS
<1>8. y.known[e.row.id] \in {Absent, What(e.row)}
  BY <1>2, <1>6
<1>9. /\ Shape(z) /\ z.ok = y.ok /\ z.target = y.target /\ z.settings = y.settings /\ z.docs = y.docs
      /\ z.known = Noted(y.known, e.row)
  BY <1>6, <1>7, <1>8, Records
<1>10. ReplayOne(st, e) = z
  <2>1. st.ok
    OBVIOUS
  <2> QED BY <1>1, <1>3, <1>4, <1>7, <2>1 DEF ReplayOne
<1> QED BY <1>2, <1>6, <1>9, <1>10

-----------------------------------------------------------------------------
(* What a restore has made of a database after its operations up to n      *)

CollsOf(b) == {k \in Existing : colls[k].db = b}

(* A collection is there from its first operation on, under its name.      *)
TargetsOK(b, n, target) ==
  /\ target \in [CollIds -> Names \cup {Absent}]
  /\ \A k \in CollsOf(b) :
       \/ target[k] = Absent /\ \A p \in ops : p.coll = k => ~(p.id =< n)
       \/ target[k] = colls[k].name /\ \E p \in ops : p.coll = k /\ p.id =< n

(* Its settings are those there are now unless they change later in the    *)
(* log; names of no collection are left alone.                             *)
SettingsOK(b, n, target, settings) ==
  /\ DOMAIN settings = Names
  /\ \A name \in Names : settings[name] = Absent \/ \E k \in CollsOf(b) : colls[k].name = name
  /\ \A k \in CollsOf(b) : target[k] # Absent =>
       (\E p \in RulesOf(k) : ~(p.id =< n)) \/ Ruled(k, End, settings[colls[k].name])

(* Its documents are copies of what they were just after n.                *)
DocsOK(A, b, n, rows) ==
  /\ rows \in [Names -> [DocIds -> Row \cup {Absent}]]
  /\ \A k \in CollsOf(b), d \in DocIds :
       \E row : Stood(A, k, d, n + 1, row) /\ Copied(row, rows[colls[k].name][d])

KnownOK(b, known) ==
  DOMAIN known = 1..MaxOps /\ \A o \in OpsOf(b) : known[o.id] \in {Absent, What(o)}

Rebuilt(A, b, n, st) ==
  /\ Shape(st) /\ st.ok = TRUE
  /\ TargetsOK(b, n, st.target) /\ SettingsOK(b, n, st.target, st.settings)
  /\ DocsOK(A, b, n, st.docs) /\ KnownOK(b, st.known)

(* o is the next operation of the database after those up to n, or the last*)
(* of those once more.                                                     *)
NextOne(b, n, o) ==
  /\ n \in Nat /\ o \in OpsOf(b) /\ n =< o.id
  /\ \A p \in OpsOf(b) : p.id =< o.id => p = o \/ p.id =< n

LEMMA Owned ==
  ASSUME TypeInv, LogInv, NEW b, NEW o \in OpsOf(b)
  PROVE  /\ o \in ops /\ o.id \in Nat /\ o.id \in 1..MaxOps /\ o.coll \in CollIds /\ o.coll \in CollsOf(b)
         /\ colls[o.coll].name \in Names /\ colls[o.coll].name # Absent
         /\ \A k \in CollsOf(b) : colls[k].name = colls[o.coll].name => k = o.coll
<1>1. o \in ops /\ colls[o.coll].db = b
  BY DEF OpsOf
<1>2. o.id \in Nat \ {0} /\ o.id =< MaxOps /\ o.coll \in CollIds /\ colls[o.coll] \in CollRow
  BY <1>1, Rows
<1>3. o.coll \in Existing /\ o.id \in 1..MaxOps
  BY <1>1 DEF TypeInv
<1>4. colls[o.coll].name \in Names /\ colls[o.coll].name # Absent
  BY <1>2, OpLogBackupAssumption DEF CollRow
<1>5. o.coll \in CollsOf(b)
  BY <1>1, <1>3 DEF CollsOf
<1>6. \A k \in CollsOf(b) : colls[k].name = colls[o.coll].name => k = o.coll
  BY <1>1, <1>3 DEF LogInv, CollsOf
<1> QED BY <1>1, <1>2, <1>3, <1>4, <1>5, <1>6

(* Of the other operations those up to o are those up to n.                *)
LEMMA OthersSame ==
  ASSUME TypeInv, LogInv, NEW b, NEW n, NEW o, NextOne(b, n, o)
  PROVE  \A p \in OpsOf(b) : p # o => (p.id =< n <=> p.id =< o.id)
<1>1. n \in Nat /\ o.id \in Nat /\ n =< o.id /\ \A p \in OpsOf(b) : p.id \in Nat
  BY Owned DEF NextOne
<1> QED BY <1>1 DEF NextOne

LEMMA CollOps ==
  ASSUME NEW b, NEW k \in CollsOf(b), NEW p \in ops, p.coll = k
  PROVE  p \in OpsOf(b)
BY DEF CollsOf, OpsOf

LEMMA TargetsStep ==
  ASSUME TypeInv, LogInv, NEW b, NEW n, NEW o, NextOne(b, n, o), NEW target, TargetsOK(b, n, target)
  PROVE  TargetsOK(b, o.id, [target EXCEPT ![o.coll] = colls[o.coll].name])
<1>1. o \in OpsOf(b) /\ n =< o.id /\ n \in Nat
  BY DEF NextOne
<1>2. /\ o \in ops /\ o.id \in Nat /\ o.coll \in CollIds /\ o.coll \in CollsOf(b)
      /\ colls[o.coll].name \in Names
  BY <1>1, Owned
<1>3. PICK t : t = [target EXCEPT ![o.coll] = colls[o.coll].name]
  OBVIOUS
<1>4. /\ t \in [CollIds -> Names \cup {Absent}] /\ t[o.coll] = colls[o.coll].name
      /\ \A k \in CollIds : k # o.coll => t[k] = target[k]
  BY <1>2, <1>3 DEF TargetsOK
<1>5. ASSUME NEW k \in CollsOf(b)
      PROVE  \/ t[k] = Absent /\ \A p \in ops : p.coll = k => ~(p.id =< o.id)
             \/ t[k] = colls[k].name /\ \E p \in ops : p.coll = k /\ p.id =< o.id
  <2>1. CASE k = o.coll
    <3>1. o.id =< o.id
      BY <1>2
    <3> QED BY <1>2, <1>4, <2>1, <3>1
  <2>2. CASE k # o.coll
    <3>1. t[k] = target[k]
      BY <1>4, <2>2 DEF CollsOf, Existing
    <3>2. \A p \in ops : p.coll = k => (p.id =< n <=> p.id =< o.id)
      BY <2>2, CollOps, OthersSame
    <3> QED BY <3>1, <3>2 DEF TargetsOK
  <2> QED BY <2>1, <2>2
<1> QED BY <1>3, <1>4, <1>5 DEF TargetsOK

LEMMA OneSetting ==
  ASSUME TypeInv, LogInv, NEW k, NEW s, NEW t, Ruled(k, End, s), Ruled(k, End, t)
  PROVE  s = t
<1>1. PICK T : T = RulesOf(k)
  OBVIOUS
<1>2. \A p \in T : p \in ops /\ p.id \in Nat /\ p.id < End
  <2>1. \A p \in ops : p.id \in Nat /\ p.id =< MaxOps
    BY Rows
  <2>2. \A p \in ops : p.id < End
    BY <2>1, Bounds DEF End
  <2> QED BY <1>1, <2>1, <2>2 DEF RulesOf
<1>3. CASE T = {}
  BY <1>1, <1>3 DEF Ruled, LastBefore
<1>4. CASE T # {}
  <2>1. ~NoneBefore(T, End)
    BY <1>2, <1>4 DEF NoneBefore
  <2>2. PICK o : LastBefore(T, End, o) /\ s = o.body.settings
    BY <1>1, <2>1 DEF Ruled
  <2>3. PICK p : LastBefore(T, End, p) /\ t = p.body.settings
    BY <1>1, <2>1 DEF Ruled
  <2>4. o \in ops /\ p \in ops /\ o.id \in Nat /\ p.id \in Nat
    BY <1>2, <2>2, <2>3 DEF LastBefore
  <2>5. o.id = p.id
    BY <2>2, <2>3, <2>4, LastOne
  <2>6. o = p
    BY <2>4, <2>5 DEF LogInv
  <2> QED BY <2>2, <2>3, <2>6
<1> QED BY <1>3, <1>4

LEMMA OneRow ==
  ASSUME TypeInv, LogInv, NEW A, NEW k, NEW d, NEW n, NEW row, NEW other, Stood(A, k, d, n, row), Stood(A, k, d, n, other)
  PROVE  row = other
<1>1. PICK T : T = Writes(k, d)
  OBVIOUS
<1>2. \A p \in T : p \in ops /\ p.id \in Nat
  BY <1>1, Rows DEF Writes
<1>3. CASE NoneBefore(T, n)
  <2>1. \A p : ~LastBefore(T, n, p)
    BY <1>3 DEF NoneBefore, LastBefore
  <2> QED BY <1>1, <2>1 DEF Stood
<1>4. CASE ~NoneBefore(T, n)
  <2>2. PICK o : LastBefore(T, n, o) /\ row = A[o.id]
    BY <1>1, <1>4 DEF Stood
  <2>3. PICK p : LastBefore(T, n, p) /\ other = A[p.id]
    BY <1>1, <1>4 DEF Stood
  <2>4. o.id \in Nat /\ p.id \in Nat
    BY <1>2, <2>2, <2>3 DEF LastBefore
  <2>5. o.id = p.id
    BY <2>2, <2>3, <2>4, LastOne
  <2> QED BY <2>2, <2>3, <2>5
<1> QED BY <1>3, <1>4

LEMMA SettingsStep ==
  ASSUME TypeInv, LogInv, NEW b, NEW n, NEW e, NextOne(b, n, e.row), Logged(b, e),
         NEW target, TargetsOK(b, n, target), NEW settings, SettingsOK(b, n, target, settings)
  PROVE  SettingsOK(b, e.row.id, [target EXCEPT ![e.row.coll] = colls[e.row.coll].name],
                    Tuned(Filled(target, settings, e), e.row, e.meta.name))
<1>1. PICK o, k, name : o = e.row /\ k = o.coll /\ name = colls[k].name
  OBVIOUS
<1>2. /\ o \in OpsOf(b) /\ e.meta.name = name /\ n =< o.id /\ n \in Nat
      /\ e.meta.settings = Default \/ RulesOf(k) # {}
  BY <1>1 DEF Logged, NextOne
<1>3. /\ o \in ops /\ o.id \in Nat /\ k \in CollIds /\ k \in CollsOf(b) /\ name \in Names /\ name # Absent
      /\ \A j \in CollsOf(b) : colls[j].name = name => j = k
  BY <1>1, <1>2, Owned
<1>4. \A p \in OpsOf(b) : p # o => (p.id =< n <=> p.id =< o.id)
  BY <1>1, OthersSame
<1>5. PICK u : u = Filled(target, settings, e)
  OBVIOUS
<1>6. PICK v : v = Tuned(u, o, name)
  OBVIOUS
<1>7. DOMAIN settings = Names
  BY DEF SettingsOK
<1>8. /\ DOMAIN u = Names /\ \A x \in Names : x # name => u[x] = settings[x]
      /\ target[k] # Absent => u = settings
      /\ target[k] = Absent => u[name] = e.meta.settings
  BY <1>1, <1>2, <1>3, <1>5, <1>7 DEF Filled
<1>9. /\ DOMAIN v = Names /\ \A x \in Names : x # name => v[x] = settings[x]
      /\ o.op = "rules" => v[name] = o.body.settings
      /\ o.op # "rules" => v = u
  BY <1>3, <1>6, <1>8 DEF Tuned
<1>10. ASSUME NEW x \in Names PROVE v[x] = Absent \/ \E j \in CollsOf(b) : colls[j].name = x
  <2>1. CASE x = name
    BY <1>1, <1>3, <2>1
  <2>2. CASE x # name
    BY <1>9, <2>2 DEF SettingsOK
  <2> QED BY <2>1, <2>2
<1>11. PICK t : t = [target EXCEPT ![k] = name]
  OBVIOUS
<1>12. \A p \in RulesOf(k) : p \in OpsOf(b) /\ p.id \in Nat /\ p \in ops /\ p.coll = k /\ p.op = "rules"
  <2>1. \A p \in RulesOf(k) : p \in ops /\ p.coll = k /\ p.op = "rules"
    BY DEF RulesOf
  <2>2. \A p \in RulesOf(k) : p \in OpsOf(b)
    BY <1>3, <2>1, CollOps
  <2> QED BY <2>1, <2>2, Owned
<1>13. (\E p \in RulesOf(k) : ~(p.id =< o.id)) \/ Ruled(k, End, v[name])
  <2>1. SUFFICES ASSUME \A p \in RulesOf(k) : p.id =< o.id PROVE Ruled(k, End, v[name])
    OBVIOUS
  <2>2. CASE o.op = "rules"
    <3>1. o \in RulesOf(k)
      BY <1>1, <1>3, <2>2 DEF RulesOf
    <3>2. o.id < End
      <4>1. o.id =< MaxOps
        BY <1>3, Rows
      <4> QED BY <1>3, <4>1, Bounds DEF End
    <3>3. LastBefore(RulesOf(k), End, o)
      BY <2>1, <3>1, <3>2 DEF LastBefore
    <3> QED BY <1>9, <2>2, <3>3 DEF Ruled
  <2>3. CASE o.op # "rules"
    <3>1. \A p \in RulesOf(k) : p # o /\ p.id =< n
      <4>1. \A p \in RulesOf(k) : p # o
        BY <1>12, <2>3
      <4> QED BY <1>4, <1>12, <2>1, <4>1
    <3>2. CASE target[k] # Absent
      BY <1>1, <1>3, <1>8, <1>9, <2>3, <3>1, <3>2 DEF SettingsOK
    <3>3. CASE target[k] = Absent
      <4>1. \A p \in ops : p.coll = k => ~(p.id =< n)
        BY <1>1, <1>3, <3>3 DEF TargetsOK
      <4>2. RulesOf(k) = {}
        BY <1>12, <3>1, <4>1
      <4>3. v[name] = Default
        BY <1>2, <1>8, <1>9, <2>3, <3>3, <4>2
      <4> QED BY <4>2, <4>3 DEF Ruled, NoneBefore
    <3> QED BY <3>2, <3>3
  <2> QED BY <2>2, <2>3
<1>14. ASSUME NEW j \in CollsOf(b), j # k, t[j] # Absent
       PROVE  (\E p \in RulesOf(j) : ~(p.id =< o.id)) \/ Ruled(j, End, v[colls[j].name])
  <2>1. target[j] # Absent /\ j \in CollIds
    BY <1>11, <1>14 DEF TargetsOK, CollsOf, Existing
  <2>2. colls[j].name # name /\ colls[j].name \in Names
    <3>1. colls[j] \in CollRow
      BY <1>14 DEF CollsOf, Existing, TypeInv
    <3> QED BY <1>3, <1>14, <3>1 DEF CollRow
  <2>3. v[colls[j].name] = settings[colls[j].name]
    BY <1>9, <2>2
  <2>4. \A p \in RulesOf(j) : p.id =< n <=> p.id =< o.id
    <3>1. \A p \in RulesOf(j) : p \in OpsOf(b) /\ p # o
      BY <1>1, <1>14, CollOps DEF RulesOf
    <3> QED BY <1>4, <3>1
  <2>5. (\E p \in RulesOf(j) : ~(p.id =< n)) \/ Ruled(j, End, settings[colls[j].name])
    BY <2>1 DEF SettingsOK
  <2> QED BY <2>3, <2>4, <2>5
<1>15. SettingsOK(b, o.id, t, v)
  BY <1>1, <1>9, <1>10, <1>13, <1>14 DEF SettingsOK
<1> QED BY <1>1, <1>2, <1>5, <1>6, <1>11, <1>15

LEMMA StoodOn ==
  ASSUME NEW A, NEW k, NEW d, NEW m, NEW n, \A p \in Writes(k, d) : p.id < m <=> p.id < n,
         NEW row, Stood(A, k, d, m, row)
  PROVE  Stood(A, k, d, n, row)
<1>1. PICK T : T = Writes(k, d) /\ \A p \in T : p.id < m <=> p.id < n
  OBVIOUS
<1>2. CASE row = Absent /\ NoneBefore(T, m)
  <2>1. NoneBefore(T, n)
    BY <1>1, <1>2 DEF NoneBefore
  <2> QED BY <1>1, <1>2, <2>1 DEF Stood
<1>3. ASSUME NEW o, LastBefore(T, m, o), row = A[o.id] PROVE Stood(A, k, d, n, row)
  <2>1. LastBefore(T, n, o)
    BY <1>1, <1>3 DEF LastBefore
  <2> QED BY <1>1, <1>3, <2>1 DEF Stood
<1> QED BY <1>1, <1>2, <1>3 DEF Stood

(* What an operation is replayed on is a copy of what it was written on, or*)
(* of what it made of that.                                                *)
LEMMA DocStep ==
  ASSUME TypeInv, LogInv, NEW A, Told(A), NEW b, NEW n, NEW o, NextOne(b, n, o), o.op \in Ops,
         NEW row, NEW copy, Stood(A, o.coll, o.body.doc, n + 1, row), Copied(row, copy)
  PROVE  /\ o.body.doc \in DocIds
         /\ o.op \in {"patch", "delete"} => copy # Absent
         /\ Stood(A, o.coll, o.body.doc, o.id + 1, A[o.id])
         /\ Copied(A[o.id], ReplayRow(copy, Entry(o)))
<1>1. PICK k, x, new : k = o.coll /\ x = o.body.doc /\ new = A[o.id]
  OBVIOUS
<1>2. o \in OpsOf(b) /\ n =< o.id /\ n \in Nat
  BY DEF NextOne
<1>3. o \in ops /\ o.id \in Nat /\ k \in CollsOf(b)
  BY <1>1, <1>2, Owned
<1>4. /\ x \in DocIds
      /\ \E before : Stood(A, k, x, o.id, before) /\ Became(before, new, o)
  BY <1>1, <1>3 DEF Told
<1>5. PICK before : Stood(A, k, x, o.id, before) /\ Became(before, new, o)
  BY <1>4
<1>6. PICK T : T = Writes(k, x)
  OBVIOUS
<1>7. o \in T /\ \A p \in T : p \in OpsOf(b) /\ p.id \in Nat
  <2>1. \A p \in T : p \in ops /\ p.coll = k
    BY <1>6 DEF Writes
  <2>2. \A p \in T : p \in OpsOf(b)
    BY <1>3, <2>1, CollOps
  <2>3. o \in T
    BY <1>1, <1>3, <1>6 DEF Writes
  <2> QED BY <2>2, <2>3, Owned
<1>8. LastBefore(T, o.id + 1, o)
  <2>1. \A p \in T : p.id < o.id + 1 => p.id =< o.id
    BY <1>3, <1>7
  <2>2. o.id < o.id + 1
    BY <1>3
  <2> QED BY <1>7, <2>1, <2>2 DEF LastBefore
<1>9. Stood(A, k, x, o.id + 1, new)
  BY <1>1, <1>6, <1>8 DEF Stood
<1>10. CASE n = o.id
  <2>1. row = new
    BY <1>1, <1>9, <1>10, OneRow
  <2>2. copy # Absent /\ Copied(new, ReplayRow(copy, Entry(o)))
    BY <1>5, <2>1, ReplayAgain
  <2> QED BY <1>1, <1>4, <1>9, <2>2
<1>11. CASE n < o.id
  <2>1. \A p \in T : p.id < o.id <=> p.id < n + 1
    <3>1. ASSUME NEW p \in T PROVE p.id < o.id <=> p.id < n + 1
      <4>1. p.id \in Nat /\ (p # o => (p.id =< n <=> p.id =< o.id))
        BY <1>7, OthersSame
      <4>2. CASE p = o
        BY <1>2, <1>3, <1>11, <4>2
      <4>3. CASE p # o
        BY <1>2, <1>3, <1>7, <1>11, <4>1, <4>3 DEF LogInv, OpsOf
      <4> QED BY <4>2, <4>3
    <3> QED BY <3>1
  <2>2. Stood(A, k, x, n + 1, before)
    BY <1>5, <1>6, <2>1, StoodOn
  <2>3. row = before
    BY <1>1, <2>2, OneRow
  <2>4. /\ o.op \in {"patch", "delete"} => copy # Absent
        /\ Copied(new, ReplayRow(copy, Entry(o)))
    BY <1>5, <2>3, FirstReplay
  <2> QED BY <1>1, <1>4, <1>9, <2>4
<1> QED BY <1>2, <1>3, <1>10, <1>11

LEMMA DocsStep ==
  ASSUME TypeInv, LogInv, NEW A, Told(A), NEW b, NEW n, NEW o, NextOne(b, n, o),
         NEW rows, DocsOK(A, b, n, rows)
  PROVE  /\ o.op \in Ops => CanReplay(rows[colls[o.coll].name], Entry(o))
         /\ DocsOK(A, b, o.id, Redrawn(rows, o, colls[o.coll].name))
<1>1. PICK k, name : k = o.coll /\ name = colls[k].name
  OBVIOUS
<1>2. o \in OpsOf(b) /\ n =< o.id /\ n \in Nat
  BY DEF NextOne
<1>3. /\ o \in ops /\ o.id \in Nat /\ k \in CollIds /\ k \in CollsOf(b) /\ name \in Names
      /\ \A j \in CollsOf(b) : colls[j].name = name => j = k
  BY <1>1, <1>2, Owned
<1>4. /\ rows \in [Names -> [DocIds -> Row \cup {Absent}]]
      /\ \A j \in CollsOf(b), d \in DocIds :
           \E row : Stood(A, j, d, n + 1, row) /\ Copied(row, rows[colls[j].name][d])
  BY DEF DocsOK
<1>5. ASSUME NEW j \in CollsOf(b), NEW d, o \notin Writes(j, d), NEW row, Stood(A, j, d, n + 1, row)
      PROVE  Stood(A, j, d, o.id + 1, row)
  <2>1. \A p \in Writes(j, d) : p \in OpsOf(b) /\ p # o
    BY <1>5, CollOps DEF Writes
  <2>2. \A p \in Writes(j, d) : p.id \in Nat /\ (p.id =< n <=> p.id =< o.id)
    BY <2>1, OthersSame, Owned
  <2>3. \A p \in Writes(j, d) : p.id < n + 1 <=> p.id < o.id + 1
    BY <1>2, <1>3, <2>2
  <2> QED BY <1>5, <2>3, StoodOn
<1>6. CASE o.op \notin Ops
  <2>1. Redrawn(rows, o, name) = rows
    BY <1>6 DEF Redrawn
  <2>2. ASSUME NEW j \in CollsOf(b), NEW d \in DocIds
        PROVE  \E row : Stood(A, j, d, o.id + 1, row) /\ Copied(row, rows[colls[j].name][d])
    <3>1. PICK row : Stood(A, j, d, n + 1, row) /\ Copied(row, rows[colls[j].name][d])
      BY <1>4
    <3>2. o \notin Writes(j, d)
      BY <1>6 DEF Writes
    <3> QED BY <1>5, <3>1, <3>2
  <2> QED BY <1>1, <1>4, <1>6, <2>1, <2>2 DEF DocsOK
<1>7. CASE o.op \in Ops
  <2>1. PICK x : x = o.body.doc
    OBVIOUS
  <2>2. x \in DocIds
    BY <1>3, <1>7, <2>1 DEF Told
  <2>3. PICK copy, new : copy = rows[name][x] /\ new = ReplayRow(copy, Entry(o))
    OBVIOUS
  <2>4. PICK row : Stood(A, k, x, n + 1, row) /\ Copied(row, copy)
    BY <1>1, <1>3, <1>4, <2>2, <2>3
  <2>5. /\ o.op \in {"patch", "delete"} => copy # Absent
        /\ Stood(A, k, x, o.id + 1, A[o.id])
        /\ Copied(A[o.id], new)
    BY <1>1, <1>7, <2>1, <2>3, <2>4, DocStep
  <2>6. CanReplay(rows[name], Entry(o))
    <3>1. Entry(o).op = o.op /\ Entry(o).id = x
      BY <2>1 DEF Entry
    <3> QED BY <2>3, <2>5, <3>1 DEF CanReplay
  <2>7. PICK u : u = [rows EXCEPT ![name][x] = new]
    OBVIOUS
  <2>8. Redrawn(rows, o, name) = u
    BY <1>7, <2>1, <2>3, <2>7 DEF Redrawn
  <2>9. new \in Row \cup {Absent}
    BY <2>5 DEF Copied
  <2>10. /\ u \in [Names -> [DocIds -> Row \cup {Absent}]] /\ u[name][x] = new
         /\ \A m \in Names, d \in DocIds : m # name \/ d # x => u[m][d] = rows[m][d]
    BY <1>3, <1>4, <2>2, <2>7, <2>9
  <2>11. ASSUME NEW j \in CollsOf(b), NEW d \in DocIds
         PROVE  \E r : Stood(A, j, d, o.id + 1, r) /\ Copied(r, u[colls[j].name][d])
    <3>1. CASE j = k /\ d = x
      BY <1>1, <2>5, <2>10, <3>1
    <3>2. CASE j # k \/ d # x
      <4>1. PICK r : Stood(A, j, d, n + 1, r) /\ Copied(r, rows[colls[j].name][d])
        BY <1>4
      <4>2. o \notin Writes(j, d)
        BY <1>1, <2>1, <3>2 DEF Writes
      <4>3. colls[j].name \in Names /\ (colls[j].name # name \/ d # x)
        <5>1. colls[j] \in CollRow
          BY <3>2 DEF CollsOf, Existing, TypeInv
        <5> QED BY <1>3, <3>2, <5>1 DEF CollRow
      <4>4. u[colls[j].name][d] = rows[colls[j].name][d]
        BY <2>10, <4>3
      <4> QED BY <1>5, <4>1, <4>2, <4>4
    <3> QED BY <3>1, <3>2
  <2>12. DocsOK(A, b, o.id, u)
    BY <2>10, <2>11 DEF DocsOK
  <2> QED BY <1>1, <2>6, <2>8, <2>12
<1> QED BY <1>6, <1>7

LEMMA KnownStep ==
  ASSUME TypeInv, LogInv, NEW b, NEW o \in OpsOf(b), NEW known, KnownOK(b, known)
  PROVE  KnownOK(b, Noted(known, o))
<1>1. DOMAIN known = 1..MaxOps /\ \A p \in OpsOf(b) : known[p.id] \in {Absent, What(p)}
  BY DEF KnownOK
<1>2. PICK w, u : w = What(o) /\ u = [known EXCEPT ![o.id] = w]
  OBVIOUS
<1>3. \A p \in OpsOf(b) : p.id \in 1..MaxOps /\ p \in ops
  BY Owned
<1>4. \A p \in OpsOf(b) : p.id = o.id => p = o
  BY <1>3 DEF LogInv
<1>5. DOMAIN u = 1..MaxOps /\ u[o.id] = w /\ \A i \in 1..MaxOps : i # o.id => u[i] = known[i]
  BY <1>1, <1>2, <1>3
<1>6. \A p \in OpsOf(b) : u[p.id] \in {Absent, What(p)}
  BY <1>1, <1>2, <1>3, <1>4, <1>5
<1>7. KnownOK(b, u)
  BY <1>5, <1>6 DEF KnownOK
<1> QED BY <1>2, <1>7 DEF Noted

LEMMA RebuiltStep ==
  ASSUME TypeInv, LogInv, NEW A, Told(A), NEW b, NEW n, NEW e, NextOne(b, n, e.row), Logged(b, e),
         NEW st, Rebuilt(A, b, n, st)
  PROVE  Rebuilt(A, b, e.row.id, ReplayOne(st, e))
<1>1. PICK o, k, name : o = e.row /\ k = o.coll /\ name = colls[k].name
  OBVIOUS
<1>2. o \in OpsOf(b) /\ e.meta.name = name
  BY <1>1 DEF Logged
<1>3. k \in CollIds /\ k \in CollsOf(b)
  BY <1>1, <1>2, Owned
<1>4. /\ Shape(st) /\ st.ok = TRUE
      /\ TargetsOK(b, n, st.target) /\ SettingsOK(b, n, st.target, st.settings)
      /\ DocsOK(A, b, n, st.docs) /\ KnownOK(b, st.known)
  BY DEF Rebuilt
<1>5. st.target \in [CollIds -> Names \cup {Absent}] /\ st.target[k] \in {Absent, name}
  BY <1>1, <1>3, <1>4 DEF TargetsOK
<1>6. st.known[o.id] \in {Absent, What(o)}
  BY <1>2, <1>4 DEF KnownOK
<1>7. /\ o.op \in Ops => CanReplay(st.docs[name], Entry(o))
      /\ DocsOK(A, b, o.id, Redrawn(st.docs, o, name))
  BY <1>1, <1>4, DocsStep
<1>8. PICK r : r = ReplayOne(st, e)
  OBVIOUS
<1>9. /\ Shape(r) /\ r.ok = TRUE
      /\ r.target = [st.target EXCEPT ![k] = name]
      /\ r.settings = Tuned(Filled(st.target, st.settings, e), o, name)
      /\ r.docs = Redrawn(st.docs, o, name) /\ r.known = Noted(st.known, o)
  <2>1. /\ e.row.coll \in CollIds /\ st.target[e.row.coll] \in {Absent, e.meta.name}
        /\ e.row.op \in Ops => CanReplay(st.docs[e.meta.name], Entry(e.row))
        /\ st.known[e.row.id] \in {Absent, What(e.row)}
    BY <1>1, <1>2, <1>3, <1>5, <1>6, <1>7
  <2>2. /\ Shape(ReplayOne(st, e)) /\ ReplayOne(st, e).ok = TRUE
        /\ ReplayOne(st, e).target = [st.target EXCEPT ![e.row.coll] = e.meta.name]
        /\ ReplayOne(st, e).settings = Tuned(Filled(st.target, st.settings, e), e.row, e.meta.name)
        /\ ReplayOne(st, e).docs = Redrawn(st.docs, e.row, e.meta.name)
        /\ ReplayOne(st, e).known = Noted(st.known, e.row)
    BY <1>4, <1>5, <2>1, Replaces
  <2> QED BY <1>1, <1>2, <1>8, <2>2
<1>10. TargetsOK(b, o.id, r.target)
  BY <1>1, <1>4, <1>9, TargetsStep
<1>11. SettingsOK(b, o.id, r.target, r.settings)
  BY <1>1, <1>2, <1>4, <1>9, SettingsStep
<1>12. KnownOK(b, r.known)
  BY <1>2, <1>4, <1>9, KnownStep
<1> QED BY <1>1, <1>7, <1>8, <1>9, <1>10, <1>11, <1>12 DEF Rebuilt

-----------------------------------------------------------------------------
(* The whole restore *)

LEMMA RebuiltStart ==
  ASSUME TypeInv, NEW A, NEW b
  PROVE  Rebuilt(A, b, 0, Empty)
<1>1. PICK e : e = Empty
  OBVIOUS
<1>2. /\ e.ok = TRUE /\ e.target = [k \in CollIds |-> Absent] /\ e.settings = [m \in Names |-> Absent]
      /\ e.docs = [m \in Names |-> NoDocs] /\ e.known = [i \in 1..MaxOps |-> Absent]
  BY <1>1 DEF Empty
<1>3. Shape(e)
  BY <1>1 DEF Empty, Shape
<1>4. \A p \in ops : p.id \in Nat /\ ~(p.id =< 0) /\ ~(p.id < 0 + 1) /\ p.id \in 1..MaxOps
  BY Rows DEF TypeInv
<1>5. TargetsOK(b, 0, e.target)
  BY <1>2, <1>4 DEF TargetsOK, CollsOf, Existing
<1>6. SettingsOK(b, 0, e.target, e.settings)
  BY <1>2 DEF SettingsOK, CollsOf, Existing
<1>7. DocsOK(A, b, 0, e.docs)
  <2>1. e.docs \in [Names -> [DocIds -> Row \cup {Absent}]] /\ \A m \in Names, d \in DocIds : e.docs[m][d] = Absent
    BY <1>2 DEF NoDocs
  <2>2. ASSUME NEW k \in CollsOf(b), NEW d \in DocIds
        PROVE  \E row : Stood(A, k, d, 0 + 1, row) /\ Copied(row, e.docs[colls[k].name][d])
    <3>1. NoneBefore(Writes(k, d), 0 + 1)
      BY <1>4 DEF Writes, NoneBefore
    <3>2. Stood(A, k, d, 0 + 1, Absent)
      BY <3>1 DEF Stood
    <3>3. colls[k].name \in Names
      <4>1. colls[k] \in CollRow
        BY <2>2 DEF CollsOf, Existing, TypeInv
      <4> QED BY <4>1 DEF CollRow
    <3>4. Copied(Absent, e.docs[colls[k].name][d])
      BY <2>1, <3>3 DEF Copied, SameContent
    <3> QED BY <3>2, <3>4
  <2> QED BY <2>1, <2>2 DEF DocsOK
<1>8. KnownOK(b, e.known)
  BY <1>2, <1>4 DEF KnownOK, OpsOf
<1> QED BY <1>1, <1>2, <1>3, <1>5, <1>6, <1>7, <1>8 DEF Rebuilt

RestoreFold(h, q, n) ==
  h = [i \in 0..n |-> IF i = 0 THEN Empty ELSE ReplayOne(h[i - 1], q[i][2])]

LEMMA RestoreFolds ==
  ASSUME NEW q, NEW n \in Nat
  PROVE  \E h : RestoreFold(h, q, n)
<1>1. PICK T : T = {m \in Nat : ~\E h : RestoreFold(h, q, m)}
  OBVIOUS
<1>2. SUFFICES ASSUME T # {} PROVE FALSE
  BY <1>1
<1>3. PICK m : m \in Nat /\ m \in T /\ \A j \in T : m =< j
  BY <1>1, <1>2, Lowest
<1>4. m # 0
  <2>1. RestoreFold([i \in {0} |-> Empty], q, 0)
    <3>1. 0..0 = {0}
      OBVIOUS
    <3> QED BY <3>1 DEF RestoreFold
  <2> QED BY <1>1, <1>3, <2>1
<1>5. PICK l : l = m - 1
  OBVIOUS
<1>6. l \in Nat /\ m = l + 1 /\ ~(m =< l)
  BY <1>3, <1>4, <1>5
<1>7. PICK h : RestoreFold(h, q, l)
  BY <1>1, <1>3, <1>6
<1>8. \A i \in 0..l : h[i] = IF i = 0 THEN Empty ELSE ReplayOne(h[i - 1], q[i][2])
  BY <1>7 DEF RestoreFold
<1>9. PICK k : k = [i \in 0..m |-> IF i = m THEN ReplayOne(h[l], q[m][2]) ELSE h[i]]
  OBVIOUS
<1>10. /\ l \in 0..m /\ m \in 0..m /\ m # 0 /\ m - 1 = l /\ l # m
       /\ \A i \in 0..l : i \in 0..m /\ i # m
       /\ \A i \in 0..m : i # m => i \in 0..l /\ (i # 0 => i - 1 \in 0..l)
  BY <1>6
<1>11. k[m] = ReplayOne(k[l], q[m][2]) /\ \A i \in 0..l : k[i] = h[i]
  <2>1. \A i \in 0..l : k[i] = h[i]
    BY <1>9, <1>10
  <2>2. k[m] = ReplayOne(h[l], q[m][2]) /\ l \in 0..l
    BY <1>6, <1>9, <1>10
  <2> QED BY <2>1, <2>2
<1>12. \A i \in 0..m : k[i] = IF i = 0 THEN Empty ELSE ReplayOne(k[i - 1], q[i][2])
  <2> TAKE i \in 0..m
  <2>1. CASE i = m
    BY <1>10, <1>11, <2>1
  <2>2. CASE i # m
    BY <1>8, <1>10, <1>11, <2>2
  <2> QED BY <2>1, <2>2
<1>13. k = [i \in 0..m |-> k[i]]
  BY <1>9
<1>14. RestoreFold(k, q, m)
  BY <1>12, <1>13 DEF RestoreFold
<1> QED BY <1>1, <1>3, <1>14

LEMMA Restores ==
  ASSUME NEW m, NEW q, NEW n \in Nat, q = Sorted(Items(m)), n = Cardinality(Items(m))
  PROVE  \E h : RestoreFold(h, q, n) /\ Restore(m) = h[n]
<1>1. Restore(m) = (CHOOSE h : RestoreFold(h, q, n))[n]
  BY DEF Restore, RestoreFold
<1>2. \E h : RestoreFold(h, q, n)
  BY RestoreFolds
<1>3. PICK h : h = CHOOSE h_1 : RestoreFold(h_1, q, n)
  OBVIOUS
<1> QED BY <1>1, <1>2, <1>3

At(q, i) == IF i = 0 THEN 0 ELSE q[i][2].row.id

LEMMA InTurn ==
  ASSUME TypeInv, LogInv, NEW b, NEW q, NEW n, Orderly(b, q, n), NEW i \in 1..n
  PROVE  NextOne(b, At(q, i - 1), q[i][2].row)
<1>1. PICK o, m : o = q[i][2].row /\ m = At(q, i - 1)
  OBVIOUS
<1>2. n \in Nat /\ o \in OpsOf(b) /\ \A j \in 1..n : q[j][2].row.id \in Nat
  BY <1>1, Owned DEF Orderly, Logged
<1>3. o.id \in Nat
  BY <1>2, Owned
<1>4. CASE i = 1
  <2>1. m = 0 /\ 1..i = {1}
    BY <1>1, <1>4 DEF At
  <2>2. \A p \in OpsOf(b) : p.id =< o.id => p = o
    BY <1>1, <1>4, <2>1 DEF Orderly
  <2>3. NextOne(b, 0, o)
    BY <1>2, <1>3, <2>2 DEF NextOne
  <2> QED BY <1>1, <2>1, <2>3
<1>5. CASE i # 1
  <2>1. /\ i - 1 \in 1..n /\ i - 1 # 0 /\ i - 1 =< i /\ i \in 1..n
        /\ \A j \in 1..i : j \in 1..n /\ (j = i \/ j =< i - 1)
    BY <1>2, <1>5
  <2>2. m = q[i - 1][2].row.id
    BY <1>1, <2>1 DEF At
  <2>3. m \in Nat /\ m =< o.id
    BY <1>1, <1>2, <2>1, <2>2 DEF Orderly
  <2>4. ASSUME NEW p \in OpsOf(b), p.id =< o.id PROVE p = o \/ p.id =< m
    <3>1. PICK j \in 1..i : q[j][2].row = p
      BY <1>1, <2>4 DEF Orderly
    <3>2. CASE j = i
      BY <1>1, <3>1, <3>2
    <3>3. CASE j =< i - 1
      BY <2>1, <2>2, <3>1, <3>3 DEF Orderly
    <3> QED BY <2>1, <3>2, <3>3
  <2>5. NextOne(b, m, o)
    BY <1>2, <2>3, <2>4 DEF NextOne
  <2> QED BY <1>1, <2>5
<1> QED BY <1>4, <1>5

(* After each operation, by least counterexample.                          *)
LEMMA RebuiltAlong ==
  ASSUME TypeInv, LogInv, NEW A, Told(A), NEW b, NEW q, NEW n, Orderly(b, q, n),
         NEW h, RestoreFold(h, q, n)
  PROVE  Rebuilt(A, b, At(q, n), h[n])
<1>1. n \in Nat /\ \A i \in 1..n : Logged(b, q[i][2])
  BY DEF Orderly
<1>2. \A i \in 0..n : h[i] = IF i = 0 THEN Empty ELSE ReplayOne(h[i - 1], q[i][2])
  BY DEF RestoreFold
<1>3. PICK T : T = {i \in 0..n : ~Rebuilt(A, b, At(q, i), h[i])}
  OBVIOUS
<1>4. CASE T = {}
  BY <1>1, <1>3, <1>4
<1>5. CASE T # {}
  <2>1. T \in SUBSET Nat
    BY <1>3
  <2>2. PICK i : i \in T /\ \A j \in T : i =< j
    BY <1>5, <2>1, Lowest
  <2>3. i \in 0..n /\ ~Rebuilt(A, b, At(q, i), h[i])
    BY <1>3, <2>2
  <2>4. i # 0
    <3>1. h[0] = Empty /\ At(q, 0) = 0
      BY <1>1, <1>2 DEF At
    <3> QED BY <2>3, <3>1, RebuiltStart
  <2>5. i \in 1..n /\ i - 1 \in 0..n /\ ~(i =< i - 1)
    BY <1>1, <2>3, <2>4
  <2>6. Rebuilt(A, b, At(q, i - 1), h[i - 1])
    BY <1>3, <2>2, <2>5
  <2>7. PICK e, m, st : e = q[i][2] /\ m = At(q, i - 1) /\ st = h[i - 1]
    OBVIOUS
  <2>8. NextOne(b, m, e.row) /\ Logged(b, e) /\ Rebuilt(A, b, m, st)
    BY <1>1, <2>5, <2>6, <2>7, InTurn
  <2>9. Rebuilt(A, b, e.row.id, ReplayOne(st, e))
    BY <2>8, RebuiltStep
  <2>10. h[i] = ReplayOne(st, e) /\ At(q, i) = e.row.id
    BY <1>2, <2>3, <2>4, <2>7 DEF At
  <2> QED BY <2>3, <2>9, <2>10
<1> QED BY <1>4, <1>5

(* A restore of everything is the database.                                *)
LEMMA RebuiltIsFaithful ==
  ASSUME TypeInv, LogInv, NEW A, Told(A), NEW b, NEW n, \A o \in OpsOf(b) : o.id =< n, n \in Nat,
         NEW r, Rebuilt(A, b, n, r), NEW name \in Names
  PROVE  RestoresTo(b, name, r)
<1>1. /\ TargetsOK(b, n, r.target) /\ SettingsOK(b, n, r.target, r.settings) /\ DocsOK(A, b, n, r.docs)
  BY DEF Rebuilt
<1>2. Named(b, name) = {k \in CollsOf(b) : colls[k].name = name}
  BY DEF Named, CollsOf
<1>3. CASE Named(b, name) = {}
  BY <1>1, <1>2, <1>3 DEF RestoresTo, SettingsOK
<1>4. CASE Named(b, name) # {}
  <2>1. PICK k : k = CHOOSE j \in Named(b, name) : TRUE
    OBVIOUS
  <2>2. k \in CollsOf(b) /\ colls[k].name = name /\ k \in Existing
    BY <1>2, <1>4, <2>1 DEF CollsOf
  <2>3. \A p \in ops : p.coll = k => p.id =< n /\ p.id \in Nat /\ p.id < n + 1 /\ p.id < End
    <3>1. \A p \in ops : p.coll = k => p.id =< n
      BY <2>2, CollOps
    <3>2. \A p \in ops : p.id \in Nat /\ p.id =< MaxOps
      BY Rows
    <3> QED BY <3>1, <3>2, Bounds DEF End
  <2>4. r.target[k] # Absent
    <3>1. \E p \in ops : p.coll = k
      BY <2>2 DEF LogInv
    <3>2. r.target[k] = colls[k].name
      BY <1>1, <2>2, <2>3, <3>1 DEF TargetsOK
    <3> QED BY <2>2, <3>2, OpLogBackupAssumption
  <2>5. Ruled(k, End, r.settings[name])
    BY <1>1, <2>2, <2>3, <2>4 DEF SettingsOK, RulesOf
  <2>6. Ruled(k, End, colls[k].settings)
    BY <2>2 DEF LogInv
  <2>7. r.settings[name] = colls[k].settings
    BY <2>5, <2>6, OneSetting
  <2>8. ASSUME NEW d \in DocIds PROVE SameContent(docs[k][d], r.docs[name][d])
    <3>1. PICK row : Stood(A, k, d, n + 1, row) /\ Copied(row, r.docs[name][d])
      BY <1>1, <2>2 DEF DocsOK
    <3>2. \A p \in Writes(k, d) : p.id < n + 1 <=> p.id < End
      BY <2>3 DEF Writes
    <3>3. Stood(A, k, d, End, row)
      BY <3>1, <3>2, StoodOn
    <3>4. PICK now : now = docs[k][d]
      OBVIOUS
    <3>5. Stood(A, k, d, End, now)
      BY <2>2, <3>4 DEF Told, Existing
    <3>6. row = now
      BY <3>3, <3>5, OneRow
    <3> QED BY <3>1, <3>4, <3>6 DEF Copied
  <2> QED BY <1>4, <2>1, <2>7, <2>8 DEF RestoresTo
<1> QED BY <1>3, <1>4

LEMMA NoLag ==
  ASSUME TypeInv, NEW b \in Dbs, Lag(b) = 0
  PROVE  \A o \in OpsOf(b) : o.id =< mark[b]
<1>1. PICK T, x, z : T = {o.id : o \in OpsOf(b)} \cup {0} /\ x = Max(T) /\ z = x - mark[b]
  OBVIOUS
<1>2. \A o \in OpsOf(b) : o.id \in Nat /\ o.id =< MaxOps
  BY Rows DEF OpsOf
<1>3. T \in SUBSET Nat /\ T # {} /\ \A i \in T : i =< MaxOps
  BY <1>1, <1>2, Bounds
<1>4. x \in T /\ \A i \in T : i =< x
  BY <1>1, <1>3, Bounds, Highest
<1>5. mark[b] \in Nat /\ x \in Nat /\ z \in Int
  BY <1>1, <1>3, <1>4 DEF TypeInv
<1>6. Max({0, z}) = 0
  BY <1>1 DEF Lag
<1>7. z =< 0
  <2>1. SUFFICES ASSUME z > 0 PROVE FALSE
    BY <1>5
  <2>2. \A y \in {0, z} : z >= y
    BY <1>5, <2>1
  <2>3. PICK u : u = Max({0, z})
    OBVIOUS
  <2>4. u \in {0, z} /\ \A y \in {0, z} : u >= y
    BY <2>2, <2>3 DEF Max
  <2> QED BY <1>5, <1>6, <2>1, <2>3, <2>4
<1>8. x =< mark[b]
  BY <1>1, <1>5, <1>7
<1> QED BY <1>1, <1>2, <1>4, <1>5, <1>8

LEMMA ChatIsEnough ==
  ASSUME TypeInv, LogInv, ChatInv, MarkedIsInChat, NEW b \in Dbs, NEW r, r = Restore(chat[b])
  PROVE  r.ok /\ Faithful(b, r)
<1>1. PICK q, n : q = Sorted(Items(chat[b])) /\ n = Cardinality(Items(chat[b]))
  OBVIOUS
<1>2. Orderly(b, q, n) /\ \A o : InChat(b, o) => \E i \in 1..n : q[i][2].row = o
  BY <1>1, SortedIsOrderly
<1>3. n \in Nat /\ \A i \in 1..n : q[i][2].row \in OpsOf(b)
  BY <1>2 DEF Orderly, Logged
<1>4. PICK h : RestoreFold(h, q, n) /\ r = h[n]
  BY <1>1, <1>3, Restores
<1>5. PICK A : Told(A)
  BY DEF LogInv
<1>6. PICK m : m = At(q, n)
  OBVIOUS
<1>7. Rebuilt(A, b, m, r)
  BY <1>2, <1>4, <1>5, <1>6, RebuiltAlong
<1>8. ASSUME Lag(b) = 0, NEW name \in Names PROVE RestoresTo(b, name, r)
  <2>1. \A o \in OpsOf(b) : \E i \in 1..n : q[i][2].row = o
    BY <1>2, <1>8, NoLag DEF MarkedIsInChat
  <2>2. m \in Nat
    <3>1. CASE n = 0
      BY <1>6, <3>1 DEF At
    <3>2. CASE n # 0
      <4>1. n \in 1..n /\ m = q[n][2].row.id
        BY <1>3, <1>6, <3>2 DEF At
      <4> QED BY <1>3, <4>1, Owned
    <3> QED BY <3>1, <3>2
  <2>3. ASSUME NEW o \in OpsOf(b) PROVE o.id =< m
    <3>1. PICK i \in 1..n : q[i][2].row = o
      BY <2>1
    <3>2. n \in 1..n /\ i =< n /\ n # 0
      BY <1>3
    <3>3. m = q[n][2].row.id
      BY <1>6, <3>2 DEF At
    <3> QED BY <1>2, <3>1, <3>2, <3>3 DEF Orderly
  <2> QED BY <1>5, <1>7, <1>8, <2>2, <2>3, RebuiltIsFaithful
<1>9. r.ok = TRUE
  BY <1>7 DEF Rebuilt
<1> QED BY <1>8, <1>9 DEF Faithful

(* Until a collection is deleted, which takes operations that the chat has.*)
RestoreInv ==
  /\ BackupInv
  /\ scene = "restore" => deletes = 0
  /\ deletes = 0 => LogInv /\ ChatInv

LEMMA RestoreStart == MCInit => RestoreInv
<1> SUFFICES ASSUME MCInit PROVE RestoreInv
  OBVIOUS
<1>1. /\ colls = [k \in CollIds |-> Absent] /\ docs = [k \in CollIds |-> NoDocs] /\ ops = {}
      /\ chat = [b \in Dbs |-> <<>>] /\ worker = Sleeping /\ deletes = 0
  BY DEF MCInit, Init
<1>2. BackupInv
  BY BackupStart DEF MCInit, BackupInv
<1>3. Existing = {}
  BY <1>1 DEF Existing
<1>4. docs \in [CollIds -> [DocIds -> Row \cup {Absent}]] /\ \A k \in CollIds, d \in DocIds : docs[k][d] = Absent
  BY <1>1 DEF NoDocs
<1>5. \A A : Told(A)
  <2>1. \A k, d : NoneBefore(Writes(k, d), End)
    BY <1>1 DEF Writes, NoneBefore
  <2> QED BY <1>1, <1>4, <2>1 DEF Told, Stood
<1>6. LogInv
  BY <1>1, <1>3, <1>4, <1>5 DEF LogInv
<1>7. ChatInv
  <2>1. ~Holds
    BY <1>1 DEF Holds, Sleeping
  <2>2. \A b \in Dbs : DOMAIN chat[b] = {}
    BY <1>1
  <2> QED BY <2>1, <2>2 DEF ChatInv
<1> QED BY <1>1, <1>2, <1>6, <1>7 DEF RestoreInv

LEMMA RestoreStep == RestoreInv /\ [MCNext]_<<vars, scene>> => RestoreInv'
<1> SUFFICES ASSUME RestoreInv, [MCNext]_<<vars, scene>> PROVE RestoreInv'
  OBVIOUS
<1>1. /\ BackupInv /\ (scene = "restore" => deletes = 0) /\ (deletes = 0 => LogInv /\ ChatInv)
      /\ TypeInv /\ Above /\ (deletes = 0 => Covered) /\ deletes \in Nat
  BY DEF RestoreInv, BackupInv, TypeInv
<1>2. BackupInv'
  BY <1>1, BackupStep
<1>3. scene' = "restore" => deletes' = 0
  <2>1. CASE UNCHANGED <<vars, scene>>
    BY <1>1, <2>1 DEF vars
  <2>2. CASE MCNext
    BY <2>2 DEF MCNext
  <2> QED BY <2>1, <2>2
<1>4. ASSUME NEW Ds, NEW Ss, NEW Ps, NEW Bs,
             Ds \subseteq Dbs, Ss \subseteq Settings, Ps \subseteq Writers, Bs \subseteq Bodies, Request(Ds, Ss, Ps, Bs)
      PROVE  deletes' = 0 => LogInv' /\ ChatInv'
  <2>1. CASE deletes = 0
    <3>1. CASE LogInv' /\ \E o : Grows(o)
      BY <1>1, <2>1, <3>1, ChatGrows
    <3>2. CASE \E k \in Existing : DeleteCollection(k)
      <4>1. deletes' # 0
        BY <1>1, <3>2 DEF DeleteCollection
      <4> QED BY <4>1
    <3> QED BY <1>1, <1>4, <2>1, <3>1, <3>2, RequestLogs
  <2>2. CASE deletes # 0
    <3>1. Grown \/ \E k \in Existing : DeleteCollection(k)
      BY <1>1, <1>4, Requests
    <3>2. deletes' # 0
      BY <1>1, <2>2, <3>1 DEF Grown, DeleteCollection
    <3> QED BY <3>2
  <2> QED BY <2>1, <2>2
<1>5. deletes' = 0 => LogInv' /\ ChatInv'
  <2>1. CASE Request({b1}, Settings, Writers, Bodies)
    <3>1. {b1} \subseteq Dbs
      BY MCBackupAssumption
    <3> QED BY <1>4, <2>1, <3>1
  <2>2. CASE Request(Dbs, {closed}, {Owner}, OneBody)
    <3>1. {closed} \subseteq Settings /\ {Owner} \subseteq Writers /\ OneBody \subseteq Bodies
      BY MCBackupAssumption
    <3> QED BY <1>4, <2>2, <3>1
  <2>3. CASE Work \/ Interrupt
    <3>1. deletes' = deletes
      BY <1>1, <2>3, WorkKeeps
    <3> QED BY <1>1, <2>3, <3>1, WorkChats
  <2>4. CASE UNCHANGED <<vars, scene>>
    <3>1. UNCHANGED <<colls, docs, ops, chat, worker, deletes>>
      BY <2>4 DEF vars
    <3>2. LogInv => LogInv'
      BY <3>1, LogStays
    <3>3. \A s : SegmentOK(s) => SegmentOK(s)'
      BY <3>1 DEF SegmentOK, OpsOf, OpIds, RulesOf
    <3>4. ASSUME ChatInv PROVE ChatInv'
      <4>1. ASSUME Holds' PROVE SegmentOK(worker.segment)'
        <5>1. PICK s : s = worker.segment
          OBVIOUS
        <5>2. SegmentOK(s)'
          BY <3>1, <3>3, <3>4, <4>1, <5>1 DEF ChatInv, Holds
        <5> QED BY <3>1, <5>1, <5>2 DEF SegmentOK
      <4> QED BY <3>1, <3>4, <4>1, ChatStays
    <3> QED BY <1>1, <3>1, <3>2, <3>4
  <2> QED BY <2>1, <2>2, <2>3, <2>4 DEF MCNext
<1> QED BY <1>2, <1>3, <1>5 DEF RestoreInv

(* ChatRestores, for any documents, writers and rules, any size of a batch *)
(* and any number of crashes, refusals and segments uploaded twice: what is*)
(* in the chat when the worker sleeps can always be restored, and of a     *)
(* database with no lag the restore makes what is there                    *)
(* (restore_json_db_segments of what backup_once uploaded).                *)
THEOREM ChatsRestore == MCSpec => []ChatRestores
<1>1. ASSUME RestoreInv PROVE ChatRestores
  <2>1. SUFFICES ASSUME scene = "restore", NEW r, r = Restore(chat[b1]) PROVE r.ok /\ Faithful(b1, r)
    BY DEF ChatRestores
  <2>2. TypeInv /\ LogInv /\ ChatInv /\ MarkedIsInChat /\ b1 \in Dbs
    BY <1>1, <2>1, MCBackupAssumption DEF RestoreInv, BackupInv, Covered
  <2> QED BY <2>1, <2>2, ChatIsEnough
<1> QED BY <1>1, RestoreStart, RestoreStep, PTL DEF MCSpec

=============================================================================
