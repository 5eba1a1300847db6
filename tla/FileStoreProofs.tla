--------------------------- MODULE FileStoreProofs ---------------------------
(***************************************************************************)
(* What is proved of MCFileStore, for every set of clients, users, names   *)
(* and sizes, and every bound: what is listed is in the chat, the quota is *)
(* exceeded by no more than the uploads that overlap, and with one request *)
(* at a time the charges cover the files and nothing is orphaned.          *)
(***************************************************************************)
EXTENDS MCFileStore, SequenceTheorems, FiniteSetTheorems, NaturalsInduction, WellFoundedInduction, TLAPS

-----------------------------------------------------------------------------
(* Sums of sizes.  The induction theorems of the library are about         *)
(* operators; these facts are proved from the least counterexample.        *)

LEMMA Least ==
  ASSUME NEW P \in SUBSET Nat, 0 \in P, \A n \in P : n + 1 \in P
  PROVE  P = Nat
<1> SUFFICES ASSUME Nat \ P # {} PROVE FALSE
  OBVIOUS
<1>1. PICK n \in Nat \ P : \A m \in Nat \ P : ~(<<m, n>> \in OpToRel(<, Nat))
  BY NatLessThanWellFounded, WFMin
<1>2. n # 0 /\ n - 1 \in Nat /\ n - 1 < n
  OBVIOUS
<1>3. <<n - 1, n>> \in OpToRel(<, Nat)
  BY <1>2 DEF OpToRel
<1>4. n - 1 \in P
  BY <1>1, <1>2, <1>3
<1>5. n - 1 + 1 = n
  BY <1>2
<1> QED BY <1>1, <1>4, <1>5

(* A property of the subsets of a finite set, one element at a time.       *)
LEMMA Subsets ==
  ASSUME NEW D, IsFiniteSet(D), NEW P \in SUBSET SUBSET D, {} \in P,
         \A s \in SUBSET D : s # {} /\ (\A x \in s : s \ {x} \in P) => s \in P
  PROVE  P = SUBSET D
<1> DEFINE N == {n \in Nat : \A s \in SUBSET D : Cardinality(s) = n => s \in P}
<1>s. \A s \in SUBSET D : IsFiniteSet(s) /\ Cardinality(s) \in Nat
  BY FS_Subset, FS_CardinalityType
<1>1. 0 \in N
  BY <1>s, FS_EmptySet
<1>2. ASSUME NEW n \in N PROVE n + 1 \in N
  <2> SUFFICES ASSUME NEW s \in SUBSET D, Cardinality(s) = n + 1 PROVE s \in P
    OBVIOUS
  <2>1. s # {}
    BY FS_EmptySet
  <2>2. ASSUME NEW x \in s PROVE s \ {x} \in P
    <3>1. Cardinality(s \ {x}) = n
      BY <1>s, FS_RemoveElement
    <3> QED BY <3>1
  <2> QED BY <2>1, <2>2
<1>3. N = Nat
  <2> HIDE DEF N
  <2>0. N \in SUBSET Nat
    BY DEF N
  <2> QED BY <1>1, <1>2, <2>0, Least
<1> QED BY <1>3, <1>s

(* The fold of the community modules, as a function of the rows.           *)
SizeSum(rows, D) == MapThenSumSet(LAMBDA i : rows[i].size, D)
Pick(s) == CHOOSE x \in s : TRUE
After(rows, iter, s) == IF s = {} THEN 0 ELSE rows[Pick(s)].size + iter[s \ {Pick(s)}]
SumsTo(iter, rows, D) == iter = [s \in SUBSET D |-> After(rows, iter, s)]
SumsOf(rows, D) == CHOOSE iter : SumsTo(iter, rows, D)
Sized(rows, D) == \A i \in D : rows[i].size \in Nat

LEMMA SumUnfolds ==
  ASSUME NEW rows, NEW D
  PROVE  SizeSum(rows, D) = SumsOf(rows, D)[D]
BY DEF SizeSum, MapThenSumSet, MapThenFoldSet, SumsOf, SumsTo, After, Pick

LEMMA SumExists ==
  ASSUME NEW rows, NEW D, IsFiniteSet(D)
  PROVE  SumsTo(SumsOf(rows, D), rows, D)
<1> DEFINE Small(n) == {s \in SUBSET D : Cardinality(s) =< n}
           RHS(g, s) == IF s = {} THEN 0 ELSE rows[Pick(s)].size + g[s \ {Pick(s)}]
           P == {n \in Nat : \E g : g = [s \in Small(n) |-> RHS(g, s)]}
<1>s. \A s \in SUBSET D : IsFiniteSet(s) /\ Cardinality(s) \in Nat /\ Cardinality(s) =< Cardinality(D)
  BY FS_Subset, FS_CardinalityType
<1>c. Cardinality(D) \in Nat
  BY FS_CardinalityType
<1>1. 0 \in P
  <2> DEFINE g == [s \in Small(0) |-> 0]
  <2>1. \A s \in Small(0) : s = {}
    <3> TAKE s \in Small(0)
    <3>1. IsFiniteSet(s) /\ Cardinality(s) = 0
      BY <1>s
    <3> QED BY <3>1, FS_EmptySet
  <2>2. \A s \in Small(0) : RHS(g, s) = 0
    BY <2>1
  <2> HIDE DEF Small
  <2>3. g = [s \in Small(0) |-> RHS(g, s)]
    BY <2>2
  <2> QED BY <2>3
<1>2. ASSUME NEW n \in P PROVE n + 1 \in P
  <2>1. PICK g : g = [s \in Small(n) |-> RHS(g, s)]
    OBVIOUS
  <2> DEFINE h == [s \in Small(n + 1) |-> RHS(g, s)]
  <2>2. \A s \in Small(n) : s \in Small(n + 1) /\ h[s] = g[s]
    <3> TAKE s \in Small(n)
    <3>1. s \in Small(n + 1)
      BY <1>s
    <3> HIDE DEF Small, RHS
    <3> QED BY <2>1, <3>1
  <2>3. \A s \in Small(n + 1) : s # {} => s \ {Pick(s)} \in Small(n)
    <3> TAKE s \in Small(n + 1)
    <3> SUFFICES ASSUME s # {} PROVE s \ {Pick(s)} \in Small(n)
      OBVIOUS
    <3>1. Pick(s) \in s /\ IsFiniteSet(s) /\ s \in SUBSET D
      BY <1>s DEF Pick
    <3>2. Cardinality(s \ {Pick(s)}) = Cardinality(s) - 1
      BY <3>1, FS_RemoveElement
    <3> QED BY <1>s, <3>1, <3>2
  <2>4. \A s \in Small(n + 1) : RHS(g, s) = RHS(h, s)
    <3> HIDE DEF h, Small
    <3> QED BY <2>2, <2>3
  <2>5. h = [s \in Small(n + 1) |-> RHS(h, s)]
    <3> HIDE DEF Small, RHS
    <3> QED BY <2>4
  <2> HIDE DEF h, RHS, Small
  <2> QED BY <2>5
<1>3. P = Nat
  <2> HIDE DEF P
  <2>0. P \in SUBSET Nat
    BY DEF P
  <2> QED BY <1>1, <1>2, <2>0, Least
<1>4. Cardinality(D) \in P
  BY <1>3, <1>c
<1>5. Small(Cardinality(D)) = SUBSET D
  BY <1>s
<1>6. \E iter : SumsTo(iter, rows, D)
  BY <1>4, <1>5 DEF SumsTo, After
<1> QED BY <1>6 DEF SumsOf

LEMMA SumPoint ==
  ASSUME NEW rows, NEW D, IsFiniteSet(D), NEW s \in SUBSET D
  PROVE  SumsOf(rows, D)[s] = After(rows, SumsOf(rows, D), s)
<1> DEFINE f == SumsOf(rows, D)
<1>1. SumsTo(f, rows, D)
  BY SumExists
<1> HIDE DEF f
<1>2. f = [t \in SUBSET D |-> After(rows, f, t)]
  BY <1>1 DEF SumsTo
<1>3. f[s] = After(rows, f, s)
  BY <1>2
<1> QED BY <1>3 DEF f

(* The sum does not depend on the set it is computed in, nor on rows that  *)
(* are not in it.                                                          *)
LEMMA SumAgrees ==
  ASSUME NEW rows, NEW others, NEW D, IsFiniteSet(D), NEW T \in SUBSET D,
         \A i \in T : rows[i].size = others[i].size
  PROVE  SumsOf(rows, D)[T] = SizeSum(others, T)
<1> DEFINE f == SumsOf(rows, D)
           g == SumsOf(others, T)
           P == {s \in SUBSET T : f[s] = g[s]}
<1>t. IsFiniteSet(T)
  BY FS_Subset
<1>0. \A s \in SUBSET T : f[s] = After(rows, f, s) /\ g[s] = After(others, g, s)
  BY <1>t, SumPoint
<1> HIDE DEF f, g
<1>1. {} \in P
  BY <1>0 DEF After
<1>2. ASSUME NEW s \in SUBSET T, s # {}, \A x \in s : s \ {x} \in P PROVE s \in P
  <2>1. Pick(s) \in s
    BY <1>2 DEF Pick
  <2>2. f[s \ {Pick(s)}] = g[s \ {Pick(s)}] /\ rows[Pick(s)].size = others[Pick(s)].size
    BY <1>2, <2>1
  <2> QED BY <1>0, <1>2, <2>2 DEF After
<1>3. P = SUBSET T
  <2> HIDE DEF P
  <2>0. P \in SUBSET SUBSET T
    BY DEF P
  <2> QED BY <1>1, <1>2, <1>t, <2>0, Subsets
<1> QED BY <1>3, SumUnfolds DEF f, g

LEMMA SumSame ==
  ASSUME NEW rows, NEW others, NEW T, IsFiniteSet(T), \A i \in T : rows[i].size = others[i].size
  PROVE  SizeSum(rows, T) = SizeSum(others, T)
BY SumAgrees, SumUnfolds

LEMMA SumOfNone == ASSUME NEW rows PROVE SizeSum(rows, {}) = 0
BY SumPoint, SumUnfolds, FS_EmptySet DEF After

(* The element that the fold takes first does not matter.                  *)
LEMMA SumSplits ==
  ASSUME NEW rows, NEW D, IsFiniteSet(D), Sized(rows, D)
  PROVE  /\ SizeSum(rows, D) \in Nat
         /\ \A x \in D : SizeSum(rows, D) = rows[x].size + SizeSum(rows, D \ {x})
<1> DEFINE f == SumsOf(rows, D)
           N == {s \in SUBSET D : f[s] \in Nat}
           P == {s \in SUBSET D : \A x \in s : f[s] = rows[x].size + f[s \ {x}]}
<1>0. \A s \in SUBSET D : f[s] = After(rows, f, s)
  BY SumPoint
<1> HIDE DEF f
<1>1. f[{}] = 0
  BY <1>0 DEF After
<1>2. ASSUME NEW s \in SUBSET D, s # {}
      PROVE  Pick(s) \in s /\ f[s] = rows[Pick(s)].size + f[s \ {Pick(s)}]
  BY <1>0, <1>2 DEF Pick, After
<1>3. \A s \in SUBSET D : f[s] \in Nat
  <2>1. ASSUME NEW s \in SUBSET D, s # {}, \A x \in s : s \ {x} \in N PROVE s \in N
    <3>1. PICK p : p = Pick(s) /\ p \in s /\ f[s] = rows[p].size + f[s \ {p}]
      BY <1>2, <2>1
    <3>2. rows[p].size \in Nat /\ f[s \ {p}] \in Nat
      BY <2>1, <3>1 DEF Sized
    <3> QED BY <3>1, <3>2
  <2>2. {} \in N /\ N \in SUBSET SUBSET D
    BY <1>1
  <2>3. N = SUBSET D
    <3> HIDE DEF N
    <3> QED BY <2>1, <2>2, Subsets
  <2> QED BY <2>3
<1>4. ASSUME NEW s \in SUBSET D, s # {}, \A x \in s : s \ {x} \in P PROVE s \in P
  <2>1. PICK p : p = Pick(s) /\ p \in s /\ f[s] = rows[p].size + f[s \ {p}]
    BY <1>2, <1>4
  <2>2. ASSUME NEW x \in s, x # p PROVE f[s] = rows[x].size + f[s \ {x}]
    <3>1. f[s \ {p}] = rows[x].size + f[(s \ {p}) \ {x}] /\ f[s \ {x}] = rows[p].size + f[(s \ {x}) \ {p}]
      BY <1>4, <2>1, <2>2
    <3>2. PICK r : r = (s \ {p}) \ {x} /\ r = (s \ {x}) \ {p} /\ r \in SUBSET D
      OBVIOUS
    <3>3. /\ rows[x].size \in Nat /\ rows[p].size \in Nat
          /\ f[s \ {x}] \in Nat /\ f[s \ {p}] \in Nat /\ f[r] \in Nat
      BY <1>3, <2>1, <3>2 DEF Sized
    <3> QED BY <2>1, <3>1, <3>2, <3>3
  <2> QED BY <2>1, <2>2
<1>5. P = SUBSET D
  <2>1. {} \in P /\ P \in SUBSET SUBSET D
    OBVIOUS
  <2> HIDE DEF P
  <2> QED BY <1>4, <2>1, Subsets
<1>6. \A x \in D : f[D \ {x}] = SizeSum(rows, D \ {x})
  BY SumAgrees DEF f
<1>7. f[D] = SizeSum(rows, D)
  BY SumUnfolds DEF f
<1> QED BY <1>3, <1>5, <1>6, <1>7

LEMMA SumAdd ==
  ASSUME NEW rows, NEW D, IsFiniteSet(D), NEW x, x \notin D, Sized(rows, D \cup {x})
  PROVE  SizeSum(rows, D \cup {x}) = rows[x].size + SizeSum(rows, D) /\ SizeSum(rows, D) \in Nat
<1>1. IsFiniteSet(D \cup {x}) /\ (D \cup {x}) \ {x} = D /\ Sized(rows, D)
  BY FS_AddElement DEF Sized
<1> QED BY <1>1, SumSplits

LEMMA SumLess ==
  ASSUME NEW rows, NEW D, IsFiniteSet(D), Sized(rows, D), NEW T \in SUBSET D
  PROVE  SizeSum(rows, T) =< SizeSum(rows, D) /\ SizeSum(rows, T) \in Nat /\ SizeSum(rows, D) \in Nat
<1> DEFINE P == {s \in SUBSET D : \A t \in SUBSET s : SizeSum(rows, t) =< SizeSum(rows, s)}
<1>n. \A s \in SUBSET D : IsFiniteSet(s) /\ Sized(rows, s) /\ SizeSum(rows, s) \in Nat
  <2>1. ASSUME NEW s \in SUBSET D PROVE IsFiniteSet(s) /\ Sized(rows, s)
    BY FS_Subset DEF Sized
  <2> QED BY <2>1, SumSplits
<1>1. {} \in P
  <2>1. SizeSum(rows, {}) \in Nat
    BY <1>n
  <2>2. \A t \in SUBSET {} : t = {}
    OBVIOUS
  <2> QED BY <2>1, <2>2
<1>2. ASSUME NEW s \in SUBSET D, s # {}, \A x \in s : s \ {x} \in P PROVE s \in P
  <2>1. ASSUME NEW t \in SUBSET s, t # s PROVE SizeSum(rows, t) =< SizeSum(rows, s)
    <3>1. PICK x \in s : x \notin t
      BY <2>1
    <3>2. SizeSum(rows, t) =< SizeSum(rows, s \ {x})
      <4>1. t \in SUBSET (s \ {x})
        BY <3>1
      <4> QED BY <1>2, <4>1
    <3>3. SizeSum(rows, s) = rows[x].size + SizeSum(rows, s \ {x}) /\ rows[x].size \in Nat
      BY <1>n, SumSplits DEF Sized
    <3>4. SizeSum(rows, t) \in Nat /\ SizeSum(rows, s \ {x}) \in Nat /\ SizeSum(rows, s) \in Nat
      BY <1>n
    <3> QED BY <3>2, <3>3, <3>4
  <2>2. SizeSum(rows, s) =< SizeSum(rows, s)
    BY <1>n
  <2> QED BY <2>1, <2>2
<1>3. P = SUBSET D
  <2>0. P \in SUBSET SUBSET D
    OBVIOUS
  <2> HIDE DEF P
  <2> QED BY <1>1, <1>2, <2>0, Subsets
<1>4. D \in P
  BY <1>3
<1> QED BY <1>4, <1>n

LEMMA SumBounded ==
  ASSUME NEW rows, NEW D, IsFiniteSet(D), Sized(rows, D), NEW largest \in Nat, \A i \in D : rows[i].size =< largest
  PROVE  SizeSum(rows, D) =< Cardinality(D) * largest
<1> DEFINE P == {s \in SUBSET D : SizeSum(rows, s) =< Cardinality(s) * largest}
<1>n. \A s \in SUBSET D : IsFiniteSet(s) /\ Sized(rows, s) /\ SizeSum(rows, s) \in Nat /\ Cardinality(s) \in Nat
  <2>1. ASSUME NEW s \in SUBSET D PROVE IsFiniteSet(s) /\ Sized(rows, s)
    BY FS_Subset DEF Sized
  <2> QED BY <2>1, SumSplits, FS_CardinalityType
<1>1. {} \in P
  <2>1. SizeSum(rows, {}) = 0 /\ Cardinality({}) = 0
    BY SumOfNone, FS_EmptySet
  <2> QED BY <2>1
<1>2. ASSUME NEW s \in SUBSET D, s # {}, \A x \in s : s \ {x} \in P PROVE s \in P
  <2>1. PICK x \in s : TRUE
    BY <1>2
  <2>2. SizeSum(rows, s) = rows[x].size + SizeSum(rows, s \ {x}) /\ rows[x].size \in Nat /\ rows[x].size =< largest
    BY <1>n, SumSplits DEF Sized
  <2>3. Cardinality(s \ {x}) = Cardinality(s) - 1
    BY <1>n, FS_RemoveElement
  <2>4. SizeSum(rows, s \ {x}) =< Cardinality(s \ {x}) * largest
    BY <1>2
  <2>5. PICK n \in Nat : Cardinality(s \ {x}) = n /\ Cardinality(s) = n + 1
    BY <1>n, <2>3
  <2>6. (n + 1) * largest = n * largest + largest /\ n * largest \in Nat
    BY <2>5
  <2>7. SizeSum(rows, s \ {x}) \in Nat
    BY <1>n
  <2>8. \A a, b, k, m \in Nat : a =< largest /\ b =< k /\ m = k + largest => a + b =< m
    OBVIOUS
  <2>9. SizeSum(rows, s) =< (n + 1) * largest
    BY <2>2, <2>4, <2>5, <2>6, <2>7, <2>8
  <2> QED BY <2>5, <2>9
<1>3. P = SUBSET D
  <2>0. P \in SUBSET SUBSET D
    OBVIOUS
  <2> HIDE DEF P
  <2> QED BY <1>1, <1>2, <2>0, Subsets
<1>4. D \in P
  BY <1>3
<1> QED BY <1>4

-----------------------------------------------------------------------------
(* Lemmas about sequences and sets of clients *)

(* A row appended leaves those before it as they were.                     *)
LEMMA Appended ==
  ASSUME NEW Elems, NEW seq \in Seq(Elems), NEW e \in Elems
  PROVE  /\ Append(seq, e) \in Seq(Elems)
         /\ DOMAIN Append(seq, e) = DOMAIN seq \cup {Len(seq) + 1} /\ Len(seq) + 1 \notin DOMAIN seq
         /\ \A i \in DOMAIN seq : Append(seq, e)[i] = seq[i]
         /\ Append(seq, e)[Len(seq) + 1] = e
BY AppendProperties

LEMMA Elements ==
  ASSUME NEW Elems, NEW seq \in Seq(Elems)
  PROVE  /\ DOMAIN seq = 1..Len(seq) /\ Len(seq) \in Nat
         /\ DOMAIN seq \subseteq Nat \ {0} /\ \A i \in DOMAIN seq : seq[i] \in Elems
OBVIOUS

LEMMA RowsFinite ==
  ASSUME NEW Elems, NEW seq \in Seq(Elems), NEW D \in SUBSET DOMAIN seq
  PROVE  IsFiniteSet(D)
<1>1. IsFiniteSet(DOMAIN seq)
  BY Elements, FS_Interval
<1> QED BY <1>1, FS_Subset

(* A function on the indices of a sequence is one too.                     *)
LEMMA Rewritten ==
  ASSUME NEW Elems, NEW seq \in Seq(Elems), NEW f \in [DOMAIN seq -> Elems]
  PROVE  f \in Seq(Elems) /\ Len(f) = Len(seq) /\ DOMAIN f = DOMAIN seq
<1>1. DOMAIN seq = 1..Len(seq) /\ Len(seq) \in Nat
  OBVIOUS
<1>2. f \in [1..Len(seq) -> Elems] /\ DOMAIN f = 1..Len(seq)
  BY <1>1
<1>3. f \in Seq(Elems)
  BY <1>1, <1>2, SeqDef
<1>4. Len(f) = Len(seq)
  BY <1>1, <1>2, <1>3, LenProperties
<1> QED BY <1>1, <1>2, <1>3, <1>4

-----------------------------------------------------------------------------
(* Types *)

Routers == {"v2", "key", "v1"}
FileRow == [owner : Users \cup {Nobody}, name : Names, size : Sizes, message : Nat,
            live : BOOLEAN, replaces : SUBSET Nat]
Mail == [message : Nat, name : Names, size : Sizes]
Upload == [at : {"checked", "sent", "found", "committed"}, path : Routers, user : Users \cup {Nobody},
           name : Names, size : Sizes, message : Nat, previous : SUBSET Nat]
Removal == [at : {"deleting", "emptied", "deleted"}, path : Routers, file : Nat]
Tasks == {Idle} \cup Upload \cup Removal

DataType ==
  /\ files \in Seq(FileRow)
  /\ chat \in SUBSET Nat /\ inbox \in SUBSET Mail
  /\ used \in [Users -> Int]
  /\ messages \in Nat /\ sums \in Nat /\ crashes \in Nat
  /\ total = Nothing \/ total.bytes \in Int

(* A request acts for a user, unless it is the administrator's, and what   *)
(* it deletes is there.                                                    *)
Sound(t) ==
  /\ t.at \in {"checked", "sent", "found", "committed"} /\ t.path # "v1" => t.user \in Users
  /\ t.at = "committed" => t.path # "v1"
  /\ t.at \in {"deleting", "emptied", "deleted"} => t.file \in DOMAIN files
  /\ t.at = "deleted" => files[t.file].owner \in Users

TypeInv ==
  /\ DataType
  /\ task \in [Clients -> Tasks]
  /\ \A c \in Clients : Sound(task[c])

LEMMA Natural ==
  /\ \A s \in Sizes : s \in Nat /\ s \in Int
  /\ \A q \in FileRow : q.size \in Sizes
  /\ \A t \in Upload : t.size \in Sizes
BY FileStoreAssumption DEF FileRow, Upload

LEMMA Places ==
  ASSUME NEW t \in Tasks
  PROVE  /\ t.at \in {"checked", "sent", "found", "committed"} => t \in Upload
         /\ t.at \in {"deleting", "emptied", "deleted"} => t \in Removal
BY DEF Tasks, Idle, Upload, Removal

LEMMA Went ==
  ASSUME TypeInv, NEW c \in Clients, NEW t \in Tasks, Goto(c, t)
  PROVE  /\ task' \in [Clients -> Tasks]
         /\ task'[c] = t
         /\ \A d \in Clients : d # c => task'[d] = task[d]
BY DEF TypeInv, Goto

(* What happens to the rows: nothing is removed and no owner changes.      *)
RowsKept ==
  /\ files' \in Seq(FileRow)
  /\ DOMAIN files \subseteq DOMAIN files'
  /\ \A i \in DOMAIN files : files'[i].owner = files[i].owner

LEMMA StillSound ==
  ASSUME TypeInv, RowsKept, NEW c \in Clients, NEW t \in Tasks, Goto(c, t), Sound(t)'
  PROVE  task' \in [Clients -> Tasks] /\ \A d \in Clients : Sound(task[d])'
<1>1. task' \in [Clients -> Tasks] /\ task'[c] = t /\ \A d \in Clients : d # c => task'[d] = task[d]
  BY Went
<1>2. ASSUME NEW d \in Clients, d # c PROVE Sound(task[d])'
  <2>1. Sound(task[d]) /\ task'[d] = task[d]
    BY <1>1, <1>2 DEF TypeInv
  <2> QED BY <2>1 DEF Sound, RowsKept
<1> QED BY <1>1, <1>2

-----------------------------------------------------------------------------
(* What each action does *)

SameUpload(s, t) == s.path = t.path /\ s.user = t.user /\ s.name = t.name /\ s.size = t.size

LEMMA Uploads ==
  ASSUME NEW t \in Upload, NEW place \in {"checked", "sent", "found", "committed"}, NEW m \in Nat, NEW D \in SUBSET Nat
  PROVE  /\ [t EXCEPT !.at = place] \in Tasks
         /\ [t EXCEPT !.at = place].at = place /\ SameUpload([t EXCEPT !.at = place], t)
         /\ [t EXCEPT !.at = place].message = t.message /\ [t EXCEPT !.at = place].previous = t.previous
         /\ [t EXCEPT !.at = place, !.message = m] \in Tasks
         /\ [t EXCEPT !.at = place, !.message = m].at = place /\ SameUpload([t EXCEPT !.at = place, !.message = m], t)
         /\ [t EXCEPT !.at = place, !.message = m].message = m
         /\ [t EXCEPT !.at = place, !.previous = D] \in Tasks
         /\ [t EXCEPT !.at = place, !.previous = D].at = place /\ SameUpload([t EXCEPT !.at = place, !.previous = D], t)
         /\ [t EXCEPT !.at = place, !.previous = D].message = t.message
         /\ [t EXCEPT !.at = place, !.previous = D].previous = D
BY DEF Upload, Tasks, SameUpload

LEMMA Removals ==
  ASSUME NEW t \in Removal, NEW place \in {"deleting", "emptied", "deleted"}
  PROVE  /\ [t EXCEPT !.at = place] \in Tasks
         /\ [t EXCEPT !.at = place].at = place /\ [t EXCEPT !.at = place].file = t.file
         /\ [t EXCEPT !.at = place].path = t.path
BY DEF Removal, Tasks

LEMMA Checked ==
  ASSUME TypeInv, NEW c \in Clients, Check(c)
  PROVE  /\ UNCHANGED <<files, chat, inbox, used, total, messages, counters>> /\ task[c].at = "idle"
         /\ \E t \in Tasks : /\ Goto(c, t) /\ t.at = "checked" /\ t.size \in Sizes
                             /\ t.path # "v1" => t.user \in Users /\ used[t.user] + t.size =< Quota
<1>1. PICK path \in Paths, u \in Users \cup {Nobody}, n \in Names, s \in Sizes :
        /\ Serves(path, u)
        /\ path # "v1" => Fits(u, s)
        /\ Goto(c, [at |-> "checked", path |-> path, user |-> u, name |-> n, size |-> s,
                    message |-> 0, previous |-> {}])
  BY DEF Check
<1>2. PICK t : t = [at |-> "checked", path |-> path, user |-> u, name |-> n, size |-> s, message |-> 0, previous |-> {}]
  OBVIOUS
<1>3. t \in Tasks /\ t.at = "checked" /\ t.size = s /\ t.path = path /\ t.user = u
  <2>1. path \in Routers
    BY FileStoreAssumption DEF Routers
  <2> QED BY <1>2, <2>1 DEF Tasks, Upload
<1>4. path # "v1" => u \in Users /\ used[u] + s =< Quota
  BY <1>1, FileStoreAssumption DEF Serves, Fits
<1> QED BY <1>1, <1>2, <1>3, <1>4 DEF Check, At

LEMMA HasSent ==
  ASSUME TypeInv, NEW c \in Clients, Send(c)
  PROVE  /\ UNCHANGED <<files, inbox, used, total, counters>> /\ task[c].at = "checked"
         /\ messages' = messages + 1 /\ chat' = chat \cup {messages + 1}
         /\ \E t \in Tasks : Goto(c, t) /\ t.at = "sent" /\ t.message = messages + 1 /\ SameUpload(t, task[c])
<1>1. task[c] \in Upload /\ messages + 1 \in Nat
  BY Places DEF TypeInv, DataType, Send, At
<1>2. Goto(c, [task[c] EXCEPT !.at = "sent", !.message = messages + 1])
  BY DEF Send
<1>3. PICK t : t = [task[c] EXCEPT !.at = "sent", !.message = messages + 1]
  OBVIOUS
<1>4. t \in Tasks /\ t.at = "sent" /\ t.message = messages + 1 /\ SameUpload(t, task[c])
  BY <1>1, <1>3 DEF Upload, Tasks, SameUpload
<1> QED BY <1>2, <1>3, <1>4 DEF Send, At

LEMMA Found ==
  ASSUME TypeInv, NEW c \in Clients, FindPrevious(c)
  PROVE  /\ UNCHANGED <<files, chat, inbox, used, total, messages, counters>> /\ task[c].at = "sent"
         /\ \/ Goto(c, Idle)
            \/ \E t \in Tasks : Goto(c, t) /\ t.at = "found" /\ t.message = task[c].message /\ SameUpload(t, task[c])
<1>1. task[c] \in Upload
  BY Places DEF TypeInv, FindPrevious, At
<1> DEFINE D == IF task[c].path = "v1" THEN {} ELSE SameName(task[c])
           P == {i \in D : MayTouch(task[c].path, task[c].user, files[i])}
<1>2. Goto(c, IF \E i, j \in D : i # j THEN Idle ELSE [task[c] EXCEPT !.at = "found", !.previous = P])
  BY DEF FindPrevious
<1>3. P \in SUBSET Nat
  BY Elements DEF SameName, Live, TypeInv, DataType
<1> HIDE DEF P, D
<1>4. Goto(c, Idle) \/ Goto(c, [task[c] EXCEPT !.at = "found", !.previous = P])
  BY <1>2
<1>5. PICK t : t = [task[c] EXCEPT !.at = "found", !.previous = P]
  OBVIOUS
<1>6. t \in Tasks /\ t.at = "found" /\ t.message = task[c].message /\ SameUpload(t, task[c])
  BY <1>1, <1>3, <1>5 DEF Upload, Tasks, SameUpload
<1> QED BY <1>4, <1>5, <1>6 DEF FindPrevious, At

(* A commit keeps every row but for the versions it supersedes.            *)
Commits(t) ==
  /\ RowsKept
  /\ DOMAIN files' = DOMAIN files \cup {Len(files) + 1} /\ Len(files) + 1 \notin DOMAIN files
  /\ \A i \in DOMAIN files :
       /\ files'[i].message = files[i].message /\ files'[i].name = files[i].name /\ files'[i].size = files[i].size
       /\ files'[i].replaces = files[i].replaces
       /\ files'[i].live = (files[i].live /\ i \notin t.previous)
  /\ files'[Len(files) + 1] = NewRow(t)

LEMMA Row0 ==
  ASSUME NEW t \in Upload
  PROVE  /\ NewRow(t) \in FileRow
         /\ NewRow(t).owner = t.user /\ NewRow(t).name = t.name /\ NewRow(t).size = t.size
         /\ NewRow(t).message = t.message /\ NewRow(t).live = TRUE /\ NewRow(t).replaces = t.previous
BY DEF NewRow, FileRow, Upload

LEMMA Superseding ==
  ASSUME NEW rows \in Seq(FileRow), NEW D
  PROVE  /\ Supersede(rows, D) \in Seq(FileRow) /\ Len(Supersede(rows, D)) = Len(rows)
         /\ DOMAIN Supersede(rows, D) = DOMAIN rows
         /\ \A i \in DOMAIN rows :
              /\ Supersede(rows, D)[i].owner = rows[i].owner /\ Supersede(rows, D)[i].message = rows[i].message
              /\ Supersede(rows, D)[i].name = rows[i].name /\ Supersede(rows, D)[i].size = rows[i].size
              /\ Supersede(rows, D)[i].replaces = rows[i].replaces
              /\ Supersede(rows, D)[i].live = (rows[i].live /\ i \notin D)
<1>1. \A i \in DOMAIN rows : rows[i] \in FileRow
  OBVIOUS
<1>2. \A q \in FileRow : /\ [q EXCEPT !.live = FALSE] \in FileRow /\ [q EXCEPT !.live = FALSE].owner = q.owner
                         /\ [q EXCEPT !.live = FALSE].message = q.message /\ [q EXCEPT !.live = FALSE].name = q.name
                         /\ [q EXCEPT !.live = FALSE].size = q.size /\ [q EXCEPT !.live = FALSE].replaces = q.replaces
                         /\ [q EXCEPT !.live = FALSE].live = FALSE
  BY DEF FileRow
<1>3. Supersede(rows, D) \in [DOMAIN rows -> FileRow]
  BY <1>1, <1>2 DEF Supersede
<1>4. \A i \in DOMAIN rows : Supersede(rows, D)[i] = IF i \in D THEN [rows[i] EXCEPT !.live = FALSE] ELSE rows[i]
  BY DEF Supersede
<1>5. \A q \in FileRow : q.live \in BOOLEAN
  BY DEF FileRow
<1>6. Supersede(rows, D) \in Seq(FileRow) /\ Len(Supersede(rows, D)) = Len(rows) /\ DOMAIN Supersede(rows, D) = DOMAIN rows
  BY <1>3, Rewritten
<1>7. ASSUME NEW i \in DOMAIN rows
      PROVE  /\ Supersede(rows, D)[i].owner = rows[i].owner /\ Supersede(rows, D)[i].message = rows[i].message
             /\ Supersede(rows, D)[i].name = rows[i].name /\ Supersede(rows, D)[i].size = rows[i].size
             /\ Supersede(rows, D)[i].replaces = rows[i].replaces
             /\ Supersede(rows, D)[i].live = (rows[i].live /\ i \notin D)
  <2>1. CASE i \in D
    <3>1. PICK q \in FileRow : q = rows[i]
      BY <1>1
    <3>2. Supersede(rows, D)[i] = [q EXCEPT !.live = FALSE]
      BY <1>4, <2>1, <3>1
    <3> QED BY <1>2, <2>1, <3>1, <3>2
  <2>2. CASE i \notin D
    <3>1. Supersede(rows, D)[i] = rows[i] /\ rows[i].live \in BOOLEAN
      BY <1>1, <1>4, <1>5, <2>2
    <3> QED BY <2>2, <3>1
  <2> QED BY <2>1, <2>2
<1> QED BY <1>6, <1>7

LEMMA Committing ==
  ASSUME DataType, NEW t \in Upload, files' = Append(Supersede(files, t.previous), NewRow(t))
  PROVE  Commits(t)
<1>1. NewRow(t) \in FileRow /\ files \in Seq(FileRow)
  BY Row0 DEF DataType
<1>2. PICK rows : rows = Supersede(files, t.previous)
  OBVIOUS
<1>3. /\ rows \in Seq(FileRow) /\ Len(rows) = Len(files) /\ DOMAIN rows = DOMAIN files
      /\ \A i \in DOMAIN files :
           /\ rows[i].owner = files[i].owner /\ rows[i].message = files[i].message
           /\ rows[i].name = files[i].name /\ rows[i].size = files[i].size
           /\ rows[i].replaces = files[i].replaces
           /\ rows[i].live = (files[i].live /\ i \notin t.previous)
  BY <1>1, <1>2, Superseding
<1>4. /\ files' \in Seq(FileRow) /\ DOMAIN files' = DOMAIN files \cup {Len(files) + 1} /\ Len(files) + 1 \notin DOMAIN files
      /\ \A i \in DOMAIN files : files'[i] = rows[i]
      /\ files'[Len(files) + 1] = NewRow(t)
  BY <1>1, <1>2, <1>3, Appended
<1> QED BY <1>3, <1>4 DEF Commits, RowsKept

LEMMA HasCommitted ==
  ASSUME TypeInv, NEW c \in Clients, CommitRow(c)
  PROVE  /\ UNCHANGED <<chat, inbox, used, total, messages, counters>> /\ task[c].at = "found"
         /\ Commits(task[c]) /\ task[c] \in Upload
         /\ \/ Goto(c, Idle)
            \/ \E t \in Tasks : Goto(c, t) /\ t.at = "committed" /\ t.path # "v1" /\ SameUpload(t, task[c])
<1>1. task[c] \in Upload
  BY Places DEF TypeInv, CommitRow, At
<1>2. Commits(task[c])
  BY <1>1, Committing DEF CommitRow, TypeInv
<1>3. Goto(c, Idle) \/ (task[c].path # "v1" /\ Goto(c, [task[c] EXCEPT !.at = "committed"]))
  BY DEF CommitRow
<1>4. [task[c] EXCEPT !.at = "committed"] \in Tasks /\ [task[c] EXCEPT !.at = "committed"].at = "committed"
      /\ SameUpload([task[c] EXCEPT !.at = "committed"], task[c])
  BY ZenonT(60), <1>1, Uploads
<1>5. \A s : SameUpload(s, task[c]) => s.path = task[c].path
  BY DEF SameUpload
<1> QED BY <1>1, <1>2, <1>3, <1>4, <1>5 DEF CommitRow, At

LEMMA HasFoundFile ==
  ASSUME TypeInv, NEW c \in Clients, FindFile(c)
  PROVE  /\ UNCHANGED <<files, chat, inbox, used, total, messages, counters>> /\ task[c].at = "idle"
         /\ \E t \in Tasks : Goto(c, t) /\ t.at = "deleting" /\ t.file \in Live
<1>1. PICK path \in Paths, i \in Live : Goto(c, [at |-> "deleting", path |-> path, file |-> i])
  BY DEF FindFile, Deletable
<1>2. path \in Routers /\ i \in Nat
  BY FileStoreAssumption, Elements DEF Routers, Live, TypeInv, DataType
<1>3. PICK t : t = [at |-> "deleting", path |-> path, file |-> i]
  OBVIOUS
<1>4. t \in Tasks /\ t.at = "deleting" /\ t.file = i
  BY <1>2, <1>3 DEF Tasks, Removal
<1> QED BY <1>1, <1>3, <1>4 DEF FindFile, At

LEMMA Emptied ==
  ASSUME TypeInv, NEW c \in Clients, DeleteMessage(c) \/ DeleteMessageFails(c)
  PROVE  /\ UNCHANGED <<files, inbox, used, total, messages, sums, crashes>> /\ task[c].at = "deleting"
         /\ chat' = chat \/ chat' = chat \ {files[task[c].file].message}
         /\ \E t \in Tasks : Goto(c, t) /\ t.at = "emptied" /\ t.file = task[c].file
<1>1. task[c] \in Removal /\ task[c].at = "deleting"
  BY Places DEF TypeInv, DeleteMessage, DeleteMessageFails, At
<1>2. Goto(c, [task[c] EXCEPT !.at = "emptied"])
  BY DEF DeleteMessage, DeleteMessageFails
<1> QED BY <1>1, <1>2, Removals DEF DeleteMessage, DeleteMessageFails, counters

(* One row of the table rewritten, its owner and message kept.             *)
Rewrites(i) ==
  /\ RowsKept /\ DOMAIN files' = DOMAIN files /\ Len(files') = Len(files)
  /\ \A j \in DOMAIN files : /\ files'[j].message = files[j].message /\ files'[j].size = files[j].size
                             /\ files'[j].replaces = files[j].replaces
                             /\ j # i => files'[j] = files[j]

LEMMA Rewriting ==
  ASSUME DataType, NEW i \in DOMAIN files, NEW q \in FileRow, files' = [files EXCEPT ![i] = q],
         q.owner = files[i].owner, q.message = files[i].message, q.size = files[i].size, q.replaces = files[i].replaces
  PROVE  Rewrites(i) /\ files'[i] = q
<1>1. files \in Seq(FileRow)
  BY DEF DataType
<1>2. files' \in Seq(FileRow) /\ Len(files') = Len(files) /\ DOMAIN files' = DOMAIN files
      /\ \A j \in DOMAIN files : files'[j] = IF j = i THEN q ELSE files[j]
  BY <1>1, ExceptSeq
<1> QED BY <1>2 DEF Rewrites, RowsKept

LEMMA RowDeleting ==
  ASSUME DataType, NEW i \in DOMAIN files, files' = [files EXCEPT ![i].live = FALSE]
  PROVE  Rewrites(i) /\ files'[i].live = FALSE /\ files'[i].name = files[i].name
<1>1. files[i] \in FileRow
  BY DEF DataType
<1>2. PICK q : q = [files[i] EXCEPT !.live = FALSE]
  OBVIOUS
<1>3. q \in FileRow /\ q.owner = files[i].owner /\ q.message = files[i].message /\ q.size = files[i].size
      /\ q.replaces = files[i].replaces /\ q.live = FALSE /\ q.name = files[i].name
  BY <1>1, <1>2 DEF FileRow
<1>4. files' = [files EXCEPT ![i] = q]
  BY <1>2
<1>5. Rewrites(i) /\ files'[i] = q
  BY <1>3, <1>4, Rewriting
<1> QED BY <1>3, <1>5

LEMMA HasDeletedRow ==
  ASSUME TypeInv, NEW c \in Clients, DeleteRow(c)
  PROVE  /\ UNCHANGED <<chat, inbox, used, total, messages, counters>> /\ task[c].at = "emptied"
         /\ task[c].file \in DOMAIN files
         /\ Rewrites(task[c].file) /\ files'[task[c].file].live = FALSE
         /\ \/ Goto(c, Idle)
            \/ \E t \in Tasks : /\ Goto(c, t) /\ t.at = "deleted" /\ t.file = task[c].file
                                /\ files[t.file].owner \in Users
<1>1. task[c] \in Removal /\ task[c].at = "emptied" /\ task[c].file \in DOMAIN files
  BY Places DEF TypeInv, Sound, DeleteRow, At
<1>2. PICK i : i = task[c].file
  OBVIOUS
<1>3. files' = [files EXCEPT ![i].live = FALSE]
  BY <1>2 DEF DeleteRow
<1>4. Rewrites(i) /\ files'[i].live = FALSE
  BY <1>1, <1>2, <1>3, RowDeleting DEF TypeInv
<1>5. Goto(c, Idle) \/ (files[i].owner # Nobody /\ Goto(c, [task[c] EXCEPT !.at = "deleted"]))
  BY <1>2 DEF DeleteRow
<1>6. files[i].owner # Nobody => files[i].owner \in Users
  <2>1. files[i] \in FileRow
    BY <1>1, <1>2 DEF TypeInv, DataType
  <2> QED BY <2>1 DEF FileRow
<1>7. UNCHANGED <<chat, inbox, used, total, messages, counters>>
  BY DEF DeleteRow
<1> QED BY <1>1, <1>2, <1>4, <1>5, <1>6, <1>7, Removals

LEMMA Renaming ==
  ASSUME TypeInv, NEW i \in Live, NEW n \in Names, Rename(i, n)
  PROVE  /\ UNCHANGED <<chat, inbox, used, task, total, messages, sums, crashes>>
         /\ Rewrites(i) /\ files'[i].live = files[i].live
<1>1. i \in DOMAIN files /\ files[i] \in FileRow
  BY DEF TypeInv, DataType, Live
<1>2. PICK q : q = [files[i] EXCEPT !.name = n]
  OBVIOUS
<1>3. q \in FileRow /\ q.owner = files[i].owner /\ q.message = files[i].message /\ q.size = files[i].size
      /\ q.replaces = files[i].replaces /\ q.live = files[i].live
  BY <1>1, <1>2 DEF FileRow
<1>4. files' = [files EXCEPT ![i] = q]
  BY <1>2 DEF Rename
<1>5. Rewrites(i) /\ files'[i] = q
  BY <1>1, <1>3, <1>4, Rewriting DEF TypeInv
<1> QED BY <1>3, <1>5 DEF Rename

LEMMA Ingesting ==
  ASSUME TypeInv, Ingest
  PROVE  /\ UNCHANGED <<chat, used, task, total, messages, counters>>
         /\ RowsKept
         /\ \E m \in inbox :
              /\ inbox' = inbox \ {m}
              /\ DOMAIN files' = DOMAIN files \cup {Len(files) + 1} /\ Len(files) + 1 \notin DOMAIN files
              /\ \A i \in DOMAIN files : files'[i] = files[i]
              /\ files'[Len(files) + 1].message = m.message
<1>1. PICK m \in inbox :
        /\ inbox' = inbox \ {m}
        /\ files' = Append(files, [owner |-> Nobody, name |-> m.name, size |-> m.size,
                                   message |-> m.message, live |-> TRUE, replaces |-> {}])
  BY DEF Ingest
<1>2. PICK q : q = [owner |-> Nobody, name |-> m.name, size |-> m.size, message |-> m.message, live |-> TRUE, replaces |-> {}]
  OBVIOUS
<1>3. q \in FileRow /\ q.message = m.message
  BY <1>2 DEF TypeInv, DataType, Mail, FileRow
<1>4. /\ files' \in Seq(FileRow) /\ DOMAIN files' = DOMAIN files \cup {Len(files) + 1} /\ Len(files) + 1 \notin DOMAIN files
      /\ \A i \in DOMAIN files : files'[i] = files[i]
      /\ files'[Len(files) + 1] = q
  BY <1>1, <1>2, <1>3, Appended DEF TypeInv, DataType
<1> QED BY <1>1, <1>3, <1>4 DEF RowsKept, Ingest

-----------------------------------------------------------------------------
(* Types, step by step *)

LEMMA LiveSized ==
  ASSUME DataType, NEW D \in SUBSET DOMAIN files
  PROVE  IsFiniteSet(D) /\ Sized(files, D)
<1>1. files \in Seq(FileRow)
  BY DEF DataType
<1>2. \A i \in DOMAIN files : files[i].size \in Nat
  <2>1. \A i \in DOMAIN files : files[i] \in FileRow
    BY <1>1
  <2> QED BY <2>1, Natural
<1> QED BY <1>1, <1>2, RowsFinite DEF Sized

LEMMA Counting ==
  ASSUME NEW f \in [Users -> Int], NEW u, NEW n \in Int
  PROVE  [f EXCEPT ![u] = @ + n] \in [Users -> Int] /\ [f EXCEPT ![u] = @ - n] \in [Users -> Int]
<1>1. CASE u \in Users
  <2>1. f[u] + n \in Int /\ f[u] - n \in Int
    BY <1>1
  <2> QED BY <2>1
<1>2. CASE u \notin Users
  BY <1>2
<1> QED BY <1>1, <1>2

LEMMA TypeInit == Init => TypeInv
BY DEF Init, TypeInv, DataType, Tasks, Idle, Sound

LEMMA TypeStep ==
  ASSUME TypeInv, Next
  PROVE  TypeInv'
<1>0. Idle \in Tasks /\ Idle.at = "idle" /\ Sound(Idle)'
  BY DEF Tasks, Idle, Sound
<1>1. UNCHANGED files => RowsKept
  BY DEF RowsKept, TypeInv, DataType
<1>2. ASSUME NEW c \in Clients, NEW t \in Tasks, Goto(c, t), RowsKept, Sound(t)', DataType' PROVE TypeInv'
  BY <1>2, StillSound DEF TypeInv
<1>3. ASSUME RowsKept, UNCHANGED task, DataType' PROVE TypeInv'
  BY <1>3 DEF TypeInv, RowsKept, Sound
<1>4. ASSUME RowsKept, UNCHANGED <<inbox, used, total, messages, sums, crashes>>, chat' \subseteq chat PROVE DataType'
  BY <1>4 DEF TypeInv, DataType, RowsKept
<1>5. \A c \in Clients : task[c] \in Tasks /\ Sound(task[c])
  BY DEF TypeInv
<1>6. \A s, t : SameUpload(s, t) /\ s.at \in {"sent", "found"} /\ t.at \in {"checked", "sent"} /\ Sound(t) => Sound(s)'
  BY DEF SameUpload, Sound
<1>11. ASSUME NEW c \in Clients, Check(c) PROVE TypeInv'
  <2>1. /\ UNCHANGED <<files, chat, inbox, used, total, messages, counters>>
        /\ \E t \in Tasks : Goto(c, t) /\ t.at = "checked" /\ (t.path # "v1" => t.user \in Users)
    BY <1>11, Checked
  <2>2. DataType' /\ RowsKept
    BY <1>1, <1>4, <2>1 DEF counters
  <2> QED BY <1>2, <2>1, <2>2 DEF Sound
<1>12. ASSUME NEW c \in Clients, Send(c) PROVE TypeInv'
  <2>1. /\ UNCHANGED <<files, inbox, used, total, counters>> /\ task[c].at = "checked"
        /\ messages' = messages + 1 /\ chat' = chat \cup {messages + 1}
    BY <1>12, HasSent
  <2>2. PICK t \in Tasks : Goto(c, t) /\ t.at = "sent" /\ SameUpload(t, task[c])
    BY <1>12, HasSent
  <2>3. DataType' /\ RowsKept
    BY <1>1, <2>1 DEF TypeInv, DataType, counters
  <2> QED BY <1>2, <1>5, <1>6, <2>1, <2>2, <2>3
<1>13. ASSUME NEW c \in Clients, SendFails(c) PROVE TypeInv'
  <2>1. /\ UNCHANGED <<files, inbox, used, total, crashes, sums>> /\ Goto(c, Idle)
        /\ UNCHANGED <<chat, messages>> \/ (messages' = messages + 1 /\ chat' = chat \cup {messages + 1})
    BY <1>13 DEF SendFails
  <2>2. messages' \in Nat /\ chat' \in SUBSET Nat
    <3>1. messages + 1 \in Nat /\ messages \in Nat /\ chat \in SUBSET Nat
      BY DEF TypeInv, DataType
    <3> QED BY <2>1, <3>1
  <2>3. DataType' /\ RowsKept
    BY <1>1, <2>1, <2>2 DEF TypeInv, DataType
  <2> QED BY <1>0, <1>2, <2>1, <2>3
<1>14. ASSUME NEW c \in Clients, FindPrevious(c) PROVE TypeInv'
  <2>1. /\ UNCHANGED <<files, chat, inbox, used, total, messages, counters>> /\ task[c].at = "sent"
        /\ \/ Goto(c, Idle)
           \/ \E t \in Tasks : Goto(c, t) /\ t.at = "found" /\ SameUpload(t, task[c])
    BY <1>14, Found
  <2>2. DataType' /\ RowsKept
    BY <1>1, <1>4, <2>1 DEF counters
  <2> QED BY <1>0, <1>2, <1>5, <1>6, <2>1, <2>2
<1>15. ASSUME NEW c \in Clients, CommitRow(c) PROVE TypeInv'
  <2>1. /\ UNCHANGED <<chat, inbox, used, total, messages, counters>> /\ task[c].at = "found"
        /\ RowsKept
        /\ \/ Goto(c, Idle)
           \/ \E t \in Tasks : Goto(c, t) /\ t.at = "committed" /\ t.path # "v1" /\ SameUpload(t, task[c])
    BY <1>15, HasCommitted DEF Commits
  <2>2. DataType'
    BY <1>4, <2>1 DEF counters
  <2>3. \A t : t.at = "committed" /\ t.path # "v1" /\ SameUpload(t, task[c]) => Sound(t)'
    BY <1>5, <2>1 DEF SameUpload, Sound
  <2> QED BY <1>0, <1>2, <2>1, <2>2, <2>3
<1>16. ASSUME NEW c \in Clients, Charge(c) \/ Release(c) PROVE TypeInv'
  <2>1. UNCHANGED <<files, chat, inbox, total, messages, counters>> /\ Goto(c, Idle)
    BY <1>16 DEF Charge, Release
  <2>2. used' \in [Users -> Int]
    <3>1. CASE Charge(c)
      <4>1. task[c] \in Upload
        BY <1>5, <3>1, Places DEF Charge, At
      <4>2. PICK n, u : n \in Int /\ n = task[c].size /\ u = task[c].user
        BY <4>1, Natural
      <4>3. used' = [used EXCEPT ![u] = @ + n]
        BY <3>1, <4>2 DEF Charge
      <4> QED BY <4>2, <4>3, Counting DEF TypeInv, DataType
    <3>2. CASE Release(c)
      <4>1. files[task[c].file] \in FileRow
        BY <1>5, <3>2 DEF Release, At, Sound, TypeInv, DataType
      <4>2. PICK n, u : n \in Int /\ n = files[task[c].file].size /\ u = files[task[c].file].owner
        BY <4>1, Natural
      <4>3. used' = [used EXCEPT ![u] = @ - n]
        BY <3>2, <4>2 DEF Release
      <4> QED BY <4>2, <4>3, Counting DEF TypeInv, DataType
    <3> QED BY <1>16, <3>1, <3>2
  <2>3. DataType' /\ RowsKept
    BY <1>1, <2>1, <2>2 DEF TypeInv, DataType, counters
  <2> QED BY <1>0, <1>2, <2>1, <2>3
<1>17. ASSUME NEW c \in Clients, FindFile(c) PROVE TypeInv'
  <2>1. /\ UNCHANGED <<files, chat, inbox, used, total, messages, counters>>
        /\ \E t \in Tasks : Goto(c, t) /\ t.at = "deleting" /\ t.file \in Live
    BY <1>17, HasFoundFile
  <2>2. DataType' /\ RowsKept
    BY <1>1, <1>4, <2>1 DEF counters
  <2> QED BY <1>2, <2>1, <2>2 DEF Sound, Live
<1>18. ASSUME NEW c \in Clients, DeleteMessage(c) \/ DeleteMessageFails(c) PROVE TypeInv'
  <2>1. /\ UNCHANGED <<files, inbox, used, total, messages, sums, crashes>> /\ task[c].at = "deleting"
        /\ chat' \subseteq chat
        /\ \E t \in Tasks : Goto(c, t) /\ t.at = "emptied" /\ t.file = task[c].file
    BY <1>18, Emptied
  <2>2. DataType' /\ RowsKept
    BY <1>1, <1>4, <2>1
  <2>3. task[c].file \in DOMAIN files
    BY <1>5, <2>1 DEF Sound
  <2> QED BY <1>2, <2>1, <2>2, <2>3 DEF Sound
<1>19. ASSUME NEW c \in Clients, DeleteRow(c) PROVE TypeInv'
  <2>1. /\ UNCHANGED <<chat, inbox, used, total, messages, counters>>
        /\ task[c].file \in DOMAIN files /\ Rewrites(task[c].file)
        /\ \/ Goto(c, Idle)
           \/ \E t \in Tasks : /\ Goto(c, t) /\ t.at = "deleted" /\ t.file = task[c].file
                               /\ files[t.file].owner \in Users
    BY <1>19, HasDeletedRow
  <2>2. DataType' /\ RowsKept
    BY <1>4, <2>1 DEF counters, Rewrites
  <2> QED BY <1>0, <1>2, <2>1, <2>2 DEF Sound, RowsKept
<1>20. ASSUME NEW i \in Live, NEW n \in Names, Rename(i, n) PROVE TypeInv'
  <2>1. /\ UNCHANGED <<chat, inbox, used, task, total, messages, sums, crashes>> /\ RowsKept
    BY <1>20, Renaming DEF Rewrites
  <2> QED BY <1>3, <1>4, <2>1
<1>21. ASSUME DropDocument PROVE TypeInv'
  <2>1. /\ UNCHANGED <<files, used, task, total, sums, crashes>>
        /\ messages' = messages + 1 /\ chat' = chat \cup {messages + 1}
        /\ \E n \in Names, s \in Sizes : inbox' = inbox \cup {[message |-> messages + 1, name |-> n, size |-> s]}
    BY <1>21 DEF DropDocument
  <2>2. messages + 1 \in Nat
    BY DEF TypeInv, DataType
  <2>3. inbox' \in SUBSET Mail
    BY <2>1, <2>2 DEF Mail, TypeInv, DataType
  <2>4. DataType' /\ RowsKept
    BY <1>1, <2>1, <2>2, <2>3 DEF TypeInv, DataType
  <2> QED BY <1>3, <2>1, <2>4
<1>22. ASSUME Ingest PROVE TypeInv'
  <2>1. UNCHANGED <<chat, used, task, total, messages, counters>> /\ RowsKept /\ inbox' \subseteq inbox
    BY <1>22, Ingesting
  <2>2. DataType'
    BY <2>1 DEF TypeInv, DataType, RowsKept, counters
  <2> QED BY <1>3, <2>1, <2>2
<1>23. ASSUME NEW u \in Users, SumUp(u) PROVE TypeInv'
  <2>1. UNCHANGED <<files, chat, inbox, used, task, messages, crashes>> /\ sums' = sums + 1
    BY <1>23 DEF SumUp
  <2>2. PICK D : D = Live \cap OwnedBy(u)
    OBVIOUS
  <2>3. total' = [user |-> u, bytes |-> SizeSum(files, D)]
    BY <1>23, <2>2 DEF SumUp, Bytes, SizeSum
  <2>4. IsFiniteSet(D) /\ Sized(files, D)
    BY <2>2, LiveSized DEF Live, TypeInv
  <2>5. total'.bytes \in Int
    BY <2>3, <2>4, SumSplits
  <2>6. DataType'
    BY <2>1, <2>5 DEF TypeInv, DataType
  <2> QED BY <1>1, <1>3, <2>1, <2>6
<1>24. ASSUME Recompute PROVE TypeInv'
  <2>1. UNCHANGED <<files, chat, inbox, task, messages, counters>> /\ total' = Nothing /\ total # Nothing
        /\ used' = [used EXCEPT ![total.user] = total.bytes]
    BY <1>24 DEF Recompute
  <2>2. DataType'
    BY <2>1 DEF TypeInv, DataType, counters
  <2> QED BY <1>1, <1>3, <2>1, <2>2
<1>25. ASSUME Crash PROVE TypeInv'
  <2>1. UNCHANGED <<files, chat, used, total, messages, sums>> /\ crashes' = crashes + 1 /\ inbox' = {}
        /\ task' = [c \in Clients |-> Idle]
    BY <1>25 DEF Crash
  <2>2. DataType' /\ task' \in [Clients -> Tasks]
    BY <1>0, <2>1 DEF TypeInv, DataType
  <2> QED BY <1>0, <2>1, <2>2 DEF TypeInv
<1> QED BY <1>11, <1>12, <1>13, <1>14, <1>15, <1>16, <1>17, <1>18, <1>19, <1>20, <1>21, <1>22, <1>23, <1>24, <1>25
        DEF Next

-----------------------------------------------------------------------------
(* What is listed is stored *)

InFlight(c) == task[c].at \in {"sent", "found"}

(* A message belongs to one row, one upload or one event, and it is in the *)
(* chat as long as an upload or an event has it in hand: so the message    *)
(* that a deletion takes away is that of its own row.                      *)
Distinct ==
  /\ \A i \in DOMAIN files : files[i].message =< messages
  /\ \A i, j \in DOMAIN files : files[i].message = files[j].message => i = j
  /\ \A c \in Clients : InFlight(c) =>
       /\ task[c].message \in chat /\ task[c].message =< messages
       /\ \A i \in DOMAIN files : files[i].message # task[c].message
  /\ \A c, d \in Clients : InFlight(c) /\ InFlight(d) /\ task[c].message = task[d].message => c = d
  /\ \A m \in inbox :
       /\ m.message \in chat /\ m.message =< messages
       /\ \A i \in DOMAIN files : files[i].message # m.message
       /\ \A c \in Clients : InFlight(c) => task[c].message # m.message
  /\ \A m, n \in inbox : m.message = n.message => m = n

SameRows == DOMAIN files' = DOMAIN files /\ \A i \in DOMAIN files : files'[i].message = files[i].message

LEMMA Numbers ==
  ASSUME TypeInv
  PROVE  /\ messages \in Nat
         /\ \A i \in DOMAIN files : files[i].message \in Nat /\ files[i].live \in BOOLEAN
         /\ \A c \in Clients : InFlight(c) => task[c].message \in Nat
         /\ \A m \in inbox : m.message \in Nat
<1>1. \A i \in DOMAIN files : files[i] \in FileRow
  BY DEF TypeInv, DataType
<1>2. \A c \in Clients : InFlight(c) => task[c] \in Upload
  BY Places DEF TypeInv, InFlight
<1>3. \A m \in inbox : m \in Mail
  BY DEF TypeInv, DataType
<1>4. messages \in Nat
  BY DEF TypeInv, DataType
<1>5. \A i \in DOMAIN files : files[i].message \in Nat /\ files[i].live \in BOOLEAN
  BY <1>1 DEF FileRow
<1>6. \A c \in Clients : InFlight(c) => task[c].message \in Nat
  BY <1>2 DEF Upload
<1>7. \A m \in inbox : m.message \in Nat
  BY <1>3 DEF Mail
<1> QED BY <1>4, <1>5, <1>6, <1>7

LEMMA StillDistinct ==
  ASSUME TypeInv, Distinct, SameRows, inbox' \subseteq inbox,
         messages' = messages \/ messages' = messages + 1,
         \A c \in Clients : InFlight(c)' => InFlight(c) /\ task'[c].message = task[c].message,
         \A c \in Clients : InFlight(c)' => task[c].message \in chat',
         \A m \in inbox' : m.message \in chat'
  PROVE  Distinct'
<1>1. \A n \in Nat : n =< messages => n =< messages'
  BY Numbers
<1> QED BY <1>1, Numbers DEF Distinct, SameRows

LEMMA StillListed ==
  ASSUME TypeInv, ListedIsStored, SameRows, \A i \in DOMAIN files : files'[i].live => files[i].live,
         UNCHANGED crashes, chat \subseteq chat',
         \A c \in Clients : task[c].at = "emptied" => task'[c] = task[c]
  PROVE  ListedIsStored'
BY DEF ListedIsStored, SameRows, Live, At

(* A step of one request that is neither sending nor emptying.             *)
LEMMA Elsewhere ==
  ASSUME TypeInv, NEW c \in Clients, NEW t \in Tasks, Goto(c, t),
         t.at \in {"sent", "found"} => InFlight(c) /\ t.message = task[c].message
  PROVE  /\ \A d \in Clients : InFlight(d)' => InFlight(d) /\ task'[d].message = task[d].message
         /\ task[c].at # "emptied" => \A d \in Clients : task[d].at = "emptied" => task'[d] = task[d]
<1>1. task'[c] = t /\ \A d \in Clients : d # c => task'[d] = task[d]
  BY Went
<1> QED BY <1>1 DEF InFlight

LEMMA MessagesStep ==
  ASSUME TypeInv, Distinct, ListedIsStored, Next
  PROVE  Distinct' /\ ListedIsStored'
<1>0. Idle \in Tasks /\ Idle.at = "idle"
  BY DEF Tasks, Idle
<1>s. UNCHANGED files => SameRows /\ \A i \in DOMAIN files : files'[i].live => files[i].live
  BY DEF SameRows
<1>f. \A c \in Clients : InFlight(c) => task[c].message \in chat
  BY DEF Distinct
<1>i. \A m \in inbox : m.message \in chat
  BY DEF Distinct
<1>1. ASSUME UNCHANGED <<files, inbox, crashes>>, chat \subseteq chat', messages' = messages \/ messages' = messages + 1,
             NEW c \in Clients, NEW t \in Tasks, Goto(c, t), task[c].at # "emptied",
             t.at \in {"sent", "found"} => InFlight(c) /\ t.message = task[c].message
      PROVE  Distinct' /\ ListedIsStored'
  <2>1. Distinct'
    BY <1>1, <1>f, <1>i, <1>s, Elsewhere, StillDistinct
  <2>2. ListedIsStored'
    BY <1>1, <1>s, Elsewhere, StillListed
  <2> QED BY <2>1, <2>2
<1>2. ASSUME UNCHANGED <<chat, inbox, crashes, messages, task>>, SameRows,
             \A i \in DOMAIN files : files'[i].live => files[i].live
      PROVE  Distinct' /\ ListedIsStored'
  <2>1. Distinct'
    BY <1>2, <1>f, <1>i, StillDistinct DEF InFlight
  <2>2. ListedIsStored'
    BY <1>2, StillListed
  <2> QED BY <2>1, <2>2
<1>11. ASSUME NEW c \in Clients, Check(c) PROVE Distinct' /\ ListedIsStored'
  <2>1. UNCHANGED <<files, chat, inbox, used, total, messages, counters>> /\ task[c].at = "idle"
    BY <1>11, Checked
  <2>2. PICK t \in Tasks : Goto(c, t) /\ t.at = "checked"
    BY <1>11, Checked
  <2> QED BY <1>1, <2>1, <2>2 DEF counters
<1>12. ASSUME NEW c \in Clients, Send(c) PROVE Distinct' /\ ListedIsStored'
  <2>1. /\ UNCHANGED <<files, inbox, used, total, counters>> /\ task[c].at = "checked"
        /\ messages' = messages + 1 /\ chat' = chat \cup {messages + 1}
    BY <1>12, HasSent
  <2>2. PICK t \in Tasks : Goto(c, t) /\ t.at = "sent" /\ t.message = messages + 1
    BY <1>12, HasSent
  <2>3. task'[c] = t /\ \A d \in Clients : d # c => task'[d] = task[d]
    BY <2>2, Went
  <2>4. ListedIsStored'
    BY <1>s, <2>1, <2>3, StillListed DEF counters
  <2>5. \A n \in Nat : n =< messages => n =< messages + 1 /\ n # messages + 1
    BY Numbers
  <2>6. \A d \in Clients : InFlight(d)' => d = c \/ (InFlight(d) /\ task'[d].message = task[d].message)
    BY <2>3 DEF InFlight
  <2>7. /\ \A i \in DOMAIN files : files[i].message =< messages + 1 /\ files[i].message # messages + 1
        /\ \A d \in Clients : InFlight(d) => task[d].message =< messages + 1 /\ task[d].message # messages + 1
        /\ \A m \in inbox : m.message =< messages + 1 /\ m.message # messages + 1
    BY <2>5, Numbers DEF Distinct
  <2>8. task'[c].message = messages + 1 /\ messages + 1 =< messages + 1 /\ messages' = messages + 1
        /\ messages + 1 \in chat' /\ files' = files /\ inbox' = inbox
    BY <2>1, <2>2, <2>3, Numbers
  <2>9. \A x \in chat : x \in chat'
    BY <2>1
  <2>10. Distinct'
    <3>1. \A d \in Clients : InFlight(d)' =>
            /\ task'[d].message \in chat' /\ task'[d].message =< messages'
            /\ \A i \in DOMAIN files' : files'[i].message # task'[d].message
      BY <1>f, <2>6, <2>7, <2>8, <2>9 DEF Distinct
    <3>2. \A d, e \in Clients : InFlight(d)' /\ InFlight(e)' /\ task'[d].message = task'[e].message => d = e
      BY <2>6, <2>7, <2>8 DEF Distinct
    <3>3. \A m \in inbox' :
            /\ m.message \in chat' /\ m.message =< messages'
            /\ \A i \in DOMAIN files' : files'[i].message # m.message
            /\ \A d \in Clients : InFlight(d)' => task'[d].message # m.message
      BY <1>i, <2>6, <2>7, <2>8, <2>9 DEF Distinct
    <3> QED BY <2>7, <2>8, <3>1, <3>2, <3>3 DEF Distinct
  <2> QED BY <2>4, <2>10
<1>13. ASSUME NEW c \in Clients, SendFails(c) PROVE Distinct' /\ ListedIsStored'
  <2>1. /\ UNCHANGED <<files, inbox, used, total, crashes, sums>> /\ Goto(c, Idle) /\ task[c].at = "checked"
        /\ UNCHANGED <<chat, messages>> \/ (messages' = messages + 1 /\ chat' = chat \cup {messages + 1})
    BY <1>13 DEF SendFails, At
  <2> QED BY <1>0, <1>1, <2>1
<1>14. ASSUME NEW c \in Clients, FindPrevious(c) PROVE Distinct' /\ ListedIsStored'
  <2>1. UNCHANGED <<files, chat, inbox, used, total, messages, counters>> /\ task[c].at = "sent"
    BY <1>14, Found
  <2>2. PICK t \in Tasks : Goto(c, t) /\ (t.at = "idle" \/ (t.at = "found" /\ t.message = task[c].message))
    BY <1>0, <1>14, Found
  <2> QED BY <1>1, <2>1, <2>2 DEF counters, InFlight
<1>15. ASSUME NEW c \in Clients, CommitRow(c) PROVE Distinct' /\ ListedIsStored'
  <2>0. PICK s, new : s = task[c] /\ new = Len(files) + 1
    OBVIOUS
  <2>1. /\ UNCHANGED <<chat, inbox, used, total, messages, counters>> /\ s.at = "found" /\ s \in Upload
        /\ DOMAIN files' = DOMAIN files \cup {new} /\ new \notin DOMAIN files
        /\ \A i \in DOMAIN files : files'[i].message = files[i].message
                                   /\ files'[i].live = (files[i].live /\ i \notin s.previous)
        /\ files'[new].message = s.message
    <3>1. /\ UNCHANGED <<chat, inbox, used, total, messages, counters>> /\ s.at = "found" /\ s \in Upload /\ Commits(s)
      BY <1>15, <2>0, HasCommitted
    <3>2. NewRow(s).message = s.message
      BY <3>1, Row0
    <3> QED BY <2>0, <3>1, <3>2 DEF Commits
  <2>2. PICK t \in Tasks : Goto(c, t) /\ t.at \in {"idle", "committed"}
    BY <1>0, <1>15, HasCommitted
  <2>3. task'[c] = t /\ \A d \in Clients : d # c => task'[d] = task[d]
    BY <2>2, Went
  <2>4. InFlight(c) /\ ~InFlight(c)' /\ \A d \in Clients : InFlight(d)' => d # c /\ InFlight(d) /\ task'[d] = task[d]
    BY <2>0, <2>1, <2>2, <2>3 DEF InFlight
  <2>5. /\ s.message \in chat /\ s.message =< messages
        /\ \A i \in DOMAIN files : files[i].message # s.message
        /\ \A d \in Clients : InFlight(d)' => task[d].message # s.message
        /\ \A m \in inbox : m.message # s.message
    BY <2>0, <2>4 DEF Distinct
  <2>6. Distinct'
    BY <2>1, <2>4, <2>5 DEF Distinct
  <2>7. ListedIsStored'
    <3>1. \A d \in Clients : At(d, "emptied") => task'[d] = task[d]
      BY <2>0, <2>1, <2>3 DEF At
    <3>2. crashes' = crashes
      BY <2>1 DEF counters
    <3>3. SUFFICES ASSUME crashes = 0, NEW j \in Live'
                   PROVE  files'[j].message \in chat \/ \E d \in Clients : At(d, "emptied")' /\ task'[d].file = j
      BY <2>1, <3>2 DEF ListedIsStored
    <3>4. CASE j = new
      BY <2>1, <2>5, <3>4
    <3>5. CASE j # new
      <4>1. j \in Live /\ files'[j].message = files[j].message
        BY <2>1, <3>3, <3>5 DEF Live
      <4>2. files[j].message \in chat \/ \E d \in Clients : At(d, "emptied") /\ task[d].file = j
        BY <3>3, <4>1 DEF ListedIsStored
      <4> QED BY <3>1, <4>1, <4>2 DEF At
    <3> QED BY <3>4, <3>5
  <2> QED BY <2>6, <2>7
<1>16. ASSUME NEW c \in Clients, Charge(c) \/ Release(c) PROVE Distinct' /\ ListedIsStored'
  <2>1. UNCHANGED <<files, chat, inbox, messages, counters>> /\ Goto(c, Idle) /\ task[c].at \in {"committed", "deleted"}
    BY <1>16 DEF Charge, Release, At
  <2> QED BY <1>0, <1>1, <2>1 DEF counters
<1>17. ASSUME NEW c \in Clients, FindFile(c) PROVE Distinct' /\ ListedIsStored'
  <2>1. UNCHANGED <<files, chat, inbox, used, total, messages, counters>> /\ task[c].at = "idle"
    BY <1>17, HasFoundFile
  <2>2. PICK t \in Tasks : Goto(c, t) /\ t.at = "deleting"
    BY <1>17, HasFoundFile
  <2> QED BY <1>1, <2>1, <2>2 DEF counters
<1>18. ASSUME NEW c \in Clients, DeleteMessage(c) \/ DeleteMessageFails(c) PROVE Distinct' /\ ListedIsStored'
  <2>0. PICK i : i = task[c].file
    OBVIOUS
  <2>1. /\ UNCHANGED <<files, inbox, used, total, messages, sums, crashes>> /\ task[c].at = "deleting"
        /\ chat' = chat \/ chat' = chat \ {files[i].message}
    BY <1>18, <2>0, Emptied
  <2>2. PICK t \in Tasks : Goto(c, t) /\ t.at = "emptied" /\ t.file = i
    BY <1>18, <2>0, Emptied
  <2>3. i \in DOMAIN files
    BY <2>0, <2>1 DEF TypeInv, Sound
  <2>4. task'[c] = t /\ \A d \in Clients : d # c => task'[d] = task[d]
    BY <2>2, Went
  <2>5. \A d \in Clients : InFlight(d)' => InFlight(d) /\ task'[d].message = task[d].message
    BY <2>2, <2>4 DEF InFlight
  <2>6. Distinct'
    <3>1. \A d \in Clients : InFlight(d) => task[d].message # files[i].message
      BY <2>3 DEF Distinct
    <3>2. \A m \in inbox : m.message # files[i].message
      BY <2>3 DEF Distinct
    <3> QED BY <1>f, <1>i, <1>s, <2>1, <2>5, <3>1, <3>2, StillDistinct
  <2>7. \A j \in Live : files[j].message \in chat => j = i \/ files[j].message \in chat'
    BY <2>1, <2>3 DEF Distinct, Live
  <2>8. At(c, "emptied")' /\ task'[c].file = i /\ \A d \in Clients : At(d, "emptied") => task'[d] = task[d]
    BY <2>1, <2>2, <2>4 DEF At
  <2>9. ListedIsStored'
    BY <2>1, <2>7, <2>8 DEF ListedIsStored, Live, At
  <2> QED BY <2>6, <2>9
<1>19. ASSUME NEW c \in Clients, DeleteRow(c) PROVE Distinct' /\ ListedIsStored'
  <2>0. PICK i : i = task[c].file
    OBVIOUS
  <2>1. /\ UNCHANGED <<chat, inbox, used, total, messages, counters>>
        /\ Rewrites(i) /\ files'[i].live = FALSE
    BY <1>19, <2>0, HasDeletedRow
  <2>2. PICK t \in Tasks : Goto(c, t) /\ t.at \in {"idle", "deleted"}
    BY <1>0, <1>19, HasDeletedRow
  <2>3. SameRows
    BY <2>1 DEF Rewrites, SameRows
  <2>4. Distinct'
    BY <1>f, <1>i, <2>1, <2>2, <2>3, Elsewhere, StillDistinct
  <2>5. \A d \in Clients : d # c => task'[d] = task[d]
    BY <2>2, Went
  <2>6. ListedIsStored'
    <3>1. SUFFICES ASSUME crashes = 0, NEW j \in Live'
                   PROVE  files'[j].message \in chat \/ \E d \in Clients : At(d, "emptied")' /\ task'[d].file = j
      BY <2>1 DEF ListedIsStored, counters
    <3>2. j # i /\ j \in DOMAIN files /\ files'[j] = files[j] /\ j \in Live
      BY <2>1, <3>1 DEF Live, Rewrites
    <3>3. files[j].message \in chat \/ \E d \in Clients : At(d, "emptied") /\ task[d].file = j
      BY <3>1, <3>2 DEF ListedIsStored
    <3>4. ASSUME NEW d \in Clients, At(d, "emptied"), task[d].file = j PROVE At(d, "emptied")' /\ task'[d].file = j
      BY <2>0, <2>5, <3>2, <3>4 DEF At
    <3> QED BY <3>2, <3>3, <3>4
  <2> QED BY <2>4, <2>6
<1>20. ASSUME NEW i \in Live, NEW n \in Names, Rename(i, n) PROVE Distinct' /\ ListedIsStored'
  <2>1. /\ UNCHANGED <<chat, inbox, used, task, total, messages, sums, crashes>>
        /\ Rewrites(i) /\ files'[i].live = files[i].live
    BY <1>20, Renaming
  <2>2. SameRows /\ \A j \in DOMAIN files : files'[j].live => files[j].live
    BY <2>1 DEF Rewrites, SameRows
  <2> QED BY <1>2, <2>1, <2>2
<1>21. ASSUME DropDocument PROVE Distinct' /\ ListedIsStored'
  <2>1. /\ UNCHANGED <<files, used, task, total, sums, crashes>>
        /\ messages' = messages + 1 /\ chat' = chat \cup {messages + 1}
    BY <1>21 DEF DropDocument
  <2>2. PICK q : q.message = messages + 1 /\ inbox' = inbox \cup {q}
    BY <1>21 DEF DropDocument
  <2>3. ListedIsStored'
    BY <1>s, <2>1, StillListed
  <2>4. \A n \in Nat : n =< messages => n =< messages + 1 /\ n # messages + 1
    BY Numbers
  <2>5. /\ \A i \in DOMAIN files : files[i].message =< messages + 1 /\ files[i].message # messages + 1
        /\ \A d \in Clients : InFlight(d) => task[d].message =< messages + 1 /\ task[d].message # messages + 1
        /\ \A m \in inbox : m.message =< messages + 1 /\ m.message # messages + 1
    BY <2>4, Numbers DEF Distinct
  <2>6. \A d : InFlight(d)' = InFlight(d)
    BY <2>1 DEF InFlight
  <2>7. messages + 1 =< messages + 1 /\ messages + 1 \in chat' /\ \A x \in chat : x \in chat'
    BY <2>1, Numbers
  <2>8. Distinct'
    <3>1. \A d \in Clients : InFlight(d)' =>
            /\ task'[d].message \in chat' /\ task'[d].message =< messages'
            /\ \A i \in DOMAIN files' : files'[i].message # task'[d].message
      BY <2>1, <2>5, <2>6, <2>7 DEF Distinct
    <3>2. \A d, e \in Clients : InFlight(d)' /\ InFlight(e)' /\ task'[d].message = task'[e].message => d = e
      BY <2>1, <2>6 DEF Distinct
    <3>3. \A m \in inbox' :
            /\ m.message \in chat' /\ m.message =< messages'
            /\ \A i \in DOMAIN files' : files'[i].message # m.message
            /\ \A d \in Clients : InFlight(d)' => task'[d].message # m.message
      BY <1>i, <2>1, <2>2, <2>5, <2>6, <2>7 DEF Distinct
    <3>4. \A m, n \in inbox' : m.message = n.message => m = n
      BY <2>2, <2>5 DEF Distinct
    <3>5. \A i \in DOMAIN files' : files'[i].message =< messages'
      BY <2>1, <2>5
    <3> QED BY <2>1, <3>1, <3>2, <3>3, <3>4, <3>5 DEF Distinct
  <2> QED BY <2>3, <2>8
<1>22. ASSUME Ingest PROVE Distinct' /\ ListedIsStored'
  <2>1. UNCHANGED <<chat, used, task, total, messages, counters>>
    BY <1>22, Ingesting
  <2>2. PICK m \in inbox, new \in {Len(files) + 1} :
          /\ inbox' = inbox \ {m}
          /\ DOMAIN files' = DOMAIN files \cup {new} /\ new \notin DOMAIN files
          /\ \A i \in DOMAIN files : files'[i] = files[i]
          /\ files'[new].message = m.message
    BY <1>22, Ingesting
  <2>3. \A d : InFlight(d)' = InFlight(d)
    BY <2>1 DEF InFlight
  <2>4. /\ m.message \in chat /\ m.message =< messages
        /\ \A i \in DOMAIN files : files[i].message # m.message
        /\ \A d \in Clients : InFlight(d) => task[d].message # m.message
        /\ \A n \in inbox' : n \in inbox /\ n.message # m.message
    BY <2>2 DEF Distinct
  <2>5. Distinct'
    BY <2>1, <2>2, <2>3, <2>4 DEF Distinct
  <2>6. ListedIsStored'
    BY <2>1, <2>2, <2>4 DEF ListedIsStored, Live, At, counters
  <2> QED BY <2>5, <2>6
<1>23. ASSUME NEW u \in Users, SumUp(u) PROVE Distinct' /\ ListedIsStored'
  BY <1>2, <1>23, <1>s DEF SumUp
<1>24. ASSUME Recompute PROVE Distinct' /\ ListedIsStored'
  BY <1>2, <1>24, <1>s DEF Recompute, counters
<1>25. ASSUME Crash PROVE Distinct' /\ ListedIsStored'
  <2>1. UNCHANGED <<files, chat, messages>> /\ crashes' = crashes + 1 /\ inbox' = {}
        /\ task' = [c \in Clients |-> Idle]
    BY <1>25 DEF Crash
  <2>2. \A c \in Clients : ~InFlight(c)'
    BY <1>0, <2>1 DEF InFlight
  <2>3. Distinct'
    BY <1>s, <2>1, <2>2, StillDistinct
  <2>4. crashes' # 0
    BY <2>1 DEF TypeInv, DataType
  <2> QED BY <2>3, <2>4 DEF ListedIsStored
<1> QED BY <1>11, <1>12, <1>13, <1>14, <1>15, <1>16, <1>17, <1>18, <1>19, <1>20, <1>21, <1>22, <1>23, <1>24, <1>25
        DEF Next

-----------------------------------------------------------------------------
(* The quota *)

(* Uploads that passed the check and are not charged yet.                  *)
Waiting(u) ==
  {c \in Clients : /\ task[c].at \in {"checked", "sent", "found", "committed"}
                   /\ task[c].path # "v1" /\ task[c].user = u}
(* The last upload that passed the check counted all that was charged, and *)
(* what waited beside it is a file for each of the other requests.         *)
QuotaInv ==
  /\ total # Nothing => sums # 0
  /\ sums = 0 => \A u \in Users :
       used[u] + SizeSum(task, Waiting(u)) =< Quota + (Cardinality(Clients) - 1) * LargestSize

LEMMA Largest == LargestSize \in Nat /\ \A s \in Sizes : s =< LargestSize
<1>1. Sizes # {} /\ IsFiniteSet(Sizes) /\ Sizes \subseteq Nat
  BY FileStoreAssumption
<1> DEFINE P == {D \in SUBSET Sizes : D # {} => \E s \in D : \A t \in D : t =< s}
<1>2. {} \in P /\ P \in SUBSET SUBSET Sizes
  OBVIOUS
<1>3. ASSUME NEW D \in SUBSET Sizes, D # {}, \A x \in D : D \ {x} \in P PROVE D \in P
  <2>1. PICK x \in D : TRUE
    BY <1>3
  <2>2. \A t \in D : t \in Nat
    BY <1>1
  <2>3. CASE D \ {x} = {}
    BY <2>1, <2>2, <2>3
  <2>4. CASE D \ {x} # {}
    <3>1. PICK s \in D \ {x} : \A t \in D \ {x} : t =< s
      BY <1>3, <2>4
    <3>2. CASE x =< s
      BY <3>1, <3>2
    <3>3. CASE ~(x =< s)
      <4>1. \A t \in D : t =< x
        BY <2>2, <3>1, <3>3
      <4> QED BY <4>1
    <3> QED BY <3>2, <3>3
  <2> QED BY <2>3, <2>4
<1>4. P = SUBSET Sizes
  <2> HIDE DEF P
  <2> QED BY <1>1, <1>2, <1>3, Subsets
<1>5. \E s \in Sizes : \A t \in Sizes : t =< s
  <2>1. Sizes \in P
    BY <1>4
  <2> QED BY <1>1, <2>1
<1>6. LargestSize \in Sizes /\ \A s \in Sizes : s =< LargestSize
  BY <1>5 DEF LargestSize
<1> QED BY <1>1, <1>6

LEMMA WaitingSized ==
  ASSUME TypeInv, NEW u
  PROVE  /\ IsFiniteSet(Waiting(u)) /\ Sized(task, Waiting(u)) /\ Waiting(u) \in SUBSET Clients
         /\ \A c \in Waiting(u) : task[c].size \in Sizes
<1>1. IsFiniteSet(Clients)
  BY FileStoreAssumption
<1>2. IsFiniteSet(Waiting(u)) /\ Waiting(u) \in SUBSET Clients
  BY <1>1, FS_Subset DEF Waiting
<1>3. \A c \in Waiting(u) : task[c] \in Upload
  BY Places DEF TypeInv, Waiting
<1>4. \A c \in Waiting(u) : task[c].size \in Sizes
  BY <1>3, Natural
<1>5. \A c \in Waiting(u) : task[c].size \in Nat
  BY <1>4, Natural
<1> QED BY <1>2, <1>4, <1>5 DEF Sized

LEMMA Charges == ASSUME TypeInv, NEW u \in Users PROVE used[u] \in Int /\ Quota \in Nat
BY FileStoreAssumption DEF TypeInv, DataType

LEMMA OthersFit == Cardinality(Clients) - 1 \in Nat /\ (Cardinality(Clients) - 1) * LargestSize \in Nat
<1>1. IsFiniteSet(Clients) /\ Cardinality(Clients) \in Nat /\ Cardinality(Clients) # 0
  BY FileStoreAssumption, FS_CardinalityType, FS_EmptySet
<1>2. PICK n \in Nat : n = Cardinality(Clients) - 1
  BY <1>1
<1>3. n * LargestSize \in Nat
  BY Largest
<1> QED BY <1>2, <1>3

(* What leaves, and what is charged no more than before.                   *)
LEMMA StillFits ==
  ASSUME TypeInv, TypeInv', QuotaInv, UNCHANGED sums, total' = total \/ total' = Nothing,
         sums = 0 => \A u \in Users :
           /\ used'[u] =< used[u]
           /\ Waiting(u)' \subseteq Waiting(u)
           /\ \A c \in Waiting(u)' : task'[c].size = task[c].size
  PROVE  QuotaInv'
<1>1. SUFFICES ASSUME sums = 0, NEW u \in Users
               PROVE  used'[u] + SizeSum(task', Waiting(u)') =< Quota + (Cardinality(Clients) - 1) * LargestSize
  BY DEF QuotaInv
<1>2. PICK W, V : W = Waiting(u) /\ V = Waiting(u)'
  OBVIOUS
<1>3. IsFiniteSet(W) /\ Sized(task, W) /\ V \in SUBSET W /\ IsFiniteSet(V)
  <2>1. IsFiniteSet(W) /\ Sized(task, W) /\ V \in SUBSET W
    BY <1>1, <1>2, WaitingSized
  <2> QED BY <2>1, FS_Subset
<1>4. SizeSum(task', V) = SizeSum(task, V)
  BY <1>1, <1>2, <1>3, SumSame
<1>5. SizeSum(task, V) =< SizeSum(task, W) /\ SizeSum(task, V) \in Nat /\ SizeSum(task, W) \in Nat
  BY <1>3, SumLess
<1>6. used[u] + SizeSum(task, W) =< Quota + (Cardinality(Clients) - 1) * LargestSize
  BY <1>1, <1>2 DEF QuotaInv
<1>7. used'[u] \in Int /\ used[u] \in Int /\ used'[u] =< used[u]
  BY <1>1, Charges DEF TypeInv, DataType
<1>8. \A a, b, v, w, q, l \in Int : a =< b /\ v =< w /\ b + w =< q + l => a + v =< q + l
  OBVIOUS
<1>9. used'[u] + SizeSum(task, V) =< Quota + (Cardinality(Clients) - 1) * LargestSize
  BY <1>5, <1>6, <1>7, <1>8, OthersFit, Charges
<1> QED BY <1>2, <1>4, <1>9

(* A request that goes on with its upload, or that leaves.                 *)
LEMMA Goes ==
  ASSUME TypeInv, NEW c \in Clients, NEW t \in Tasks, Goto(c, t),
         \/ t.at \notin {"checked", "sent", "found", "committed"}
         \/ task[c].at \in {"checked", "sent", "found"} /\ SameUpload(t, task[c])
  PROVE  \A u \in Users : /\ Waiting(u)' \subseteq Waiting(u)
                          /\ \A d \in Waiting(u)' : task'[d].size = task[d].size
<1>1. task'[c] = t /\ \A d \in Clients : d # c => task'[d] = task[d]
  BY Went
<1> QED BY <1>1 DEF Waiting, SameUpload

LEMMA QuotaStep ==
  ASSUME TypeInv, TypeInv', QuotaInv, Next
  PROVE  QuotaInv'
<1>0. Idle \in Tasks /\ Idle.at = "idle"
  BY DEF Tasks, Idle
<1>1. ASSUME UNCHANGED <<used, total, sums>>, NEW c \in Clients, NEW t \in Tasks, Goto(c, t),
             \/ t.at \notin {"checked", "sent", "found", "committed"}
             \/ task[c].at \in {"checked", "sent", "found"} /\ SameUpload(t, task[c])
      PROVE  QuotaInv'
  <2>1. \A u \in Users : used'[u] =< used[u]
    BY <1>1, Charges
  <2> QED BY <1>1, <2>1, Goes, StillFits
<1>2. ASSUME UNCHANGED <<used, total, sums>>, UNCHANGED task PROVE QuotaInv'
  <2>1. \A u \in Users : used'[u] =< used[u]
    BY <1>2, Charges
  <2>2. \A u : Waiting(u)' = Waiting(u)
    BY <1>2 DEF Waiting
  <2> QED BY <1>2, <2>1, <2>2, StillFits
<1>11. ASSUME NEW c \in Clients, Check(c) PROVE QuotaInv'
  <2>1. UNCHANGED <<files, chat, inbox, used, total, messages, counters>> /\ task[c].at = "idle"
    BY <1>11, Checked
  <2>2. PICK t \in Tasks : /\ Goto(c, t) /\ t.at = "checked" /\ t.size \in Sizes
                           /\ t.path # "v1" => t.user \in Users /\ used[t.user] + t.size =< Quota
    BY <1>11, Checked
  <2>3. task'[c] = t /\ \A d \in Clients : d # c => task'[d] = task[d]
    BY <2>2, Went
  <2>4. SUFFICES ASSUME sums = 0, NEW u \in Users
                 PROVE  used[u] + SizeSum(task', Waiting(u)') =< Quota + (Cardinality(Clients) - 1) * LargestSize
    BY <2>1 DEF QuotaInv, counters
  <2>5. PICK W : W = Waiting(u)
    OBVIOUS
  <2>6. IsFiniteSet(W) /\ Sized(task, W) /\ W \in SUBSET Clients /\ \A d \in W : task[d].size \in Sizes
    BY <2>5, WaitingSized
  <2>7. c \notin W
    BY <2>1, <2>5 DEF Waiting
  <2>8. SizeSum(task', W) = SizeSum(task, W) /\ SizeSum(task, W) \in Nat
    <3>1. \A d \in W : task'[d].size = task[d].size
      BY <2>3, <2>6, <2>7
    <3> QED BY <2>6, <3>1, SumSame, SumSplits
  <2>9. CASE ~(t.path # "v1" /\ t.user = u)
    <3>1. Waiting(u)' = W
      BY <2>1, <2>2, <2>3, <2>5, <2>9 DEF Waiting
    <3>2. used[u] + SizeSum(task, W) =< Quota + (Cardinality(Clients) - 1) * LargestSize
      BY <2>4, <2>5 DEF QuotaInv
    <3> QED BY <2>8, <3>1, <3>2
  <2>10. CASE t.path # "v1" /\ t.user = u
    <3>1. Waiting(u)' = W \cup {c}
      BY <2>2, <2>3, <2>5, <2>10 DEF Waiting
    <3>2. SizeSum(task', W \cup {c}) = t.size + SizeSum(task', W)
      <4>1. Sized(task', W \cup {c})
        BY <2>2, <2>3, <2>6, <2>7, Natural DEF Sized
      <4> QED BY <2>3, <2>6, <2>7, <4>1, SumAdd
    <3>3. SizeSum(task, W) =< (Cardinality(Clients) - 1) * LargestSize
      <4>1. W \in SUBSET (Clients \ {c}) /\ IsFiniteSet(Clients \ {c}) /\ Cardinality(Clients \ {c}) = Cardinality(Clients) - 1
        BY <2>6, <2>7, FileStoreAssumption, FS_RemoveElement
      <4>2. Cardinality(W) =< Cardinality(Clients) - 1 /\ Cardinality(W) \in Nat
        BY <2>6, <4>1, FS_Subset, FS_CardinalityType
      <4>3. SizeSum(task, W) =< Cardinality(W) * LargestSize
        BY <2>6, Largest, SumBounded
      <4>4. PICK n \in Nat, m \in Nat, l \in Nat : n = Cardinality(W) /\ m = Cardinality(Clients) - 1 /\ l = LargestSize /\ n =< m
        BY <4>2, Largest, OthersFit
      <4>5. n * l =< m * l /\ n * l \in Nat /\ m * l \in Nat
        BY <4>4
      <4> QED BY <2>8, <4>3, <4>4, <4>5
    <3>4. used[u] + t.size =< Quota /\ t.size \in Nat
      BY <2>2, <2>10, Natural
    <3>5. \A a, b, w, q, l \in Int : a + b =< q /\ w =< l => a + (b + w) =< q + l
      OBVIOUS
    <3>6. used[u] + (t.size + SizeSum(task, W)) =< Quota + (Cardinality(Clients) - 1) * LargestSize
      BY <2>8, <3>3, <3>4, <3>5, Charges, OthersFit
    <3> QED BY <2>8, <3>1, <3>2, <3>6
  <2> QED BY <2>9, <2>10
<1>12. ASSUME NEW c \in Clients, Send(c) PROVE QuotaInv'
  <2>1. UNCHANGED <<used, total, sums>> /\ task[c].at = "checked"
    BY <1>12, HasSent DEF counters
  <2>2. PICK t \in Tasks : Goto(c, t) /\ SameUpload(t, task[c])
    BY <1>12, HasSent
  <2> QED BY <1>1, <2>1, <2>2
<1>13. ASSUME NEW c \in Clients, SendFails(c) PROVE QuotaInv'
  BY <1>0, <1>1, <1>13 DEF SendFails
<1>14. ASSUME NEW c \in Clients, FindPrevious(c) PROVE QuotaInv'
  <2>1. UNCHANGED <<used, total, sums>> /\ task[c].at = "sent"
    BY <1>14, Found DEF counters
  <2>2. PICK t \in Tasks : Goto(c, t) /\ (t.at = "idle" \/ SameUpload(t, task[c]))
    BY <1>0, <1>14, Found
  <2> QED BY <1>1, <2>1, <2>2
<1>15. ASSUME NEW c \in Clients, CommitRow(c) PROVE QuotaInv'
  <2>1. UNCHANGED <<used, total, sums>> /\ task[c].at = "found"
    BY <1>15, HasCommitted DEF counters
  <2>2. PICK t \in Tasks : Goto(c, t) /\ (t.at = "idle" \/ SameUpload(t, task[c]))
    BY <1>0, <1>15, HasCommitted
  <2> QED BY <1>1, <2>1, <2>2
<1>16. ASSUME NEW c \in Clients, Charge(c) PROVE QuotaInv'
  <2>1. /\ UNCHANGED <<total, sums>> /\ Goto(c, Idle) /\ task[c].at = "committed"
        /\ used' = [used EXCEPT ![task[c].user] = @ + task[c].size]
    BY <1>16 DEF Charge, At, counters
  <2>2. PICK s : s = task[c] /\ s \in Upload /\ s.user \in Users /\ s.path # "v1" /\ s.size \in Nat
    <3>1. task[c] \in Upload /\ task[c].path # "v1" /\ task[c].user \in Users
      BY <2>1, Places DEF TypeInv, Sound
    <3> QED BY <3>1, Natural
  <2>3. task'[c] = Idle /\ \A d \in Clients : d # c => task'[d] = task[d]
    BY <1>0, <2>1, Went
  <2>4. SUFFICES ASSUME sums = 0, NEW u \in Users
                 PROVE  used'[u] + SizeSum(task', Waiting(u)') =< Quota + (Cardinality(Clients) - 1) * LargestSize
    BY <2>1 DEF QuotaInv
  <2>5. PICK W : W = Waiting(u)
    OBVIOUS
  <2>6. IsFiniteSet(W) /\ Sized(task, W) /\ W \in SUBSET Clients
    BY <2>5, WaitingSized
  <2>7. Waiting(u)' = W \ {c}
    BY <1>0, <2>3, <2>5 DEF Waiting
  <2>8. SizeSum(task', W \ {c}) = SizeSum(task, W \ {c})
    <3>1. IsFiniteSet(W \ {c}) /\ \A d \in W \ {c} : task'[d].size = task[d].size
      BY <2>3, <2>6, FS_Subset
    <3> QED BY <3>1, SumSame
  <2>9. used[u] + SizeSum(task, W) =< Quota + (Cardinality(Clients) - 1) * LargestSize
    BY <2>4, <2>5 DEF QuotaInv
  <2>10. used \in [Users -> Int]
    BY DEF TypeInv, DataType
  <2>11. CASE u = s.user
    <3>1. c \in W
      BY <2>1, <2>2, <2>5, <2>11 DEF Waiting
    <3>2. SizeSum(task, W) = s.size + SizeSum(task, W \ {c})
      BY <2>2, <2>6, <3>1, SumSplits
    <3>3. SizeSum(task, W \ {c}) \in Nat
      BY <2>6, SumLess
    <3>4. used'[u] = used[u] + s.size
      BY <2>1, <2>2, <2>10, <2>11
    <3>5. used'[u] + SizeSum(task, W \ {c}) = used[u] + SizeSum(task, W)
      BY <2>2, <2>10, <3>2, <3>3, <3>4
    <3> QED BY <2>7, <2>8, <2>9, <3>5
  <2>12. CASE u # s.user
    <3>1. used'[u] = used[u] /\ W \ {c} = W
      BY <2>1, <2>2, <2>5, <2>10, <2>12 DEF Waiting
    <3> QED BY <2>7, <2>8, <2>9, <3>1
  <2> QED BY <2>11, <2>12
<1>17. ASSUME NEW c \in Clients, FindFile(c) PROVE QuotaInv'
  <2>1. UNCHANGED <<used, total, sums>> /\ \E t \in Tasks : Goto(c, t) /\ t.at = "deleting"
    BY <1>17, HasFoundFile DEF counters
  <2> QED BY <1>1, <2>1
<1>18. ASSUME NEW c \in Clients, DeleteMessage(c) \/ DeleteMessageFails(c) PROVE QuotaInv'
  <2>1. UNCHANGED <<used, total, sums>> /\ \E t \in Tasks : Goto(c, t) /\ t.at = "emptied"
    BY <1>18, Emptied
  <2> QED BY <1>1, <2>1
<1>19. ASSUME NEW c \in Clients, DeleteRow(c) PROVE QuotaInv'
  <2>1. UNCHANGED <<used, total, sums>> /\ \E t \in Tasks : Goto(c, t) /\ t.at \in {"idle", "deleted"}
    BY <1>0, <1>19, HasDeletedRow DEF counters
  <2> QED BY <1>1, <2>1
<1>20. ASSUME NEW c \in Clients, Release(c) PROVE QuotaInv'
  <2>0. PICK row : row = files[task[c].file]
    OBVIOUS
  <2>1. /\ UNCHANGED <<total, sums>> /\ Goto(c, Idle) /\ task[c].at = "deleted"
        /\ used' = [used EXCEPT ![row.owner] = @ - row.size]
    BY <1>20, <2>0 DEF Release, At, counters
  <2>2. row \in FileRow
    BY <2>0, <2>1 DEF TypeInv, DataType, Sound
  <2>3. row.size \in Nat /\ used \in [Users -> Int]
    BY <2>2, Natural DEF TypeInv, DataType
  <2>4. \A a \in Int, n \in Nat : a - n =< a /\ a =< a
    OBVIOUS
  <2>5. \A u \in Users : used'[u] =< used[u]
    BY <2>1, <2>3, <2>4
  <2> QED BY <1>0, <2>1, <2>5, Goes, StillFits
<1>21. ASSUME NEW i \in Live, NEW n \in Names, Rename(i, n) PROVE QuotaInv'
  BY <1>2, <1>21 DEF Rename
<1>22. ASSUME DropDocument \/ Ingest PROVE QuotaInv'
  BY <1>2, <1>22 DEF DropDocument, Ingest, counters
<1>23. ASSUME NEW u \in Users, SumUp(u) PROVE QuotaInv'
  <2>1. sums' = sums + 1 /\ sums \in Nat
    BY <1>23 DEF SumUp, TypeInv, DataType
  <2>2. sums' # 0
    BY <2>1
  <2> QED BY <2>2 DEF QuotaInv
<1>24. ASSUME Recompute PROVE QuotaInv'
  <2>1. sums' = sums /\ sums # 0
    BY <1>24 DEF Recompute, QuotaInv, counters
  <2> QED BY <2>1 DEF QuotaInv
<1>25. ASSUME Crash PROVE QuotaInv'
  <2>1. UNCHANGED <<used, total, sums>> /\ task' = [c \in Clients |-> Idle]
    BY <1>25 DEF Crash
  <2>2. \A u : Waiting(u)' = {}
    BY <1>0, <2>1 DEF Waiting
  <2>3. \A u \in Users : used'[u] =< used[u]
    BY <2>1, Charges
  <2> QED BY <2>1, <2>2, <2>3, StillFits
<1> QED BY <1>11, <1>12, <1>13, <1>14, <1>15, <1>16, <1>17, <1>18, <1>19, <1>20, <1>21, <1>22, <1>23, <1>24, <1>25
        DEF Next

-----------------------------------------------------------------------------
(* One request at a time *)

(* The live bytes of a user.                                               *)
LB(u) == SizeSum(files, Live \cap OwnedBy(u))

(* The operators of the serial instance that do not depend on its bounds.  *)
LEMMA SerialOperators ==
  /\ S!Live = Live /\ S!Live' = Live' /\ S!Idle = Idle /\ S!Sole = Sole
  /\ \A m : S!Accounted(m) = Accounted(m)
  /\ \A u : S!LiveBytes(u) = LB(u)
  /\ \A t : S!SameName(t) = SameName(t)
  /\ \A rows, D : S!Supersede(rows, D) = Supersede(rows, D)
  /\ \A t : S!NewRow(t) = NewRow(t)
<1>1. S!Live = Live /\ S!Live' = Live' /\ S!Idle = Idle /\ S!Superseded = Superseded
  BY DEF S!Live, Live, S!Idle, Idle, S!Superseded, Superseded
<1>2. \A u : S!OwnedBy(u) = OwnedBy(u)
  BY DEF S!OwnedBy, OwnedBy
<1>3. ASSUME NEW D PROVE S!Bytes(D) = SizeSum(files, D)
  BY DEF S!Bytes, SizeSum, S!MapThenSumSet, MapThenSumSet, S!MapThenFoldSet, MapThenFoldSet
<1>4. \A rows, D : S!Supersede(rows, D) = Supersede(rows, D)
  BY DEF S!Supersede, Supersede
<1>5. \A t : S!NewRow(t) = NewRow(t)
  BY DEF S!NewRow, NewRow
<1>6. \A u : S!LiveBytes(u) = LB(u)
  BY <1>1, <1>2, <1>3 DEF S!LiveBytes, LB
<1>7. S!Sole = Sole
  BY <1>2 DEF S!Sole, Sole
<1>8. \A m : S!Accounted(m) = Accounted(m)
  BY <1>1 DEF S!Accounted, Accounted
<1>9. \A t : S!SameName(t) = SameName(t)
  BY <1>1 DEF S!SameName, SameName
<1> QED BY <1>1, <1>4, <1>5, <1>6, <1>7, <1>8, <1>9

Uploading(t) == t.at \in {"checked", "sent", "found", "committed"}

(* What a request has in hand is as it found it.                           *)
Alone(t) ==
  /\ Uploading(t) /\ t.path # "v1" => t.user \in Users
  /\ Uploading(t) /\ t.path = "v1" => t.user = Nobody
  /\ t.at = "committed" => t.path # "v1"
  /\ t.at \in {"deleting", "emptied"} => t.file \in Live
  /\ t.at = "deleted" => t.file \in DOMAIN files /\ files[t.file].owner \in Users
  /\ t.at = "emptied" => files[t.file].message \notin chat

(* No message was numbered ahead.                                          *)
Numbered(t) ==
  /\ \A i \in DOMAIN files : files[i].message =< messages
  /\ \A e \in inbox : e.message =< messages
  /\ t.at \in {"sent", "found"} => t.message =< messages

(* A user is charged for the live files, but for one that is about to be   *)
(* charged or was just released, and an upload under way still fits.       *)
Due(t, u) == IF t.at = "committed" /\ t.user = u THEN t.size ELSE 0
Freed(t, u) == IF t.at = "deleted" /\ files[t.file].owner = u THEN files[t.file].size ELSE 0
Charged(t) ==
  /\ \A u \in Users : used[u] =< SerialQuota /\ LB(u) + Freed(t, u) =< used[u] + Due(t, u)
  /\ Uploading(t) /\ t.path # "v1" => used[t.user] + t.size =< SerialQuota

(* Until files are renamed, a user has one live file of a name, and an     *)
(* upload knows the user's one of its name.                                *)
OneOwner(t) ==
  renames = 0 =>
    /\ \A i, j \in Live : files[i].owner = files[j].owner /\ files[i].owner # Nobody => ~Twins(i, j)
    /\ t.at = "found" /\ t.path # "v1" =>
         \A i \in Live : files[i].owner = t.user /\ files[i].name = t.name => i \in t.previous

(* In a cloud that one user fills, a message has a row that leads to it,   *)
(* the event that will bring one, or the upload that sent it.              *)
LeadTo(t) == Sole => \A m \in chat : Accounted(m) \/ (t.at \in {"sent", "found"} /\ t.message = m)

Calm == total = Nothing /\ faults = 0 /\ crashes = 0 /\ sums = 0 /\ renames \in Nat

SerialInv ==
  /\ DataType /\ Calm
  /\ \E t \in Tasks : /\ task = [c \in {c1} |-> t]
                      /\ Alone(t) /\ Numbered(t) /\ Charged(t) /\ OneOwner(t) /\ LeadTo(t)

LEMMA SerialInit == S!Init => SerialInv
<1> SUFFICES ASSUME S!Init PROVE SerialInv
  OBVIOUS
<1>1. /\ files = <<>> /\ chat = {} /\ inbox = {} /\ used = [u \in Users |-> 0] /\ messages = 0
      /\ task = [c \in {c1} |-> Idle]
      /\ Calm
  BY SerialOperators DEF S!Init, Calm, S!Nothing, Nothing
<1>2. Live = {}
  BY <1>1 DEF Live
<1>3. DataType
  BY <1>1 DEF DataType, Calm
<1>4. Idle \in Tasks /\ Idle.at = "idle"
  BY DEF Tasks, Idle
<1>5. Alone(Idle) /\ LeadTo(Idle) /\ Numbered(Idle) /\ OneOwner(Idle)
  BY <1>1, <1>2, <1>4 DEF Alone, LeadTo, Numbered, OneOwner, Uploading
<1>6. Charged(Idle)
  <2>1. ASSUME NEW u \in Users PROVE LB(u) = 0 /\ used[u] = 0 /\ Freed(Idle, u) = 0 /\ Due(Idle, u) = 0
    BY <1>1, <1>2, <1>4, SumOfNone DEF LB, Freed, Due
  <2>2. ~Uploading(Idle)
    BY <1>4 DEF Uploading
  <2> QED BY <2>1, <2>2, SerialAssumption DEF Charged
<1> QED BY <1>1, <1>3, <1>4, <1>5, <1>6 DEF SerialInv

(* Whoever leaves the tables alone moves on with what it has.              *)
LEMMA StillAlone ==
  ASSUME DataType, Calm, UNCHANGED <<files, total, renames, faults, crashes, sums>>,
         NEW t \in Tasks, task' = [c \in {c1} |-> t],
         Alone(t)', Numbered(t)', Charged(t)', OneOwner(t)', LeadTo(t)',
         used' \in [Users -> Int], chat' \in SUBSET Nat, inbox' \in SUBSET Mail, messages' \in Nat
  PROVE  SerialInv'
<1>1. DataType' /\ Calm'
  BY DEF DataType, Calm, Nothing
<1> QED BY <1>1 DEF SerialInv

(* Live files of the same sizes make the same sum.                         *)
LEMMA SameBytes ==
  ASSUME DataType, NEW u \in Users, Live' \cap OwnedBy(u)' = Live \cap OwnedBy(u),
         \A i \in Live : files'[i].size = files[i].size
  PROVE  LB(u)' = LB(u)
<1> DEFINE D == Live \cap OwnedBy(u)
<1>1. IsFiniteSet(D) /\ \A i \in D : files'[i].size = files[i].size
  BY LiveSized DEF Live
<1>2. LB(u)' = SizeSum(files', D)
  BY DEF LB
<1> HIDE DEF D
<1>3. SizeSum(files', D) = SizeSum(files, D)
  BY <1>1, SumSame
<1> QED BY <1>2, <1>3 DEF LB, D

LEMMA LiveBytesNat ==
  ASSUME DataType, NEW u
  PROVE  /\ LB(u) \in Nat /\ IsFiniteSet(Live \cap OwnedBy(u)) /\ Sized(files, Live \cap OwnedBy(u))
<1>1. IsFiniteSet(Live \cap OwnedBy(u)) /\ Sized(files, Live \cap OwnedBy(u))
  BY LiveSized DEF Live
<1> QED BY <1>1, SumSplits DEF LB

(* Nothing of the tables and charges changed.                              *)
LEMMA SameCharges ==
  ASSUME NEW s, NEW t, UNCHANGED <<files, used>>, Charged(s), s.at \notin {"committed", "deleted"},
         t.at \notin {"committed", "deleted"},
         Uploading(t) /\ t.path # "v1" => used[t.user] + t.size =< SerialQuota
  PROVE  Charged(t)'
<1>1. \A u : LB(u)' = LB(u)
  BY DEF LB, Live, OwnedBy
<1>2. \A u : Freed(s, u) = 0 /\ Due(s, u) = 0 /\ Freed(t, u)' = 0 /\ Due(t, u)' = 0
  BY DEF Freed, Due
<1>3. (Uploading(t) /\ t.path # "v1" => used[t.user] + t.size =< SerialQuota)'
  OBVIOUS
<1>4. \A u \in Users : used[u] =< SerialQuota /\ LB(u) + 0 =< used[u] + 0
  BY <1>2 DEF Charged
<1>5. UNCHANGED used
  OBVIOUS
<1>6. \A u \in Users : used'[u] =< SerialQuota /\ LB(u)' + Freed(t, u)' =< used'[u] + Due(t, u)'
  BY <1>1, <1>2, <1>4, <1>5
<1> QED BY <1>3, <1>6 DEF Charged

(* What leads to messages still does, with the rows and the mail as they   *)
(* were.                                                                   *)
LEMMA StillLeads ==
  ASSUME UNCHANGED <<files, inbox, renames>>
  PROVE  Sole' = Sole /\ Live' = Live /\ \A m : Accounted(m)' = Accounted(m)
BY DEF Sole, OwnedBy, Live, Accounted, Superseded

LEMMA SerialStep ==
  ASSUME SerialInv, S!Next
  PROVE  SerialInv'
<1>0. Idle \in Tasks /\ Idle.at = "idle" /\ S!Idle = Idle
  BY SerialOperators DEF Tasks, Idle
<1>d. DataType /\ Calm
  BY DEF SerialInv
<1>t. PICK t \in Tasks : /\ task = [c \in {c1} |-> t]
                         /\ Alone(t) /\ Numbered(t) /\ Charged(t) /\ OneOwner(t) /\ LeadTo(t)
  BY DEF SerialInv
<1>a. task[c1] = t /\ \A s : S!Goto(c1, s) => task' = [c \in {c1} |-> s]
  BY <1>t DEF S!Goto
<1>n. /\ used \in [Users -> Int] /\ chat \in SUBSET Nat /\ messages \in Nat /\ inbox \in SUBSET Mail
      /\ files \in Seq(FileRow) /\ renames \in Nat
  BY <1>d DEF DataType, Calm
<1>u. Uploading(t) => t \in Upload /\ t.size \in Nat /\ t.message \in Nat
  <2>1. Uploading(t) => t \in Upload
    BY Places DEF Uploading
  <2>2. t \in Upload => t.size \in Nat /\ t.message \in Nat
    BY Natural DEF Upload
  <2> QED BY <2>1, <2>2
<1>r. \A i \in DOMAIN files : files[i] \in FileRow /\ files[i].size \in Nat /\ files[i].message \in Nat
  <2>1. \A i \in DOMAIN files : files[i] \in FileRow
    BY <1>n
  <2>2. \A q \in FileRow : q.message \in Nat
    BY DEF FileRow
  <2> QED BY <2>1, <2>2, Natural
<1>i. ~Uploading(Idle) /\ Alone(Idle) /\ (Charged(t) /\ t.at \notin {"committed", "deleted"} /\ UNCHANGED <<files, used>> => Charged(Idle)')
  <2>1. ~Uploading(Idle) /\ Alone(Idle) /\ Idle.at \notin {"committed", "deleted"}
    BY <1>0 DEF Uploading, Alone
  <2> QED BY <2>1, SameCharges
<1>11. ASSUME S!Check(c1) PROVE SerialInv'
  <2>1. PICK path \in Paths, u \in Users \cup {Nobody}, n \in Names, s \in Sizes :
          /\ S!Serves(path, u)
          /\ path # "v1" => S!Fits(u, s)
          /\ S!Goto(c1, [at |-> "checked", path |-> path, user |-> u, name |-> n, size |-> s,
                         message |-> 0, previous |-> {}])
    BY <1>11 DEF S!Check
  <2>2. t.at = "idle" /\ UNCHANGED <<files, chat, inbox, used, total, messages, drops, renames, faults, crashes, sums>>
    BY <1>11, <1>a DEF S!Check, S!At, S!counters
  <2>3. path \in Routers
    BY FileStoreAssumption DEF Routers
  <2>4. (path # "v1" => u \in Users /\ used[u] + s =< SerialQuota) /\ (path = "v1" => u = Nobody)
    BY <2>1, FileStoreAssumption, SerialAssumption DEF S!Serves, S!Fits
  <2>5. PICK q : q = [at |-> "checked", path |-> path, user |-> u, name |-> n, size |-> s, message |-> 0, previous |-> {}]
    OBVIOUS
  <2>6. q \in Tasks /\ q.at = "checked" /\ q.user = u /\ q.path = path /\ q.size = s
    BY <2>3, <2>5 DEF Tasks, Upload
  <2>7. task' = [c \in {c1} |-> q]
    BY <1>a, <2>1, <2>5
  <2>8. Alone(q)'
    BY <2>4, <2>6 DEF Alone
  <2>9. Charged(q)'
    BY <1>t, <2>2, <2>4, <2>6, SameCharges
  <2>10. LeadTo(q)'
    BY <1>t, <2>2, StillLeads DEF LeadTo
  <2>11. Numbered(q)'
    BY <1>t, <2>2, <2>6 DEF Numbered
  <2>12. OneOwner(q)'
    BY <1>t, <2>2, <2>6 DEF OneOwner, Live, Twins
  <2> QED BY <1>d, <1>n, <2>2, <2>6, <2>7, <2>8, <2>9, <2>10, <2>11, <2>12, StillAlone
<1>12. ASSUME S!Send(c1) PROVE SerialInv'
  <2>1. /\ t.at = "checked" /\ UNCHANGED <<files, inbox, used, total, drops, renames, faults, crashes, sums>>
        /\ messages' = messages + 1 /\ chat' = chat \cup {messages + 1}
        /\ S!Goto(c1, [t EXCEPT !.at = "sent", !.message = messages + 1])
    BY <1>12, <1>a DEF S!Send, S!At, S!counters
  <2>2. PICK q : q = [t EXCEPT !.at = "sent", !.message = messages + 1]
    OBVIOUS
  <2>3. q \in Tasks /\ q.at = "sent" /\ q.message = messages + 1 /\ SameUpload(q, t)
    <3>1. t \in Upload /\ messages + 1 \in Nat
      BY <1>n, <1>u, <2>1 DEF Uploading
    <3> QED BY <2>2, <3>1 DEF Upload, Tasks, SameUpload
  <2>4. task' = [c \in {c1} |-> q]
    BY <1>a, <2>1, <2>2
  <2>5. Alone(q)'
    BY <1>t, <2>1, <2>3 DEF Alone, Uploading, SameUpload
  <2>6. Charged(q)'
    <3>1. Uploading(q) /\ q.path # "v1" => used[q.user] + q.size =< SerialQuota
      BY <1>t, <2>1, <2>3 DEF Charged, Uploading, SameUpload
    <3> QED BY <1>t, <2>1, <2>3, <3>1, SameCharges
  <2>7. LeadTo(q)'
    BY <1>t, <2>1, <2>3, StillLeads DEF LeadTo
  <2>8. Numbered(q)'
    <3>1. \A m \in Nat : m =< messages => m =< messages + 1
      BY <1>n
    <3>2. \A e \in inbox : e.message \in Nat
      BY <1>n DEF Mail
    <3>3. (\A i \in DOMAIN files : files[i].message =< messages + 1) /\ (\A e \in inbox : e.message =< messages + 1)
      BY <1>r, <1>t, <3>1, <3>2 DEF Numbered
    <3>4. q.message =< messages + 1
      BY <1>n, <2>3
    <3> QED BY <2>1, <3>3, <3>4 DEF Numbered
  <2>9. OneOwner(q)'
    BY <1>t, <2>1, <2>3 DEF OneOwner, Live, Twins
  <2>10. chat' \in SUBSET Nat /\ messages' \in Nat
    BY <1>n, <2>1
  <2> QED BY <1>d, <1>n, <2>1, <2>3, <2>4, <2>5, <2>6, <2>7, <2>8, <2>9, <2>10, StillAlone
<1>13. ASSUME S!FindPrevious(c1) PROVE SerialInv'
  <2>1. t.at = "sent" /\ UNCHANGED <<files, chat, inbox, used, total, messages, drops, renames, faults, crashes, sums>>
    BY <1>13, <1>a DEF S!FindPrevious, S!At, S!counters
  <2>2. t \in Upload
    BY <1>u, <2>1 DEF Uploading
  <2> DEFINE D == IF t.path = "v1" THEN {} ELSE SameName(t)
             P == {i \in D : S!MayTouch(t.path, t.user, files[i])}
  <2>3. S!Goto(c1, IF \E i, j \in D : i # j THEN Idle ELSE [t EXCEPT !.at = "found", !.previous = P])
    BY <1>0, <1>13, <1>a, SerialOperators DEF S!FindPrevious
  <2>4. P \in SUBSET Nat
    BY <1>n, Elements DEF SameName, Live
  <2>5. D \in SUBSET Live /\ \A i \in D : files[i].name = t.name
    BY DEF SameName
  <2>6. t.path # "v1" => \A i \in Live : files[i].owner = t.user /\ files[i].name = t.name => i \in P
    BY DEF SameName, S!MayTouch
  <2> HIDE DEF D, P
  <2>7. CASE \E i, j \in D : i # j
    <3>1. task' = [c \in {c1} |-> Idle] /\ Alone(Idle)'
      BY <1>0, <1>a, <2>3, <2>7 DEF Alone, Uploading
    <3>2. Charged(Idle)'
      BY <1>i, <1>t, <2>1
    <3>3. ~Sole
      <4>1. SUFFICES ASSUME Sole PROVE FALSE
        OBVIOUS
      <4>2. PICK i \in D, j \in D : i # j
        BY <2>7
      <4>3. files[i].owner = files[j].owner /\ files[i].owner # Nobody /\ i \in Live /\ j \in Live
        BY <2>5, <4>1, FileStoreAssumption DEF Sole, OwnedBy, Live
      <4>4. Twins(i, j) /\ renames = 0
        BY <2>5, <4>1, <4>2 DEF Twins, Sole
      <4> QED BY <1>t, <4>3, <4>4 DEF OneOwner
    <3>4. LeadTo(Idle)'
      BY <2>1, <3>3, StillLeads DEF LeadTo
    <3>5. Numbered(Idle)' /\ OneOwner(Idle)'
      BY <1>0, <1>t, <2>1 DEF Numbered, OneOwner, Live, Twins
    <3> QED BY <1>0, <1>d, <1>n, <2>1, <3>1, <3>2, <3>4, <3>5, StillAlone
  <2>8. CASE ~(\E i, j \in D : i # j)
    <3>1. PICK q : q = [t EXCEPT !.at = "found", !.previous = P]
      OBVIOUS
    <3>2. q \in Tasks /\ q.at = "found" /\ q.message = t.message /\ q.previous = P /\ SameUpload(q, t)
      BY <2>2, <2>4, <3>1 DEF Upload, Tasks, SameUpload
    <3>3. task' = [c \in {c1} |-> q]
      BY <1>a, <2>3, <2>8, <3>1
    <3>4. Alone(q)'
      BY <1>t, <2>1, <3>2 DEF Alone, Uploading, SameUpload
    <3>5. Charged(q)'
      <4>1. Uploading(q) /\ q.path # "v1" => used[q.user] + q.size =< SerialQuota
        BY <1>t, <2>1, <3>2 DEF Charged, Uploading, SameUpload
      <4> QED BY <1>t, <2>1, <3>2, <4>1, SameCharges
    <3>6. LeadTo(q)'
      BY <1>t, <2>1, <3>2, StillLeads DEF LeadTo
    <3>7. Numbered(q)'
      BY <1>t, <2>1, <3>2 DEF Numbered
    <3>8. OneOwner(q)'
      BY <1>t, <2>1, <2>6, <3>2 DEF OneOwner, Live, Twins, SameUpload
    <3> QED BY <1>d, <1>n, <2>1, <3>2, <3>3, <3>4, <3>5, <3>6, <3>7, <3>8, StillAlone
  <2> QED BY <2>7, <2>8
<1>14. ASSUME S!CommitRow(c1) PROVE SerialInv'
  <2>0. PICK new : new = Len(files) + 1
    OBVIOUS
  <2>1. /\ t.at = "found" /\ UNCHANGED <<chat, inbox, used, total, messages, drops, renames, faults, crashes, sums>>
        /\ files' = Append(Supersede(files, t.previous), NewRow(t))
        /\ S!Goto(c1, IF t.path = "v1" THEN Idle ELSE [t EXCEPT !.at = "committed"])
    BY <1>0, <1>14, <1>a, SerialOperators DEF S!CommitRow, S!At, S!counters
  <2>2. t \in Upload /\ t.size \in Nat
    BY <1>u, <2>1 DEF Uploading
  <2>3. /\ RowsKept /\ DOMAIN files' = DOMAIN files \cup {new} /\ new \notin DOMAIN files
        /\ \A i \in DOMAIN files :
             /\ files'[i].message = files[i].message /\ files'[i].name = files[i].name /\ files'[i].size = files[i].size
             /\ files'[i].replaces = files[i].replaces
             /\ files'[i].live = (files[i].live /\ i \notin t.previous)
        /\ files'[new].owner = t.user /\ files'[new].name = t.name /\ files'[new].size = t.size
        /\ files'[new].message = t.message /\ files'[new].live = TRUE /\ files'[new].replaces = t.previous
    <3>1. Commits(t)
      BY <1>d, <2>1, <2>2, Committing
    <3> QED BY ZenonT(60), <2>0, <2>2, <3>1, Row0 DEF Commits
  <2>4. PICK q \in Tasks : /\ task' = [c \in {c1} |-> q]
                           /\ \/ q = Idle /\ t.path = "v1"
                              \/ q.at = "committed" /\ t.path # "v1" /\ SameUpload(q, t)
    <3>1. [t EXCEPT !.at = "committed"] \in Tasks /\ [t EXCEPT !.at = "committed"].at = "committed"
          /\ SameUpload([t EXCEPT !.at = "committed"], t)
      BY <2>2 DEF Upload, Tasks, SameUpload
    <3> QED BY <1>0, <1>a, <2>1, <3>1
  <2>5. Live' = (Live \ t.previous) \cup {new} /\ new \notin Live
    BY <2>3 DEF Live
  <2>6. DataType' /\ Calm'
    BY <1>d, <2>1, <2>3 DEF DataType, Calm, RowsKept, Nothing
  <2>7. Alone(q)'
    BY <1>0, <1>t, <2>1, <2>4 DEF Alone, Uploading, SameUpload
  <2>8. Numbered(q)'
    <3>1. /\ \A i \in DOMAIN files : files[i].message =< messages
          /\ \A e \in inbox : e.message =< messages
          /\ t.message =< messages
      BY <1>t, <2>1 DEF Numbered
    <3>2. \A i \in DOMAIN files' : files'[i].message =< messages'
      BY <2>1, <2>3, <3>1
    <3>3. q.at \notin {"sent", "found"}
      BY <2>4 DEF Idle
    <3> QED BY <2>1, <3>1, <3>2, <3>3 DEF Numbered
  <2>9. OneOwner(q)'
    <3>1. SUFFICES ASSUME renames = 0, NEW i \in Live', NEW j \in Live', i # j,
                          files'[i].owner = files'[j].owner, files'[i].owner # Nobody
                   PROVE  files'[i].name # files'[j].name
      BY <1>0, <2>1, <2>4 DEF OneOwner, Twins
    <3>2. ASSUME NEW k \in Live, k \notin t.previous
          PROVE  /\ files'[k].name = files[k].name /\ files'[k].owner = files[k].owner
                 /\ files[k].owner = t.user /\ t.user # Nobody => files[k].name # t.name
      <4>1. k \in DOMAIN files
        BY DEF Live
      <4>2. t.user # Nobody => t.path # "v1"
        BY <1>t, <2>1 DEF Alone, Uploading
      <4>3. files[k].owner = t.user /\ t.user # Nobody => files[k].name # t.name
        BY <1>t, <2>1, <3>1, <3>2, <4>2 DEF OneOwner
      <4> QED BY <2>3, <4>1, <4>3 DEF RowsKept
    <3>3. CASE i # new /\ j # new
      <4>1. i \in Live /\ j \in Live /\ i \notin t.previous /\ j \notin t.previous
        BY <2>5, <3>3
      <4>2. files[i].owner = files[j].owner /\ files[i].owner # Nobody /\ files'[i].name = files[i].name
            /\ files'[j].name = files[j].name
        BY <3>1, <3>2, <4>1
      <4> QED BY <1>t, <3>1, <4>1, <4>2 DEF OneOwner, Twins
    <3>4. CASE i = new /\ j # new
      BY <2>3, <2>5, <3>1, <3>2, <3>4
    <3>5. CASE i # new /\ j = new
      BY <2>3, <2>5, <3>1, <3>2, <3>5
    <3> QED BY <3>1, <3>3, <3>4, <3>5
  <2>10. ASSUME NEW u \in Users PROVE LB(u)' =< LB(u) + Due(q, u) /\ LB(u)' \in Nat /\ Due(q, u) \in Nat
    <3> DEFINE D == (Live \ t.previous) \cap OwnedBy(u)
    <3>1. D \in SUBSET (Live \cap OwnedBy(u)) /\ D \in SUBSET DOMAIN files /\ new \notin D
      BY <2>5 DEF OwnedBy
    <3>2. /\ t.user = u => Live' \cap OwnedBy(u)' = D \cup {new}
          /\ t.user # u => Live' \cap OwnedBy(u)' = D
      BY <2>3, <2>5 DEF OwnedBy, RowsKept, Live
    <3>3. \A i \in D : files'[i].size = files[i].size
      BY <2>3, <3>1
    <3> HIDE DEF D
    <3>4. IsFiniteSet(D) /\ Sized(files, D) /\ SizeSum(files, D) =< LB(u) /\ SizeSum(files, D) \in Nat /\ LB(u) \in Nat
      <4>1. IsFiniteSet(D) /\ Sized(files, D)
        BY <1>d, <3>1, LiveSized
      <4>2. LB(u) \in Nat /\ IsFiniteSet(Live \cap OwnedBy(u)) /\ Sized(files, Live \cap OwnedBy(u))
        BY <1>d, LiveBytesNat
      <4> QED BY <3>1, <4>1, <4>2, SumLess, SumSplits DEF LB
    <3>5. SizeSum(files', D) = SizeSum(files, D)
      BY <3>3, <3>4, SumSame
    <3>6. Sized(files', D \cup {new})
      BY <2>2, <2>3, <3>3, <3>4 DEF Sized
    <3>7. SizeSum(files', D \cup {new}) = t.size + SizeSum(files', D)
      BY <2>3, <3>1, <3>4, <3>6, SumAdd
    <3>8. CASE t.user = u
      <4>1. Due(q, u) = t.size
        <5>1. t.path # "v1"
          BY <1>t, <2>1, <3>8, FileStoreAssumption DEF Alone, Uploading
        <5> QED BY <1>0, <2>4, <3>8, <5>1 DEF Due, SameUpload
      <4>2. LB(u)' = t.size + SizeSum(files, D)
        BY <3>2, <3>5, <3>7, <3>8 DEF LB
      <4> QED BY <2>2, <3>4, <4>1, <4>2
    <3>9. CASE t.user # u
      <4>1. Due(q, u) = 0
        BY <1>0, <2>4, <3>9 DEF Due, SameUpload
      <4>2. LB(u)' = SizeSum(files, D)
        BY <3>2, <3>5, <3>9 DEF LB
      <4> QED BY <3>4, <4>1, <4>2
    <3> QED BY <3>8, <3>9
  <2>11. Charged(q)'
    <3>1. ASSUME NEW u \in Users
          PROVE  used'[u] =< SerialQuota /\ LB(u)' + Freed(q, u)' =< used'[u] + Due(q, u)'
      <4>1. Freed(q, u)' = 0 /\ Freed(t, u) = 0 /\ Due(t, u) = 0 /\ Due(q, u)' = Due(q, u)
        BY <1>0, <2>1, <2>4 DEF Freed, Due
      <4>2. used[u] =< SerialQuota /\ LB(u) + 0 =< used[u] + 0 /\ used[u] \in Int
        BY <1>n, <1>t, <4>1 DEF Charged
      <4>3. LB(u) \in Nat
        BY <1>d, LiveBytesNat
      <4>4. UNCHANGED used
        BY <2>1
      <4> QED BY <2>10, <4>1, <4>2, <4>3, <4>4
    <3>2. Uploading(q) /\ q.path # "v1" => used'[q.user] + q.size =< SerialQuota
      BY <1>i, <1>t, <2>1, <2>4 DEF Charged, SameUpload, Uploading
    <3> QED BY <3>1, <3>2 DEF Charged
  <2>12. LeadTo(q)'
    <3>1. SUFFICES ASSUME Sole', NEW m \in chat PROVE Accounted(m)'
      BY <2>1 DEF LeadTo
    <3>2. Sole
      <4>1. PICK u \in Users : DOMAIN files' = {i \in DOMAIN files' : files'[i].owner = u}
        BY <3>1 DEF Sole, OwnedBy
      <4>2. \A i \in DOMAIN files : i \in DOMAIN files' /\ files'[i].owner = files[i].owner
        BY <2>3 DEF RowsKept
      <4>3. \A i \in DOMAIN files : files[i].owner = u
        BY <4>1, <4>2
      <4> QED BY <2>1, <3>1, <4>3 DEF Sole, OwnedBy
    <3>3. CASE t.message = m
      BY <2>3, <2>5, <3>3 DEF Accounted
    <3>4. ASSUME NEW i \in DOMAIN files, files[i].message = m, i \in Live \cup Superseded
          PROVE  files'[i].message = m /\ i \in Live' \cup Superseded' /\ i \in DOMAIN files'
      <4>1. CASE i \in t.previous
        BY <2>3, <3>4, <4>1 DEF Superseded
      <4>2. CASE i \in Live /\ i \notin t.previous
        BY <2>3, <2>5, <3>4, <4>2
      <4>3. CASE i \in Superseded
        <5>1. PICK j \in DOMAIN files : i \in files[j].replaces
          BY <4>3 DEF Superseded
        <5>2. j \in DOMAIN files' /\ i \in files'[j].replaces
          BY <2>3, <5>1
        <5> QED BY <2>3, <3>4, <5>2 DEF Superseded
      <4> QED BY <3>4, <4>1, <4>2, <4>3
    <3>5. Accounted(m) \/ t.message = m
      BY <1>t, <3>2 DEF LeadTo
    <3>6. Accounted(m) => Accounted(m)'
      BY <2>1, <3>4 DEF Accounted
    <3> QED BY <3>3, <3>5, <3>6
  <2> QED BY <2>4, <2>6, <2>7, <2>8, <2>9, <2>11, <2>12 DEF SerialInv
<1>15. ASSUME S!Charge(c1) PROVE SerialInv'
  <2>1. /\ t.at = "committed" /\ UNCHANGED <<files, chat, inbox, total, messages, drops, renames, faults, crashes, sums>>
        /\ used' = [used EXCEPT ![t.user] = @ + t.size] /\ task' = [c \in {c1} |-> Idle]
    BY <1>0, <1>15, <1>a DEF S!Charge, S!At, S!counters
  <2>2. t.user \in Users /\ t.size \in Nat /\ used[t.user] + t.size =< SerialQuota
    BY <1>t, <1>u, <2>1 DEF Alone, Charged, Uploading
  <2>3. used' \in [Users -> Int] /\ \A u \in Users : used'[u] = used[u] + (IF u = t.user THEN t.size ELSE 0)
    BY <1>n, <2>1, <2>2
  <2>4. Charged(Idle)'
    <3>1. ASSUME NEW u \in Users PROVE used'[u] =< SerialQuota /\ LB(u)' + Freed(Idle, u)' =< used'[u] + Due(Idle, u)'
      <4>1. Freed(t, u) = 0 /\ Due(t, u) = (IF u = t.user THEN t.size ELSE 0)
        BY <2>1 DEF Freed, Due
      <4>2. Freed(Idle, u)' = 0 /\ Due(Idle, u)' = 0
        BY <1>0 DEF Freed, Due
      <4>3. LB(u)' = LB(u)
        BY <2>1 DEF LB, Live, OwnedBy
      <4>4. LB(u) + 0 =< used'[u] /\ used[u] =< SerialQuota
        BY <1>t, <2>3, <4>1 DEF Charged
      <4>5. used'[u] =< SerialQuota /\ used'[u] \in Int
        <5>1. CASE u = t.user
          BY <1>n, <2>2, <2>3, <5>1
        <5>2. CASE u # t.user
          <6>1. used'[u] = used[u] + 0 /\ used[u] \in Int
            BY <1>n, <2>3, <5>2
          <6> QED BY <4>4, <6>1
        <5> QED BY <5>1, <5>2
      <4>6. LB(u) \in Nat
        BY <1>d, LiveBytesNat
      <4> QED BY <4>2, <4>3, <4>4, <4>5, <4>6
    <3> QED BY <1>i, <3>1 DEF Charged
  <2>5. Alone(Idle)' /\ LeadTo(Idle)' /\ Numbered(Idle)'
    BY <1>0, <1>t, <2>1, StillLeads DEF Alone, Uploading, LeadTo, Numbered
  <2>6. OneOwner(Idle)'
    BY <1>0, <1>t, <2>1 DEF OneOwner, Live, Twins
  <2> QED BY <1>0, <1>d, <1>n, <2>1, <2>3, <2>4, <2>5, <2>6, StillAlone
<1>16. ASSUME S!FindFile(c1) PROVE SerialInv'
  <2>1. t.at = "idle" /\ UNCHANGED <<files, chat, inbox, used, total, messages, drops, renames, faults, crashes, sums>>
    BY <1>16, <1>a DEF S!FindFile, S!At, S!counters
  <2>2. PICK path \in Paths, i \in Live : S!Goto(c1, [at |-> "deleting", path |-> path, file |-> i])
    BY <1>16, SerialOperators DEF S!FindFile, S!Deletable
  <2>3. PICK q : q = [at |-> "deleting", path |-> path, file |-> i]
    OBVIOUS
  <2>4. q \in Tasks /\ q.at = "deleting" /\ q.file = i
    <3>1. i \in Nat /\ path \in Routers
      BY <1>n, Elements, FileStoreAssumption DEF Live, Routers
    <3> QED BY <2>3, <3>1 DEF Tasks, Removal
  <2>5. task' = [c \in {c1} |-> q] /\ ~Uploading(q)
    BY <1>a, <2>2, <2>3, <2>4 DEF Uploading
  <2>6. Alone(q)'
    BY <2>1, <2>4 DEF Alone, Uploading, Live
  <2>7. Charged(q)'
    BY <1>t, <2>1, <2>4, <2>5, SameCharges
  <2>8. LeadTo(q)' /\ Numbered(q)'
    BY <1>t, <2>1, <2>4, StillLeads DEF LeadTo, Numbered
  <2>9. OneOwner(q)'
    BY <1>t, <2>1, <2>4 DEF OneOwner, Live, Twins
  <2> QED BY <1>d, <1>n, <2>1, <2>4, <2>5, <2>6, <2>7, <2>8, <2>9, StillAlone
<1>17. ASSUME S!DeleteMessage(c1) PROVE SerialInv'
  <2>1. /\ t.at = "deleting" /\ UNCHANGED <<files, inbox, used, total, messages, drops, renames, faults, crashes, sums>>
        /\ chat' = chat \ {files[t.file].message} /\ S!Goto(c1, [t EXCEPT !.at = "emptied"])
    BY <1>17, <1>a DEF S!DeleteMessage, S!At, S!counters
  <2>2. PICK q : q = [t EXCEPT !.at = "emptied"]
    OBVIOUS
  <2>3. q \in Tasks /\ q.at = "emptied" /\ q.file = t.file
    BY <2>1, <2>2, Places, Removals
  <2>4. task' = [c \in {c1} |-> q] /\ t.file \in Live /\ ~Uploading(q)
    BY <1>a, <1>t, <2>1, <2>2, <2>3 DEF Alone, Uploading
  <2>5. Alone(q)'
    BY <2>1, <2>3, <2>4 DEF Alone, Uploading, Live
  <2>6. Charged(q)'
    BY <1>t, <2>1, <2>3, <2>4, SameCharges
  <2>7. LeadTo(q)' /\ Numbered(q)'
    BY <1>t, <2>1, <2>3, StillLeads DEF LeadTo, Numbered
  <2>8. OneOwner(q)'
    BY <1>t, <2>1, <2>3 DEF OneOwner, Live, Twins
  <2>9. chat' \in SUBSET Nat
    BY <1>n, <2>1
  <2> QED BY <1>d, <1>n, <2>1, <2>3, <2>4, <2>5, <2>6, <2>7, <2>8, <2>9, StillAlone
<1>18. ASSUME S!DeleteRow(c1) PROVE SerialInv'
  <2>0. PICK i : i = t.file
    OBVIOUS
  <2>1. /\ t.at = "emptied" /\ UNCHANGED <<chat, inbox, used, total, messages, drops, renames, faults, crashes, sums>>
        /\ files' = [files EXCEPT ![i].live = FALSE]
        /\ S!Goto(c1, IF t.path = "v1" \/ files[i].owner = Nobody THEN Idle ELSE [t EXCEPT !.at = "deleted"])
    BY <1>0, <1>18, <1>a, <2>0 DEF S!DeleteRow, S!At, S!counters
  <2>2. i \in Live /\ i \in DOMAIN files /\ files[i].message \notin chat
    BY <1>t, <2>0, <2>1 DEF Alone, Live
  <2>3. Rewrites(i) /\ files'[i].live = FALSE /\ files'[i].name = files[i].name
    BY <1>d, <2>1, <2>2, RowDeleting
  <2>4. PICK q \in Tasks : /\ task' = [c \in {c1} |-> q]
                           /\ q.at = "idle" \/ (q.at = "deleted" /\ q.file = i /\ files[i].owner \in Users)
    <3>1. [t EXCEPT !.at = "deleted"] \in Tasks /\ [t EXCEPT !.at = "deleted"].at = "deleted"
          /\ [t EXCEPT !.at = "deleted"].file = i
      BY <2>0, <2>1, Places, Removals
    <3>2. files[i].owner \in Users \/ files[i].owner = Nobody
      BY <1>r, <2>2 DEF FileRow
    <3> QED BY <1>0, <1>a, <2>1, <3>1, <3>2
  <2>5. Live' = Live \ {i} /\ ~Uploading(q)
    BY <2>2, <2>3, <2>4 DEF Live, Rewrites, Uploading
  <2>6. DataType' /\ Calm'
    BY <1>d, <2>1, <2>3 DEF DataType, Calm, Rewrites, RowsKept, Nothing
  <2>7. \A j \in Live' : j \in Live /\ files'[j] = files[j]
    BY <2>3, <2>5 DEF Live, Rewrites
  <2>8. OneOwner(q)'
    BY <1>t, <2>1, <2>4, <2>7 DEF OneOwner, Twins
  <2>9. Alone(q)'
    BY <2>2, <2>3, <2>4, <2>5 DEF Alone, Rewrites, RowsKept
  <2>10. Numbered(q)'
    BY <1>t, <2>1, <2>3, <2>4 DEF Numbered, Rewrites
  <2>11. ASSUME NEW u \in Users
         PROVE  LB(u)' + (IF files[i].owner = u THEN files[i].size ELSE 0) = LB(u) /\ LB(u)' \in Nat
    <3> DEFINE D == Live \cap OwnedBy(u)
    <3>1. D \in SUBSET DOMAIN files /\ (i \in D <=> files[i].owner = u) /\ Live' \cap OwnedBy(u)' = D \ {i}
      BY <2>2, <2>3, <2>5 DEF OwnedBy, Live, Rewrites, RowsKept
    <3>2. LB(u) = SizeSum(files, D) /\ LB(u)' = SizeSum(files', D \ {i})
      BY <3>1 DEF LB
    <3> HIDE DEF D
    <3>3. IsFiniteSet(D) /\ Sized(files, D) /\ IsFiniteSet(D \ {i}) /\ \A j \in D \ {i} : files'[j].size = files[j].size
      <4>1. IsFiniteSet(D) /\ Sized(files, D)
        BY <1>d, <3>1, LiveSized
      <4> QED BY <2>3, <3>1, <4>1, FS_Subset DEF Rewrites
    <3>4. SizeSum(files', D \ {i}) = SizeSum(files, D \ {i})
      BY <3>3, SumSame
    <3>5. SizeSum(files, D \ {i}) \in Nat /\ SizeSum(files, D) \in Nat
      BY <3>3, SumLess, SumSplits
    <3>6. CASE i \in D
      <4>1. SizeSum(files, D) = files[i].size + SizeSum(files, D \ {i}) /\ files[i].size \in Nat
        BY <1>r, <2>2, <3>3, <3>6, SumSplits
      <4> QED BY <3>1, <3>2, <3>4, <3>5, <3>6, <4>1
    <3>7. CASE i \notin D
      <4>1. D \ {i} = D
        BY <3>7
      <4>2. LB(u)' = LB(u) /\ LB(u)' \in Nat
        BY <3>2, <3>4, <3>5, <4>1
      <4>3. files[i].owner # u
        BY <3>1, <3>7
      <4> QED BY <4>2, <4>3
    <3> QED BY <3>6, <3>7
  <2>12. Charged(q)'
    <3>1. ASSUME NEW u \in Users PROVE used'[u] =< SerialQuota /\ LB(u)' + Freed(q, u)' =< used'[u] + Due(q, u)'
      <4>1. Freed(t, u) = 0 /\ Due(t, u) = 0 /\ Due(q, u)' = 0
        BY <2>1, <2>4 DEF Freed, Due
      <4>2. files[i].size \in Nat /\ files'[i].size = files[i].size /\ files'[i].owner = files[i].owner
        BY <1>r, <2>2, <2>3 DEF Rewrites, RowsKept
      <4>3. Freed(q, u)' = 0 \/ Freed(q, u)' = (IF files[i].owner = u THEN files[i].size ELSE 0)
        BY <2>4, <4>2 DEF Freed
      <4>4. used[u] =< SerialQuota /\ LB(u) + 0 =< used[u] + 0 /\ used[u] \in Int /\ UNCHANGED used
        BY <1>n, <1>t, <2>1, <4>1 DEF Charged
      <4>5. LB(u)' + Freed(q, u)' =< LB(u)
        BY <2>11, <4>2, <4>3
      <4>6. LB(u) \in Nat /\ LB(u)' \in Nat /\ Freed(q, u)' \in Nat
        BY <1>d, <2>11, <4>2, <4>3, LiveBytesNat
      <4> QED BY <4>1, <4>4, <4>5, <4>6
    <3> QED BY <2>5, <3>1 DEF Charged, Uploading
  <2>13. LeadTo(q)'
    <3>1. SUFFICES ASSUME Sole', NEW m \in chat PROVE Accounted(m)'
      BY <2>1 DEF LeadTo
    <3>2. Sole /\ Superseded' = Superseded
      BY <2>1, <2>3, <3>1 DEF Sole, OwnedBy, Rewrites, RowsKept, Superseded
    <3>3. Accounted(m)
      BY <1>t, <2>1, <3>2 DEF LeadTo
    <3>4. ASSUME NEW j \in DOMAIN files, files[j].message = m, j \in Live \cup Superseded
          PROVE  j \in DOMAIN files' /\ files'[j].message = m /\ j \in Live' \cup Superseded'
      <4>1. j # i
        BY <2>2, <3>4
      <4> QED BY <2>3, <2>5, <3>2, <3>4, <4>1 DEF Rewrites
    <3> QED BY <2>1, <3>3, <3>4 DEF Accounted
  <2> QED BY <2>4, <2>6, <2>8, <2>9, <2>10, <2>12, <2>13 DEF SerialInv
<1>19. ASSUME S!Release(c1) PROVE SerialInv'
  <2>0. PICK row : row = files[t.file]
    OBVIOUS
  <2>1. /\ t.at = "deleted" /\ UNCHANGED <<files, chat, inbox, total, messages, drops, renames, faults, crashes, sums>>
        /\ used' = [used EXCEPT ![row.owner] = @ - row.size] /\ task' = [c \in {c1} |-> Idle]
    BY <1>0, <1>19, <1>a, <2>0 DEF S!Release, S!At, S!counters
  <2>2. row.owner \in Users /\ row.size \in Nat
    BY <1>r, <1>t, <2>0, <2>1 DEF Alone
  <2>3. used' \in [Users -> Int] /\ \A u \in Users : used'[u] = used[u] - (IF u = row.owner THEN row.size ELSE 0)
    BY <1>n, <2>1, <2>2
  <2>4. Charged(Idle)'
    <3>1. ASSUME NEW u \in Users PROVE used'[u] =< SerialQuota /\ LB(u)' + Freed(Idle, u)' =< used'[u] + Due(Idle, u)'
      <4>1. Due(t, u) = 0 /\ Freed(t, u) = (IF u = row.owner THEN row.size ELSE 0)
        BY <2>0, <2>1 DEF Freed, Due
      <4>2. Freed(Idle, u)' = 0 /\ Due(Idle, u)' = 0
        BY <1>0 DEF Freed, Due
      <4>3. LB(u)' = LB(u)
        BY <2>1 DEF LB, Live, OwnedBy
      <4>4. PICK k \in Nat : k = (IF u = row.owner THEN row.size ELSE 0)
        BY <2>2
      <4>5. LB(u) + k =< used[u] + 0 /\ used[u] =< SerialQuota /\ used'[u] = used[u] - k
        BY <1>t, <2>3, <4>1, <4>4 DEF Charged
      <4>6. LB(u) \in Nat /\ used[u] \in Int /\ used'[u] \in Int
        BY <1>d, <1>n, <2>3, LiveBytesNat
      <4>7. LB(u) =< used'[u] /\ used'[u] =< SerialQuota
        BY <4>5, <4>6, SerialAssumption
      <4> QED BY <4>2, <4>3, <4>6, <4>7
    <3> QED BY <1>i, <3>1 DEF Charged
  <2>5. Alone(Idle)' /\ LeadTo(Idle)' /\ Numbered(Idle)'
    BY <1>0, <1>t, <2>1, StillLeads DEF Alone, Uploading, LeadTo, Numbered
  <2>6. OneOwner(Idle)'
    BY <1>0, <1>t, <2>1 DEF OneOwner, Live, Twins
  <2> QED BY <1>0, <1>d, <1>n, <2>1, <2>3, <2>4, <2>5, <2>6, StillAlone
<1>20. ASSUME NEW i \in S!Live, NEW n \in Names, S!Rename(i, n) PROVE SerialInv'
  <2>1. /\ UNCHANGED <<chat, inbox, used, task, total, messages, drops, faults, crashes, sums>>
        /\ renames' = renames + 1 /\ files' = [files EXCEPT ![i].name = n]
    BY <1>20 DEF S!Rename
  <2>2. i \in DOMAIN files /\ files[i] \in FileRow
    BY <1>r, SerialOperators DEF Live
  <2>3. Rewrites(i) /\ files'[i].live = files[i].live
    <3>1. PICK q : q = [files[i] EXCEPT !.name = n]
      OBVIOUS
    <3>2. q \in FileRow /\ q.owner = files[i].owner /\ q.message = files[i].message /\ q.size = files[i].size
          /\ q.replaces = files[i].replaces /\ q.live = files[i].live
      BY <2>2, <3>1 DEF FileRow
    <3>3. files' = [files EXCEPT ![i] = q]
      BY <2>1, <3>1
    <3>4. Rewrites(i) /\ files'[i] = q
      BY <1>d, <2>2, <3>2, <3>3, Rewriting
    <3> QED BY <3>2, <3>4
  <2>4. Live' = Live /\ \A j \in DOMAIN files : files'[j].live = files[j].live /\ files'[j].owner = files[j].owner
                         /\ files'[j].message = files[j].message /\ files'[j].size = files[j].size
    BY <2>3 DEF Live, Rewrites, RowsKept
  <2>5. renames' # 0 /\ renames' \in Nat
    BY <1>n, <2>1
  <2>6. DataType' /\ Calm'
    BY <1>d, <2>1, <2>3, <2>5 DEF DataType, Calm, Rewrites, RowsKept, Nothing
  <2>7. OneOwner(t)' /\ LeadTo(t)'
    BY <2>5 DEF OneOwner, LeadTo, Sole
  <2>8. Alone(t)' /\ Numbered(t)'
    BY <1>t, <2>1, <2>3, <2>4 DEF Alone, Numbered, Live, Rewrites
  <2>9. Charged(t)'
    <3>1. ASSUME NEW u \in Users PROVE LB(u)' = LB(u)
      <4>1. Live' \cap OwnedBy(u)' = Live \cap OwnedBy(u)
        BY <2>3, <2>4 DEF OwnedBy, Live, Rewrites
      <4> QED BY <1>d, <2>4, <4>1, SameBytes DEF Live
    <3>2. ASSUME NEW u PROVE Freed(t, u)' = Freed(t, u) /\ Due(t, u)' = Due(t, u)
      BY <1>t, <2>4 DEF Freed, Due, Alone
    <3>3. UNCHANGED used
      BY <2>1
    <3>4. \A u \in Users : used'[u] =< SerialQuota /\ LB(u)' + Freed(t, u)' =< used'[u] + Due(t, u)'
      BY <1>t, <3>1, <3>2, <3>3 DEF Charged
    <3>5. Uploading(t) /\ t.path # "v1" => used'[t.user] + t.size =< SerialQuota
      BY <1>t, <3>3 DEF Charged
    <3> QED BY <3>4, <3>5 DEF Charged, Uploading
  <2> QED BY <1>t, <2>1, <2>6, <2>7, <2>8, <2>9 DEF SerialInv
<1>21. ASSUME S!DropDocument PROVE SerialInv'
  <2>1. /\ UNCHANGED <<files, used, task, total, renames, faults, crashes, sums>>
        /\ messages' = messages + 1 /\ chat' = chat \cup {messages + 1}
    BY <1>21 DEF S!DropDocument
  <2>2. PICK e \in Mail : e.message = messages + 1 /\ inbox' = inbox \cup {e}
    <3>1. PICK n \in Names, s \in Sizes : inbox' = inbox \cup {[message |-> messages + 1, name |-> n, size |-> s]}
      BY <1>21 DEF S!DropDocument
    <3>2. PICK f : f = [message |-> messages + 1, name |-> n, size |-> s]
      OBVIOUS
    <3>3. messages + 1 \in Nat
      BY <1>n
    <3>4. f \in Mail /\ f.message = messages + 1
      BY <3>2, <3>3 DEF Mail
    <3> QED BY <3>1, <3>2, <3>4
  <2>3. chat' \in SUBSET Nat /\ inbox' \in SUBSET Mail /\ messages' \in Nat
    BY <1>n, <2>1, <2>2
  <2>4. Numbered(t)'
    <3>1. \A m \in Nat : m =< messages => m =< messages + 1
      BY <1>n
    <3>2. (\A f \in inbox : f.message \in Nat) /\ (t.at \in {"sent", "found"} => t.message \in Nat)
      BY <1>n, <1>u DEF Mail, Uploading
    <3>3. /\ \A i \in DOMAIN files : files[i].message =< messages + 1
          /\ \A f \in inbox : f.message =< messages + 1
          /\ t.at \in {"sent", "found"} => t.message =< messages + 1
      BY <1>r, <1>t, <3>1, <3>2 DEF Numbered
    <3>4. e.message =< messages + 1
      BY <1>n, <2>2
    <3> QED BY <2>1, <2>2, <3>3, <3>4 DEF Numbered
  <2>5. Alone(t)'
    <3>1. t.at = "emptied" => files[t.file].message \notin chat'
      <4>1. t.at = "emptied" => files[t.file].message \notin chat /\ files[t.file].message \in Nat /\ files[t.file].message =< messages
        BY <1>r, <1>t DEF Alone, Numbered, Live
      <4>2. \A m \in Nat : m =< messages => m # messages + 1
        BY <1>n
      <4> QED BY <2>1, <4>1, <4>2
    <3> QED BY <1>t, <2>1, <3>1 DEF Alone, Uploading, Live
  <2>6. Charged(t)'
    <3>1. \A u : LB(u)' = LB(u) /\ Freed(t, u)' = Freed(t, u) /\ Due(t, u)' = Due(t, u)
      BY <2>1 DEF LB, Live, OwnedBy, Freed, Due
    <3>2. UNCHANGED used
      BY <2>1
    <3>3. \A u \in Users : used'[u] =< SerialQuota /\ LB(u)' + Freed(t, u)' =< used'[u] + Due(t, u)'
      BY <1>t, <3>1, <3>2 DEF Charged
    <3>4. Uploading(t) /\ t.path # "v1" => used'[t.user] + t.size =< SerialQuota
      BY <1>t, <3>2 DEF Charged
    <3> QED BY <3>3, <3>4 DEF Charged, Uploading
  <2>7. OneOwner(t)'
    BY <1>t, <2>1 DEF OneOwner, Live, Twins
  <2>8. LeadTo(t)'
    <3>1. \A m : Accounted(m) => Accounted(m)'
      BY <2>1, <2>2 DEF Accounted, Live, Superseded
    <3>2. ASSUME NEW m, m = e.message PROVE Accounted(m)'
      <4>1. e \in inbox'
        BY <2>2
      <4> QED BY <3>2, <4>1 DEF Accounted
    <3>3. Sole' => Sole
      BY <2>1 DEF Sole, OwnedBy
    <3>4. \A m \in chat' : m \in chat \/ m = e.message
      BY <2>1, <2>2
    <3> QED BY <1>t, <3>1, <3>2, <3>3, <3>4 DEF LeadTo
  <2>9. task' = [c \in {c1} |-> t]
    BY <1>t, <2>1
  <2>10. used' \in [Users -> Int]
    BY <1>n, <2>1
  <2> QED BY <1>d, <2>1, <2>3, <2>4, <2>5, <2>6, <2>7, <2>8, <2>9, <2>10, StillAlone
<1>22. ASSUME S!Ingest PROVE SerialInv'
  <2>1. PICK m \in inbox :
          /\ inbox' = inbox \ {m}
          /\ files' = Append(files, [owner |-> Nobody, name |-> m.name, size |-> m.size,
                                     message |-> m.message, live |-> TRUE, replaces |-> {}])
    BY <1>22 DEF S!Ingest
  <2>2. UNCHANGED <<chat, used, task, total, messages, drops, renames, faults, crashes, sums>>
    BY <1>22 DEF S!Ingest, S!counters
  <2>3. PICK q : q = [owner |-> Nobody, name |-> m.name, size |-> m.size, message |-> m.message, live |-> TRUE, replaces |-> {}]
    OBVIOUS
  <2>4. q \in FileRow /\ q.message = m.message /\ q.owner = Nobody /\ m.message =< messages
    BY <1>n, <1>t, <2>3 DEF Mail, FileRow, Numbered
  <2>5. PICK new : new = Len(files) + 1
    OBVIOUS
  <2>6. /\ files' \in Seq(FileRow) /\ DOMAIN files' = DOMAIN files \cup {new} /\ new \notin DOMAIN files
        /\ \A i \in DOMAIN files : files'[i] = files[i]
        /\ files'[new] = q
    BY <1>n, <2>1, <2>3, <2>4, <2>5, Appended
  <2>7. DataType' /\ Calm' /\ RowsKept
    BY <1>d, <1>n, <2>1, <2>2, <2>6 DEF DataType, Calm, RowsKept, Nothing
  <2>8. Live \subseteq Live' /\ Live' \subseteq Live \cup {new}
    BY <2>6 DEF Live
  <2>9. ~Sole'
    BY <2>4, <2>6, FileStoreAssumption DEF Sole, OwnedBy
  <2>10. Alone(t)'
    BY <1>t, <2>2, <2>6, <2>8 DEF Alone, Uploading, Live
  <2>11. Numbered(t)'
    BY <1>t, <2>1, <2>2, <2>4, <2>6 DEF Numbered
  <2>12. Charged(t)'
    <3>1. ASSUME NEW u \in Users PROVE LB(u)' = LB(u)
      <4>1. u # Nobody
        BY FileStoreAssumption
      <4>2. Live' \cap OwnedBy(u)' = Live \cap OwnedBy(u)
        BY <2>4, <2>6, <4>1 DEF OwnedBy, Live
      <4> QED BY <1>d, <2>6, <4>2, SameBytes DEF Live
    <3>2. ASSUME NEW u PROVE Freed(t, u)' = Freed(t, u) /\ Due(t, u)' = Due(t, u)
      BY <1>t, <2>6 DEF Freed, Due, Alone
    <3>3. UNCHANGED used
      BY <2>2
    <3>4. \A u \in Users : used'[u] =< SerialQuota /\ LB(u)' + Freed(t, u)' =< used'[u] + Due(t, u)'
      BY <1>t, <3>1, <3>2, <3>3 DEF Charged
    <3>5. Uploading(t) /\ t.path # "v1" => used'[t.user] + t.size =< SerialQuota
      BY <1>t, <3>3 DEF Charged
    <3> QED BY <3>4, <3>5 DEF Charged, Uploading
  <2>13. OneOwner(t)'
    <3>1. SUFFICES ASSUME renames = 0 PROVE OneOwner(t)'
      BY <2>2 DEF OneOwner
    <3>2. \A i \in Live' : files'[i].owner # Nobody => i \in Live /\ files'[i] = files[i]
      BY <2>4, <2>6, <2>8 DEF Live
    <3>3. \A i, j \in Live' : files'[i].owner = files'[j].owner /\ files'[i].owner # Nobody => ~Twins(i, j)'
      BY <1>t, <3>1, <3>2 DEF OneOwner, Twins
    <3>4. t.at = "found" /\ t.path # "v1" => t.user # Nobody
      BY <1>t, FileStoreAssumption DEF Alone, Uploading
    <3>5. t.at = "found" /\ t.path # "v1" =>
            \A i \in Live' : files'[i].owner = t.user /\ files'[i].name = t.name => i \in t.previous
      BY <1>t, <3>1, <3>2, <3>4 DEF OneOwner
    <3> QED BY <3>3, <3>5 DEF OneOwner
  <2>14. LeadTo(t)'
    BY <2>9 DEF LeadTo
  <2> QED BY <1>t, <2>2, <2>7, <2>10, <2>11, <2>12, <2>13, <2>14 DEF SerialInv
<1>23. /\ ~S!SendFails(c1) /\ ~S!DeleteMessageFails(c1) /\ \A u : ~S!SumUp(u)
       /\ ~S!Recompute /\ ~S!Crash
  BY <1>d DEF Calm, Nothing, S!Nothing, S!SendFails, S!DeleteMessageFails, S!SumUp, S!Recompute, S!Crash
<1> QED BY <1>11, <1>12, <1>13, <1>14, <1>15, <1>16, <1>17, <1>18, <1>19, <1>20, <1>21, <1>22, <1>23 DEF S!Next

-----------------------------------------------------------------------------
(* The theorems *)

Inductive ==
  /\ Overlapping(TypeInv /\ Distinct /\ ListedIsStored /\ QuotaInv)
  /\ Serially(SerialInv)

LEMMA Starts == MCInit => Inductive
<1> SUFFICES ASSUME MCInit PROVE Inductive
  OBVIOUS
<1>1. CASE regime = "overlap" /\ Init
  <2>1. /\ files = <<>> /\ inbox = {} /\ total = Nothing
        /\ task = [c \in Clients |-> Idle] /\ used = [u \in Users |-> 0]
    BY <1>1 DEF Init
  <2>2. \A c \in Clients : task[c].at = "idle"
    BY <2>1 DEF Idle
  <2>3. Distinct /\ ListedIsStored
    BY <2>1, <2>2 DEF Distinct, InFlight, ListedIsStored, Live
  <2>4. ASSUME NEW u \in Users
        PROVE  used[u] + SizeSum(task, Waiting(u)) =< Quota + (Cardinality(Clients) - 1) * LargestSize
    <3>1. Waiting(u) = {}
      BY <2>2 DEF Waiting
    <3>2. used[u] = 0 /\ SizeSum(task, Waiting(u)) = 0
      BY <2>1, <3>1, SumOfNone
    <3>3. Quota \in Nat
      BY FileStoreAssumption
    <3>4. PICK n \in Nat : n = (Cardinality(Clients) - 1) * LargestSize
      BY OthersFit
    <3> QED BY <3>2, <3>3, <3>4
  <2>5. QuotaInv
    BY <2>1, <2>4 DEF QuotaInv
  <2> QED BY <1>1, <2>3, <2>5, TypeInit DEF Inductive, Overlapping, Serially
<1>2. CASE regime = "serial" /\ S!Init
  BY <1>2, SerialInit DEF Inductive, Overlapping, Serially
<1> QED BY <1>1, <1>2 DEF MCInit

LEMMA Preserved ==
  ASSUME Inductive, [MCNext]_<<vars, regime>>
  PROVE  Inductive'
<1>1. CASE regime = "overlap" /\ Next /\ UNCHANGED regime
  <2>1. TypeInv /\ Distinct /\ ListedIsStored /\ QuotaInv
    BY <1>1 DEF Inductive, Overlapping
  <2>2. TypeInv'
    BY <1>1, <2>1, TypeStep
  <2>3. Distinct' /\ ListedIsStored'
    BY <1>1, <2>1, MessagesStep
  <2>4. QuotaInv'
    BY <1>1, <2>1, <2>2, QuotaStep
  <2> QED BY <1>1, <2>2, <2>3, <2>4 DEF Inductive, Overlapping, Serially
<1>2. CASE regime = "serial" /\ S!Next /\ UNCHANGED regime
  <2>1. SerialInv'
    BY <1>2, SerialStep DEF Inductive, Serially
  <2> QED BY <1>2, <2>1 DEF Inductive, Overlapping, Serially
<1>3. CASE UNCHANGED <<vars, regime>>
  <2>1. TypeInv => TypeInv'
    BY <1>3 DEF TypeInv, DataType, Sound, vars, Nothing
  <2>2. Distinct => Distinct'
    BY <1>3 DEF Distinct, InFlight, vars
  <2>3. ListedIsStored => ListedIsStored'
    BY <1>3 DEF ListedIsStored, Live, At, vars
  <2>4. QuotaInv => QuotaInv'
    <3>1. UNCHANGED <<used, task, total, sums>> /\ Nothing' = Nothing
      BY <1>3 DEF vars, counters, Nothing
    <3>2. \A u \in Users : Waiting(u)' = Waiting(u)
      BY <3>1 DEF Waiting
    <3>3. \A u \in Users : SizeSum(task, Waiting(u))' = SizeSum(task, Waiting(u))
      BY <3>1, <3>2
    <3> QED BY <3>1, <3>3 DEF QuotaInv
  <2>5. SerialInv => SerialInv'
    <3>1. UNCHANGED <<files, chat, inbox, used, task, total, messages, drops, renames, faults, crashes, sums>>
      BY <1>3 DEF vars, counters
    <3>2. DataType /\ Calm => DataType' /\ Calm'
      BY <3>1 DEF DataType, Calm, Nothing
    <3>3. ASSUME NEW t \in Tasks, Alone(t), Numbered(t), OneOwner(t), LeadTo(t)
          PROVE  Alone(t)' /\ Numbered(t)' /\ OneOwner(t)' /\ LeadTo(t)'
      BY <3>1, <3>3, StillLeads DEF Alone, Numbered, OneOwner, LeadTo, Live, Uploading, Twins
    <3>4. ASSUME NEW t \in Tasks, Charged(t) PROVE Charged(t)'
      <4>1. \A u : LB(u)' = LB(u) /\ Freed(t, u)' = Freed(t, u) /\ Due(t, u)' = Due(t, u)
        BY <3>1 DEF LB, Live, OwnedBy, Freed, Due
      <4>2. UNCHANGED used
        BY <3>1
      <4>3. \A u \in Users : used'[u] =< SerialQuota /\ LB(u)' + Freed(t, u)' =< used'[u] + Due(t, u)'
        BY <3>4, <4>1, <4>2 DEF Charged
      <4>4. Uploading(t) /\ t.path # "v1" => used'[t.user] + t.size =< SerialQuota
        BY <3>4, <4>2 DEF Charged
      <4> QED BY <4>3, <4>4 DEF Charged, Uploading
    <3> QED BY <3>1, <3>2, <3>3, <3>4 DEF SerialInv
  <2> QED BY <1>3, <2>1, <2>2, <2>3, <2>4, <2>5 DEF Inductive, Overlapping, Serially
<1> QED BY <1>1, <1>2, <1>3 DEF MCNext

LEMMA Always == MCSpec => []Inductive
BY Starts, Preserved, PTL DEF MCSpec

(* The live files fit in the quota, whatever the request is at.            *)
LEMMA SerialCovers == ASSUME SerialInv, NEW u \in Users PROVE LB(u) =< SerialQuota
<1>1. PICK t \in Tasks : Charged(t) /\ Alone(t)
  BY DEF SerialInv
<1>2. /\ LB(u) \in Nat /\ used[u] \in Int /\ used[u] =< SerialQuota
      /\ LB(u) + Freed(t, u) =< used[u] + Due(t, u)
  BY <1>1, LiveBytesNat DEF Charged, SerialInv, DataType
<1>3. Freed(t, u) \in Nat
  <2>1. t.at = "deleted" => t.file \in DOMAIN files /\ files \in Seq(FileRow)
    BY <1>1 DEF Alone, SerialInv, DataType
  <2>2. t.at = "deleted" => files[t.file] \in FileRow
    BY <2>1
  <2>3. t.at = "deleted" => files[t.file].size \in Nat
    BY <2>2, Natural
  <2> QED BY <2>3 DEF Freed
<1>4. CASE t.at = "committed" /\ t.user = u
  <2>1. t \in Upload /\ Uploading(t) /\ t.path # "v1"
    BY <1>1, <1>4, Places DEF Alone, Uploading
  <2>2. t.size \in Nat /\ Due(t, u) = t.size /\ used[u] + t.size =< SerialQuota
    BY <1>1, <1>4, <2>1, Natural DEF Charged, Due
  <2> QED BY <1>2, <1>3, <2>2, SerialAssumption
<1>5. CASE ~(t.at = "committed" /\ t.user = u)
  <2>1. Due(t, u) = 0
    BY <1>5 DEF Due
  <2> QED BY <1>2, <1>3, <2>1, SerialAssumption
<1> QED BY <1>4, <1>5

(* A file that is listed has its message in the chat, however uploads,     *)
(* deletions, ingested documents and failing calls overlap, except while a *)
(* request is just deleting it or after a crash in the middle of that; and *)
(* with one request at a time, no failing call and no crash, every message *)
(* of a cloud that one user filled, nothing renamed in it, is a listed     *)
(* file, an earlier version of one, or about to be ingested.               *)
THEOREM RowsDoMatchMessages == MCSpec => []RowsMatchMessages
<1>1. Inductive => RowsMatchMessages
  <2> SUFFICES ASSUME Inductive PROVE RowsMatchMessages
    OBVIOUS
  <2>1. Overlapping(ListedIsStored)
    BY DEF Inductive, Overlapping
  <2>2. ASSUME SerialInv PROVE S!NoOrphans
    <3>1. PICK t \in Tasks : task = [c \in {c1} |-> t] /\ LeadTo(t)
      BY <2>2 DEF SerialInv
    <3>2. SUFFICES ASSUME S!Quiet, Sole, NEW m \in chat PROVE Accounted(m)
      BY SerialOperators DEF S!NoOrphans
    <3>3. t.at = "idle"
      BY <3>1, <3>2 DEF S!Quiet, S!At
    <3> QED BY <3>1, <3>2, <3>3 DEF LeadTo
  <2> QED BY <2>1, <2>2 DEF Inductive, RowsMatchMessages, Serially
<1> QED BY <1>1, Always, PTL

(* Uploads that passed the check before others were charged take a user    *)
(* over the quota by no more than one largest file for each other request  *)
(* in progress, as long as nothing recomputed the charges meanwhile; with  *)
(* one request at a time, of whichever router, the live files of every     *)
(* user fit in the quota.                                                  *)
THEOREM OvershootIsBounded == MCSpec => []QuotaOvershootBounded
<1>1. Inductive => QuotaOvershootBounded
  <2> SUFFICES ASSUME Inductive PROVE QuotaOvershootBounded
    OBVIOUS
  <2>1. ASSUME TypeInv, QuotaInv PROVE OvershootBounded
    <3>1. SUFFICES ASSUME sums = 0, NEW u \in Users
                   PROVE  used[u] =< Quota + (Cardinality(Clients) - 1) * LargestSize
      BY DEF OvershootBounded
    <3>2. used[u] + SizeSum(task, Waiting(u)) =< Quota + (Cardinality(Clients) - 1) * LargestSize
      BY <2>1, <3>1 DEF QuotaInv
    <3>3. IsFiniteSet(Waiting(u)) /\ Sized(task, Waiting(u))
      BY <2>1, WaitingSized
    <3>4. SizeSum(task, Waiting(u)) \in Nat
      BY <3>3, SumSplits
    <3>5. PICK n \in Nat : n = (Cardinality(Clients) - 1) * LargestSize
      BY OthersFit
    <3> QED BY <2>1, <3>1, <3>2, <3>4, <3>5, Charges
  <2>2. ASSUME SerialInv PROVE S!NeverOverQuota
    <3> QED BY <2>2, SerialCovers, SerialOperators DEF S!NeverOverQuota
  <2> QED BY <2>1, <2>2 DEF Inductive, QuotaOvershootBounded, Overlapping, Serially
<1> QED BY <1>1, Always, PTL

(* Between requests, one at a time, storage_used_bytes of every user is at *)
(* least the bytes of the user's live files.                               *)
THEOREM ChargesDoCover == MCSpec => []SerialUsedCoversLive
<1>1. Inductive => SerialUsedCoversLive
  <2> SUFFICES ASSUME SerialInv PROVE S!UsedCoversLive
    BY DEF Inductive, SerialUsedCoversLive, Serially
  <2>1. PICK t \in Tasks : task = [c \in {c1} |-> t] /\ Charged(t)
    BY DEF SerialInv
  <2>2. SUFFICES ASSUME S!Quiet, NEW u \in Users PROVE LB(u) =< used[u]
    BY SerialOperators DEF S!UsedCoversLive
  <2>3. t.at = "idle"
    BY <2>1, <2>2 DEF S!Quiet, S!At
  <2>4. LB(u) + 0 =< used[u] + 0
    BY <2>1, <2>3 DEF Charged, Freed, Due
  <2>5. LB(u) \in Nat /\ used[u] \in Int
    BY LiveBytesNat DEF SerialInv, DataType
  <2> QED BY <2>4, <2>5
<1> QED BY <1>1, Always, PTL

(* One request at a time leaves a user one live file of a name, whichever  *)
(* routers, other users and ingested documents use the name too, as long   *)
(* as no file was renamed.                                                 *)
THEOREM UserHasOneOfAName == MCSpec => []SerialOneLivePerOwner
<1>1. Inductive => SerialOneLivePerOwner
  <2> SUFFICES ASSUME SerialInv PROVE S!OneLivePerOwner
    BY DEF Inductive, SerialOneLivePerOwner, Serially
  <2>1. PICK t \in Tasks : OneOwner(t)
    BY DEF SerialInv
  <2> QED BY <2>1, SerialOperators DEF S!OneLivePerOwner, S!Twins, Twins, OneOwner
<1> QED BY <1>1, Always, PTL

=============================================================================
