--------------------------- MODULE InMemoryProofs ---------------------------
(***************************************************************************)
(* What is proved of MCInMemory: of the cache for every set of keys, values*)
(* and limits, of the pool and the buckets for every set of callers and    *)
(* clients and every size, of the cached reads for every set of clients    *)
(* and documents.                                                          *)
(***************************************************************************)
EXTENDS MCInMemory, SequenceTheorems, FiniteSetTheorems, NaturalsInduction, WellFoundedInduction, TLAPS

-----------------------------------------------------------------------------
(* The pool *)

Places == {"new", "queued", "granted", "running", "done"}
Holding == W!In("granted") \cup W!In("running")
Running == W!In("running")

(* A job waits exactly once, so that the slot handed to the first waiter   *)
(* is the slot of a job that holds none.                                   *)
PoolInv ==
  /\ job \in [Jobs -> Places] /\ waiters \in Seq(Jobs) /\ free \in Nat /\ active \in Int
  /\ \A i \in DOMAIN waiters : job[waiters[i]] = "queued"
  /\ \A i, j \in DOMAIN waiters : waiters[i] = waiters[j] => i = j
  /\ IsFiniteSet(Holding) /\ IsFiniteSet(Running)
  /\ free + Cardinality(Holding) = MaxWorkers
  /\ active = Cardinality(Running)

(* What one job moving from one place to another does to the sets.         *)
LEMMA Moves ==
  ASSUME PoolInv, NEW j \in Jobs, NEW place \in Places, job' = [job EXCEPT ![j] = place]
  PROVE  /\ job' \in [Jobs -> Places] /\ job'[j] = place
         /\ \A i \in Jobs : i # j => job'[i] = job[i]
         /\ place \in {"granted", "running"} => Holding' = Holding \cup {j}
         /\ place \notin {"granted", "running"} => Holding' = Holding \ {j}
         /\ place = "running" => Running' = Running \cup {j}
         /\ place # "running" => Running' = Running \ {j}
BY DEF PoolInv, Holding, Running, W!In, Places

(* A slot that is given back is free again, or the first waiter has it.    *)
LEMMA Releasing ==
  ASSUME PoolInv, NEW j \in Jobs, job[j] \in {"granted", "running"},
         W!Release([job EXCEPT ![j] = "done"], waiters)
  PROVE  /\ job' \in [Jobs -> Places] /\ waiters' \in Seq(Jobs) /\ free' \in Nat
         /\ \A i \in DOMAIN waiters' : job'[waiters'[i]] = "queued"
         /\ \A i, k \in DOMAIN waiters' : waiters'[i] = waiters'[k] => i = k
         /\ IsFiniteSet(Holding') /\ free' + Cardinality(Holding') = MaxWorkers
         /\ Running' = Running \ {j}
<1>0. /\ job \in [Jobs -> Places] /\ waiters \in Seq(Jobs) /\ free \in Nat
      /\ \A i \in DOMAIN waiters : job[waiters[i]] = "queued"
      /\ \A i, k \in DOMAIN waiters : waiters[i] = waiters[k] => i = k
      /\ IsFiniteSet(Holding) /\ free + Cardinality(Holding) = MaxWorkers
  BY DEF PoolInv
<1>1. j \in Holding /\ Cardinality(Holding) \in Nat /\ IsFiniteSet(Holding \ {j})
      /\ Cardinality(Holding \ {j}) = Cardinality(Holding) - 1
  <2>1. j \in Holding
    BY DEF Holding, Running, W!In
  <2> QED BY <1>0, <2>1, FS_RemoveElement, FS_CardinalityType
<1>2. CASE waiters = <<>>
  <2>1. job' = [job EXCEPT ![j] = "done"] /\ waiters' = waiters /\ free' = free + 1
    BY <1>2 DEF W!Release
  <2>2. /\ job' \in [Jobs -> Places] /\ Holding' = Holding \ {j} /\ Running' = Running \ {j}
    BY <2>1, Moves DEF Places
  <2> QED BY <1>0, <1>1, <1>2, <2>1, <2>2
<1>3. CASE waiters # <<>>
  <2>1. PICK h : h = Head(waiters)
    OBVIOUS
  <2>2. h \in Jobs /\ h = waiters[1] /\ job[h] = "queued" /\ h # j
    BY <1>0, <1>3, <2>1
  <2>3. job' = [[job EXCEPT ![j] = "done"] EXCEPT ![h] = "granted"] /\ waiters' = Tail(waiters) /\ free' = free
    BY <1>3, <2>1 DEF W!Release
  <2>4. /\ job' \in [Jobs -> Places] /\ job'[j] = "done" /\ job'[h] = "granted"
        /\ \A i \in Jobs : i # j /\ i # h => job'[i] = job[i]
    BY <1>0, <2>2, <2>3 DEF Places
  <2>5. Holding' = (Holding \ {j}) \cup {h} /\ h \notin Holding /\ Running' = Running \ {j}
    BY <2>2, <2>4 DEF Holding, Running, W!In
  <2>6. IsFiniteSet(Holding') /\ Cardinality(Holding') = Cardinality(Holding)
    <3>1. h \notin Holding \ {j}
      BY <2>5
    <3>2. IsFiniteSet((Holding \ {j}) \cup {h}) /\ Cardinality((Holding \ {j}) \cup {h}) = Cardinality(Holding \ {j}) + 1
      BY <1>1, <3>1, FS_AddElement
    <3> QED BY <1>1, <2>5, <3>2
  <2>7. /\ waiters' \in Seq(Jobs)
        /\ \A i \in DOMAIN waiters' : i + 1 \in DOMAIN waiters /\ i + 1 # 1 /\ i \in Nat /\ waiters'[i] = waiters[i + 1]
    BY <1>0, <1>3, <2>3
  <2>8. ASSUME NEW i \in DOMAIN waiters' PROVE job'[waiters'[i]] = "queued"
    <3>1. waiters[i + 1] \in Jobs /\ job[waiters[i + 1]] = "queued" /\ waiters[i + 1] # h
      BY <1>0, <1>3, <2>2, <2>7
    <3>2. waiters[i + 1] # j
      BY <3>1
    <3> QED BY <2>4, <2>7, <3>1, <3>2
  <2>9. ASSUME NEW i \in DOMAIN waiters', NEW k \in DOMAIN waiters', waiters'[i] = waiters'[k] PROVE i = k
    <3>1. i + 1 = k + 1
      BY <1>0, <2>7, <2>9
    <3> QED BY <2>7, <3>1
  <2> QED BY <1>0, <2>3, <2>4, <2>5, <2>6, <2>7, <2>8, <2>9
<1> QED BY <1>2, <1>3

(* A waiter that gives up leaves the queue, and the others keep their turn.*)
LEMMA GivingUp ==
  ASSUME PoolInv, NEW j \in Jobs
  PROVE  /\ W!RemoveFirst(waiters, j) \in Seq(Jobs)
         /\ \A i \in DOMAIN W!RemoveFirst(waiters, j) :
              \E k \in DOMAIN waiters :
                /\ W!RemoveFirst(waiters, j)[i] = waiters[k] /\ waiters[k] # j
         /\ \A i, k \in DOMAIN W!RemoveFirst(waiters, j) :
              W!RemoveFirst(waiters, j)[i] = W!RemoveFirst(waiters, j)[k] => i = k
<1>0. waiters \in Seq(Jobs) /\ Len(waiters) \in Nat /\ DOMAIN waiters = 1..Len(waiters)
      /\ \A i, k \in DOMAIN waiters : waiters[i] = waiters[k] => i = k
  BY DEF PoolInv
<1>1. CASE \A i \in 1..Len(waiters) : waiters[i] # j
  <2>1. W!RemoveFirst(waiters, j) = waiters
    BY <1>1 DEF W!RemoveFirst
  <2> QED BY <1>0, <1>1, <2>1
<1>2. ASSUME NEW m \in 1..Len(waiters), waiters[m] = j
      PROVE  W!RemoveFirst(waiters, j) = SubSeq(waiters, 1, m - 1) \o SubSeq(waiters, m + 1, Len(waiters))
  <2>1. {i \in 1..Len(waiters) : waiters[i] = j} = {m}
    BY <1>0, <1>2
  <2>2. W!SelectInSeq(waiters, LAMBDA v : v = j) = m
    <3>1. W!Min({m}) = m
      BY DEF W!Min
    <3> QED BY <2>1, <3>1 DEF W!SelectInSeq
  <2> QED BY <1>2, <2>2 DEF W!RemoveFirst, W!RemoveAt
<1>3. ASSUME NEW m \in 1..Len(waiters), waiters[m] = j,
             NEW rest, rest = SubSeq(waiters, 1, m - 1) \o SubSeq(waiters, m + 1, Len(waiters))
      PROVE  /\ rest \in Seq(Jobs)
             /\ \A i \in DOMAIN rest : \E k \in DOMAIN waiters : rest[i] = waiters[k] /\ waiters[k] # j
             /\ \A i, k \in DOMAIN rest : rest[i] = rest[k] => i = k
  <2>0. PICK first, last : first = SubSeq(waiters, 1, m - 1) /\ last = SubSeq(waiters, m + 1, Len(waiters))
    OBVIOUS
  <2>a. first \in Seq(Jobs) /\ Len(first) = m - 1 /\ \A i \in 1..(m - 1) : first[i] = waiters[i]
    <3>1. \A i \in 1..(m - 1) : waiters[i] \in Jobs
      BY <1>0
    <3> QED BY <1>0, <2>0, <3>1
  <2>b. last \in Seq(Jobs) /\ Len(last) = Len(waiters) - m /\ \A i \in 1..(Len(waiters) - m) : last[i] = waiters[m + i]
    <3>0. m \in Int /\ Len(waiters) \in Int /\ m =< Len(waiters) /\ m + 1 \in Int
      BY <1>0
    <3>1. \A i \in (m + 1)..Len(waiters) : waiters[i] \in Jobs
      BY <1>0
    <3>2. /\ last \in Seq(Jobs) /\ Len(last) = IF m + 1 =< Len(waiters) THEN Len(waiters) - (m + 1) + 1 ELSE 0
          /\ \A i \in 1..(Len(waiters) - (m + 1) + 1) : last[i] = waiters[m + 1 + i - 1]
      BY <2>0, <3>0, <3>1, SubSeqProperties
    <3>3. \A i \in 1..(Len(waiters) - m) : m + 1 + i - 1 = m + i /\ i \in 1..(Len(waiters) - (m + 1) + 1)
      BY <3>0
    <3>4. \A i \in 1..(Len(waiters) - m) : last[i] = waiters[m + i]
      BY <3>2, <3>3
    <3> QED BY <3>0, <3>2, <3>4
  <2>c. /\ rest \in Seq(Jobs) /\ Len(rest) = Len(first) + Len(last)
        /\ \A i \in 1..(Len(first) + Len(last)) : rest[i] = IF i =< Len(first) THEN first[i] ELSE last[i - Len(first)]
    <3>1. rest = first \o last
      BY <1>3, <2>0
    <3>2. first \in Seq(Jobs) /\ last \in Seq(Jobs)
      BY <2>a, <2>b
    <3> HIDE <1>3, <2>0
    <3> QED BY <3>1, <3>2, ConcatProperties
  <2>1. rest \in Seq(Jobs) /\ Len(rest) = Len(waiters) - 1 /\ DOMAIN rest = 1..(Len(waiters) - 1)
    BY <1>0, <2>a, <2>b, <2>c
  <2>2. \A i \in DOMAIN rest : /\ i \in Nat
                               /\ i < m => rest[i] = waiters[i] /\ i \in DOMAIN waiters
                               /\ i >= m => rest[i] = waiters[i + 1] /\ i + 1 \in DOMAIN waiters
    <3> TAKE i \in DOMAIN rest
    <3>1. i \in Nat /\ i =< Len(waiters) - 1 /\ i >= 1 /\ m \in Nat
          /\ Len(first) = m - 1 /\ Len(last) = Len(waiters) - m
      BY <1>0, <2>1, <2>a, <2>b
    <3>0. rest[i] = IF i =< m - 1 THEN first[i] ELSE last[i - (m - 1)]
      <4>1. i \in 1..(Len(first) + Len(last))
        BY <1>0, <3>1
      <4> QED BY <2>c, <3>1, <4>1
    <3>2. ASSUME i < m PROVE rest[i] = waiters[i]
      <4>1. i \in 1..(m - 1) /\ i =< m - 1
        BY <3>1, <3>2
      <4> QED BY <2>a, <3>0, <4>1
    <3>3. ASSUME i >= m PROVE rest[i] = waiters[i + 1]
      <4>1. i - (m - 1) \in 1..(Len(waiters) - m) /\ ~(i =< m - 1) /\ m + (i - (m - 1)) = i + 1
        BY <1>0, <3>1, <3>3
      <4> QED BY <2>b, <3>0, <4>1
    <3> QED BY <1>0, <3>1, <3>2, <3>3
  <2>3. m \in Nat
    OBVIOUS
  <2>4. \A i \in DOMAIN rest : \E k \in DOMAIN waiters : rest[i] = waiters[k] /\ waiters[k] # j
    <3> TAKE i \in DOMAIN rest
    <3>1. CASE i < m
      BY <1>0, <1>3, <2>2, <2>3, <3>1
    <3>2. CASE ~(i < m)
      <4>1. i >= m /\ i + 1 # m
        BY <2>2, <2>3, <3>2
      <4> QED BY <1>0, <1>3, <2>2, <2>3, <4>1
    <3> QED BY <3>1, <3>2
  <2>5. ASSUME NEW i \in DOMAIN rest, NEW k \in DOMAIN rest, rest[i] = rest[k] PROVE i = k
    <3>1. CASE i < m /\ k < m
      BY <1>0, <2>2, <2>5, <3>1
    <3>2. CASE i >= m /\ k >= m
      <4>1. i + 1 = k + 1
        BY <1>0, <2>2, <2>5, <3>2
      <4> QED BY <2>2, <4>1
    <3>3. CASE i < m /\ k >= m
      <4>1. i = k + 1
        BY <1>0, <2>2, <2>5, <3>3
      <4> QED BY <2>2, <2>3, <3>3, <4>1
    <3>4. CASE i >= m /\ k < m
      <4>1. i + 1 = k
        BY <1>0, <2>2, <2>5, <3>4
      <4> QED BY <2>2, <2>3, <3>4, <4>1
    <3> QED BY <2>2, <2>3, <3>1, <3>2, <3>3, <3>4
  <2> QED BY <2>1, <2>4, <2>5
<1>4. CASE \E m \in 1..Len(waiters) : waiters[m] = j
  <2>1. PICK m \in 1..Len(waiters) : waiters[m] = j
    BY <1>4
  <2>2. PICK rest : rest = SubSeq(waiters, 1, m - 1) \o SubSeq(waiters, m + 1, Len(waiters))
    OBVIOUS
  <2>3. W!RemoveFirst(waiters, j) = rest
    BY <1>2, <2>1, <2>2
  <2> QED BY <1>3, <2>1, <2>2, <2>3
<1> QED BY <1>1, <1>4

LEMMA PoolInit == W!Init => PoolInv
<1> SUFFICES ASSUME W!Init PROVE PoolInv
  OBVIOUS
<1>1. job = [j \in Jobs |-> "new"] /\ waiters = <<>> /\ free = MaxWorkers /\ active = 0
  BY DEF W!Init
<1>2. Holding = {} /\ Running = {}
  BY <1>1 DEF Holding, Running, W!In
<1>3. MaxWorkers \in Nat
  BY InMemoryAssumption DEF W!WorkersAssumption
<1> QED BY <1>1, <1>2, <1>3, FS_EmptySet DEF PoolInv, Places

LEMMA PoolStep ==
  ASSUME PoolInv, W!PoolNext
  PROVE  PoolInv'
<1>0. /\ job \in [Jobs -> Places] /\ waiters \in Seq(Jobs) /\ free \in Nat /\ active \in Int
      /\ \A i \in DOMAIN waiters : job[waiters[i]] = "queued"
      /\ \A i, j \in DOMAIN waiters : waiters[i] = waiters[j] => i = j
      /\ IsFiniteSet(Holding) /\ IsFiniteSet(Running)
      /\ free + Cardinality(Holding) = MaxWorkers
      /\ active = Cardinality(Running)
      /\ Cardinality(Holding) \in Nat /\ Cardinality(Running) \in Nat
  BY FS_CardinalityType DEF PoolInv
<1>1. ASSUME NEW j \in Jobs, W!Submit(j) PROVE PoolInv'
  <2>0. job[j] \in {"new", "done"} /\ j \notin Holding /\ j \notin Running /\ active' = active
        /\ \A i \in DOMAIN waiters : waiters[i] \in Jobs /\ waiters[i] # j
    BY <1>0, <1>1 DEF W!Submit, Holding, Running, W!In
  <2>1. CASE free > 0 /\ waiters = <<>>
    <3>1. job' = [job EXCEPT ![j] = "granted"] /\ free' = free - 1 /\ waiters' = waiters
      BY <1>1, <2>1 DEF W!Submit
    <3>0. Holding' = Holding \cup {j} /\ Running' = Running \ {j} /\ job' \in [Jobs -> Places]
      BY <3>1, Moves DEF Places
    <3>2. Holding' = Holding \cup {j} /\ Running' = Running /\ job' \in [Jobs -> Places]
      BY <2>0, <3>0
    <3>3. IsFiniteSet(Holding') /\ Cardinality(Holding') = Cardinality(Holding) + 1
      BY <1>0, <2>0, <3>2, FS_AddElement
    <3> QED BY <1>0, <2>0, <2>1, <3>1, <3>2, <3>3 DEF PoolInv
  <2>2. CASE ~(free > 0 /\ waiters = <<>>)
    <3>1. job' = [job EXCEPT ![j] = "queued"] /\ waiters' = Append(waiters, j) /\ free' = free
      BY <1>1, <2>2 DEF W!Submit
    <3>2. Holding' = Holding /\ Running' = Running /\ job' \in [Jobs -> Places]
          /\ job'[j] = "queued" /\ \A i \in Jobs : i # j => job'[i] = job[i]
      <4>1. /\ Holding' = Holding \ {j} /\ Running' = Running \ {j} /\ job' \in [Jobs -> Places]
            /\ job'[j] = "queued" /\ \A i \in Jobs : i # j => job'[i] = job[i]
        BY <3>1, Moves DEF Places
      <4> QED BY <2>0, <4>1
    <3>3. /\ waiters' \in Seq(Jobs) /\ DOMAIN waiters' = DOMAIN waiters \cup {Len(waiters) + 1}
          /\ waiters'[Len(waiters) + 1] = j /\ \A i \in DOMAIN waiters : waiters'[i] = waiters[i]
      BY <1>0, <3>1
    <3>4. \A i \in DOMAIN waiters' : job'[waiters'[i]] = "queued"
      BY <1>0, <2>0, <3>2, <3>3
    <3>5. \A i, k \in DOMAIN waiters' : waiters'[i] = waiters'[k] => i = k
      BY <1>0, <2>0, <3>3
    <3> QED BY <1>0, <2>0, <3>1, <3>2, <3>3, <3>4, <3>5 DEF PoolInv
  <2> QED BY <2>1, <2>2
<1>2. ASSUME NEW j \in Jobs, W!Begin(j) PROVE PoolInv'
  <2>1. job[j] = "granted" /\ job' = [job EXCEPT ![j] = "running"] /\ active' = active + 1
        /\ waiters' = waiters /\ free' = free
    BY <1>2 DEF W!Begin
  <2>2. /\ job' \in [Jobs -> Places] /\ Holding' = Holding \cup {j} /\ Running' = Running \cup {j}
        /\ \A i \in Jobs : i # j => job'[i] = job[i]
    BY <2>1, Moves DEF Places
  <2>3. j \in Holding /\ j \notin Running
    BY <2>1 DEF Holding, Running, W!In
  <2>4. IsFiniteSet(Running') /\ Cardinality(Running') = Cardinality(Running) + 1
    BY <1>0, <2>2, <2>3, FS_AddElement
  <2>5. Holding' = Holding
    BY <2>2, <2>3
  <2>6. \A i \in DOMAIN waiters : job'[waiters[i]] = "queued"
    BY <1>0, <2>1, <2>2
  <2>7. job' \in [Jobs -> Places] /\ waiters' = waiters /\ free' = free /\ active' = Cardinality(Running')
    BY <1>0, <2>1, <2>2, <2>4
  <2> QED BY <1>0, <2>4, <2>5, <2>6, <2>7 DEF PoolInv
<1>3. ASSUME NEW j \in Jobs, W!End(j) PROVE PoolInv'
  <2>1. job[j] = "running" /\ W!Release([job EXCEPT ![j] = "done"], waiters) /\ active' = active - 1
    BY <1>3 DEF W!End, W!Released, W!Left
  <2>2. j \in Running
    BY <2>1 DEF Running, W!In
  <2>3. /\ job' \in [Jobs -> Places] /\ waiters' \in Seq(Jobs) /\ free' \in Nat
        /\ \A i \in DOMAIN waiters' : job'[waiters'[i]] = "queued"
        /\ \A i, k \in DOMAIN waiters' : waiters'[i] = waiters'[k] => i = k
        /\ IsFiniteSet(Holding') /\ free' + Cardinality(Holding') = MaxWorkers
        /\ Running' = Running \ {j}
    BY <2>1, Releasing
  <2>4. IsFiniteSet(Running') /\ Cardinality(Running') = Cardinality(Running) - 1
    BY <1>0, <2>2, <2>3, FS_RemoveElement
  <2> QED BY <1>0, <2>1, <2>3, <2>4 DEF PoolInv
<1>4. ASSUME NEW j \in Jobs, W!Cancel(j) PROVE PoolInv'
  <2>1. CASE job[j] = "queued"
    <3>1. job' = [job EXCEPT ![j] = "done"] /\ waiters' = W!RemoveFirst(waiters, j) /\ free' = free /\ active' = active
      BY <1>4, <2>1 DEF W!Cancel
    <3>2. j \notin Holding /\ j \notin Running
      BY <2>1 DEF Holding, Running, W!In
    <3>3. /\ job' \in [Jobs -> Places] /\ Holding' = Holding /\ Running' = Running
          /\ \A i \in Jobs : i # j => job'[i] = job[i]
      <4>1. /\ job' \in [Jobs -> Places] /\ Holding' = Holding \ {j} /\ Running' = Running \ {j}
            /\ \A i \in Jobs : i # j => job'[i] = job[i]
        BY <3>1, Moves DEF Places
      <4> QED BY <3>2, <4>1
    <3>4. /\ waiters' \in Seq(Jobs)
          /\ \A i \in DOMAIN waiters' : \E k \in DOMAIN waiters : waiters'[i] = waiters[k] /\ waiters[k] # j
          /\ \A i, k \in DOMAIN waiters' : waiters'[i] = waiters'[k] => i = k
      BY <3>1, GivingUp
    <3>5. \A k \in DOMAIN waiters : waiters[k] \in Jobs
      BY <1>0
    <3>6. \A i \in DOMAIN waiters' : job'[waiters'[i]] = "queued"
      BY <1>0, <3>3, <3>4, <3>5
    <3> QED BY <1>0, <3>1, <3>3, <3>4, <3>6 DEF PoolInv
  <2>2. CASE job[j] # "queued"
    <3>1. job[j] = "granted" /\ W!Release([job EXCEPT ![j] = "done"], waiters) /\ active' = active
      BY <1>4, <2>2 DEF W!Cancel
    <3>2. /\ job' \in [Jobs -> Places] /\ waiters' \in Seq(Jobs) /\ free' \in Nat
          /\ \A i \in DOMAIN waiters' : job'[waiters'[i]] = "queued"
          /\ \A i, k \in DOMAIN waiters' : waiters'[i] = waiters'[k] => i = k
          /\ IsFiniteSet(Holding') /\ free' + Cardinality(Holding') = MaxWorkers
          /\ Running' = Running \ {j}
      BY <3>1, Releasing
    <3>3. j \notin Running
      BY <3>1 DEF Running, W!In
    <3>4. Running' = Running
      BY <3>2, <3>3
    <3> QED BY <1>0, <3>1, <3>2, <3>4 DEF PoolInv
  <2> QED BY <2>1, <2>2
<1> QED BY <1>1, <1>2, <1>3, <1>4 DEF W!PoolNext

-----------------------------------------------------------------------------
(* The buckets *)

(* What a bucket could give out now, and what it gave out that no time has *)
(* paid for, are together no more than it holds when full.                 *)
BucketInv ==
  /\ \A k \in W!Buckets : /\ bucket[k].tokens \in Nat /\ bucket[k].since \in Nat /\ debt[k] \in Nat
                          /\ W!Refilled(bucket[k]) + debt[k] =< W!Full
  /\ DOMAIN bucket = W!Buckets /\ DOMAIN debt = W!Buckets

LEMMA Units == W!Full \in Nat /\ TicksPerToken \in Nat
BY InMemoryAssumption DEF W!WorkersAssumption, W!Full

LEMMA BucketInit == W!Init => BucketInv
<1> SUFFICES ASSUME W!Init PROVE BucketInv
  OBVIOUS
<1>1. /\ bucket = [k \in W!Buckets |-> [tokens |-> W!Full, since |-> 0]]
      /\ debt = [k \in W!Buckets |-> 0]
  BY DEF W!Init
<1> QED BY <1>1, Units DEF BucketInv, W!Refilled

(* A token moves from what a bucket holds to what it gave out.             *)
LEMMA Taking ==
  ASSUME BucketInv, NEW k \in W!Buckets, W!Take(k)
  PROVE  BucketInv'
<1>1. PICK r : r = W!Refilled(bucket[k])
  OBVIOUS
<1>2. r \in Nat /\ r =< W!Full /\ r + debt[k] =< W!Full /\ debt[k] \in Nat
  BY <1>1, Units DEF BucketInv, W!Refilled
<1>3. PICK n : n = IF r >= TicksPerToken THEN r - TicksPerToken ELSE r
  OBVIOUS
<1>4. n \in Nat /\ n =< W!Full
  BY <1>2, <1>3, Units
<1>5. /\ DOMAIN bucket' = W!Buckets /\ bucket'[k] = [tokens |-> n, since |-> 0]
      /\ \A x \in W!Buckets : x # k => bucket'[x] = bucket[x]
  BY <1>1, <1>3 DEF W!Take, BucketInv
<1>6. /\ DOMAIN debt' = W!Buckets /\ debt'[k] = IF r >= TicksPerToken THEN debt[k] + TicksPerToken ELSE debt[k]
      /\ \A x \in W!Buckets : x # k => debt'[x] = debt[x]
  BY <1>1 DEF W!Take, BucketInv
<1>7. bucket'[k].tokens = n /\ bucket'[k].since = 0
  BY <1>5
<1>8. W!Refilled(bucket'[k]) = n
  BY <1>4, <1>7, Units DEF W!Refilled
<1>9. debt'[k] \in Nat /\ n + debt'[k] =< W!Full
  BY <1>2, <1>3, <1>6, Units
<1>10. ASSUME NEW x \in W!Buckets
       PROVE  /\ bucket'[x].tokens \in Nat /\ bucket'[x].since \in Nat /\ debt'[x] \in Nat
              /\ W!Refilled(bucket'[x]) + debt'[x] =< W!Full
  <2>1. CASE x = k
    BY <1>4, <1>7, <1>8, <1>9, <2>1
  <2>2. CASE x # k
    BY <1>5, <1>6, <2>2 DEF BucketInv
  <2> QED BY <2>1, <2>2
<1> QED BY <1>5, <1>6, <1>10 DEF BucketInv

LEMMA BucketStep ==
  ASSUME BucketInv, W!BucketNext
  PROVE  BucketInv'
<1>1. ASSUME UNCHANGED <<bucket, debt>> PROVE BucketInv'
  BY <1>1 DEF BucketInv, W!Refilled
<1>2. ASSUME NEW c \in Callers, W!StartCall(c) \/ W!Work(c) PROVE BucketInv'
  <2>1. CASE W!Acquire(c)
    <3>1. Telegram \in W!Buckets
      BY DEF W!Buckets
    <3> QED BY <2>1, <3>1, Taking DEF W!Acquire
  <2>2. CASE ~W!Acquire(c)
    <3>1. UNCHANGED <<bucket, debt>>
      BY <1>2, <2>2 DEF W!StartCall, W!Work, W!Answer, W!Retry
    <3> QED BY <1>1, <3>1
  <2> QED BY <2>1, <2>2
<1>3. ASSUME NEW a \in Addresses, W!TryAcquire(a) PROVE BucketInv'
  BY <1>3, Taking DEF W!TryAcquire, W!Buckets
<1>4. ASSUME W!Tick PROVE BucketInv'
  <2>1. ASSUME NEW k \in W!Buckets
        PROVE  /\ bucket'[k].tokens \in Nat /\ bucket'[k].since \in Nat /\ debt'[k] \in Nat
               /\ W!Refilled(bucket'[k]) + debt'[k] =< W!Full
    <3>1. PICK b : b = bucket[k]
      OBVIOUS
    <3>2. b.tokens \in Nat /\ b.since \in Nat /\ debt[k] \in Nat /\ W!Refilled(b) + debt[k] =< W!Full
      BY <3>1 DEF BucketInv
    <3>3. bucket'[k] = [b EXCEPT !.since = IF b.since =< W!Full THEN b.since + 1 ELSE b.since]
      BY <1>4, <3>1 DEF W!Tick
    <3>4. debt'[k] = IF debt[k] > 0 THEN debt[k] - 1 ELSE 0
      BY <1>4 DEF W!Tick
    <3>5. bucket'[k].tokens = b.tokens /\ bucket'[k].since \in Nat
          /\ (bucket'[k].since = b.since \/ bucket'[k].since = b.since + 1)
      BY <1>4, <3>2, <3>3, Units
    <3> QED BY <3>2, <3>4, <3>5, Units DEF W!Refilled
  <2> QED BY <1>4, <2>1 DEF BucketInv, W!Tick
<1> QED BY <1>2, <1>3, <1>4 DEF W!BucketNext

-----------------------------------------------------------------------------
(* The pool and the buckets together *)

WorkersInv == PoolInv /\ BucketInv

LEMMA WorkersStart == Init => WorkersInv
BY PoolInit, BucketInit DEF Init, WorkersInv

LEMMA WorkersGo ==
  ASSUME WorkersInv, [Next]_vars
  PROVE  WorkersInv'
<1>1. ASSUME UNCHANGED <<job, waiters, free, active>>, PoolInv PROVE PoolInv'
  BY <1>1 DEF PoolInv, Holding, Running, W!In
<1>2. ASSUME UNCHANGED <<bucket, debt>>, BucketInv PROVE BucketInv'
  BY <1>2 DEF BucketInv, W!Refilled
<1>3. CASE UNCHANGED workVars
  BY <1>1, <1>2, <1>3 DEF workVars, WorkersInv
<1>4. CASE W!PoolNext
  <2>1. UNCHANGED <<bucket, debt>>
    BY <1>4 DEF W!PoolNext, W!Submit, W!Begin, W!End, W!Cancel, W!bucketVars
  <2> QED BY <1>2, <1>4, <2>1, PoolStep DEF WorkersInv
<1>5. CASE W!BucketNext
  <2>1. UNCHANGED <<job, waiters, free, active>>
    BY <1>5 DEF W!BucketNext, W!StartCall, W!Work, W!Acquire, W!Answer, W!Retry, W!TryAcquire, W!Tick, W!poolVars
  <2> QED BY <1>1, <1>5, <2>1, BucketStep DEF WorkersInv
<1> QED BY <1>3, <1>4, <1>5 DEF Next, vars

(* However jobs are submitted, fail and are cancelled, every slot of the   *)
(* worker pool is free or held by exactly one job and the count of active  *)
(* jobs is that of those that run; and whatever the times between calls, a *)
(* token bucket gives out no more than its burst and what time refills.    *)
THEOREM WorkersStayBounded == Spec => []WorkersBounded
<1>1. WorkersInv => WorkersBounded
  <2>1. ASSUME PoolInv PROVE W!SlotsExact
    <3>1. W!In("granted") \cup W!In("running") = Holding /\ W!In("running") = Running
      BY DEF Holding, Running
    <3>2. free + Cardinality(Holding) = MaxWorkers /\ active = Cardinality(Running)
      BY <2>1 DEF PoolInv
    <3>3. \A D : W!Cardinality(D) = Cardinality(D)
      BY DEF W!Cardinality, Cardinality
    <3> QED BY <3>1, <3>2, <3>3 DEF W!SlotsExact
  <2>2. ASSUME BucketInv PROVE W!BurstBounded
    BY <2>2, Units DEF BucketInv, W!BurstBounded, W!Refilled
  <2> QED BY <2>1, <2>2 DEF WorkersInv, WorkersBounded
<1> QED BY <1>1, WorkersStart, WorkersGo, PTL DEF Spec

-----------------------------------------------------------------------------
(* Sums of sizes.  The induction theorems of the library are about         *)
(* operators; these facts are proved from the least counterexample.        *)

LEMMA Least ==
  ASSUME NEW P \in SUBSET Nat, 0 \in P, \A n \in P : n + 1 \in P
  PROVE  P = Nat
<1> SUFFICES ASSUME Nat \ P # {} PROVE FALSE
  OBVIOUS
<1>1. PICK n \in Nat \ P : \A m \in Nat \ P : ~(<<m, n>> \in OpToRel(<, Nat))
  BY NatLessThanWellFounded, WFMin
<1>2. n # 0 /\ n - 1 \in Nat /\ n - 1 < n
  OBVIOUS
<1>3. <<n - 1, n>> \in OpToRel(<, Nat)
  BY <1>2 DEF OpToRel
<1>4. n - 1 \in P
  BY <1>1, <1>2, <1>3
<1>5. n - 1 + 1 = n
  BY <1>2
<1> QED BY <1>1, <1>4, <1>5

(* A property of the subsets of a finite set, one element at a time.       *)
LEMMA Subsets ==
  ASSUME NEW D, IsFiniteSet(D), NEW P \in SUBSET SUBSET D, {} \in P,
         \A s \in SUBSET D : s # {} /\ (\A x \in s : s \ {x} \in P) => s \in P
  PROVE  P = SUBSET D
<1> DEFINE N == {n \in Nat : \A s \in SUBSET D : Cardinality(s) = n => s \in P}
<1>s. \A s \in SUBSET D : IsFiniteSet(s) /\ Cardinality(s) \in Nat
  BY FS_Subset, FS_CardinalityType
<1>1. 0 \in N
  BY <1>s, FS_EmptySet
<1>2. ASSUME NEW n \in N PROVE n + 1 \in N
  <2> SUFFICES ASSUME NEW s \in SUBSET D, Cardinality(s) = n + 1 PROVE s \in P
    OBVIOUS
  <2>1. s # {}
    BY FS_EmptySet
  <2>2. ASSUME NEW x \in s PROVE s \ {x} \in P
    <3>1. Cardinality(s \ {x}) = n
      BY <1>s, FS_RemoveElement
    <3> QED BY <3>1
  <2> QED BY <2>1, <2>2
<1>3. N = Nat
  <2> HIDE DEF N
  <2>0. N \in SUBSET Nat
    BY DEF N
  <2> QED BY <1>1, <1>2, <2>0, Least
<1> QED BY <1>3, <1>s

(* The fold of the community modules, as a function of the rows.           *)
SizeSum(rows, D) == C!Bytes(rows, D)
Pick(s) == CHOOSE x \in s : TRUE
After(rows, iter, s) == IF s = {} THEN 0 ELSE rows[Pick(s)].size + iter[s \ {Pick(s)}]
SumsTo(iter, rows, D) == iter = [s \in SUBSET D |-> After(rows, iter, s)]
SumsOf(rows, D) == CHOOSE iter : SumsTo(iter, rows, D)
Sized(rows, D) == \A i \in D : rows[i].size \in Nat

LEMMA SumUnfolds ==
  ASSUME NEW rows, NEW D
  PROVE  SizeSum(rows, D) = SumsOf(rows, D)[D]
BY DEF SizeSum, C!Bytes, C!MapThenSumSet, C!MapThenFoldSet, SumsOf, SumsTo, After, Pick

LEMMA SumExists ==
  ASSUME NEW rows, NEW D, IsFiniteSet(D)
  PROVE  SumsTo(SumsOf(rows, D), rows, D)
<1> DEFINE Small(n) == {s \in SUBSET D : Cardinality(s) =< n}
           RHS(g, s) == IF s = {} THEN 0 ELSE rows[Pick(s)].size + g[s \ {Pick(s)}]
           P == {n \in Nat : \E g : g = [s \in Small(n) |-> RHS(g, s)]}
<1>s. \A s \in SUBSET D : IsFiniteSet(s) /\ Cardinality(s) \in Nat /\ Cardinality(s) =< Cardinality(D)
  BY FS_Subset, FS_CardinalityType
<1>c. Cardinality(D) \in Nat
  BY FS_CardinalityType
<1>1. 0 \in P
  <2> DEFINE g == [s \in Small(0) |-> 0]
  <2>1. \A s \in Small(0) : s = {}
    <3> TAKE s \in Small(0)
    <3>1. IsFiniteSet(s) /\ Cardinality(s) = 0
      BY <1>s
    <3> QED BY <3>1, FS_EmptySet
  <2>2. \A s \in Small(0) : RHS(g, s) = 0
    BY <2>1
  <2> HIDE DEF Small
  <2>3. g = [s \in Small(0) |-> RHS(g, s)]
    BY <2>2
  <2> QED BY <2>3
<1>2. ASSUME NEW n \in P PROVE n + 1 \in P
  <2>1. PICK g : g = [s \in Small(n) |-> RHS(g, s)]
    OBVIOUS
  <2> DEFINE h == [s \in Small(n + 1) |-> RHS(g, s)]
  <2>2. \A s \in Small(n) : s \in Small(n + 1) /\ h[s] = g[s]
    <3> TAKE s \in Small(n)
    <3>1. s \in Small(n + 1)
      BY <1>s
    <3> HIDE DEF Small, RHS
    <3> QED BY <2>1, <3>1
  <2>3. \A s \in Small(n + 1) : s # {} => s \ {Pick(s)} \in Small(n)
    <3> TAKE s \in Small(n + 1)
    <3> SUFFICES ASSUME s # {} PROVE s \ {Pick(s)} \in Small(n)
      OBVIOUS
    <3>1. Pick(s) \in s /\ IsFiniteSet(s) /\ s \in SUBSET D
      BY <1>s DEF Pick
    <3>2. Cardinality(s \ {Pick(s)}) = Cardinality(s) - 1
      BY <3>1, FS_RemoveElement
    <3> QED BY <1>s, <3>1, <3>2
  <2>4. \A s \in Small(n + 1) : RHS(g, s) = RHS(h, s)
    <3> HIDE DEF h, Small
    <3> QED BY <2>2, <2>3
  <2>5. h = [s \in Small(n + 1) |-> RHS(h, s)]
    <3> HIDE DEF Small, RHS
    <3> QED BY <2>4
  <2> HIDE DEF h, RHS, Small
  <2> QED BY <2>5
<1>3. P = Nat
  <2> HIDE DEF P
  <2>0. P \in SUBSET Nat
    BY DEF P
  <2> QED BY <1>1, <1>2, <2>0, Least
<1>4. Cardinality(D) \in P
  BY <1>3, <1>c
<1>5. Small(Cardinality(D)) = SUBSET D
  BY <1>s
<1>6. \E iter : SumsTo(iter, rows, D)
  BY <1>4, <1>5 DEF SumsTo, After
<1> QED BY <1>6 DEF SumsOf

LEMMA SumPoint ==
  ASSUME NEW rows, NEW D, IsFiniteSet(D), NEW s \in SUBSET D
  PROVE  SumsOf(rows, D)[s] = After(rows, SumsOf(rows, D), s)
<1> DEFINE f == SumsOf(rows, D)
<1>1. SumsTo(f, rows, D)
  BY SumExists
<1> HIDE DEF f
<1>2. f = [t \in SUBSET D |-> After(rows, f, t)]
  BY <1>1 DEF SumsTo
<1>3. f[s] = After(rows, f, s)
  BY <1>2
<1> QED BY <1>3 DEF f

(* The sum does not depend on the set it is computed in, nor on rows that  *)
(* are not in it.                                                          *)
LEMMA SumAgrees ==
  ASSUME NEW rows, NEW others, NEW D, IsFiniteSet(D), NEW T \in SUBSET D,
         \A i \in T : rows[i].size = others[i].size
  PROVE  SumsOf(rows, D)[T] = SizeSum(others, T)
<1> DEFINE f == SumsOf(rows, D)
           g == SumsOf(others, T)
           P == {s \in SUBSET T : f[s] = g[s]}
<1>t. IsFiniteSet(T)
  BY FS_Subset
<1>0. \A s \in SUBSET T : f[s] = After(rows, f, s) /\ g[s] = After(others, g, s)
  BY <1>t, SumPoint
<1> HIDE DEF f, g
<1>1. {} \in P
  BY <1>0 DEF After
<1>2. ASSUME NEW s \in SUBSET T, s # {}, \A x \in s : s \ {x} \in P PROVE s \in P
  <2>1. Pick(s) \in s
    BY <1>2 DEF Pick
  <2>2. f[s \ {Pick(s)}] = g[s \ {Pick(s)}] /\ rows[Pick(s)].size = others[Pick(s)].size
    BY <1>2, <2>1
  <2> QED BY <1>0, <1>2, <2>2 DEF After
<1>3. P = SUBSET T
  <2> HIDE DEF P
  <2>0. P \in SUBSET SUBSET T
    BY DEF P
  <2> QED BY <1>1, <1>2, <1>t, <2>0, Subsets
<1> QED BY <1>3, SumUnfolds DEF f, g

LEMMA SumSame ==
  ASSUME NEW rows, NEW others, NEW T, IsFiniteSet(T), \A i \in T : rows[i].size = others[i].size
  PROVE  SizeSum(rows, T) = SizeSum(others, T)
BY SumAgrees, SumUnfolds

LEMMA SumOfNone == ASSUME NEW rows PROVE SizeSum(rows, {}) = 0
BY SumPoint, SumUnfolds, FS_EmptySet DEF After

(* The element that the fold takes first does not matter.                  *)
LEMMA SumSplits ==
  ASSUME NEW rows, NEW D, IsFiniteSet(D), Sized(rows, D)
  PROVE  /\ SizeSum(rows, D) \in Nat
         /\ \A x \in D : SizeSum(rows, D) = rows[x].size + SizeSum(rows, D \ {x})
<1> DEFINE f == SumsOf(rows, D)
           N == {s \in SUBSET D : f[s] \in Nat}
           P == {s \in SUBSET D : \A x \in s : f[s] = rows[x].size + f[s \ {x}]}
<1>0. \A s \in SUBSET D : f[s] = After(rows, f, s)
  BY SumPoint
<1> HIDE DEF f
<1>1. f[{}] = 0
  BY <1>0 DEF After
<1>2. ASSUME NEW s \in SUBSET D, s # {}
      PROVE  Pick(s) \in s /\ f[s] = rows[Pick(s)].size + f[s \ {Pick(s)}]
  BY <1>0, <1>2 DEF Pick, After
<1>3. \A s \in SUBSET D : f[s] \in Nat
  <2>1. ASSUME NEW s \in SUBSET D, s # {}, \A x \in s : s \ {x} \in N PROVE s \in N
    <3>1. PICK p : p = Pick(s) /\ p \in s /\ f[s] = rows[p].size + f[s \ {p}]
      BY <1>2, <2>1
    <3>2. rows[p].size \in Nat /\ f[s \ {p}] \in Nat
      BY <2>1, <3>1 DEF Sized
    <3> QED BY <3>1, <3>2
  <2>2. {} \in N /\ N \in SUBSET SUBSET D
    BY <1>1
  <2>3. N = SUBSET D
    <3> HIDE DEF N
    <3> QED BY <2>1, <2>2, Subsets
  <2> QED BY <2>3
<1>4. ASSUME NEW s \in SUBSET D, s # {}, \A x \in s : s \ {x} \in P PROVE s \in P
  <2>1. PICK p : p = Pick(s) /\ p \in s /\ f[s] = rows[p].size + f[s \ {p}]
    BY <1>2, <1>4
  <2>2. ASSUME NEW x \in s, x # p PROVE f[s] = rows[x].size + f[s \ {x}]
    <3>1. f[s \ {p}] = rows[x].size + f[(s \ {p}) \ {x}] /\ f[s \ {x}] = rows[p].size + f[(s \ {x}) \ {p}]
      BY <1>4, <2>1, <2>2
    <3>2. PICK r : r = (s \ {p}) \ {x} /\ r = (s \ {x}) \ {p} /\ r \in SUBSET D
      OBVIOUS
    <3>3. /\ rows[x].size \in Nat /\ rows[p].size \in Nat
          /\ f[s \ {x}] \in Nat /\ f[s \ {p}] \in Nat /\ f[r] \in Nat
      BY <1>3, <2>1, <3>2 DEF Sized
    <3> QED BY <2>1, <3>1, <3>2, <3>3
  <2> QED BY <2>1, <2>2
<1>5. P = SUBSET D
  <2>1. {} \in P /\ P \in SUBSET SUBSET D
    OBVIOUS
  <2> HIDE DEF P
  <2> QED BY <1>4, <2>1, Subsets
<1>6. \A x \in D : f[D \ {x}] = SizeSum(rows, D \ {x})
  BY SumAgrees DEF f
<1>7. f[D] = SizeSum(rows, D)
  BY SumUnfolds DEF f
<1> QED BY <1>3, <1>5, <1>6, <1>7

(* A sum is that of a part and that of the rest.                           *)
LEMMA SumParts ==
  ASSUME NEW rows, NEW D, IsFiniteSet(D), Sized(rows, D), NEW T \in SUBSET D
  PROVE  /\ SizeSum(rows, D) = SizeSum(rows, T) + SizeSum(rows, D \ T)
         /\ SizeSum(rows, T) \in Nat /\ SizeSum(rows, D \ T) \in Nat /\ SizeSum(rows, D) \in Nat
<1> DEFINE P == {s \in SUBSET D : SizeSum(rows, D) = SizeSum(rows, s) + SizeSum(rows, D \ s)}
<1>n. \A s \in SUBSET D : IsFiniteSet(s) /\ Sized(rows, s) /\ SizeSum(rows, s) \in Nat
  <2>1. ASSUME NEW s \in SUBSET D PROVE IsFiniteSet(s) /\ Sized(rows, s)
    BY FS_Subset DEF Sized
  <2> QED BY <2>1, SumSplits
<1>1. {} \in P
  <2>1. SizeSum(rows, {}) = 0 /\ D \ {} = D /\ SizeSum(rows, D) \in Nat
    BY <1>n, SumOfNone
  <2> QED BY <2>1
<1>2. ASSUME NEW s \in SUBSET D, s # {}, \A x \in s : s \ {x} \in P PROVE s \in P
  <2>1. PICK x \in s : TRUE
    BY <1>2
  <2>0. PICK less, rest : less = s \ {x} /\ rest = D \ less
    OBVIOUS
  <2>2. less = s \ {x} /\ rest = D \ less /\ rest \ {x} = D \ s /\ x \in rest /\ rest \in SUBSET D /\ less \in SUBSET D
    BY <2>0, <2>1
  <2>3. SizeSum(rows, s) = rows[x].size + SizeSum(rows, less) /\ rows[x].size \in Nat
    BY <1>n, <2>2, SumSplits DEF Sized
  <2>4. SizeSum(rows, rest) = rows[x].size + SizeSum(rows, D \ s)
    BY <1>n, <2>2, SumSplits
  <2>5. SizeSum(rows, D) = SizeSum(rows, less) + SizeSum(rows, rest)
    BY <1>2, <2>2
  <2>6. SizeSum(rows, less) \in Nat /\ SizeSum(rows, D \ s) \in Nat /\ SizeSum(rows, s) \in Nat
    BY <1>n, <2>2
  <2> QED BY <2>3, <2>4, <2>5, <2>6
<1>3. P = SUBSET D
  <2>0. P \in SUBSET SUBSET D
    OBVIOUS
  <2> HIDE DEF P
  <2> QED BY <1>1, <1>2, <2>0, Subsets
<1>4. T \in P
  BY <1>3
<1> QED BY <1>4, <1>n

-----------------------------------------------------------------------------
(* The cache *)

Entry == [value : Contents, left : Int, size : Nat, ns : Namespaces]

CacheType(c) ==
  /\ c = [data |-> c.data, order |-> c.order, bytes |-> c.bytes, entries |-> c.entries, nsBytes |-> c.nsBytes]
  /\ C!Held(c) \in SUBSET Keys /\ IsFiniteSet(C!Held(c)) /\ c.data \in [C!Held(c) -> Entry]
  /\ c.bytes \in Int /\ c.entries \in [Namespaces -> Int] /\ c.nsBytes \in [Namespaces -> Int]

Exact(c) ==
  /\ c.bytes = SizeSum(c.data, C!Held(c))
  /\ \A n \in Namespaces : /\ c.entries[n] = Cardinality(C!InNamespace(c, n))
                           /\ c.nsBytes[n] = SizeSum(c.data, C!InNamespace(c, n))

(* Of two keys one comes before the other.                                 *)
Total(c) == \A x, y \in C!Held(c) : x = y \/ <<x, y>> \in c.order \/ <<y, x>> \in c.order

Sound(c) == CacheType(c) /\ Exact(c) /\ Total(c)

(* Between two calls: what is held is counted, in an order that the use of *)
(* the keys gave, and within both limits.                                  *)
CacheInv == Sound(cache) /\ ~C!Over(cache) /\ cache.order \subseteq recent

LEMMA Counts == /\ \A D : C!Cardinality(D) = Cardinality(D)
                /\ \A D : C!IsFiniteSet(D) <=> IsFiniteSet(D)
                /\ MaxEntries \in Nat /\ MaxBytes \in Nat
                /\ NamespaceOf \in [Keys -> Namespaces] /\ SizeOf \in [Contents -> Nat]
                /\ Ttls \subseteq Nat /\ Groups \subseteq SUBSET Keys
                /\ Absent \notin [value : Contents, left : Nat]
<1>1. \A D : C!Cardinality(D) = Cardinality(D)
  BY DEF C!Cardinality, Cardinality
<1>2. \A D : C!IsFiniteSet(D) <=> IsFiniteSet(D)
  BY DEF C!IsFiniteSet, IsFiniteSet
<1> QED BY <1>1, <1>2, InMemoryAssumption DEF C!TtlCacheAssumption

LEMMA Parts ==
  ASSUME NEW c, CacheType(c), NEW D \in SUBSET C!Held(c)
  PROVE  IsFiniteSet(D) /\ Sized(c.data, D) /\ SizeSum(c.data, D) \in Nat /\ Cardinality(D) \in Nat
<1>1. IsFiniteSet(D) /\ Sized(c.data, D)
  BY FS_Subset DEF CacheType, Sized, Entry
<1> QED BY <1>1, SumSplits, FS_CardinalityType

(* Removing entries, wherever the caller found them, keeps the counters    *)
(* and the order right.                                                    *)
LEMMA Removes ==
  ASSUME NEW c, Sound(c), NEW S, NEW r, r = C!RemoveKeys(c, S)
  PROVE  /\ Sound(r) /\ C!Held(r) = C!Held(c) \ S
         /\ \A k \in C!Held(r) : r.data[k] = c.data[k]
         /\ r.order \subseteq c.order /\ r.bytes =< c.bytes
         /\ Cardinality(C!Held(r)) =< Cardinality(C!Held(c))
<1>0. CacheType(c) /\ Exact(c) /\ Total(c)
  BY DEF Sound
<1>1. PICK H, G, T : H = C!Held(c) /\ G = S \cap H /\ T = H \ S
  OBVIOUS
<1>2. G \in SUBSET H /\ T \in SUBSET H /\ H \ G = T /\ \A n : C!InNamespace(c, n) \in SUBSET H
  BY <1>1 DEF C!InNamespace
<1>3. r = [data |-> [x \in T |-> c.data[x]],
           order |-> c.order \cap (T \X T),
           bytes |-> C!NotNegative(c.bytes - SizeSum(c.data, G)),
           entries |-> [n \in Namespaces |-> C!NotNegative(c.entries[n] - Cardinality(G \cap C!InNamespace(c, n)))],
           nsBytes |-> [n \in Namespaces |-> C!NotNegative(c.nsBytes[n] - SizeSum(c.data, G \cap C!InNamespace(c, n)))]]
  BY <1>0, <1>1, Counts DEF C!RemoveKeys, C!Keep, C!AccountRemove, C!Restrict, CacheType, SizeSum
<1> DEFINE In(n) == C!InNamespace(c, n)
<1>4. C!Held(r) = T /\ r.data = [x \in T |-> c.data[x]] /\ r.order = c.order \cap (T \X T)
  BY <1>3 DEF C!Held
<1>5. \A x \in T : r.data[x] = c.data[x] /\ c.data[x] \in Entry
  BY <1>0, <1>1, <1>2, <1>4 DEF CacheType
<1>6. ASSUME NEW n \in Namespaces PROVE C!InNamespace(r, n) = In(n) \ G
  BY <1>1, <1>4, <1>5 DEF C!InNamespace
<1>7. ASSUME NEW D \in SUBSET H, NEW E \in SUBSET H
      PROVE  /\ SizeSum(c.data, D) = SizeSum(c.data, E \cap D) + SizeSum(c.data, D \ E)
             /\ SizeSum(c.data, D) \in Nat /\ SizeSum(c.data, E \cap D) \in Nat /\ SizeSum(c.data, D \ E) \in Nat
             /\ Cardinality(D) = Cardinality(E \cap D) + Cardinality(D \ E)
             /\ Cardinality(D) \in Nat /\ Cardinality(E \cap D) \in Nat /\ Cardinality(D \ E) \in Nat
  <2>1. PICK F : F = E \cap D /\ D \ E = D \ F /\ F \in SUBSET D /\ D = F \cup (D \ F) /\ F \cap (D \ F) = {}
    OBVIOUS
  <2>2. IsFiniteSet(D) /\ Sized(c.data, D) /\ IsFiniteSet(F) /\ IsFiniteSet(D \ F)
    <3>1. D \in SUBSET C!Held(c)
      BY <1>1
    <3> QED BY <1>0, <2>1, <3>1, Parts, FS_Subset
  <2>3. SizeSum(c.data, D) = SizeSum(c.data, F) + SizeSum(c.data, D \ F)
        /\ SizeSum(c.data, F) \in Nat /\ SizeSum(c.data, D \ F) \in Nat /\ SizeSum(c.data, D) \in Nat
    BY <2>1, <2>2, SumParts
  <2>4. Cardinality(D) \in Nat /\ Cardinality(F) \in Nat /\ Cardinality(D \ F) \in Nat
    BY <2>2, FS_CardinalityType
  <2>5. Cardinality(D) = Cardinality(F) + Cardinality(D \ F)
    <3>1. Cardinality(F \cup (D \ F)) = Cardinality(F) + Cardinality(D \ F)
      <4>1. Cardinality(F \cup (D \ F)) = Cardinality(F) + Cardinality(D \ F) - Cardinality(F \cap (D \ F))
        BY <2>2, FS_Union
      <4>2. Cardinality(F \cap (D \ F)) = 0
        BY <2>1, FS_EmptySet
      <4> QED BY <2>4, <4>1, <4>2
    <3> QED BY <2>1, <3>1
  <2> QED BY <2>1, <2>3, <2>4, <2>5
<1>8. ASSUME NEW D \in SUBSET T PROVE SizeSum(r.data, D) = SizeSum(c.data, D)
  <2>1. IsFiniteSet(D) /\ \A x \in D : r.data[x].size = c.data[x].size
    <3>1. D \in SUBSET C!Held(c)
      BY <1>1, <1>2
    <3> QED BY <1>0, <1>5, <3>1, Parts
  <2> QED BY <2>1, SumSame
<1>9. r.bytes = SizeSum(r.data, T) /\ r.bytes =< c.bytes /\ r.bytes \in Int
  <2>1. SizeSum(c.data, H) = SizeSum(c.data, G) + SizeSum(c.data, T)
        /\ SizeSum(c.data, G) \in Nat /\ SizeSum(c.data, T) \in Nat /\ SizeSum(c.data, H) \in Nat
    <3>1. G \cap H = G /\ H \ G = T /\ G \in SUBSET H /\ H \in SUBSET H
      BY <1>2
    <3>2. SizeSum(c.data, H) = SizeSum(c.data, G \cap H) + SizeSum(c.data, H \ G)
          /\ SizeSum(c.data, H) \in Nat /\ SizeSum(c.data, G \cap H) \in Nat /\ SizeSum(c.data, H \ G) \in Nat
      BY <1>7, <3>1
    <3> QED BY <3>1, <3>2
  <2>2. c.bytes = SizeSum(c.data, H) /\ SizeSum(r.data, T) = SizeSum(c.data, T)
    BY <1>0, <1>1, <1>8 DEF Exact
  <2>3. r.bytes = C!NotNegative(c.bytes - SizeSum(c.data, G))
    BY <1>3
  <2> HIDE <1>3
  <2> QED BY <2>1, <2>2, <2>3 DEF C!NotNegative
<1>10. ASSUME NEW n \in Namespaces
       PROVE  /\ r.entries[n] = Cardinality(C!InNamespace(r, n)) /\ r.entries[n] \in Int
              /\ r.nsBytes[n] = SizeSum(r.data, C!InNamespace(r, n)) /\ r.nsBytes[n] \in Int
  <2>1. PICK D : D = In(n) /\ D \in SUBSET H
    BY <1>2
  <2>2. /\ SizeSum(c.data, D) = SizeSum(c.data, G \cap D) + SizeSum(c.data, D \ G)
        /\ SizeSum(c.data, D) \in Nat /\ SizeSum(c.data, G \cap D) \in Nat /\ SizeSum(c.data, D \ G) \in Nat
        /\ Cardinality(D) = Cardinality(G \cap D) + Cardinality(D \ G)
        /\ Cardinality(D) \in Nat /\ Cardinality(G \cap D) \in Nat /\ Cardinality(D \ G) \in Nat
    BY <1>2, <1>7, <2>1
  <2>3. c.entries[n] = Cardinality(D) /\ c.nsBytes[n] = SizeSum(c.data, D)
    BY <1>0, <2>1 DEF Exact
  <2>4. C!InNamespace(r, n) = D \ G /\ SizeSum(r.data, D \ G) = SizeSum(c.data, D \ G)
    <3>1. D \ G \in SUBSET T
      BY <1>1, <1>2, <2>1
    <3> QED BY <1>6, <1>8, <2>1, <3>1
  <2>5. r.entries[n] = C!NotNegative(c.entries[n] - Cardinality(G \cap D))
        /\ r.nsBytes[n] = C!NotNegative(c.nsBytes[n] - SizeSum(c.data, G \cap D))
    BY <1>3, <2>1
  <2> HIDE <1>3
  <2> QED BY <2>2, <2>3, <2>4, <2>5 DEF C!NotNegative
<1>11. CacheType(r)
  <2>1. r = [data |-> r.data, order |-> r.order, bytes |-> r.bytes, entries |-> r.entries, nsBytes |-> r.nsBytes]
        /\ DOMAIN r.entries = Namespaces /\ DOMAIN r.nsBytes = Namespaces
    BY <1>3
  <2>2. r.entries \in [Namespaces -> Int] /\ r.nsBytes \in [Namespaces -> Int]
    <3>1. r.entries = [n \in Namespaces |-> r.entries[n]] /\ r.nsBytes = [n \in Namespaces |-> r.nsBytes[n]]
      BY <1>3
    <3> QED BY <1>10, <3>1
  <2>3. T \in SUBSET Keys /\ IsFiniteSet(T) /\ r.data \in [T -> Entry]
    BY <1>0, <1>1, <1>2, <1>4, <1>5, FS_Subset DEF CacheType
  <2> QED BY <1>4, <1>9, <2>1, <2>2, <2>3 DEF CacheType
<1>12. Exact(r)
  BY <1>4, <1>9, <1>10 DEF Exact
<1>13. Total(r)
  BY <1>0, <1>1, <1>2, <1>4 DEF Total
<1>14. Cardinality(T) =< Cardinality(H)
  BY <1>0, <1>1, <1>2, FS_Subset DEF CacheType
<1> QED BY <1>1, <1>4, <1>5, <1>9, <1>11, <1>12, <1>13, <1>14 DEF Sound

(* A new entry behind the others is counted, in all and in its namespace.  *)
LEMMA Adds ==
  ASSUME NEW c, Sound(c), NEW k \in Keys, k \notin C!Held(c), NEW e \in Entry,
         NEW a, a = C!AccountAdd(C!Added(c, k, e), e)
  PROVE  /\ Sound(a) /\ C!Held(a) = C!Held(c) \cup {k} /\ a.data[k] = e
         /\ \A x \in C!Held(c) : a.data[x] = c.data[x]
         /\ a.order \subseteq C!Latest(c.order, k, C!Held(c))
<1>0. CacheType(c) /\ Exact(c) /\ Total(c)
  BY DEF Sound
<1>1. PICK H, A : H = C!Held(c) /\ A = H \cup {k}
  OBVIOUS
<1>2. e.size \in Nat /\ e.ns \in Namespaces
  BY DEF Entry
<1>3. a = [data |-> [x \in A |-> IF x = k THEN e ELSE c.data[x]],
           order |-> C!Latest(c.order, k, H),
           bytes |-> c.bytes + e.size,
           entries |-> [c.entries EXCEPT ![e.ns] = @ + 1],
           nsBytes |-> [c.nsBytes EXCEPT ![e.ns] = @ + e.size]]
  BY <1>0, <1>1 DEF C!AccountAdd, C!Added, CacheType
<1>4. /\ C!Held(a) = A /\ a.data[k] = e /\ a.order = C!Latest(c.order, k, H)
      /\ \A x \in H : a.data[x] = c.data[x]
      /\ a.data \in [A -> Entry]
  BY <1>0, <1>1, <1>3 DEF C!Held, CacheType
<1>5. ASSUME NEW D \in SUBSET H
      PROVE  /\ IsFiniteSet(D) /\ SizeSum(a.data, D) = SizeSum(c.data, D) /\ SizeSum(c.data, D) \in Nat
             /\ SizeSum(a.data, D \cup {k}) = SizeSum(c.data, D) + e.size
             /\ Cardinality(D \cup {k}) = Cardinality(D) + 1 /\ Cardinality(D) \in Nat
  <2>1. IsFiniteSet(D) /\ SizeSum(c.data, D) \in Nat /\ Cardinality(D) \in Nat
    <3>1. D \in SUBSET C!Held(c)
      BY <1>1
    <3> QED BY <1>0, <3>1, Parts
  <2>2. SizeSum(a.data, D) = SizeSum(c.data, D)
    <3>1. \A x \in D : a.data[x].size = c.data[x].size
      BY <1>4
    <3> QED BY <2>1, <3>1, SumSame
  <2>e. PICK E : E = D \cup {k}
    OBVIOUS
  <2>3. E = D \cup {k} /\ E \ {k} = D /\ k \in E /\ E \in SUBSET A /\ k \notin D
    BY <1>1, <2>e
  <2>4. IsFiniteSet(E) /\ Cardinality(E) = Cardinality(D) + 1 /\ Sized(a.data, E)
    <3>1. IsFiniteSet(E) /\ Cardinality(E) = Cardinality(D) + 1
      BY <2>1, <2>3, FS_AddElement
    <3>2. \A x \in E : a.data[x] \in Entry
      BY <1>4, <2>3
    <3> QED BY <3>1, <3>2 DEF Sized, Entry
  <2>5. SizeSum(a.data, E) = a.data[k].size + SizeSum(a.data, E \ {k})
    BY <2>3, <2>4, SumSplits
  <2>6. SizeSum(a.data, E) = SizeSum(c.data, D) + e.size
    <3>1. a.data[k].size = e.size
      BY <1>4
    <3>2. SizeSum(a.data, E) = e.size + SizeSum(c.data, D)
      BY <2>2, <2>3, <2>5, <3>1
    <3> QED BY <1>2, <2>1, <3>2
  <2> QED BY <2>1, <2>2, <2>3, <2>4, <2>6
<1>6. a.bytes = SizeSum(a.data, A) /\ a.bytes \in Int
  <2>1. c.bytes = SizeSum(c.data, H) /\ c.bytes \in Int
    BY <1>0, <1>1 DEF Exact, CacheType
  <2>2. a.bytes = c.bytes + e.size
    BY <1>3
  <2>3. SizeSum(a.data, A) = SizeSum(c.data, H) + e.size
    BY <1>1, <1>5
  <2> QED BY <1>2, <2>1, <2>2, <2>3
<1>7. ASSUME NEW n \in Namespaces
      PROVE  /\ a.entries[n] = Cardinality(C!InNamespace(a, n)) /\ a.entries[n] \in Int
             /\ a.nsBytes[n] = SizeSum(a.data, C!InNamespace(a, n)) /\ a.nsBytes[n] \in Int
  <2>1. PICK D : D = C!InNamespace(c, n) /\ D \in SUBSET H
    BY <1>1 DEF C!InNamespace
  <2>2. c.entries[n] = Cardinality(D) /\ c.nsBytes[n] = SizeSum(c.data, D)
        /\ c.entries \in [Namespaces -> Int] /\ c.nsBytes \in [Namespaces -> Int]
    BY <1>0, <2>1 DEF Exact, CacheType
  <2>3. CASE n = e.ns
    <3>1. C!InNamespace(a, n) = D \cup {k}
      BY <1>1, <1>4, <2>1, <2>3 DEF C!InNamespace
    <3>2. a.entries[n] = c.entries[n] + 1 /\ a.nsBytes[n] = c.nsBytes[n] + e.size
      BY <1>3, <2>2, <2>3
    <3>3. Cardinality(C!InNamespace(a, n)) = Cardinality(D) + 1 /\ Cardinality(D) \in Nat
          /\ SizeSum(a.data, C!InNamespace(a, n)) = SizeSum(c.data, D) + e.size /\ SizeSum(c.data, D) \in Nat
      BY <1>5, <2>1, <3>1
    <3> QED BY <1>2, <2>2, <3>2, <3>3
  <2>4. CASE n # e.ns
    <3>1. C!InNamespace(a, n) = D
      BY <1>1, <1>4, <2>1, <2>4 DEF C!InNamespace
    <3>2. a.entries[n] = c.entries[n] /\ a.nsBytes[n] = c.nsBytes[n]
      BY <1>3, <2>2, <2>4
    <3> QED BY <1>5, <2>1, <2>2, <3>1, <3>2
  <2> QED BY <2>3, <2>4
<1>8. CacheType(a)
  <2>1. a = [data |-> a.data, order |-> a.order, bytes |-> a.bytes, entries |-> a.entries, nsBytes |-> a.nsBytes]
    BY <1>3
  <2>2. a.entries \in [Namespaces -> Int] /\ a.nsBytes \in [Namespaces -> Int]
    <3>1. a.entries = [c.entries EXCEPT ![e.ns] = @ + 1] /\ a.nsBytes = [c.nsBytes EXCEPT ![e.ns] = @ + e.size]
      BY <1>3
    <3> QED BY <1>0, <1>2, <3>1 DEF CacheType
  <2>3. A \in SUBSET Keys /\ IsFiniteSet(A)
    BY <1>0, <1>1, FS_AddElement DEF CacheType
  <2> QED BY <1>4, <1>6, <2>1, <2>2, <2>3 DEF CacheType
<1>9. Exact(a)
  BY <1>4, <1>6, <1>7 DEF Exact
<1>10. Total(a)
  <2> SUFFICES ASSUME NEW x \in A, NEW y \in A, x # y PROVE <<x, y>> \in a.order \/ <<y, x>> \in a.order
    BY <1>4 DEF Total
  <2>1. \A w \in H : <<w, k>> \in a.order
    BY <1>1, <1>4 DEF C!Latest
  <2>2. CASE x = k \/ y = k
    BY <1>1, <2>1, <2>2
  <2>3. CASE x # k /\ y # k
    <3>1. <<x, y>> \in c.order \/ <<y, x>> \in c.order
      BY <1>0, <1>1, <2>3 DEF Total
    <3> QED BY <1>4, <2>3, <3>1 DEF C!Latest
  <2> QED BY <2>2, <2>3
<1> QED BY <1>1, <1>4, <1>8, <1>9, <1>10 DEF Sound

(* Of some finite sets one is as small as any other.                       *)
LEMMA Smallest ==
  ASSUME NEW Sets, Sets # {}, \A P \in Sets : IsFiniteSet(P)
  PROVE  \E P \in Sets : \A Q \in Sets : Cardinality(P) =< Cardinality(Q)
<1> DEFINE N == {n \in Nat : \E P \in Sets : Cardinality(P) = n}
<1>1. \A P \in Sets : Cardinality(P) \in N
  BY FS_CardinalityType
<1>2. N # {} /\ N \in SUBSET Nat
  BY <1>1
<1>3. PICK n \in N : \A m \in N : ~(<<m, n>> \in OpToRel(<, Nat))
  <2> HIDE DEF N
  <2> QED BY <1>2, NatLessThanWellFounded, WFMin
<1>4. \A m \in N : n =< m
  <2> SUFFICES ASSUME NEW m \in N, m < n PROVE FALSE
    OBVIOUS
  <2>1. <<m, n>> \in OpToRel(<, Nat)
    BY DEF OpToRel
  <2> QED BY <1>3, <2>1
<1> QED BY <1>1, <1>4

(* Eviction takes a beginning of the order, all of it or enough.           *)
LEMMA Evicts ==
  ASSUME NEW c, Sound(c), NEW r, r = C!Evict(c)
  PROVE  /\ Sound(r) /\ ~C!Over(r) /\ r.order \subseteq c.order
         /\ \E P \in SUBSET C!Held(c) :
              /\ C!Held(r) = C!Held(c) \ P
              /\ \A x \in P, y \in C!Held(r) : <<x, y>> \in c.order
         /\ \A k \in C!Held(r) : r.data[k] = c.data[k]
<1>0. CacheType(c) /\ Exact(c) /\ Total(c)
  BY DEF Sound
<1> DEFINE enough == {P \in C!Beginnings(c) : P = C!Held(c) \/ ~C!Over(C!RemoveKeys(c, P))}
<1>1. C!Held(c) \in enough
  BY DEF C!Beginnings
<1>2. \A P \in enough : P \in SUBSET C!Held(c) /\ IsFiniteSet(P) /\ C!Cardinality(P) = Cardinality(P)
  BY <1>0, Parts, Counts DEF C!Beginnings
<1>3. \E P \in enough : \A Q \in enough : C!Cardinality(P) =< C!Cardinality(Q)
  <2> HIDE DEF enough
  <2>1. \E P \in enough : \A Q \in enough : Cardinality(P) =< Cardinality(Q)
    BY <1>1, <1>2, Smallest
  <2> QED BY <1>2, <2>1
<1>4. PICK P : P = CHOOSE M \in enough : \A Q \in enough : C!Cardinality(M) =< C!Cardinality(Q)
  OBVIOUS
<1>5. P \in enough
  <2> HIDE DEF enough
  <2> QED BY <1>3, <1>4
<1>6. r = C!RemoveKeys(c, P)
  BY <1>4 DEF C!Evict
<1>7. P \in C!Beginnings(c) /\ P \in SUBSET C!Held(c) /\ (P = C!Held(c) \/ ~C!Over(r))
  BY <1>5, <1>6 DEF C!Beginnings
<1> HIDE DEF enough
<1>8. /\ Sound(r) /\ C!Held(r) = C!Held(c) \ P
      /\ \A k \in C!Held(r) : r.data[k] = c.data[k]
      /\ r.order \subseteq c.order
  BY <1>6, Removes
<1>9. ~C!Over(r)
  <2>1. CASE P = C!Held(c)
    <3>1. C!Held(r) = {} /\ r.bytes = SizeSum(r.data, {})
      BY <1>8, <2>1 DEF Sound, Exact
    <3>2. r.bytes = 0 /\ C!Cardinality(C!Held(r)) = 0
      BY <3>1, SumOfNone, FS_EmptySet, Counts
    <3> QED BY <3>2, Counts DEF C!Over
  <2> QED BY <1>7, <2>1
<1>10. \A x \in P, y \in C!Held(r) : <<x, y>> \in c.order
  BY <1>0, <1>7, <1>8 DEF C!Beginnings, Total
<1> QED BY <1>7, <1>8, <1>9, <1>10

(* What get() answers when the cache is c.                                 *)
Ans(c) ==
  [k \in Keys |-> IF k \in C!Held(c) /\ C!Usable(c.data[k])
                    THEN [value |-> c.data[k].value, left |-> c.data[k].left]
                    ELSE Absent]

LEMMA Answers == C!answers = Ans(cache) /\ (C!answers)' = Ans(cache')
BY DEF C!answers, Ans

LEMMA AnswersKept ==
  ASSUME NEW c, NEW r, C!Held(r) \in SUBSET Keys,
         \A k \in C!Held(r) : k \in C!Held(c) /\ r.data[k] = c.data[k]
  PROVE  Ans(r) = [k \in Keys |-> IF k \in C!Held(c) \ C!Held(r) THEN Absent ELSE Ans(c)[k]]
<1>1. ASSUME NEW k \in Keys PROVE Ans(r)[k] = IF k \in C!Held(c) \ C!Held(r) THEN Absent ELSE Ans(c)[k]
  <2>1. CASE k \in C!Held(r)
    BY <2>1 DEF Ans
  <2>2. CASE k \notin C!Held(r)
    BY <2>2 DEF Ans
  <2> QED BY <2>1, <2>2
<1>2. Ans(r) = [k \in Keys |-> Ans(r)[k]]
  BY DEF Ans
<1> QED BY <1>1, <1>2

(* The entry is added behind the others, and what must go to keep the      *)
(* limits comes from the front.                                            *)
LEMMA SetSteps ==
  ASSUME CacheInv, NEW k \in Keys, NEW v \in Contents, NEW ttl \in Ttls, C!Set(k, v, ttl)
  PROVE  /\ CacheInv'
         /\ \E P \in SUBSET Keys : C!Promise!Store(k, v, ttl, P)
         /\ \A x \in (C!Held(cache) \ C!Held(cache')) \ {k},
               y \in (C!Held(cache) \cap C!Held(cache')) \ {k} : <<x, y>> \in recent
<1>0. Sound(cache) /\ cache.order \subseteq recent
  BY DEF CacheInv
<1>1. PICK e, b, a : /\ e = [value |-> v, left |-> ttl, size |-> SizeOf[v], ns |-> NamespaceOf[k]]
                     /\ b = C!Replaced(cache, k)
                     /\ a = C!AccountAdd(C!Added(b, k, e), e)
  OBVIOUS
<1>2. cache' = C!Evict(a) /\ recent' = C!Latest(recent, k, Keys) /\ ttl > 0
  BY <1>1 DEF C!Set, C!Used
<1>3. e \in Entry /\ e.value = v /\ e.left = ttl /\ ttl >= 0
  BY <1>1, <1>2, Counts DEF Entry
<1>4. /\ Sound(b) /\ C!Held(b) = C!Held(cache) \ {k} /\ b.order \subseteq cache.order
      /\ \A x \in C!Held(b) : b.data[x] = cache.data[x]
  BY <1>0, <1>1, Removes DEF C!Replaced
<1>5. /\ Sound(a) /\ C!Held(a) = C!Held(b) \cup {k} /\ a.data[k] = e
      /\ \A x \in C!Held(b) : a.data[x] = b.data[x]
      /\ a.order \subseteq C!Latest(b.order, k, C!Held(b))
  <2>1. k \notin C!Held(b)
    BY <1>4
  <2>2. a = C!AccountAdd(C!Added(b, k, e), e)
    BY <1>1
  <2>3. Sound(b) /\ e \in Entry
    BY <1>3, <1>4
  <2> QED BY <2>1, <2>2, <2>3, Adds
<1>6. PICK P \in SUBSET C!Held(a) :
        /\ Sound(cache') /\ ~C!Over(cache') /\ cache'.order \subseteq a.order
        /\ C!Held(cache') = C!Held(a) \ P
        /\ \A x \in P, y \in C!Held(cache') : <<x, y>> \in a.order
        /\ \A x \in C!Held(cache') : cache'.data[x] = a.data[x]
  BY <1>2, <1>5, Evicts
<1>t. C!Held(a) \in SUBSET Keys
  BY <1>5 DEF Sound, CacheType
<1>7. a.order \subseteq C!Latest(recent, k, Keys)
  BY <1>0, <1>4, <1>5, <1>t DEF C!Latest
<1>8. CacheInv'
  BY <1>2, <1>6, <1>7 DEF CacheInv
<1>9. C!Promise!Store(k, v, ttl, P)
  <2>1. ASSUME NEW x \in Keys
        PROVE  Ans(cache')[x] = IF x \in P THEN Absent
                                ELSE IF x = k THEN [value |-> v, left |-> ttl] ELSE Ans(cache)[x]
    <3>1. CASE x \in P
      BY <1>6, <3>1 DEF Ans
    <3>2. CASE x \notin P /\ x = k
      <4>1. x \in C!Held(cache') /\ cache'.data[x] = e /\ C!Usable(e)
        BY <1>3, <1>5, <1>6, <3>2 DEF C!Usable
      <4> QED BY <1>3, <3>2, <4>1 DEF Ans
    <3>3. CASE x \notin P /\ x # k /\ x \in C!Held(cache)
      <4>1. x \in C!Held(cache') /\ cache'.data[x] = cache.data[x]
        BY <1>4, <1>5, <1>6, <3>3
      <4> QED BY <3>3, <4>1 DEF Ans
    <3>4. CASE x \notin P /\ x # k /\ x \notin C!Held(cache)
      <4>1. x \notin C!Held(cache')
        BY <1>4, <1>5, <1>6, <3>4
      <4> QED BY <3>4, <4>1 DEF Ans
    <3> QED BY <3>1, <3>2, <3>3, <3>4
  <2>2. Ans(cache') = [x \in Keys |-> Ans(cache')[x]]
    BY DEF Ans
  <2> QED BY <2>1, <2>2, Answers DEF C!Promise!Store
<1>10. ASSUME NEW x \in (C!Held(cache) \ C!Held(cache')) \ {k},
              NEW y \in (C!Held(cache) \cap C!Held(cache')) \ {k}
       PROVE  <<x, y>> \in recent
  <2>1. x \in P
    BY <1>4, <1>5, <1>6
  <2>2. <<x, y>> \in a.order
    BY <1>6, <2>1
  <2> QED BY <1>7, <2>2 DEF C!Latest
<1> QED BY <1>t, <1>8, <1>9, <1>10

LEMMA RemoveSteps ==
  ASSUME CacheInv, NEW S \in SUBSET Keys, cache' = C!RemoveKeys(cache, S), recent' = recent
  PROVE  CacheInv' /\ C!Promise!Drop(S)
<1>0. Sound(cache) /\ cache.order \subseteq recent /\ ~C!Over(cache)
  BY DEF CacheInv
<1>1. /\ Sound(cache') /\ C!Held(cache') = C!Held(cache) \ S
      /\ \A k \in C!Held(cache') : cache'.data[k] = cache.data[k]
      /\ cache'.order \subseteq cache.order /\ cache'.bytes =< cache.bytes
      /\ Cardinality(C!Held(cache')) =< Cardinality(C!Held(cache))
  BY <1>0, Removes
<1>2. ~C!Over(cache')
  <2>1. cache.bytes \in Int /\ cache'.bytes \in Int
        /\ Cardinality(C!Held(cache)) \in Int /\ Cardinality(C!Held(cache')) \in Int
    BY <1>0, <1>1, FS_CardinalityType DEF Sound, CacheType
  <2> QED BY <1>0, <1>1, <2>1, Counts DEF C!Over
<1>3. CacheInv'
  BY <1>0, <1>1, <1>2 DEF CacheInv
<1>4. C!Promise!Drop(S)
  <2>1. Ans(cache') = [k \in Keys |-> IF k \in C!Held(cache) \ C!Held(cache') THEN Absent ELSE Ans(cache)[k]]
    <3>1. C!Held(cache') \in SUBSET Keys
      BY <1>1 DEF Sound, CacheType
    <3> QED BY <1>1, <3>1, AnswersKept
  <2>2. ASSUME NEW k \in Keys
        PROVE  (IF k \in C!Held(cache) \ C!Held(cache') THEN Absent ELSE Ans(cache)[k])
                  = (IF k \in S THEN Absent ELSE Ans(cache)[k])
    <3>1. CASE k \in C!Held(cache)
      BY <1>1, <3>1
    <3>2. CASE k \notin C!Held(cache)
      <4>1. Ans(cache)[k] = Absent
        BY <3>2 DEF Ans
      <4> QED BY <3>2, <4>1
    <3> QED BY <3>1, <3>2
  <2>3. Ans(cache') = [k \in Keys |-> IF k \in S THEN Absent ELSE Ans(cache)[k]]
    BY <2>1, <2>2
  <2> QED BY <2>3, Answers DEF C!Promise!Drop
<1> QED BY <1>3, <1>4

LEMMA GetSteps ==
  ASSUME CacheInv, NEW k \in Keys, C!Get(k)
  PROVE  CacheInv' /\ UNCHANGED C!answers
<1>0. Sound(cache) /\ cache.order \subseteq recent /\ ~C!Over(cache) /\ k \in C!Held(cache)
      /\ CacheType(cache) /\ Exact(cache) /\ Total(cache)
  BY DEF CacheInv, Sound, C!Get
<1>1. CASE C!Usable(cache.data[k])
  <2>1. cache' = C!Touched(cache, k) /\ recent' = C!Latest(recent, k, Keys)
    BY <1>1 DEF C!Get, C!Used
  <2>2. cache' = [data |-> cache.data, order |-> C!Latest(cache.order, k, C!Held(cache)), bytes |-> cache.bytes,
                  entries |-> cache.entries, nsBytes |-> cache.nsBytes]
    BY <1>0, <2>1 DEF C!Touched, CacheType
  <2>3. /\ cache'.data = cache.data /\ cache'.bytes = cache.bytes /\ cache'.entries = cache.entries
        /\ cache'.nsBytes = cache.nsBytes /\ cache'.order = C!Latest(cache.order, k, C!Held(cache))
        /\ C!Held(cache') = C!Held(cache) /\ \A n : C!InNamespace(cache', n) = C!InNamespace(cache, n)
    BY <2>2 DEF C!Held, C!InNamespace
  <2>4. CacheType(cache') /\ Exact(cache') /\ ~C!Over(cache')
    BY <1>0, <2>2, <2>3 DEF CacheType, Exact, C!Over
  <2>5. Total(cache')
    <3> SUFFICES ASSUME NEW x \in C!Held(cache), NEW y \in C!Held(cache), x # y
                 PROVE  <<x, y>> \in cache'.order \/ <<y, x>> \in cache'.order
      BY <2>3 DEF Total
    <3>1. CASE x = k \/ y = k
      BY <2>3, <3>1 DEF C!Latest
    <3>2. CASE x # k /\ y # k
      BY <1>0, <2>3, <3>2 DEF C!Latest, Total
    <3> QED BY <3>1, <3>2
  <2>6. cache'.order \subseteq recent'
    BY <1>0, <2>1, <2>3 DEF C!Latest, CacheType
  <2>7. Ans(cache') = Ans(cache)
    BY <2>3 DEF Ans
  <2> QED BY <2>4, <2>5, <2>6, <2>7, Answers DEF CacheInv, Sound
<1>2. CASE ~C!Usable(cache.data[k])
  <2>1. cache' = C!RemoveKeys(cache, {k}) /\ recent' = recent
    BY <1>2 DEF C!Get
  <2>2. CacheInv' /\ C!Promise!Drop({k})
    BY <2>1, RemoveSteps
  <2>3. Ans(cache)[k] = Absent
    BY <1>2 DEF Ans
  <2>4. Ans(cache') = [x \in Keys |-> IF x \in {k} THEN Absent ELSE Ans(cache)[x]]
    BY <2>2, Answers DEF C!Promise!Drop
  <2>5. Ans(cache') = [x \in Keys |-> Ans(cache)[x]]
    BY <2>3, <2>4
  <2>6. Ans(cache') = Ans(cache)
    BY <2>5 DEF Ans
  <2> QED BY <2>2, <2>6, Answers
<1> QED BY <1>1, <1>2

LEMMA Empty ==
  ASSUME NEW c, c = C!Fresh
  PROVE  Sound(c) /\ ~C!Over(c) /\ C!Held(c) = {} /\ c.order = {}
<1>1. c = [data |-> <<>>, order |-> {}, bytes |-> 0, entries |-> C!Zeros, nsBytes |-> C!Zeros]
  BY DEF C!Fresh
<1>2. c.data = <<>> /\ c.order = {} /\ c.bytes = 0 /\ c.entries = C!Zeros /\ c.nsBytes = C!Zeros
  BY <1>1
<1>3. DOMAIN c.data = {}
  BY <1>2
<1>4. C!Held(c) = {} /\ \A n : C!InNamespace(c, n) = {}
  BY <1>3 DEF C!Held, C!InNamespace
<1>5. SizeSum(c.data, {}) = 0 /\ IsFiniteSet({}) /\ Cardinality({}) = 0 /\ C!Cardinality({}) = 0
  BY SumOfNone, FS_EmptySet, Counts
<1>6. CacheType(c)
  <2>1. c.data \in [{} -> Entry]
    BY <1>2, <1>3
  <2>2. C!Zeros \in [Namespaces -> Int]
    BY DEF C!Zeros
  <2>3. c = [data |-> c.data, order |-> c.order, bytes |-> c.bytes, entries |-> c.entries, nsBytes |-> c.nsBytes]
    BY <1>1
  <2> QED BY <1>2, <1>4, <1>5, <2>1, <2>2, <2>3 DEF CacheType
<1>7. Exact(c)
  BY <1>2, <1>4, <1>5 DEF Exact, C!Zeros
<1>8. Total(c)
  BY <1>4 DEF Total
<1>9. ~C!Over(c)
  BY <1>2, <1>4, <1>5, Counts DEF C!Over
<1> QED BY <1>2, <1>4, <1>6, <1>7, <1>8, <1>9 DEF Sound

LEMMA ClearSteps ==
  ASSUME CacheInv, C!Clear
  PROVE  CacheInv' /\ C!Promise!Drop(Keys)
<1>1. Sound(cache') /\ ~C!Over(cache') /\ C!Held(cache') = {} /\ cache'.order = {}
  BY Empty DEF C!Clear
<1>2. Ans(cache') = [x \in Keys |-> IF x \in Keys THEN Absent ELSE Ans(cache)[x]]
  BY <1>1 DEF Ans
<1> QED BY <1>1, <1>2, Answers DEF CacheInv, C!Promise!Drop

LEMMA TickSteps ==
  ASSUME CacheInv, C!Tick
  PROVE  CacheInv' /\ C!Promise!Age
<1>0. Sound(cache) /\ cache.order \subseteq recent /\ ~C!Over(cache)
      /\ CacheType(cache) /\ Exact(cache) /\ Total(cache)
  BY DEF CacheInv, Sound
<1>1. PICK H : H = C!Held(cache)
  OBVIOUS
<1>2. /\ recent' = recent
      /\ cache' = [data |-> [k \in H |-> C!Aged(cache.data[k])],
                   order |-> cache.order, bytes |-> cache.bytes,
                   entries |-> cache.entries, nsBytes |-> cache.nsBytes]
  BY <1>0, <1>1 DEF C!Tick, CacheType, C!Held
<1>3. /\ cache'.bytes = cache.bytes /\ cache'.entries = cache.entries
      /\ cache'.nsBytes = cache.nsBytes /\ cache'.order = cache.order
      /\ DOMAIN cache'.data = H
      /\ \A k \in H : cache'.data[k] = C!Aged(cache.data[k])
  BY <1>2
<1>4. ASSUME NEW k \in H
      PROVE  /\ cache.data[k] \in Entry /\ cache'.data[k] \in Entry
             /\ cache'.data[k].size = cache.data[k].size /\ cache'.data[k].ns = cache.data[k].ns
             /\ cache'.data[k].value = cache.data[k].value
             /\ cache'.data[k].left = IF cache.data[k].left < 0 THEN cache.data[k].left ELSE cache.data[k].left - 1
  <2>1. PICK e : e = cache.data[k]
    OBVIOUS
  <2>2. e \in Entry
    BY <1>0, <1>1, <2>1 DEF CacheType
  <2>3. cache'.data[k] = [e EXCEPT !.left = IF @ < 0 THEN @ ELSE @ - 1]
    BY <1>3, <2>1 DEF C!Aged
  <2> HIDE <1>2
  <2> QED BY <2>1, <2>2, <2>3 DEF Entry
<1>5. C!Held(cache') = H /\ \A n : C!InNamespace(cache', n) = C!InNamespace(cache, n)
  BY <1>1, <1>3, <1>4 DEF C!Held, C!InNamespace
<1>6. \A D \in SUBSET H : SizeSum(cache'.data, D) = SizeSum(cache.data, D)
  <2> TAKE D \in SUBSET H
  <2>1. IsFiniteSet(D) /\ \A k \in D : cache'.data[k].size = cache.data[k].size
    BY <1>0, <1>1, <1>4, Parts
  <2> QED BY <2>1, SumSame
<1>7. CacheType(cache')
  <2>1. cache' = [data |-> cache'.data, order |-> cache'.order, bytes |-> cache'.bytes,
                  entries |-> cache'.entries, nsBytes |-> cache'.nsBytes]
    BY <1>2
  <2>2. cache'.data \in [H -> Entry]
    <3>1. cache'.data = [k \in H |-> cache'.data[k]]
      BY <1>2
    <3> QED BY <1>4, <3>1
  <2> QED BY <1>0, <1>1, <1>3, <1>5, <2>1, <2>2 DEF CacheType
<1>8. Exact(cache')
  <2>1. \A n : C!InNamespace(cache, n) \in SUBSET H
    BY <1>1 DEF C!InNamespace
  <2> QED BY <1>0, <1>1, <1>3, <1>5, <1>6, <2>1 DEF Exact
<1>9. Total(cache') /\ ~C!Over(cache')
  BY <1>0, <1>1, <1>3, <1>5 DEF Total, C!Over
<1>10. CacheInv'
  BY <1>0, <1>2, <1>3, <1>7, <1>8, <1>9 DEF CacheInv, Sound
<1>11. ASSUME NEW k \in Keys
       PROVE  Ans(cache')[k] = IF Ans(cache)[k] = Absent \/ Ans(cache)[k].left = 0 THEN Absent
                               ELSE [Ans(cache)[k] EXCEPT !.left = @ - 1]
  <2>1. CASE k \in H /\ C!Usable(cache.data[k])
    <3>1. PICK v, n : v = cache.data[k].value /\ n = cache.data[k].left
      OBVIOUS
    <3>2. v \in Contents /\ n \in Int /\ n >= 0
      BY <1>4, <2>1, <3>1 DEF Entry, C!Usable
    <3>3. Ans(cache)[k] = [value |-> v, left |-> n]
      BY <1>1, <2>1, <3>1 DEF Ans
    <3>4. Ans(cache)[k] # Absent
      BY <3>2, <3>3, Counts
    <3>5. cache'.data[k].value = v /\ cache'.data[k].left = n - 1
      BY <1>4, <2>1, <3>1, <3>2
    <3>6. CASE n = 0
      <4>1. ~C!Usable(cache'.data[k])
        BY <3>5, <3>6 DEF C!Usable
      <4>2. Ans(cache')[k] = Absent
        BY <4>1 DEF Ans
      <4> QED BY <3>3, <3>6, <4>2
    <3>7. CASE n # 0
      <4>1. C!Usable(cache'.data[k])
        BY <3>2, <3>5, <3>7 DEF C!Usable
      <4>2. Ans(cache')[k] = [value |-> v, left |-> n - 1]
        BY <1>5, <2>1, <3>5, <4>1 DEF Ans
      <4> QED BY <3>3, <3>4, <3>7, <4>2
    <3> QED BY <3>6, <3>7
  <2>2. CASE ~(k \in H /\ C!Usable(cache.data[k]))
    <3>1. Ans(cache)[k] = Absent
      BY <1>1, <2>2 DEF Ans
    <3>2. k \in H => ~C!Usable(cache'.data[k])
      BY <1>4, <2>2 DEF C!Usable, Entry
    <3>3. Ans(cache')[k] = Absent
      BY <1>5, <3>2 DEF Ans
    <3> QED BY <3>1, <3>3
  <2> QED BY <2>1, <2>2
<1>12. Ans(cache') = [k \in Keys |-> Ans(cache')[k]]
  BY DEF Ans
<1>13. Ans(cache') = [k \in Keys |-> IF Ans(cache)[k] = Absent \/ Ans(cache)[k].left = 0 THEN Absent
                                     ELSE [Ans(cache)[k] EXCEPT !.left = @ - 1]]
  BY <1>11, <1>12
<1> QED BY <1>10, <1>13, Answers DEF C!Promise!Age

LEMMA CacheStep ==
  ASSUME CacheInv, C!Next
  PROVE  CacheInv' /\ (C!Promise!Next \/ UNCHANGED C!answers)
<1>1. ASSUME NEW k \in Keys, C!Get(k) PROVE CacheInv' /\ UNCHANGED C!answers
  BY <1>1, GetSteps
<1>2. ASSUME NEW k \in Keys, NEW v \in Contents, NEW ttl \in Ttls, C!Set(k, v, ttl)
      PROVE  CacheInv' /\ C!Promise!Next
  BY <1>2, SetSteps DEF C!Promise!Next
<1>3. ASSUME NEW S \in SUBSET Keys, C!Delete(S) PROVE CacheInv' /\ C!Promise!Next
  BY <1>3, RemoveSteps DEF C!Delete, C!Promise!Next
<1>4. ASSUME C!Clear PROVE CacheInv' /\ C!Promise!Next
  BY <1>4, ClearSteps DEF C!Promise!Next
<1>5. ASSUME C!Tick PROVE CacheInv' /\ C!Promise!Next
  BY <1>5, TickSteps DEF C!Promise!Next
<1>6. (\A S \in Groups : S \in SUBSET Keys) /\ \A k \in Keys : {k} \in SUBSET Keys
  BY Counts
<1>7. \A n : C!InNamespace(cache, n) \in SUBSET Keys
  BY DEF CacheInv, Sound, CacheType, C!InNamespace
<1> QED BY <1>1, <1>2, <1>3, <1>4, <1>5, <1>6, <1>7 DEF C!Next

LEMMA CacheGoes ==
  ASSUME CacheInv, [Next]_vars
  PROVE  CacheInv' /\ [C!Promise!Next]_(C!answers) /\ (scene = "cache" => C!EvictsOldest)
<1>1. ASSUME UNCHANGED cacheVars PROVE CacheInv' /\ UNCHANGED C!answers
  BY <1>1, Answers DEF cacheVars, CacheInv
<1>2. CacheInv' /\ (C!Promise!Next \/ UNCHANGED C!answers)
  BY <1>1, CacheStep DEF Next, vars
<1>3. C!EvictsOldest
  BY SetSteps DEF C!EvictsOldest
<1> QED BY <1>2, <1>3

LEMMA CacheInit == C!Init => CacheInv /\ C!Promise!Init
<1> SUFFICES ASSUME C!Init PROVE CacheInv /\ C!Promise!Init
  OBVIOUS
<1>1. Sound(cache) /\ ~C!Over(cache) /\ C!Held(cache) = {} /\ cache.order = {}
  BY Empty DEF C!Init
<1> QED BY <1>1 DEF CacheInv, C!answers, C!Promise!Init, C!Promise!Nothing

(* Whatever is set, replaced, evicted, deleted or expires, the counters of *)
(* the cache are those of the entries it holds, and neither of its limits  *)
(* is exceeded between two calls.                                          *)
THEOREM CacheStaysBounded == Spec => []CacheBounded
<1>1. Init => CacheInv
  BY CacheInit DEF Init
<1>2. CacheInv /\ [Next]_vars => CacheInv'
  BY CacheGoes
<1>3. CacheInv => CacheBounded
  BY Counts DEF CacheInv, Sound, Exact, SizeSum, CacheBounded, C!AccountingExact, C!WithinLimits
<1> QED BY <1>1, <1>2, <1>3, PTL DEF Spec

(* The cache implements ForgetfulMap: get() never answers with anything    *)
(* but the value set last, nor after its time to live; and the entries     *)
(* that a set pushes out were used longer ago than those it leaves.        *)
THEOREM CacheKeepsItsPromise == Spec => PromiseKept
<1>1. Init => CacheInv /\ C!Promise!Init
  BY CacheInit DEF Init
<1>2. CacheInv /\ [Next]_vars => CacheInv' /\ [C!Promise!Next]_(C!answers) /\ (scene = "cache" => C!EvictsOldest)
  BY CacheGoes
<1>3. CacheInv /\ [Next]_vars => [scene = "cache" => C!EvictsOldest]_vars
  BY <1>2
<1>4. PromiseKept <=> C!Promise!Init /\ [][C!Promise!Next]_(C!answers) /\ [][scene = "cache" => C!EvictsOldest]_vars
  BY DEF PromiseKept, C!PromiseKept, C!Promise!Spec
<1> QED BY <1>1, <1>2, <1>3, <1>4, PTL DEF Spec

-----------------------------------------------------------------------------
(* Cached reads *)

Filled(k) == \E v, n : cached[k] = [value |-> v, left |-> n]

(* Of every client's request it is known where it is, and what is cached   *)
(* is a value with the time it has left.                                   *)
ReadInv ==
  /\ DOMAIN session = Clients
  /\ \A k \in R!CacheKeys : cached[k] # Absent => Filled(k)

LEMMA Sources ==
  ASSUME NEW k \in R!CacheKeys, UNCHANGED <<table, revoked>>
  PROVE  R!Source(k)' = R!Source(k)
BY DEF R!Source

(* Where an entry stays as it was and so does the table, nothing is stale  *)
(* that was not.                                                           *)
LEMMA StaleStays ==
  ASSUME NEW k \in R!CacheKeys, UNCHANGED <<table, revoked>>,
         cached'[k] # Absent => cached[k] # Absent /\ cached'[k].value = cached[k].value
  PROVE  R!Stale(k)' => R!Stale(k)
BY Sources DEF R!Stale

(* Which entries drops and ticks leave.                                    *)
LEMMA Drops ==
  ASSUME ReadInv, NEW S, R!Cache!Drop(S)
  PROVE  \A k \in R!CacheKeys :
           /\ cached'[k] # Absent => cached[k] # Absent /\ cached'[k] = cached[k]
           /\ cached'[k] # Absent => Filled(k)'
BY DEF R!Cache!Drop, ReadInv, Filled, R!CacheKeys

LEMMA Ages ==
  ASSUME ReadInv, R!Cache!Age
  PROVE  \A k \in R!CacheKeys : cached'[k] # Absent =>
           cached[k] # Absent /\ cached'[k].value = cached[k].value /\ Filled(k)'
<1> SUFFICES ASSUME NEW k \in R!CacheKeys, cached'[k] # Absent
             PROVE  cached[k] # Absent /\ cached'[k].value = cached[k].value /\ Filled(k)'
  OBVIOUS
<1>1. cached[k] # Absent /\ cached'[k] = [cached[k] EXCEPT !.left = @ - 1]
  BY DEF R!Cache!Age
<1>2. PICK v, n : cached[k] = [value |-> v, left |-> n]
  BY <1>1 DEF ReadInv, Filled
<1>3. cached'[k] = [value |-> v, left |-> n - 1]
  BY <1>1, <1>2
<1> QED BY <1>1, <1>2, <1>3 DEF Filled

(* What becomes stale in a step, and how.                                  *)
Races == \A k \in R!CacheKeys : ~R!Stale(k) /\ R!Stale(k)' => R!LateFill(k) \/ R!ByKey \/ R!ToBeDeleted(k)

LEMMA ReadStep ==
  ASSUME ReadInv, R!Next
  PROVE  ReadInv' /\ Races
<1>0. DOMAIN session = Clients /\ \A k \in R!CacheKeys : cached[k] # Absent => Filled(k)
  BY DEF ReadInv
<1>g. ASSUME NEW c \in Clients, NEW place, R!Goto(c, place)
      PROVE  DOMAIN session' = Clients /\ session'[c] = place
  BY <1>0, <1>g DEF R!Goto
<1>k. ASSUME UNCHANGED cached PROVE \A k \in R!CacheKeys : cached'[k] # Absent => Filled(k)'
  BY <1>0, <1>k DEF Filled
<1>1. ASSUME NEW c \in Clients, NEW k \in R!CacheKeys, R!Hit(c, k) \/ R!Miss(c, k) PROVE ReadInv' /\ Races
  <2>1. DOMAIN session' = Clients /\ UNCHANGED <<table, revoked, cached>>
    BY <1>1, <1>g DEF R!Hit, R!Miss
  <2> QED BY <1>k, <2>1, StaleStays DEF ReadInv, Races
<1>2. ASSUME NEW c \in Clients, R!Select(c) PROVE ReadInv' /\ Races
  <2>1. DOMAIN session' = Clients /\ UNCHANGED <<table, revoked, cached>>
    BY <1>2, <1>g DEF R!Select
  <2> QED BY <1>k, <2>1, StaleStays DEF ReadInv, Races
<1>3. ASSUME NEW c \in Clients, R!Fill(c) PROVE ReadInv' /\ Races
  <2>1. PICK q : q = session[c].key
    OBVIOUS
  <2>2. /\ R!At(c, "selected") /\ UNCHANGED <<table, revoked>>
        /\ DOMAIN session' = Clients /\ session'[c] = R!Answered(q)
        /\ R!Cache!Store(q, session[c].value, TtlOf[q], {})
    BY <1>3, <1>g, <2>1 DEF R!Fill
  <2>3. session'[c].at # "selected"
    BY <2>2 DEF R!Answered, R!Idle
  <2>4. \A k \in R!CacheKeys : cached'[k] = IF k = q THEN [value |-> session[c].value, left |-> TtlOf[q]] ELSE cached[k]
    BY <2>2 DEF R!Cache!Store, R!CacheKeys
  <2>5. \A k \in R!CacheKeys : cached'[k] # Absent => Filled(k)'
    BY <1>0, <2>4 DEF Filled
  <2>6. ASSUME NEW k \in R!CacheKeys, ~R!Stale(k), R!Stale(k)' PROVE R!LateFill(k)
    <3>1. CASE k = q
      <4>1. cached'[k].value = session[c].value
        BY <2>4, <3>1
      <4>2. session[c].value # R!Source(k)
        BY <2>2, <2>6, <4>1, Sources DEF R!Stale
      <4> QED BY <2>1, <2>2, <2>3, <3>1, <4>2 DEF R!LateFill
    <3>2. CASE k # q
      BY <2>2, <2>4, <2>6, <3>2, StaleStays
    <3> QED BY <3>1, <3>2
  <2> QED BY <2>2, <2>5, <2>6 DEF ReadInv, Races
<1>4. ASSUME NEW c \in Clients, NEW S \in SUBSET DocIds, R!CommitWrite(c, S) PROVE ReadInv' /\ Races
  <2>1. /\ UNCHANGED <<revoked, cached>> /\ R!Written(S)
        /\ DOMAIN session' = Clients /\ session'[c] = [at |-> "committed", keys |-> R!Invalidated(S)]
    BY <1>4, <1>g DEF R!CommitWrite
  <2>2. \A d \in DocIds \ S : table'[d] = table[d]
    BY <2>1 DEF R!Written
  <2>3. List \in R!Invalidated(S) /\ S \subseteq R!Invalidated(S)
    BY DEF R!Invalidated
  <2>4. ASSUME NEW k \in R!CacheKeys, ~R!Stale(k), R!Stale(k)' PROVE R!ToBeDeleted(k)
    <3>1. R!Source(k)' # R!Source(k)
      BY <2>1, <2>4 DEF R!Stale
    <3>2. k \in R!Invalidated(S)
      <4>1. CASE k = List
        BY <2>3, <4>1
      <4>2. CASE k # List /\ k = PublicKey
        BY <2>1, <3>1, <4>2 DEF R!Source
      <4>3. CASE k # List /\ k # PublicKey
        <5>1. k \in DocIds /\ table'[k] # table[k]
          BY <3>1, <4>3 DEF R!Source, R!CacheKeys
        <5> QED BY <2>2, <2>3, <5>1
      <4> QED BY <4>1, <4>2, <4>3
    <3> QED BY <2>1, <3>2 DEF R!ToBeDeleted
  <2> QED BY <1>k, <2>1, <2>4 DEF ReadInv, Races
<1>5. ASSUME NEW c \in Clients, R!CommitRevoke(c) PROVE ReadInv' /\ Races
  <2>1. /\ UNCHANGED <<table, cached>>
        /\ DOMAIN session' = Clients /\ session'[c] = [at |-> "committed", keys |-> {PublicKey}]
    BY <1>5, <1>g DEF R!CommitRevoke
  <2>2. ASSUME NEW k \in R!CacheKeys, ~R!Stale(k), R!Stale(k)' PROVE R!ToBeDeleted(k)
    <3>1. R!Source(k)' # R!Source(k)
      BY <2>1, <2>2 DEF R!Stale
    <3>2. k = PublicKey
      BY <2>1, <3>1 DEF R!Source
    <3> QED BY <2>1, <3>2 DEF R!ToBeDeleted
  <2> QED BY <1>k, <2>1, <2>2 DEF ReadInv, Races
<1>6. ASSUME NEW c \in Clients, R!Invalidate(c) PROVE ReadInv' /\ Races
  <2>1. DOMAIN session' = Clients /\ UNCHANGED <<table, revoked>> /\ R!Cache!Drop(session[c].keys)
    BY <1>6, <1>g DEF R!Invalidate
  <2> QED BY <2>1, Drops, StaleStays DEF ReadInv, Races
<1>7. ASSUME NEW c \in Clients, R!KeyRequest(c) PROVE ReadInv' /\ Races
  <2>1. R!At(c, "admitted") /\ DOMAIN session' = Clients /\ session'[c] = R!Idle /\ UNCHANGED cached
    BY <1>7, <1>g DEF R!KeyRequest
  <2>2. R!ByKey
    BY <2>1 DEF R!ByKey, R!Idle
  <2> QED BY <1>k, <2>1, <2>2 DEF ReadInv, Races
<1>8. CASE R!Forget
  <2>1. UNCHANGED <<table, revoked, session>> /\ \E k \in R!CacheKeys : R!Cache!Drop({k})
    BY <1>8 DEF R!Forget
  <2> QED BY <1>0, <2>1, Drops, StaleStays DEF ReadInv, Races
<1>9. CASE R!Tick
  <2>1. UNCHANGED <<table, revoked, session>> /\ R!Cache!Age
    BY <1>9 DEF R!Tick
  <2> QED BY <1>0, <2>1, Ages, StaleStays DEF ReadInv, Races
<1>10. CASE R!Restart
  <2>1. UNCHANGED <<table, revoked>> /\ DOMAIN session' = Clients /\ R!Cache!Drop(R!CacheKeys)
    BY <1>10 DEF R!Restart
  <2> QED BY <2>1, Drops, StaleStays DEF ReadInv, Races
<1> QED BY <1>1, <1>2, <1>3, <1>4, <1>5, <1>6, <1>7, <1>8, <1>9, <1>10 DEF R!Next

LEMMA ReadGoes ==
  ASSUME ReadInv, [Next]_vars
  PROVE  ReadInv' /\ [Races]_(R!vars)
<1>1. ASSUME UNCHANGED readVars PROVE ReadInv' /\ UNCHANGED R!vars
  BY <1>1 DEF readVars, ReadInv, Filled, R!vars
<1>2. CASE R!Next
  BY <1>2, ReadStep
<1>3. CASE UNCHANGED readVars
  BY <1>1, <1>3
<1> QED BY <1>2, <1>3 DEF Next, vars

LEMMA ReadInit == R!Init => ReadInv
BY DEF R!Init, R!Cache!Init, R!Cache!Nothing, R!CacheKeys, ReadInv

(* However reads and writes overlap, a cached read becomes stale only by a *)
(* read that stores what it SELECTed before a write, by a write through a  *)
(* publishable key, or by a write that is about to delete the entry.       *)
THEOREM StaleByKnownRacesOnly == Spec => StaleOnlyByRace
<1>1. Init => ReadInv
  BY ReadInit DEF Init
<1>2. ReadInv /\ [Next]_vars => ReadInv' /\ [Races]_(R!vars)
  BY ReadGoes
<1>3. StaleOnlyByRace <=> [][Races]_(R!vars)
  BY DEF StaleOnlyByRace, R!StaleOnlyByRace, Races
<1> QED BY <1>1, <1>2, <1>3, PTL DEF Spec

=============================================================================
