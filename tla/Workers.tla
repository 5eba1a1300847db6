------------------------------ MODULE Workers ------------------------------
(***************************************************************************)
(* The limits a process keeps by itself: WorkerPool.submit                 *)
(* (lcloud/workers/pool.py), the token bucket of the calls to Telegram and *)
(* their retry (lcloud/workers/rate_limiter.py), and the bucket per client *)
(* of the HTTP handlers (lcloud/utils/rate_limit.py).                      *)
(*                                                                         *)
(* A bucket is refilled when it is looked at, by the time since it was     *)
(* looked at last.  A tick of the clock is the unit of its contents, and a *)
(* token is TicksPerToken units.  A caller that finds no token sleeps for  *)
(* what is missing, outside the lock, and looks again: callers that come   *)
(* meanwhile may be served first.                                          *)
(***************************************************************************)
EXTENDS Integers, SequencesExt, FiniteSets

CONSTANTS
  Jobs, MaxWorkers,
  Callers, MaxRetries,
  Repeat,        \* callers come back without end
  Floods,        \* waits in ticks that FloodWaitError asks for
  MaxFloodWait,
  Addresses,     \* client addresses of HTTP requests
  Telegram,      \* the key of the bucket of the calls to Telegram
  Burst, TicksPerToken

VARIABLES
  job,     \* job -> "new", "queued", "granted", "running" or "done"
  waiters, \* queued jobs, in the order of asyncio.Semaphore
  free,    \* the semaphore's value
  active,  \* _active
  bucket,  \* key -> [tokens, since]
  call,    \* caller -> [at, left, attempt]
  debt     \* history: key -> units handed out that no time has paid for yet

poolVars == <<job, waiters, free, active>>
bucketVars == <<bucket, call, debt>>
vars == <<poolVars, bucketVars>>

Buckets == Addresses \cup {Telegram}
Full == Burst * TicksPerToken

WorkersAssumption ==
  /\ {MaxWorkers, MaxRetries, Burst, TicksPerToken} \subseteq Nat \ {0}
  /\ Floods \subseteq Nat /\ MaxFloodWait \in Nat
  /\ Telegram \notin Addresses /\ Repeat \in BOOLEAN

Init ==
  /\ job = [j \in Jobs |-> "new"]
  /\ waiters = <<>> /\ free = MaxWorkers /\ active = 0
  /\ bucket = [k \in Buckets |-> [tokens |-> Full, since |-> 0]]
  /\ call = [c \in Callers |-> [at |-> "new", left |-> 0, attempt |-> 0]]
  /\ debt = [k \in Buckets |-> 0]

-----------------------------------------------------------------------------
(* WorkerPool.submit *)

(* asyncio.Semaphore: a slot that is given back goes to the first waiter.  *)
Release(js, ws) ==
  IF ws = <<>>
  THEN job' = js /\ waiters' = ws /\ free' = free + 1
  ELSE job' = [js EXCEPT ![Head(ws)] = "granted"] /\ waiters' = Tail(ws) /\ UNCHANGED free

Submit(j) ==
  /\ job[j] \in {"new", "done"}
  /\ IF free > 0 /\ waiters = <<>>
     THEN job' = [job EXCEPT ![j] = "granted"] /\ free' = free - 1 /\ UNCHANGED waiters
     ELSE job' = [job EXCEPT ![j] = "queued"] /\ waiters' = Append(waiters, j) /\ UNCHANGED free
  /\ UNCHANGED <<active, bucketVars>>

Begin(j) ==
  /\ job[j] = "granted"
  /\ job' = [job EXCEPT ![j] = "running"]
  /\ active' = active + 1
  /\ UNCHANGED <<waiters, free, bucketVars>>

(* Mutants: a job that raises keeps its slot, or is counted for ever. *)
ReleasedOnSuccess(j, ok) ==
  IF ok THEN Release([job EXCEPT ![j] = "done"], waiters)
        ELSE job' = [job EXCEPT ![j] = "done"] /\ UNCHANGED <<waiters, free>>
Released(j, ok) == Release([job EXCEPT ![j] = "done"], waiters)

LeftOnSuccess(ok) == IF ok THEN active - 1 ELSE active
Left(ok) == active - 1

(* The coroutine returns, raises or is cancelled.                          *)
End(j) ==
  /\ job[j] = "running"
  /\ \E ok \in BOOLEAN : Released(j, ok) /\ active' = Left(ok)
  /\ UNCHANGED bucketVars

(* The task that submitted is cancelled before its job runs.               *)
Cancel(j) ==
  /\ \/ /\ job[j] = "queued"
        /\ job' = [job EXCEPT ![j] = "done"]
        /\ waiters' = RemoveFirst(waiters, j)
        /\ UNCHANGED free
     \/ /\ job[j] = "granted"
        /\ Release([job EXCEPT ![j] = "done"], waiters)
  /\ UNCHANGED <<active, bucketVars>>

-----------------------------------------------------------------------------
(* Buckets *)

(* Mutant: an idle bucket fills without limit. *)
RefilledNoCap(b) == b.tokens + b.since
Refilled(b) == IF b.tokens + b.since > Full THEN Full ELSE b.tokens + b.since

(* One token of bucket k, if there is one.                                 *)
Take(k) ==
  /\ bucket' = [bucket EXCEPT ![k] =
       [tokens |-> IF Refilled(@) >= TicksPerToken THEN Refilled(@) - TicksPerToken ELSE Refilled(@),
        since |-> 0]]
  /\ debt' = IF Refilled(bucket[k]) >= TicksPerToken
             THEN [debt EXCEPT ![k] = @ + TicksPerToken] ELSE debt

(* RateLimiter.try_acquire: a request is let in, or 429.                   *)
TryAcquire(a) == Take(a) /\ UNCHANGED <<call, poolVars>>

At(c, place) == call[c].at = place

(* mtproto_call                                                            *)
StartCall(c) ==
  /\ At(c, "new") \/ (Repeat /\ At(c, "done"))
  /\ call' = [call EXCEPT ![c] = [at |-> "acquire", left |-> 0, attempt |-> 0]]
  /\ UNCHANGED <<bucket, debt, poolVars>>

Acquire(c) ==
  /\ At(c, "acquire") /\ call[c].left = 0
  /\ Take(Telegram)
  /\ LET have == Refilled(bucket[Telegram])
     IN call' = IF have >= TicksPerToken
                THEN [call EXCEPT ![c].at = "call"]
                ELSE [call EXCEPT ![c].left = TicksPerToken - have]
  /\ UNCHANGED poolVars

(* Mutant: the attempts are not counted. *)
CountedNot(n) == n
Counted(n) == n + 1

(* fn() returns or raises; or Telegram asks to wait.                       *)
Answer(c) ==
  /\ At(c, "call")
  /\ \/ call' = [call EXCEPT ![c].at = "done"]
     \/ \E w \in Floods :
          call' = IF w > MaxFloodWait
                  THEN [call EXCEPT ![c].at = "done"]
                  ELSE [call EXCEPT ![c] =
                         [at |-> "backoff", left |-> w + 1, attempt |-> Counted(@.attempt)]]
  /\ UNCHANGED <<bucket, debt, poolVars>>

(* The sleep is over; after the last attempt too, before it raises.        *)
Retry(c) ==
  /\ At(c, "backoff") /\ call[c].left = 0
  /\ call' = [call EXCEPT ![c].at = IF call[c].attempt < MaxRetries THEN "acquire" ELSE "done"]
  /\ UNCHANGED <<bucket, debt, poolVars>>

(* The clock; a time that fills the bucket is as good as a longer one.     *)
Tick ==
  /\ bucket' = [k \in Buckets |-> [bucket[k] EXCEPT !.since = IF @ =< Full THEN @ + 1 ELSE @]]
  /\ debt' = [k \in Buckets |-> IF debt[k] > 0 THEN debt[k] - 1 ELSE 0]
  /\ call' = [c \in Callers |-> [call[c] EXCEPT !.left = IF @ > 0 THEN @ - 1 ELSE 0]]
  /\ UNCHANGED poolVars

Work(c) == Acquire(c) \/ Answer(c) \/ Retry(c)

PoolNext == \E j \in Jobs : Submit(j) \/ Begin(j) \/ End(j) \/ Cancel(j)
BucketNext ==
  \/ \E c \in Callers : StartCall(c) \/ Work(c)
  \/ \E a \in Addresses : TryAcquire(a)
  \/ Tick
Next == PoolNext \/ BucketNext

(* Tasks run, jobs end, Telegram answers and time passes.                  *)
Fairness ==
  /\ \A j \in Jobs : WF_vars(Begin(j)) /\ WF_vars(End(j))
  /\ \A c \in Callers : WF_vars(Work(c))
  /\ WF_vars(Tick)

Spec == Init /\ [][Next]_vars /\ Fairness

-----------------------------------------------------------------------------
(* Properties *)

In(place) == {j \in Jobs : job[j] = place}

(* However jobs fail or are cancelled, no slot is lost or used twice, and  *)
(* `active` is the number of jobs that run.                                *)
SlotsExact ==
  /\ free + Cardinality(In("granted") \cup In("running")) = MaxWorkers
  /\ active = Cardinality(In("running"))

(* A job that was submitted runs or is cancelled.                          *)
EveryJobEnds == \A j \in Jobs : job[j] = "queued" ~> job[j] = "done"

(* In any stretch of time a bucket gives out no more than its burst and    *)
(* what that time refills.                                                 *)
BurstBounded == \A k \in Buckets : debt[k] =< Full

(* A call to Telegram ends, whoever else calls and however often it is     *)
(* told to wait, unless callers come back without end.                     *)
EveryCallEnds == \A c \in Callers : At(c, "acquire") ~> At(c, "done")
=============================================================================
