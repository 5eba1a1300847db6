------------------------------ MODULE Accounts ------------------------------
(***************************************************************************)
(* The users table and the three ways into it (lcloud/api/auth_v2.py,      *)
(* pin_recovery.py, payments.py): sign-in by a signed challenge, which     *)
(* registers unknown keys; purchase requests, which an administrator       *)
(* approves or rejects; and recovery of the seed with a PIN of four digits *)
(* that is locked after a number of misses.                                *)
(*                                                                         *)
(* Every handler SELECTs outside a transaction and writes later, only the  *)
(* columns that differ from what it loaded.  The one exception is verify:  *)
(* its second SELECT flushes the challenge first and so runs inside the    *)
(* write transaction.                                                      *)
(*                                                                         *)
(* Signatures, hashes and seeds are left out: a client signs with its own  *)
(* key, a guess is a hit if it equals the PIN that was loaded.  The limits *)
(* per address are in Workers.  suspended_at is set nowhere in the code.   *)
(***************************************************************************)
EXTENDS Integers, SequencesExt, FiniteSetsExt

CONSTANTS
  Clients,       \* requests in progress at one time
  Keys,          \* keys clients bring themselves
  Contacts,
  Pins,
  None,
  MaxFailed,     \* MAX_FAILED_ATTEMPTS
  MaxChallenges, \* bound: challenges issued
  MaxRequests,   \* bound: purchase requests
  MaxUsers,      \* bound: users
  MaxHours,      \* bound: hours that pass
  MaxSetups      \* bound: PINs set

VARIABLES
  users,      \* the users table
  challenges, \* the auth_challenges table
  requests,   \* the payment_requests table
  task,       \* client -> what its request is at
  grants,     \* history: challenge -> sessions opened with it
  misses,     \* history: user -> wrong guesses since the last hit, setup or end of a lock
  late,       \* history: user -> guesses judged while the account was locked
  hours, setups \* how often things happened

vars == <<users, challenges, requests, task, grants, misses, late, hours, setups>>
history == <<grants, misses, late>>

(* The key of an approved account is made by the server: no client has it  *)
(* before.                                                                 *)
ASSUME AccountsAssumption ==
  /\ Clients # {} /\ IsFiniteSet(Clients)
  /\ None \notin Contacts \cup Pins
  /\ "issued" \notin Keys
  /\ {MaxFailed, MaxUsers} \subseteq Nat \ {0}
  /\ {MaxChallenges, MaxRequests, MaxHours, MaxSetups} \subseteq Nat

Idle == [at |-> "idle"]
At(c, place) == task[c].at = place
Goto(c, t) == task' = [task EXCEPT ![c] = t]

(* lock is pin_locked_until: NULL, in the future, or in the past.          *)
NewUser(key, contact, request) ==
  [key |-> key, contact |-> contact, request |-> request,
   pin |-> None, failed |-> 0, lock |-> "null"]

(* An empty database, or one that has sold an account to somebody who set  *)
(* a PIN.                                                                  *)
Init ==
  /\ challenges = <<>>
  /\ \/ users = <<>> /\ requests = <<>>
     \/ \E contact \in Contacts, p \in Pins :
          /\ users = <<[NewUser("issued", contact, 1) EXCEPT !.pin = p]>>
          /\ requests = <<[contact |-> contact, status |-> "approved", user |-> 1]>>
  /\ task = [c \in Clients |-> Idle]
  /\ grants = <<>>
  /\ misses = [u \in 1..MaxUsers |-> 0]
  /\ late = [u \in 1..MaxUsers |-> 0]
  /\ hours = 0 /\ setups = 0

-----------------------------------------------------------------------------
(* Sign-in *)

PostChallenge(key) ==
  /\ Len(challenges) < MaxChallenges
  /\ challenges' = Append(challenges, [key |-> key, consumed |-> FALSE])
  /\ grants' = Append(grants, 0)
  /\ UNCHANGED <<users, requests, task, misses, late, hours, setups>>

(* Mutant: a consumed challenge is presented again. *)
FreshAnyway(ch) == ch \in DOMAIN challenges
Fresh(ch) == ~challenges[ch].consumed

Registered(key) == \E u \in DOMAIN users : users[u].key = key

(* The signature holds and the challenge is there; 401 if it is consumed.  *)
ReadChallenge(c) ==
  /\ At(c, "idle")
  /\ \E ch \in DOMAIN challenges :
       /\ Fresh(ch)
       /\ Goto(c, [at |-> "verifying", challenge |-> ch,
                   known |-> Registered(challenges[ch].key)])
  /\ UNCHANGED <<users, challenges, requests, history, hours, setups>>

(* Mutant: the user is looked for before the write lock is taken. *)
KnownBefore(t) == t.known
(* The SELECT of the user flushes the UPDATE of the challenge first.       *)
Known(t) == Registered(challenges[t.challenge].key)

(* From the UPDATE of the challenge to the commit no other session writes. *)
Verify(c) ==
  LET ch == task[c].challenge IN
  /\ At(c, "verifying")
  /\ Known(task[c]) \/ Len(users) < MaxUsers
  /\ challenges' = [challenges EXCEPT ![ch].consumed = TRUE]
  /\ users' = IF Known(task[c]) THEN users
              ELSE Append(users, NewUser(challenges[ch].key, None, 0))
  /\ grants' = [grants EXCEPT ![ch] = @ + 1]
  /\ Goto(c, Idle)
  /\ UNCHANGED <<requests, misses, late, hours, setups>>

-----------------------------------------------------------------------------
(* Purchases *)

Pending(contact) ==
  {r \in DOMAIN requests : requests[r].contact = contact /\ requests[r].status = "pending"}

(* Mutant: any decision of an earlier request of the contact is ignored. *)
OpenNever(contact) == {}
OpenOf(contact) == Pending(contact)

(* One pending request answers for the new one; two are an exception.      *)
ReadPending(c) ==
  /\ At(c, "idle")
  /\ Len(requests) < MaxRequests
  /\ \E contact \in Contacts :
       OpenOf(contact) = {} /\ Goto(c, [at |-> "submitting", contact |-> contact])
  /\ UNCHANGED <<users, challenges, requests, history, hours, setups>>

Submit(c) ==
  /\ At(c, "submitting")
  /\ requests' = Append(requests,
       [contact |-> task[c].contact, status |-> "pending", user |-> 0])
  /\ Goto(c, Idle)
  /\ UNCHANGED <<users, challenges, history, hours, setups>>

(* Mutant: a request that was decided is decided again. *)
UndecidedAnyway(r) == requests[r].status # "rejected"
Undecided(r) == requests[r].status = "pending"

(* 409 unless the request is pending.                                      *)
ReadRequest(c) ==
  /\ At(c, "idle")
  /\ \E r \in DOMAIN requests, to \in {"approving", "rejecting"} :
       Undecided(r) /\ Goto(c, [at |-> to, request |-> r])
  /\ UNCHANGED <<users, challenges, requests, history, hours, setups>>

(* A fresh key, a user, and the request that names it: one transaction.    *)
Approve(c) ==
  LET r == task[c].request IN
  /\ At(c, "approving")
  /\ Len(users) < MaxUsers
  /\ users' = Append(users, NewUser("issued", requests[r].contact, r))
  /\ requests' = [requests EXCEPT ![r].status = "approved", ![r].user = Len(users')]
  /\ Goto(c, Idle)
  /\ UNCHANGED <<challenges, history, hours, setups>>

Reject(c) ==
  /\ At(c, "rejecting")
  /\ requests' = [requests EXCEPT ![task[c].request].status = "rejected"]
  /\ Goto(c, Idle)
  /\ UNCHANGED <<users, challenges, history, hours, setups>>

-----------------------------------------------------------------------------
(* PIN *)

(* The UPDATE names the columns that differ from what was loaded; a new    *)
(* time of a lock always does.                                             *)
Flush(loaded, row, now) ==
  [now EXCEPT !.pin = IF row.pin # loaded.pin THEN row.pin ELSE @,
              !.failed = IF row.failed # loaded.failed THEN row.failed ELSE @,
              !.lock = IF row.lock # loaded.lock THEN row.lock ELSE @]

LoadForSetup(c) ==
  /\ At(c, "idle")
  /\ setups < MaxSetups
  /\ setups' = setups + 1
  /\ \E u \in DOMAIN users, p \in Pins :
       Goto(c, [at |-> "writing", user |-> u, loaded |-> users[u], judged |-> "setup",
                row |-> [users[u] EXCEPT !.pin = p, !.failed = 0, !.lock = "null"]])
  /\ UNCHANGED <<users, challenges, requests, history, hours>>

(* Mutant: a locked account is tried like any other. *)
LockedNever(u) == users[u].lock = "never"
Locked(u) == users[u].lock = "future"

(* Mutant: the lock comes one miss late. *)
AfterMissLate(u) ==
  [users[u] EXCEPT !.failed = @ + 1, !.lock = IF users[u].failed > MaxFailed THEN "future" ELSE @]
AfterMiss(u) ==
  [users[u] EXCEPT !.failed = @ + 1,
                   !.lock = IF users[u].failed + 1 >= MaxFailed THEN "future" ELSE @]
(* argon2's verification of the hash, and the seed decrypted with the PIN. *)
Matches(guess, u) == guess = users[u].pin
AfterHit(u) == [users[u] EXCEPT !.failed = 0, !.lock = "null"]

(* The user is found by the contact: none is 404, two an exception.  The   *)
(* lock is checked and the guess judged by what was loaded.                *)
Guess(c) ==
  /\ At(c, "idle")
  /\ \E u \in DOMAIN users, guess \in Pins :
       /\ users[u].contact # None /\ users[u].pin # None
       /\ \A v \in DOMAIN users : users[v].contact = users[u].contact => v = u
       /\ ~Locked(u)
       /\ Goto(c, [at |-> "writing", user |-> u, loaded |-> users[u],
                   judged |-> IF Matches(guess, u) THEN "hit" ELSE "miss",
                   row |-> IF Matches(guess, u) THEN AfterHit(u) ELSE AfterMiss(u)])
  /\ UNCHANGED <<users, challenges, requests, history, hours, setups>>

Write(c) ==
  LET t == task[c] IN
  /\ At(c, "writing")
  /\ users' = [users EXCEPT ![t.user] = Flush(t.loaded, t.row, @)]
  /\ misses' = [misses EXCEPT ![t.user] = IF t.judged = "miss" THEN @ + 1 ELSE 0]
  /\ late' = [late EXCEPT ![t.user] =
       IF users'[t.user].lock # "future" \/ users[t.user].lock # "future" THEN 0
       ELSE IF t.judged = "setup" THEN @ ELSE @ + 1]
  /\ Goto(c, Idle)
  /\ UNCHANGED <<challenges, requests, grants, hours, setups>>

(* LOCKOUT_SECONDS pass.  The count of misses stays where it is.           *)
HourPasses ==
  /\ hours < MaxHours
  /\ hours' = hours + 1
  /\ \E u \in DOMAIN users : users[u].lock = "future"
  /\ users' = [u \in DOMAIN users |->
       [users[u] EXCEPT !.lock = IF @ = "future" THEN "past" ELSE @]]
  /\ misses' = [u \in DOMAIN misses |->
       IF u \in DOMAIN users /\ users[u].lock = "future" THEN 0 ELSE misses[u]]
  /\ late' = [u \in DOMAIN late |-> 0]
  /\ UNCHANGED <<challenges, requests, task, grants, setups>>

Next ==
  \/ \E key \in Keys : PostChallenge(key)
  \/ \E c \in Clients :
       \/ ReadChallenge(c) \/ Verify(c)
       \/ ReadPending(c) \/ Submit(c)
       \/ ReadRequest(c) \/ Approve(c) \/ Reject(c)
       \/ LoadForSetup(c) \/ Guess(c) \/ Write(c)
  \/ HourPasses

Spec == Init /\ [][Next]_vars

-----------------------------------------------------------------------------
(* Properties *)

User == [key : Keys \cup {"issued"}, contact : Contacts \cup {None}, request : Nat,
         pin : Pins \cup {None}, failed : Nat, lock : {"null", "future", "past"}]

TypeOK ==
  /\ users \in Seq(User) /\ Len(users) =< MaxUsers
  /\ challenges \in Seq([key : Keys, consumed : BOOLEAN])
  /\ requests \in Seq([contact : Contacts, status : {"pending", "approved", "rejected"},
                       user : 0..Len(users)])
  /\ Len(grants) = Len(challenges)
  /\ \A c \in Clients : task[c].at \in
       {"idle", "verifying", "submitting", "approving", "rejecting", "writing"}

Accounts(r) == {u \in DOMAIN users : users[u].request = r}

(* A key registers once, however many of its challenges are verified at a  *)
(* time: verify never meets the unique constraint on the key.              *)
OneUserPerKey ==
  \A u, v \in DOMAIN users : users[u].key = users[v].key /\ users[u].key \in Keys => u = v

(* "nonce ещё не использовался (replay protection)": a challenge opens one *)
(* session, or as many as there are requests that overlap.                 *)
ChallengeOpens(n) == \A ch \in DOMAIN grants : grants[ch] =< n

(* A contact has one pending request: with two, its next submission is an  *)
(* exception.                                                              *)
PendingOf(n) == \A contact \in Contacts : Cardinality(Pending(contact)) =< n

(* A payment buys one account, and a rejected one none.                    *)
AccountIffApproved ==
  \A r \in DOMAIN requests :
    Cardinality(Accounts(r)) = (IF requests[r].status = "approved" THEN 1 ELSE 0)

(* "5 неверных PIN → блокировка пользователя на 1 час": the last of        *)
(* MaxFailed misses in a row locks the account.                            *)
MissesLock ==
  \A u \in DOMAIN users : misses[u] >= MaxFailed => users[u].lock = "future"

(* While an account is locked no guess is judged but those that were under *)
(* way when the lock came, whatever other requests write.                  *)
LockHolds == \A u \in DOMAIN users : late[u] < Cardinality(Clients)

(* "идентифицирует пользователя по `contact_handle` (тот же, что был       *)
(* указан при покупке аккаунта)": a contact names one user.                *)
ContactIdentifies ==
  \A u, v \in DOMAIN users :
    users[u].contact # None /\ users[u].contact = users[v].contact => u = v

=============================================================================
