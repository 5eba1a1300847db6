--------------------------- MODULE AccountsProofs ---------------------------
(***************************************************************************)
(* What is proved of MCAccounts, for every set of clients, keys, contacts  *)
(* and PINs, and every bound: a key registers once, a challenge opens no   *)
(* more sessions and a contact has no more pending requests than requests  *)
(* overlap, an approved payment is one account, and guesses are locked out.*)
(***************************************************************************)
EXTENDS MCAccounts, SequenceTheorems, FiniteSetTheorems, TLAPS

-----------------------------------------------------------------------------
(* Lemmas about sequences and counts *)

(* A row appended leaves those before it as they were.                     *)
LEMMA Appended ==
  ASSUME NEW Elems, NEW seq \in Seq(Elems), NEW e \in Elems
  PROVE  /\ Append(seq, e) \in Seq(Elems) /\ Len(Append(seq, e)) = Len(seq) + 1
         /\ DOMAIN Append(seq, e) = DOMAIN seq \cup {Len(seq) + 1} /\ Len(seq) + 1 \notin DOMAIN seq
         /\ \A i \in DOMAIN seq : Append(seq, e)[i] = seq[i]
         /\ Append(seq, e)[Len(seq) + 1] = e
BY AppendProperties

(* A row rewritten leaves the others as they were.                         *)
LEMMA Replaced ==
  ASSUME NEW Elems, NEW seq \in Seq(Elems), NEW i \in DOMAIN seq, NEW e \in Elems
  PROVE  /\ [seq EXCEPT ![i] = e] \in Seq(Elems) /\ Len([seq EXCEPT ![i] = e]) = Len(seq)
         /\ DOMAIN [seq EXCEPT ![i] = e] = DOMAIN seq
         /\ \A j \in DOMAIN seq : [seq EXCEPT ![i] = e][j] = IF j = i THEN e ELSE seq[j]
BY ExceptSeq

LEMMA Elements ==
  ASSUME NEW Elems, NEW seq \in Seq(Elems)
  PROVE  /\ DOMAIN seq = 1..Len(seq) /\ Len(seq) \in Nat
         /\ DOMAIN seq \subseteq Nat \ {0} /\ \A i \in DOMAIN seq : seq[i] \in Elems
OBVIOUS

(* A function on the indices of a sequence is one too.                     *)
LEMMA Rewritten ==
  ASSUME NEW Elems, NEW seq \in Seq(Elems), NEW f \in [DOMAIN seq -> Elems]
  PROVE  f \in Seq(Elems) /\ Len(f) = Len(seq) /\ DOMAIN f = DOMAIN seq
<1>1. DOMAIN seq = 1..Len(seq) /\ Len(seq) \in Nat
  OBVIOUS
<1>2. f \in [1..Len(seq) -> Elems] /\ DOMAIN f = 1..Len(seq)
  BY <1>1
<1>3. f \in Seq(Elems)
  BY <1>1, <1>2, SeqDef
<1>4. Len(f) = Len(seq)
  BY <1>1, <1>2, <1>3, LenProperties
<1> QED BY <1>1, <1>2, <1>3, <1>4

(* Requests that overlap are as many as there are clients, or one.         *)
LEMMA FewAtATime ==
  ASSUME NEW P \in SUBSET Clients, regime = "serial" => \A c, d \in P : c = d
  PROVE  IsFiniteSet(P) /\ Cardinality(P) \in Nat /\ Cardinality(P) =< Overlapping
<1>1. IsFiniteSet(Clients)
  BY AccountsAssumption
<1>2. IsFiniteSet(P) /\ Cardinality(P) =< Cardinality(Clients) /\ Cardinality(P) \in Nat
  BY <1>1, FS_Subset, FS_CardinalityType
<1>3. CASE regime # "serial"
  BY <1>2, <1>3 DEF Overlapping
<1>4. CASE regime = "serial" /\ P = {}
  BY <1>2, <1>4, FS_EmptySet DEF Overlapping
<1>5. CASE regime = "serial" /\ P # {}
  <2>1. PICK c \in P : P = {c}
    BY <1>5
  <2>2. Cardinality(P) = 1
    BY <2>1, FS_Singleton
  <2> QED BY <1>2, <1>5, <2>2 DEF Overlapping
<1> QED BY <1>3, <1>4, <1>5

(* What joining or leaving does to a count of requests.                    *)
LEMMA OneLess ==
  ASSUME NEW P \in SUBSET Clients, NEW c \in P
  PROVE  Cardinality(P \ {c}) = Cardinality(P) - 1 /\ Cardinality(P) \in Nat \ {0}
<1>1. IsFiniteSet(P)
  BY AccountsAssumption, FS_Subset
<1>2. Cardinality(P \ {c}) = Cardinality(P) - 1 /\ Cardinality(P) \in Nat /\ IsFiniteSet(P \ {c})
  BY <1>1, FS_RemoveElement, FS_CardinalityType
<1>3. Cardinality(P \ {c}) \in Nat
  BY <1>2, FS_CardinalityType
<1> QED BY <1>2, <1>3

LEMMA NoMore ==
  ASSUME NEW P \in SUBSET Clients, NEW Q \in SUBSET P
  PROVE  Cardinality(Q) =< Cardinality(P) /\ Cardinality(P) \in Nat /\ Cardinality(Q) \in Nat
<1>1. IsFiniteSet(P)
  BY AccountsAssumption, FS_Subset
<1> QED BY <1>1, FS_Subset, FS_CardinalityType

-----------------------------------------------------------------------------
(* Types *)

Challenge == [key : Keys, consumed : BOOLEAN]
Payment == [contact : Contacts, status : {"pending", "approved", "rejected"}, user : Nat]

Verifying == [at : {"verifying"}, challenge : Nat, known : BOOLEAN]
Submitting == [at : {"submitting"}, contact : Contacts]
Deciding == [at : {"approving", "rejecting"}, request : Nat]
Writing == [at : {"writing"}, user : Nat, loaded : User, judged : {"setup", "hit", "miss"}, row : User]
Tasks == {Idle} \cup Verifying \cup Submitting \cup Deciding \cup Writing

TypeInv ==
  /\ users \in Seq(User) /\ Len(users) =< MaxUsers
  /\ challenges \in Seq(Challenge)
  /\ requests \in Seq(Payment)
  /\ grants \in Seq(Nat) /\ Len(grants) = Len(challenges)
  /\ misses \in [1..MaxUsers -> Nat] /\ late \in [1..MaxUsers -> Nat]
  /\ task \in [Clients -> Tasks]

(* What a request refers to is there.                                      *)
RefersTo(t) ==
  /\ t.at = "verifying" => t.challenge \in DOMAIN challenges
  /\ t.at \in {"approving", "rejecting"} => t.request \in DOMAIN requests
  /\ t.at = "writing" => t.user \in DOMAIN users
Refers == \A c \in Clients : RefersTo(task[c])

LEMMA Places ==
  ASSUME TypeInv, NEW c \in Clients
  PROVE  /\ At(c, "verifying") => task[c] \in Verifying
         /\ At(c, "submitting") => task[c] \in Submitting
         /\ At(c, "approving") \/ At(c, "rejecting") => task[c] \in Deciding
         /\ At(c, "writing") => task[c] \in Writing
BY DEF TypeInv, At, Tasks, Idle, Verifying, Submitting, Deciding, Writing

LEMMA Went ==
  ASSUME TypeInv, NEW c \in Clients, NEW t \in Tasks, Goto(c, t)
  PROVE  /\ task' \in [Clients -> Tasks]
         /\ task'[c] = t
         /\ \A d \in Clients : d # c => task'[d] = task[d]
BY DEF TypeInv, Goto

(* Tables only grow, so what was there still is.                           *)
LEMMA StillRefers ==
  ASSUME TypeInv, Refers, NEW c \in Clients, NEW t \in Tasks, Goto(c, t),
         DOMAIN challenges \subseteq DOMAIN challenges', DOMAIN requests \subseteq DOMAIN requests',
         DOMAIN users \subseteq DOMAIN users',
         t.at = "verifying" => t.challenge \in DOMAIN challenges',
         t.at \in {"approving", "rejecting"} => t.request \in DOMAIN requests',
         t.at = "writing" => t.user \in DOMAIN users'
  PROVE  Refers'
<1>1. task'[c] = t /\ \A d \in Clients : d # c => task'[d] = task[d]
  BY Went
<1> QED BY <1>1 DEF Refers, RefersTo

(* What a write of a PIN's state does to a user.                           *)
LEMMA Flushed ==
  ASSUME NEW loaded \in User, NEW row \in User, NEW now \in User
  PROVE  /\ Flush(loaded, row, now) \in User
         /\ Flush(loaded, row, now).key = now.key
         /\ Flush(loaded, row, now).contact = now.contact
         /\ Flush(loaded, row, now).request = now.request
         /\ Flush(loaded, row, now).failed = (IF row.failed # loaded.failed THEN row.failed ELSE now.failed)
         /\ Flush(loaded, row, now).lock = (IF row.lock # loaded.lock THEN row.lock ELSE now.lock)
<1> DEFINE pin == IF row.pin # loaded.pin THEN row.pin ELSE now.pin
           failed == IF row.failed # loaded.failed THEN row.failed ELSE now.failed
           lock == IF row.lock # loaded.lock THEN row.lock ELSE now.lock
           new == [now EXCEPT !.pin = pin, !.failed = failed, !.lock = lock]
<1>1. pin \in Pins \cup {None} /\ failed \in Nat /\ lock \in {"null", "future", "past"}
  BY DEF User
<1>2. Flush(loaded, row, now) = new
  BY DEF Flush
<1>3. /\ new \in User /\ new.failed = failed /\ new.lock = lock
      /\ new.key = now.key /\ new.contact = now.contact /\ new.request = now.request
  <2> HIDE DEF pin, failed, lock
  <2> QED BY <1>1 DEF User
<1> HIDE DEF new
<1> QED BY <1>2, <1>3

LEMMA TypeInit == Init => TypeInv /\ Refers
<1> SUFFICES ASSUME Init PROVE TypeInv /\ Refers
  OBVIOUS
<1>0. MaxUsers \in Nat \ {0} /\ None \notin Contacts \cup Pins
  BY AccountsAssumption
<1>1. users \in Seq(User) /\ Len(users) =< MaxUsers /\ requests \in Seq(Payment)
  <2>1. CASE users = <<>> /\ requests = <<>>
    BY <1>0, <2>1
  <2>2. ASSUME NEW contact \in Contacts, NEW p \in Pins,
               users = <<[NewUser("issued", contact, 1) EXCEPT !.pin = p]>>,
               requests = <<[contact |-> contact, status |-> "approved", user |-> 1]>>
        PROVE  users \in Seq(User) /\ Len(users) =< MaxUsers /\ requests \in Seq(Payment)
    <3>1. [NewUser("issued", contact, 1) EXCEPT !.pin = p] \in User
      BY DEF NewUser, User
    <3>2. [contact |-> contact, status |-> "approved", user |-> 1] \in Payment
      BY DEF Payment
    <3>3. \A e : \A S : e \in S => <<e>> \in Seq(S) /\ Len(<<e>>) = 1
      OBVIOUS
    <3> QED BY <1>0, <2>2, <3>1, <3>2, <3>3
  <2> QED BY <2>1, <2>2 DEF Init
<1>2. task \in [Clients -> Tasks] /\ Refers
  BY DEF Init, Tasks, Refers, RefersTo, Idle
<1>3. challenges \in Seq(Challenge) /\ grants \in Seq(Nat) /\ Len(grants) = Len(challenges)
  BY DEF Init
<1>4. misses \in [1..MaxUsers -> Nat] /\ late \in [1..MaxUsers -> Nat]
  BY DEF Init
<1> QED BY <1>1, <1>2, <1>3, <1>4 DEF TypeInv

(* Every action keeps the types, and what the requests refer to.           *)
LEMMA TypeStep ==
  ASSUME TypeInv, Refers, Next
  PROVE  TypeInv' /\ Refers'
<1>0. Idle \in Tasks /\ Idle.at = "idle"
  BY DEF Tasks, Idle
<1>d. /\ DOMAIN challenges = 1..Len(challenges) /\ DOMAIN users = 1..Len(users) /\ DOMAIN requests = 1..Len(requests)
      /\ DOMAIN grants = 1..Len(grants) /\ Len(users) \in Nat /\ MaxUsers \in Nat
      /\ \A u \in DOMAIN users : u \in Nat /\ users[u] \in User /\ u \in 1..MaxUsers
  BY Elements, AccountsAssumption DEF TypeInv
<1>e. None \notin Contacts \cup Pins
  BY AccountsAssumption
<1>1. ASSUME NEW key \in Keys, PostChallenge(key) PROVE TypeInv' /\ Refers'
  <2>1. challenges' = Append(challenges, [key |-> key, consumed |-> FALSE]) /\ grants' = Append(grants, 0)
        /\ UNCHANGED <<users, requests, task, misses, late>>
    BY <1>1 DEF PostChallenge
  <2>2. [key |-> key, consumed |-> FALSE] \in Challenge
    BY DEF Challenge
  <2>3. /\ challenges' \in Seq(Challenge) /\ grants' \in Seq(Nat) /\ Len(grants') = Len(challenges')
        /\ DOMAIN challenges \subseteq DOMAIN challenges'
    BY <2>1, <2>2, Appended DEF TypeInv
  <2> QED BY <2>1, <2>3 DEF TypeInv, Refers, RefersTo
<1>2. ASSUME NEW c \in Clients, ReadChallenge(c) PROVE TypeInv' /\ Refers'
  <2>1. PICK ch \in DOMAIN challenges :
          Goto(c, [at |-> "verifying", challenge |-> ch, known |-> Registered(challenges[ch].key)])
    BY <1>2 DEF ReadChallenge
  <2>2. ASSUME NEW t, t = [at |-> "verifying", challenge |-> ch, known |-> Registered(challenges[ch].key)]
        PROVE  t \in Tasks /\ t.at = "verifying" /\ t.challenge = ch
    <3>1. Registered(challenges[ch].key) \in BOOLEAN
      BY DEF Registered
    <3> QED BY <1>d, <2>2, <3>1 DEF Tasks, Verifying
  <2>3. UNCHANGED <<users, challenges, requests, history>>
    BY <1>2 DEF ReadChallenge
  <2> QED BY <2>1, <2>2, <2>3, Went, StillRefers DEF TypeInv, history
<1>3. ASSUME NEW c \in Clients, Verify(c) PROVE TypeInv' /\ Refers'
  <2> DEFINE ch == task[c].challenge
  <2>1. ch \in DOMAIN challenges /\ ch \in DOMAIN grants
    BY <1>3, <1>d DEF Verify, At, Refers, RefersTo, TypeInv
  <2>2. /\ challenges' = [challenges EXCEPT ![ch].consumed = TRUE] /\ grants' = [grants EXCEPT ![ch] = @ + 1]
        /\ users' = (IF Known(task[c]) THEN users ELSE Append(users, NewUser(challenges[ch].key, None, 0)))
        /\ Known(task[c]) \/ Len(users) < MaxUsers
        /\ Goto(c, Idle) /\ UNCHANGED <<requests, misses, late>>
    BY <1>3 DEF Verify
  <2>3. /\ challenges[ch] \in Challenge /\ challenges' = [challenges EXCEPT ![ch] = [challenges[ch] EXCEPT !.consumed = TRUE]]
        /\ [challenges[ch] EXCEPT !.consumed = TRUE] \in Challenge
    <3>1. challenges[ch] \in Challenge
      BY <2>1 DEF TypeInv
    <3>2. [challenges[ch] EXCEPT !.consumed = TRUE] \in Challenge
      BY <3>1 DEF Challenge
    <3> QED BY <2>2, <3>1, <3>2
  <2>4. challenges' \in Seq(Challenge) /\ Len(challenges') = Len(challenges) /\ DOMAIN challenges' = DOMAIN challenges
    BY <2>1, <2>3, Replaced DEF TypeInv
  <2>5. grants[ch] + 1 \in Nat
    BY <2>1, Elements DEF TypeInv
  <2>6. grants' \in Seq(Nat) /\ Len(grants') = Len(grants)
    BY <2>1, <2>2, <2>5, Replaced DEF TypeInv
  <2>7. NewUser(challenges[ch].key, None, 0) \in User
    BY <2>3 DEF NewUser, User, Challenge
  <2>8. users' \in Seq(User) /\ Len(users') =< MaxUsers /\ DOMAIN users \subseteq DOMAIN users'
    <3>1. CASE Known(task[c])
      BY <2>2, <3>1 DEF TypeInv
    <3>2. CASE ~Known(task[c])
      <4>1. users' = Append(users, NewUser(challenges[ch].key, None, 0)) /\ Len(users) < MaxUsers
        BY <2>2, <3>2
      <4>2. users' \in Seq(User) /\ Len(users') = Len(users) + 1 /\ DOMAIN users \subseteq DOMAIN users'
        BY <2>7, <4>1, Appended DEF TypeInv
      <4> QED BY <1>d, <4>1, <4>2
    <3> QED BY <3>1, <3>2
  <2> HIDE DEF ch
  <2>9. Refers'
    BY <1>0, <2>2, <2>4, <2>8, StillRefers
  <2> QED BY <1>0, <2>2, <2>4, <2>6, <2>8, <2>9, Went DEF TypeInv
<1>4. ASSUME NEW c \in Clients, ReadPending(c) PROVE TypeInv' /\ Refers'
  <2>1. PICK contact \in Contacts : Goto(c, [at |-> "submitting", contact |-> contact])
    BY <1>4 DEF ReadPending
  <2>2. ASSUME NEW t, t = [at |-> "submitting", contact |-> contact] PROVE t \in Tasks /\ t.at = "submitting"
    BY <2>2 DEF Tasks, Submitting
  <2>3. UNCHANGED <<users, challenges, requests, history>>
    BY <1>4 DEF ReadPending
  <2> QED BY <2>1, <2>2, <2>3, Went, StillRefers DEF TypeInv, history
<1>5. ASSUME NEW c \in Clients, Submit(c) PROVE TypeInv' /\ Refers'
  <2> DEFINE p == [contact |-> task[c].contact, status |-> "pending", user |-> 0]
  <2>1. p \in Payment
    BY <1>5, Places DEF Submit, Submitting, Payment
  <2>2. requests' = Append(requests, p) /\ Goto(c, Idle) /\ UNCHANGED <<users, challenges, history>>
    BY <1>5 DEF Submit
  <2> HIDE DEF p
  <2>3. requests' \in Seq(Payment) /\ DOMAIN requests \subseteq DOMAIN requests'
    BY <2>1, <2>2, Appended DEF TypeInv
  <2> QED BY <1>0, <2>2, <2>3, Went, StillRefers DEF TypeInv, history
<1>6. ASSUME NEW c \in Clients, ReadRequest(c) PROVE TypeInv' /\ Refers'
  <2>1. PICK r \in DOMAIN requests, to \in {"approving", "rejecting"} : Goto(c, [at |-> to, request |-> r])
    BY <1>6 DEF ReadRequest
  <2>2. ASSUME NEW t, t = [at |-> to, request |-> r] PROVE t \in Tasks /\ t.at = to /\ t.request = r
    BY <1>d, <2>2 DEF Tasks, Deciding
  <2>3. UNCHANGED <<users, challenges, requests, history>>
    BY <1>6 DEF ReadRequest
  <2> QED BY <2>1, <2>2, <2>3, Went, StillRefers DEF TypeInv, history
<1>7. ASSUME NEW c \in Clients, Approve(c) PROVE TypeInv' /\ Refers'
  <2> DEFINE r == task[c].request
             new == NewUser("issued", requests[r].contact, r)
             paid == [requests[r] EXCEPT !.status = "approved", !.user = Len(users')]
  <2>1. r \in DOMAIN requests /\ r \in Nat /\ requests[r] \in Payment
    BY <1>7, <1>d, Elements DEF Approve, At, Refers, RefersTo, TypeInv
  <2>2. /\ users' = Append(users, new) /\ Len(users) < MaxUsers
        /\ requests' = [requests EXCEPT ![r] = paid] /\ Goto(c, Idle) /\ UNCHANGED <<challenges, history>>
    BY <1>7 DEF Approve
  <2>3. new \in User
    BY <2>1 DEF NewUser, User, Payment
  <2>4. users' \in Seq(User) /\ Len(users') = Len(users) + 1 /\ DOMAIN users \subseteq DOMAIN users'
    <3> HIDE DEF new
    <3> QED BY <2>2, <2>3, Appended DEF TypeInv
  <2>5. paid \in Payment
    <3>1. \A q \in Payment, n \in Nat : [q EXCEPT !.status = "approved", !.user = n] \in Payment
      BY DEF Payment
    <3>2. Len(users') \in Nat
      BY <1>d, <2>4
    <3> QED BY <2>1, <3>1, <3>2
  <2> HIDE DEF r, new, paid
  <2>6. requests' \in Seq(Payment) /\ DOMAIN requests' = DOMAIN requests
    BY <2>1, <2>2, <2>5, Replaced DEF TypeInv
  <2>7. Refers'
    BY <1>0, <2>2, <2>4, <2>6, StillRefers
  <2>8. Len(users') =< MaxUsers
    BY <1>d, <2>2, <2>4
  <2> QED BY <1>0, <2>2, <2>4, <2>6, <2>7, <2>8, Went DEF TypeInv, history
<1>8. ASSUME NEW c \in Clients, Reject(c) PROVE TypeInv' /\ Refers'
  <2> DEFINE r == task[c].request
             refused == [requests[r] EXCEPT !.status = "rejected"]
  <2>1. r \in DOMAIN requests /\ requests[r] \in Payment
    BY <1>8, Elements DEF Reject, At, Refers, RefersTo, TypeInv
  <2>2. requests' = [requests EXCEPT ![r] = refused] /\ Goto(c, Idle) /\ UNCHANGED <<users, challenges, history>>
    BY <1>8 DEF Reject
  <2>3. refused \in Payment
    BY <2>1 DEF Payment
  <2> HIDE DEF r, refused
  <2>4. requests' \in Seq(Payment) /\ DOMAIN requests' = DOMAIN requests
    BY <2>1, <2>2, <2>3, Replaced DEF TypeInv
  <2> QED BY <1>0, <2>2, <2>4, Went, StillRefers DEF TypeInv, history
<1>9. ASSUME NEW c \in Clients, LoadForSetup(c) PROVE TypeInv' /\ Refers'
  <2>1. PICK u \in DOMAIN users, p \in Pins :
          Goto(c, [at |-> "writing", user |-> u, loaded |-> users[u], judged |-> "setup",
                   row |-> [users[u] EXCEPT !.pin = p, !.failed = 0, !.lock = "null"]])
    BY <1>9 DEF LoadForSetup
  <2>2. [users[u] EXCEPT !.pin = p, !.failed = 0, !.lock = "null"] \in User
    BY <1>d DEF User
  <2>3. ASSUME NEW t, t = [at |-> "writing", user |-> u, loaded |-> users[u], judged |-> "setup",
                           row |-> [users[u] EXCEPT !.pin = p, !.failed = 0, !.lock = "null"]]
        PROVE  t \in Tasks /\ t.at = "writing" /\ t.user = u
    BY <1>d, <2>2, <2>3 DEF Tasks, Writing
  <2>4. UNCHANGED <<users, challenges, requests, history>>
    BY <1>9 DEF LoadForSetup
  <2> QED BY <2>1, <2>3, <2>4, Went, StillRefers DEF TypeInv, history
<1>10. ASSUME NEW c \in Clients, Guess(c) PROVE TypeInv' /\ Refers'
  <2>1. PICK u \in DOMAIN users, guess \in Pins :
          Goto(c, [at |-> "writing", user |-> u, loaded |-> users[u],
                   judged |-> IF Matches(guess, u) THEN "hit" ELSE "miss",
                   row |-> IF Matches(guess, u) THEN AfterHit(u) ELSE AfterMiss(u)])
    BY <1>10 DEF Guess
  <2>2. AfterHit(u) \in User /\ AfterMiss(u) \in User
    <3>1. users[u] \in User /\ users[u].failed + 1 \in Nat
      BY <1>d DEF User
    <3>2. \A now \in User, n \in Nat, lock \in {"null", "future", "past"} :
            [now EXCEPT !.failed = n, !.lock = lock] \in User
      BY DEF User
    <3>3. users[u].lock \in {"null", "future", "past"}
      BY <3>1 DEF User
    <3> QED BY <3>1, <3>2, <3>3 DEF AfterHit, AfterMiss
  <2>3. ASSUME NEW t, NEW judged \in {"hit", "miss"}, NEW row \in User,
               t = [at |-> "writing", user |-> u, loaded |-> users[u], judged |-> judged, row |-> row]
        PROVE  t \in Tasks /\ t.at = "writing" /\ t.user = u
    BY <1>d, <2>3 DEF Tasks, Writing
  <2>4. PICK t \in Tasks : Goto(c, t) /\ t.at = "writing" /\ t.user = u
    BY <2>1, <2>2, <2>3
  <2>5. UNCHANGED <<users, challenges, requests, history>>
    BY <1>10 DEF Guess
  <2> QED BY <2>4, <2>5, Went, StillRefers DEF TypeInv, history
<1>11. ASSUME NEW c \in Clients, Write(c) PROVE TypeInv' /\ Refers'
  <2> DEFINE t == task[c]
             row == Flush(t.loaded, t.row, users[t.user])
  <2>1. t \in Writing /\ t.user \in DOMAIN users /\ t.user \in 1..MaxUsers /\ users[t.user] \in User
    BY <1>11, <1>d, Places DEF Write, At, Refers, RefersTo
  <2>2. row \in User
    BY <2>1, Flushed DEF Writing
  <2>3. users' = [users EXCEPT ![t.user] = row] /\ Goto(c, Idle) /\ UNCHANGED <<challenges, requests, grants>>
    BY <1>11 DEF Write
  <2>4. misses' \in [1..MaxUsers -> Nat] /\ late' \in [1..MaxUsers -> Nat]
    <3>1. misses' = [misses EXCEPT ![t.user] = IF t.judged = "miss" THEN @ + 1 ELSE 0]
      BY <1>11 DEF Write
    <3>2. late' = [late EXCEPT ![t.user] =
            IF users'[t.user].lock # "future" \/ users[t.user].lock # "future" THEN 0
            ELSE IF t.judged = "setup" THEN @ ELSE @ + 1]
      BY <1>11 DEF Write
    <3> HIDE DEF t
    <3> QED BY <2>1, <3>1, <3>2 DEF TypeInv
  <2> HIDE DEF t, row
  <2>5. users' \in Seq(User) /\ Len(users') = Len(users) /\ DOMAIN users' = DOMAIN users
    BY <2>1, <2>2, <2>3, Replaced DEF TypeInv
  <2>6. Refers'
    BY <1>0, <2>3, <2>5, StillRefers
  <2> QED BY <1>0, <2>3, <2>4, <2>5, <2>6, Went DEF TypeInv
<1>12. ASSUME HourPasses PROVE TypeInv' /\ Refers'
  <2>1. users' = [u \in DOMAIN users |-> [users[u] EXCEPT !.lock = IF @ = "future" THEN "past" ELSE @]]
    BY <1>12 DEF HourPasses
  <2>2. users' \in [DOMAIN users -> User]
    BY SMTT(30), <1>d, <2>1 DEF User
  <2>3. users' \in Seq(User) /\ Len(users') = Len(users) /\ DOMAIN users' = DOMAIN users
    BY <2>2, Rewritten DEF TypeInv
  <2>4. misses' \in [1..MaxUsers -> Nat] /\ late' \in [1..MaxUsers -> Nat]
    <3>1. misses' = [u \in DOMAIN misses |-> IF u \in DOMAIN users /\ users[u].lock = "future" THEN 0 ELSE misses[u]]
          /\ late' = [u \in DOMAIN late |-> 0]
      BY <1>12 DEF HourPasses
    <3> QED BY <3>1 DEF TypeInv
  <2>5. UNCHANGED <<challenges, requests, task, grants>>
    BY <1>12 DEF HourPasses
  <2> QED BY <2>3, <2>4, <2>5 DEF TypeInv, Refers, RefersTo
<1> QED BY <1>1, <1>2, <1>3, <1>4, <1>5, <1>6, <1>7, <1>8, <1>9, <1>10, <1>11, <1>12 DEF Next

(* The types are kept from the start.                                      *)
THEOREM TypeCorrect == MCSpec => [](TypeInv /\ Refers)
<1>1. MCInit => TypeInv /\ Refers
  BY TypeInit DEF MCInit
<1>2. TypeInv /\ Refers /\ [MCNext]_<<vars, regime>> => TypeInv' /\ Refers'
  <2> SUFFICES ASSUME TypeInv, Refers, [MCNext]_<<vars, regime>> PROVE TypeInv' /\ Refers'
    OBVIOUS
  <2>1. CASE UNCHANGED <<vars, regime>>
    BY <2>1 DEF vars, TypeInv, Refers, RefersTo
  <2> QED BY <2>1, TypeStep DEF MCNext
<1> QED BY <1>1, <1>2, PTL DEF MCSpec

-----------------------------------------------------------------------------
(* What overlapping requests can exceed *)

Opening(ch) == {c \in Clients : task[c].at = "verifying" /\ task[c].challenge = ch}
Asking(contact) == {c \in Clients : task[c].at = "submitting" /\ task[c].contact = contact}

(* A challenge that nobody consumed opened nothing, and one that was opens *)
(* no more than the requests that still hold it; a contact's requests are  *)
(* counted with those on their way.                                        *)
OpensInv ==
  \A ch \in DOMAIN challenges :
    /\ Fresh(ch) => grants[ch] = 0
    /\ grants[ch] + Cardinality(Opening(ch)) =< Overlapping
PendsInv ==
  \A contact \in Contacts :
    Cardinality(Pending(contact)) + Cardinality(Asking(contact)) =< Overlapping

(* How a step of a request changes who is on the way to what.              *)
LEMMA OnTheWay ==
  ASSUME TypeInv, NEW c \in Clients, NEW t \in Tasks, Goto(c, t)
  PROVE  /\ \A ch : Opening(ch)' = IF t.at = "verifying" /\ t.challenge = ch
                                   THEN Opening(ch) \cup {c} ELSE Opening(ch) \ {c}
         /\ \A contact : Asking(contact)' = IF t.at = "submitting" /\ t.contact = contact
                                            THEN Asking(contact) \cup {c} ELSE Asking(contact) \ {c}
<1>1. task'[c] = t /\ \A d \in Clients : d # c => task'[d] = task[d]
  BY Went
<1>2. ASSUME NEW ch
      PROVE  Opening(ch)' = IF t.at = "verifying" /\ t.challenge = ch
                            THEN Opening(ch) \cup {c} ELSE Opening(ch) \ {c}
  BY <1>1 DEF Opening
<1>3. ASSUME NEW contact
      PROVE  Asking(contact)' = IF t.at = "submitting" /\ t.contact = contact
                                THEN Asking(contact) \cup {c} ELSE Asking(contact) \ {c}
  BY <1>1 DEF Asking
<1> QED BY <1>2, <1>3

(* Which actions go which way.                                             *)
LEMMA Ways ==
  ASSUME TypeInv, TypeInv', Next
  PROVE  \/ \E key \in Keys : PostChallenge(key)
         \/ \E c \in Clients : ReadChallenge(c) \/ Verify(c) \/ ReadPending(c) \/ Submit(c)
         \/ /\ UNCHANGED <<challenges, grants>>
            /\ \A ch : Opening(ch)' \subseteq Opening(ch)
            /\ \A contact : Asking(contact)' \subseteq Asking(contact)
            /\ \/ UNCHANGED requests
               \/ \E c \in Clients : Approve(c) \/ Reject(c)
<1>0. Idle \in Tasks /\ Idle.at = "idle"
  BY DEF Tasks, Idle
<1>1. ASSUME NEW c \in Clients, NEW t \in Tasks, Goto(c, t), t.at \notin {"verifying", "submitting"}
      PROVE  /\ \A ch : Opening(ch)' \subseteq Opening(ch)
             /\ \A contact : Asking(contact)' \subseteq Asking(contact)
  BY <1>1, OnTheWay
<1>2. ASSUME NEW c \in Clients, Approve(c) \/ Reject(c) \/ Write(c)
      PROVE  Goto(c, Idle) /\ UNCHANGED <<challenges, grants>> /\ (Write(c) => UNCHANGED requests)
  BY <1>2 DEF Approve, Reject, Write, history
<1>3. ASSUME NEW c \in Clients, ReadRequest(c) \/ LoadForSetup(c) \/ Guess(c)
      PROVE  UNCHANGED <<challenges, grants, requests>>
  BY <1>3 DEF ReadRequest, LoadForSetup, Guess, history
<1>4. ASSUME NEW c \in Clients, ReadRequest(c) \/ LoadForSetup(c) \/ Guess(c)
      PROVE  \E t \in Tasks : Goto(c, t) /\ t.at \notin {"verifying", "submitting"}
  <2>1. PICK t : Goto(c, t) /\ t.at \in {"approving", "rejecting", "writing"}
    <3>1. ReadRequest(c) => \E t : Goto(c, t) /\ t.at \in {"approving", "rejecting", "writing"}
      BY DEF ReadRequest
    <3>2. LoadForSetup(c) => \E t : Goto(c, t) /\ t.at \in {"approving", "rejecting", "writing"}
      BY DEF LoadForSetup
    <3>3. Guess(c) => \E t : Goto(c, t) /\ t.at \in {"approving", "rejecting", "writing"}
      BY DEF Guess
    <3> QED BY <1>4, <3>1, <3>2, <3>3
  <2>2. task'[c] = t /\ task'[c] \in Tasks
    BY <1>4, <2>1 DEF Goto, TypeInv
  <2> QED BY <2>1, <2>2
<1>5. HourPasses => UNCHANGED <<challenges, grants, requests, task>>
  BY DEF HourPasses
<1>6. ASSUME UNCHANGED task
      PROVE  (\A ch : Opening(ch)' \subseteq Opening(ch)) /\ (\A contact : Asking(contact)' \subseteq Asking(contact))
  BY <1>6 DEF Opening, Asking
<1> QED BY <1>0, <1>1, <1>2, <1>3, <1>4, <1>5, <1>6 DEF Next

LEMMA OpensStep ==
  ASSUME TypeInv, Refers, TypeInv', OpensInv, Next, Allowed', regime' = regime
  PROVE  OpensInv'
<1>0. Idle \in Tasks /\ Idle.at = "idle"
  BY DEF Tasks, Idle
<1>k. Overlapping' = Overlapping /\ Overlapping \in Nat
  BY AccountsAssumption, FS_CardinalityType DEF Overlapping
<1>o. \A ch : Opening(ch) \in SUBSET Clients
  BY DEF Opening
<1>g. /\ DOMAIN grants = DOMAIN challenges /\ DOMAIN grants' = DOMAIN challenges'
      /\ \A ch \in DOMAIN challenges : grants[ch] \in Nat
  BY Elements DEF TypeInv
<1>n. \A ch : Cardinality(Opening(ch)) \in Nat
  BY <1>o, NoMore
<1>1. ASSUME NEW key \in Keys, PostChallenge(key) PROVE OpensInv'
  <2> DEFINE new == Len(challenges) + 1
  <2>1. /\ challenges' = Append(challenges, [key |-> key, consumed |-> FALSE]) /\ grants' = Append(grants, 0)
        /\ UNCHANGED task
    BY <1>1 DEF PostChallenge
  <2>2. [key |-> key, consumed |-> FALSE] \in Challenge
    BY DEF Challenge
  <2>3. /\ DOMAIN challenges' = DOMAIN challenges \cup {new} /\ new \notin DOMAIN challenges
        /\ \A ch \in DOMAIN challenges : challenges'[ch] = challenges[ch]
    BY <2>1, <2>2, Appended DEF TypeInv
  <2>4. grants'[new] = 0 /\ \A ch \in DOMAIN challenges : grants'[ch] = grants[ch]
    BY <1>g, <2>1, Appended DEF TypeInv
  <2>5. \A ch : Opening(ch)' = Opening(ch)
    BY <2>1 DEF Opening
  <2>6. Opening(new) = {}
    BY <2>3 DEF Opening, Refers, RefersTo
  <2>7. Cardinality(Opening(new)) = 0
    BY <2>6, FS_EmptySet
  <2> HIDE DEF new
  <2>8. ASSUME NEW ch \in DOMAIN challenges'
        PROVE  /\ ~challenges'[ch].consumed => grants'[ch] = 0
               /\ grants'[ch] + Cardinality(Opening(ch)') =< Overlapping
    <3>1. CASE ch = new
      BY <1>k, <2>4, <2>5, <2>7, <3>1
    <3>2. CASE ch # new
      BY <2>3, <2>4, <2>5, <2>8, <3>2 DEF OpensInv, Fresh
    <3> QED BY <3>1, <3>2
  <2> QED BY <1>k, <2>8 DEF OpensInv, Fresh
<1>2. ASSUME NEW c \in Clients, ReadChallenge(c) PROVE OpensInv'
  <2>1. PICK p \in DOMAIN challenges :
          /\ Fresh(p)
          /\ Goto(c, [at |-> "verifying", challenge |-> p, known |-> Registered(challenges[p].key)])
    BY <1>2 DEF ReadChallenge
  <2>2. PICK t \in Tasks : Goto(c, t) /\ t.at = "verifying" /\ t.challenge = p
    <3>1. ASSUME NEW t, t = [at |-> "verifying", challenge |-> p, known |-> Registered(challenges[p].key)]
          PROVE  t \in Tasks /\ t.at = "verifying" /\ t.challenge = p
      <4>1. Registered(challenges[p].key) \in BOOLEAN /\ p \in Nat
        BY Elements DEF Registered, TypeInv
      <4> QED BY <3>1, <4>1 DEF Tasks, Verifying
    <3> QED BY <2>1, <3>1
  <2>3. challenges' = challenges /\ grants' = grants
    BY <1>2 DEF ReadChallenge, history
  <2>4. \A ch : ch # p => Opening(ch)' \subseteq Opening(ch)
    BY <2>2, OnTheWay
  <2>5. Opening(p)' \in SUBSET Clients /\ (regime = "serial" => \A x, y \in Opening(p)' : x = y)
    BY DEF Opening, Allowed, At
  <2>6. Cardinality(Opening(p)') =< Overlapping /\ Cardinality(Opening(p)') \in Nat
    BY <2>5, FewAtATime
  <2>7. grants[p] = 0
    BY <2>1 DEF OpensInv
  <2>8. ASSUME NEW ch \in DOMAIN challenges
        PROVE  grants[ch] + Cardinality(Opening(ch)') =< Overlapping
    <3>1. CASE ch = p
      BY <2>6, <2>7, <3>1
    <3>2. CASE ch # p
      <4>1. Cardinality(Opening(ch)') =< Cardinality(Opening(ch)) /\ Cardinality(Opening(ch)') \in Nat
        BY <1>o, <2>4, <3>2, NoMore
      <4> QED BY <1>g, <1>k, <1>n, <4>1, <2>8 DEF OpensInv
    <3> QED BY <3>1, <3>2
  <2> QED BY <1>k, <2>3, <2>8 DEF OpensInv, Fresh
<1>3. ASSUME NEW c \in Clients, Verify(c) PROVE OpensInv'
  <2>0. PICK p : p = task[c].challenge
    OBVIOUS
  <2>1. p \in DOMAIN challenges /\ c \in Opening(p) /\ Goto(c, Idle)
    BY <1>3, <2>0 DEF Verify, At, Refers, RefersTo, Opening
  <2>2. challenges' = [challenges EXCEPT ![p].consumed = TRUE] /\ grants' = [grants EXCEPT ![p] = @ + 1]
    BY <1>3, <2>0 DEF Verify
  <2>3. /\ DOMAIN challenges' = DOMAIN challenges /\ challenges'[p].consumed
        /\ \A ch \in DOMAIN challenges : ch # p => challenges'[ch] = challenges[ch]
    <3>1. challenges[p] \in Challenge
      BY <2>1 DEF TypeInv
    <3>2. [challenges[p] EXCEPT !.consumed = TRUE] \in Challenge /\ [challenges[p] EXCEPT !.consumed = TRUE].consumed
      BY <3>1 DEF Challenge
    <3>3. challenges' = [challenges EXCEPT ![p] = [challenges[p] EXCEPT !.consumed = TRUE]]
      BY <2>2
    <3> QED BY <2>1, <3>2, <3>3, Replaced DEF TypeInv
  <2>4. grants'[p] = grants[p] + 1 /\ \A ch \in DOMAIN challenges : ch # p => grants'[ch] = grants[ch]
    BY <1>g, <2>1, <2>2
  <2>5. \A ch : Opening(ch)' = Opening(ch) \ {c}
    BY <1>0, <2>1, OnTheWay
  <2>6. Cardinality(Opening(p)') = Cardinality(Opening(p)) - 1
    <3>1. Opening(p)' = Opening(p) \ {c} /\ Opening(p) \in SUBSET Clients
      BY <1>o, <2>5
    <3> QED BY <2>1, <3>1, OneLess
  <2>7. ASSUME NEW ch \in DOMAIN challenges
        PROVE  /\ ~challenges'[ch].consumed => grants'[ch] = 0
               /\ grants'[ch] + Cardinality(Opening(ch)') =< Overlapping
    <3>1. CASE ch = p
      <4>1. grants[p] + Cardinality(Opening(p)) =< Overlapping
        BY <2>1 DEF OpensInv
      <4>2. grants'[p] + Cardinality(Opening(p)') =< Overlapping
        BY <1>g, <1>k, <1>n, <2>1, <2>4, <2>6, <4>1
      <4> QED BY <2>3, <3>1, <4>2
    <3>2. CASE ch # p
      <4>1. Cardinality(Opening(ch)') =< Cardinality(Opening(ch)) /\ Cardinality(Opening(ch)') \in Nat
        BY <1>o, <2>5, NoMore
      <4> QED BY <1>g, <1>k, <1>n, <2>3, <2>4, <2>7, <3>2, <4>1 DEF OpensInv, Fresh
    <3> QED BY <3>1, <3>2
  <2> QED BY <1>k, <2>3, <2>7 DEF OpensInv, Fresh
<1>4. ASSUME UNCHANGED <<challenges, grants>>, \A ch : Opening(ch)' \subseteq Opening(ch) PROVE OpensInv'
  <2>1. ASSUME NEW ch \in DOMAIN challenges
        PROVE  grants[ch] + Cardinality(Opening(ch)') =< Overlapping
    <3>1. Cardinality(Opening(ch)') =< Cardinality(Opening(ch)) /\ Cardinality(Opening(ch)') \in Nat
      BY <1>4, <1>o, NoMore
    <3> QED BY <1>g, <1>k, <1>n, <2>1, <3>1 DEF OpensInv
  <2> QED BY <1>4, <1>k, <2>1 DEF OpensInv, Fresh
<1>5. ASSUME NEW c \in Clients, ReadPending(c) \/ Submit(c)
      PROVE  UNCHANGED <<challenges, grants>> /\ \A ch : Opening(ch)' \subseteq Opening(ch)
  <2>1. UNCHANGED <<challenges, grants>>
    BY <1>5 DEF ReadPending, Submit, history
  <2>2. PICK t \in Tasks : Goto(c, t) /\ t.at \in {"submitting", "idle"}
    <3>1. CASE Submit(c)
      BY <1>0, <3>1 DEF Submit
    <3>2. CASE ReadPending(c)
      <4>1. PICK contact \in Contacts : Goto(c, [at |-> "submitting", contact |-> contact])
        BY <3>2 DEF ReadPending
      <4>2. ASSUME NEW t, t = [at |-> "submitting", contact |-> contact] PROVE t \in Tasks /\ t.at = "submitting"
        BY <4>2 DEF Tasks, Submitting
      <4> QED BY <4>1, <4>2
    <3> QED BY <1>5, <3>1, <3>2
  <2> QED BY <2>1, <2>2, OnTheWay
<1> QED BY <1>1, <1>2, <1>3, <1>4, <1>5, Ways

LEMMA RequestsFinite ==
  ASSUME NEW seq \in Seq(Payment), NEW P \in SUBSET DOMAIN seq
  PROVE  IsFiniteSet(P) /\ Cardinality(P) \in Nat
<1>1. DOMAIN seq = 1..Len(seq) /\ Len(seq) \in Nat
  BY Elements
<1>2. IsFiniteSet(DOMAIN seq)
  BY <1>1, FS_Interval
<1> QED BY <1>2, FS_Subset, FS_CardinalityType

LEMMA PendsStep ==
  ASSUME TypeInv, Refers, TypeInv', PendsInv, Next, Allowed', regime' = regime
  PROVE  PendsInv'
<1>0. Idle \in Tasks /\ Idle.at = "idle"
  BY DEF Tasks, Idle
<1>k. Overlapping' = Overlapping /\ Overlapping \in Nat
  BY AccountsAssumption, FS_CardinalityType DEF Overlapping
<1>a. \A contact : Asking(contact) \in SUBSET Clients
  BY DEF Asking
<1>n. \A contact : Cardinality(Asking(contact)) \in Nat
  BY <1>a, NoMore
<1>p. \A contact : /\ IsFiniteSet(Pending(contact)) /\ Cardinality(Pending(contact)) \in Nat
                   /\ IsFiniteSet(Pending(contact)') /\ Cardinality(Pending(contact)') \in Nat
  <2> TAKE contact
  <2>1. requests \in Seq(Payment) /\ requests' \in Seq(Payment)
    BY DEF TypeInv
  <2>2. Pending(contact) \in SUBSET DOMAIN requests /\ Pending(contact)' \in SUBSET DOMAIN requests'
    BY DEF Pending
  <2> QED BY <2>1, <2>2, RequestsFinite
<1>1. ASSUME \A contact \in Contacts : Pending(contact)' \subseteq Pending(contact),
             \A contact : Asking(contact)' \subseteq Asking(contact)
      PROVE  PendsInv'
  <2>1. ASSUME NEW contact \in Contacts
        PROVE  Cardinality(Pending(contact)') + Cardinality(Asking(contact)') =< Overlapping
    <3>1. Cardinality(Asking(contact)') =< Cardinality(Asking(contact)) /\ Cardinality(Asking(contact)') \in Nat
      BY <1>1, <1>a, NoMore
    <3>2. Cardinality(Pending(contact)') =< Cardinality(Pending(contact))
      BY <1>1, <1>p, FS_Subset
    <3> QED BY <1>k, <1>n, <1>p, <3>1, <3>2 DEF PendsInv
  <2> QED BY <1>k, <2>1 DEF PendsInv
<1>2. ASSUME NEW c \in Clients, ReadPending(c) PROVE PendsInv'
  <2>1. PICK buyer0 \in Contacts : Pending(buyer0) = {} /\ Goto(c, [at |-> "submitting", contact |-> buyer0])
    BY <1>2 DEF ReadPending, OpenOf
  <2>2. PICK t \in Tasks : Goto(c, t) /\ t.at = "submitting" /\ t.contact = buyer0
    <3>1. ASSUME NEW t, t = [at |-> "submitting", contact |-> buyer0]
          PROVE  t \in Tasks /\ t.at = "submitting" /\ t.contact = buyer0
      BY <3>1 DEF Tasks, Submitting
    <3> QED BY <2>1, <3>1
  <2>3. \A contact : Pending(contact)' = Pending(contact)
    BY <1>2 DEF ReadPending, Pending
  <2>4. \A contact : contact # buyer0 => Asking(contact)' \subseteq Asking(contact)
    BY <2>2, OnTheWay
  <2>5. Asking(buyer0)' \in SUBSET Clients /\ (regime = "serial" => \A x, y \in Asking(buyer0)' : x = y)
    BY DEF Asking, Allowed, At
  <2>6. Cardinality(Asking(buyer0)') =< Overlapping /\ Cardinality(Asking(buyer0)') \in Nat
    BY <2>5, FewAtATime
  <2>7. Cardinality(Pending(buyer0)) = 0
    BY <2>1, FS_EmptySet
  <2>8. ASSUME NEW contact \in Contacts
        PROVE  Cardinality(Pending(contact)') + Cardinality(Asking(contact)') =< Overlapping
    <3>1. CASE contact = buyer0
      BY <2>3, <2>6, <2>7, <3>1
    <3>2. CASE contact # buyer0
      <4>1. Cardinality(Asking(contact)') =< Cardinality(Asking(contact)) /\ Cardinality(Asking(contact)') \in Nat
        BY <1>a, <2>4, <3>2, NoMore
      <4> QED BY <1>k, <1>n, <1>p, <2>3, <4>1 DEF PendsInv
    <3> QED BY <3>1, <3>2
  <2> QED BY <1>k, <2>8 DEF PendsInv
<1>3. ASSUME NEW c \in Clients, Submit(c) PROVE PendsInv'
  <2>0. PICK buyer0 : buyer0 = task[c].contact
    OBVIOUS
  <2> DEFINE p == [contact |-> buyer0, status |-> "pending", user |-> 0]
             new == Len(requests) + 1
  <2>1. c \in Asking(buyer0) /\ Goto(c, Idle) /\ requests' = Append(requests, p) /\ buyer0 \in Contacts
    BY <1>3, <2>0, Places DEF Submit, At, Asking, Submitting
  <2>2. p \in Payment /\ p.contact = buyer0
    BY <2>1 DEF Payment
  <2>3. /\ DOMAIN requests' = DOMAIN requests \cup {new} /\ requests'[new] = p
        /\ \A r \in DOMAIN requests : requests'[r] = requests[r]
    <3> HIDE DEF p
    <3> QED BY SMTT(30), <2>1, <2>2, Appended DEF TypeInv
  <2> HIDE DEF p
  <2>4. \A contact : Asking(contact)' = Asking(contact) \ {c}
    BY <1>0, <2>1, OnTheWay
  <2>5. Cardinality(Asking(buyer0)') = Cardinality(Asking(buyer0)) - 1
    BY <1>a, <2>1, <2>4, OneLess
  <2>6. \A contact : Pending(contact)' \subseteq IF contact = buyer0 THEN Pending(contact) \cup {new} ELSE Pending(contact)
    BY <2>2, <2>3 DEF Pending
  <2> HIDE DEF new
  <2>7. Cardinality(Pending(buyer0)') =< Cardinality(Pending(buyer0)) + 1
    <3>1. IsFiniteSet(Pending(buyer0) \cup {new}) /\ Cardinality(Pending(buyer0) \cup {new}) \in Nat
          /\ Cardinality(Pending(buyer0) \cup {new}) =< Cardinality(Pending(buyer0)) + 1
      <4>1. /\ IsFiniteSet(Pending(buyer0) \cup {new})
            /\ Cardinality(Pending(buyer0) \cup {new}) =
                 IF new \in Pending(buyer0) THEN Cardinality(Pending(buyer0)) ELSE Cardinality(Pending(buyer0)) + 1
        BY <1>p, FS_AddElement
      <4> QED BY <1>p, <4>1
    <3>2. Pending(buyer0)' \subseteq Pending(buyer0) \cup {new}
      BY <2>6
    <3>3. Cardinality(Pending(buyer0)') =< Cardinality(Pending(buyer0) \cup {new})
      BY <3>1, <3>2, FS_Subset
    <3> QED BY <1>p, <3>1, <3>3
  <2>8. ASSUME NEW contact \in Contacts
        PROVE  Cardinality(Pending(contact)') + Cardinality(Asking(contact)') =< Overlapping
    <3>1. CASE contact = buyer0
      <4>1. Cardinality(Pending(buyer0)) + Cardinality(Asking(buyer0)) =< Overlapping
        BY <2>1 DEF PendsInv
      <4> QED BY <1>k, <1>n, <1>p, <2>5, <2>7, <3>1, <4>1
    <3>2. CASE contact # buyer0
      <4>1. Cardinality(Asking(contact)') =< Cardinality(Asking(contact)) /\ Cardinality(Asking(contact)') \in Nat
        BY <1>a, <2>4, NoMore
      <4>2. Cardinality(Pending(contact)') =< Cardinality(Pending(contact))
        BY <1>p, <2>6, <3>2, FS_Subset
      <4> QED BY <1>k, <1>n, <1>p, <4>1, <4>2 DEF PendsInv
    <3> QED BY <3>1, <3>2
  <2> QED BY <1>k, <2>8 DEF PendsInv
<1>4. ASSUME NEW c \in Clients, Approve(c) \/ Reject(c)
      PROVE  \A contact \in Contacts : Pending(contact)' \subseteq Pending(contact)
  <2>0. PICK r : r = task[c].request
    OBVIOUS
  <2>1. r \in DOMAIN requests /\ requests[r] \in Payment
    BY <1>4, <2>0, Elements DEF Approve, Reject, At, Refers, RefersTo, TypeInv
  <2>2. PICK q : requests' = [requests EXCEPT ![r] = q] /\ q.status # "pending"
    <3>1. ASSUME Approve(c)
          PROVE  \E q : requests' = [requests EXCEPT ![r] = q] /\ q.status # "pending"
      <4>1. requests' = [requests EXCEPT ![r] = [requests[r] EXCEPT !.status = "approved", !.user = Len(users')]]
        BY <3>1, <2>0 DEF Approve
      <4>2. [requests[r] EXCEPT !.status = "approved", !.user = Len(users')].status = "approved"
        BY <2>1 DEF Payment
      <4> QED BY <4>1, <4>2
    <3>2. ASSUME Reject(c)
          PROVE  \E q : requests' = [requests EXCEPT ![r] = q] /\ q.status # "pending"
      <4>1. requests' = [requests EXCEPT ![r] = [requests[r] EXCEPT !.status = "rejected"]]
        BY <3>2, <2>0 DEF Reject
      <4>2. [requests[r] EXCEPT !.status = "rejected"].status = "rejected"
        BY <2>1 DEF Payment
      <4> QED BY <4>1, <4>2
    <3> QED BY <1>4, <3>1, <3>2
  <2>3. DOMAIN requests' = DOMAIN requests /\ \A s \in DOMAIN requests : requests'[s] = IF s = r THEN q ELSE requests[s]
    BY <2>2
  <2> QED BY <2>2, <2>3 DEF Pending
<1>5. ASSUME NEW c \in Clients, ReadChallenge(c) \/ Verify(c)
      PROVE  UNCHANGED requests /\ \A contact : Asking(contact)' \subseteq Asking(contact)
  <2>1. UNCHANGED requests
    BY <1>5 DEF ReadChallenge, Verify
  <2>2. PICK t : Goto(c, t) /\ t.at \in {"verifying", "idle"}
    <3>1. Verify(c) => \E t : Goto(c, t) /\ t.at \in {"verifying", "idle"}
      BY <1>0 DEF Verify
    <3>2. ReadChallenge(c) => \E t : Goto(c, t) /\ t.at \in {"verifying", "idle"}
      BY DEF ReadChallenge
    <3> QED BY <1>5, <3>1, <3>2
  <2>3. t \in Tasks
    BY <2>2 DEF Goto, TypeInv
  <2> QED BY <2>1, <2>2, <2>3, OnTheWay
<1>6. ASSUME NEW key \in Keys, PostChallenge(key)
      PROVE  UNCHANGED requests /\ \A contact : Asking(contact)' \subseteq Asking(contact)
  BY <1>6 DEF PostChallenge, Asking
<1>7. UNCHANGED requests => \A contact \in Contacts : Pending(contact)' \subseteq Pending(contact)
  BY DEF Pending
<1>8. CASE \A contact : Asking(contact)' \subseteq Asking(contact)
  <2>1. CASE UNCHANGED requests
    BY <1>1, <1>7, <1>8, <2>1
  <2>2. CASE \E c \in Clients : Approve(c) \/ Reject(c)
    BY <1>1, <1>4, <1>8, <2>2
  <2> QED BY <1>2, <1>3, <1>5, <1>6, <2>1, <2>2, Ways
<1> QED BY <1>2, <1>3, <1>5, <1>6, <1>8, Ways

(* Who registers a key: only verify, and only one that has no user.        *)
LEMMA KeysStep ==
  ASSUME TypeInv, Refers, TypeInv', OneUserPerKey, Next
  PROVE  OneUserPerKey'
<1>d. /\ DOMAIN users = 1..Len(users) /\ Len(users) \in Nat /\ \A u \in DOMAIN users : users[u] \in User
  BY Elements DEF TypeInv
<1>1. ASSUME DOMAIN users' = DOMAIN users, \A u \in DOMAIN users : users'[u].key = users[u].key
      PROVE  OneUserPerKey'
  BY <1>1 DEF OneUserPerKey
<1>2. ASSUME NEW new \in User, users' = Append(users, new), new.key \in Keys => ~Registered(new.key)
      PROVE  OneUserPerKey'
  <2>1. /\ DOMAIN users' = DOMAIN users \cup {Len(users) + 1} /\ users'[Len(users) + 1] = new
        /\ \A u \in DOMAIN users : users'[u] = users[u]
    BY <1>2, Appended DEF TypeInv
  <2> QED BY <1>2, <2>1 DEF OneUserPerKey, Registered
<1>3. ASSUME NEW c \in Clients, Verify(c) PROVE OneUserPerKey'
  <2>1. PICK key : key = challenges[task[c].challenge].key
    OBVIOUS
  <2>2. task[c].challenge \in DOMAIN challenges
    BY <1>3 DEF Verify, At, Refers, RefersTo
  <2>3. NewUser(key, None, 0) \in User /\ NewUser(key, None, 0).key = key
    <3>1. challenges[task[c].challenge] \in Challenge
      BY <2>2 DEF TypeInv
    <3>2. key \in Keys
      BY <2>1, <3>1 DEF Challenge
    <3> QED BY <3>2 DEF NewUser, User
  <2>4. users' = users \/ (users' = Append(users, NewUser(key, None, 0)) /\ ~Registered(key))
    BY <1>3, <2>1 DEF Verify, Known
  <2> QED BY <1>1, <1>2, <2>3, <2>4
<1>4. ASSUME NEW c \in Clients, Approve(c) PROVE OneUserPerKey'
  <2>1. PICK new : users' = Append(users, new) /\ new = NewUser("issued", requests[task[c].request].contact, task[c].request)
    BY <1>4 DEF Approve
  <2>2. new \in User
    BY <1>4, <2>1 DEF TypeInv, Payment, Approve, At, Refers, RefersTo, NewUser, User
  <2>3. new.key \notin Keys
    BY <2>1, AccountsAssumption DEF NewUser
  <2> QED BY <1>2, <2>1, <2>2, <2>3
<1>5. ASSUME NEW c \in Clients, Write(c) PROVE OneUserPerKey'
  <2>1. PICK u, row : users' = [users EXCEPT ![u] = row] /\ u = task[c].user
                       /\ row = Flush(task[c].loaded, task[c].row, users[u])
    BY <1>5 DEF Write
  <2>2. u \in DOMAIN users /\ task[c] \in Writing
    BY <1>5, <2>1, Places DEF Write, At, Refers, RefersTo
  <2>3. row.key = users[u].key
    BY <1>d, <2>1, <2>2, Flushed DEF Writing
  <2> QED BY <1>1, <2>1, <2>2, <2>3
<1>6. ASSUME HourPasses PROVE OneUserPerKey'
  <2>1. users' = [u \in DOMAIN users |-> [users[u] EXCEPT !.lock = IF @ = "future" THEN "past" ELSE @]]
    BY <1>6 DEF HourPasses
  <2> QED BY <1>1, <1>d, <2>1 DEF User
<1>7. CASE UNCHANGED users
  BY <1>1, <1>7
<1> QED BY <1>3, <1>4, <1>5, <1>6, <1>7 DEF Next, PostChallenge, ReadChallenge, ReadPending, Submit, ReadRequest,
         Reject, LoadForSetup, Guess, history

UsesInv == OneUserPerKey /\ OpensInv /\ PendsInv /\ Allowed

LEMMA UsesInit == MCInit => UsesInv
<1> SUFFICES ASSUME MCInit PROVE UsesInv
  OBVIOUS
<1>1. Overlapping \in Nat \ {0}
  <2>1. IsFiniteSet(Clients) /\ Cardinality(Clients) \in Nat /\ Clients # {}
    BY AccountsAssumption, FS_CardinalityType
  <2>2. Cardinality(Clients) # 0
    BY <2>1, FS_EmptySet
  <2> QED BY <2>1, <2>2 DEF Overlapping
<1>2. OneUserPerKey
  <2>1. \A u, v \in DOMAIN users : u = v
    BY DEF MCInit, Init
  <2> QED BY <2>1 DEF OneUserPerKey
<1>3. OpensInv /\ Allowed
  BY DEF MCInit, Init, OpensInv, Allowed, At, Idle
<1>4. ASSUME NEW contact \in Contacts
      PROVE  Cardinality(Pending(contact)) + Cardinality(Asking(contact)) =< Overlapping
  <2>1. Asking(contact) = {}
    BY DEF MCInit, Init, Asking, Idle
  <2>2. \A r \in DOMAIN requests : requests[r].status # "pending"
    BY DEF MCInit, Init
  <2>3. Pending(contact) = {}
    BY <2>2 DEF Pending
  <2> QED BY <1>1, <2>1, <2>3, FS_EmptySet
<1> QED BY <1>2, <1>3, <1>4 DEF UsesInv, PendsInv

LEMMA UsesInvariant == MCSpec => []UsesInv
<1>1. TypeInv /\ Refers /\ TypeInv' /\ UsesInv /\ [MCNext]_<<vars, regime>> => UsesInv'
  <2> SUFFICES ASSUME TypeInv, Refers, TypeInv', UsesInv, [MCNext]_<<vars, regime>> PROVE UsesInv'
    OBVIOUS
  <2>1. CASE MCNext
    BY <2>1, KeysStep, OpensStep, PendsStep DEF MCNext, UsesInv
  <2>2. CASE UNCHANGED <<vars, regime>>
    BY <2>2 DEF vars, UsesInv, OneUserPerKey, OpensInv, PendsInv, Allowed, Fresh, Opening, Pending, Asking,
         Overlapping, At
  <2> QED BY <2>1, <2>2
<1> QED BY <1>1, UsesInit, TypeCorrect, PTL DEF MCSpec

(* A key registers once; and a challenge opens no more sessions, and a     *)
(* contact has no more pending requests, than there are requests that      *)
(* overlap.                                                                *)
THEOREM UsesAreBounded == MCSpec => []UsesBounded
<1>1. TypeInv /\ UsesInv => UsesBounded
  <2> SUFFICES ASSUME TypeInv, UsesInv PROVE UsesBounded
    OBVIOUS
  <2>1. Overlapping \in Nat
    BY AccountsAssumption, FS_CardinalityType DEF Overlapping
  <2>2. ASSUME NEW ch \in DOMAIN grants PROVE grants[ch] =< Overlapping
    <3>1. ch \in DOMAIN challenges /\ grants[ch] \in Nat
      BY Elements DEF TypeInv
    <3>2. Cardinality(Opening(ch)) \in Nat
      BY NoMore DEF Opening
    <3> QED BY <2>1, <3>1, <3>2 DEF UsesInv, OpensInv
  <2>3. ASSUME NEW contact \in Contacts PROVE Cardinality(Pending(contact)) =< Overlapping
    <3>1. Cardinality(Asking(contact)) \in Nat
      BY NoMore DEF Asking
    <3>2. Cardinality(Pending(contact)) \in Nat
      BY RequestsFinite DEF TypeInv, Pending
    <3> QED BY <2>1, <3>1, <3>2 DEF UsesInv, PendsInv
  <2> QED BY <2>2, <2>3 DEF UsesBounded, UsesInv, ChallengeOpens, PendingOf
<1> QED BY <1>1, UsesInvariant, TypeCorrect, PTL

-----------------------------------------------------------------------------
(* What each action does to the users *)

(* A user that is added has no PIN's state yet.                            *)
Adds(new) ==
  /\ new.failed = 0 /\ new.lock = "null"
  /\ DOMAIN users' = DOMAIN users \cup {Len(users) + 1}
  /\ Len(users) + 1 \notin DOMAIN users
  /\ users'[Len(users) + 1] = new
  /\ \A u \in DOMAIN users : users'[u] = users[u]

LEMMA Added ==
  ASSUME TypeInv, NEW key \in Keys \cup {"issued"}, NEW contact \in Contacts \cup {None}, NEW r \in Nat,
         users' = Append(users, NewUser(key, contact, r))
  PROVE  Adds(NewUser(key, contact, r)) /\ NewUser(key, contact, r).request = r
<1>1. /\ NewUser(key, contact, r) \in User /\ NewUser(key, contact, r).request = r
      /\ NewUser(key, contact, r).failed = 0 /\ NewUser(key, contact, r).lock = "null"
  BY DEF NewUser, User
<1> QED BY <1>1, Appended DEF TypeInv, Adds

LEMMA Verified ==
  ASSUME TypeInv, Refers, NEW c \in Clients, Verify(c)
  PROVE  UNCHANGED users \/ \E new : Adds(new) /\ new.request = 0
<1>1. PICK key : key = challenges[task[c].challenge].key
  OBVIOUS
<1>2. key \in Keys
  <2>1. challenges[task[c].challenge] \in Challenge
    BY DEF TypeInv, Verify, At, Refers, RefersTo
  <2> QED BY <1>1, <2>1 DEF Challenge
<1>3. UNCHANGED users \/ users' = Append(users, NewUser(key, None, 0))
  BY <1>1 DEF Verify
<1> QED BY <1>2, <1>3, Added

LEMMA Approved ==
  ASSUME TypeInv, Refers, NEW c \in Clients, NEW r, r = task[c].request, Approve(c)
  PROVE  /\ r \in DOMAIN requests
         /\ \E new : Adds(new) /\ new.request = r
         /\ DOMAIN requests' = DOMAIN requests
         /\ requests'[r].status = "approved"
         /\ \A s \in DOMAIN requests : s # r => requests'[s] = requests[s]
<1>1. r \in DOMAIN requests /\ r \in Nat /\ requests[r] \in Payment
  BY Elements DEF TypeInv, Approve, At, Refers, RefersTo
<1>2. users' = Append(users, NewUser("issued", requests[r].contact, r)) /\ requests[r].contact \in Contacts
  BY <1>1 DEF Approve, Payment
<1>3. \E new : Adds(new) /\ new.request = r
  BY ZenonT(60), <1>1, <1>2, Added
<1>4. requests' = [requests EXCEPT ![r] = [requests[r] EXCEPT !.status = "approved", !.user = Len(users')]]
  BY DEF Approve
<1>5. [requests[r] EXCEPT !.status = "approved", !.user = Len(users')].status = "approved"
  BY <1>1 DEF Payment
<1> QED BY <1>1, <1>3, <1>4, <1>5

(* A write of a PIN's state, by the columns that differ.                   *)
LEMMA Wrote ==
  ASSUME TypeInv, Refers, NEW c \in Clients, Write(c), NEW t, t = task[c], NEW u, u = t.user
  PROVE  /\ t \in Writing /\ u \in DOMAIN users /\ u \in 1..MaxUsers
         /\ DOMAIN users' = DOMAIN users
         /\ \A v \in DOMAIN users : v # u => users'[v] = users[v]
         /\ users'[u].request = users[u].request
         /\ users'[u].failed = (IF t.row.failed # t.loaded.failed THEN t.row.failed ELSE users[u].failed)
         /\ users'[u].lock = (IF t.row.lock # t.loaded.lock THEN t.row.lock ELSE users[u].lock)
         /\ DOMAIN misses' = DOMAIN misses /\ DOMAIN late' = DOMAIN late
         /\ misses'[u] = (IF t.judged = "miss" THEN misses[u] + 1 ELSE 0)
         /\ \A v \in 1..MaxUsers : v # u => misses'[v] = misses[v] /\ late'[v] = late[v]
         /\ late'[u] = (IF users'[u].lock # "future" \/ users[u].lock # "future" THEN 0
                        ELSE IF t.judged = "setup" THEN late[u] ELSE late[u] + 1)
<1>1. t \in Writing /\ u \in DOMAIN users
  BY Places DEF Write, At, Refers, RefersTo
<1>2. u \in 1..MaxUsers /\ users[u] \in User
  <2>1. DOMAIN users = 1..Len(users) /\ Len(users) \in Nat /\ Len(users) =< MaxUsers /\ MaxUsers \in Nat
    BY Elements, AccountsAssumption DEF TypeInv
  <2> QED BY <1>1, <2>1 DEF TypeInv
<1>3. users' = [users EXCEPT ![u] = Flush(t.loaded, t.row, users[u])]
  BY DEF Write
<1>4. users'[u] = Flush(t.loaded, t.row, users[u]) /\ t.loaded \in User /\ t.row \in User
  BY <1>1, <1>3 DEF Writing
<1>5. /\ users'[u].request = users[u].request
      /\ users'[u].failed = (IF t.row.failed # t.loaded.failed THEN t.row.failed ELSE users[u].failed)
      /\ users'[u].lock = (IF t.row.lock # t.loaded.lock THEN t.row.lock ELSE users[u].lock)
  BY <1>2, <1>4, Flushed
<1>6. DOMAIN users' = DOMAIN users /\ \A v \in DOMAIN users : v # u => users'[v] = users[v]
  BY <1>1, <1>3
<1>7. /\ misses' = [misses EXCEPT ![u] = IF t.judged = "miss" THEN @ + 1 ELSE 0]
      /\ late' = [late EXCEPT ![u] = IF users'[u].lock # "future" \/ users[u].lock # "future" THEN 0
                                     ELSE IF t.judged = "setup" THEN @ ELSE @ + 1]
  BY DEF Write
<1>8. misses \in [1..MaxUsers -> Nat] /\ late \in [1..MaxUsers -> Nat]
  BY DEF TypeInv
<1>9. /\ DOMAIN misses' = DOMAIN misses /\ DOMAIN late' = DOMAIN late
      /\ misses'[u] = (IF t.judged = "miss" THEN misses[u] + 1 ELSE 0)
      /\ \A v \in 1..MaxUsers : v # u => misses'[v] = misses[v] /\ late'[v] = late[v]
  BY <1>2, <1>7, <1>8
<1>10. late'[u] = (IF users'[u].lock # "future" \/ users[u].lock # "future" THEN 0
                   ELSE IF t.judged = "setup" THEN late[u] ELSE late[u] + 1)
  BY <1>2, <1>7, <1>8
<1> QED BY <1>1, <1>2, <1>5, <1>6, <1>9, <1>10

LEMMA HourPassed ==
  ASSUME TypeInv, HourPasses
  PROVE  /\ DOMAIN users' = DOMAIN users
         /\ \A u \in DOMAIN users : /\ users'[u].request = users[u].request /\ users'[u].failed = users[u].failed
                                    /\ users'[u].lock = (IF users[u].lock = "future" THEN "past" ELSE users[u].lock)
         /\ \A u \in 1..MaxUsers : /\ late'[u] = 0
                                   /\ misses'[u] = (IF u \in DOMAIN users /\ users[u].lock = "future" THEN 0 ELSE misses[u])
         /\ UNCHANGED <<requests, task>>
<1>1. users' = [u \in DOMAIN users |-> [users[u] EXCEPT !.lock = IF @ = "future" THEN "past" ELSE @]]
  BY DEF HourPasses
<1>2. \A u \in DOMAIN users : users[u] \in User
  BY DEF TypeInv
<1>3. /\ DOMAIN users' = DOMAIN users
      /\ \A u \in DOMAIN users : /\ users'[u].request = users[u].request /\ users'[u].failed = users[u].failed
                                 /\ users'[u].lock = (IF users[u].lock = "future" THEN "past" ELSE users[u].lock)
  BY <1>1, <1>2 DEF User
<1>4. /\ misses' = [u \in DOMAIN misses |-> IF u \in DOMAIN users /\ users[u].lock = "future" THEN 0 ELSE misses[u]]
      /\ late' = [u \in DOMAIN late |-> 0] /\ UNCHANGED <<requests, task>>
  BY DEF HourPasses
<1> QED BY <1>3, <1>4 DEF TypeInv

(* The other actions leave the users as they are.                          *)
LEMMA UsersStay ==
  ASSUME Next
  PROVE  \/ UNCHANGED <<users, misses, late>>
         \/ HourPasses
         \/ \E c \in Clients : (Verify(c) \/ Approve(c) \/ Write(c))
BY DEF Next, PostChallenge, ReadChallenge, ReadPending, Submit, ReadRequest, Reject, LoadForSetup, Guess, history

(* A request that acts with one at a time is the only one.                 *)
LEMMA Single ==
  ASSUME TypeInv, Allowed, Allowed', regime = "serial", regime' = "serial", NEW c \in Clients, NEW t \in Tasks,
         Goto(c, t), task[c].at # "idle" \/ t.at # "idle"
  PROVE  task'[c] = t /\ \A d \in Clients : d # c => task[d].at = "idle" /\ task'[d].at = "idle"
<1>1. task'[c] = t /\ \A d \in Clients : d # c => task'[d] = task[d]
  BY Went
<1> QED BY <1>1 DEF Allowed, At

-----------------------------------------------------------------------------
(* A payment buys one account *)

(* Accounts name requests there are; and one request at a time finds the   *)
(* request it decides as it read it.                                       *)
Names == \A u \in DOMAIN users : users[u].request =< Len(requests)
BoughtInv ==
  /\ Names
  /\ regime = "serial" =>
       /\ \A r \in DOMAIN requests :
            IF requests[r].status = "approved" THEN \E u \in DOMAIN users : Accounts(r) = {u}
                                               ELSE Accounts(r) = {}
       /\ \A c \in Clients : task[c].at \in {"approving", "rejecting"}
                               => requests[task[c].request].status = "pending"

LEMMA NamesStep ==
  ASSUME TypeInv, Refers, TypeInv', Names, Next
  PROVE  Names'
<1>d. /\ DOMAIN requests = 1..Len(requests) /\ Len(requests) \in Nat
      /\ \A u \in DOMAIN users : users[u].request \in Nat
  <2>1. \A u \in DOMAIN users : users[u] \in User
    BY DEF TypeInv
  <2> QED BY <2>1, Elements DEF TypeInv, User
<1>1. Len(requests) =< Len(requests') /\ Len(requests') \in Nat
  <2>1. ASSUME NEW c \in Clients, Approve(c) PROVE Len(requests') = Len(requests)
    <3>1. PICK r : r = task[c].request
      OBVIOUS
    <3>2. DOMAIN requests' = DOMAIN requests
      BY <2>1, <3>1, Approved
    <3> QED BY <3>2, Elements, LenProperties DEF TypeInv
  <2>2. ASSUME NEW c \in Clients, Reject(c) PROVE Len(requests') = Len(requests)
    <3>1. DOMAIN requests' = DOMAIN requests
      BY <2>2 DEF Reject
    <3> QED BY <3>1, Elements, LenProperties DEF TypeInv
  <2>3. ASSUME NEW c \in Clients, Submit(c) PROVE Len(requests') = Len(requests) + 1
    <3>1. [contact |-> task[c].contact, status |-> "pending", user |-> 0] \in Payment
      BY <2>3, Places DEF Submit, Submitting, Payment
    <3> QED BY <2>3, <3>1, Appended DEF Submit, TypeInv
  <2>4. \/ UNCHANGED requests
        \/ \E c \in Clients : (Approve(c) \/ Reject(c) \/ Submit(c))
    BY DEF Next, PostChallenge, ReadChallenge, Verify, ReadPending, ReadRequest, LoadForSetup, Guess, Write, HourPasses
  <2> QED BY <1>d, <2>1, <2>2, <2>3, <2>4
<1>2. CASE UNCHANGED users
  BY <1>1, <1>2, <1>d DEF Names
<1>3. ASSUME NEW new, Adds(new), new.request = 0 \/ new.request \in DOMAIN requests PROVE Names'
  BY <1>1, <1>3, <1>d DEF Names, Adds
<1>4. ASSUME DOMAIN users' = DOMAIN users, \A u \in DOMAIN users : users'[u].request = users[u].request PROVE Names'
  BY <1>1, <1>4, <1>d DEF Names
<1>5. ASSUME NEW c \in Clients, Verify(c) PROVE Names'
  BY <1>2, <1>3, <1>5, Verified
<1>6. ASSUME NEW c \in Clients, Approve(c) PROVE Names'
  <2>1. PICK r : r = task[c].request
    OBVIOUS
  <2>2. r \in DOMAIN requests /\ \E new : Adds(new) /\ new.request = r
    BY <1>6, <2>1, Approved
  <2> QED BY <1>3, <2>2
<1>7. ASSUME NEW c \in Clients, Write(c) PROVE Names'
  <2>1. PICK t, u : t = task[c] /\ u = t.user
    OBVIOUS
  <2>2. /\ DOMAIN users' = DOMAIN users /\ \A v \in DOMAIN users : v # u => users'[v] = users[v]
        /\ users'[u].request = users[u].request
    BY <1>7, <2>1, Wrote
  <2>3. \A v \in DOMAIN users : users'[v].request = users[v].request
    BY <2>2
  <2> QED BY <1>4, <2>2, <2>3
<1>8. ASSUME HourPasses PROVE Names'
  BY <1>4, <1>8, HourPassed
<1> QED BY <1>2, <1>5, <1>6, <1>7, <1>8, UsersStay

LEMMA BoughtStep ==
  ASSUME TypeInv, Refers, TypeInv', BoughtInv, Next, Allowed, Allowed', regime' = regime
  PROVE  BoughtInv'
<1>1. Names'
  BY NamesStep DEF BoughtInv
<1>2. SUFFICES ASSUME regime = "serial"
      PROVE  /\ \A r \in DOMAIN requests' :
                  IF requests'[r].status = "approved" THEN \E u \in DOMAIN users' : Accounts(r)' = {u}
                                                      ELSE Accounts(r)' = {}
             /\ \A c \in Clients : task'[c].at \in {"approving", "rejecting"}
                                     => requests'[task'[c].request].status = "pending"
  BY <1>1 DEF BoughtInv
<1> DEFINE One(r) == IF requests[r].status = "approved" THEN \E u \in DOMAIN users : Accounts(r) = {u}
                                                        ELSE Accounts(r) = {}
           Ones == \A r \in DOMAIN requests' :
                     IF requests'[r].status = "approved" THEN \E u \in DOMAIN users' : Accounts(r)' = {u}
                                                         ELSE Accounts(r)' = {}
           Decides == \A c \in Clients : task'[c].at \in {"approving", "rejecting"}
                                           => requests'[task'[c].request].status = "pending"
<1>3. /\ Names /\ regime' = "serial"
      /\ \A r \in DOMAIN requests : One(r)
      /\ \A c \in Clients : task[c].at \in {"approving", "rejecting"} => requests[task[c].request].status = "pending"
  BY <1>2 DEF BoughtInv
<1>0. Idle \in Tasks /\ Idle.at = "idle"
  BY DEF Tasks, Idle
<1>d. DOMAIN requests = 1..Len(requests) /\ Len(requests) \in Nat /\ 0 \notin DOMAIN requests
  BY Elements DEF TypeInv
<1>4. ASSUME UNCHANGED requests, DOMAIN users' = DOMAIN users, \A u \in DOMAIN users : users'[u].request = users[u].request
      PROVE  Ones
  <2>1. \A r : Accounts(r)' = Accounts(r)
    BY <1>4 DEF Accounts
  <2> QED BY <1>3, <1>4, <2>1
<1>5. ASSUME UNCHANGED requests, NEW new, Adds(new), new.request = 0
      PROVE  Ones
  <2>1. \A r \in DOMAIN requests : Accounts(r)' = Accounts(r)
    BY <1>5, <1>d DEF Accounts, Adds
  <2>2. DOMAIN users \subseteq DOMAIN users'
    BY <1>5 DEF Adds
  <2> QED BY <1>3, <1>5, <2>1, <2>2
<1>6. ASSUME UNCHANGED <<requests, task>> PROVE Decides
  BY <1>3, <1>6
<1>7. ASSUME NEW c \in Clients, Goto(c, Idle), task[c].at # "idle" PROVE Decides
  <2>1. \A d \in Clients : task'[d].at = "idle"
    BY <1>0, <1>2, <1>3, <1>7, Single
  <2> QED BY <2>1
<1>8. ASSUME NEW c \in Clients, NEW t \in Tasks, Goto(c, t), t.at \notin {"idle", "approving", "rejecting"} PROVE Decides
  <2>1. \A d \in Clients : task'[d].at \notin {"approving", "rejecting"}
    BY <1>2, <1>3, <1>8, Single
  <2> QED BY <2>1
<1>9. ASSUME UNCHANGED <<users, requests>>, NEW c \in Clients, NEW t \in Tasks, Goto(c, t),
             t.at \notin {"idle", "approving", "rejecting"}
      PROVE  Ones /\ Decides
  <2>1. Ones
    BY <1>4, <1>9
  <2>2. Decides
    BY <1>8, <1>9
  <2> QED BY <2>1, <2>2
<1>10. ASSUME NEW key \in Keys, PostChallenge(key) PROVE Ones /\ Decides
  <2>1. UNCHANGED <<users, requests, task>>
    BY <1>10 DEF PostChallenge
  <2>2. Ones
    BY <1>4, <2>1
  <2>3. Decides
    BY <1>6, <2>1
  <2> QED BY <2>2, <2>3
<1>11. ASSUME NEW c \in Clients, ReadChallenge(c) \/ ReadPending(c) \/ LoadForSetup(c) \/ Guess(c) PROVE Ones /\ Decides
  <2>1. UNCHANGED <<users, requests>>
    BY <1>11 DEF ReadChallenge, ReadPending, LoadForSetup, Guess
  <2>2. PICK t : Goto(c, t) /\ t.at \in {"verifying", "submitting", "writing"}
    <3>1. ReadChallenge(c) => \E t : Goto(c, t) /\ t.at \in {"verifying", "submitting", "writing"}
      BY DEF ReadChallenge
    <3>2. ReadPending(c) => \E t : Goto(c, t) /\ t.at \in {"verifying", "submitting", "writing"}
      BY DEF ReadPending
    <3>3. LoadForSetup(c) => \E t : Goto(c, t) /\ t.at \in {"verifying", "submitting", "writing"}
      BY DEF LoadForSetup
    <3>4. Guess(c) => \E t : Goto(c, t) /\ t.at \in {"verifying", "submitting", "writing"}
      BY DEF Guess
    <3> QED BY <1>11, <3>1, <3>2, <3>3, <3>4
  <2>3. t \in Tasks
    BY <2>2 DEF Goto, TypeInv
  <2> HIDE DEF Ones, Decides
  <2> QED BY <1>9, <2>1, <2>2, <2>3
<1>12. ASSUME NEW c \in Clients, Verify(c) PROVE Ones /\ Decides
  <2>1. UNCHANGED requests /\ Goto(c, Idle) /\ task[c].at # "idle"
    BY <1>12 DEF Verify, At
  <2>2. Decides
    BY <1>7, <2>1
  <2>3. CASE UNCHANGED users
    <3>1. Ones
      BY <1>4, <2>1, <2>3
    <3> QED BY <2>2, <3>1
  <2>4. CASE \E new : Adds(new) /\ new.request = 0
    <3>1. Ones
      BY <1>5, <2>1, <2>4
    <3> QED BY <2>2, <3>1
  <2> QED BY <1>12, <2>3, <2>4, Verified
<1>13. ASSUME NEW c \in Clients, Submit(c) PROVE Ones /\ Decides
  <2> DEFINE p == [contact |-> task[c].contact, status |-> "pending", user |-> 0]
             new == Len(requests) + 1
  <2>1. Goto(c, Idle) /\ task[c].at # "idle" /\ requests' = Append(requests, p) /\ UNCHANGED users
    BY <1>13 DEF Submit, At
  <2>2. p \in Payment /\ p.status = "pending"
    BY <1>13, Places DEF Submit, Submitting, Payment
  <2> HIDE DEF p
  <2>3. /\ DOMAIN requests' = DOMAIN requests \cup {new} /\ requests'[new] = p
        /\ \A r \in DOMAIN requests : requests'[r] = requests[r]
    BY <2>1, <2>2, Appended DEF TypeInv
  <2>4. \A r : Accounts(r)' = Accounts(r)
    BY <2>1 DEF Accounts
  <2>5. Accounts(new) = {}
    <3>1. \A u \in DOMAIN users : users[u].request \in Nat /\ users[u].request =< Len(requests)
      <4>1. \A u \in DOMAIN users : users[u] \in User
        BY DEF TypeInv
      <4> QED BY <1>3, <4>1 DEF Names, User
    <3> QED BY <1>d, <3>1 DEF Accounts
  <2>6. Ones
    BY <1>3, <2>1, <2>2, <2>3, <2>4, <2>5
  <2>7. Decides
    BY <1>7, <2>1
  <2> QED BY <2>6, <2>7
<1>14. ASSUME NEW c \in Clients, ReadRequest(c) PROVE Ones /\ Decides
  <2>1. UNCHANGED <<users, requests>>
    BY <1>14 DEF ReadRequest
  <2>2. PICK r \in DOMAIN requests, to \in {"approving", "rejecting"} :
          requests[r].status = "pending" /\ Goto(c, [at |-> to, request |-> r])
    BY <1>14 DEF ReadRequest, Undecided
  <2>3. PICK t \in Tasks : Goto(c, t) /\ t.at = to /\ t.request = r
    <3>1. ASSUME NEW t, t = [at |-> to, request |-> r] PROVE t \in Tasks /\ t.at = to /\ t.request = r
      BY <1>d, <3>1 DEF Tasks, Deciding
    <3> QED BY <2>2, <3>1
  <2>4. task'[c] = t /\ \A d \in Clients : d # c => task'[d].at = "idle"
    BY <1>2, <1>3, <2>3, Single
  <2>5. Decides
    BY <2>1, <2>2, <2>3, <2>4
  <2>6. Ones
    BY <1>4, <2>1
  <2> QED BY <2>5, <2>6
<1>15. ASSUME NEW c \in Clients, Approve(c) PROVE Ones /\ Decides
  <2>1. PICK r : r = task[c].request
    OBVIOUS
  <2>2. Goto(c, Idle) /\ task[c].at = "approving"
    BY <1>15 DEF Approve, At
  <2>3. /\ r \in DOMAIN requests /\ DOMAIN requests' = DOMAIN requests /\ requests'[r].status = "approved"
        /\ \A s \in DOMAIN requests : s # r => requests'[s] = requests[s]
    BY <1>15, <2>1, Approved
  <2>4. PICK new : Adds(new) /\ new.request = r
    BY <1>15, <2>1, Approved
  <2>5. Accounts(r) = {}
    BY <1>3, <2>1, <2>2, <2>3
  <2>6. Accounts(r)' = {Len(users) + 1}
    BY <2>4, <2>5 DEF Accounts, Adds
  <2>7. \A s \in DOMAIN requests : s # r => Accounts(s)' = Accounts(s)
    BY <2>4 DEF Accounts, Adds
  <2>8. DOMAIN users' = DOMAIN users \cup {Len(users) + 1}
    BY <2>4 DEF Adds
  <2>9. Ones
    BY <1>3, <2>3, <2>6, <2>7, <2>8
  <2>10. Decides
    BY <1>7, <2>2
  <2> QED BY <2>9, <2>10
<1>16. ASSUME NEW c \in Clients, Reject(c) PROVE Ones /\ Decides
  <2>1. PICK r : r = task[c].request
    OBVIOUS
  <2>2. Goto(c, Idle) /\ task[c].at = "rejecting" /\ UNCHANGED users
    BY <1>16 DEF Reject, At
  <2>3. r \in DOMAIN requests /\ requests[r] \in Payment
    BY <2>1, <2>2 DEF Refers, RefersTo, TypeInv
  <2>4. requests' = [requests EXCEPT ![r] = [requests[r] EXCEPT !.status = "rejected"]]
    BY <1>16, <2>1 DEF Reject
  <2>5. [requests[r] EXCEPT !.status = "rejected"].status = "rejected"
    BY <2>3 DEF Payment
  <2>6. /\ DOMAIN requests' = DOMAIN requests /\ requests'[r].status = "rejected"
        /\ \A s \in DOMAIN requests : s # r => requests'[s] = requests[s]
    BY <2>3, <2>4, <2>5
  <2>7. Accounts(r) = {}
    BY <1>3, <2>1, <2>2, <2>3
  <2>8. \A s : Accounts(s)' = Accounts(s)
    BY <2>2 DEF Accounts
  <2>9. Ones
    BY <1>3, <2>2, <2>6, <2>7, <2>8
  <2>10. Decides
    BY <1>7, <2>2
  <2> QED BY <2>9, <2>10
<1>17. ASSUME NEW c \in Clients, Write(c) PROVE Ones /\ Decides
  <2>1. PICK t, u : t = task[c] /\ u = t.user
    OBVIOUS
  <2>2. /\ DOMAIN users' = DOMAIN users /\ \A v \in DOMAIN users : v # u => users'[v] = users[v]
        /\ users'[u].request = users[u].request
    BY <1>17, <2>1, Wrote
  <2>3. UNCHANGED requests /\ Goto(c, Idle) /\ task[c].at # "idle"
    BY <1>17 DEF Write, At
  <2>4. \A v \in DOMAIN users : users'[v].request = users[v].request
    BY <2>2
  <2>5. Ones
    BY <1>4, <2>2, <2>3, <2>4
  <2>6. Decides
    BY <1>7, <2>3
  <2> QED BY <2>5, <2>6
<1>18. ASSUME HourPasses PROVE Ones /\ Decides
  <2>1. /\ UNCHANGED <<requests, task>> /\ DOMAIN users' = DOMAIN users
        /\ \A u \in DOMAIN users : users'[u].request = users[u].request
    BY <1>18, HourPassed
  <2>2. Ones
    BY <1>4, <2>1
  <2>3. Decides
    BY <1>6, <2>1
  <2> QED BY <2>2, <2>3
<1>19. Ones /\ Decides
  <2> HIDE DEF Ones, Decides
  <2> QED BY <1>10, <1>11, <1>12, <1>13, <1>14, <1>15, <1>16, <1>17, <1>18 DEF Next
<1> QED BY <1>19

(* With one request at a time, an approved payment is one account and any  *)
(* other none.                                                             *)
THEOREM PaymentsBuyOne == MCSpec => []SerialAccountIffApproved
<1>1. MCInit => BoughtInv
  <2> SUFFICES ASSUME MCInit PROVE BoughtInv
    OBVIOUS
  <2>1. \A c \in Clients : task[c].at = "idle"
    BY DEF MCInit, Init, Idle
  <2>2. CASE users = <<>> /\ requests = <<>>
    BY <2>1, <2>2 DEF BoughtInv, Names
  <2>3. ASSUME NEW contact \in Contacts, NEW p \in Pins,
               users = <<[NewUser("issued", contact, 1) EXCEPT !.pin = p]>>,
               requests = <<[contact |-> contact, status |-> "approved", user |-> 1]>>
        PROVE  BoughtInv
    <3>1. [NewUser("issued", contact, 1) EXCEPT !.pin = p].request = 1
      BY DEF NewUser
    <3>4. \A e : DOMAIN <<e>> = {1} /\ Len(<<e>>) = 1 /\ <<e>>[1] = e
      OBVIOUS
    <3>5. DOMAIN users = {1} /\ users[1].request = 1
      BY <2>3, <3>1, <3>4
    <3>6. DOMAIN requests = {1} /\ Len(requests) = 1 /\ requests[1].status = "approved"
      BY <2>3, <3>4
    <3>2. DOMAIN users = {1} /\ users[1].request = 1 /\ DOMAIN requests = {1} /\ Len(requests) = 1
          /\ requests[1].status = "approved"
      BY <3>5, <3>6
    <3>3. Accounts(1) = {1}
      BY <3>2 DEF Accounts
    <3> QED BY <2>1, <3>2, <3>3 DEF BoughtInv, Names
  <2> QED BY <2>2, <2>3 DEF MCInit, Init
<1>2. TypeInv /\ Refers /\ TypeInv' /\ UsesInv /\ BoughtInv /\ [MCNext]_<<vars, regime>> => BoughtInv'
  <2> SUFFICES ASSUME TypeInv, Refers, TypeInv', UsesInv, BoughtInv, [MCNext]_<<vars, regime>> PROVE BoughtInv'
    OBVIOUS
  <2>1. CASE MCNext
    BY <2>1, BoughtStep DEF MCNext, UsesInv
  <2>2. CASE UNCHANGED <<vars, regime>>
    BY <2>2 DEF vars, BoughtInv, Names, Accounts
  <2> QED BY <2>1, <2>2
<1>3. TypeInv /\ BoughtInv => SerialAccountIffApproved
  BY FS_Singleton, FS_EmptySet DEF BoughtInv, SerialAccountIffApproved, AccountIffApproved
<1> QED BY <1>1, <1>2, <1>3, UsesInvariant, TypeCorrect, PTL DEF MCSpec

-----------------------------------------------------------------------------
(* Guesses *)

Judging(u) == {c \in Clients : task[c].at = "writing" /\ task[c].user = u /\ task[c].judged # "setup"}
LockedNow(u) == u \in DOMAIN users /\ users[u].lock = "future"

(* While an account is locked, the guesses judged and those still under    *)
(* way leave one request out: the one that locked it.                      *)
LateInv ==
  \A u \in 1..MaxUsers :
    IF LockedNow(u) THEN late[u] + Cardinality(Judging(u)) < Cardinality(Clients) ELSE late[u] = 0

(* One request at a time writes over what it loaded, and the count of      *)
(* failures is at least the count of misses.                               *)
Fits(t) ==
  t.at = "writing" =>
    /\ users[t.user].failed = t.loaded.failed
    /\ t.judged # "setup" => users[t.user].lock = t.loaded.lock /\ t.loaded.lock # "future"
    /\ t.judged = "miss" => /\ t.row.failed = t.loaded.failed + 1
                            /\ t.row.failed >= MaxFailed => t.row.lock = "future"
    /\ t.judged # "miss" => t.row.failed = 0
Counted(u) == misses[u] =< users[u].failed /\ (misses[u] >= MaxFailed => users[u].lock = "future")
MissesInv ==
  /\ \A u \in 1..MaxUsers : u \notin DOMAIN users => misses[u] = 0
  /\ regime = "serial" => /\ \A u \in DOMAIN users : Counted(u)
                          /\ \A c \in Clients : Fits(task[c])

LEMMA Judges ==
  ASSUME TypeInv, NEW c \in Clients, NEW t \in Tasks, Goto(c, t)
  PROVE  \A u : Judging(u)' = IF t.at = "writing" /\ t.user = u /\ t.judged # "setup"
                              THEN Judging(u) \cup {c} ELSE Judging(u) \ {c}
<1>1. task'[c] = t /\ \A d \in Clients : d # c => task'[d] = task[d]
  BY Went
<1> QED BY <1>1 DEF Judging

(* What a request has in hand after it has loaded a user.                  *)
LEMMA LoadedForSetup ==
  ASSUME TypeInv, TypeInv', NEW c \in Clients, LoadForSetup(c)
  PROVE  /\ UNCHANGED <<users, misses, late>>
         /\ \E u \in DOMAIN users, t \in Tasks :
              /\ Goto(c, t) /\ t.at = "writing" /\ t.user = u /\ t.loaded = users[u]
              /\ t.judged = "setup" /\ t.row.failed = 0
<1>1. PICK u \in DOMAIN users, p \in Pins :
        Goto(c, [at |-> "writing", user |-> u, loaded |-> users[u], judged |-> "setup",
                 row |-> [users[u] EXCEPT !.pin = p, !.failed = 0, !.lock = "null"]])
  BY DEF LoadForSetup
<1>2. users[u] \in User
  BY DEF TypeInv
<1>3. [users[u] EXCEPT !.pin = p, !.failed = 0, !.lock = "null"].failed = 0
  BY <1>2 DEF User
<1>4. PICK t : Goto(c, t) /\ t.at = "writing" /\ t.user = u /\ t.loaded = users[u] /\ t.judged = "setup"
               /\ t.row = [users[u] EXCEPT !.pin = p, !.failed = 0, !.lock = "null"]
  BY <1>1
<1>5. t \in Tasks
  BY <1>4 DEF Goto, TypeInv
<1> QED BY ZenonT(60), <1>3, <1>4, <1>5 DEF LoadForSetup, history

LEMMA Guessed ==
  ASSUME TypeInv, TypeInv', NEW c \in Clients, Guess(c)
  PROVE  /\ UNCHANGED <<users, misses, late>>
         /\ \E u \in DOMAIN users, t \in Tasks :
              /\ Goto(c, t) /\ t.at = "writing" /\ t.user = u /\ t.loaded = users[u]
              /\ users[u].lock # "future" /\ t.judged \in {"hit", "miss"}
              /\ t.judged = "miss" => /\ t.row.failed = users[u].failed + 1
                                      /\ t.row.failed >= MaxFailed => t.row.lock = "future"
              /\ t.judged = "hit" => t.row.failed = 0
<1>1. PICK u \in DOMAIN users, guess \in Pins :
        /\ ~Locked(u)
        /\ Goto(c, [at |-> "writing", user |-> u, loaded |-> users[u],
                    judged |-> IF Matches(guess, u) THEN "hit" ELSE "miss",
                    row |-> IF Matches(guess, u) THEN AfterHit(u) ELSE AfterMiss(u)])
  BY DEF Guess
<1>2. users[u] \in User
  BY DEF TypeInv
<1>3. AfterHit(u).failed = 0
  BY <1>2 DEF User, AfterHit
<1>4. AfterMiss(u).failed = users[u].failed + 1
  BY <1>2 DEF User, AfterMiss
<1>5. AfterMiss(u).lock = IF users[u].failed + 1 >= MaxFailed THEN "future" ELSE users[u].lock
  BY <1>2 DEF User, AfterMiss
<1>6. PICK t, judged, row :
        /\ Goto(c, t) /\ t.at = "writing" /\ t.user = u /\ t.loaded = users[u] /\ t.judged = judged /\ t.row = row
        /\ \/ judged = "hit" /\ row = AfterHit(u)
           \/ judged = "miss" /\ row = AfterMiss(u)
  <2> DEFINE Loaded(judged, row) ==
               [at |-> "writing", user |-> u, loaded |-> users[u], judged |-> judged, row |-> row]
  <2>1. \A judged, row : /\ Loaded(judged, row).at = "writing" /\ Loaded(judged, row).user = u
                         /\ Loaded(judged, row).loaded = users[u]
                         /\ Loaded(judged, row).judged = judged /\ Loaded(judged, row).row = row
    OBVIOUS
  <2>2. Goto(c, Loaded("hit", AfterHit(u))) \/ Goto(c, Loaded("miss", AfterMiss(u)))
    BY <1>1
  <2> HIDE DEF Loaded
  <2> QED BY <2>1, <2>2
<1>7. t \in Tasks
  BY <1>6 DEF Goto, TypeInv
<1>8. UNCHANGED <<users, misses, late>>
  BY DEF Guess, history
<1>9. /\ users[u].lock # "future" /\ t.judged \in {"hit", "miss"}
      /\ t.judged = "hit" => t.row.failed = 0
  BY <1>1, <1>3, <1>6 DEF Locked
<1>10. t.judged = "miss" => t.row.failed = users[u].failed + 1 /\ (t.row.failed >= MaxFailed => t.row.lock = "future")
  BY <1>4, <1>5, <1>6
<1> QED BY <1>6, <1>7, <1>8, <1>9, <1>10

(* A request that registers a user has no guess in hand.                   *)
LEMMA Registers ==
  ASSUME TypeInv, Refers, NEW c \in Clients, Verify(c) \/ Approve(c)
  PROVE  /\ UNCHANGED users \/ \E new : Adds(new)
         /\ UNCHANGED <<misses, late>>
         /\ Goto(c, Idle) /\ task[c].at # "idle" /\ task[c].at # "writing"
<1>1. CASE Verify(c)
  BY <1>1, Verified DEF Verify, At
<1>2. CASE Approve(c)
  <2>1. PICK r : r = task[c].request
    OBVIOUS
  <2>2. \E new : Adds(new)
    BY <1>2, <2>1, Approved
  <2> QED BY <1>2, <2>2 DEF Approve, At, history
<1> QED BY <1>1, <1>2

(* What is left has no user in hand, before or after.                      *)
LEMMA NoUserInHand ==
  ASSUME TypeInv, TypeInv', Next
  PROVE  \/ UNCHANGED <<users, misses, late, task>>
         \/ HourPasses
         \/ \E c \in Clients : (Verify(c) \/ Approve(c) \/ LoadForSetup(c) \/ Guess(c) \/ Write(c))
         \/ /\ UNCHANGED <<users, misses, late>>
            /\ \E c \in Clients, t \in Tasks :
                 /\ Goto(c, t) /\ t.at # "writing" /\ task[c].at # "writing"
                 /\ task[c].at # "idle" \/ t.at # "idle"
<1> DEFINE Plain(c) == \E t : /\ Goto(c, t) /\ t.at # "writing" /\ task[c].at # "writing"
                              /\ task[c].at # "idle" \/ t.at # "idle"
<1>1. ASSUME NEW c \in Clients, ReadChallenge(c) \/ ReadPending(c) \/ Submit(c) \/ ReadRequest(c) \/ Reject(c)
      PROVE  UNCHANGED <<users, misses, late>>
  BY <1>1 DEF ReadChallenge, ReadPending, Submit, ReadRequest, Reject, history
<1>2. ASSUME NEW c \in Clients, ReadChallenge(c) PROVE Plain(c)
  BY <1>2 DEF ReadChallenge, At
<1>3. ASSUME NEW c \in Clients, ReadPending(c) PROVE Plain(c)
  BY <1>3 DEF ReadPending, At
<1>4. ASSUME NEW c \in Clients, ReadRequest(c) PROVE Plain(c)
  BY <1>4 DEF ReadRequest, At
<1>5. ASSUME NEW c \in Clients, Submit(c) \/ Reject(c) PROVE Plain(c)
  BY <1>5 DEF Submit, Reject, At, Idle
<1>6. ASSUME NEW c \in Clients, Plain(c)
      PROVE  \E t \in Tasks : /\ Goto(c, t) /\ t.at # "writing" /\ task[c].at # "writing"
                              /\ task[c].at # "idle" \/ t.at # "idle"
  BY <1>6 DEF Goto, TypeInv
<1> HIDE DEF Plain
<1>7. ASSUME NEW key \in Keys, PostChallenge(key) PROVE UNCHANGED <<users, misses, late, task>>
  BY <1>7 DEF PostChallenge
<1> QED BY <1>1, <1>2, <1>3, <1>4, <1>5, <1>6, <1>7 DEF Next

LEMMA LateStep ==
  ASSUME TypeInv, Refers, TypeInv', LateInv, Next
  PROVE  LateInv'
<1>0. Idle \in Tasks /\ Idle.at = "idle"
  BY DEF Tasks, Idle
<1>j. /\ \A u : Judging(u) \in SUBSET Clients /\ Cardinality(Judging(u)) \in Nat
      /\ Cardinality(Clients) \in Nat
  BY NoMore DEF Judging
<1>l. \A u \in 1..MaxUsers : late[u] \in Nat
  BY DEF TypeInv
<1>1. ASSUME UNCHANGED late, \A u \in 1..MaxUsers : LockedNow(u)' = LockedNow(u),
             \A u \in 1..MaxUsers : LockedNow(u) => Judging(u)' \subseteq Judging(u)
      PROVE  LateInv'
  <2>1. ASSUME NEW u \in 1..MaxUsers, LockedNow(u)
        PROVE  late[u] + Cardinality(Judging(u)') < Cardinality(Clients)
    <3>1. Cardinality(Judging(u)') =< Cardinality(Judging(u)) /\ Cardinality(Judging(u)') \in Nat
      BY <1>1, <1>j, <2>1, NoMore
    <3>2. late[u] + Cardinality(Judging(u)) < Cardinality(Clients)
      BY <2>1 DEF LateInv
    <3> QED BY <1>j, <1>l, <3>1, <3>2
  <2> QED BY <1>1, <2>1 DEF LateInv
<1>2. UNCHANGED users => \A u \in 1..MaxUsers : LockedNow(u)' = LockedNow(u)
  BY DEF LockedNow
<1>3. CASE UNCHANGED <<users, misses, late, task>>
  BY <1>1, <1>2, <1>3 DEF Judging
<1>4. ASSUME NEW c \in Clients, NEW t \in Tasks, Goto(c, t), t.at # "writing", UNCHANGED <<users, late>>
      PROVE  LateInv'
  BY <1>1, <1>2, <1>4, Judges
<1>5. ASSUME NEW c \in Clients, Verify(c) \/ Approve(c) PROVE LateInv'
  <2>1. /\ UNCHANGED users \/ \E new : Adds(new)
        /\ UNCHANGED late /\ Goto(c, Idle)
    BY <1>5, Registers
  <2>2. ASSUME NEW new, Adds(new) PROVE \A u \in 1..MaxUsers : LockedNow(u)' = LockedNow(u)
    BY <2>2 DEF Adds, LockedNow
  <2>3. \A u : Judging(u)' \subseteq Judging(u)
    BY <1>0, <2>1, Judges
  <2> QED BY <1>1, <1>2, <2>1, <2>2, <2>3
<1>6. ASSUME NEW c \in Clients, LoadForSetup(c) PROVE LateInv'
  <2>1. PICK t \in Tasks : Goto(c, t) /\ t.judged = "setup"
    BY <1>6, LoadedForSetup
  <2>2. UNCHANGED <<users, late>>
    BY <1>6, LoadedForSetup
  <2>3. \A u : Judging(u)' \subseteq Judging(u)
    BY <2>1, Judges
  <2> QED BY <1>1, <1>2, <2>2, <2>3
<1>7. ASSUME NEW c \in Clients, Guess(c) PROVE LateInv'
  <2>1. PICK u \in DOMAIN users, t \in Tasks : Goto(c, t) /\ t.user = u /\ users[u].lock # "future"
    BY <1>7, Guessed
  <2>2. UNCHANGED <<users, late>>
    BY <1>7, Guessed
  <2>3. \A v : LockedNow(v) => Judging(v)' \subseteq Judging(v)
    BY <2>1, Judges DEF LockedNow
  <2> QED BY <1>1, <1>2, <2>2, <2>3
<1>8. ASSUME NEW c \in Clients, Write(c) PROVE LateInv'
  <2>1. PICK t, u : t = task[c] /\ u = t.user
    OBVIOUS
  <2>2. /\ t \in Writing /\ u \in DOMAIN users /\ u \in 1..MaxUsers
        /\ DOMAIN users' = DOMAIN users
        /\ \A v \in DOMAIN users : v # u => users'[v] = users[v]
        /\ \A v \in 1..MaxUsers : v # u => late'[v] = late[v]
        /\ late'[u] = (IF users'[u].lock # "future" \/ users[u].lock # "future" THEN 0
                       ELSE IF t.judged = "setup" THEN late[u] ELSE late[u] + 1)
    BY <1>8, <2>1, Wrote
  <2>3. Goto(c, Idle)
    BY <1>8 DEF Write
  <2>4. \A v : Judging(v)' = Judging(v) \ {c}
    BY <1>0, <2>3, Judges
  <2>5. \A v : /\ Cardinality(Judging(v)') =< Cardinality(Judging(v)) /\ Cardinality(Judging(v)') \in Nat
    BY <1>j, <2>4, NoMore
  <2>6. ASSUME NEW v \in 1..MaxUsers, v # u
        PROVE  IF LockedNow(v)' THEN late'[v] + Cardinality(Judging(v)') < Cardinality(Clients) ELSE late'[v] = 0
    <3>1. LockedNow(v)' = LockedNow(v) /\ late'[v] = late[v]
      BY <2>2, <2>6 DEF LockedNow
    <3>2. LockedNow(v) => late[v] + Cardinality(Judging(v)) < Cardinality(Clients)
      BY DEF LateInv
    <3>3. ~LockedNow(v) => late[v] = 0
      BY DEF LateInv
    <3>4. LockedNow(v) => late[v] + Cardinality(Judging(v)') < Cardinality(Clients)
      BY <1>j, <1>l, <2>5, <3>2
    <3> QED BY <3>1, <3>3, <3>4
  <2>7. CASE users'[u].lock # "future"
    <3>1. late'[u] = 0 /\ ~LockedNow(u)'
      BY <2>2, <2>7 DEF LockedNow
    <3> QED BY <2>2, <2>6, <3>1 DEF LateInv
  <2>8. CASE users'[u].lock = "future" /\ users[u].lock # "future"
    <3>1. late'[u] = 0 /\ LockedNow(u)'
      BY <2>2, <2>8 DEF LockedNow
    <3>2. Cardinality(Judging(u)') < Cardinality(Clients)
      <4>1. Judging(u)' \subseteq Clients \ {c}
        BY <1>j, <2>4
      <4>2. Cardinality(Clients \ {c}) = Cardinality(Clients) - 1
        BY OneLess
      <4>3. Cardinality(Judging(u)') =< Cardinality(Clients \ {c})
        BY <4>1, NoMore
      <4> QED BY <1>j, <2>5, <4>2, <4>3
    <3>3. 0 + Cardinality(Judging(u)') < Cardinality(Clients)
      BY <2>5, <3>2
    <3> QED BY <2>2, <2>6, <3>1, <3>3 DEF LateInv
  <2>9. CASE users'[u].lock = "future" /\ users[u].lock = "future"
    <3>1. LockedNow(u)' /\ LockedNow(u)
      BY <2>2, <2>9 DEF LockedNow
    <3>2. late[u] + Cardinality(Judging(u)) < Cardinality(Clients)
      BY <2>2, <3>1 DEF LateInv
    <3>3. late'[u] + Cardinality(Judging(u)') < Cardinality(Clients)
      <4>1. CASE t.judged = "setup"
        <5>1. late'[u] = late[u]
          BY <2>2, <2>9, <4>1
        <5> QED BY <1>j, <1>l, <2>2, <2>5, <3>2, <5>1
      <4>2. CASE t.judged # "setup"
        <5>1. late'[u] = late[u] + 1
          BY <2>2, <2>9, <4>2
        <5>2. c \in Judging(u)
          BY <1>8, <2>1, <4>2 DEF Judging, Write, At
        <5>3. Judging(u)' = Judging(u) \ {c} /\ Judging(u) \in SUBSET Clients
          BY <1>j, <2>4
        <5>4. Cardinality(Judging(u)') = Cardinality(Judging(u)) - 1
          BY <5>2, <5>3, OneLess
        <5> QED BY <1>j, <1>l, <2>2, <3>2, <5>1, <5>4
      <4> QED BY <4>1, <4>2
    <3> QED BY <2>2, <2>6, <3>1, <3>3 DEF LateInv
  <2> QED BY <2>7, <2>8, <2>9
<1>9. ASSUME HourPasses PROVE LateInv'
  <2>1. /\ \A u \in 1..MaxUsers : late'[u] = 0
        /\ \A u \in DOMAIN users' : users'[u].lock # "future"
    BY <1>9, HourPassed
  <2> QED BY <2>1 DEF LateInv, LockedNow
<1> QED BY <1>3, <1>4, <1>5, <1>6, <1>7, <1>8, <1>9, NoUserInHand

LEMMA MissesStep ==
  ASSUME TypeInv, Refers, TypeInv', MissesInv, Next, Allowed, Allowed', regime' = regime
  PROVE  MissesInv'
<1>0. Idle \in Tasks /\ Idle.at = "idle"
  BY DEF Tasks, Idle
<1>m. MaxFailed \in Nat \ {0} /\ \A u \in 1..MaxUsers : misses[u] \in Nat
  BY AccountsAssumption DEF TypeInv
<1>d. \A u \in DOMAIN users : u \in 1..MaxUsers /\ users[u] \in User /\ users[u].failed \in Nat
  <2>1. DOMAIN users = 1..Len(users) /\ Len(users) \in Nat /\ Len(users) =< MaxUsers /\ MaxUsers \in Nat
    BY Elements, AccountsAssumption DEF TypeInv
  <2>2. \A u \in DOMAIN users : users[u] \in User
    BY DEF TypeInv
  <2>3. \A u \in DOMAIN users : users[u].failed \in Nat
    BY <2>2 DEF User
  <2> QED BY <2>1, <2>2, <2>3
<1> DEFINE None0 == \A u \in 1..MaxUsers : u \notin DOMAIN users => misses[u] = 0
           Counts == \A u \in DOMAIN users : Counted(u)
           AllFit == \A c \in Clients : Fits(task[c])
<1>s. None0 /\ (regime = "serial" => Counts /\ AllFit)
  BY DEF MissesInv
<1>1. ASSUME UNCHANGED <<users, misses>>
      PROVE  None0' /\ (regime = "serial" => Counts')
  BY <1>1, <1>s DEF Counted
<1>2. ASSUME NEW c \in Clients, NEW t \in Tasks, Goto(c, t), task[c].at # "idle" \/ t.at # "idle",
             t.at = "writing" => Fits(t)'
      PROVE  regime = "serial" => AllFit'
  <2> SUFFICES ASSUME regime = "serial" PROVE \A d \in Clients : Fits(task[d])'
    OBVIOUS
  <2>1. task'[c] = t /\ \A d \in Clients : d # c => task'[d].at = "idle"
    BY <1>2, Single
  <2> QED BY <1>2, <2>1 DEF Fits
<1>3. ASSUME None0', regime = "serial" => Counts', regime = "serial" => AllFit' PROVE MissesInv'
  BY <1>3 DEF MissesInv
<1>4. CASE UNCHANGED <<users, misses, late, task>>
  <2>1. regime = "serial" => AllFit'
    BY <1>4, <1>s DEF Fits
  <2> QED BY <1>1, <1>3, <1>4, <2>1
<1>5. ASSUME NEW c \in Clients, NEW t \in Tasks, Goto(c, t), t.at # "writing", task[c].at # "idle" \/ t.at # "idle",
             UNCHANGED <<users, misses>>
      PROVE  MissesInv'
  BY <1>1, <1>2, <1>3, <1>5
<1>6. ASSUME NEW c \in Clients, Verify(c) \/ Approve(c) PROVE MissesInv'
  <2>1. /\ UNCHANGED users \/ \E new : Adds(new)
        /\ UNCHANGED misses /\ Goto(c, Idle) /\ task[c].at # "idle"
    BY <1>6, Registers
  <2>2. regime = "serial" => AllFit'
    BY <1>0, <1>2, <2>1
  <2>3. ASSUME NEW new, Adds(new) PROVE None0' /\ (regime = "serial" => Counts')
    <3>1. /\ DOMAIN users' = DOMAIN users \cup {Len(users) + 1} /\ Len(users) + 1 \notin DOMAIN users
          /\ users'[Len(users) + 1].failed = 0 /\ \A u \in DOMAIN users : users'[u] = users[u]
      BY <2>3 DEF Adds
    <3>2. Len(users) + 1 \in 1..MaxUsers
      <4>1. DOMAIN users' = 1..Len(users') /\ Len(users') \in Nat /\ Len(users') =< MaxUsers /\ MaxUsers \in Nat
        BY Elements, AccountsAssumption DEF TypeInv
      <4> QED BY <3>1, <4>1
    <3>3. misses[Len(users) + 1] = 0
      BY <1>s, <3>1, <3>2
    <3>4. None0'
      BY <1>s, <2>1, <3>1
    <3>5. ASSUME regime = "serial", NEW u \in DOMAIN users' PROVE Counted(u)'
      <4>1. CASE u \in DOMAIN users
        BY <1>s, <2>1, <3>1, <3>5, <4>1 DEF Counted
      <4>2. CASE u = Len(users) + 1
        <5>1. misses'[u] = 0 /\ users'[u].failed = 0
          BY <2>1, <3>1, <3>3, <4>2
        <5>2. ~(misses'[u] >= MaxFailed) /\ misses'[u] =< users'[u].failed
          BY <1>m, <5>1
        <5> QED BY <5>2 DEF Counted
      <4> QED BY <3>1, <3>5, <4>1, <4>2
    <3> QED BY <3>4, <3>5
  <2> QED BY <1>1, <1>3, <2>1, <2>2, <2>3
<1>7. ASSUME NEW c \in Clients, NEW u \in DOMAIN users, NEW t \in Tasks, Goto(c, t), UNCHANGED <<users, misses>>,
             t.at = "writing", t.user = u, t.loaded = users[u],
             t.judged # "setup" => users[u].lock # "future",
             t.judged = "miss" => /\ t.row.failed = users[u].failed + 1
                                  /\ t.row.failed >= MaxFailed => t.row.lock = "future",
             t.judged # "miss" => t.row.failed = 0
      PROVE  MissesInv'
  <2>1. Fits(t)'
    BY <1>7 DEF Fits
  <2> QED BY <1>1, <1>2, <1>3, <1>7, <2>1
<1>8. ASSUME NEW c \in Clients, LoadForSetup(c) PROVE MissesInv'
  BY <1>7, <1>8, LoadedForSetup
<1>9. ASSUME NEW c \in Clients, Guess(c) PROVE MissesInv'
  BY <1>7, <1>9, Guessed
<1>10. ASSUME NEW c \in Clients, Write(c) PROVE MissesInv'
  <2>1. PICK t, u : t = task[c] /\ u = t.user
    OBVIOUS
  <2>2. /\ t \in Writing /\ u \in DOMAIN users /\ u \in 1..MaxUsers
        /\ DOMAIN users' = DOMAIN users
        /\ \A v \in DOMAIN users : v # u => users'[v] = users[v]
        /\ users'[u].failed = (IF t.row.failed # t.loaded.failed THEN t.row.failed ELSE users[u].failed)
        /\ users'[u].lock = (IF t.row.lock # t.loaded.lock THEN t.row.lock ELSE users[u].lock)
        /\ misses'[u] = (IF t.judged = "miss" THEN misses[u] + 1 ELSE 0)
        /\ \A v \in 1..MaxUsers : v # u => misses'[v] = misses[v]
    BY <1>10, <2>1, Wrote
  <2>3. Goto(c, Idle) /\ task[c].at = "writing"
    BY <1>10 DEF Write, At
  <2>4. regime = "serial" => AllFit'
    BY <1>0, <1>2, <2>3
  <2>5. None0'
    BY <1>s, <2>2
  <2>6. ASSUME regime = "serial" PROVE Counted(u)'
    <3>1. Fits(t) /\ Counted(u) /\ t.at = "writing"
      BY <1>s, <2>1, <2>2, <2>3, <2>6
    <3>2. users'[u].failed = t.row.failed
      BY <2>1, <2>2, <3>1 DEF Fits
    <3>3. t.row.failed \in Nat
      BY <2>2 DEF Writing, User
    <3>4. CASE t.judged = "miss"
      <4>1. misses'[u] = misses[u] + 1 /\ misses[u] =< users[u].failed /\ misses[u] \in Nat
            /\ users[u].failed = t.loaded.failed /\ t.row.failed = t.loaded.failed + 1 /\ users[u].failed \in Nat
        BY <1>d, <1>m, <2>1, <2>2, <3>1, <3>4 DEF Counted, Fits
      <4>2. misses'[u] =< users'[u].failed /\ (misses'[u] >= MaxFailed => t.row.failed >= MaxFailed)
        BY <1>m, <3>2, <3>3, <4>1
      <4>3. t.row.failed >= MaxFailed => t.row.lock = "future"
        BY <3>1, <3>4 DEF Fits
      <4>4. t.row.lock = "future" => users'[u].lock = "future"
        BY <2>2, <3>1, <3>4 DEF Fits
      <4> QED BY <4>2, <4>3, <4>4 DEF Counted
    <3>5. CASE t.judged # "miss"
      <4>1. misses'[u] = 0
        BY <2>2, <3>5
      <4>2. ~(misses'[u] >= MaxFailed) /\ misses'[u] =< users'[u].failed
        BY <1>m, <3>2, <3>3, <4>1
      <4> QED BY <4>2 DEF Counted
    <3> QED BY <3>4, <3>5
  <2>7. regime = "serial" => Counts'
    <3>1. ASSUME regime = "serial", NEW v \in DOMAIN users, v # u PROVE Counted(v)'
      BY <1>d, <1>s, <2>2, <3>1 DEF Counted
    <3> QED BY <2>2, <2>6, <3>1
  <2> QED BY <1>3, <2>4, <2>5, <2>7
<1>11. ASSUME HourPasses PROVE MissesInv'
  <2>1. /\ DOMAIN users' = DOMAIN users
        /\ \A u \in DOMAIN users : /\ users'[u].failed = users[u].failed
                                   /\ users'[u].lock = (IF users[u].lock = "future" THEN "past" ELSE users[u].lock)
        /\ \A u \in 1..MaxUsers :
             misses'[u] = (IF u \in DOMAIN users /\ users[u].lock = "future" THEN 0 ELSE misses[u])
        /\ UNCHANGED task
    BY <1>11, HourPassed
  <2>2. None0'
    BY <1>s, <2>1
  <2>3. ASSUME regime = "serial", NEW u \in DOMAIN users PROVE Counted(u)'
    <3>1. CASE users[u].lock = "future"
      <4>1. misses'[u] = 0 /\ users'[u].failed = users[u].failed
        BY <1>d, <2>1, <3>1
      <4>2. ~(misses'[u] >= MaxFailed) /\ misses'[u] =< users'[u].failed
        BY <1>d, <1>m, <4>1
      <4> QED BY <4>2 DEF Counted
    <3>2. CASE users[u].lock # "future"
      BY <1>d, <1>s, <2>1, <2>3, <3>2 DEF Counted
    <3> QED BY <3>1, <3>2
  <2>4. regime = "serial" => Counts'
    BY <2>1, <2>3
  <2>5. ASSUME NEW c \in Clients, Fits(task[c]) PROVE Fits(task[c])'
    <3>1. task'[c] = task[c] /\ (task[c].at = "writing" => task[c].user \in DOMAIN users)
      BY <2>1 DEF Refers, RefersTo
    <3> QED BY <2>1, <2>5, <3>1 DEF Fits
  <2>6. regime = "serial" => AllFit'
    BY <1>s, <2>5
  <2> QED BY <1>3, <2>2, <2>4, <2>6
<1> HIDE DEF None0, Counts, AllFit
<1> QED BY <1>4, <1>5, <1>6, <1>8, <1>9, <1>10, <1>11, NoUserInHand

(* While an account is locked fewer guesses are judged than requests       *)
(* overlap; and with one request at a time, MaxFailed misses lock it.      *)
THEOREM GuessesAreBounded == MCSpec => []GuessesBounded
<1>1. MCInit => LateInv /\ MissesInv
  <2> SUFFICES ASSUME MCInit PROVE LateInv /\ MissesInv
    OBVIOUS
  <2>1. TypeInv /\ Refers
    BY TypeInit DEF MCInit
  <2>2. MaxFailed \in Nat \ {0}
    BY AccountsAssumption
  <2>3. \A u \in DOMAIN users : u \in 1..MaxUsers /\ users[u].failed = 0 /\ users[u].lock = "null"
    <3>1. \A u \in DOMAIN users : u \in 1..MaxUsers
      BY <2>1, Elements, AccountsAssumption DEF TypeInv
    <3>2. ASSUME NEW contact \in Contacts, NEW p \in Pins, NEW u \in DOMAIN users,
                 users = <<[NewUser("issued", contact, 1) EXCEPT !.pin = p]>>
          PROVE  users[u].failed = 0 /\ users[u].lock = "null"
      <4>1. \A e : DOMAIN <<e>> = {1} /\ <<e>>[1] = e
        OBVIOUS
      <4>2. users[u] = [NewUser("issued", contact, 1) EXCEPT !.pin = p]
        BY <3>2, <4>1
      <4> QED BY <4>2 DEF NewUser
    <3>3. ASSUME NEW u \in DOMAIN users PROVE users # <<>>
      OBVIOUS
    <3> QED BY <3>1, <3>2, <3>3 DEF MCInit, Init
  <2>4. \A u \in 1..MaxUsers : misses[u] = 0 /\ late[u] = 0
    BY DEF MCInit, Init
  <2>5. \A c \in Clients : Fits(task[c])
    BY DEF MCInit, Init, Idle, Fits
  <2>6. LateInv
    BY <2>3, <2>4 DEF LateInv, LockedNow
  <2>7. ASSUME NEW u \in DOMAIN users PROVE Counted(u)
    <3>1. misses[u] = 0 /\ users[u].failed = 0
      BY <2>3, <2>4
    <3>2. ~(misses[u] >= MaxFailed) /\ misses[u] =< users[u].failed
      BY <2>2, <3>1
    <3> QED BY <3>2 DEF Counted
  <2> QED BY <2>4, <2>5, <2>6, <2>7 DEF MissesInv
<1>2. TypeInv /\ Refers /\ TypeInv' /\ UsesInv /\ UsesInv' /\ LateInv /\ MissesInv /\ [MCNext]_<<vars, regime>>
        => LateInv' /\ MissesInv'
  <2> SUFFICES ASSUME TypeInv, Refers, TypeInv', UsesInv, UsesInv', LateInv, MissesInv, [MCNext]_<<vars, regime>>
               PROVE  LateInv' /\ MissesInv'
    OBVIOUS
  <2>1. CASE MCNext
    BY <2>1, LateStep, MissesStep DEF MCNext, UsesInv
  <2>2. CASE UNCHANGED <<vars, regime>>
    BY <2>2 DEF vars, LateInv, MissesInv, Judging, LockedNow, Counted, Fits
  <2> QED BY <2>1, <2>2
<1>3. TypeInv /\ LateInv /\ MissesInv => GuessesBounded
  <2> SUFFICES ASSUME TypeInv, LateInv, MissesInv PROVE GuessesBounded
    OBVIOUS
  <2>1. \A u \in DOMAIN users : u \in 1..MaxUsers
    BY Elements, AccountsAssumption DEF TypeInv
  <2>2. Cardinality(Clients) \in Nat \ {0}
    <3>1. IsFiniteSet(Clients) /\ Cardinality(Clients) \in Nat /\ Clients # {}
      BY AccountsAssumption, FS_CardinalityType
    <3> QED BY <3>1, FS_EmptySet
  <2>3. ASSUME NEW u \in DOMAIN users PROVE late[u] < Cardinality(Clients)
    <3>1. late[u] \in Nat /\ Cardinality(Judging(u)) \in Nat
      BY <2>1, NoMore DEF TypeInv, Judging
    <3> QED BY <2>1, <2>2, <3>1 DEF LateInv
  <2> QED BY <2>3 DEF GuessesBounded, LockHolds, MissesLock, MissesInv, Counted
<1> QED BY <1>1, <1>2, <1>3, UsesInvariant, TypeCorrect, PTL DEF MCSpec

=============================================================================
