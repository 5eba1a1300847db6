---------------------------- MODULE AccessProofs ----------------------------
(***************************************************************************)
(* Proofs about who is let in, for any number of requests, people, keys,   *)
(* links and shares: the administrator's login, the administrator's tokens,*)
(* the sessions of app users, publishable keys and shares.  Each scene of  *)
(* MCAccess has an inductive invariant of its own; what holds with one     *)
(* request at a time is the part under regime = "serial".                  *)
(***************************************************************************)
EXTENDS MCAccess, SequenceTheorems, FiniteSetTheorems, TLAPS

(* With one request at a time, all the others rest.                        *)
OneRequest == regime = "serial" => OneAtATime

-----------------------------------------------------------------------------
(* Sequences                                                               *)

(* What appending does, said with domains.                                 *)
LEMMA Appended ==
  ASSUME NEW Elems, NEW seq \in Seq(Elems), NEW e \in Elems
  PROVE  /\ Append(seq, e) \in Seq(Elems) /\ Len(Append(seq, e)) = Len(seq) + 1
         /\ DOMAIN Append(seq, e) = DOMAIN seq \cup {Len(seq) + 1} /\ Len(seq) + 1 \notin DOMAIN seq
         /\ \A i \in DOMAIN seq : Append(seq, e)[i] = seq[i]
         /\ Append(seq, e)[Len(seq) + 1] = e
BY AppendProperties

(* What replacing an element does.                                         *)
LEMMA Replaced ==
  ASSUME NEW Elems, NEW seq \in Seq(Elems), NEW i \in DOMAIN seq, NEW e \in Elems
  PROVE  /\ [seq EXCEPT ![i] = e] \in Seq(Elems) /\ Len([seq EXCEPT ![i] = e]) = Len(seq)
         /\ DOMAIN [seq EXCEPT ![i] = e] = DOMAIN seq
         /\ \A j \in DOMAIN seq : [seq EXCEPT ![i] = e][j] = IF j = i THEN e ELSE seq[j]
BY ExceptSeq

(* The elements of a sequence and their places.                            *)
LEMMA Elements ==
  ASSUME NEW Elems, NEW seq \in Seq(Elems)
  PROVE  DOMAIN seq \subseteq Nat \ {0} /\ \A i \in DOMAIN seq : seq[i] \in Elems
OBVIOUS

(* Sequences of one length have one domain.                                *)
LEMMA SameDomain ==
  ASSUME NEW X, NEW Y, NEW s \in Seq(X), NEW t \in Seq(Y), Len(s) = Len(t)
  PROVE  DOMAIN s = DOMAIN t
OBVIOUS

-----------------------------------------------------------------------------
(* The administrator's login                                               *)

(* A flow that was asked for a password is the one Telegram waits for, if it waits. *)
PasswordOwed == flow # None /\ flow.password => waiting \in {flow.who, None}

(* The login: what rests in the session files is the administrator's       *)
(* unless an operation was torn, and a dead process holds no lock.         *)
LoginInv ==
  /\ L!TypeOK
  /\ L!OneAdmin /\ L!ForeignNeverRests
  /\ op = "reconnect" => disk = None
  /\ ~running => op = "free"
  /\ PasswordOwed

(* The login's invariant holds at the start.                               *)
LEMMA LoginInit == L!Init => LoginInv
BY AccessAssumption DEF L!Init, LoginInv, PasswordOwed, L!TypeOK, L!OneAdmin, L!ForeignNeverRests,
   L!Effective, L!UserbotLoginAssumption

(* A step keeps the invariant, and a login is that of the flow's account.  *)
LEMMA LoginStep == LoginInv /\ [L!Next]_loginVars => LoginInv' /\ L!FlowsOwn
<1> SUFFICES ASSUME LoginInv, [L!Next]_loginVars PROVE LoginInv' /\ L!FlowsOwn
  OBVIOUS
<1> USE AccessAssumption DEF L!UserbotLoginAssumption, LoginInv, PasswordOwed, L!TypeOK, L!OneAdmin,
        L!ForeignNeverRests, L!Effective, L!counts, L!FlowsOwn
<1>1. CASE L!Start
  BY <1>1 DEF L!Start
<1>2. CASE L!Crash
  BY <1>2 DEF L!Crash
<1>3. CASE L!Attach
  BY <1>3 DEF L!Attach
<1>4. CASE L!EndSession
  BY <1>4 DEF L!EndSession, L!Authorized
<1>5. ASSUME NEW who \in People, L!StartLogin(who) PROVE LoginInv' /\ L!FlowsOwn
  BY <1>5 DEF L!StartLogin
<1>6. CASE L!SubmitCode
  BY <1>6 DEF L!SubmitCode
<1>7. CASE L!SubmitPassword
  BY <1>7 DEF L!SubmitPassword, L!NeedsPassword
<1>8. CASE L!CancelFlow
  BY <1>8 DEF L!CancelFlow
<1>9. CASE L!Finalize
  BY <1>9 DEF L!Finalize, L!Claimed
<1>10. CASE L!LogOut
  BY <1>10 DEF L!LogOut
<1>11. CASE L!Archive
  BY <1>11 DEF L!Archive, L!Archived
<1>12. CASE L!Reconnect
  BY <1>12 DEF L!Reconnect, L!Reconnected
<1>13. CASE L!Fail
  BY <1>13 DEF L!Fail
<1>14. CASE UNCHANGED loginVars
  BY <1>14 DEF loginVars
<1> QED BY <1>1, <1>2, <1>3, <1>4, <1>5, <1>6, <1>7, <1>8, <1>9, <1>10, <1>11, <1>12, <1>13, <1>14
    DEF L!Next, L!Finish

(* The login's invariant holds in every scene, for the others leave its    *)
(* state alone.                                                            *)
LEMMA LoginAlways == Spec => []LoginInv
<1>1. Init => LoginInv
  <2>1. NoLogin => L!Init
    BY DEF NoLogin, L!Init
  <2> QED BY <2>1, LoginInit DEF Init
<1>2. LoginInv /\ [Next]_vars => LoginInv'
  <2>1. [Next]_vars => [L!Next]_loginVars
    BY DEF Next, vars
  <2> QED BY <2>1, LoginStep
<1> QED BY <1>1, <1>2, PTL DEF Spec

-----------------------------------------------------------------------------
(* The administrator's tokens                                              *)

(* What a request about tokens may be at.                                  *)
TokenTask ==
  {T!Idle} \cup [at : {"epoch"}, link : Nat] \cup [at : {"spend", "issue"}, link : Nat, epoch : Nat]
    \cup [at : {"bump"}, epoch : Nat]

(* Tokens: types, and links that are there.                                *)
TokensTypes ==
  /\ up \in {"down", "owner", "up"} /\ owner \in BOOLEAN /\ epoch \in Nat
  /\ links \in Seq(Nat) /\ cookies \in Seq(Nat) /\ opened \in Seq(Nat) /\ Len(opened) = Len(links)
  /\ spent \subseteq DOMAIN links /\ ended \subseteq DOMAIN cookies /\ endedLinks \subseteq DOMAIN links
  /\ task \in [Clients -> TokenTask]
  /\ \A c \in Clients :
       /\ T!At(c, "epoch") \/ T!At(c, "spend") => task[c].link \in DOMAIN links
       /\ T!At(c, "issue") => task[c].link \in DOMAIN links \cup {0}

(* A request is about to open a session with the link l.                   *)
Opening(c, l) == T!At(c, "issue") /\ task[c].link = l

(* Whoever is about to open a session with a link has spent it, alone, and *)
(* it opened none before.                                                  *)
SpentByOne ==
  \A l \in DOMAIN links :
    /\ opened[l] =< 1
    /\ l \notin spent => opened[l] = 0
    /\ \A c \in Clients : Opening(c, l) => l \in spent /\ opened[l] = 0
    /\ \A c, d \in Clients : Opening(c, l) /\ Opening(d, l) => c = d

(* With one request at a time the epoch a request read is the epoch there  *)
(* is, so that what was ended is older and what was not is of now.         *)
EpochsInOrder ==
  /\ up # "up" => \A c \in Clients : T!At(c, "idle")
  /\ up # "down" => owner
  /\ up = "owner" \/ ~owner => epoch = T!NoRow
  /\ crashes = 0 => (up = "down" => ~owner) /\ (up = "up" => epoch # T!NoRow)
  /\ crashes \in Nat
  /\ \A c \in Clients :
       /\ T!At(c, "spend") \/ T!At(c, "issue") => task[c].epoch = T!Current
       /\ T!At(c, "spend") => links[task[c].link] = T!Current
       /\ T!At(c, "bump") => task[c].epoch = epoch
  /\ \A k \in DOMAIN cookies : IF k \in ended THEN cookies[k] < T!Current ELSE cookies[k] = T!Current
  /\ \A l \in DOMAIN links : links[l] =< T!Current
  /\ \A l \in endedLinks : links[l] < T!Current
  /\ late = {}

(* What holds of tokens at every step.                                     *)
TokensInv == TokensTypes /\ SpentByOne /\ (regime = "serial" => EpochsInOrder)

(* The tokens' invariant holds at the start.                               *)
LEMMA TokensInit == T!Init => TokensInv
<1> SUFFICES ASSUME T!Init PROVE TokensInv
  OBVIOUS
<1>1. TokensTypes
  <2>1. task = [c \in Clients |-> T!Idle]
    BY DEF T!Init
  <2>2. task \in [Clients -> TokenTask] /\ \A c \in Clients : task[c].at = "idle"
    BY <2>1 DEF TokenTask, T!Idle
  <2> QED BY <2>2, EmptySeq DEF T!Init, TokensTypes, T!At, T!NoRow
<1>2. SpentByOne
  BY DEF T!Init, SpentByOne
<1>3. EpochsInOrder
  BY DEF T!Init, EpochsInOrder, T!At, T!Idle
<1> QED BY <1>1, <1>2, <1>3 DEF TokensInv

(* It survives every step. Step <1>3 does all the steps of a request that  *)
(* change its place only.                                                  *)
LEMMA TokensStep ==
  TokensInv /\ OneRequest /\ OneRequest' /\ regime' = regime /\ [T!Next]_<<tokenVars, task>> => TokensInv'
<1> SUFFICES ASSUME TokensInv, OneRequest, OneRequest', regime' = regime, [T!Next]_<<tokenVars, task>>
             PROVE  TokensInv'
  OBVIOUS
<1>0. /\ TokensTypes /\ SpentByOne
      /\ DOMAIN links \subseteq Nat \ {0} /\ DOMAIN opened = DOMAIN links
      /\ \A l \in DOMAIN links : links[l] \in Nat /\ opened[l] \in Nat
      /\ \A k \in DOMAIN cookies : cookies[k] \in Nat
      /\ T!Current \in Nat
  BY Elements, SameDomain DEF TokensInv, TokensTypes, T!Current
<1>1. ASSUME T!InsertOwner \/ T!InsertEpoch \/ T!Crash
      PROVE  TokensInv'
  <2>1. UNCHANGED <<links, spent, cookies, ended, endedLinks, opened, late>>
    BY <1>1 DEF T!InsertOwner, T!InsertEpoch, T!Crash, T!history
  <2>2. task' = task \/ task' = [c \in Clients |-> T!Idle]
    BY <1>1 DEF T!InsertOwner, T!InsertEpoch, T!Crash
  <2>3. up' \in {"down", "owner", "up"} /\ owner' \in BOOLEAN /\ epoch' \in Nat
    <3>1. CASE T!InsertOwner
      BY <1>0, <3>1 DEF T!InsertOwner, TokensTypes
    <3>2. CASE T!InsertEpoch
      BY <1>0, <3>2 DEF T!InsertEpoch, TokensTypes
    <3>3. CASE T!Crash
      BY <1>0, <3>3 DEF T!Crash, TokensTypes
    <3> QED BY <1>1, <3>1, <3>2, <3>3
  <2>4. TokensTypes'
    BY <1>0, <2>1, <2>2, <2>3 DEF TokensTypes, TokenTask, T!At, T!Idle
  <2>5. SpentByOne'
    BY <1>0, <2>1, <2>2 DEF SpentByOne, Opening, T!At, T!Idle
  <2>6. ASSUME EpochsInOrder PROVE EpochsInOrder'
    <3>1. CASE T!InsertOwner
      BY <2>1, <2>6, <3>1 DEF T!InsertOwner, EpochsInOrder, T!At, T!Current
    <3>2. CASE T!InsertEpoch
      BY <2>1, <2>6, <3>2 DEF T!InsertEpoch, EpochsInOrder, T!At, T!Current, T!NoRow
    <3>3. CASE T!Crash
      BY <2>1, <2>6, <3>3 DEF T!Crash, EpochsInOrder, T!At, T!Current, T!Idle
    <3> QED BY <1>1, <3>1, <3>2, <3>3
  <2> QED BY <2>4, <2>5, <2>6 DEF TokensInv
<1>2. CASE T!Admin
  <2> DEFINE l == Len(links) + 1
  <2>1. /\ links' \in Seq(Nat) /\ opened' \in Seq(Nat) /\ Len(links') = l /\ Len(opened') = l
        /\ DOMAIN links' = DOMAIN links \cup {l} /\ l \notin DOMAIN links
        /\ \A x \in DOMAIN links : links'[x] = links[x] /\ opened'[x] = opened[x]
        /\ links'[l] = T!Current /\ opened'[l] = 0
    BY SMTT(30), <1>0, <1>2, Appended DEF T!Admin, TokensTypes
  <2>2. UNCHANGED <<up, owner, epoch, spent, cookies, task, ended, endedLinks, late, revokes, crashes>>
    BY <1>2 DEF T!Admin
  <2>3. l # 0
    BY <1>0 DEF TokensTypes
  <2> HIDE DEF l
  <2>4. TokensTypes'
    BY <1>0, <2>1, <2>2 DEF TokensTypes, T!At
  <2>5. SpentByOne'
    <3>1. \A c \in Clients : ~Opening(c, l)
      BY <1>0, <2>1, <2>3 DEF TokensTypes, Opening
    <3>2. \A c, x : Opening(c, x)' = Opening(c, x)
      BY <2>2 DEF Opening, T!At
    <3>3. l \notin spent
      BY <1>0, <2>1 DEF TokensTypes
    <3> QED BY <1>0, <2>1, <2>2, <3>1, <3>2, <3>3 DEF SpentByOne
  <2>6. ASSUME EpochsInOrder PROVE EpochsInOrder'
    <3>1. T!Current' = T!Current
      BY <2>2 DEF T!Current
    <3>2. \A x \in DOMAIN links' : links'[x] =< T!Current
      BY <1>0, <2>1, <2>6 DEF EpochsInOrder
    <3>3. \A x \in endedLinks : links'[x] < T!Current
      BY <1>0, <2>1, <2>6 DEF EpochsInOrder, TokensTypes
    <3>4. \A c \in Clients : T!At(c, "spend") => links'[task[c].link] = T!Current
      BY <1>0, <2>1, <2>6 DEF EpochsInOrder, TokensTypes
    <3> QED BY <2>2, <2>6, <3>1, <3>2, <3>3, <3>4 DEF EpochsInOrder, T!At
  <2> QED BY <2>4, <2>5, <2>6 DEF TokensInv
<1>3. ASSUME NEW c \in Clients, NEW t \in TokenTask, T!Goto(c, t),
             UNCHANGED <<up, owner, epoch, links, spent, cookies, T!history, crashes>>,
             t.at \in {"epoch", "spend"} => t.link \in DOMAIN links,
             t.at = "issue" => t.link = 0,
             regime = "serial" /\ EpochsInOrder =>
               /\ t.at # "idle" => up = "up"
               /\ t.at \in {"spend", "issue"} => t.epoch = T!Current
               /\ t.at = "spend" => links[t.link] = T!Current
               /\ t.at = "bump" => t.epoch = epoch
      PROVE  TokensInv'
  <2>1. /\ task' \in [Clients -> TokenTask] /\ task'[c] = t
        /\ \A d \in Clients \ {c} : task'[d] = task[d]
    BY <1>0, <1>3 DEF T!Goto, TokensTypes
  <2>2. UNCHANGED <<up, owner, epoch, links, spent, cookies, ended, endedLinks, opened, late, crashes>>
    BY <1>3 DEF T!history
  <2>3. TokensTypes'
    <3>1. \A d \in Clients :
            /\ (T!At(d, "epoch") \/ T!At(d, "spend"))' => task'[d].link \in DOMAIN links
            /\ T!At(d, "issue")' => task'[d].link \in DOMAIN links \cup {0}
      BY <1>0, <1>3, <2>1 DEF TokensTypes, T!At
    <3> QED BY <1>0, <2>1, <2>2, <3>1 DEF TokensTypes
  <2>4. SpentByOne'
    <3>1. \A l \in DOMAIN links : ~Opening(c, l)'
      BY <1>0, <1>3, <2>1 DEF Opening, T!At
    <3>2. \A d \in Clients \ {c} : \A l : Opening(d, l)' <=> Opening(d, l)
      BY <2>1 DEF Opening, T!At
    <3> QED BY <1>0, <2>2, <3>1, <3>2 DEF SpentByOne
  <2>5. ASSUME regime = "serial", EpochsInOrder PROVE EpochsInOrder'
    <3>1. T!Current' = T!Current
      BY <2>2 DEF T!Current
    <3>2. up # "up" => \A d \in Clients : T!At(d, "idle")'
      BY <1>3, <2>1, <2>5 DEF EpochsInOrder, T!At
    <3>3. \A d \in Clients :
           /\ (T!At(d, "spend") \/ T!At(d, "issue"))' => task'[d].epoch = T!Current
           /\ T!At(d, "spend")' => links[task'[d].link] = T!Current
           /\ T!At(d, "bump")' => task'[d].epoch = epoch
      BY <1>3, <2>1, <2>5 DEF EpochsInOrder, T!At
    <3> QED BY <2>2, <2>5, <3>1, <3>2, <3>3 DEF EpochsInOrder
  <2> QED BY <1>3, <2>3, <2>4, <2>5 DEF TokensInv
<1>4. T!Idle \in TokenTask /\ T!Idle.at = "idle"
  BY DEF TokenTask, T!Idle
<1>5. ASSUME NEW c \in Clients, T!LoginReads(c) PROVE TokensInv'
  <2>1. [at |-> "issue", epoch |-> T!Current, link |-> 0] \in TokenTask
    BY <1>0 DEF TokenTask
  <2> QED BY <1>3, <1>5, <2>1 DEF T!LoginReads
<1>6. ASSUME NEW c \in Clients, NEW l \in DOMAIN links, T!FindUnused(c, l) PROVE TokensInv'
  <2>1. [at |-> "epoch", link |-> l] \in TokenTask
    BY <1>0 DEF TokenTask
  <2> QED BY <1>3, <1>6, <2>1 DEF T!FindUnused
<1>7. ASSUME NEW c \in Clients, T!MatchEpoch(c) PROVE TokensInv'
  <2> DEFINE l == task[c].link
             t == [at |-> "spend", link |-> l, epoch |-> T!Current]
  <2>1. l \in DOMAIN links
    BY <1>0, <1>7 DEF T!MatchEpoch, TokensTypes
  <2>2. t \in TokenTask
    BY <1>0, <2>1 DEF TokenTask
  <2>3. CASE T!SameEpoch(l)
    <3>1. EpochsInOrder => up = "up"
      BY <1>7 DEF EpochsInOrder, T!MatchEpoch, T!At
    <3> QED BY <1>3, <3>1, <1>7, <2>1, <2>2, <2>3 DEF T!MatchEpoch, T!SameEpoch
  <2>4. CASE ~T!SameEpoch(l)
    BY <1>3, <1>4, <1>7, <2>4 DEF T!MatchEpoch
  <2> QED BY <2>3, <2>4
<1>8. ASSUME NEW c \in Clients, T!ReadEpoch(c) PROVE TokensInv'
  <2>1. [at |-> "bump", epoch |-> epoch] \in TokenTask
    BY <1>0 DEF TokenTask, TokensTypes
  <2> QED BY <1>3, <1>8, <2>1 DEF T!ReadEpoch
<1>9. ASSUME NEW c \in Clients, T!Spend(c) PROVE TokensInv'
  <2> DEFINE l == task[c].link
             t == [task[c] EXCEPT !.at = "issue"]
  <2>1. /\ l \in DOMAIN links /\ t \in TokenTask
        /\ t.at = "issue" /\ t.link = l /\ t.epoch = task[c].epoch
    <3>1. task[c] \in [at : {"spend", "issue"}, link : Nat, epoch : Nat]
      BY <1>0, <1>9 DEF T!Spend, T!At, T!Idle, TokensTypes, TokenTask
    <3>2. t \in [at : {"spend", "issue"}, link : Nat, epoch : Nat] /\ t.link = l /\ t.epoch = task[c].epoch
      BY <3>1
    <3>3. t.at = "issue"
      BY <3>1
    <3> QED BY <1>0, <1>9, <3>2, <3>3 DEF T!Spend, T!At, TokensTypes, TokenTask
  <2>2. CASE ~T!Insertable(l)
    BY <1>3, <1>4, <1>9, <2>2 DEF T!Spend, T!history
  <2>3. CASE T!Insertable(l)
    <3>1. /\ spent' = spent \cup {l} /\ l \notin spent
          /\ late' = IF l \in endedLinks THEN late \cup {l} ELSE late
          /\ UNCHANGED <<up, owner, epoch, links, cookies, ended, endedLinks, opened, crashes>>
      BY <1>9, <2>3 DEF T!Spend, T!Insertable
    <3>2. task' \in [Clients -> TokenTask] /\ task'[c] = t /\ \A d \in Clients \ {c} : task'[d] = task[d]
      BY <1>0, <1>9, <2>1, <2>3 DEF T!Spend, T!Goto, TokensTypes
    <3> HIDE DEF t
    <3>3. TokensTypes'
      BY <1>0, <2>1, <3>1, <3>2 DEF TokensTypes, T!At
    <3>4. SpentByOne'
      <4>1. \A d \in Clients : ~Opening(d, l)
        BY <1>0, <2>1, <3>1 DEF SpentByOne
      <4>2. \A d \in Clients : \A x : Opening(d, x)' <=> Opening(d, x) \/ (d = c /\ x = l)
        BY <1>9, <2>1, <3>2 DEF Opening, T!Spend, T!At
      <4>3. opened[l] = 0
        BY <1>0, <2>1, <3>1 DEF SpentByOne
      <4> HIDE DEF l
      <4> QED BY <1>0, <3>1, <4>1, <4>2, <4>3 DEF SpentByOne
    <3>5. ASSUME regime = "serial", EpochsInOrder PROVE EpochsInOrder'
      <4>1. links[l] = T!Current /\ task[c].epoch = T!Current /\ up = "up"
        BY <1>9, <3>5 DEF T!Spend, EpochsInOrder, T!At
      <4>2. l \notin endedLinks
        BY <1>0, <2>1, <3>5, <4>1 DEF EpochsInOrder
      <4>3. T!Current' = T!Current
        BY <3>1 DEF T!Current
      <4> HIDE DEF l
      <4> QED BY <2>1, <3>1, <3>2, <3>5, <4>1, <4>2, <4>3 DEF EpochsInOrder, T!At
    <3> QED BY <1>9, <3>3, <3>4, <3>5, regime' = regime DEF TokensInv
  <2> QED BY <2>2, <2>3
<1>10. ASSUME NEW c \in Clients, T!Issue(c) PROVE TokensInv'
  <2> DEFINE l == task[c].link
             k == Len(cookies) + 1
  <2>1. l \in DOMAIN links \cup {0} /\ task[c].epoch \in Nat
    BY SMTT(30), <1>0, <1>10 DEF T!Issue, T!At, T!Idle, TokensTypes, TokenTask
  <2>2. /\ cookies' \in Seq(Nat) /\ DOMAIN cookies' = DOMAIN cookies \cup {k} /\ k \notin DOMAIN cookies
        /\ \A x \in DOMAIN cookies : cookies'[x] = cookies[x]
        /\ cookies'[k] = task[c].epoch
    BY <1>0, <1>10, <2>1, Appended DEF T!Issue, TokensTypes
  <2>3. /\ opened' \in Seq(Nat) /\ Len(opened') = Len(links)
        /\ \A x \in DOMAIN links : opened'[x] = IF x = l THEN opened[x] + 1 ELSE opened[x]
    <3>1. CASE l = 0
      BY <1>0, <1>10, <3>1 DEF T!Issue, TokensTypes
    <3>2. CASE l # 0
      <4>1. l \in DOMAIN opened /\ opened[l] + 1 \in Nat
        BY <1>0, <2>1, <3>2
      <4> QED BY <1>0, <1>10, <3>2, <4>1, Replaced DEF T!Issue, TokensTypes
    <3> QED BY <3>1, <3>2
  <2>4. UNCHANGED <<up, owner, epoch, links, spent, ended, endedLinks, late, crashes>>
    BY <1>10 DEF T!Issue
  <2>5. /\ task' \in [Clients -> TokenTask] /\ task'[c].at = "idle"
        /\ \A d \in Clients \ {c} : task'[d] = task[d]
    BY <1>0, <1>4, <1>10 DEF T!Issue, T!Goto, TokensTypes
  <2> HIDE DEF k
  <2>6. TokensTypes'
    BY <1>0, <2>2, <2>3, <2>4, <2>5 DEF TokensTypes, T!At
  <2>7. SpentByOne'
    <3>1. \A d \in Clients : \A x : Opening(d, x)' => d # c /\ Opening(d, x)
      BY <2>5 DEF Opening, T!At
    <3>2. Opening(c, l)
      BY <1>10 DEF T!Issue, Opening
    <3>3. ASSUME NEW x \in DOMAIN links, x = l
          PROVE  x \in spent /\ opened[x] = 0 /\ \A d \in Clients : ~Opening(d, x)'
      <4>1. x \in spent /\ opened[x] = 0 /\ \A d \in Clients : Opening(d, x) => d = c
        BY <1>0, <3>2, <3>3 DEF SpentByOne
      <4> QED BY <3>1, <4>1
    <3> HIDE DEF l
    <3>4. ASSUME NEW x \in DOMAIN links, x = l
          PROVE  opened'[x] = 1 /\ x \in spent /\ \A d \in Clients : ~Opening(d, x)'
      BY <1>0, <2>3, <3>3, <3>4
    <3>5. ASSUME NEW x \in DOMAIN links, x # l
          PROVE  opened'[x] = opened[x]
      BY <2>3, <3>5
    <3> QED BY <1>0, <2>4, <3>1, <3>4, <3>5 DEF SpentByOne
  <2>8. ASSUME regime = "serial", EpochsInOrder PROVE EpochsInOrder'
    <3>1. task[c].epoch = T!Current /\ up = "up"
      BY <1>10, <2>8 DEF T!Issue, EpochsInOrder, T!At
    <3>2. T!Current' = T!Current
      BY <2>4 DEF T!Current
    <3>3. \A x \in DOMAIN cookies' :
            IF x \in ended THEN cookies'[x] < T!Current ELSE cookies'[x] = T!Current
      BY <1>0, <2>2, <2>8, <3>1 DEF EpochsInOrder, TokensTypes
    <3> QED BY <2>4, <2>5, <2>8, <3>1, <3>2, <3>3 DEF EpochsInOrder, T!At
  <2> QED BY <2>6, <2>7, <2>8, regime' = regime DEF TokensInv
<1>11. ASSUME NEW c \in Clients, T!Bump(c) PROVE TokensInv'
  <2>1. T!At(c, "bump") /\ task[c].epoch \in Nat
    BY SMTT(30), <1>0, <1>11 DEF T!Bump, T!At, T!Idle, TokensTypes, TokenTask
  <2>2. UNCHANGED <<up, owner, links, cookies, spent, opened, late, crashes>>
    BY <1>11 DEF T!Bump
  <2>3. /\ task' \in [Clients -> TokenTask] /\ task'[c].at = "idle"
        /\ \A d \in Clients \ {c} : task'[d] = task[d]
    BY <1>0, <1>4, <1>11 DEF T!Bump, T!Goto, TokensTypes
  <2>4. \/ UNCHANGED <<epoch, ended, endedLinks>>
        \/ /\ epoch' = T!Bumped(task[c].epoch) /\ ended' = DOMAIN cookies /\ endedLinks' = DOMAIN links
    BY <1>11 DEF T!Bump
  <2>5. epoch' \in Nat
    BY <1>0, <2>1, <2>4 DEF TokensTypes, T!Bumped
  <2>6. TokensTypes'
    BY <1>0, <2>2, <2>3, <2>4, <2>5 DEF TokensTypes, T!At
  <2>7. SpentByOne'
    <3>1. \A d \in Clients : \A x : Opening(d, x)' => Opening(d, x)
      BY <2>3 DEF Opening, T!At
    <3> QED BY <1>0, <2>2, <3>1 DEF SpentByOne
  <2>8. ASSUME regime = "serial", EpochsInOrder PROVE EpochsInOrder'
    <3>1. \A d \in Clients : T!At(d, "idle")'
      <4>1. DOMAIN task = Clients
        BY <1>0 DEF TokensTypes
      <4>2. \A d \in Clients : d = c \/ task[d].at = "idle"
        BY <2>1, <2>8, <4>1 DEF OneRequest, OneAtATime, T!At
      <4> QED BY <2>3, <4>2 DEF T!At
    <3>2. task[c].epoch = epoch /\ up = "up"
      BY <2>1, <2>8 DEF EpochsInOrder, T!At
    <3>3. CASE UNCHANGED <<epoch, ended, endedLinks>>
      BY <2>2, <2>8, <3>1, <3>2, <3>3 DEF EpochsInOrder, T!At, T!Current
    <3>4. CASE epoch' = T!Bumped(epoch) /\ ended' = DOMAIN cookies /\ endedLinks' = DOMAIN links
      <4>1. T!Current < T!Current' /\ epoch' # T!NoRow
        BY <1>0, <3>4 DEF T!Current, T!Bumped, T!NoRow, TokensTypes
      <4>2. T!Current' \in Nat
        BY <2>5 DEF T!Current
      <4>3. \A k \in DOMAIN cookies : cookies[k] =< T!Current
        BY <1>0, <2>8 DEF EpochsInOrder
      <4>4. \A k \in DOMAIN cookies' : k \in ended' /\ cookies'[k] < T!Current'
        BY <1>0, <2>2, <3>4, <4>1, <4>2, <4>3
      <4>5. \A x \in DOMAIN links' : links'[x] < T!Current' /\ links'[x] =< T!Current'
        BY <1>0, <2>2, <2>8, <4>1, <4>2 DEF EpochsInOrder
      <4> QED BY <2>2, <2>8, <3>1, <3>2, <3>4, <4>1, <4>4, <4>5 DEF EpochsInOrder, T!At
    <3> QED BY <2>4, <3>2, <3>3, <3>4
  <2> QED BY <2>6, <2>7, <2>8, regime' = regime DEF TokensInv
<1>12. CASE UNCHANGED <<tokenVars, task>>
  BY <1>12 DEF tokenVars, TokensInv, TokensTypes, SpentByOne, EpochsInOrder, Opening, T!At, T!Current
<1> QED BY <1>1, <1>2, <1>5, <1>6, <1>7, <1>8, <1>9, <1>10, <1>11, <1>12 DEF T!Next

-----------------------------------------------------------------------------
(* The sessions of app users                                               *)

(* The SDK's requests.                                                     *)
Kinds == {"signin", "refresh", "signout"}

(* What a call of the SDK may be at.                                       *)
AppCall ==
  {A!Idle} \cup [at : {"sent"}, kind : Kinds, id : Nat] \cup [at : {"loaded"}, kind : {"refresh"}, id : Nat]
    \cup [at : {"answered"}, kind : Kinds, id : Nat, status : {"ok", "401", "error"}]

(* App sessions: types, and sessions that are there.                       *)
AppTypes ==
  /\ sessions \in Seq(BOOLEAN) /\ orphans \in Seq(Nat) /\ issuedDead \in Seq(Nat)
  /\ Len(orphans) = Len(sessions) /\ Len(issuedDead) = Len(sessions)
  /\ local \in DOMAIN sessions \cup {A!NoSession} /\ lost \in Nat
  /\ task \in [Calls -> AppCall]
  /\ \A c \in Calls : ~A!At(c, "idle") =>
       /\ task[c].kind # "signin" => task[c].id \in DOMAIN sessions
       /\ A!At(c, "answered") /\ task[c].status = "ok" => task[c].id \in DOMAIN sessions

(* The call c is a refresh under way.                                      *)
Refreshing(c) == ~A!At(c, "idle") /\ task[c].kind = "refresh"

(* The SDK has one refresh under way at most (refreshPromise).             *)
OneRefresh == \A c, d \in Calls : Refreshing(c) /\ Refreshing(d) => c = d

(* A refresh has read the session id and not yet written.                  *)
Loaded(id) == \E c \in Calls : A!At(c, "loaded") /\ task[c].id = id

(* How many have: one, by OneRefresh, or none.                             *)
Underway(id) == IF Loaded(id) THEN 1 ELSE 0

(* The access tokens issued after the session was revoked, and those that  *)
(* may still be.                                                           *)
TokensOwed(id) == issuedDead[id] + orphans[id] + Underway(id)

(* While a session lives nothing was issued in vain and every orphan is of *)
(* a lost connection; so that whenever it is revoked few are left.         *)
FewTokens ==
  \A id \in DOMAIN sessions :
    /\ TokensOwed(id) =< 1 + lost
    /\ ~sessions[id] => issuedDead[id] = 0 /\ orphans[id] =< lost

(* With one call at a time, what is under way is about the session the SDK *)
(* has, and what an answer says of it is still so.                         *)
SdkInStep ==
  /\ \A c \in Calls :
       /\ ~A!At(c, "idle") /\ task[c].kind # "signin" => task[c].id = local
       /\ A!At(c, "answered") /\ task[c].kind # "signout" /\ task[c].status = "ok"
            => ~sessions[task[c].id]
       /\ A!At(c, "answered") /\ task[c].status = "401" => sessions[task[c].id]
  /\ (\A c \in Calls : ~A!At(c, "idle") => task[c].kind # "signout") /\ local # A!NoSession
       => ~sessions[local]

(* What holds of app sessions at every step.                               *)
AppInv == AppTypes /\ OneRefresh /\ FewTokens /\ (regime = "serial" => SdkInStep)

(* The app sessions' invariant holds at the start.                         *)
LEMMA AppInit == A!Init => AppInv
<1> SUFFICES ASSUME A!Init PROVE AppInv
  OBVIOUS
<1>1. task \in [Calls -> AppCall] /\ \A c \in Calls : A!At(c, "idle")
  BY DEF A!Init, AppCall, A!Idle, A!At
<1>2. AppTypes
  BY <1>1, EmptySeq DEF A!Init, AppTypes, A!NoSession
<1>3. OneRefresh /\ SdkInStep
  BY <1>1 DEF A!Init, OneRefresh, Refreshing, SdkInStep, A!At, A!NoSession
<1>4. FewTokens
  BY DEF A!Init, FewTokens
<1> QED BY <1>2, <1>3, <1>4 DEF AppInv

(* What AppTypes gives of one call and of one session.                     *)
LEMMA AppElements ==
  AppTypes =>
    /\ DOMAIN sessions \subseteq Nat \ {0}
    /\ DOMAIN orphans = DOMAIN sessions /\ DOMAIN issuedDead = DOMAIN sessions
    /\ \A id \in DOMAIN sessions : sessions[id] \in BOOLEAN /\ orphans[id] \in Nat /\ issuedDead[id] \in Nat
    /\ lost \in Nat
    /\ \A c \in Calls : task[c].at # "idle" => task[c].kind \in Kinds /\ task[c].id \in Nat
    /\ \A c \in Calls : task[c].at = "loaded" => task[c].kind = "refresh"
<1>1. AppTypes =>
    /\ DOMAIN sessions \subseteq Nat \ {0}
    /\ DOMAIN orphans = DOMAIN sessions /\ DOMAIN issuedDead = DOMAIN sessions
    /\ \A id \in DOMAIN sessions : sessions[id] \in BOOLEAN /\ orphans[id] \in Nat /\ issuedDead[id] \in Nat
  BY Elements, SameDomain DEF AppTypes
<1>2. ASSUME NEW t \in AppCall, t.at # "idle"
      PROVE  t.kind \in Kinds /\ t.id \in Nat /\ (t.at = "loaded" => t.kind = "refresh")
  <2>1. CASE t = A!Idle
    BY <1>2, <2>1 DEF A!Idle
  <2>2. CASE t \in [at : {"sent"}, kind : Kinds, id : Nat]
    BY <2>2
  <2>3. CASE t \in [at : {"loaded"}, kind : {"refresh"}, id : Nat]
    BY <2>3 DEF Kinds
  <2>4. CASE t \in [at : {"answered"}, kind : Kinds, id : Nat, status : {"ok", "401", "error"}]
    BY <2>4
  <2> QED BY <2>1, <2>2, <2>3, <2>4 DEF AppCall
<1>3. AppTypes => \A c \in Calls : task[c] \in AppCall
  BY DEF AppTypes
<1> QED BY <1>1, <1>2, <1>3 DEF AppTypes

(* A step of the call c that leaves the server and the SDK's session       *)
(* alone: what the answer t must be for the invariant to survive.          *)
LEMMA AppGoes ==
  ASSUME AppInv, OneRequest, OneRequest', regime' = regime, NEW c \in Calls, NEW t \in AppCall, A!Goto(c, t),
         UNCHANGED <<A!server, local, lost>>,
         t.at # "idle" /\ t.kind # "signin" => t.id \in DOMAIN sessions,
         t.at = "answered" /\ t.status = "ok" => t.id \in DOMAIN sessions,
         t.at # "idle" /\ t.kind = "refresh" => \A d \in Calls \ {c} : ~Refreshing(d),
         t.at = "loaded" => (A!At(c, "loaded") /\ task[c].id = t.id) \/ ~sessions[t.id],
         regime = "serial" /\ SdkInStep =>
            /\ t.at # "idle"
            /\ ~A!At(c, "idle") => t.kind = task[c].kind
            /\ t.kind # "signin" => t.id = local
            /\ t.at = "answered" /\ t.kind # "signout" /\ t.status = "ok" => ~sessions[t.id]
            /\ t.at = "answered" /\ t.status = "401" => sessions[t.id]
  PROVE  AppInv'
<1>1. /\ task' \in [Calls -> AppCall] /\ task'[c] = t
      /\ \A d \in Calls \ {c} : task'[d] = task[d]
  BY DEF A!Goto, AppInv, AppTypes
<1>2. UNCHANGED <<sessions, orphans, issuedDead, local, lost>>
  BY DEF A!server
<1>3. AppTypes'
  BY <1>1, <1>2 DEF AppInv, AppTypes, A!At
<1>4. OneRefresh'
  BY <1>1 DEF AppInv, OneRefresh, Refreshing, A!At
<1>5. FewTokens'
  <2> SUFFICES ASSUME NEW id \in DOMAIN sessions PROVE TokensOwed(id)' =< 1 + lost
    BY <1>2 DEF AppInv, FewTokens
  <2>1. CASE Loaded(id)' => Loaded(id)
    BY <1>2, <2>1, AppElements DEF AppInv, FewTokens, TokensOwed, Underway
  <2>2. CASE Loaded(id)' /\ ~Loaded(id)
    <3>1. ~sessions[id]
      BY <1>1, <2>2 DEF Loaded, A!At
    <3> QED BY <1>2, <2>2, <3>1, AppElements DEF AppInv, FewTokens, TokensOwed, Underway
  <2> QED BY <2>1, <2>2
<1>6. ASSUME regime = "serial" PROVE SdkInStep'
  <2>1. SdkInStep
    BY <1>6 DEF AppInv
  <2>2. \A d \in Calls \ {c} : task'[d].at = "idle"
    <3>1. DOMAIN task' = Calls /\ t.at # "idle"
      BY <1>1, <1>6, <2>1
    <3> QED BY <1>1, <1>6, <3>1, regime' = regime DEF OneRequest, OneAtATime
  <2>3. local # A!NoSession /\ t.kind # "signout" => ~sessions[local]
    <3>1. t.kind # "signout" => \A d \in Calls : ~A!At(d, "idle") => task[d].kind # "signout"
      BY <1>1, <1>6, <2>1, <2>2 DEF A!At
    <3> QED BY <2>1, <3>1 DEF SdkInStep
  <2> QED BY <1>1, <1>2, <1>6, <2>1, <2>2, <2>3 DEF SdkInStep, A!At
<1> QED BY <1>3, <1>4, <1>5, <1>6, regime' = regime DEF AppInv

(* The app sessions' invariant survives every step.                        *)
LEMMA AppStep ==
  AppInv /\ OneRequest /\ OneRequest' /\ regime' = regime /\ [A!Next]_<<appVars, task>> => AppInv'
<1> SUFFICES ASSUME AppInv, OneRequest, OneRequest', regime' = regime, [A!Next]_<<appVars, task>>
             PROVE  AppInv'
  OBVIOUS
<1>0. /\ DOMAIN sessions \subseteq Nat \ {0}
      /\ DOMAIN orphans = DOMAIN sessions /\ DOMAIN issuedDead = DOMAIN sessions
      /\ \A id \in DOMAIN sessions : sessions[id] \in BOOLEAN /\ orphans[id] \in Nat /\ issuedDead[id] \in Nat
      /\ lost \in Nat
      /\ \A c \in Calls : task[c].at # "idle" => task[c].kind \in Kinds /\ task[c].id \in Nat
      /\ \A c \in Calls : task[c].at = "loaded" => task[c].kind = "refresh"
      /\ \A c \in Calls : task[c].at # "idle" /\ task[c].kind # "signin" => task[c].id \in DOMAIN sessions
      /\ AppTypes
  BY AppElements DEF AppInv, AppTypes, A!At
(* In the serial regime the others rest while one call is under way.       *)
<1>a. ASSUME NEW c \in Calls, regime = "serial", ~A!At(c, "idle")
      PROVE  \A d \in Calls \ {c} : task[d].at = "idle"
  BY <1>0, <1>a DEF OneRequest, OneAtATime, AppTypes, A!At
<1>1. ASSUME NEW c \in Calls, A!SignIn(c) \/ A!Refresh(c) \/ A!SignOut(c) PROVE AppInv'
  <2>1. PICK kind \in Kinds, id \in Nat :
          /\ A!Request(c, kind, id)
          /\ kind # "signin" => id = local /\ local # A!NoSession
          /\ kind = "refresh" => \A d \in Calls : ~Refreshing(d)
    <3>1. local \in Nat /\ A!NoSession \in Nat
      BY <1>0 DEF AppTypes, A!NoSession
    <3> QED BY <1>1, <3>1 DEF A!SignIn, A!Refresh, A!SignOut, A!NotRefreshing, Kinds, Refreshing
  <2> DEFINE t == [at |-> "sent", kind |-> kind, id |-> id]
  <2>2. t \in AppCall /\ t.at = "sent" /\ t.kind = kind /\ t.id = id
    BY DEF AppCall
  <2>3. A!Goto(c, t) /\ UNCHANGED <<A!server, local, lost>> /\ A!At(c, "idle")
    BY <2>1 DEF A!Request
  <2>4. kind # "signin" => id \in DOMAIN sessions
    BY <1>0, <2>1 DEF AppTypes
  <2> HIDE DEF t
  <2> QED BY <2>1, <2>2, <2>3, <2>4, AppGoes
<1>2. ASSUME NEW c \in Calls, A!NoKey(c) PROVE AppInv'
  <2> DEFINE t == [at |-> "answered", kind |-> task[c].kind, id |-> task[c].id, status |-> "error"]
  <2>1. A!At(c, "sent") /\ A!Goto(c, t) /\ UNCHANGED <<A!server, local, lost>>
    BY <1>2 DEF A!NoKey, A!Answer
  <2>2. t \in AppCall /\ t.at = "answered" /\ t.kind = task[c].kind /\ t.id = task[c].id /\ t.status = "error"
    BY <1>0, <2>1 DEF AppCall, A!At
  <2>3. t.kind = "refresh" => \A d \in Calls \ {c} : ~Refreshing(d)
    BY <2>1, <2>2 DEF AppInv, OneRefresh, Refreshing, A!At
  <2>4. SdkInStep /\ t.kind # "signin" => t.id = local
    BY <2>1, <2>2 DEF SdkInStep, A!At
  <2>5. t.kind # "signin" => t.id \in DOMAIN sessions
    BY <1>0, <2>1, <2>2 DEF A!At
  <2> HIDE DEF t
  <2> QED BY <2>1, <2>2, <2>3, <2>4, <2>5, AppGoes
<1>3. ASSUME NEW c \in Calls, A!RefreshLoad(c) PROVE AppInv'
  <2>1. PICK t \in AppCall :
          /\ A!Goto(c, t) /\ t.kind = "refresh" /\ t.id = task[c].id
          /\ \/ t.at = "loaded" /\ ~sessions[t.id]
             \/ t.at = "answered" /\ t.status = "401" /\ sessions[t.id]
    <3>1. A!At(c, "sent") /\ task[c].kind = "refresh"
      BY <1>3 DEF A!RefreshLoad, A!Sent
    <3>2. task[c] \in [at : {"sent"}, kind : Kinds, id : Nat]
      BY <1>0, <3>1 DEF AppTypes, AppCall, A!At, A!Idle
    <3>3. CASE A!Usable(task[c].id)
      <4> DEFINE t == [task[c] EXCEPT !.at = "loaded"]
      <4>1. /\ t \in [at : {"loaded"}, kind : {"refresh"}, id : Nat]
            /\ t.at = "loaded" /\ t.id = task[c].id /\ t.kind = "refresh"
        BY <3>1, <3>2
      <4>2. A!Goto(c, t)
        BY <1>3, <3>3 DEF A!RefreshLoad
      <4>3. t \in AppCall
        BY <4>1 DEF AppCall
      <4> QED BY <3>3, <4>1, <4>2, <4>3 DEF A!Usable
    <3>4. CASE ~A!Usable(task[c].id)
      <4> DEFINE t == [at |-> "answered", kind |-> task[c].kind, id |-> task[c].id, status |-> "401"]
      <4>1. t \in AppCall /\ t.at = "answered" /\ t.status = "401" /\ t.id = task[c].id /\ t.kind = "refresh"
        BY <3>1, <3>2 DEF AppCall
      <4>2. A!Goto(c, t)
        BY <1>3, <3>4 DEF A!RefreshLoad, A!Answer
      <4> QED BY <3>4, <4>1, <4>2 DEF A!Usable
    <3> QED BY <3>3, <3>4
  <2>2. A!At(c, "sent") /\ task[c].kind = "refresh" /\ UNCHANGED <<A!server, local, lost>>
    BY <1>3 DEF A!RefreshLoad, A!Sent
  <2>3. task[c].id \in DOMAIN sessions
    BY <1>0, <2>2 DEF A!At
  <2>4. \A d \in Calls \ {c} : ~Refreshing(d)
    BY <2>2 DEF AppInv, OneRefresh, Refreshing, A!At
  <2>5. SdkInStep => task[c].id = local
    BY <2>2 DEF SdkInStep, A!At
  <2> QED BY <2>1, <2>2, <2>3, <2>4, <2>5, AppGoes
<1>4. ASSUME NEW c \in Calls, A!SignInAnonymously(c) PROVE AppInv'
  <2> DEFINE id == Len(sessions) + 1
  <2>1. A!At(c, "sent") /\ task[c].kind = "signin" /\ UNCHANGED <<local, lost>>
    BY <1>4 DEF A!SignInAnonymously, A!Sent
  <2>2. /\ sessions' \in Seq(BOOLEAN) /\ orphans' \in Seq(Nat) /\ issuedDead' \in Seq(Nat)
        /\ Len(sessions') = id /\ Len(orphans') = id /\ Len(issuedDead') = id
        /\ DOMAIN sessions' = DOMAIN sessions \cup {id} /\ id \notin DOMAIN sessions /\ id \in Nat
        /\ \A x \in DOMAIN sessions :
              sessions'[x] = sessions[x] /\ orphans'[x] = orphans[x] /\ issuedDead'[x] = issuedDead[x]
        /\ sessions'[id] = FALSE /\ orphans'[id] = 0 /\ issuedDead'[id] = 0
    <3>1. sessions \in Seq(BOOLEAN) /\ FALSE \in BOOLEAN /\ sessions' = Append(sessions, FALSE)
      BY <1>0, <1>4 DEF A!SignInAnonymously, AppTypes
    <3>2. orphans \in Seq(Nat) /\ issuedDead \in Seq(Nat) /\ 0 \in Nat
      BY <1>0 DEF AppTypes
    <3>3. orphans' = Append(orphans, 0) /\ issuedDead' = Append(issuedDead, 0)
      BY <1>4 DEF A!SignInAnonymously
    <3>4. Len(orphans) = Len(sessions) /\ Len(issuedDead) = Len(sessions) /\ Len(sessions) \in Nat
      BY <1>0 DEF AppTypes
    <3>5. /\ sessions' \in Seq(BOOLEAN) /\ Len(sessions') = id
          /\ DOMAIN sessions' = DOMAIN sessions \cup {id} /\ id \notin DOMAIN sessions
          /\ \A x \in DOMAIN sessions : sessions'[x] = sessions[x]
          /\ sessions'[id] = FALSE
      <4>1. sessions' \in Seq(BOOLEAN)
        BY <3>1, AppendProperties, Zenon
      <4>2. Len(sessions') = id /\ \A x \in 1..Len(sessions) : sessions'[x] = sessions[x]
        BY SMTT(30), <3>1, AppendProperties
      <4>3. sessions'[id] = FALSE
        BY <3>1, AppendProperties, Zenon
      <4>4. DOMAIN sessions' = 1..id /\ DOMAIN sessions = 1..Len(sessions)
        BY <3>1, <4>1, <4>2
      <4> QED BY <3>4, <4>1, <4>2, <4>3, <4>4
    <3>6. /\ orphans' \in Seq(Nat) /\ Len(orphans') = id
          /\ \A x \in DOMAIN orphans : orphans'[x] = orphans[x]
          /\ orphans'[id] = 0
      BY <3>2, <3>3, <3>4, Appended
    <3>7. /\ issuedDead' \in Seq(Nat) /\ Len(issuedDead') = id
          /\ \A x \in DOMAIN issuedDead : issuedDead'[x] = issuedDead[x]
          /\ issuedDead'[id] = 0
      BY <3>2, <3>3, <3>4, Appended
    <3> QED BY <1>0, <3>4, <3>5, <3>6, <3>7
  <2>3. PICK t \in AppCall :
          A!Goto(c, t) /\ t.at = "answered" /\ t.kind = "signin" /\ t.id = id /\ t.status = "ok"
    <3> DEFINE t == [at |-> "answered", kind |-> task[c].kind, id |-> Len(sessions'), status |-> "ok"]
    <3>1. t \in AppCall
      BY <2>1, <2>2 DEF AppCall, Kinds
    <3> QED BY <1>4, <2>1, <2>2, <3>1 DEF A!SignInAnonymously, A!Answer
  <2> HIDE DEF id
  <2>4. task' \in [Calls -> AppCall] /\ task'[c] = t /\ \A d \in Calls \ {c} : task'[d] = task[d]
    BY <1>0, <2>3 DEF A!Goto, AppTypes
  <2>5. AppTypes'
    BY ZenonT(60), <1>0, <2>1, <2>2, <2>3, <2>4 DEF AppTypes, A!At
  <2>6. OneRefresh'
    BY <2>3, <2>4 DEF AppInv, OneRefresh, Refreshing, A!At
  <2>7. FewTokens'
    <3>1. \A x : Loaded(x)' => Loaded(x)
      BY <2>3, <2>4 DEF Loaded, A!At
    <3>2. ~Loaded(id)
      BY <1>0, <2>2 DEF Loaded, A!At
    <3>3. ASSUME NEW x, x = id PROVE TokensOwed(x)' =< 1 + lost
      BY <1>0, <2>2, <3>1, <3>2, <3>3 DEF TokensOwed, Underway
    <3>4. ASSUME NEW x \in DOMAIN sessions
          PROVE  /\ TokensOwed(x)' =< 1 + lost
                 /\ ~sessions'[x] => issuedDead'[x] = 0 /\ orphans'[x] =< lost
      BY <1>0, <2>2, <3>1, <3>4 DEF TokensOwed, Underway, AppInv, FewTokens
    <3> QED BY <1>0, <2>1, <2>2, <3>3, <3>4 DEF FewTokens
  <2>8. ASSUME regime = "serial", SdkInStep PROVE SdkInStep'
    <3>1. \A d \in Calls \ {c} : task'[d].at = "idle"
      BY <1>a, <2>1, <2>4, <2>8 DEF A!At
    <3>2. local # A!NoSession => ~sessions[local]
      BY <1>a, <2>1, <2>8 DEF SdkInStep, A!At
    <3>3. local # A!NoSession => ~sessions'[local]
      BY <1>0, <2>2, <3>2 DEF AppTypes
    <3> QED BY <2>1, <2>2, <2>3, <2>4, <2>8, <3>1, <3>3 DEF SdkInStep, A!At
  <2> QED BY <2>5, <2>6, <2>7, <2>8, regime' = regime DEF AppInv
<1>5. ASSUME NEW c \in Calls, A!RefreshWrite(c) PROVE AppInv'
  <2> DEFINE id == task[c].id
  <2>1. A!At(c, "loaded") /\ task[c].kind = "refresh" /\ id \in DOMAIN sessions /\ id \in Nat
    BY <1>0, <1>5 DEF A!RefreshWrite, A!At
  <2>2. UNCHANGED <<sessions, local, orphans, lost>>
    BY <1>5 DEF A!RefreshWrite, A!Issue, A!Touched
  <2>3. /\ issuedDead' \in Seq(Nat) /\ Len(issuedDead') = Len(issuedDead)
        /\ \A x \in DOMAIN sessions :
             issuedDead'[x] = IF x = id /\ sessions[x] THEN issuedDead[x] + 1 ELSE issuedDead[x]
    <3>1. issuedDead[id] + (IF sessions[id] THEN 1 ELSE 0) \in Nat
      BY <1>0, <2>1
    <3>2. issuedDead' = [issuedDead EXCEPT ![id] = issuedDead[id] + (IF sessions[id] THEN 1 ELSE 0)]
      BY <1>5 DEF A!RefreshWrite, A!Issue
    <3> HIDE DEF id
    <3>3. id \in DOMAIN issuedDead
      BY <1>0, <2>1
    <3>4. \A x \in DOMAIN issuedDead :
            issuedDead'[x] = IF x = id THEN issuedDead[id] + (IF sessions[id] THEN 1 ELSE 0) ELSE issuedDead[x]
      BY <1>0, <3>1, <3>2, <3>3, Replaced DEF AppTypes
    <3> QED BY SMTT(30), <1>0, <3>1, <3>2, <3>3, <3>4, Replaced DEF AppTypes
  <2>4. PICK t \in AppCall :
          A!Goto(c, t) /\ t.at = "answered" /\ t.kind = "refresh" /\ t.id = id /\ t.status = "ok"
    <3> DEFINE t == [at |-> "answered", kind |-> task[c].kind, id |-> id, status |-> "ok"]
    <3>1. t \in AppCall
      BY <2>1 DEF AppCall, Kinds
    <3> QED BY <1>5, <2>1, <3>1 DEF A!RefreshWrite, A!Answer
  <2>5. task' \in [Calls -> AppCall] /\ task'[c] = t /\ \A d \in Calls \ {c} : task'[d] = task[d]
    BY <1>0, <2>4 DEF A!Goto, AppTypes
  <2>6. AppTypes'
    BY <1>0, <2>1, <2>2, <2>3, <2>4, <2>5 DEF AppTypes, A!At
  <2>7. OneRefresh'
    BY <2>1, <2>4, <2>5 DEF AppInv, OneRefresh, Refreshing, A!At
  <2>8. FewTokens'
    <3>1. Loaded(id) /\ \A d \in Calls \ {c} : task[d].at # "loaded"
      BY <1>0, <2>1 DEF Loaded, AppInv, OneRefresh, Refreshing, A!At
    <3>2. \A x : ~Loaded(x)'
      BY <2>4, <2>5, <3>1 DEF Loaded, A!At
    <3> HIDE DEF id
    <3>3. ASSUME NEW x \in DOMAIN sessions
          PROVE  TokensOwed(x)' =< 1 + lost /\ (~sessions[x] => issuedDead'[x] = issuedDead[x])
      <4>1. TokensOwed(x) =< 1 + lost
        BY DEF AppInv, FewTokens
      <4> QED BY <1>0, <2>2, <2>3, <3>1, <3>2, <4>1 DEF TokensOwed, Underway
    <3> QED BY <2>2, <3>3 DEF AppInv, FewTokens
  <2>9. ASSUME regime = "serial", SdkInStep PROVE SdkInStep'
    <3>1. \A d \in Calls \ {c} : task'[d].at = "idle"
      BY <1>a, <2>1, <2>5, <2>9 DEF A!At
    <3>2. id = local
      BY <2>1, <2>9 DEF SdkInStep, A!At
    <3>3. local # A!NoSession => ~sessions[local]
      BY <1>a, <2>1, <2>9 DEF SdkInStep, A!At
    <3> QED BY <1>0, <2>1, <2>2, <2>4, <2>5, <3>1, <3>2, <3>3 DEF SdkInStep, A!At, A!NoSession
  <2> QED BY <2>6, <2>7, <2>8, <2>9, regime' = regime DEF AppInv
<1>6. ASSUME NEW id \in DOMAIN sessions, A!OrphanWrites(id) PROVE AppInv'
  <2>1. UNCHANGED <<sessions, local, task, lost>> /\ orphans[id] > 0
    BY <1>6 DEF A!OrphanWrites, A!Issue, A!Touched
  <2>2. /\ orphans' \in Seq(Nat) /\ Len(orphans') = Len(orphans)
        /\ \A x \in DOMAIN sessions : orphans'[x] = IF x = id THEN orphans[x] - 1 ELSE orphans[x]
    <3>1. id \in DOMAIN orphans /\ orphans[id] - 1 \in Nat
      BY <1>0, <2>1
    <3>2. orphans' = [orphans EXCEPT ![id] = orphans[id] - 1]
      BY <1>6 DEF A!OrphanWrites
    <3> QED BY <1>0, <3>1, <3>2, Replaced DEF AppTypes
  <2>3. /\ issuedDead' \in Seq(Nat) /\ Len(issuedDead') = Len(issuedDead)
        /\ \A x \in DOMAIN sessions :
             issuedDead'[x] = IF x = id /\ sessions[x] THEN issuedDead[x] + 1 ELSE issuedDead[x]
    <3>1. id \in DOMAIN issuedDead /\ issuedDead[id] + (IF sessions[id] THEN 1 ELSE 0) \in Nat
      BY <1>0
    <3>2. issuedDead' = [issuedDead EXCEPT ![id] = issuedDead[id] + (IF sessions[id] THEN 1 ELSE 0)]
      BY <1>6 DEF A!OrphanWrites, A!Issue
    <3>3. \A x \in DOMAIN issuedDead :
            issuedDead'[x] = IF x = id THEN issuedDead[id] + (IF sessions[id] THEN 1 ELSE 0) ELSE issuedDead[x]
      BY <1>0, <3>1, <3>2, Replaced DEF AppTypes
    <3> QED BY SMTT(30), <1>0, <3>1, <3>2, <3>3, Replaced DEF AppTypes
  <2>4. AppTypes'
    BY <1>0, <2>1, <2>2, <2>3 DEF AppTypes, A!At
  <2>5. FewTokens'
    <3>1. \A x : Loaded(x)' <=> Loaded(x)
      BY <2>1 DEF Loaded, A!At
    <3>2. ASSUME NEW x \in DOMAIN sessions
          PROVE  /\ TokensOwed(x)' =< 1 + lost
                 /\ ~sessions[x] => issuedDead'[x] = 0 /\ orphans'[x] =< lost
      <4>1. TokensOwed(x) =< 1 + lost /\ (~sessions[x] => issuedDead[x] = 0 /\ orphans[x] =< lost)
        BY DEF AppInv, FewTokens
      <4>2. Underway(x)' = Underway(x) /\ Underway(x) \in {0, 1}
        BY <3>1 DEF Underway
      <4>3. /\ orphans[x] \in Nat /\ issuedDead[x] \in Nat /\ orphans[id] > 0
            /\ orphans'[x] = orphans[x] \/ (orphans'[x] = orphans[x] - 1 /\ x = id)
        BY <1>0, <2>1, <2>2
      <4>4. \/ issuedDead'[x] = issuedDead[x]
            \/ issuedDead'[x] = issuedDead[x] + 1 /\ orphans'[x] = orphans[x] - 1 /\ sessions[x]
        BY <2>2, <2>3
      <4>5. TokensOwed(x)' =< TokensOwed(x)
        BY <4>2, <4>3, <4>4 DEF TokensOwed
      <4>6. ~sessions[x] => issuedDead'[x] = 0
        BY <4>1, <4>4
      <4>7. orphans'[x] =< orphans[x] /\ orphans'[x] \in Int /\ TokensOwed(x) \in Int /\ TokensOwed(x)' \in Int
        BY <4>2, <4>3, <4>4 DEF TokensOwed
      <4>8. TokensOwed(x)' =< 1 + lost
        BY <1>0, <4>1, <4>5, <4>7
      <4>9. ~sessions[x] => orphans'[x] =< lost
        BY <1>0, <4>1, <4>3, <4>7
      <4> QED BY <4>6, <4>8, <4>9
    <3> QED BY <2>1, <3>2 DEF FewTokens
  <2> QED BY <2>1, <2>4, <2>5, regime' = regime DEF AppInv, OneRefresh, Refreshing, SdkInStep, A!At
<1>7. ASSUME NEW c \in Calls, A!SignOutRevokes(c) PROVE AppInv'
  <2> DEFINE id == task[c].id
  <2>1. A!At(c, "sent") /\ task[c].kind = "signout" /\ id \in DOMAIN sessions /\ id \in Nat
    BY <1>0, <1>7 DEF A!SignOutRevokes, A!Sent, A!At
  <2>2. UNCHANGED <<local, orphans, issuedDead, lost>>
    BY <1>7 DEF A!SignOutRevokes
  <2>3. /\ sessions' \in Seq(BOOLEAN) /\ Len(sessions') = Len(sessions) /\ DOMAIN sessions' = DOMAIN sessions
        /\ \A x \in DOMAIN sessions : sessions'[x] = IF x = id THEN TRUE ELSE sessions[x]
    <3>1. sessions \in Seq(BOOLEAN) /\ TRUE \in BOOLEAN
      BY <1>0 DEF AppTypes
    <3>2. sessions' = [sessions EXCEPT ![id] = TRUE]
      BY <1>7 DEF A!SignOutRevokes
    <3> QED BY <2>1, <3>1, <3>2, Replaced
  <2>4. PICK t \in AppCall :
          A!Goto(c, t) /\ t.at = "answered" /\ t.kind = "signout" /\ t.id = id /\ t.status = "ok"
    <3> DEFINE t == [at |-> "answered", kind |-> task[c].kind, id |-> id, status |-> "ok"]
    <3>1. t \in AppCall
      BY <2>1 DEF AppCall, Kinds
    <3> QED BY <1>7, <2>1, <3>1 DEF A!SignOutRevokes, A!Answer
  <2>5. task' \in [Calls -> AppCall] /\ task'[c] = t /\ \A d \in Calls \ {c} : task'[d] = task[d]
    BY <1>0, <2>4 DEF A!Goto, AppTypes
  <2>6. AppTypes'
    BY SMTT(30), <1>0, <2>1, <2>2, <2>3, <2>4, <2>5 DEF AppTypes, A!At
  <2>7. OneRefresh'
    BY <2>4, <2>5 DEF AppInv, OneRefresh, Refreshing, A!At
  <2>8. FewTokens'
    <3>1. \A x : Loaded(x)' => Loaded(x)
      BY <2>4, <2>5 DEF Loaded, A!At
    <3>2. ASSUME NEW x \in DOMAIN sessions
          PROVE  /\ TokensOwed(x)' =< 1 + lost
                 /\ ~sessions'[x] => issuedDead[x] = 0 /\ orphans[x] =< lost
      <4>1. TokensOwed(x) =< 1 + lost /\ (~sessions[x] => issuedDead[x] = 0 /\ orphans[x] =< lost)
        BY DEF AppInv, FewTokens
      <4>2. Underway(x)' =< Underway(x) /\ Underway(x) \in {0, 1} /\ Underway(x)' \in {0, 1}
        BY <3>1 DEF Underway
      <4>3. TokensOwed(x)' =< 1 + lost
        BY <1>0, <2>2, <4>1, <4>2 DEF TokensOwed
      <4>4. ~sessions'[x] => ~sessions[x]
        BY <2>3
      <4> QED BY <4>1, <4>3, <4>4
    <3> QED BY <2>2, <2>3, <3>2 DEF FewTokens
  <2>9. ASSUME regime = "serial", SdkInStep PROVE SdkInStep'
    <3>1. \A d \in Calls \ {c} : task'[d].at = "idle"
      BY <1>a, <2>1, <2>5, <2>9 DEF A!At
    <3>2. id = local
      BY <2>1, <2>9 DEF SdkInStep, A!At
    <3> QED BY <2>2, <2>4, <2>5, <3>1, <3>2 DEF SdkInStep, A!At
  <2> QED BY <2>6, <2>7, <2>8, <2>9, regime' = regime DEF AppInv
<1>8. ASSUME NEW c \in Calls, A!Lose(c) PROVE AppInv'
  <2> DEFINE id == task[c].id
  <2>1. /\ ~A!At(c, "idle") /\ task[c].kind \in Kinds /\ id \in Nat
        /\ (A!At(c, "loaded") => id \in DOMAIN sessions)
    BY <1>0, <1>8 DEF A!Lose, A!At
  <2>2. UNCHANGED <<sessions, local, issuedDead>> /\ lost' = lost + 1
    BY <1>8 DEF A!Lose
  <2>3. /\ orphans' \in Seq(Nat) /\ Len(orphans') = Len(orphans)
        /\ \A x \in DOMAIN sessions :
             orphans'[x] = IF A!At(c, "loaded") /\ x = id THEN orphans[x] + 1 ELSE orphans[x]
    <3>1. CASE A!At(c, "loaded")
      <4>1. id \in DOMAIN orphans /\ orphans[id] + 1 \in Nat
        BY <1>0, <2>1, <3>1
      <4>2. orphans' = [orphans EXCEPT ![id] = orphans[id] + 1]
        BY <1>8, <3>1 DEF A!Lose
      <4> QED BY <1>0, <3>1, <4>1, <4>2, Replaced DEF AppTypes
    <3>2. CASE ~A!At(c, "loaded")
      BY <1>0, <1>8, <3>2 DEF A!Lose, AppTypes
    <3> QED BY <3>1, <3>2
  <2>4. PICK t \in AppCall :
          A!Goto(c, t) /\ t.at = "answered" /\ t.kind = task[c].kind /\ t.id = id /\ t.status = "error"
    <3> DEFINE t == [at |-> "answered", kind |-> task[c].kind, id |-> id, status |-> "error"]
    <3>1. t \in AppCall
      BY <2>1 DEF AppCall
    <3> QED BY <1>8, <2>1, <3>1 DEF A!Lose, A!Answer
  <2>5. task' \in [Calls -> AppCall] /\ task'[c] = t /\ \A d \in Calls \ {c} : task'[d] = task[d]
    BY <1>0, <2>4 DEF A!Goto, AppTypes
  <2>6. AppTypes'
    <3>1. \A d \in Calls : task'[d].at # "idle" =>
            /\ task'[d].kind # "signin" => task'[d].id \in DOMAIN sessions
            /\ task'[d].at = "answered" /\ task'[d].status = "ok" => task'[d].id \in DOMAIN sessions
      BY <1>0, <2>1, <2>4, <2>5 DEF AppTypes, A!At
    <3>2. lost' \in Nat
      BY <1>0, <2>2
    <3> QED BY <1>0, <2>2, <2>3, <2>5, <3>1, <3>2 DEF AppTypes, A!At
  <2>7. OneRefresh'
    BY <2>1, <2>4, <2>5 DEF AppInv, OneRefresh, Refreshing, A!At
  <2>8. FewTokens'
    <3>1. \A x : Loaded(x)' => Loaded(x)
      BY <2>4, <2>5 DEF Loaded, A!At
    <3>2. ASSUME NEW x \in DOMAIN sessions
          PROVE  /\ TokensOwed(x)' =< 1 + lost'
                 /\ ~sessions[x] => issuedDead[x] = 0 /\ orphans'[x] =< lost'
      <4>1. TokensOwed(x) =< 1 + lost /\ (~sessions[x] => issuedDead[x] = 0 /\ orphans[x] =< lost)
        BY DEF AppInv, FewTokens
      <4>2. Underway(x)' =< Underway(x) /\ Underway(x) \in {0, 1} /\ Underway(x)' \in {0, 1}
        BY <3>1 DEF Underway
      <4>3. /\ orphans[x] \in Nat /\ issuedDead[x] \in Nat /\ lost \in Nat
            /\ orphans'[x] = orphans[x] \/ orphans'[x] = orphans[x] + 1
        BY <1>0, <2>3
      <4>4. TokensOwed(x)' = issuedDead[x] + orphans'[x] + Underway(x)'
        BY <2>2 DEF TokensOwed
      <4>5. TokensOwed(x) = issuedDead[x] + orphans[x] + Underway(x)
        BY DEF TokensOwed
      <4>6. TokensOwed(x)' =< 1 + lost'
        BY <2>2, <4>1, <4>2, <4>3, <4>4, <4>5
      <4>7. ~sessions[x] => orphans'[x] =< lost'
        BY <2>2, <4>1, <4>3
      <4> QED BY <4>1, <4>6, <4>7
    <3> QED BY <2>2, <3>2 DEF FewTokens
  <2>9. ASSUME regime = "serial", SdkInStep PROVE SdkInStep'
    <3>1. \A d \in Calls \ {c} : task'[d].at = "idle"
      BY <1>a, <2>1, <2>5, <2>9 DEF A!At
    <3> QED BY <2>1, <2>2, <2>4, <2>5, <2>9, <3>1 DEF SdkInStep, A!At
  <2> QED BY <2>6, <2>7, <2>8, <2>9, regime' = regime DEF AppInv
<1>9. ASSUME NEW c \in Calls, A!Receive(c) PROVE AppInv'
  <2>1. A!At(c, "answered") /\ UNCHANGED <<sessions, orphans, issuedDead, lost>>
    BY <1>9 DEF A!Receive, A!server
  <2>2. task[c] \in [at : {"answered"}, kind : Kinds, id : Nat, status : {"ok", "401", "error"}]
    BY <1>0, <2>1 DEF AppTypes, AppCall, A!At, A!Idle
  <2>3. task' \in [Calls -> AppCall] /\ task'[c].at = "idle" /\ \A d \in Calls \ {c} : task'[d] = task[d]
    BY <1>0, <1>9 DEF A!Receive, A!Goto, AppTypes, AppCall, A!Idle
  <2>4. \/ local' = A!NoSession
        \/ local' = task[c].id /\ task[c].status = "ok" /\ task[c].kind # "signout"
        \/ local' = local /\ task[c].kind # "signout"
    BY <1>9, <2>2 DEF A!Receive, A!Believed, A!AfterSignOut
  <2>5. local' \in DOMAIN sessions \cup {A!NoSession}
    BY <1>0, <2>1, <2>4 DEF AppTypes, A!At
  <2>6. AppTypes'
    BY <1>0, <2>1, <2>3, <2>5 DEF AppTypes, A!At
  <2>7. OneRefresh'
    BY <2>3 DEF AppInv, OneRefresh, Refreshing, A!At
  <2>8. FewTokens'
    <3>1. \A x : Loaded(x)' <=> Loaded(x)
      BY <2>1, <2>3 DEF Loaded, A!At
    <3> QED BY <2>1, <3>1 DEF AppInv, FewTokens, TokensOwed, Underway
  <2>9. ASSUME regime = "serial", SdkInStep PROVE SdkInStep'
    <3>1. \A d \in Calls : task'[d].at = "idle"
      BY <1>a, <2>1, <2>3, <2>9 DEF A!At
    <3>2. local' = A!NoSession \/ ~sessions[local']
      <4>1. task[c].kind # "signout" => \A d \in Calls : ~A!At(d, "idle") => task[d].kind # "signout"
        BY <1>a, <2>1, <2>9 DEF A!At
      <4>2. task[c].kind # "signout" => local = A!NoSession \/ ~sessions[local]
        BY <2>9, <4>1 DEF SdkInStep
      <4>3. task[c].kind # "signout" /\ task[c].status = "ok" => ~sessions[task[c].id]
        BY <2>1, <2>9 DEF SdkInStep
      <4> QED BY <2>4, <4>2, <4>3
    <3> QED BY <2>1, <3>1, <3>2 DEF SdkInStep, A!At
  <2> QED BY <2>6, <2>7, <2>8, <2>9, regime' = regime DEF AppInv
<1>10. CASE A!RevokeKey \/ UNCHANGED <<appVars, task>>
  <2>1. UNCHANGED <<sessions, orphans, issuedDead, local, task, lost>>
    BY <1>10 DEF A!RevokeKey, A!server, appVars
  <2> QED BY <2>1, regime' = regime DEF AppInv, AppTypes, OneRefresh, Refreshing, FewTokens, TokensOwed,
             Underway, Loaded, SdkInStep, A!At
<1> QED BY <1>1, <1>2, <1>3, <1>4, <1>5, <1>6, <1>7, <1>8, <1>9, <1>10 DEF A!Next

(* No step brings a revoked session back, and with one call at a time none *)
(* that receives a refresh loses a live session.                           *)
LEMMA AppActions ==
  AppInv /\ [A!Next]_<<appVars, task>> => A!RevokedStay /\ (regime = "serial" => A!RefreshKeeps)
<1> SUFFICES ASSUME AppInv, [A!Next]_<<appVars, task>>
             PROVE  A!RevokedStay /\ (regime = "serial" => A!RefreshKeeps)
  OBVIOUS
<1>0. sessions \in Seq(BOOLEAN) /\ task \in [Calls -> AppCall] /\ DOMAIN sessions \subseteq Nat \ {0}
  BY AppElements DEF AppInv, AppTypes
<1>1. A!RevokedStay
  <2> SUFFICES ASSUME NEW id \in DOMAIN sessions, sessions[id] PROVE sessions'[id]
    BY DEF A!RevokedStay
  <2>1. CASE \E c \in Calls : A!SignInAnonymously(c)
    <3>1. sessions' = Append(sessions, FALSE)
      BY <2>1 DEF A!SignInAnonymously
    <3> QED BY <1>0, <3>1
  <2>2. CASE \E c \in Calls : A!SignOutRevokes(c)
    BY <1>0, <2>2 DEF A!SignOutRevokes
  <2>3. CASE UNCHANGED sessions
    BY <2>3
  <2>4. UNCHANGED sessions \/ \E c \in Calls : A!SignInAnonymously(c) \/ A!SignOutRevokes(c)
    BY DEF A!Next, A!SignIn, A!Refresh, A!SignOut, A!Request, A!NoKey, A!RefreshLoad, A!RefreshWrite,
           A!OrphanWrites, A!Issue, A!Touched, A!Lose, A!Receive, A!RevokeKey, A!server, appVars
  <2> QED BY <2>1, <2>2, <2>3, <2>4
<1>2. ASSUME regime = "serial",
             NEW c \in Calls, A!At(c, "answered"), task[c].kind = "refresh", local # A!NoSession,
             ~sessions[local], task'[c].at = "idle"
      PROVE  local' # A!NoSession
  <2>1. A!Receive(c)
    <3>1. task[c].at = "answered"
      BY <1>2 DEF A!At
    <3>2. ASSUME NEW d \in Calls, NEW t, A!Goto(d, t), d # c PROVE FALSE
      BY <1>0, <1>2, <3>1, <3>2 DEF A!Goto
    <3>3. ASSUME NEW t, A!Goto(c, t), t.at # "idle" PROVE FALSE
      BY <1>0, <1>2, <3>3 DEF A!Goto
    <3>4. task' # task
      BY <1>2, <3>1
    <3>5. ASSUME NEW kind, NEW id, A!Request(c, kind, id) PROVE FALSE
      BY <3>1, <3>5 DEF A!Request, A!At
    <3>6. ASSUME NEW status, NEW id, A!Answer(c, status, id) PROVE FALSE
      BY <3>3, <3>6 DEF A!Answer
    <3>7. PICK d \in Calls :
             \/ A!SignIn(d) \/ A!Refresh(d) \/ A!SignOut(d)
             \/ A!NoKey(d) \/ A!SignInAnonymously(d) \/ A!RefreshLoad(d) \/ A!RefreshWrite(d)
             \/ A!SignOutRevokes(d) \/ A!Lose(d) \/ A!Receive(d)
      BY <3>4 DEF A!Next, A!OrphanWrites, A!RevokeKey, appVars
    <3>8. \E t : A!Goto(d, t)
      BY <3>7 DEF A!SignIn, A!Refresh, A!SignOut, A!Request, A!NoKey, A!SignInAnonymously, A!RefreshLoad,
             A!RefreshWrite, A!SignOutRevokes, A!Lose, A!Receive, A!Answer
    <3>9. d = c
      BY <3>2, <3>8
    <3>10. ~A!RefreshLoad(c)
      BY <3>1 DEF A!RefreshLoad, A!Sent, A!At
    <3> QED BY <3>5, <3>6, <3>7, <3>9, <3>10 DEF A!SignIn, A!Refresh, A!SignOut, A!NoKey, A!SignInAnonymously,
               A!RefreshWrite, A!SignOutRevokes, A!Lose
  <2>2. task[c].status # "401" /\ task[c].id = local
    BY <1>2 DEF AppInv, SdkInStep, A!At
  <2>3. local' = task[c].id \/ local' = local
    BY <1>2, <2>1, <2>2 DEF A!Receive, A!Believed, A!Ends
  <2> QED BY <1>2, <2>2, <2>3
<1> QED BY <1>1, <1>2 DEF A!RefreshKeeps

-----------------------------------------------------------------------------
(* Publishable keys                                                        *)

(* Requests that found room and have not inserted yet.                     *)
Inserting == {c \in Clients : K!At(c, "insert")}

(* What a request about keys may be at.                                    *)
KeyTask ==
  [at : {"idle", "invalidate"}] \cup [at : {"insert"}, cloud : Clouds]
    \cup [at : {"cloud", "fill", "serve"}, key : Keys]

(* Publishable keys: types.                                                *)
KeysTypes ==
  /\ key \in [Keys -> {"unmade", "active", "revoked", "deleted"}]
  /\ of \in [Keys -> Clouds] /\ clouds \subseteq Clouds
  /\ task \in [Clients -> KeyTask]

(* The active keys and those about to be inserted never pass the limit by  *)
(* more than the requests that overlap.                                    *)
KeysInv ==
  /\ KeysTypes
  /\ Cardinality(K!ActiveKeys) + Cardinality(Inserting) =< MaxKeys - 1 + Overlapping

(* PublicKeys counts as this module does.                                  *)
LEMMA KeysCounting == \A X : K!IsFiniteSet(X) = IsFiniteSet(X) /\ K!Cardinality(X) = Cardinality(X)
BY DEF K!IsFiniteSet, IsFiniteSet, K!Cardinality, Cardinality

(* What is counted is finite.                                              *)
LEMMA KeysFinite ==
  KeysTypes => /\ IsFiniteSet(K!ActiveKeys) /\ Cardinality(K!ActiveKeys) \in Nat
               /\ IsFiniteSet(Inserting) /\ Cardinality(Inserting) \in Nat
               /\ Overlapping \in Nat
<1>1. IsFiniteSet(Keys) /\ IsFiniteSet(Clients)
  BY AccessAssumption, KeysCounting DEF K!PublicKeysAssumption
<1> QED BY <1>1, FS_Subset, FS_CardinalityType DEF K!ActiveKeys, Inserting, Overlapping

(* The keys' invariant holds at the start.                                 *)
LEMMA KeysInit == K!Init /\ regime \in {"overlap", "serial"} => KeysInv
<1> SUFFICES ASSUME K!Init, regime \in {"overlap", "serial"} PROVE KeysInv
  OBVIOUS
<1>1. K!ActiveKeys = {} /\ Inserting = {}
  BY DEF K!Init, K!ActiveKeys, Inserting, K!At, K!Idle
<1>2. KeysTypes
  BY DEF K!Init, KeysTypes, KeyTask, K!Idle
<1>3. MaxKeys \in Nat \ {0}
  BY AccessAssumption, KeysCounting DEF K!PublicKeysAssumption
<1> QED BY <1>1, <1>2, <1>3, KeysFinite, FS_EmptySet DEF KeysInv

(* It survives every step: all but the count and the insert only shrink    *)
(* what is counted.                                                        *)
LEMMA KeysStep ==
  KeysInv /\ OneRequest' /\ regime' = regime /\ [K!Next]_<<keysVars, task>> => KeysInv'
<1> SUFFICES ASSUME KeysInv, OneRequest', regime' = regime, [K!Next]_<<keysVars, task>> PROVE KeysInv'
  OBVIOUS
<1>1. KeysTypes'
  <2> USE DEF KeysInv, KeysTypes, K!Goto
  <2>1. ASSUME NEW c \in Clients, K!CountActive(c) PROVE KeysTypes'
    <3>1. PICK cloud \in clouds : K!Goto(c, [at |-> "insert", cloud |-> cloud])
      BY <2>1 DEF K!CountActive
    <3>2. [at |-> "insert", cloud |-> cloud] \in KeyTask
      BY DEF KeyTask
    <3> QED BY <2>1, <3>1, <3>2 DEF K!CountActive
  <2>2. [at |-> "invalidate"] \in KeyTask /\ K!Idle \in KeyTask
    BY DEF KeyTask, K!Idle
  <2>3. ASSUME NEW c \in Clients, K!Insert(c) PROVE KeysTypes'
    BY <2>2, <2>3 DEF K!Insert
  <2>4. ASSUME NEW c \in Clients, NEW k \in Keys, K!Revoke(c, k) PROVE KeysTypes'
    BY <2>2, <2>4 DEF K!Revoke
  <2>5. ASSUME NEW c \in Clients, K!Invalidate(c) \/ K!Serve(c) PROVE KeysTypes'
    BY <2>2, <2>5 DEF K!Invalidate, K!Serve
  <2>6. ASSUME NEW c \in Clients, K!LoadCloud(c) \/ K!Fill(c) PROVE KeysTypes'
    <3>1. task[c] \in [at : {"cloud", "fill", "serve"}, key : Keys]
      BY <2>6 DEF K!LoadCloud, K!Fill, K!At, KeyTask
    <3>2. [task[c] EXCEPT !.at = "fill"] \in KeyTask /\ [task[c] EXCEPT !.at = "serve"] \in KeyTask
      BY <3>1 DEF KeyTask
    <3> QED BY <2>2, <2>6, <3>2 DEF K!LoadCloud, K!Fill
  <2>7. ASSUME NEW c \in Clients, NEW k \in Keys, K!AskCache(c, k) PROVE KeysTypes'
    <3>1. [at |-> "serve", key |-> k] \in KeyTask /\ [at |-> "cloud", key |-> k] \in KeyTask
      BY DEF KeyTask
    <3> QED BY <2>7, <3>1 DEF K!AskCache
  <2>8. ASSUME NEW cloud \in Clouds, K!Disconnect(cloud) PROVE KeysTypes'
    BY <2>8 DEF K!Disconnect
  <2>9. CASE (\E k \in Keys : K!Expire(k)) \/ UNCHANGED <<keysVars, task>>
    BY <2>9 DEF K!Expire, keysVars
  <2> QED BY <2>1, <2>3, <2>4, <2>5, <2>6, <2>7, <2>8, <2>9 DEF K!Next, K!Step
<1>2. /\ MaxKeys \in Nat \ {0} /\ IsFiniteSet(Keys) /\ IsFiniteSet(Clients)
  BY AccessAssumption, KeysCounting DEF K!PublicKeysAssumption
<1>3. /\ IsFiniteSet(K!ActiveKeys) /\ Cardinality(K!ActiveKeys) \in Nat
      /\ IsFiniteSet(Inserting) /\ Cardinality(Inserting) \in Nat
      /\ IsFiniteSet(K!ActiveKeys') /\ Cardinality(K!ActiveKeys') \in Nat
      /\ IsFiniteSet(Inserting') /\ Cardinality(Inserting') \in Nat
      /\ Overlapping \in Nat /\ Overlapping' = Overlapping
  <2>1. KeysTypes /\ Overlapping' = Overlapping
    BY DEF KeysInv, Overlapping
  <2>2. KeysTypes' => /\ IsFiniteSet(K!ActiveKeys') /\ Cardinality(K!ActiveKeys') \in Nat
                      /\ IsFiniteSet(Inserting') /\ Cardinality(Inserting') \in Nat
    <3>1. IsFiniteSet(Keys) /\ IsFiniteSet(Clients)
      BY <1>2
    <3> QED BY <3>1, FS_Subset, FS_CardinalityType DEF K!ActiveKeys, Inserting
  <2> QED BY <1>1, <2>1, <2>2, KeysFinite
<1> DEFINE Within == Cardinality(K!ActiveKeys') + Cardinality(Inserting') =< MaxKeys - 1 + Overlapping
<1>4. ASSUME K!ActiveKeys' \subseteq K!ActiveKeys, Inserting' \subseteq Inserting PROVE Within
  <2>1. /\ Cardinality(K!ActiveKeys') =< Cardinality(K!ActiveKeys)
        /\ Cardinality(Inserting') =< Cardinality(Inserting)
    BY <1>3, <1>4, FS_Subset
  <2> QED BY <1>2, <1>3, <2>1 DEF KeysInv
<1>5. ASSUME NEW c \in Clients, K!CountActive(c) PROVE Within
  <2>1. Cardinality(K!ActiveKeys') =< MaxKeys - 1
    <3>1. key' = key /\ Cardinality(K!ActiveKeys) < MaxKeys
      BY <1>5, KeysCounting DEF K!CountActive, K!Room
    <3> QED BY <1>2, <1>3, <3>1 DEF K!ActiveKeys
  <2>2. Cardinality(Inserting') =< Overlapping
    <3>1. CASE regime = "serial"
      <4>1. c \in Inserting'
        BY <1>5 DEF K!CountActive, K!Goto, Inserting, K!At, KeysInv, KeysTypes
      <4>2. \A d \in Inserting' : d = c
        BY <3>1, <4>1, <1>1, regime' = regime DEF OneRequest, OneAtATime, Inserting, K!At, KeysTypes
      <4>3. Inserting' = {c}
        BY <4>1, <4>2
      <4> QED BY <3>1, <4>3, FS_Singleton DEF Overlapping
    <3>2. CASE regime # "serial"
      BY <1>2, <3>2, FS_Subset DEF Overlapping, Inserting
    <3> QED BY <3>1, <3>2
  <2> QED BY <1>2, <1>3, <2>1, <2>2
<1>6. ASSUME NEW c \in Clients, K!Insert(c) PROVE Within
  <2>1. c \in Inserting /\ Inserting' = Inserting \ {c}
    BY <1>6 DEF K!Insert, K!Goto, Inserting, K!At, K!Idle, KeysInv, KeysTypes
  <2>2. CASE \E k \in Keys : K!ActiveKeys' = K!ActiveKeys \cup {k}
    <3>1. Cardinality(K!ActiveKeys') =< Cardinality(K!ActiveKeys) + 1
      BY <1>3, <2>2, FS_AddElement
    <3>2. Cardinality(Inserting') = Cardinality(Inserting) - 1
      BY <1>3, <2>1, FS_RemoveElement
    <3> QED BY <1>2, <1>3, <3>1, <3>2 DEF KeysInv
  <2>3. CASE key' = key
    BY <1>4, <2>1, <2>3 DEF K!ActiveKeys
  <2>4. ASSUME NEW k \in Keys, key' = [key EXCEPT ![k] = "active"] PROVE K!ActiveKeys' = K!ActiveKeys \cup {k}
    BY <2>4 DEF K!ActiveKeys, KeysInv, KeysTypes
  <2> QED BY <1>6, <2>2, <2>3, <2>4 DEF K!Insert
<1>7. ASSUME NEW c \in Clients, NEW k \in Keys, K!Revoke(c, k) PROVE Within
  <2>1. K!ActiveKeys' \subseteq K!ActiveKeys
    BY <1>7 DEF K!Revoke, K!ActiveKeys, KeysInv, KeysTypes
  <2>2. Inserting' \subseteq Inserting
    BY <1>7 DEF K!Revoke, K!Goto, Inserting, K!At, KeysInv, KeysTypes
  <2> QED BY <1>4, <2>1, <2>2
<1>8. ASSUME NEW cloud \in Clouds, K!Disconnect(cloud) PROVE Within
  <2>1. K!ActiveKeys' \subseteq K!ActiveKeys
    BY <1>8 DEF K!Disconnect, K!ActiveKeys, KeysInv, KeysTypes
  <2>2. Inserting' \subseteq Inserting
    BY <1>8 DEF K!Disconnect, Inserting, K!At
  <2> QED BY <1>4, <2>1, <2>2
<1>9. ASSUME NEW c \in Clients,
             K!Invalidate(c) \/ K!LoadCloud(c) \/ K!Fill(c) \/ K!Serve(c) \/ \E k \in Keys : K!AskCache(c, k)
      PROVE  Within
  <2>1. K!ActiveKeys' \subseteq K!ActiveKeys
    BY <1>9 DEF K!Invalidate, K!LoadCloud, K!Fill, K!Serve, K!AskCache, K!ActiveKeys
  <2>2. Inserting' \subseteq Inserting
    BY <1>9 DEF K!Invalidate, K!LoadCloud, K!Fill, K!Serve, K!AskCache, K!Goto, K!Idle, Inserting,
           K!At, KeysInv, KeysTypes, KeyTask
  <2> QED BY <1>4, <2>1, <2>2
<1>10. ASSUME (\E k \in Keys : K!Expire(k)) \/ UNCHANGED <<keysVars, task>> PROVE Within
  <2>1. UNCHANGED <<key, task>>
    BY <1>10 DEF K!Expire, keysVars
  <2>2. K!ActiveKeys' \subseteq K!ActiveKeys /\ Inserting' \subseteq Inserting
    BY <2>1 DEF K!ActiveKeys, Inserting, K!At
  <2> QED BY <1>4, <2>2
<1> QED BY <1>1, <1>3, <1>5, <1>6, <1>7, <1>8, <1>9, <1>10 DEF KeysInv, K!Next, K!Step

-----------------------------------------------------------------------------
(* Shares                                                                  *)

(* A row of file_shares.                                                   *)
ShareRow == [max : Limits, count : Nat, revoked : BOOLEAN, expired : BOOLEAN]

(* What a download under way may be at.                                    *)
Download == [at : {"file", "count", "stream"}, share : Nat, count : Nat]

(* Shares: types, and downloads of shares that are there.                  *)
SharesTypes ==
  /\ shares \in Seq(ShareRow) /\ begun \in Seq(Nat) /\ served \in Seq(Nat)
  /\ Len(begun) = Len(shares) /\ Len(served) = Len(shares)
  /\ task \in [Clients -> Download \cup {S!Idle}]
  /\ \A c \in Clients : ~S!At(c, "idle") => task[c].share \in DOMAIN shares

(* The counter a download read, and will write plus one, was below the     *)
(* limit.                                                                  *)
CountHasRoom ==
  \A c \in Clients : 
     (S!At(c, "file") \/ S!At(c, "count")) /\ S!Limited(task[c].share)
        => task[c].count < shares[task[c].share].max

(* One download at a time: it is counted before it is served, from a       *)
(* counter that is still so.                                               *)
ServedCounted ==
  /\ \A s \in DOMAIN shares : served[s] =< shares[s].count
  /\ \A c \in Clients :
       /\ S!At(c, "stream") => served[task[c].share] < shares[task[c].share].count
       /\ S!At(c, "file") \/ S!At(c, "count") => task[c].count = shares[task[c].share].count

(* What holds of shares at every step.                                     *)
SharesInv ==
  /\ SharesTypes /\ CountHasRoom /\ S!CountWithinLimit
  /\ regime = "serial" => ServedCounted

(* The shares' invariant holds at the start.                               *)
LEMMA SharesInit == S!Init => SharesInv
BY DEF S!Init, SharesInv, SharesTypes, CountHasRoom, S!CountWithinLimit, ServedCounted, S!At, S!Idle

(* It survives every step, and no step brings a share back.                *)
LEMMA SharesStep ==
  SharesInv /\ OneRequest /\ OneRequest' /\ regime' = regime /\ [S!Next]_<<sharesVars, task>>
    => SharesInv' /\ S!EndedStays
<1> SUFFICES ASSUME SharesInv, OneRequest, OneRequest', regime' = regime, [S!Next]_<<sharesVars, task>>
             PROVE  SharesInv' /\ S!EndedStays
  OBVIOUS
<1>0. Limits \subseteq Nat \cup {Unlimited}
  BY AccessAssumption DEF S!SharesAssumption
<1>00. DOMAIN shares \subseteq Nat /\ \A x \in DOMAIN shares : shares[x] \in ShareRow /\ shares[x].count \in Nat
  <2>1. DOMAIN shares \subseteq Nat /\ \A x \in DOMAIN shares : shares[x] \in ShareRow
    BY Elements DEF SharesInv, SharesTypes
  <2> QED BY <2>1 DEF ShareRow
<1>01. \A x \in DOMAIN shares : served[x] \in Nat
  BY SameDomain, Elements DEF SharesInv, SharesTypes
<1>1. ASSUME NEW max \in Limits, S!CreateShare(max) PROVE SharesInv' /\ S!EndedStays
  <2> DEFINE row == [max |-> max, count |-> 0, revoked |-> FALSE, expired |-> FALSE]
             new == Len(shares) + 1
  <2>1. row \in ShareRow
    BY DEF ShareRow
  <2>2. /\ shares' \in Seq(ShareRow) /\ Len(shares') = new
        /\ DOMAIN shares' = DOMAIN shares \cup {new} /\ new \notin DOMAIN shares
        /\ \A s \in DOMAIN shares : shares'[s] = shares[s]
        /\ shares'[new] = row
    BY <1>1, <2>1, Appended DEF S!CreateShare, SharesInv, SharesTypes
  <2>3. /\ begun' \in Seq(Nat) /\ served' \in Seq(Nat)
        /\ Len(begun') = new /\ Len(served') = new
        /\ \A s \in DOMAIN shares : served'[s] = served[s]
        /\ served'[new] = 0
    <3>1. DOMAIN served = DOMAIN shares
      BY SameDomain DEF SharesInv, SharesTypes
    <3> QED BY <1>1, <3>1, Appended DEF S!CreateShare, SharesInv, SharesTypes
  <2>4. task' = task
    BY <1>1 DEF S!CreateShare
  <2> HIDE DEF new
  <2>5. SharesTypes'
    BY <2>2, <2>3, <2>4 DEF SharesInv, SharesTypes, S!At
  <2>6. CountHasRoom'
    BY <2>2, <2>4 DEF SharesInv, SharesTypes, CountHasRoom, S!At, S!Limited, S!Idle, Download
  <2>7. S!CountWithinLimit'
    BY <1>0, <2>2 DEF SharesInv, S!CountWithinLimit, S!Limited
  <2>8. ASSUME ServedCounted PROVE ServedCounted'
    <3>1. \A s \in DOMAIN shares' : served'[s] =< shares'[s].count
      BY <2>2, <2>3, <2>8 DEF ServedCounted
    <3>2. \A c \in Clients : S!At(c, "idle") \/ task[c].share \in DOMAIN shares
      BY DEF SharesInv, SharesTypes
    <3>3. ASSUME NEW c \in Clients PROVE
       /\ S!At(c, "stream")' => served'[task'[c].share] < shares'[task'[c].share].count
       /\ S!At(c, "file")' \/ S!At(c, "count")' => task'[c].count = shares'[task'[c].share].count
      BY <2>2, <2>3, <2>4, <2>8, <3>2 DEF ServedCounted, S!At
    <3> QED BY <3>1, <3>3 DEF ServedCounted
  <2>9. S!EndedStays
    BY <2>2 DEF S!EndedStays
  <2> QED BY <2>5, <2>6, <2>7, <2>8, <2>9 DEF SharesInv
<1>2. ASSUME NEW s \in DOMAIN shares, S!Revoke(s) \/ S!Expire(s) PROVE SharesInv' /\ S!EndedStays
  <2>1. shares[s] \in ShareRow
    BY DEF SharesInv, SharesTypes
  <2>2. PICK row \in ShareRow :
          /\ shares' = [shares EXCEPT ![s] = row]
          /\ row.max = shares[s].max /\ row.count = shares[s].count
          /\ shares[s].revoked => row.revoked
          /\ shares[s].expired => row.expired
    <3>1. CASE S!Revoke(s)
      <4>1. [shares[s] EXCEPT !.revoked = TRUE] \in ShareRow
        BY <2>1 DEF ShareRow
      <4> QED BY <2>1, <3>1, <4>1 DEF S!Revoke, ShareRow
    <3>2. CASE S!Expire(s)
      <4>1. [shares[s] EXCEPT !.expired = TRUE] \in ShareRow
        BY <2>1 DEF ShareRow
      <4> QED BY <2>1, <3>2, <4>1 DEF S!Expire, ShareRow
    <3> QED BY <1>2, <3>1, <3>2
  <2>3. /\ shares' \in Seq(ShareRow) /\ Len(shares') = Len(shares)
        /\ DOMAIN shares' = DOMAIN shares
        /\ \A x \in DOMAIN shares : shares'[x] = IF x = s THEN row ELSE shares[x]
    BY <2>2, Replaced DEF SharesInv, SharesTypes
  <2>4. UNCHANGED <<task, begun, served>>
    BY <1>2 DEF S!Revoke, S!Expire
  <2>5. \A x \in DOMAIN shares :
          /\ shares'[x].max = shares[x].max /\ shares'[x].count = shares[x].count
          /\ shares[x].revoked => shares'[x].revoked
          /\ shares[x].expired => shares'[x].expired
    BY <2>2, <2>3
  <2>6. SharesTypes'
    BY <2>3, <2>4 DEF SharesInv, SharesTypes, S!At
  <2>7. CountHasRoom'
    BY <2>4, <2>5 DEF SharesInv, SharesTypes, CountHasRoom, S!At, S!Limited, S!Idle, Download
  <2>8. S!CountWithinLimit'
    BY <2>3, <2>5 DEF SharesInv, S!CountWithinLimit, S!Limited
  <2>9. ServedCounted => ServedCounted'
    BY <2>3, <2>4, <2>5 DEF SharesInv, SharesTypes, ServedCounted, S!At, S!Idle, Download
  <2> QED BY <2>5, <2>6, <2>7, <2>8, <2>9 DEF SharesInv, S!EndedStays
<1>3. ASSUME NEW s \in DOMAIN shares, NEW c \in Clients, S!LoadShare(c, s) PROVE SharesInv' /\ S!EndedStays
  <2>1. /\ begun' \in Seq(Nat) /\ Len(begun') = Len(shares)
        /\ UNCHANGED <<shares, served>>
    <3>1. s \in DOMAIN begun /\ begun[s] + 1 \in Nat
      BY SameDomain DEF SharesInv, SharesTypes
    <3> QED BY <1>3, <3>1, Replaced DEF S!LoadShare, SharesInv, SharesTypes
  <2>2. [at |-> "file", share |-> s, count |-> shares[s].count] \in Download
    BY <1>00 DEF Download
  <2>3. /\ task'[c] = [at |-> "file", share |-> s, count |-> shares[s].count]
        /\ task' \in [Clients -> Download \cup {S!Idle}]
        /\ \A d \in Clients \ {c} : task'[d] = task[d]
    BY <1>3, <2>2 DEF S!LoadShare, S!Goto, SharesInv, SharesTypes
  <2>4. S!Limited(s) => shares[s].count < shares[s].max
    BY <1>3 DEF S!LoadShare, S!Active, S!Limited
  <2>5. SharesTypes'
    <3>1. \A d \in Clients : ~S!At(d, "idle")' => task'[d].share \in DOMAIN shares
      BY <2>3 DEF SharesInv, SharesTypes, S!At
    <3> QED BY <2>1, <2>3, <3>1 DEF SharesInv, SharesTypes
  <2>6. CountHasRoom'
    BY <2>1, <2>3, <2>4 DEF SharesInv, CountHasRoom, S!At, S!Limited
  <2>7. S!CountWithinLimit'
    BY <2>1 DEF SharesInv, S!CountWithinLimit, S!Limited
  <2>8. ServedCounted => ServedCounted'
    BY <2>1, <2>3 DEF ServedCounted, S!At
  <2> QED BY <2>1, <2>5, <2>6, <2>7, <2>8 DEF SharesInv, S!EndedStays
<1>4. CASE S!DeleteFile \/ S!Connection \/ UNCHANGED <<sharesVars, task>>
  <2>1. UNCHANGED <<shares, task, begun, served>>
    BY <1>4 DEF S!DeleteFile, S!Connection, sharesVars
  <2> QED BY <2>1 DEF SharesInv, SharesTypes, CountHasRoom, ServedCounted, S!CountWithinLimit,
             S!EndedStays, S!At, S!Limited
<1>5. ASSUME NEW c \in Clients, S!LoadFile(c) \/ S!Stream(c) PROVE SharesInv' /\ S!EndedStays
  <2>1. UNCHANGED <<shares, begun>>
    BY <1>5 DEF S!LoadFile, S!Stream
  <2>2. /\ ~S!At(c, "idle") /\ task[c].share \in DOMAIN shares /\ task[c] \in Download
    BY <1>5 DEF S!LoadFile, S!Stream, S!At, S!Idle, SharesInv, SharesTypes
  <2>3. /\ task' \in [Clients -> Download \cup {S!Idle}]
        /\ \/ S!At(c, "idle")'
           \/ /\ S!At(c, "file") /\ S!At(c, "count")'
              /\ task'[c].share = task[c].share /\ task'[c].count = task[c].count
        /\ \A d \in Clients \ {c} : task'[d] = task[d]
    <3>1. [task[c] EXCEPT !.at = "count"] \in Download
      BY <2>2 DEF Download
    <3>2. CASE task' = [task EXCEPT ![c] = S!Idle]
      BY <3>2 DEF S!At, S!Idle, SharesInv, SharesTypes
    <3>3. CASE S!At(c, "file") /\ task' = [task EXCEPT ![c] = [task[c] EXCEPT !.at = "count"]]
      BY <2>2, <3>1, <3>3 DEF S!At, SharesInv, SharesTypes, Download
    <3> QED BY <1>5, <3>2, <3>3 DEF S!LoadFile, S!Stream, S!Goto, S!At
  <2>4. /\ served' \in Seq(Nat) /\ Len(served') = Len(served)
        /\ \/ served' = served
           \/ /\ S!At(c, "stream")
              /\ \A x \in DOMAIN shares :
                   served'[x] = IF x = task[c].share THEN served[x] + 1 ELSE served[x]
    <3>1. task[c].share \in DOMAIN served /\ DOMAIN served = DOMAIN shares
      BY <2>2, SameDomain DEF SharesInv, SharesTypes
    <3>2. served[task[c].share] + 1 \in Nat
      BY <3>1 DEF SharesInv, SharesTypes
    <3>3. CASE S!Stream(c) /\ online
      BY <3>1, <3>2, <3>3, Replaced DEF S!Stream, SharesInv, SharesTypes
    <3> QED BY <1>5, <3>3 DEF S!LoadFile, S!Stream, SharesInv, SharesTypes
  <2>5. SharesTypes'
    BY <2>1, <2>2, <2>3, <2>4 DEF SharesInv, SharesTypes, S!At
  <2>6. CountHasRoom'
    BY <2>1, <2>3 DEF SharesInv, CountHasRoom, S!At, S!Limited
  <2>7. S!CountWithinLimit'
    BY <2>1 DEF SharesInv, S!CountWithinLimit, S!Limited
  <2>8. ASSUME regime = "serial" PROVE ServedCounted'
    <3>1. \A d \in Clients \ {c} : S!At(d, "idle")
      BY <2>2, <2>8 DEF OneRequest, OneAtATime, S!At, SharesInv, SharesTypes
    <3>3. \A x \in DOMAIN shares' : served'[x] =< shares'[x].count
      <4>1. \A x \in DOMAIN shares : served[x] =< shares[x].count
        BY <2>8 DEF SharesInv, ServedCounted
      <4>2. S!At(c, "stream") => served[task[c].share] < shares[task[c].share].count
        BY <2>8 DEF SharesInv, ServedCounted
      <4> QED BY SMTT(30), <1>00, <1>01, <2>1, <2>4, <4>1, <4>2
    <3> QED BY <2>1, <2>3, <2>8, <3>1, <3>3 DEF SharesInv, ServedCounted, S!At
  <2> QED BY <2>1, <2>5, <2>6, <2>7, <2>8 DEF SharesInv, S!EndedStays
<1>6. ASSUME NEW c \in Clients, S!Count(c) PROVE SharesInv' /\ S!EndedStays
  <2> DEFINE s == task[c].share
             row == [shares[s] EXCEPT !.count = task[c].count + 1]
  <2>1. /\ S!At(c, "count") /\ s \in DOMAIN shares /\ task[c] \in Download
        /\ shares[s] \in ShareRow
    BY <1>6 DEF S!Count, S!At, S!Idle, SharesInv, SharesTypes
  <2>2. /\ row \in ShareRow /\ row.max = shares[s].max /\ row.count = task[c].count + 1
        /\ row.revoked = shares[s].revoked /\ row.expired = shares[s].expired
    BY <2>1 DEF ShareRow, Download
  <2>3. shares' = [shares EXCEPT ![s] = row]
    BY <1>6, <2>1 DEF S!Count, S!Counted, ShareRow
  <2>4. /\ shares' \in Seq(ShareRow) /\ Len(shares') = Len(shares)
        /\ DOMAIN shares' = DOMAIN shares
        /\ \A x \in DOMAIN shares : shares'[x] = IF x = s THEN row ELSE shares[x]
    BY <2>1, <2>2, <2>3, Replaced DEF SharesInv, SharesTypes
  <2>5. /\ task' \in [Clients -> Download \cup {S!Idle}]
        /\ task'[c].at = "stream" /\ task'[c].share = s
        /\ \A d \in Clients \ {c} : task'[d] = task[d]
    <3>1. [task[c] EXCEPT !.at = "stream"] \in Download
      BY <2>1 DEF Download
    <3> QED BY <1>6, <2>1, <3>1 DEF S!Count, S!Goto, SharesInv, SharesTypes, Download
  <2>6. UNCHANGED <<begun, served>>
    BY <1>6 DEF S!Count
  <2> HIDE DEF s, row
  <2>7. SharesTypes'
    BY <2>1, <2>4, <2>5, <2>6 DEF SharesInv, SharesTypes, S!At
  <2>8. CountHasRoom'
    <3>1. \A x \in DOMAIN shares : shares'[x].max = shares[x].max
      BY <2>2, <2>4
    <3>2. \A d \in Clients : S!At(d, "idle") \/ task[d].share \in DOMAIN shares
      BY DEF SharesInv, SharesTypes
    <3>3. ~(S!At(c, "file") \/ S!At(c, "count"))'
      BY <2>5 DEF S!At
    <3> QED BY <2>5, <3>1, <3>2, <3>3 DEF SharesInv, CountHasRoom, S!At, S!Limited
  <2>9. S!CountWithinLimit'
    <3>1. S!Limited(s) => row.count =< row.max
      <4>1. S!Limited(s) => task[c].count < shares[s].max
        BY <2>1 DEF SharesInv, CountHasRoom, S!At, s
      <4>2. S!Limited(s) => shares[s].max \in Nat
        BY <1>0, <2>1 DEF S!Limited, ShareRow
      <4> QED BY <2>1, <2>2, <4>1, <4>2 DEF Download
    <3> QED BY <2>1, <2>2, <2>4, <3>1 DEF SharesInv, S!CountWithinLimit, S!Limited
  <2>10. ASSUME regime = "serial" PROVE ServedCounted'
    <3>1. \A d \in Clients \ {c} : S!At(d, "idle")
      BY <2>1, <2>10 DEF OneRequest, OneAtATime, S!At, SharesInv, SharesTypes
    <3>2. task[c].count = shares[s].count
      BY <2>1, <2>10 DEF SharesInv, ServedCounted, S!At, s
    <3>4. \A x \in DOMAIN shares : served[x] =< shares[x].count
      BY <2>10 DEF SharesInv, ServedCounted
    <3>5. \A x \in DOMAIN shares' : served'[x] =< shares'[x].count
      BY <2>1, <2>2, <2>4, <2>6, <1>00, <1>01, <3>2, <3>4
    <3>6. served[s] < row.count
      BY <2>1, <2>2, <1>00, <1>01, <3>2, <3>4
    <3> QED BY <2>4, <2>5, <2>6, <2>1, <3>1, <3>5, <3>6 DEF ServedCounted, S!At, S!Idle
  <2>11. S!EndedStays
    BY <2>2, <2>4 DEF S!EndedStays
  <2> QED BY <2>7, <2>8, <2>9, <2>10, <2>11 DEF SharesInv
<1> QED BY <1>1, <1>2, <1>3, <1>4, <1>5, <1>6 DEF S!Next

-----------------------------------------------------------------------------
(* The scenes together                                                     *)

(* The serial regime has one request at a time.                            *)
LEMMA OneRequestAlways == Spec => []OneRequest
<1>1. Init => OneRequest
  <2> SUFFICES ASSUME Init, regime = "serial" PROVE OneAtATime
    BY DEF OneRequest
  <2>1. T!Init \/ A!Init \/ K!Init \/ S!Init
    BY DEF Init
  <2>2. \A c \in DOMAIN task : task[c].at = "idle"
    BY <2>1 DEF T!Init, A!Init, K!Init, S!Init, T!Idle, A!Idle, K!Idle, S!Idle
  <2> QED BY <2>2 DEF OneAtATime
<1>2. OneRequest /\ [Next]_vars => OneRequest'
  BY DEF OneRequest, OneAtATime, Next, vars
<1> QED BY <1>1, <1>2, PTL DEF Spec

(* The invariant of each scene holds while that scene is played.           *)
LEMMA TokensAlways == Spec => [](scene = "tokens" => TokensInv)
<1>1. Init => (scene = "tokens" => TokensInv)
  BY TokensInit DEF Init
<1>2. (scene = "tokens" => TokensInv) /\ OneRequest /\ OneRequest' /\ [Next]_vars
        => (scene = "tokens" => TokensInv)'
  <2>1. [Next]_vars => /\ scene' = scene /\ regime' = regime
                       /\ scene = "tokens" => [T!Next]_<<tokenVars, task>>
    BY DEF Next, vars
  <2> QED BY <2>1, TokensStep
<1> QED BY <1>1, <1>2, OneRequestAlways, PTL DEF Spec

LEMMA AppAlways == Spec => [](scene = "app" => AppInv)
<1>1. Init => (scene = "app" => AppInv)
  BY AppInit DEF Init
<1>2. (scene = "app" => AppInv) /\ OneRequest /\ OneRequest' /\ [Next]_vars => (scene = "app" => AppInv)'
  <2>1. [Next]_vars => /\ scene' = scene /\ regime' = regime
                       /\ scene = "app" => [A!Next]_<<appVars, task>>
    BY DEF Next, vars
  <2> QED BY <2>1, AppStep
<1> QED BY <1>1, <1>2, OneRequestAlways, PTL DEF Spec

LEMMA KeysAlways == Spec => [](scene = "keys" => KeysInv)
<1>1. Init => (scene = "keys" => KeysInv)
  BY KeysInit DEF Init
<1>2. (scene = "keys" => KeysInv) /\ OneRequest /\ OneRequest' /\ [Next]_vars => (scene = "keys" => KeysInv)'
  <2>1. [Next]_vars => /\ scene' = scene /\ regime' = regime
                       /\ scene = "keys" => [K!Next]_<<keysVars, task>>
    BY DEF Next, vars
  <2> QED BY <2>1, KeysStep
<1> QED BY <1>1, <1>2, OneRequestAlways, PTL DEF Spec

LEMMA SharesAlways == Spec => [](scene = "shares" => SharesInv)
<1>1. Init => (scene = "shares" => SharesInv)
  BY SharesInit DEF Init
<1>2. (scene = "shares" => SharesInv) /\ OneRequest /\ OneRequest' /\ [Next]_vars
        => (scene = "shares" => SharesInv)'
  <2>1. [Next]_vars => /\ scene' = scene /\ regime' = regime
                       /\ scene = "shares" => [S!Next]_<<sharesVars, task>>
    BY DEF Next, vars
  <2> QED BY <2>1, SharesStep
<1> QED BY <1>1, <1>2, OneRequestAlways, PTL DEF Spec

(* One account is ever the administrator, whatever crashes, foreign logins *)
(* and failing awaits there are, and no other rests in the session files,  *)
(* unless an operation was torn.                                           *)
THEOREM AdminIsTheOnlyOne == Spec => []OnlyTheAdmin
<1>1. LoginInv => OnlyTheAdmin
  BY DEF LoginInv, OnlyTheAdmin
<1> QED BY <1>1, LoginAlways, PTL

(* The account that is logged in is the one the flow was started for,      *)
(* though Telegram may still wait for the password of a cancelled flow.    *)
THEOREM FlowsLogInTheirOwn == Spec => FlowLogsInItsOwn
<1>1. LoginInv /\ [Next]_vars => [scene = "login" => L!FlowsOwn]_vars
  <2>1. [Next]_vars => [L!Next]_loginVars
    BY DEF Next, vars
  <2> QED BY <2>1, LoginStep
<1> QED BY <1>1, LoginAlways, PTL DEF Spec, FlowLogsInItsOwn

(* A one-time link opens one session at most, and with one request at a    *)
(* time /revoke ends all there is and nothing else does.                   *)
THEOREM LinksAndCookiesDoEnd == Spec => []LinksAndCookiesEnd
<1>1. (scene = "tokens" => TokensInv) => LinksAndCookiesEnd
  <2> SUFFICES ASSUME scene = "tokens", TokensInv PROVE LinksAndCookiesEnd
    BY DEF LinksAndCookiesEnd, Serial
  <2>1. T!LinkUsedOnce
    BY DEF TokensInv, SpentByOne, T!LinkUsedOnce
  <2>2. ASSUME regime = "serial" PROVE T!RevokeEnds /\ (crashes = 0 => T!FreshIsGood)
    <3>1. EpochsInOrder
      BY <2>2 DEF TokensInv
    <3>2. DOMAIN cookies \subseteq Nat /\ \A k \in DOMAIN cookies : cookies[k] \in Nat
      BY Elements DEF TokensInv, TokensTypes
    <3>3. T!RevokeEnds
      <4>1. ASSUME NEW k \in ended, T!Valid(k) PROVE FALSE
        <5>1. cookies[k] < T!Current /\ cookies[k] \in Nat
          BY <3>1, <3>2 DEF EpochsInOrder, TokensInv, TokensTypes
        <5> QED BY <4>1, <5>1 DEF T!Valid, T!Current
      <4> QED BY <3>1, <4>1 DEF T!RevokeEnds, EpochsInOrder
    <3>4. crashes = 0 => T!FreshIsGood
      BY <3>1 DEF EpochsInOrder, T!FreshIsGood, T!Valid, T!Current
    <3> QED BY <3>3, <3>4
  <2> QED BY <2>1, <2>2 DEF LinksAndCookiesEnd, Serial
<1> QED BY <1>1, TokensAlways, PTL

(* However calls overlap and the network fails, a session that was signed  *)
(* out of issues one access token more, and one for each lost connection;  *)
(* and with one call at a time the SDK is left with no dead session.       *)
THEOREM SignOutDoesHold == Spec => []SignOutHolds
<1>1. (scene = "app" => AppInv) => SignOutHolds
  <2> SUFFICES ASSUME scene = "app", AppInv PROVE SignOutHolds
    BY DEF SignOutHolds
  <2>1. A!FewTokensAfterSignOut
    <3> SUFFICES ASSUME NEW id \in DOMAIN sessions PROVE issuedDead[id] =< 1 + lost
      BY DEF A!FewTokensAfterSignOut
    <3>1. TokensOwed(id) =< 1 + lost
      BY DEF AppInv, FewTokens
    <3>2. orphans[id] \in Nat /\ issuedDead[id] \in Nat /\ lost \in Nat /\ Underway(id) \in {0, 1}
      BY AppElements DEF AppInv, Underway
    <3> QED BY <3>1, <3>2 DEF TokensOwed
  <2>2. regime = "serial" => A!BelievesLive
    BY DEF AppInv, SdkInStep, A!BelievesLive, A!Working
  <2> QED BY <2>1, <2>2 DEF SignOutHolds
<1> QED BY <1>1, AppAlways, PTL

(* No step brings back a revoked session or an ended share, and with one   *)
(* call at a time a refresh costs no live session.                         *)
THEOREM EndedDoStayEnded == Spec => EndedStaysEnded
<1>1. (scene = "app" => AppInv) /\ (scene = "shares" => SharesInv) /\ OneRequest /\ OneRequest' /\ [Next]_vars
        => [/\ scene = "app" => A!RevokedStay /\ (regime = "serial" => A!RefreshKeeps)
            /\ scene = "shares" => S!EndedStays]_vars
  <2>1. [Next]_vars => /\ scene' = scene /\ regime' = regime
                       /\ scene = "app" => [A!Next]_<<appVars, task>>
                       /\ scene = "shares" => [S!Next]_<<sharesVars, task>>
    BY DEF Next, vars
  <2> QED BY <2>1, AppActions, SharesStep
<1> QED BY <1>1, AppAlways, SharesAlways, OneRequestAlways, PTL DEF Spec, EndedStaysEnded

(* Overlapping requests pass the limit of keys by no more than themselves; *)
(* a share's counter never passes its limit; and one download at a time,   *)
(* it serves no more than that.                                            *)
THEOREM LimitsAreBounded == Spec => []LimitsBounded
<1>1. (scene = "keys" => KeysInv) /\ (scene = "shares" => SharesInv) => LimitsBounded
  <2>1. ASSUME KeysInv PROVE K!ActiveKeysWithin(Overlapping)
    <3>1. MaxKeys \in Nat
      BY AccessAssumption DEF K!PublicKeysAssumption
    <3>2. Cardinality(K!ActiveKeys) =< MaxKeys - 1 + Overlapping
      BY <2>1, <3>1, KeysFinite DEF KeysInv
    <3> QED BY <3>2, KeysCounting DEF K!ActiveKeysWithin
  <2>2. ASSUME SharesInv, regime = "serial" PROVE S!WithinLimit
    <3> SUFFICES ASSUME NEW s \in DOMAIN shares, S!Limited(s) PROVE served[s] =< shares[s].max
      BY DEF S!WithinLimit
    <3>1. served[s] =< shares[s].count /\ shares[s].count =< shares[s].max
      BY <2>2 DEF SharesInv, ServedCounted, S!CountWithinLimit
    <3>2. shares[s] \in ShareRow /\ served[s] \in Nat
      BY <2>2, Elements, SameDomain DEF SharesInv, SharesTypes
    <3>3. shares[s].count \in Nat /\ shares[s].max \in Nat
      BY <3>2, AccessAssumption DEF ShareRow, S!SharesAssumption, S!Limited
    <3> QED BY <3>1, <3>2, <3>3
  <2> QED BY <2>1, <2>2 DEF LimitsBounded, SharesInv
<1> QED BY <1>1, KeysAlways, SharesAlways, PTL
=============================================================================
