---------------------------- MODULE ReadersProofs ----------------------------
(***************************************************************************)
(* What is proved of the readers in MCReaders.  Of the change stream, for  *)
(* every set of streams and app users and every size of a page: what leaks *)
(* while rules are tightened is bounded, and a client that resumes misses  *)
(* nothing and gets nothing twice.  Of the listing, for every set of       *)
(* documents, writers and readers and every size of a page: a walk is      *)
(* sound.                                                                  *)
(***************************************************************************)
EXTENDS MCReaders, SequenceTheorems, FiniteSetTheorems, NaturalsInduction, WellFoundedInduction, TLAPS

-----------------------------------------------------------------------------
(* Least and greatest numbers *)

LEMMA Lowest ==
  ASSUME NEW T \in SUBSET Nat, T # {}
  PROVE  \E n \in T : \A m \in T : n =< m
<1>1. PICK n \in T : \A m \in T : ~(<<m, n>> \in OpToRel(<, Nat))
  BY NatLessThanWellFounded, WFMin
<1>2. ASSUME NEW m \in T PROVE n =< m
  <2>1. ~(m < n)
    BY <1>1 DEF OpToRel
  <2> QED BY <2>1
<1> QED BY <1>2

LEMMA Highest ==
  ASSUME NEW T \in SUBSET Nat, T # {}, NEW bound \in Nat, \A n \in T : n =< bound
  PROVE  \E n \in T : \A m \in T : m =< n
<1>1. PICK D : D = {bound - n : n \in T}
  OBVIOUS
<1>2. D \in SUBSET Nat /\ D # {}
  <2>1. ASSUME NEW n \in T PROVE bound - n \in Nat
    <3>1. n \in Nat /\ n =< bound
      OBVIOUS
    <3> QED BY <3>1
  <2> QED BY <1>1, <2>1
<1>3. PICK d \in D : \A e \in D : d =< e
  BY <1>2, Lowest
<1>4. PICK n \in T : d = bound - n
  BY <1>1, <1>3
<1>5. ASSUME NEW m \in T PROVE m =< n
  <2>1. bound - m \in D
    BY <1>1
  <2>2. bound - n =< bound - m
    BY <1>3, <1>4, <2>1
  <2> QED BY <2>2
<1> QED BY <1>5

-----------------------------------------------------------------------------
(* Operations and pages *)

OpRec == [id : Nat \ {0}, owner : AppUsers \cup {Guest}, tag : Nat, mine : BOOLEAN]
Unique(S) == \A op, o \in S : op.id = o.id => op = o

LEMMA FirstIsLeast ==
  ASSUME NEW S \in SUBSET OpRec, S # {}
  PROVE  First(S) \in S /\ \A o \in S : First(S).id =< o.id
<1>1. PICK T : T = {op.id : op \in S}
  OBVIOUS
<1>2. T \in SUBSET Nat /\ T # {}
  BY <1>1 DEF OpRec
<1>3. PICK n \in T : \A m \in T : n =< m
  BY <1>2, Lowest
<1>4. \E op \in S : \A o \in S : op.id =< o.id
  BY <1>1, <1>3
<1> QED BY <1>4 DEF First

(* A page holds Page operations at most, nothing on it comes after what is *)
(* not, and it is empty only if there is nothing.                          *)
LEMMA Pages ==
  ASSUME NEW S \in SUBSET OpRec, IsFiniteSet(S), Unique(S), NEW bound \in Nat, \A op \in S : op.id =< bound
  PROVE  /\ FirstPage(S) \in SUBSET S /\ IsFiniteSet(FirstPage(S))
         /\ Cardinality(FirstPage(S)) \in Nat /\ Cardinality(FirstPage(S)) =< Page
         /\ S # {} => FirstPage(S) # {}
         /\ \A op \in S \ FirstPage(S), p \in FirstPage(S) : op.id > p.id
<1>0. Page \in Nat \ {0}
  BY EventStreamAssumption
<1>1. \A op \in S : op.id \in Nat
  BY DEF OpRec
<1>2. FirstPage(S) \in SUBSET S /\ IsFiniteSet(FirstPage(S)) /\ Cardinality(FirstPage(S)) \in Nat
  BY FS_Subset, FS_CardinalityType DEF FirstPage
<1>3. ASSUME NEW op \in S
      PROVE  IsFiniteSet({o \in S : o.id < op.id}) /\ Cardinality({o \in S : o.id < op.id}) \in Nat
  <2>1. {o \in S : o.id < op.id} \in SUBSET S
    OBVIOUS
  <2> QED BY <2>1, FS_Subset, FS_CardinalityType
<1>4. ASSUME S # {} PROVE FirstPage(S) # {}
  <2>1. First(S) \in S /\ \A o \in S : First(S).id =< o.id
    BY <1>4, FirstIsLeast
  <2>2. {o \in S : o.id < First(S).id} = {}
    BY <1>1, <2>1
  <2>3. Cardinality({o \in S : o.id < First(S).id}) = 0
    BY <2>2, FS_EmptySet
  <2>4. First(S) \in FirstPage(S)
    BY <1>0, <2>1, <2>3 DEF FirstPage
  <2> QED BY <2>4
<1>5. ASSUME NEW op \in S \ FirstPage(S), NEW p \in FirstPage(S) PROVE op.id > p.id
  <2>1. SUFFICES ASSUME op.id =< p.id PROVE FALSE
    BY <1>1, <1>2
  <2>2. PICK A, B : A = {o \in S : o.id < op.id} /\ B = {o \in S : o.id < p.id}
    OBVIOUS
  <2>3. A \in SUBSET B
    BY <1>1, <1>2, <2>1, <2>2
  <2>4. IsFiniteSet(B) /\ Cardinality(B) \in Nat /\ Cardinality(A) \in Nat
    BY <1>2, <1>3, <2>2
  <2>5. Cardinality(A) =< Cardinality(B)
    BY <2>3, <2>4, FS_Subset
  <2>6. Cardinality(B) < Page /\ ~(Cardinality(A) < Page)
    BY <2>2 DEF FirstPage
  <2> QED BY <1>0, <2>4, <2>5, <2>6
<1>6. Cardinality(FirstPage(S)) =< Page
  <2>1. CASE FirstPage(S) = {}
    BY <1>0, <2>1, FS_EmptySet
  <2>2. CASE FirstPage(S) # {}
    <3>1. PICK T : T = {op.id : op \in FirstPage(S)}
      OBVIOUS
    <3>2. T \in SUBSET Nat /\ T # {} /\ \A n \in T : n =< bound
      BY <1>1, <1>2, <2>2, <3>1
    <3>3. PICK n \in T : \A m \in T : m =< n
      BY <3>2, Highest
    <3>4. PICK p \in FirstPage(S) : n = p.id
      BY <3>1
    <3>5. \A op \in FirstPage(S) : op.id =< p.id
      BY <3>1, <3>3, <3>4
    <3>6. PICK A : A = {o \in S : o.id < p.id}
      OBVIOUS
    <3>7. FirstPage(S) \ {p} \in SUBSET A
      BY <1>1, <1>2, <3>5, <3>6 DEF Unique
    <3>8. IsFiniteSet(A) /\ Cardinality(A) \in Nat /\ Cardinality(A) < Page
      BY <1>2, <1>3, <3>6 DEF FirstPage
    <3>9. Cardinality(FirstPage(S) \ {p}) =< Cardinality(A)
      BY <3>7, <3>8, FS_Subset
    <3>10. Cardinality(FirstPage(S) \ {p}) = Cardinality(FirstPage(S)) - 1
      BY <1>2, FS_RemoveElement
    <3> QED BY <1>0, <1>2, <3>8, <3>9, <3>10
  <2> QED BY <2>1, <2>2
<1> QED BY <1>2, <1>4, <1>5, <1>6

-----------------------------------------------------------------------------
(* Types *)

Places == {"off", "poll", "checked", "send", "sleep"}
StreamRec ==
  [at : Places, who : AppUsers \cup {Guest, Owner}, resumes : BOOLEAN, since : Nat,
   last : Nat, page : SUBSET OpRec, under : Rules \cup {"none"}]
LogRec == [owner : AppUsers \cup {Guest}, rule : Rules]

(* An operation of the collection is one that was written.                 *)
Logged(op) == op.mine /\ op.tag \in DOMAIN written /\ written[op.tag].owner = op.owner

Paged(s) ==
  /\ At(s, "send") <=> stream[s].page # {}
  /\ IsFiniteSet(stream[s].page) /\ Cardinality(stream[s].page) =< Page
  /\ \A op \in stream[s].page : Logged(op)

TypeInv ==
  /\ rule \in Rules \cup {"none"} /\ rules \in Nat /\ drops \in Nat
  /\ ops \in SUBSET OpRec /\ IsFiniteSet(ops) /\ Unique(ops)
  /\ \E bound \in Nat : \A op \in ops : op.id =< bound
  /\ written \in Seq(LogRec) /\ \A op \in ops : op.mine => Logged(op)
  /\ stream \in [Streams -> StreamRec]
  /\ leaked \in [Streams -> Nat] /\ got \in [Streams -> Seq(Nat)]
  /\ \A s \in Streams : Paged(s)

LEMMA Fresh ==
  ASSUME TypeInv
  PROVE  NextId \in Nat \ {0} /\ \A op \in ops : op.id < NextId
<1>1. PICK T : T = {0} \cup {op.id : op \in ops}
  OBVIOUS
<1>2. PICK bound \in Nat : \A op \in ops : op.id =< bound
  BY DEF TypeInv
<1>3. T \in SUBSET Nat /\ T # {} /\ \A n \in T : n =< bound
  BY <1>1, <1>2 DEF TypeInv, OpRec
<1>4. PICK n \in T : \A m \in T : m =< n
  BY <1>3, Highest
<1>5. \A m \in T : n >= m
  BY <1>3, <1>4
<1>6. Max(T) \in T /\ \A m \in T : Max(T) >= m
  BY <1>4, <1>5 DEF Max
<1>7. NextId = 1 + Max(T)
  BY <1>1 DEF NextId
<1>8. Max(T) \in Nat /\ \A m \in T : m < NextId
  <2>1. Max(T) \in Nat /\ \A m \in T : m \in Nat /\ Max(T) >= m
    BY <1>3, <1>6
  <2> QED BY <1>7, <2>1
<1>9. \A op \in ops : op.id \in T
  BY <1>1
<1> QED BY <1>7, <1>8, <1>9

(* An operation is appended.                                               *)
LEMMA Adding ==
  ASSUME TypeInv, NEW new \in OpRec, new.id = NextId, ops' = ops \cup {new}
  PROVE  /\ ops' \in SUBSET OpRec /\ IsFiniteSet(ops') /\ Unique(ops')
         /\ \E bound \in Nat : \A op \in ops' : op.id =< bound
         /\ new \notin ops /\ \A op \in ops : op.id < new.id
<1>1. NextId \in Nat \ {0} /\ \A op \in ops : op.id < NextId /\ op.id \in Nat
  BY Fresh DEF TypeInv, OpRec
<1>2. ops' \in SUBSET OpRec /\ IsFiniteSet(ops') /\ new \notin ops
  BY <1>1, FS_AddElement DEF TypeInv
<1>3. Unique(ops')
  BY <1>1 DEF TypeInv, Unique
<1>4. \A op \in ops' : op.id =< NextId
  BY <1>1
<1> QED BY <1>1, <1>2, <1>3, <1>4

LEMMA HasWritten ==
  ASSUME TypeInv, NEW owner \in AppUsers \cup {Guest}, Write(owner)
  PROVE  /\ rule # "none" /\ UNCHANGED <<rule, stream, got, leaked, breaks, rules, drops>>
         /\ written' \in Seq(LogRec) /\ DOMAIN written \in SUBSET DOMAIN written'
         /\ \A tag \in DOMAIN written : written'[tag] = written[tag] /\ tag \in Nat
         /\ \E new \in OpRec :
              /\ ops' = ops \cup {new} /\ new.id = NextId /\ new.mine
              /\ \A tag \in DOMAIN written : tag < new.tag
              /\ new.tag \in DOMAIN written' /\ written'[new.tag].owner = new.owner
<1>1. PICK row : row = [owner |-> owner, rule |-> rule]
  OBVIOUS
<1>2. rule # "none" /\ row \in LogRec /\ row.owner = owner
  BY <1>1 DEF TypeInv, LogRec, Write
<1>3. written' = Append(written, row) /\ written \in Seq(LogRec)
  BY <1>1 DEF Write, TypeInv
<1>4. /\ written' \in Seq(LogRec) /\ Len(written') = Len(written) + 1 /\ DOMAIN written' = DOMAIN written \cup {Len(written')}
      /\ \A tag \in DOMAIN written : written'[tag] = written[tag] /\ tag < Len(written') /\ tag \in Nat
      /\ written'[Len(written')] = row /\ Len(written') \in Nat
  BY <1>2, <1>3
<1>5. PICK new : new = [id |-> NextId, owner |-> owner, tag |-> Len(written'), mine |-> TRUE]
  OBVIOUS
<1>6. new \in OpRec /\ new.id = NextId /\ new.owner = owner /\ new.tag = Len(written') /\ new.mine
  BY <1>4, <1>5, Fresh DEF OpRec
<1>7. ops' = ops \cup {new}
  BY <1>5 DEF Write
<1> QED BY <1>2, <1>4, <1>6, <1>7 DEF Write

LEMMA HasWrittenElsewhere ==
  ASSUME TypeInv, WriteElsewhere
  PROVE  /\ UNCHANGED <<rule, stream, got, written, leaked, breaks, rules, drops>>
         /\ \E new \in OpRec : ops' = ops \cup {new} /\ new.id = NextId /\ ~new.mine
<1>1. PICK new : new = [id |-> NextId, owner |-> Guest, tag |-> 0, mine |-> FALSE]
  OBVIOUS
<1>2. new \in OpRec /\ new.id = NextId /\ ~new.mine
  BY <1>1, Fresh DEF OpRec
<1> QED BY <1>1, <1>2 DEF WriteElsewhere

(* A stream moves on, and the others stay where they are.                  *)
LEMMA Moves ==
  ASSUME TypeInv, NEW s \in Streams, NEW t \in StreamRec, Goto(s, t)
  PROVE  /\ stream' \in [Streams -> StreamRec] /\ stream'[s] = t
         /\ \A x \in Streams : x # s => stream'[x] = stream[x]
BY DEF TypeInv, Goto

(* What a client asked for stays what it is.                               *)
SameClient(t, u) == t.who = u.who /\ t.resumes = u.resumes
SamePlace(t, u) == SameClient(t, u) /\ t.since = u.since /\ t.last = u.last /\ t.page = u.page /\ t.under = u.under

LEMMA Records ==
  ASSUME NEW t \in StreamRec
  PROVE  /\ \A at \in Places : /\ [t EXCEPT !.at = at] \in StreamRec /\ [t EXCEPT !.at = at].at = at
                               /\ SamePlace([t EXCEPT !.at = at], t)
         /\ t.since \in Nat /\ t.last \in Nat /\ t.page \in SUBSET OpRec /\ t.resumes \in BOOLEAN
         /\ t.at \in Places
<1>1. ASSUME NEW at \in Places
      PROVE  [t EXCEPT !.at = at] \in StreamRec /\ [t EXCEPT !.at = at].at = at /\ SamePlace([t EXCEPT !.at = at], t)
  BY DEF StreamRec, SamePlace, SameClient
<1>2. t.since \in Nat /\ t.last \in Nat /\ t.page \in SUBSET OpRec /\ t.resumes \in BOOLEAN /\ t.at \in Places
  BY DEF StreamRec
<1> QED BY <1>1, <1>2

LEMMA HasOpened ==
  ASSUME TypeInv, NEW s \in Streams, Open(s)
  PROVE  /\ UNCHANGED <<rule, ops, got, written, leaked, breaks, rules, drops>> /\ At(s, "off")
         /\ \E t \in StreamRec : /\ Goto(s, t) /\ SameClient(t, stream[s]) /\ t.at = "poll"
                                 /\ t.since = stream[s].since /\ t.last = t.since /\ t.page = stream[s].page
<1>1. PICK u : u = stream[s]
  OBVIOUS
<1>2. u \in StreamRec
  BY <1>1 DEF TypeInv
<1>3. PICK t : t = [u EXCEPT !.at = "poll", !.last = u.since]
  OBVIOUS
<1>4. /\ t \in StreamRec /\ SameClient(t, u) /\ t.at = "poll" /\ t.since = u.since
      /\ t.last = t.since /\ t.page = u.page
  BY <1>2, <1>3 DEF StreamRec, Places, SameClient
<1>5. Goto(s, t)
  BY <1>1, <1>3 DEF Open
<1> QED BY <1>1, <1>4, <1>5 DEF Open

LEMMA HasClosed ==
  ASSUME TypeInv, NEW s \in Streams, Goto(s, Closed(s))
  PROVE  \E t \in StreamRec : /\ Goto(s, t) /\ SameClient(t, stream[s]) /\ t.at = "off"
                              /\ t.since = stream[s].since /\ t.page = {}
<1>1. PICK u : u = stream[s]
  OBVIOUS
<1>2. u.who \in AppUsers \cup {Guest, Owner} /\ u.resumes \in BOOLEAN /\ u.since \in Nat
  BY <1>1 DEF TypeInv, StreamRec
<1>3. PICK t : t = Closed(s)
  OBVIOUS
<1>4. t = [at |-> "off", who |-> u.who, resumes |-> u.resumes, since |-> u.since,
           last |-> 0, page |-> {}, under |-> "none"]
  BY <1>1, <1>3 DEF Closed, Off
<1>5. t \in StreamRec /\ SameClient(t, u) /\ t.at = "off" /\ t.since = u.since /\ t.page = {}
  BY <1>2, <1>4 DEF StreamRec, Places, SameClient
<1> QED BY <1>1, <1>3, <1>5

LEMMA HasChecked ==
  ASSUME TypeInv, NEW s \in Streams, CheckRule(s)
  PROVE  /\ UNCHANGED <<rule, ops, got, written, leaked, breaks, rules, drops>> /\ At(s, "poll")
         /\ \/ /\ rule # "none" /\ MayRead(stream[s].who, rule)
               /\ \E t \in StreamRec : /\ Goto(s, t) /\ SameClient(t, stream[s]) /\ t.at = "checked" /\ t.under = rule
                                       /\ t.since = stream[s].since /\ t.last = stream[s].last /\ t.page = stream[s].page
            \/ Goto(s, Closed(s))
<1>1. PICK u : u = stream[s]
  OBVIOUS
<1>2. u \in StreamRec /\ rule \in Rules \cup {"none"}
  BY <1>1 DEF TypeInv
<1>3. PICK t : t = [u EXCEPT !.at = "checked", !.under = rule]
  OBVIOUS
<1>4. /\ t \in StreamRec /\ SameClient(t, u) /\ t.at = "checked" /\ t.under = rule /\ t.since = u.since
      /\ t.last = u.last /\ t.page = u.page
  BY <1>2, <1>3 DEF StreamRec, Places, SameClient
<1>5. CASE Allowed(s)
  <2>1. Goto(s, t)
    BY <1>1, <1>3, <1>5 DEF CheckRule
  <2> QED BY <1>1, <1>4, <1>5, <2>1 DEF CheckRule, Allowed
<1>6. CASE ~Allowed(s)
  BY <1>6 DEF CheckRule
<1> QED BY <1>5, <1>6

LEMMA HasSelected ==
  ASSUME TypeInv, NEW s \in Streams, SelectOps(s)
  PROVE  /\ UNCHANGED <<rule, ops, got, written, leaked, breaks, rules, drops>> /\ At(s, "checked")
         /\ New(s) \in SUBSET ops /\ FirstPage(New(s)) \in SUBSET New(s)
         /\ IsFiniteSet(FirstPage(New(s))) /\ Cardinality(FirstPage(New(s))) =< Page
         /\ New(s) # {} => FirstPage(New(s)) # {}
         /\ \A op \in New(s) \ FirstPage(New(s)), p \in FirstPage(New(s)) : op.id > p.id
         /\ \E t \in StreamRec : /\ Goto(s, t) /\ SameClient(t, stream[s]) /\ t.since = stream[s].since
                                 /\ t.last = stream[s].last /\ t.page = FirstPage(New(s))
                                 /\ t.at = IF t.page = {} THEN "sleep" ELSE "send"
<1>1. PICK u : u = stream[s]
  OBVIOUS
<1>2. u \in StreamRec
  BY <1>1 DEF TypeInv
<1>3. PICK S : S = New(s)
  OBVIOUS
<1>4. PICK bound \in Nat : \A op \in ops : op.id =< bound
  BY DEF TypeInv
<1>5. S \in SUBSET ops /\ IsFiniteSet(ops) /\ ops \in SUBSET OpRec /\ Unique(ops)
  BY <1>3 DEF New, TypeInv
<1>6. S \in SUBSET OpRec /\ IsFiniteSet(S) /\ Unique(S) /\ \A op \in S : op.id =< bound
  BY <1>4, <1>5, FS_Subset DEF Unique
<1>7. /\ FirstPage(S) \in SUBSET S /\ IsFiniteSet(FirstPage(S))
      /\ Cardinality(FirstPage(S)) =< Page /\ (S # {} => FirstPage(S) # {})
      /\ \A op \in S \ FirstPage(S), p \in FirstPage(S) : op.id > p.id
  BY <1>6, Pages
<1>8. PICK P : P = FirstPage(S)
  OBVIOUS
<1>9. PICK at : at = IF P = {} THEN "sleep" ELSE "send"
  OBVIOUS
<1>10. PICK t : t = [u EXCEPT !.at = at, !.page = P]
  OBVIOUS
<1>11. P \in SUBSET OpRec /\ at \in Places /\ (P = {} <=> S = {})
  BY <1>6, <1>7, <1>8, <1>9 DEF Places
<1>12. t \in StreamRec /\ SameClient(t, u) /\ t.at = at /\ t.since = u.since /\ t.last = u.last /\ t.page = P
  BY <1>2, <1>10, <1>11 DEF StreamRec, SameClient
<1>13. Goto(s, [u EXCEPT !.at = at, !.page = P])
  BY <1>1, <1>3, <1>8, <1>9, <1>11 DEF SelectOps
<1>14. /\ UNCHANGED <<rule, ops, got, written, leaked, breaks, rules, drops>> /\ At(s, "checked")
  BY DEF SelectOps
<1> QED BY <1>1, <1>3, <1>5, <1>7, <1>8, <1>9, <1>10, <1>12, <1>13, <1>14

LEMMA HasSent ==
  ASSUME TypeInv, NEW s \in Streams, Send(s)
  PROVE  /\ UNCHANGED <<rule, ops, written, breaks, rules, drops>> /\ At(s, "send")
         /\ \E op \in stream[s].page, t \in StreamRec :
              /\ \A o \in stream[s].page : op.id =< o.id
              /\ got' = [got EXCEPT ![s] = Append(@, op.tag)]
              /\ leaked' = [leaked EXCEPT ![s] =
                              @ + IF HiddenWhenWritten(s, op.tag) /\ HiddenNow(s, op.tag) THEN 1 ELSE 0]
              /\ Goto(s, t) /\ SameClient(t, stream[s]) /\ t.last = op.id
              /\ t.page = stream[s].page \ {op} /\ t.at = IF t.page = {} THEN "sleep" ELSE "send"
              /\ t.since = IF t.resumes THEN op.id ELSE stream[s].since
<1>1. PICK u : u = stream[s]
  OBVIOUS
<1>2. u \in StreamRec /\ u.page # {} /\ u.page \in SUBSET OpRec /\ u.since \in Nat
  <2>1. u \in StreamRec /\ u.page # {}
    BY <1>1 DEF TypeInv, Paged, Send
  <2> QED BY <2>1, Records
<1>3. PICK op : op = First(u.page)
  OBVIOUS
<1>4. op \in u.page /\ (\A o \in u.page : op.id =< o.id) /\ op.id \in Nat
  BY <1>2, <1>3, FirstIsLeast DEF OpRec
<1>5. PICK P, at, from :
        /\ P = u.page \ {op} /\ at = (IF P = {} THEN "sleep" ELSE "send")
        /\ from = (IF u.resumes THEN op.id ELSE u.since)
  OBVIOUS
<1>6. P \in SUBSET OpRec /\ at \in Places /\ from \in Nat
  BY <1>2, <1>4, <1>5 DEF Places
<1>7. PICK t : t = [u EXCEPT !.last = op.id, !.page = P, !.since = from, !.at = at]
  OBVIOUS
<1>8. t \in StreamRec /\ SameClient(t, u) /\ t.at = at /\ t.since = from /\ t.last = op.id /\ t.page = P
  BY <1>2, <1>4, <1>6, <1>7 DEF StreamRec, SameClient
<1>9. Goto(s, [u EXCEPT !.last = op.id, !.page = P, !.since = from, !.at = at])
  BY <1>1, <1>3, <1>5 DEF Send, Sent
<1>10. /\ UNCHANGED <<rule, ops, written, breaks, rules, drops>> /\ At(s, "send")
       /\ got' = [got EXCEPT ![s] = Append(@, op.tag)]
       /\ leaked' = [leaked EXCEPT ![s] = @ + IF HiddenWhenWritten(s, op.tag) /\ HiddenNow(s, op.tag) THEN 1 ELSE 0]
  BY <1>1, <1>3 DEF Send
<1>11. t.resumes = u.resumes
  BY <1>8 DEF SameClient
<1>12. Goto(s, t)
  BY <1>7, <1>9
<1>13. SameClient(t, stream[s]) /\ t.last = op.id /\ t.page = stream[s].page \ {op} /\ t.at = IF t.page = {} THEN "sleep" ELSE "send"
  BY <1>1, <1>5, <1>8
<1>14. t.since = IF t.resumes THEN op.id ELSE stream[s].since
  BY <1>1, <1>5, <1>8, <1>11
<1> QED BY <1>1, <1>4, <1>8, <1>10, <1>12, <1>13, <1>14

LEMMA HasSlept ==
  ASSUME TypeInv, NEW s \in Streams, Sleep(s)
  PROVE  /\ UNCHANGED <<rule, ops, got, written, leaked, breaks, rules, drops>> /\ At(s, "sleep")
         /\ \E t \in StreamRec : /\ Goto(s, t) /\ SamePlace(t, stream[s]) /\ t.at = "poll"
<1>1. stream[s] \in StreamRec
  BY DEF TypeInv
<1>2. PICK t : t = [stream[s] EXCEPT !.at = "poll"]
  OBVIOUS
<1>3. t \in StreamRec /\ SamePlace(t, stream[s]) /\ t.at = "poll"
  BY <1>1, <1>2, Records DEF Places
<1> QED BY <1>2, <1>3 DEF Sleep

LEMMA TypeStart ==
  ASSUME NEW who \in [Streams -> AppUsers \cup {Guest, Owner}], NEW resumes \in [Streams -> BOOLEAN],
         stream = [s \in Streams |-> Off(who[s], resumes[s], 0)],
         rule \in Rules \cup {"none"}, ops = {}, got = [s \in Streams |-> <<>>], written = <<>>,
         leaked = [s \in Streams |-> 0], rules = 0, drops = 0
  PROVE  TypeInv
<1>1. ASSUME NEW s \in Streams
      PROVE  /\ stream[s] \in StreamRec /\ stream[s].at = "off" /\ stream[s].page = {}
  BY DEF Off, StreamRec, Places
<1>2. stream \in [Streams -> StreamRec]
  BY <1>1
<1>3. \A s \in Streams : Paged(s)
  <2>1. IsFiniteSet({}) /\ Cardinality({}) = 0 /\ 0 =< Page
    BY FS_EmptySet, EventStreamAssumption
  <2> QED BY <1>1, <2>1 DEF Paged, At
<1>4. \E bound \in Nat : \A op \in ops : op.id =< bound
  OBVIOUS
<1> QED BY <1>2, <1>3, <1>4, FS_EmptySet DEF TypeInv, Unique

LEMMA TypeInit == Init => TypeInv
<1> SUFFICES ASSUME Init PROVE TypeInv
  OBVIOUS
<1>1. PICK who \in [Streams -> AppUsers \cup {Guest, Owner}], resumes \in [Streams -> BOOLEAN] :
        stream = [s \in Streams |-> Off(who[s], resumes[s], 0)]
  BY DEF Init
<1>2. rule \in Rules /\ ops = {} /\ got = [s \in Streams |-> <<>>] /\ written = <<>> /\ leaked = [s \in Streams |-> 0]
      /\ rules = 0 /\ drops = 0
  BY DEF Init, Rules
<1> QED BY <1>1, <1>2, TypeStart

(* A stream's page is as it was, shorter, or new.                          *)
LEMMA StillPaged ==
  ASSUME TypeInv, NEW s \in Streams, NEW t \in StreamRec, Goto(s, t), UNCHANGED written,
         (t.at = "send") <=> (t.page # {}),
         IsFiniteSet(t.page), Cardinality(t.page) =< Page, \A op \in t.page : Logged(op)
  PROVE  stream' \in [Streams -> StreamRec] /\ \A x \in Streams : Paged(x)'
<1>1. /\ stream' \in [Streams -> StreamRec] /\ stream'[s] = t
      /\ \A x \in Streams : x # s => stream'[x] = stream[x]
  BY Moves
<1>2. \A op : Logged(op)' <=> Logged(op)
  BY DEF Logged
<1>3. Paged(s)'
  BY <1>1, <1>2 DEF Paged, At
<1>4. ASSUME NEW x \in Streams, x # s PROVE Paged(x)'
  <2>1. Paged(x) /\ stream'[x] = stream[x]
    BY <1>1, <1>4 DEF TypeInv
  <2> QED BY <1>2, <2>1 DEF Paged, At
<1> QED BY <1>1, <1>3, <1>4

LEMMA StillTyped ==
  ASSUME TypeInv, UNCHANGED <<rule, ops, written, rules, drops>>,
         stream' \in [Streams -> StreamRec], \A x \in Streams : Paged(x)',
         leaked' \in [Streams -> Nat], got' \in [Streams -> Seq(Nat)]
  PROVE  TypeInv'
BY DEF TypeInv, Logged

LEMMA TypeStep ==
  ASSUME TypeInv, Next
  PROVE  TypeInv'
<1>e. IsFiniteSet({}) /\ Cardinality({}) = 0 /\ Page \in Nat
  BY FS_EmptySet, EventStreamAssumption
<1>p. ASSUME NEW s \in Streams
      PROVE  /\ At(s, "send") <=> stream[s].page # {}
             /\ IsFiniteSet(stream[s].page) /\ Cardinality(stream[s].page) =< Page
             /\ \A op \in stream[s].page : Logged(op)
  BY DEF TypeInv, Paged
<1>g. leaked \in [Streams -> Nat] /\ got \in [Streams -> Seq(Nat)]
  BY DEF TypeInv
<1>1. ASSUME NEW owner \in AppUsers \cup {Guest}, Write(owner) PROVE TypeInv'
  <2>1. PICK new \in OpRec :
              /\ ops' = ops \cup {new} /\ new.id = NextId /\ new.mine
              /\ new.tag \in DOMAIN written' /\ written'[new.tag].owner = new.owner
    BY <1>1, HasWritten
  <2>2. /\ UNCHANGED <<rule, stream, got, leaked, rules, drops>>
        /\ written' \in Seq(LogRec) /\ DOMAIN written \in SUBSET DOMAIN written'
        /\ \A tag \in DOMAIN written : written'[tag] = written[tag]
    BY <1>1, HasWritten
  <2>3. /\ ops' \in SUBSET OpRec /\ IsFiniteSet(ops') /\ Unique(ops')
        /\ \E bound \in Nat : \A op \in ops' : op.id =< bound
    BY <2>1, Adding
  <2>4. \A op : Logged(op) => Logged(op)'
    BY <2>2 DEF Logged
  <2>5. \A op \in ops' : op.mine => Logged(op)'
    BY <2>1, <2>2, <2>4 DEF Logged, TypeInv
  <2>6. \A x \in Streams : Paged(x)'
    BY <2>2, <2>4 DEF TypeInv, Paged, At
  <2> QED BY <2>2, <2>3, <2>5, <2>6 DEF TypeInv
<1>2. ASSUME WriteElsewhere PROVE TypeInv'
  <2>1. PICK new \in OpRec : ops' = ops \cup {new} /\ new.id = NextId /\ ~new.mine
    BY <1>2, HasWrittenElsewhere
  <2>2. UNCHANGED <<rule, stream, got, written, leaked, breaks, rules, drops>>
    BY <1>2, HasWrittenElsewhere
  <2>3. /\ ops' \in SUBSET OpRec /\ IsFiniteSet(ops') /\ Unique(ops')
        /\ \E bound \in Nat : \A op \in ops' : op.id =< bound
    BY <2>1, Adding
  <2> QED BY <2>1, <2>2, <2>3 DEF TypeInv, Logged, Paged, At
<1>3. ASSUME NEW r \in Rules, SetRule(r) PROVE TypeInv'
  <2>1. rule' \in Rules /\ rules' = rules + 1 /\ UNCHANGED <<ops, stream, got, written, leaked, breaks, drops>>
    BY <1>3 DEF SetRule
  <2>2. rules' \in Nat
    BY <2>1 DEF TypeInv
  <2>3. \A op : Logged(op)' <=> Logged(op)
    BY <2>1 DEF Logged
  <2>4. \A x \in Streams : Paged(x)'
    BY <2>1, <2>3 DEF TypeInv, Paged, At
  <2> QED BY <2>1, <2>2, <2>3, <2>4 DEF TypeInv
<1>4. ASSUME Drop PROVE TypeInv'
  <2>1. ops' \in SUBSET ops /\ rule' = "none" /\ drops' = drops + 1
        /\ UNCHANGED <<stream, got, written, leaked, breaks, rules>>
    BY <1>4 DEF Drop
  <2>2. IsFiniteSet(ops') /\ Unique(ops')
    BY <2>1, FS_Subset DEF TypeInv, Unique
  <2>3. \A op : Logged(op)' <=> Logged(op)
    BY <2>1 DEF Logged
  <2>4. \A x \in Streams : Paged(x)'
    BY <2>1, <2>3 DEF TypeInv, Paged, At
  <2>5. \E bound \in Nat : \A op \in ops' : op.id =< bound
    BY <2>1 DEF TypeInv
  <2>6. drops' \in Nat
    BY <2>1 DEF TypeInv
  <2> QED BY <2>1, <2>2, <2>3, <2>4, <2>5, <2>6 DEF TypeInv
<1>5. ASSUME CreateAgain PROVE TypeInv'
  BY <1>5 DEF CreateAgain, TypeInv, Logged, Paged, At
<1>6. ASSUME NEW s \in Streams, Open(s) PROVE TypeInv'
  <2>1. PICK t \in StreamRec : Goto(s, t) /\ t.at = "poll" /\ t.page = stream[s].page
    BY <1>6, HasOpened
  <2>2. UNCHANGED <<rule, ops, got, written, leaked, breaks, rules, drops>> /\ At(s, "off")
    BY <1>6, HasOpened
  <2>3. stream[s].page = {}
    BY <1>p, <2>2 DEF At
  <2>8. stream' \in [Streams -> StreamRec] /\ \A x \in Streams : Paged(x)'
    BY <1>e, <2>1, <2>2, <2>3, StillPaged
  <2> QED BY <1>g, <2>1, <2>2, <2>3, <2>8, StillTyped
<1>7. ASSUME NEW s \in Streams, Goto(s, Closed(s)),
             UNCHANGED <<rule, ops, got, written, leaked, rules, drops>> PROVE TypeInv'
  <2>1. PICK t \in StreamRec : Goto(s, t) /\ t.at = "off" /\ t.page = {}
    BY <1>7, HasClosed
  <2>8. stream' \in [Streams -> StreamRec] /\ \A x \in Streams : Paged(x)'
    BY <1>e, <1>7, <2>1, StillPaged
  <2> QED BY <1>g, <1>7, <2>1, <2>8, StillTyped
<1>8. ASSUME NEW s \in Streams, CheckRule(s) PROVE TypeInv'
  <2>1. UNCHANGED <<rule, ops, got, written, leaked, breaks, rules, drops>> /\ At(s, "poll")
    BY <1>8, HasChecked
  <2>2. CASE Goto(s, Closed(s))
    BY <1>7, <2>1, <2>2
  <2>3. CASE \E t \in StreamRec : Goto(s, t) /\ t.at = "checked" /\ t.page = stream[s].page
    <3>1. PICK t \in StreamRec : Goto(s, t) /\ t.at = "checked" /\ t.page = stream[s].page
      BY <2>3
    <3>2. stream[s].page = {}
      BY <1>p, <2>1 DEF At
    <3>8. stream' \in [Streams -> StreamRec] /\ \A x \in Streams : Paged(x)'
      BY <1>e, <2>1, <3>1, <3>2, StillPaged
    <3> QED BY <1>g, <2>1, <3>1, <3>2, <3>8, StillTyped
  <2> QED BY <1>8, <2>2, <2>3, HasChecked
<1>9. ASSUME NEW s \in Streams, SelectOps(s) PROVE TypeInv'
  <2>1. /\ UNCHANGED <<rule, ops, got, written, leaked, breaks, rules, drops>>
        /\ New(s) \in SUBSET ops /\ FirstPage(New(s)) \in SUBSET New(s)
        /\ IsFiniteSet(FirstPage(New(s))) /\ Cardinality(FirstPage(New(s))) =< Page
    BY <1>9, HasSelected
  <2>2. PICK t \in StreamRec : Goto(s, t) /\ t.page = FirstPage(New(s)) /\ t.at = IF t.page = {} THEN "sleep" ELSE "send"
    BY <1>9, HasSelected
  <2>3. \A op \in New(s) : Logged(op)
    BY <2>1 DEF New, TypeInv
  <2>4. /\ IsFiniteSet(t.page) /\ Cardinality(t.page) =< Page /\ \A op \in t.page : Logged(op)
        /\ (t.at = "send") <=> (t.page # {})
    BY <2>1, <2>2, <2>3
  <2>8. stream' \in [Streams -> StreamRec] /\ \A x \in Streams : Paged(x)'
    BY <2>1, <2>2, <2>4, StillPaged
  <2> QED BY <1>g, <2>1, <2>2, <2>4, <2>8, StillTyped
<1>10. ASSUME NEW s \in Streams, Send(s) PROVE TypeInv'
  <2>1. PICK op \in stream[s].page, t \in StreamRec :
              /\ got' = [got EXCEPT ![s] = Append(@, op.tag)]
              /\ leaked' = [leaked EXCEPT ![s] =
                              @ + IF HiddenWhenWritten(s, op.tag) /\ HiddenNow(s, op.tag) THEN 1 ELSE 0]
              /\ Goto(s, t) /\ t.page = stream[s].page \ {op} /\ t.at = IF t.page = {} THEN "sleep" ELSE "send"
    BY <1>10, HasSent
  <2>2. UNCHANGED <<rule, ops, written, breaks, rules, drops>> /\ At(s, "send")
    BY <1>10, HasSent
  <2>3. op.tag \in Nat
    BY <1>p, <2>1 DEF Logged, TypeInv
  <2>4. got' \in [Streams -> Seq(Nat)]
    BY <1>g, <2>1, <2>3
  <2>5. leaked' \in [Streams -> Nat]
    <3>1. PICK n \in {0, 1} : leaked' = [leaked EXCEPT ![s] = @ + n]
      BY <2>1
    <3> QED BY <1>g, <3>1
  <2>6. /\ IsFiniteSet(t.page) /\ Cardinality(t.page) =< Page /\ \A o \in t.page : Logged(o)
        /\ (t.at = "send") <=> (t.page # {})
    <3>1. /\ IsFiniteSet(stream[s].page) /\ Cardinality(stream[s].page) =< Page
          /\ Cardinality(stream[s].page) \in Nat
      BY <1>p, FS_CardinalityType
    <3>2. t.page = stream[s].page \ {op} /\ op \in stream[s].page
      BY <2>1
    <3>3. IsFiniteSet(t.page) /\ Cardinality(t.page) = Cardinality(stream[s].page) - 1
      <4>1. PICK before, after : before = stream[s].page /\ after = before \ {op}
        OBVIOUS
      <4>2. IsFiniteSet(after) /\ Cardinality(after) = Cardinality(before) - 1
        BY <3>1, <3>2, <4>1, FS_RemoveElement
      <4> QED BY <3>2, <4>1, <4>2
    <3> QED BY <1>e, <1>p, <2>1, <3>1, <3>3
  <2>8. stream' \in [Streams -> StreamRec] /\ \A x \in Streams : Paged(x)'
    BY <2>1, <2>2, <2>4, <2>5, <2>6, StillPaged
  <2> QED BY <1>g, <2>1, <2>2, <2>4, <2>5, <2>6, <2>8, StillTyped
<1>11. ASSUME NEW s \in Streams, Sleep(s) PROVE TypeInv'
  <2>1. PICK t \in StreamRec : Goto(s, t) /\ SamePlace(t, stream[s]) /\ t.at = "poll"
    BY <1>11, HasSlept
  <2>2. UNCHANGED <<rule, ops, got, written, leaked, breaks, rules, drops>> /\ At(s, "sleep")
    BY <1>11, HasSlept
  <2>3. stream[s].page = {} /\ t.page = {}
    BY <1>p, <2>1, <2>2 DEF At, SamePlace
  <2>4. /\ IsFiniteSet(t.page) /\ Cardinality(t.page) =< Page /\ \A op \in t.page : Logged(op)
        /\ (t.at = "send") <=> (t.page # {})
    BY <1>e, <2>1, <2>3
  <2>5. Goto(s, t) /\ UNCHANGED written
    BY <2>1, <2>2
  <2>8. stream' \in [Streams -> StreamRec] /\ \A x \in Streams : Paged(x)'
    BY <2>4, <2>5, StillPaged
  <2> QED BY <1>g, <2>1, <2>2, <2>3, <2>8, StillTyped
<1>12. ASSUME NEW s \in Streams, Break(s) PROVE TypeInv'
  BY <1>7, <1>12 DEF Break
<1> QED BY <1>1, <1>2, <1>3, <1>4, <1>5, <1>6, <1>8, <1>9, <1>10, <1>11, <1>12 DEF Next, Serve

-----------------------------------------------------------------------------
(* What leaks *)

Allowance == Page * (rules + drops)

(* A stream that has checked the rule, or has a page to send, may either   *)
(* show what it is about to send or has a page left of what may leak.      *)
Shown(s) == \A op \in stream[s].page : Visible(stream[s].who, rule, op)
Spared(s) == leaked[s] + Cardinality(stream[s].page) =< Allowance
LeakFree(s) ==
  /\ leaked[s] =< Allowance
  /\ At(s, "checked") =>
       \/ rule # "none" /\ stream[s].under = rule /\ MayRead(stream[s].who, rule)
       \/ leaked[s] + Page =< Allowance
  /\ At(s, "send") => Shown(s) \/ Spared(s)
LeakInv == \A s \in Streams : LeakFree(s)

LEMMA Numbers ==
  ASSUME TypeInv
  PROVE  /\ Page \in Nat \ {0} /\ Allowance \in Nat
         /\ \A s \in Streams : leaked[s] \in Nat /\ Cardinality(stream[s].page) \in Nat
<1>1. Page \in Nat \ {0} /\ rules + drops \in Nat
  BY EventStreamAssumption DEF TypeInv
<1>2. Allowance \in Nat
  BY <1>1, SMT DEF Allowance
<1>3. \A s \in Streams : leaked[s] \in Nat /\ Cardinality(stream[s].page) \in Nat
  BY FS_CardinalityType DEF TypeInv, Paged
<1> QED BY <1>1, <1>2, <1>3

LEMMA Untold ==
  ASSUME NEW s \in Streams, LeakFree(s), UNCHANGED <<rule, rules, drops>>,
         stream'[s] = stream[s], leaked'[s] = leaked[s]
  PROVE  LeakFree(s)'
BY DEF LeakFree, At, Allowance, Shown, Spared, Visible, MayRead, Sees

(* A stream that steps and lets nothing through.                           *)
LEMMA Discreet ==
  ASSUME TypeInv, LeakInv, NEW s \in Streams, NEW t \in StreamRec, Goto(s, t),
         UNCHANGED <<rule, rules, drops, leaked>>, t.at \notin {"checked", "send"}
  PROVE  LeakInv'
<1>1. /\ stream'[s] = t /\ \A x \in Streams : x # s => stream'[x] = stream[x]
  BY Moves
<1>2. LeakFree(s)'
  BY <1>1 DEF LeakInv, LeakFree, At, Allowance
<1>3. ASSUME NEW x \in Streams, x # s PROVE LeakFree(x)'
  BY <1>1, <1>3, Untold DEF LeakInv
<1> QED BY <1>2, <1>3 DEF LeakInv

(* A changed rule or a drop allows every stream one page more.             *)
LEMMA Changing ==
  ASSUME TypeInv, LeakInv, rules' + drops' = (rules + drops) + 1, UNCHANGED <<stream, leaked>>
  PROVE  LeakInv'
<1>1. /\ Page \in Nat /\ Allowance \in Nat
      /\ \A s \in Streams : leaked[s] \in Nat /\ Cardinality(stream[s].page) \in Nat
  BY Numbers
<1>2. Allowance' = Allowance + Page
  <2>1. PICK n : n = rules + drops
    OBVIOUS
  <2>2. n \in Nat /\ Page * (n + 1) = Page * n + Page
    BY <1>1, <2>1, SMT DEF TypeInv
  <2> QED BY <2>1, <2>2 DEF Allowance
<1>3. ASSUME NEW s \in Streams PROVE LeakFree(s)'
  <2>1. leaked[s] =< Allowance /\ Cardinality(stream[s].page) =< Page
    BY DEF LeakInv, LeakFree, TypeInv, Paged
  <2>2. leaked[s] + Page =< Allowance' /\ leaked[s] + Cardinality(stream[s].page) =< Allowance' /\ leaked[s] =< Allowance'
    BY <1>1, <1>2, <2>1
  <2>3. stream'[s] = stream[s] /\ leaked'[s] = leaked[s]
    OBVIOUS
  <2>4. Spared(s)'
    BY <2>2, <2>3 DEF Spared
  <2> QED BY <2>2, <2>3, <2>4 DEF LeakFree, At
<1> QED BY <1>3 DEF LeakInv

LEMMA LeakStep ==
  ASSUME TypeInv, LeakInv, Next
  PROVE  LeakInv'
<1>0. /\ Page \in Nat \ {0} /\ Allowance \in Nat
      /\ \A s \in Streams : leaked[s] \in Nat /\ Cardinality(stream[s].page) \in Nat
  BY Numbers
<1>1. ASSUME NEW owner \in AppUsers \cup {Guest}, Write(owner) PROVE LeakInv'
  BY <1>1, Untold DEF Write, LeakInv
<1>2. ASSUME WriteElsewhere PROVE LeakInv'
  BY <1>2, Untold DEF WriteElsewhere, LeakInv
<1>3. ASSUME NEW r \in Rules, SetRule(r) PROVE LeakInv'
  <2>1. rules' + drops' = (rules + drops) + 1 /\ UNCHANGED <<stream, leaked>>
    BY <1>3 DEF SetRule, TypeInv
  <2> QED BY <2>1, Changing
<1>4. ASSUME Drop PROVE LeakInv'
  <2>1. rules' + drops' = (rules + drops) + 1 /\ UNCHANGED <<stream, leaked>>
    BY <1>4 DEF Drop, TypeInv
  <2> QED BY <2>1, Changing
<1>5. ASSUME CreateAgain PROVE LeakInv'
  <2>1. rule = "none" /\ UNCHANGED <<stream, leaked, rules, drops>>
    BY <1>5 DEF CreateAgain
  <2>2. ASSUME NEW who, NEW op, Visible(who, rule, op) PROVE Visible(who, rule', op)
    BY <2>1, <2>2, EventStreamAssumption DEF Visible, MayRead, Sees
  <2>3. ASSUME NEW s \in Streams PROVE LeakFree(s)'
    BY <2>1, <2>2 DEF LeakInv, LeakFree, At, Allowance, Shown, Spared
  <2> QED BY <2>3 DEF LeakInv
<1>6. ASSUME NEW s \in Streams, Open(s) PROVE LeakInv'
  <2>1. PICK t \in StreamRec : Goto(s, t) /\ t.at = "poll"
    BY <1>6, HasOpened
  <2>2. UNCHANGED <<rule, rules, drops, leaked>>
    BY <1>6, HasOpened
  <2> QED BY <2>1, <2>2, Discreet
<1>7. ASSUME NEW s \in Streams, Goto(s, Closed(s)), UNCHANGED <<rule, rules, drops, leaked>> PROVE LeakInv'
  <2>1. PICK t \in StreamRec : Goto(s, t) /\ t.at = "off"
    BY <1>7, HasClosed
  <2> QED BY <1>7, <2>1, Discreet
<1>8. ASSUME NEW s \in Streams, CheckRule(s) PROVE LeakInv'
  <2>1. UNCHANGED <<rule, ops, got, written, leaked, breaks, rules, drops>>
    BY <1>8, HasChecked
  <2>2. CASE Goto(s, Closed(s))
    BY <1>7, <2>1, <2>2
  <2>3. CASE /\ rule # "none" /\ MayRead(stream[s].who, rule)
             /\ \E t \in StreamRec : Goto(s, t) /\ SameClient(t, stream[s]) /\ t.at = "checked" /\ t.under = rule
    <3>1. PICK t \in StreamRec : Goto(s, t) /\ SameClient(t, stream[s]) /\ t.at = "checked" /\ t.under = rule
      BY <2>3
    <3>2. stream'[s] = t /\ \A x \in Streams : x # s => stream'[x] = stream[x]
      BY <3>1, Moves
    <3>3. rule' # "none" /\ stream'[s].under = rule' /\ MayRead(stream'[s].who, rule')
      BY <2>1, <2>3, <3>1, <3>2 DEF SameClient
    <3>4. ~At(s, "send")' /\ leaked'[s] =< Allowance'
      BY <2>1, <3>1, <3>2 DEF At, LeakInv, LeakFree, Allowance
    <3>5. LeakFree(s)'
      BY <3>3, <3>4 DEF LeakFree, MayRead
    <3>6. ASSUME NEW x \in Streams, x # s PROVE LeakFree(x)'
      BY <2>1, <3>2, <3>6, Untold DEF LeakInv
    <3> QED BY <3>5, <3>6 DEF LeakInv
  <2> QED BY <1>8, <2>2, <2>3, HasChecked
<1>9. ASSUME NEW s \in Streams, SelectOps(s) PROVE LeakInv'
  <2>1. /\ UNCHANGED <<rule, ops, got, written, leaked, breaks, rules, drops>> /\ At(s, "checked")
        /\ FirstPage(New(s)) \in SUBSET New(s) /\ Cardinality(FirstPage(New(s))) =< Page
        /\ IsFiniteSet(FirstPage(New(s)))
    BY <1>9, HasSelected
  <2>2. PICK t \in StreamRec : /\ Goto(s, t) /\ SameClient(t, stream[s]) /\ t.page = FirstPage(New(s))
                               /\ t.at = IF t.page = {} THEN "sleep" ELSE "send"
    BY <1>9, HasSelected
  <2>3. stream'[s] = t /\ \A x \in Streams : x # s => stream'[x] = stream[x]
    BY <2>2, Moves
  <2>4. ASSUME stream[s].under = rule /\ MayRead(stream[s].who, rule) PROVE LeakFree(s)'
    <3>1. \A op \in t.page : Visible(stream[s].who, rule, op)
      BY <2>1, <2>2, <2>4 DEF New, Visible
    <3>2. Shown(s)'
      BY <2>1, <2>2, <2>3, <3>1 DEF Shown, SameClient, Visible, MayRead, Sees
    <3>3. ~At(s, "checked")' /\ leaked'[s] =< Allowance'
      BY <2>1, <2>2, <2>3 DEF At, LeakInv, LeakFree, Allowance
    <3> QED BY <3>2, <3>3 DEF LeakFree
  <2>5. ASSUME leaked[s] + Page =< Allowance PROVE LeakFree(s)'
    <3>1. Cardinality(t.page) \in Nat /\ Cardinality(t.page) =< Page
      BY <2>1, <2>2, FS_CardinalityType
    <3>2. leaked[s] + Cardinality(t.page) =< Allowance
      BY <1>0, <2>5, <3>1
    <3>3. ~At(s, "checked")' /\ leaked'[s] =< Allowance'
      BY <2>1, <2>2, <2>3 DEF At, LeakInv, LeakFree, Allowance
    <3>4. Spared(s)'
      BY <2>1, <2>3, <3>2 DEF Spared, Allowance
    <3> QED BY <3>3, <3>4 DEF LeakFree
  <2>6. LeakFree(s)'
    BY <2>1, <2>4, <2>5 DEF LeakInv, LeakFree
  <2>7. ASSUME NEW x \in Streams, x # s PROVE LeakFree(x)'
    BY <2>1, <2>3, <2>7, Untold DEF LeakInv
  <2> QED BY <2>6, <2>7 DEF LeakInv
<1>10. ASSUME NEW s \in Streams, Send(s) PROVE LeakInv'
  <2>1. UNCHANGED <<rule, ops, written, breaks, rules, drops>> /\ At(s, "send")
    BY <1>10, HasSent
  <2>2. PICK op \in stream[s].page, t \in StreamRec :
              /\ leaked' = [leaked EXCEPT ![s] =
                              @ + IF HiddenWhenWritten(s, op.tag) /\ HiddenNow(s, op.tag) THEN 1 ELSE 0]
              /\ Goto(s, t) /\ SameClient(t, stream[s]) /\ t.page = stream[s].page \ {op}
              /\ t.at = IF t.page = {} THEN "sleep" ELSE "send"
    BY <1>10, HasSent
  <2>3. stream'[s] = t /\ \A x \in Streams : x # s => stream'[x] = stream[x]
    BY <2>2, Moves
  <2>4. PICK n \in {0, 1} : /\ leaked' = [leaked EXCEPT ![s] = @ + n]
                            /\ n = 1 => HiddenNow(s, op.tag)
    <3>1. PICK n : n = IF HiddenWhenWritten(s, op.tag) /\ HiddenNow(s, op.tag) THEN 1 ELSE 0
      OBVIOUS
    <3>2. leaked' = [leaked EXCEPT ![s] = @ + n]
      BY <2>2, <3>1
    <3>3. n \in {0, 1} /\ (n = 1 => HiddenNow(s, op.tag))
      BY <3>1
    <3> QED BY <3>2, <3>3
  <2>5. /\ leaked'[s] = leaked[s] + n
        /\ \A x \in Streams : x # s => leaked'[x] = leaked[x]
    BY <2>4 DEF TypeInv
  <2>6. /\ IsFiniteSet(stream[s].page) /\ Cardinality(stream[s].page) \in Nat
        /\ Logged(op)
    BY <1>0, <2>2 DEF TypeInv, Paged
  <2>7. Cardinality(t.page) = Cardinality(stream[s].page) - 1 /\ Cardinality(t.page) \in Nat
    <3>1. Cardinality(t.page) = Cardinality(stream[s].page) - 1 /\ IsFiniteSet(t.page)
      BY <2>2, <2>6, FS_RemoveElement
    <3> QED BY <3>1, FS_CardinalityType
  <2>8. ~At(s, "checked")' /\ Allowance' = Allowance
    BY <2>1, <2>2, <2>3 DEF At, Allowance
  <2>9. ASSUME Shown(s) PROVE LeakFree(s)'
    <3>1. n = 0
      BY <2>2, <2>4, <2>6, <2>9 DEF Shown, HiddenNow, Visible, Sees, Logged
    <3>2. leaked'[s] =< Allowance'
      BY <1>0, <2>5, <2>8, <3>1 DEF LeakInv, LeakFree
    <3>3. Shown(s)'
      BY <2>1, <2>2, <2>3, <2>9 DEF Shown, SameClient, Visible, MayRead, Sees
    <3> QED BY <2>8, <3>2, <3>3 DEF LeakFree
  <2>10. ASSUME Spared(s) PROVE LeakFree(s)'
    <3>1. leaked'[s] + Cardinality(t.page) =< Allowance /\ leaked'[s] =< Allowance
      BY <1>0, <2>5, <2>6, <2>7, <2>10 DEF Spared
    <3>2. Spared(s)'
      BY <2>3, <2>8, <3>1 DEF Spared
    <3> QED BY <2>8, <3>1, <3>2 DEF LeakFree
  <2>11. LeakFree(s)'
    BY <2>1, <2>9, <2>10 DEF LeakInv, LeakFree
  <2>12. ASSUME NEW x \in Streams, x # s PROVE LeakFree(x)'
    BY <2>1, <2>3, <2>5, <2>12, Untold DEF LeakInv
  <2> QED BY <2>11, <2>12 DEF LeakInv
<1>11. ASSUME NEW s \in Streams, Sleep(s) PROVE LeakInv'
  <2>1. PICK t \in StreamRec : Goto(s, t) /\ t.at = "poll"
    BY <1>11, HasSlept
  <2>2. UNCHANGED <<rule, rules, drops, leaked>>
    BY <1>11, HasSlept
  <2> QED BY <2>1, <2>2, Discreet
<1>12. ASSUME NEW s \in Streams, Break(s) PROVE LeakInv'
  BY <1>7, <1>12 DEF Break
<1> QED BY <1>1, <1>2, <1>3, <1>4, <1>5, <1>6, <1>8, <1>9, <1>10, <1>11, <1>12 DEF Next, Serve

-----------------------------------------------------------------------------
(* What a client that resumes has *)

Seen(s) == {op \in ops : op.mine /\ Sees(stream[s].who, rule, op)}

(* The ids are the order of the writes.                                    *)
InOrder == \A op, o \in ops : op.mine /\ o.mine /\ op.id < o.id => op.tag < o.tag
Increasing(q) == \A i, j \in DOMAIN q : i < j => q[i] < q[j]

(* The page is what comes next, and what came is all there is up to the    *)
(* last id.                                                                *)
Caught(s) ==
  /\ stream[s].since = 0 \/ \E op \in ops : op.id = stream[s].since
  /\ ~At(s, "off") => stream[s].last = stream[s].since
  /\ \A op \in stream[s].page : op \in Seen(s) /\ op.id > stream[s].since
  /\ \A op \in Seen(s) \ stream[s].page, p \in stream[s].page : op.id > stream[s].since => op.id > p.id
  /\ ToSet(got[s]) = Due(s)
  /\ Increasing(got[s])
Whole(s) ==
  /\ At(s, "checked") => stream[s].under = rule
  /\ stream[s].resumes => Caught(s)
Steady == rule # "none" /\ InOrder /\ \A s \in Streams : Whole(s)

LEMMA DueIsSeen ==
  ASSUME NEW s \in Streams
  PROVE  Due(s) = {op.tag : op \in {o \in Seen(s) : o.id =< stream[s].since}}
<1>1. {o \in Seen(s) : o.id =< stream[s].since}
        = {o \in ops : o.mine /\ o.id =< stream[s].since /\ Sees(stream[s].who, rule, o)}
  BY DEF Seen
<1> QED BY <1>1 DEF Due

(* A stream nothing happens to.                                            *)
LEMMA Waits ==
  ASSUME NEW s \in Streams, Whole(s), UNCHANGED <<ops, rule>>, stream'[s] = stream[s], got'[s] = got[s]
  PROVE  Whole(s)'
<1>1. Seen(s)' = Seen(s) /\ Due(s)' = Due(s)
  BY DEF Seen, Sees, Due
<1> QED BY <1>1 DEF Whole, Caught, At, Increasing

(* A stream that steps and sends nothing.                                  *)
LEMMA Steps ==
  ASSUME TypeInv, Steady, UNCHANGED <<ops, rule, got>>, NEW s \in Streams, NEW t \in StreamRec, Goto(s, t),
         SameClient(t, stream[s]), t.since = stream[s].since, t.page = {},
         t.at # "off" => t.last = t.since \/ ~t.resumes, t.at = "checked" => t.under = rule
  PROVE  Steady'
<1>1. stream'[s] = t /\ \A x \in Streams : x # s => stream'[x] = stream[x]
  BY Moves
<1>2. Seen(s)' = Seen(s) /\ Due(s)' = Due(s)
  BY <1>1 DEF Seen, Sees, Due, SameClient
<1>3. Whole(s)'
  BY <1>1, <1>2 DEF Steady, Whole, Caught, At, Increasing, SameClient
<1>4. ASSUME NEW x \in Streams, x # s PROVE Whole(x)'
  BY <1>1, <1>4, Waits DEF Steady
<1>5. InOrder' /\ rule' # "none"
  BY DEF Steady, InOrder
<1> QED BY <1>3, <1>4, <1>5 DEF Steady

(* An operation that comes after all others changes nothing for a stream.  *)
LEMMA Later ==
  ASSUME TypeInv, NEW s \in Streams, Whole(s), NEW new \in OpRec, new.id = NextId, ops' = ops \cup {new},
         UNCHANGED <<rule, stream, got>>
  PROVE  Whole(s)'
<1>1. \A op \in ops : op.id < new.id /\ op.id \in Nat
  BY Fresh DEF TypeInv, OpRec
<1>2. new \notin ops /\ new.id \in Nat \ {0}
  BY <1>1, Fresh
<1>3. /\ \A op \in Seen(s) : op \in ops /\ op \in Seen(s)'
      /\ \A op \in Seen(s)' : op \in Seen(s) \/ op = new
  BY DEF Seen, Sees
<1>4. stream[s].resumes \in BOOLEAN /\ stream[s].since \in Nat
  BY Records DEF TypeInv
<1>5. ASSUME Caught(s) PROVE Caught(s)'
  <2>1. stream[s].since < new.id
    BY <1>1, <1>2, <1>5 DEF Caught
  <2>2. Due(s)' = Due(s)
    <3>1. {o \in ops' : o.mine /\ o.id =< stream[s].since /\ Sees(stream[s].who, rule, o)}
            = {o \in ops : o.mine /\ o.id =< stream[s].since /\ Sees(stream[s].who, rule, o)}
      BY <1>2, <1>4, <2>1
    <3> QED BY <3>1 DEF Due, Sees
  <2>3. \A op \in stream[s].page : op \in Seen(s) /\ op \in ops /\ op \in Seen(s)' /\ op.id > stream[s].since
    BY <1>3, <1>5 DEF Caught
  <2>4. ASSUME NEW op \in Seen(s)', op \notin stream[s].page, NEW p \in stream[s].page, op.id > stream[s].since
        PROVE  op.id > p.id
    <3>1. CASE op = new
      BY <1>1, <2>3, <3>1
    <3>2. CASE op \in Seen(s)
      BY <1>5, <2>4, <3>2 DEF Caught
    <3> QED BY <1>3, <3>1, <3>2
  <2>5. /\ stream[s].since = 0 \/ \E op \in ops' : op.id = stream[s].since
        /\ ~At(s, "off") => stream[s].last = stream[s].since
        /\ ToSet(got[s]) = Due(s) /\ Increasing(got[s])
    BY <1>5 DEF Caught
  <2> QED BY <2>2, <2>3, <2>4, <2>5 DEF Caught, At, Increasing
<1> QED BY <1>5 DEF Whole, At

LEMMA Appended ==
  ASSUME NEW q \in Seq(Nat), NEW n \in Nat, Increasing(q), \A m \in ToSet(q) : m < n
  PROVE  Increasing(Append(q, n)) /\ ToSet(Append(q, n)) = ToSet(q) \cup {n}
<1>1. PICK r : r = Append(q, n)
  OBVIOUS
<1>2. /\ DOMAIN r = DOMAIN q \cup {Len(q) + 1} /\ r[Len(q) + 1] = n
      /\ \A i \in DOMAIN q : r[i] = q[i] /\ q[i] \in ToSet(q) /\ i \in Nat /\ i < Len(q) + 1
  BY <1>1 DEF ToSet
<1>3. ToSet(r) = ToSet(q) \cup {n}
  BY <1>2 DEF ToSet
<1>4. ASSUME NEW i \in DOMAIN r, NEW j \in DOMAIN r, i < j PROVE r[i] < r[j]
  <2>1. CASE j \in DOMAIN q
    <3>1. i \in DOMAIN q
      BY <1>2, <1>4, <2>1
    <3> QED BY <1>2, <1>4, <2>1, <3>1 DEF Increasing
  <2>2. CASE j = Len(q) + 1
    <3>1. i \in DOMAIN q
      BY <1>2, <1>4, <2>2
    <3> QED BY <1>2, <2>2, <3>1
  <2> QED BY <1>2, <2>1, <2>2
<1>5. Increasing(r)
  BY <1>4 DEF Increasing
<1> QED BY <1>1, <1>3, <1>5

(* A client that resumes gets the frame that comes next.                   *)
LEMMA Receives ==
  ASSUME TypeInv, InOrder, NEW s \in Streams, Caught(s), stream[s].resumes,
         NEW op \in stream[s].page, \A o \in stream[s].page : op.id =< o.id,
         UNCHANGED <<ops, rule>>, got'[s] = Append(got[s], op.tag),
         NEW t \in StreamRec, stream'[s] = t, SameClient(t, stream[s]),
         t.last = op.id, t.page = stream[s].page \ {op}, t.since = op.id
  PROVE  Caught(s)'
<1>0. stream[s].since \in Nat /\ Unique(ops) /\ \A o \in ops : o.id \in Nat
  BY Records DEF TypeInv, OpRec
<1>1. /\ op \in Seen(s) /\ op \in ops /\ op.mine /\ op.id > stream[s].since
      /\ \A o \in Seen(s) : o \in ops /\ o.mine
      /\ \A o \in stream[s].page : o \in Seen(s)
  BY DEF Caught, Seen
<1>2. Seen(s)' = Seen(s)
  BY DEF Seen, Sees, SameClient
<1>3. PICK Old, Now : /\ Old = {o \in Seen(s) : o.id =< stream[s].since}
                      /\ Now = {o \in Seen(s) : o.id =< op.id}
  OBVIOUS
<1>4. Now = Old \cup {op}
  <2>1. ASSUME NEW o \in Seen(s), o.id =< op.id, o.id > stream[s].since PROVE o = op
    <3>1. CASE o \in stream[s].page
      <4>1. o.id = op.id
        BY <1>0, <1>1, <2>1, <3>1
      <4> QED BY <1>0, <1>1, <4>1 DEF Unique
    <3>2. CASE o \notin stream[s].page
      <4>1. o.id > op.id
        BY <2>1, <3>2 DEF Caught
      <4> QED BY <1>0, <1>1, <2>1, <4>1
    <3> QED BY <3>1, <3>2
  <2>2. \A o \in Seen(s) : o.id \in Nat
    BY <1>0, <1>1
  <2>3. Old \in SUBSET Now /\ op \in Now
    BY <1>0, <1>1, <1>3, <2>2
  <2>4. Now \in SUBSET (Old \cup {op})
    BY <1>0, <1>3, <2>1, <2>2
  <2> QED BY <2>3, <2>4
<1>5. Due(s) = {o.tag : o \in Old}
  BY <1>3, DueIsSeen
<1>6. Due(s)' = {o.tag : o \in Now}
  <2>1. {o \in ops' : o.mine /\ o.id =< stream'[s].since /\ Sees(stream'[s].who, rule', o)} = Now
    BY <1>3 DEF Seen, SameClient
  <2> QED BY <2>1 DEF Due, Sees
<1>7. Due(s)' = Due(s) \cup {op.tag}
  BY <1>4, <1>5, <1>6
<1>8. \A n \in ToSet(got[s]) : n < op.tag
  <2>1. ASSUME NEW o \in Old PROVE o.tag < op.tag
    <3>1. o.id < op.id /\ o \in ops /\ o.mine
      BY <1>0, <1>1, <1>3
    <3> QED BY <1>1, <3>1 DEF InOrder
  <2> QED BY <1>5, <2>1 DEF Caught
<1>9. got[s] \in Seq(Nat) /\ op.tag \in Nat
  BY <1>1 DEF TypeInv, OpRec
<1>10. Increasing(got'[s]) /\ ToSet(got'[s]) = Due(s)'
  BY <1>7, <1>8, <1>9, Appended DEF Caught
<1>11. ASSUME NEW o \in t.page PROVE o \in Seen(s) /\ o.id > op.id
  <2>1. o \in stream[s].page /\ o # op /\ o \in Seen(s) /\ o \in ops /\ op.id =< o.id
    BY <1>1, <1>11
  <2>2. o.id # op.id
    BY <1>0, <1>1, <2>1 DEF Unique
  <2> QED BY <1>0, <1>1, <2>1, <2>2
<1>12. ASSUME NEW o \in Seen(s) \ t.page, NEW p \in t.page, o.id > op.id PROVE o.id > p.id
  <2>1. o \notin stream[s].page
    BY <1>0, <1>1, <1>12
  <2>2. o.id > stream[s].since /\ p \in stream[s].page
    BY <1>0, <1>1, <1>12
  <2> QED BY <2>1, <2>2 DEF Caught
<1>13. /\ stream'[s].since = op.id /\ stream'[s].last = op.id /\ stream'[s].page = t.page
       /\ \E o \in ops' : o.id = op.id
  BY <1>1
<1>14. Increasing(got[s])'
  BY <1>10 DEF Increasing
<1> QED BY <1>2, <1>10, <1>11, <1>12, <1>13, <1>14 DEF Caught

LEMMA SteadyStep ==
  ASSUME TypeInv, Steady, Untouched, Next, Untouched'
  PROVE  Steady'
<1>0. rules = 0 /\ drops = 0 /\ rules' = 0 /\ drops' = 0 /\ rule # "none"
  BY DEF Untouched, Steady
<1>1. ASSUME NEW owner \in AppUsers \cup {Guest}, Write(owner) PROVE Steady'
  <2>1. PICK new \in OpRec : /\ ops' = ops \cup {new} /\ new.id = NextId /\ new.mine
                             /\ \A tag \in DOMAIN written : tag < new.tag
    BY <1>1, HasWritten
  <2>2. UNCHANGED <<rule, stream, got>>
    BY <1>1, HasWritten
  <2>3. \A s \in Streams : Whole(s)'
    BY <2>1, <2>2, Later DEF Steady
  <2>4. \A op \in ops : op.id \in Nat /\ op.id < new.id /\ (op.mine => op.tag < new.tag)
    BY <2>1, Fresh DEF TypeInv, Logged, OpRec
  <2>5. ASSUME NEW op \in ops', NEW o \in ops', op.mine, o.mine, op.id < o.id PROVE op.tag < o.tag
    <3>1. CASE op \in ops /\ o \in ops
      BY <2>5, <3>1 DEF Steady, InOrder
    <3>2. CASE op \in ops /\ o = new
      BY <2>4, <2>5, <3>2
    <3>3. CASE op = new /\ o \in ops
      <4>1. op.id \in Nat /\ o.id \in Nat /\ o.id < op.id
        BY <2>1, <2>4, <3>3 DEF OpRec
      <4> QED BY <2>5, <4>1
    <3>4. CASE op = new /\ o = new
      BY <2>5, <3>4 DEF OpRec
    <3> QED BY <2>1, <3>1, <3>2, <3>3, <3>4
  <2>6. InOrder'
    BY <2>5 DEF InOrder
  <2> QED BY <1>0, <2>2, <2>3, <2>6 DEF Steady
<1>2. ASSUME WriteElsewhere PROVE Steady'
  <2>1. PICK new \in OpRec : ops' = ops \cup {new} /\ new.id = NextId /\ ~new.mine
    BY <1>2, HasWrittenElsewhere
  <2>2. UNCHANGED <<rule, stream, got>>
    BY <1>2, HasWrittenElsewhere
  <2>3. \A s \in Streams : Whole(s)'
    BY <2>1, <2>2, Later DEF Steady
  <2> QED BY <1>0, <2>1, <2>2, <2>3 DEF Steady, InOrder
<1>3. ASSUME NEW r \in Rules, SetRule(r) PROVE Steady'
  BY <1>0, <1>3 DEF SetRule
<1>4. ASSUME Drop PROVE Steady'
  BY <1>0, <1>4 DEF Drop
<1>5. ASSUME CreateAgain PROVE Steady'
  BY <1>0, <1>5 DEF CreateAgain
<1>p. ASSUME NEW s \in Streams
      PROVE  /\ ~At(s, "send") => stream[s].page = {}
             /\ stream[s].resumes /\ ~At(s, "off") => stream[s].last = stream[s].since
  BY DEF TypeInv, Paged, Steady, Whole, Caught
<1>6. ASSUME NEW s \in Streams, Open(s) PROVE Steady'
  <2>1. PICK t \in StreamRec : /\ Goto(s, t) /\ SameClient(t, stream[s]) /\ t.at = "poll"
                               /\ t.since = stream[s].since /\ t.last = t.since /\ t.page = stream[s].page
    BY <1>6, HasOpened
  <2>2. UNCHANGED <<ops, rule, got>> /\ At(s, "off")
    BY <1>6, HasOpened
  <2>3. t.page = {}
    BY <1>p, <2>1, <2>2 DEF At
  <2> QED BY <2>1, <2>2, <2>3, Steps
<1>7. ASSUME NEW s \in Streams, Goto(s, Closed(s)), UNCHANGED <<ops, rule, got>> PROVE Steady'
  <2>1. PICK t \in StreamRec : /\ Goto(s, t) /\ SameClient(t, stream[s]) /\ t.at = "off"
                               /\ t.since = stream[s].since /\ t.page = {}
    BY <1>7, HasClosed
  <2> QED BY <1>7, <2>1, Steps
<1>8. ASSUME NEW s \in Streams, CheckRule(s) PROVE Steady'
  <2>1. UNCHANGED <<ops, rule, got>> /\ At(s, "poll")
    BY <1>8, HasChecked
  <2>2. CASE Goto(s, Closed(s))
    BY <1>7, <2>1, <2>2
  <2>3. ASSUME NEW t \in StreamRec, Goto(s, t), SameClient(t, stream[s]), t.at = "checked", t.under = rule,
               t.since = stream[s].since, t.last = stream[s].last, t.page = stream[s].page
        PROVE  Steady'
    <3>1. t.page = {} /\ (t.last = t.since \/ ~t.resumes)
      BY <1>p, <2>1, <2>3 DEF At, SameClient
    <3> QED BY <2>1, <2>3, <3>1, Steps
  <2>4. CASE \E t \in StreamRec : /\ Goto(s, t) /\ SameClient(t, stream[s]) /\ t.at = "checked" /\ t.under = rule
                                  /\ t.since = stream[s].since /\ t.last = stream[s].last /\ t.page = stream[s].page
    BY <2>3, <2>4
  <2> QED BY <1>8, <2>2, <2>4, HasChecked
<1>9. ASSUME NEW s \in Streams, SelectOps(s) PROVE Steady'
  <2>1. /\ UNCHANGED <<ops, rule, got>> /\ At(s, "checked")
        /\ FirstPage(New(s)) \in SUBSET New(s)
        /\ \A op \in New(s) \ FirstPage(New(s)), p \in FirstPage(New(s)) : op.id > p.id
    BY <1>9, HasSelected
  <2>2. PICK t \in StreamRec : /\ Goto(s, t) /\ SameClient(t, stream[s]) /\ t.since = stream[s].since
                               /\ t.last = stream[s].last /\ t.page = FirstPage(New(s))
                               /\ t.at = IF t.page = {} THEN "sleep" ELSE "send"
    BY <1>9, HasSelected
  <2>3. stream'[s] = t /\ \A x \in Streams : x # s => stream'[x] = stream[x]
    BY <2>2, Moves
  <2>4. Seen(s)' = Seen(s) /\ Due(s)' = Due(s)
    BY <2>1, <2>2, <2>3 DEF Seen, Sees, Due, SameClient
  <2>5. stream[s].under = rule
    BY <2>1 DEF Steady, Whole
  <2>6. ASSUME stream[s].resumes PROVE Caught(s)'
    <3>1. Caught(s) /\ stream[s].last = stream[s].since
      BY <1>p, <2>1, <2>6 DEF Steady, Whole, At
    <3>2. New(s) = {op \in Seen(s) : op.id > stream[s].since}
      BY <2>5, <3>1 DEF New, Seen
    <3>3. \A op \in t.page : op \in Seen(s) /\ op.id > stream[s].since
      BY <2>1, <2>2, <3>2
    <3>4. \A op \in Seen(s) \ t.page, p \in t.page : op.id > stream[s].since => op.id > p.id
      BY <2>1, <2>2, <3>2
    <3>5. stream'[s].page = t.page /\ stream'[s].since = stream[s].since /\ stream'[s].last = stream[s].since
      BY <2>2, <2>3, <3>1
    <3> QED BY <2>1, <2>4, <3>1, <3>3, <3>4, <3>5 DEF Caught, Increasing
  <2>7. Whole(s)'
    BY <2>2, <2>3, <2>6 DEF Whole, At, SameClient
  <2>8. ASSUME NEW x \in Streams, x # s PROVE Whole(x)'
    BY <2>1, <2>3, <2>8, Waits DEF Steady
  <2> QED BY <2>1, <2>7, <2>8 DEF Steady, InOrder
<1>10. ASSUME NEW s \in Streams, Send(s) PROVE Steady'
  <2>1. UNCHANGED <<ops, rule>>
    BY <1>10, HasSent
  <2>2. PICK op \in stream[s].page, t \in StreamRec :
              /\ \A o \in stream[s].page : op.id =< o.id
              /\ got' = [got EXCEPT ![s] = Append(@, op.tag)]
              /\ Goto(s, t) /\ SameClient(t, stream[s]) /\ t.last = op.id
              /\ t.page = stream[s].page \ {op} /\ t.at = IF t.page = {} THEN "sleep" ELSE "send"
              /\ t.since = IF t.resumes THEN op.id ELSE stream[s].since
    BY <1>10, HasSent
  <2>3. stream'[s] = t /\ \A x \in Streams : x # s => stream'[x] = stream[x]
    BY <2>2, Moves
  <2>4. got'[s] = Append(got[s], op.tag) /\ \A x \in Streams : x # s => got'[x] = got[x]
    BY <2>2 DEF TypeInv
  <2>5. ASSUME stream[s].resumes PROVE Caught(s)'
    <3>1. Caught(s) /\ InOrder /\ t.since = op.id
      BY <2>2, <2>5 DEF Steady, Whole, SameClient
    <3> QED BY <2>1, <2>2, <2>3, <2>4, <2>5, <3>1, Receives
  <2>6. Whole(s)'
    BY <2>2, <2>3, <2>5 DEF Whole, At, SameClient
  <2>7. ASSUME NEW x \in Streams, x # s PROVE Whole(x)'
    BY <2>1, <2>3, <2>4, <2>7, Waits DEF Steady
  <2> QED BY <2>1, <2>6, <2>7 DEF Steady, InOrder
<1>11. ASSUME NEW s \in Streams, Sleep(s) PROVE Steady'
  <2>1. PICK t \in StreamRec : Goto(s, t) /\ SamePlace(t, stream[s]) /\ t.at = "poll"
    BY <1>11, HasSlept
  <2>2. UNCHANGED <<ops, rule, got>> /\ At(s, "sleep")
    BY <1>11, HasSlept
  <2>3. t.page = {} /\ (t.last = t.since \/ ~t.resumes) /\ SameClient(t, stream[s]) /\ t.since = stream[s].since
    BY <1>p, <2>1, <2>2 DEF At, SamePlace, SameClient
  <2> QED BY <2>1, <2>2, <2>3, Steps
<1>12. ASSUME NEW s \in Streams, Break(s) PROVE Steady'
  BY <1>7, <1>12 DEF Break
<1> QED BY <1>1, <1>2, <1>3, <1>4, <1>5, <1>6, <1>8, <1>9, <1>10, <1>11, <1>12 DEF Next, Serve

-----------------------------------------------------------------------------
(* The theorems *)

(* While the listing goes on, no stream does.                              *)
Idle == ops = {} /\ \A s \in Streams : got[s] = <<>>

ReadersInv ==
  /\ TypeInv /\ LeakInv
  /\ scene = "listing" => Idle
  /\ scene # "listing" /\ Untouched => Steady

LEMMA ReadersInit == MCInit => ReadersInv
<1> SUFFICES ASSUME MCInit PROVE ReadersInv
  OBVIOUS
<1>0. 0 =< Allowance \/ ~TypeInv
  BY Numbers
<1>1. CASE scene = "stream" /\ Init
  <2>1. TypeInv
    BY <1>1, TypeInit
  <2>2. PICK who \in [Streams -> AppUsers \cup {Guest, Owner}], resumes \in [Streams -> BOOLEAN] :
          stream = [s \in Streams |-> Off(who[s], resumes[s], 0)]
    BY <1>1 DEF Init
  <2>3. ASSUME NEW s \in Streams
        PROVE  stream[s].at = "off" /\ stream[s].since = 0 /\ stream[s].page = {} /\ leaked[s] = 0 /\ got[s] = <<>>
    BY <1>1, <2>2 DEF Off, Init
  <2>4. ops = {} /\ rule # "none"
    BY <1>1 DEF Init
  <2>5. LeakInv
    BY <1>0, <2>1, <2>3 DEF LeakInv, LeakFree, At
  <2>6. ASSUME NEW s \in Streams PROVE Whole(s)
    <3>1. Due(s) = {} /\ ToSet(got[s]) = {} /\ Increasing(got[s]) /\ Seen(s) = {}
      BY <2>3, <2>4 DEF Due, ToSet, Increasing, Seen
    <3> QED BY <2>3, <3>1 DEF Whole, Caught, At
  <2> QED BY <1>1, <2>1, <2>4, <2>5, <2>6 DEF ReadersInv, Steady, InOrder
<1>2. CASE /\ scene = "listing"
           /\ rule = "none" /\ ops = {} /\ written = <<>> /\ breaks = 0 /\ rules = 0 /\ drops = 0
           /\ stream = [s \in Streams |-> Off(Guest, FALSE, 0)]
           /\ got = [s \in Streams |-> <<>>] /\ leaked = [s \in Streams |-> 0]
  <2>1. PICK who, resumes : who = [s \in Streams |-> Guest] /\ resumes = [s \in Streams |-> FALSE]
    OBVIOUS
  <2>2. who \in [Streams -> AppUsers \cup {Guest, Owner}] /\ resumes \in [Streams -> BOOLEAN]
    BY <2>1
  <2>3. stream = [s \in Streams |-> Off(who[s], resumes[s], 0)]
    BY <1>2, <2>1
  <2>4. TypeInv
    BY <1>2, <2>2, <2>3, TypeStart
  <2>5. \A s \in Streams : stream[s].at = "off" /\ leaked[s] = 0 /\ got[s] = <<>>
    BY <1>2 DEF Off
  <2>6. LeakInv
    BY <1>0, <2>4, <2>5 DEF LeakInv, LeakFree, At
  <2> QED BY <1>2, <2>4, <2>5, <2>6 DEF ReadersInv, Idle
<1> QED BY <1>1, <1>2 DEF MCInit, StreamInit, ListingInit

LEMMA ReadersStep == ReadersInv /\ [MCNext]_<<vars, scene, listingVars>> => ReadersInv'
<1> SUFFICES ASSUME ReadersInv, [MCNext]_<<vars, scene, listingVars>> PROVE ReadersInv'
  OBVIOUS
<1>1. CASE scene = "stream" /\ Next /\ UNCHANGED scene
  <2>1. TypeInv' /\ LeakInv'
    BY <1>1, TypeStep, LeakStep DEF ReadersInv
  <2>2. ASSUME Untouched' PROVE Untouched
    <3>1. rules \in Nat /\ drops \in Nat
      BY DEF ReadersInv, TypeInv
    <3>2. rules' = rules \/ rules' = rules + 1
      BY <1>1 DEF Next, Serve, Write, WriteElsewhere, SetRule, Drop, CreateAgain, Open, CheckRule, SelectOps, Send, Sleep, Break
    <3>3. drops' = drops \/ drops' = drops + 1
      BY <1>1 DEF Next, Serve, Write, WriteElsewhere, SetRule, Drop, CreateAgain, Open, CheckRule, SelectOps, Send, Sleep, Break
    <3> QED BY <2>2, <3>1, <3>2, <3>3 DEF Untouched
  <2>3. Untouched' => Steady'
    BY <1>1, <2>2, SteadyStep DEF ReadersInv
  <2> QED BY <1>1, <2>1, <2>3 DEF ReadersInv
<1>2. CASE UNCHANGED <<vars, scene>>
  <2>1. /\ UNCHANGED <<rule, ops, stream, got, written, leaked, breaks, rules, drops, scene>>
    BY <1>2 DEF vars
  <2>2. TypeInv'
    BY <2>1 DEF ReadersInv, TypeInv, Paged, Logged, At
  <2>3. LeakInv'
    BY <2>1, Untold DEF ReadersInv, LeakInv
  <2>4. ASSUME Steady PROVE Steady'
    BY <2>1, <2>4, Waits DEF Steady, InOrder
  <2> QED BY <2>1, <2>2, <2>3, <2>4 DEF ReadersInv, Idle, Untouched
<1> QED BY <1>1, <1>2 DEF MCNext

LEMMA ReadersAlways == MCSpec => []ReadersInv
BY ReadersInit, ReadersStep, PTL DEF MCSpec

(* LeakBounded, for any streams and any size of a page: what was never for *)
(* a client's eyes gets through between the check of a poll and its page,  *)
(* a page at most for every time a rule changed or a collection was dropped*)
(* (_stream_collection_events).                                            *)
THEOREM LeakIsBounded == MCSpec => []LeakBounded
<1>1. ReadersInv => LeakBounded
  BY DEF ReadersInv, LeakInv, LeakFree, LeakBounded, Allowance
<1> QED BY <1>1, ReadersAlways, PTL

(* NoGapNoRepeat, for any number of writes, breaks and frames of a page: a *)
(* client that comes back with the last id it saw has what it may see up to*)
(* there, once and in the order it was written.                            *)
THEOREM NothingMissedOrRepeated == MCSpec => []NoGapNoRepeat
<1>1. ASSUME ReadersInv PROVE NoGapNoRepeat
  <2>1. SUFFICES ASSUME NEW s \in Streams, Untouched, stream[s].resumes
                 PROVE  ToSet(got[s]) = Due(s) /\ Increasing(got[s])
    BY DEF NoGapNoRepeat, Increasing
  <2>2. CASE scene = "listing"
    BY <1>1, <2>2 DEF ReadersInv, Idle, Due, ToSet, Increasing
  <2>3. CASE scene # "listing"
    BY <1>1, <2>1, <2>3 DEF ReadersInv, Steady, Whole, Caught
  <2> QED BY <2>2, <2>3
<1> QED BY <1>1, ReadersAlways, PTL

-----------------------------------------------------------------------------
(* The listing: places in an order *)

Linear(R, M) ==
  /\ \A x \in M : <<x, x>> \notin R
  /\ \A x, y \in M : x = y \/ <<x, y>> \in R \/ <<y, x>> \in R
  /\ \A x, y, z \in M : <<x, y>> \in R /\ <<y, z>> \in R => <<x, z>> \in R

Under(R, M, d) == {e \in M : <<e, d>> \in R}

(* In a finite linear order what has i - 1 before it is there, and is one. *)
LEMMA Ranks ==
  ASSUME NEW M, IsFiniteSet(M), NEW R, Linear(R, M)
  PROVE  /\ \A d \in M : Cardinality(Under(R, M, d)) \in Nat /\ Cardinality(Under(R, M, d)) < Cardinality(M)
         /\ \A d, e \in M : <<d, e>> \in R <=> Cardinality(Under(R, M, d)) < Cardinality(Under(R, M, e))
         /\ \A d, e \in M : Cardinality(Under(R, M, d)) = Cardinality(Under(R, M, e)) => d = e
         /\ \A i \in 1..Cardinality(M) : \E d \in M : Cardinality(Under(R, M, d)) = i - 1
<1> DEFINE rank == [d \in M |-> Cardinality(Under(R, M, d))]
           n == Cardinality(M)
<1>0. n \in Nat
  BY FS_CardinalityType
<1>1. ASSUME NEW d \in M PROVE IsFiniteSet(Under(R, M, d)) /\ rank[d] \in Nat /\ rank[d] < n
  <2>1. Under(R, M, d) \in SUBSET M /\ d \in M /\ d \notin Under(R, M, d)
    BY DEF Linear, Under
  <2>2. IsFiniteSet(Under(R, M, d)) /\ Cardinality(Under(R, M, d)) \in Nat
        /\ Cardinality(Under(R, M, d)) =< n /\ Cardinality(Under(R, M, d)) # n
    BY <2>1, FS_Subset, FS_CardinalityType
  <2> QED BY <1>0, <2>2
<1>2. ASSUME NEW d \in M, NEW e \in M, <<d, e>> \in R PROVE rank[d] < rank[e]
  <2>1. Under(R, M, d) \in SUBSET Under(R, M, e) /\ d \in Under(R, M, e) /\ d \notin Under(R, M, d)
    BY <1>2 DEF Linear, Under
  <2>2. Cardinality(Under(R, M, d)) =< Cardinality(Under(R, M, e))
        /\ Cardinality(Under(R, M, d)) # Cardinality(Under(R, M, e))
    BY <1>1, <2>1, FS_Subset
  <2>3. Cardinality(Under(R, M, d)) \in Nat /\ Cardinality(Under(R, M, e)) \in Nat
    BY <1>1
  <2> QED BY <2>2, <2>3
<1>3. ASSUME NEW d \in M, NEW e \in M, rank[d] = rank[e] PROVE d = e
  <2>1. rank[d] \in Nat /\ ~(rank[d] < rank[e]) /\ ~(rank[e] < rank[d])
    BY <1>1, <1>3
  <2>2. <<d, e>> \notin R /\ <<e, d>> \notin R
    BY <1>2, <2>1
  <2> QED BY <2>2 DEF Linear
<1>4. ASSUME NEW d \in M, NEW e \in M, rank[d] < rank[e] PROVE <<d, e>> \in R
  <2>1. rank[d] \in Nat /\ rank[e] \in Nat
    BY <1>1
  <2>2. d # e /\ ~(rank[e] < rank[d])
    BY <1>4, <2>1
  <2>3. <<e, d>> \notin R
    BY <1>2, <2>2
  <2> QED BY <2>2, <2>3 DEF Linear
<1>5. ASSUME NEW i \in 1..n PROVE \E d \in M : rank[d] = i - 1
  <2> DEFINE T == 0..(n - 1)
  <2>1. rank \in Injection(M, T)
    <3>1. rank \in [M -> T]
      <4>1. \A d \in M : rank[d] \in T
        BY <1>0, <1>1
      <4> QED BY <4>1
    <3> HIDE DEF rank, T
    <3> QED BY <1>3, <3>1 DEF Injection, IsInjective
  <2>2. IsFiniteSet(T) /\ Cardinality(T) = n
    <3>1. PICK m : m = n - 1
      OBVIOUS
    <3>2. m \in Int /\ n = m + 1 /\ m >= -1 /\ T = 0..m
      BY <1>0, <3>1
    <3>3. IsFiniteSet(0..m) /\ Cardinality(0..m) = IF 0 > m THEN 0 ELSE m - 0 + 1
      BY <3>2, FS_Interval
    <3> HIDE DEF T, n
    <3>4. Cardinality(0..m) = n
      BY <3>2, <3>3
    <3> QED BY <3>2, <3>3, <3>4
  <2> HIDE DEF rank, T
  <2>3. rank \in Surjection(M, T)
    BY <2>1, <2>2, FS_Injection
  <2>4. i - 1 \in T
    BY <1>0 DEF T
  <2> QED BY <2>3, <2>4 DEF Surjection
<1> QED BY <1>1, <1>2, <1>3, <1>4, <1>5

-----------------------------------------------------------------------------
(* The listing: what comes before what *)

LEMMA Listed ==
  /\ Docs \subseteq Nat /\ IsFiniteSet(Docs) /\ Limit \in Nat /\ Limit >= 1 /\ Offsets \subseteq Nat
  /\ \A S : L!Cardinality(S) = Cardinality(S)
  /\ \A S : L!ToSet(S) = ToSet(S)
<1>1. \A S : L!Cardinality(S) = Cardinality(S)
  BY DEF L!Cardinality, Cardinality
<1>2. \A S : L!ToSet(S) = ToSet(S)
  BY DEF L!ToSet, ToSet
<1>3. \A S : L!IsFiniteSet(S) <=> IsFiniteSet(S)
  BY DEF L!IsFiniteSet, IsFiniteSet
<1> QED BY <1>1, <1>2, <1>3, ReadersAssumption DEF L!ListingAssumption

ValueType(v) ==
  /\ v.kind \in {"null", "number", "text"}
  /\ v.kind # "null" => v.n \in Int
  /\ v.kind = "text" => v.rest \in Int

LEMMA ValuesType == \A v \in Values : ValueType(v)
BY DEF Values, Null, N, ValueType

DocsType == docs \in [Docs -> [live : BOOLEAN, updated : Nat, value : Values]]

Mixed(v, w) == {v.kind, w.kind} = {"number", "text"}

(* "<" is a strict weak order of the values of one kind and null.          *)
LEMMA KeysOrdered ==
  ASSUME NEW u, NEW v, NEW w, ValueType(u), ValueType(v), ValueType(w),
         ~Mixed(u, v), ~Mixed(v, w), ~Mixed(u, w)
  PROVE  /\ ~L!KeyBelow(v, v)
         /\ L!KeyBelow(u, v) /\ L!KeyBelow(v, w) => L!KeyBelow(u, w)
         /\ ~L!KeyBelow(u, v) /\ ~L!KeyBelow(v, w) => ~L!KeyBelow(u, w)
         /\ L!KeyBelow(u, v) => ~L!KeyBelow(v, u)
<1>1. /\ ~(u.kind = "number" /\ v.kind = "text") /\ ~(u.kind = "text" /\ v.kind = "number")
      /\ ~(v.kind = "number" /\ w.kind = "text") /\ ~(v.kind = "text" /\ w.kind = "number")
      /\ ~(u.kind = "number" /\ w.kind = "text") /\ ~(u.kind = "text" /\ w.kind = "number")
  BY DEF Mixed
<1> QED BY <1>1 DEF ValueType, L!KeyBelow, L!Below

LEMMA PrecedesOrdered ==
  ASSUME NEW u, NEW v, NEW w, NEW order, ValueType(u), ValueType(v), ValueType(w),
         ~Mixed(u, v), ~Mixed(v, w), ~Mixed(u, w)
  PROVE  /\ ~L!Precedes(v, v, order)
         /\ L!Precedes(u, v, order) /\ L!Precedes(v, w, order) => L!Precedes(u, w, order)
         /\ ~L!Precedes(u, v, order) /\ ~L!Precedes(v, w, order) => ~L!Precedes(u, w, order)
         /\ L!Precedes(u, v, order) => ~L!Precedes(v, u, order)
<1>0. ~Mixed(v, u) /\ ~Mixed(w, v) /\ ~Mixed(w, u)
  BY DEF Mixed
<1>1. CASE order = "desc"
  BY <1>0, <1>1, KeysOrdered DEF L!Precedes
<1>2. CASE order # "desc"
  BY <1>2, KeysOrdered DEF L!Precedes
<1> QED BY <1>1, <1>2

LEMMA NewerOrdered ==
  ASSUME DocsType, NEW c \in Docs, NEW d \in Docs, NEW e \in Docs
  PROVE  /\ ~L!Newer(d, d)
         /\ d = e \/ L!Newer(d, e) \/ L!Newer(e, d)
         /\ L!Newer(c, d) /\ L!Newer(d, e) => L!Newer(c, e)
         /\ L!Newer(d, e) => ~L!Newer(e, d)
<1>1. c \in Nat /\ d \in Nat /\ e \in Nat
      /\ docs[c].updated \in Nat /\ docs[d].updated \in Nat /\ docs[e].updated \in Nat
  BY Listed DEF DocsType
<1> QED BY <1>1 DEF L!Newer

(* The query can be answered.                                              *)
Sortable(q) == q.order = "none" \/ ~L!Incomparable(L!Matched(q))
Order(q) == {p \in L!Matched(q) \X L!Matched(q) : L!Before(p[1], p[2], q.order)}

LEMMA AnswersOrdered ==
  ASSUME DocsType, NEW q, Sortable(q)
  PROVE  /\ IsFiniteSet(L!Matched(q)) /\ Linear(Order(q), L!Matched(q))
         /\ \A d \in L!Matched(q) : Under(Order(q), L!Matched(q), d) = L!Ahead(q, d)
<1> DEFINE M == L!Matched(q)
<1>1. M \in SUBSET Docs /\ IsFiniteSet(M)
  BY Listed, FS_Subset DEF L!Matched
<1>2. \A d, e \in M : <<d, e>> \in Order(q) <=> L!Before(d, e, q.order)
  BY DEF Order
<1>3. \A d \in M : Under(Order(q), M, d) = L!Ahead(q, d)
  BY <1>2 DEF Under, L!Ahead
<1>4. CASE q.order = "none"
  <2>1. \A d, e \in M : L!Before(d, e, q.order) <=> L!Newer(d, e)
    BY <1>4 DEF L!Before
  <2>2. \A c, d, e \in M : /\ ~L!Newer(d, d)
                           /\ d = e \/ L!Newer(d, e) \/ L!Newer(e, d)
                           /\ L!Newer(c, d) /\ L!Newer(d, e) => L!Newer(c, e)
    BY <1>1, NewerOrdered
  <2>3. Linear(Order(q), M)
    BY <1>2, <2>1, <2>2 DEF Linear
  <2> QED BY <1>1, <1>3, <2>3
<1>5. CASE q.order # "none"
  <2> DEFINE P(d, e) == L!Precedes(docs[d].value, docs[e].value, q.order)
  <2>1. \A d, e \in M : L!Before(d, e, q.order) <=> P(d, e) \/ (~P(e, d) /\ L!Newer(d, e))
    BY <1>5 DEF L!Before
  <2>2. \A d, e \in M : ~Mixed(docs[d].value, docs[e].value)
    BY <1>5 DEF Sortable, L!Incomparable, Mixed
  <2>3. \A d \in M : ValueType(docs[d].value)
    BY <1>1, ValuesType DEF DocsType
  <2>4. ASSUME NEW c \in M, NEW d \in M, NEW e \in M
        PROVE  /\ ~P(d, d)
               /\ P(c, d) /\ P(d, e) => P(c, e)
               /\ ~P(c, d) /\ ~P(d, e) => ~P(c, e)
               /\ P(c, d) => ~P(d, c)
    BY <2>2, <2>3, PrecedesOrdered
  <2>5. \A c, d, e \in M : /\ ~L!Newer(d, d)
                           /\ d = e \/ L!Newer(d, e) \/ L!Newer(e, d)
                           /\ L!Newer(c, d) /\ L!Newer(d, e) => L!Newer(c, e)
    BY <1>1, NewerOrdered
  <2> HIDE DEF P, M
  <2>6. \A x \in M : <<x, x>> \notin Order(q)
    BY <1>2, <2>1, <2>4, <2>5
  <2>7. \A x, y \in M : x = y \/ <<x, y>> \in Order(q) \/ <<y, x>> \in Order(q)
    BY <1>2, <2>1, <2>5
  <2>8. ASSUME NEW x \in M, NEW y \in M, NEW z \in M, <<x, y>> \in Order(q), <<y, z>> \in Order(q)
        PROVE  <<x, z>> \in Order(q)
    <3>1. (P(x, y) \/ (~P(y, x) /\ L!Newer(x, y))) /\ (P(y, z) \/ (~P(z, y) /\ L!Newer(y, z)))
      BY <1>2, <2>1, <2>8
    <3>2. /\ (P(x, y) /\ P(y, z)) => P(x, z)
          /\ (~P(z, y) /\ ~P(y, x)) => ~P(z, x)
          /\ (P(x, y) => ~P(y, x)) /\ (P(y, z) => ~P(z, y)) /\ (P(x, z) => ~P(z, x))
          /\ (~P(x, z) /\ ~P(z, y)) => ~P(x, y)
          /\ (~P(y, x) /\ ~P(x, z)) => ~P(y, z)
      BY <2>4
    <3>3. L!Newer(x, y) /\ L!Newer(y, z) => L!Newer(x, z)
      BY <2>5
    <3>4. P(x, z) \/ (~P(z, x) /\ L!Newer(x, z))
      BY <3>1, <3>2, <3>3
    <3> QED BY <1>2, <2>1, <3>4
  <2>9. Linear(Order(q), M)
    BY <2>6, <2>7, <2>8 DEF Linear
  <2> QED BY <1>1, <1>3, <2>9 DEF M
<1> QED BY <1>4, <1>5

(* The answer to a query: each match once, what comes before it first.     *)
LEMMA AnswerSound ==
  ASSUME DocsType, NEW q, Sortable(q), NEW M, M = L!Matched(q), NEW A, A = L!Answer(q)
  PROVE  /\ Cardinality(M) \in Nat /\ M \in SUBSET Docs
         /\ A \in Seq(Docs) /\ Len(A) = Cardinality(M) /\ DOMAIN A = 1..Cardinality(M)
         /\ \A i \in 1..Cardinality(M) : A[i] \in M /\ Cardinality(L!Ahead(q, A[i])) = i - 1
         /\ \A d \in M : /\ Cardinality(L!Ahead(q, d)) + 1 \in 1..Cardinality(M)
                         /\ A[Cardinality(L!Ahead(q, d)) + 1] = d
         /\ \A i, j \in 1..Cardinality(M) : i < j => A[i] # A[j] /\ L!Before(A[i], A[j], q.order)
<1> DEFINE n == Cardinality(M)
           rank(d) == Cardinality(L!Ahead(q, d))
<1>1. IsFiniteSet(M) /\ Linear(Order(q), M) /\ \A d \in M : Under(Order(q), M, d) = L!Ahead(q, d)
  BY AnswersOrdered
<1>2. /\ \A d \in M : rank(d) \in Nat /\ rank(d) < n
      /\ \A d, e \in M : <<d, e>> \in Order(q) <=> rank(d) < rank(e)
      /\ \A d, e \in M : rank(d) = rank(e) => d = e
      /\ \A i \in 1..n : \E d \in M : rank(d) = i - 1
  BY <1>1, Ranks
<1>3. n \in Nat /\ M \in SUBSET Docs
  BY <1>1, FS_CardinalityType DEF L!Matched
<1>4. A = [i \in 1..n |-> CHOOSE d \in M : rank(d) = i - 1]
  BY Listed DEF L!Answer
<1> HIDE DEF n, rank
<1>5. ASSUME NEW i \in 1..n PROVE A[i] \in M /\ rank(A[i]) = i - 1
  BY <1>2, <1>4
<1>6. A \in Seq(Docs) /\ Len(A) = n /\ DOMAIN A = 1..n
  <2>1. A \in [1..n -> Docs]
    BY <1>3, <1>4, <1>5
  <2>2. A \in Seq(Docs)
    BY <1>3, <2>1, SeqDef
  <2> QED BY <1>3, <2>1, <2>2, LenProperties
<1>7. ASSUME NEW d \in M PROVE rank(d) + 1 \in 1..n /\ A[rank(d) + 1] = d
  <2>1. PICK i : i = rank(d) + 1
    OBVIOUS
  <2>2. i \in 1..n /\ i - 1 = rank(d)
    BY <1>2, <1>3, <2>1
  <2>3. A[i] \in M /\ rank(A[i]) = rank(d)
    BY <1>5, <2>2
  <2>4. A[i] = d
    BY <1>2, <2>3
  <2> QED BY <2>1, <2>2, <2>4
<1>8. ASSUME NEW i \in 1..n, NEW j \in 1..n, i < j PROVE A[i] # A[j] /\ L!Before(A[i], A[j], q.order)
  <2>1. rank(A[i]) < rank(A[j]) /\ A[i] \in M /\ A[j] \in M
    <3>1. rank(A[i]) = i - 1 /\ rank(A[j]) = j - 1 /\ i - 1 < j - 1
      BY <1>5, <1>8
    <3> QED BY <1>5, <3>1
  <2>2. <<A[i], A[j]>> \in Order(q) /\ A[i] # A[j]
    BY <1>1, <1>2, <2>1 DEF Linear
  <2> QED BY <2>2 DEF Order
<1> QED BY <1>3, <1>5, <1>6, <1>7, <1>8 DEF n, rank

-----------------------------------------------------------------------------
(* The listing: its invariant *)

Tasks == [at : {"idle", "committed"}]
           \cup [at : {"write"}, doc : Docs, stamp : Nat, value : Values, byKey : BOOLEAN]
KeptPages == [kept : BOOLEAN, docs : Seq(Docs), behind : SUBSET L!Races]
OpenReads == [at : {"idle", "selected"}, offset : Nat, docs : Seq(Docs), behind : SUBSET L!Races]
Walks == [at : {"off", "walking", "done", "failed"}, query : Queries, cached : BOOLEAN,
          offset : Nat, seen : Seq(Docs)]

ListingType ==
  /\ DocsType /\ clock \in Nat /\ task \in [Writers -> Tasks] /\ walk \in Walks /\ fixed \in SUBSET Docs
  /\ walk.at = "off" => walk.offset = 0 /\ walk.seen = <<>> /\ fixed = {}

CacheType == pages \in [Offsets -> KeptPages] /\ reads \in [Readers -> OpenReads]

(* Whoever has begun to write since the walk began, if none had before,    *)
(* stamps later than every document that was not written since.            *)
Stamps ==
  /\ \A d \in Docs : docs[d].updated =< clock
  /\ \A w \in Writers : task[w].at = "write" => task[w].stamp =< clock
  /\ \A d \in fixed : docs[d].live
  /\ settled => \A d \in fixed, w \in Writers : task[w].at = "write" => docs[d].updated < task[w].stamp

(* Of what was not written, all that is not seen is still to come.         *)
ToCome(q) ==
  /\ q.op = "all" /\ q.order = "none" /\ settled /\ "delete" \notin since /\ L!Current
  /\ walk.at \in {"walking", "done"}
  => \A d \in fixed : \/ \E i \in DOMAIN walk.seen : walk.seen[i] = d
                      \/ walk.at = "walking" /\ walk.offset =< Cardinality(L!Ahead(q, d))

(* While nothing is written, what is seen is how the answer begins.        *)
SoFar(q) ==
  since = {} /\ walk.at \in {"walking", "done"} =>
    /\ Len(walk.seen) =< Cardinality(L!Matched(q))
    /\ \A i \in 1..Len(walk.seen) : walk.seen[i] = L!Answer(q)[i]
    /\ walk.at = "walking" => walk.offset = Len(walk.seen)
    /\ walk.at = "done" => Sortable(q) /\ Len(walk.seen) = Cardinality(L!Matched(q))

(* What no commit has left behind is what the table would answer.          *)
CacheFresh(q) ==
  /\ \A o \in Offsets : pages[o].kept /\ pages[o].behind = {} =>
       Sortable(q) /\ pages[o].docs = L!Slice(L!Answer(q), o)
  /\ \A r \in Readers : reads[r].at = "selected" /\ reads[r].behind = {} =>
       Sortable(q) /\ reads[r].docs = L!Slice(L!Answer(q), reads[r].offset)

ListingInv ==
  /\ ListingType /\ CacheType /\ Stamps
  /\ \A q \in Queries : walk.query = q => ToCome(q) /\ SoFar(q) /\ CacheFresh(q)

LEMMA Unmoved ==
  ASSUME UNCHANGED docs, NEW q
  PROVE  /\ L!Matched(q)' = L!Matched(q) /\ L!Answer(q)' = L!Answer(q) /\ Sortable(q)' = Sortable(q)
         /\ \A d : L!Ahead(q, d)' = L!Ahead(q, d)
<1>1. L!Matched(q)' = L!Matched(q)
  BY DEF L!Matched
<1>2. \A d, e : L!Newer(d, e)' = L!Newer(d, e)
  BY DEF L!Newer
<1>3. \A d, e : L!Before(d, e, q.order)' = L!Before(d, e, q.order)
  BY <1>2 DEF L!Before
<1>4. \A d : L!Ahead(q, d)' = L!Ahead(q, d)
  BY <1>1, <1>3 DEF L!Ahead
<1>5. L!Answer(q)' = L!Answer(q)
  BY <1>1, <1>4 DEF L!Answer
<1>6. Sortable(q)' = Sortable(q)
  BY <1>1 DEF Sortable, L!Incomparable
<1> QED BY <1>1, <1>4, <1>5, <1>6

LEMMA AllMatch ==
  ASSUME NEW q, q.op = "all", q.order = "none"
  PROVE  /\ L!Matched(q) = {d \in Docs : docs[d].live}
         /\ \A d : L!Ahead(q, d) = {e \in Docs : docs[e].live /\ L!Newer(e, d)}
BY DEF L!Matched, L!Ahead, L!Compare, L!Before

(* A page is what the answer has from the offset on, as far as it goes.    *)
LEMMA Cut ==
  ASSUME NEW A \in Seq(Docs), NEW o \in Nat
  PROVE  /\ L!Slice(A, o) \in Seq(Docs) /\ Len(L!Slice(A, o)) \in Nat
         /\ Len(L!Slice(A, o)) = IF o + Limit =< Len(A) THEN Limit ELSE IF o =< Len(A) THEN Len(A) - o ELSE 0
         /\ \A i \in 1..Len(L!Slice(A, o)) : L!Slice(A, o)[i] = A[o + i]
<1>p. PICK page : page = L!Slice(A, o)
  OBVIOUS
<1>0. Limit \in Nat /\ Limit >= 1 /\ Len(A) \in Nat
  BY Listed
<1>1. PICK m : m = L!Min({o + Limit, Len(A)})
  OBVIOUS
<1>2. m \in Nat /\ m =< Len(A) /\ m = IF o + Limit =< Len(A) THEN o + Limit ELSE Len(A)
  <2>1. PICK a : a = o + Limit /\ a \in Nat
    BY <1>0
  <2>2. \A x \in {a, Len(A)} : (\A y \in {a, Len(A)} : x =< y) <=> x = IF a =< Len(A) THEN a ELSE Len(A)
    BY <1>0, <2>1
  <2>3. L!Min({a, Len(A)}) = IF a =< Len(A) THEN a ELSE Len(A)
    BY <2>2 DEF L!Min
  <2> QED BY <1>0, <1>1, <2>1, <2>3
<1>3. page = SubSeq(A, o + 1, m)
  BY <1>p, <1>1 DEF L!Slice
<1>4. PICK f : f = o + 1
  OBVIOUS
<1>5. /\ page \in Seq(Docs) /\ Len(page) = IF f =< m THEN m - f + 1 ELSE 0
      /\ \A i \in 1..(m - f + 1) : page[i] = A[f + i - 1]
  <2>1. f \in Int /\ m \in Int /\ \A i \in f..m : A[i] \in Docs
    <3>1. \A i \in f..m : i \in 1..Len(A)
      BY <1>0, <1>2, <1>4
    <3> QED BY <1>2, <1>4, <3>1
  <2> QED BY <1>3, <1>4, <2>1, SubSeqProperties
<1>6. Len(page) = IF o + Limit =< Len(A) THEN Limit ELSE IF o =< Len(A) THEN Len(A) - o ELSE 0
  <2>1. Len(page) = IF f =< m THEN m - f + 1 ELSE 0
    BY <1>5
  <2>2. PICK l : l = Len(A)
    OBVIOUS
  <2>3. CASE o + Limit =< l
    BY <1>0, <1>2, <1>4, <2>1, <2>2, <2>3
  <2>4. CASE ~(o + Limit =< l)
    BY <1>0, <1>2, <1>4, <2>1, <2>2, <2>4
  <2> QED BY <2>2, <2>3, <2>4
<1>7. ASSUME NEW i \in 1..Len(page) PROVE page[i] = A[o + i]
  <2>1. i \in 1..(m - f + 1) /\ f + i - 1 = o + i
    BY <1>0, <1>2, <1>4, <1>5
  <2> QED BY <1>5, <2>1
<1>8. page \in Seq(Docs)
  BY <1>5
<1>9. Len(page) \in Nat
  BY <1>8
<1> QED BY <1>p, <1>6, <1>7, <1>8, <1>9

LEMMA Joined ==
  ASSUME NEW s \in Seq(Docs), NEW page \in Seq(Docs), NEW both, both = s \o page
  PROVE  /\ both \in Seq(Docs) /\ Len(both) = Len(s) + Len(page) /\ DOMAIN both = 1..Len(both)
         /\ \A i \in 1..Len(s) : both[i] = s[i]
         /\ \A i \in 1..Len(page) : both[Len(s) + i] = page[i]
<1>1. Len(s) \in Nat /\ Len(page) \in Nat
  OBVIOUS
<1>2. /\ both \in Seq(Docs) /\ Len(both) = Len(s) + Len(page)
      /\ \A i \in 1..(Len(s) + Len(page)) : both[i] = IF i =< Len(s) THEN s[i] ELSE page[i - Len(s)]
  BY ConcatProperties
<1>3. ASSUME NEW i \in 1..Len(page) PROVE both[Len(s) + i] = page[i]
  <2>1. PICK j : j = Len(s) + i
    OBVIOUS
  <2>2. j \in 1..(Len(s) + Len(page)) /\ ~(j =< Len(s)) /\ j - Len(s) = i
    BY <1>1, <2>1
  <2> QED BY <1>2, <2>1, <2>2
<1>4. \A i \in 1..Len(s) : i \in 1..(Len(s) + Len(page)) /\ i =< Len(s)
  BY <1>1
<1> QED BY <1>2, <1>3, <1>4

(* What a page adds to a walk, wherever it comes from.                     *)
LEMMA Turned ==
  ASSUME ListingType, NEW q \in Queries, walk.query = q, walk.at = "walking",
         NEW page \in Seq(Docs), L!Turn(page)
  PROVE  /\ walk' \in Walks /\ walk'.query = q /\ walk'.offset = walk.offset + Limit
         /\ walk'.seen = walk.seen \o page
         /\ walk'.at = IF Len(page) < Limit THEN "done" ELSE "walking"
<1>1. PICK at, next, both :
        /\ at = (IF Len(page) < Limit THEN "done" ELSE "walking")
        /\ next = walk.offset + Limit /\ both = walk.seen \o page
  OBVIOUS
<1>2. walk \in Walks /\ walk.offset \in Nat /\ walk.seen \in Seq(Docs) /\ Limit \in Nat
  BY Listed DEF ListingType, Walks
<1>3. at \in {"walking", "done"} /\ next \in Nat /\ both \in Seq(Docs)
  BY <1>1, <1>2, ConcatProperties
<1>4. at = (IF Len(page) < Limit THEN "done" ELSE walk.at)
  BY <1>1
<1>5. walk' = [walk EXCEPT !.seen = both, !.offset = next, !.at = at]
  BY <1>1, <1>4 DEF L!Turn
<1>6. walk' \in Walks
  BY <1>2, <1>3, <1>5 DEF Walks
<1>7. walk'.query = q /\ walk'.offset = next /\ walk'.seen = both /\ walk'.at = at
  BY <1>2, <1>5 DEF Walks
<1> QED BY <1>1, <1>6, <1>7

(* What is neither in docs nor in the walk may change.                     *)
LEMMA CacheWaits ==
  ASSUME ListingInv, UNCHANGED <<docs, pages, reads>>, walk'.query = walk.query
  PROVE  CacheType' /\ \A q \in Queries : walk'.query = q => CacheFresh(q)'
<1>1. CacheType'
  BY DEF ListingInv, CacheType
<1>2. ASSUME NEW q \in Queries, walk.query = q PROVE CacheFresh(q)'
  <2>1. CacheFresh(q)
    BY <1>2 DEF ListingInv
  <2>2. L!Answer(q)' = L!Answer(q) /\ Sortable(q)' = Sortable(q)
    BY Unmoved
  <2>3. PICK A : A = L!Answer(q)
    OBVIOUS
  <2>4. \A o : L!Slice(A, o)' = L!Slice(A, o)
    BY <2>2, <2>3 DEF L!Slice, L!Min
  <2> QED BY <2>1, <2>2 DEF CacheFresh, L!Slice, L!Min
<1> QED BY <1>1, <1>2

(* While docs is as it was, each page and each read has to be what it was, *)
(* or fresh, or nothing.                                                   *)
LEMMA FreshStays ==
  ASSUME ListingInv, NEW q \in Queries, walk.query = q, UNCHANGED docs,
         \A o \in Offsets : \/ pages'[o] = pages[o] \/ ~pages'[o].kept
                            \/ pages'[o].behind = {} =>
                                 Sortable(q) /\ pages'[o].docs = L!Slice(L!Answer(q), o),
         \A r \in Readers : \/ reads'[r] = reads[r] \/ reads'[r].at = "idle"
                            \/ Sortable(q) /\ reads'[r].docs = L!Slice(L!Answer(q), reads'[r].offset)
  PROVE  CacheFresh(q)'
<1>1. L!Answer(q)' = L!Answer(q) /\ Sortable(q)' = Sortable(q)
  BY Unmoved
<1>2. \A o : L!Slice(L!Answer(q), o)' = L!Slice(L!Answer(q), o)
  BY <1>1 DEF L!Slice, L!Min
<1>3. CacheFresh(q)
  BY DEF ListingInv
<1>4. ASSUME NEW o \in Offsets, pages'[o].kept, pages'[o].behind = {}
      PROVE  Sortable(q)' /\ pages'[o].docs = L!Slice(L!Answer(q), o)'
  BY <1>1, <1>2, <1>3, <1>4 DEF CacheFresh
<1>5. ASSUME NEW r \in Readers, reads'[r].at = "selected", reads'[r].behind = {}
      PROVE  Sortable(q)' /\ reads'[r].docs = L!Slice(L!Answer(q)', reads'[r].offset)
  <2>1. \A o : L!Slice(L!Answer(q)', o) = L!Slice(L!Answer(q), o)
    BY <1>1
  <2> QED BY <1>1, <1>3, <1>5, <2>1 DEF CacheFresh
<1> QED BY <1>4, <1>5 DEF CacheFresh, L!Slice, L!Min

(* What a page of the table's answer adds.                                 *)
LEMMA PageRead ==
  ASSUME ListingInv, NEW q \in Queries, walk.query = q, walk.at = "walking", Sortable(q),
         NEW page, page = L!Slice(L!Answer(q), walk.offset),
         L!Turn(page), UNCHANGED <<docs, clock, task, pages, reads, fixed, settled, since>>
  PROVE  ListingInv'
<1> DEFINE n == Cardinality(L!Matched(q))
           rank(d) == Cardinality(L!Ahead(q, d))
<1>0. ListingType /\ Stamps /\ ToCome(q) /\ SoFar(q) /\ DocsType
  BY DEF ListingInv, ListingType
<1>1. PICK A, o, seen : A = L!Answer(q) /\ o = walk.offset /\ seen = walk.seen
  OBVIOUS
<1>2. o \in Nat /\ seen \in Seq(Docs) /\ Limit \in Nat /\ Limit >= 1 /\ Len(seen) \in Nat
  BY <1>0, <1>1, Listed DEF ListingType, Walks
<1>3. /\ n \in Nat /\ A \in Seq(Docs) /\ Len(A) = n
      /\ \A d \in L!Matched(q) : rank(d) + 1 \in 1..n /\ A[rank(d) + 1] = d
  BY <1>0, <1>1, AnswerSound
<1>4. /\ page \in Seq(Docs) /\ Len(page) \in Nat
      /\ Len(page) = IF o + Limit =< n THEN Limit ELSE IF o =< n THEN n - o ELSE 0
      /\ \A i \in 1..Len(page) : page[i] = A[o + i]
  <2>1. page = L!Slice(A, o)
    BY <1>1
  <2>2. A \in Seq(Docs) /\ Len(A) = n
    BY <1>3
  <2> HIDE DEF n, rank
  <2>3. /\ L!Slice(A, o) \in Seq(Docs) /\ Len(L!Slice(A, o)) \in Nat
        /\ Len(L!Slice(A, o)) = IF o + Limit =< Len(A) THEN Limit ELSE IF o =< Len(A) THEN Len(A) - o ELSE 0
        /\ \A i \in 1..Len(L!Slice(A, o)) : L!Slice(A, o)[i] = A[o + i]
    BY <1>2, <2>2, Cut
  <2> QED BY <2>1, <2>2, <2>3
<1>5. PICK both : both = seen \o page
  OBVIOUS
<1>6. /\ both \in Seq(Docs) /\ Len(both) = Len(seen) + Len(page) /\ DOMAIN both = 1..Len(both)
      /\ \A i \in 1..Len(seen) : both[i] = seen[i]
      /\ \A i \in 1..Len(page) : both[Len(seen) + i] = page[i]
  <2>1. seen \in Seq(Docs) /\ page \in Seq(Docs)
    BY <1>2, <1>4
  <2> QED BY <1>5, <2>1, Joined
<1>7. /\ walk' \in Walks /\ walk'.query = q /\ walk'.offset = o + Limit /\ walk'.seen = both
      /\ walk'.at = IF Len(page) < Limit THEN "done" ELSE "walking"
  BY <1>0, <1>1, <1>4, <1>5, Turned
<1>f. /\ Len(page) < Limit => walk'.at = "done"
      /\ ~(Len(page) < Limit) => walk'.at = "walking"
  BY <1>7
<1>8. ListingType'
  BY <1>0, <1>7 DEF ListingType, DocsType
<1>9. Stamps'
  BY <1>0 DEF Stamps
<1>u. L!Matched(q)' = L!Matched(q) /\ L!Answer(q)' = A /\ Sortable(q)' /\ \A d : L!Ahead(q, d)' = L!Ahead(q, d)
  BY <1>1, Unmoved
<1> HIDE DEF n, rank
<1>10. ToCome(q)'
  <2>1. ASSUME q.op = "all", q.order = "none", settled, "delete" \notin since, L!Current, NEW d \in fixed
        PROVE  \/ \E i \in DOMAIN both : both[i] = d
               \/ walk'.at = "walking" /\ o + Limit =< rank(d)
    <3>1. CASE \E i \in DOMAIN seen : seen[i] = d
      <4>1. PICK i \in 1..Len(seen) : seen[i] = d
        BY <1>2, <3>1
      <4>2. i \in DOMAIN both /\ both[i] = d
        BY <1>2, <1>4, <1>6, <4>1
      <4> QED BY <4>2
    <3>2. CASE o =< rank(d)
      <4>1. d \in L!Matched(q)
        BY <1>0, <2>1, AllMatch DEF Stamps, ListingType
      <4>2. rank(d) + 1 \in 1..n /\ A[rank(d) + 1] = d
        BY <1>3, <4>1
      <4>3. PICK r : r = rank(d)
        OBVIOUS
      <4>4. r + 1 \in 1..n /\ r \in Int
        <5>1. rank(d) \in Int
          BY <4>1, <1>0, Listed, FS_Subset, FS_CardinalityType DEF rank, L!Ahead, L!Matched
        <5> QED BY <4>2, <4>3, <5>1
      <4>5. CASE r < o + Limit
        <5>1. PICK i : i = r + 1 - o
          OBVIOUS
        <5>2. i \in 1..Len(page) /\ o + i = r + 1
          <6>1. PICK l : l = Len(page)
            OBVIOUS
          <6>2. l \in Nat /\ (o + Limit =< n => l = Limit) /\ (~(o + Limit =< n) /\ o =< n => l = n - o)
            BY <1>4, <6>1
          <6>3. o =< r /\ r + 1 =< n /\ r < o + Limit /\ r \in Int
            BY <1>3, <3>2, <4>3, <4>4, <4>5
          <6>4. n \in Nat /\ o \in Nat /\ Limit \in Nat
            BY <1>2, <1>3
          <6>5. i >= 1 /\ i =< l /\ i \in Int /\ o + i = r + 1
            BY <5>1, <6>2, <6>3, <6>4
          <6> QED BY <6>1, <6>2, <6>5
        <5>3. both[Len(seen) + i] = d
          BY <1>4, <1>6, <4>2, <4>3, <5>2
        <5>4. Len(seen) + i \in DOMAIN both
          BY <1>2, <1>4, <1>6, <5>2
        <5> QED BY <5>3, <5>4
      <4>6. CASE ~(r < o + Limit)
        <5>1. o + Limit =< r /\ ~(Len(page) < Limit)
          BY <1>2, <1>3, <1>4, <4>4, <4>6
        <5>2. walk'.at = "walking"
          BY <1>f, <5>1
        <5> QED BY <4>3, <5>1, <5>2
      <4> QED BY <4>5, <4>6
    <3> QED BY <1>0, <1>1, <2>1, <3>1, <3>2 DEF ToCome, rank
  <2>2. walk'.seen = both /\ walk'.offset = o + Limit
    BY <1>7
  <2>3. \A d : Cardinality(L!Ahead(q, d)') = rank(d)
    BY <1>u DEF rank
  <2>4. settled' = settled /\ since' = since /\ fixed' = fixed /\ L!Current' = L!Current
    BY DEF L!Current
  <2>5. ASSUME q.op = "all", q.order = "none", settled, "delete" \notin since, L!Current, NEW d \in fixed
        PROVE  \/ \E i \in DOMAIN walk'.seen : walk'.seen[i] = d
               \/ walk'.at = "walking" /\ walk'.offset =< Cardinality(L!Ahead(q, d)')
    <3>1. CASE \E i \in DOMAIN both : both[i] = d
      BY <2>2, <3>1
    <3>2. CASE walk'.at = "walking" /\ o + Limit =< rank(d)
      BY <2>2, <2>3, <3>2
    <3> QED BY <2>1, <2>5, <3>1, <3>2
  <2>6. ASSUME /\ q.op = "all" /\ q.order = "none" /\ settled' /\ "delete" \notin since' /\ L!Current'
               /\ walk'.at \in {"walking", "done"},
               NEW d \in fixed'
        PROVE  \/ \E i \in DOMAIN walk'.seen : walk'.seen[i] = d
               \/ walk'.at = "walking" /\ walk'.offset =< Cardinality(L!Ahead(q, d)')
    <3>1. settled /\ "delete" \notin since /\ L!Current /\ d \in fixed
      BY <2>4, <2>6
    <3> QED BY <2>5, <2>6, <3>1
  <2> QED BY <2>6 DEF ToCome
<1>11. SoFar(q)'
  <2> SUFFICES ASSUME since = {}
               PROVE  /\ Len(both) =< n
                      /\ \A i \in 1..Len(both) : both[i] = A[i]
                      /\ ~(Len(page) < Limit) => o + Limit = Len(both)
                      /\ Len(page) < Limit => Len(both) = n
    BY <1>7, <1>f, <1>u DEF SoFar, n
  <2>1. Len(seen) =< n /\ o = Len(seen) /\ \A i \in 1..Len(seen) : seen[i] = A[i]
    BY <1>0, <1>1 DEF SoFar, n
  <2>2. /\ Len(both) =< n
        /\ ~(Len(page) < Limit) => o + Limit = Len(both)
        /\ Len(page) < Limit => Len(both) = n
    BY <1>2, <1>3, <1>4, <1>6, <2>1
  <2>3. ASSUME NEW i \in 1..Len(both) PROVE both[i] = A[i]
    <3>1. CASE i =< Len(seen)
      <4>1. i \in 1..Len(seen)
        BY <1>2, <3>1
      <4> QED BY <1>6, <2>1, <4>1
    <3>2. CASE ~(i =< Len(seen))
      <4>1. PICK j : j = i - Len(seen)
        OBVIOUS
      <4>2. j \in 1..Len(page) /\ Len(seen) + j = i /\ o + j = i
        BY <1>2, <1>4, <1>6, <2>1, <3>2, <4>1
      <4> QED BY <1>4, <1>6, <4>2
    <3> QED BY <3>1, <3>2
  <2> QED BY <2>2, <2>3
<1>12. \A p \in Queries : walk'.query = p => p = q
  BY <1>7
<1>13. CacheType' /\ CacheFresh(q)'
  BY <1>7, CacheWaits
<1> QED BY <1>8, <1>9, <1>10, <1>11, <1>12, <1>13 DEF ListingInv

(* What is neither in docs nor in the walk may change.                     *)
LEMMA WalkWaits ==
  ASSUME ListingInv, UNCHANGED <<docs, walk, fixed, settled, since>>
  PROVE  \A q \in Queries : walk'.query = q => ToCome(q)' /\ SoFar(q)'
<1> SUFFICES ASSUME NEW q \in Queries, walk.query = q PROVE ToCome(q)' /\ SoFar(q)'
  OBVIOUS
<1>1. ToCome(q) /\ SoFar(q)
  BY DEF ListingInv
<1>2. L!Matched(q)' = L!Matched(q) /\ L!Answer(q)' = L!Answer(q) /\ Sortable(q)' = Sortable(q)
      /\ \A d : L!Ahead(q, d)' = L!Ahead(q, d)
  BY Unmoved
<1>3. ToCome(q)'
  BY <1>1, <1>2 DEF ToCome, L!Current
<1>4. SoFar(q)'
  BY <1>1, <1>2 DEF SoFar
<1> QED BY <1>3, <1>4

LEMMA Begins ==
  ASSUME ListingInv, NEW w \in Writers, NEW d \in Docs, NEW value \in Values, NEW byKey \in BOOLEAN,
         L!Begin(w, d, value, byKey)
  PROVE  ListingInv'
<1>0. ListingType /\ Stamps /\ DocsType /\ clock \in Nat
  BY DEF ListingInv, ListingType
<1>1. UNCHANGED <<docs, pages, reads, walk, fixed, settled, since>> /\ clock' = clock + 1
  BY DEF L!Begin
<1>2. PICK t : t = [at |-> "write", doc |-> d, stamp |-> clock + 1, value |-> value, byKey |-> byKey]
  OBVIOUS
<1>3. t \in Tasks /\ t.at = "write" /\ t.stamp = clock + 1
  BY <1>0, <1>2 DEF Tasks
<1>4. task' = [task EXCEPT ![w] = t]
  BY <1>1, <1>2 DEF L!Begin
<1>5. task' \in [Writers -> Tasks] /\ task'[w] = t /\ \A x \in Writers : x # w => task'[x] = task[x]
  BY <1>0, <1>3, <1>4 DEF ListingType
<1>6. ListingType'
  BY <1>0, <1>1, <1>5 DEF ListingType, DocsType
<1>7. \A e \in Docs : docs[e].updated \in Nat /\ docs[e].updated =< clock
  BY <1>0 DEF Stamps, DocsType
<1>8. ASSUME NEW x \in Writers, task'[x].at = "write" PROVE task'[x].stamp =< clock'
  <2>1. CASE x = w
    BY <1>0, <1>1, <1>3, <1>5, <2>1
  <2>2. CASE x # w
    <3>1. task[x] \in Tasks /\ task[x].at = "write" /\ task[x].stamp =< clock
      BY <1>0, <1>5, <1>8, <2>2 DEF Stamps, ListingType
    <3>2. task[x].stamp \in Nat
      BY <3>1 DEF Tasks
    <3> QED BY <1>0, <1>1, <1>5, <2>2, <3>1, <3>2
  <2> QED BY <2>1, <2>2
<1>9. ASSUME settled, NEW e \in fixed, NEW x \in Writers, task'[x].at = "write"
      PROVE  docs[e].updated < task'[x].stamp
  <2>1. CASE x = w
    <3>1. e \in Docs
      BY <1>0 DEF ListingType
    <3> QED BY <1>0, <1>3, <1>5, <1>7, <2>1, <3>1
  <2>2. CASE x # w
    BY <1>0, <1>5, <1>9, <2>2 DEF Stamps
  <2> QED BY <2>1, <2>2
<1>10. Stamps'
  <2>1. \A e \in Docs : docs'[e].updated =< clock'
    BY <1>0, <1>1, <1>7
  <2> QED BY <1>0, <1>1, <1>8, <1>9, <2>1 DEF Stamps
<1> QED BY <1>1, <1>6, <1>10, WalkWaits, CacheWaits DEF ListingInv

(* A write that is over: its document is not among the fixed ones.         *)
LEMMA HasEnded ==
  ASSUME ListingInv, NEW w \in Writers, NEW row \in [live : BOOLEAN, updated : Nat, value : Values],
         task[w].at = "write", row.updated =< clock,
         docs' = [docs EXCEPT ![task[w].doc] = row], fixed' = fixed \ {task[w].doc},
         NEW at \in {"idle", "committed"}, task' = [task EXCEPT ![w] = [at |-> at]],
         UNCHANGED <<clock, walk, settled>>
  PROVE  /\ ListingType' /\ Stamps'
         /\ task[w].doc \in Docs /\ docs'[task[w].doc] = row
         /\ \A d \in Docs : d # task[w].doc => docs'[d] = docs[d]
<1>0. ListingType /\ Stamps /\ DocsType
  BY DEF ListingInv, ListingType
<1>1. task[w] \in Tasks
  BY <1>0 DEF ListingType
<1>2. PICK doc : doc = task[w].doc
  OBVIOUS
<1>3. doc \in Docs
  BY <1>1, <1>2 DEF Tasks
<1>4. DocsType' /\ docs'[doc] = row /\ \A d \in Docs : d # doc => docs'[d] = docs[d]
  BY <1>0, <1>2, <1>3 DEF DocsType
<1>5. [at |-> at] \in Tasks
  BY DEF Tasks
<1>6. /\ task' \in [Writers -> Tasks] /\ task'[w].at # "write"
      /\ \A x \in Writers : x # w => task'[x] = task[x]
  BY <1>0, <1>5 DEF ListingType
<1>7. ListingType'
  BY <1>0, <1>4, <1>6 DEF ListingType
<1>8. Stamps'
  <2>1. \A d \in Docs : docs'[d].updated =< clock'
    BY <1>0, <1>4 DEF Stamps
  <2>2. \A x \in Writers : task'[x].at = "write" => task'[x].stamp =< clock'
    BY <1>0, <1>6 DEF Stamps
  <2>3. \A d \in fixed' : d \in fixed /\ d \in Docs /\ d # doc /\ docs'[d] = docs[d]
    BY <1>0, <1>2, <1>4 DEF ListingType
  <2>4. \A d \in fixed' : docs'[d].live
    BY <1>0, <2>3 DEF Stamps
  <2>5. ASSUME settled', NEW d \in fixed', NEW x \in Writers, task'[x].at = "write"
        PROVE  docs'[d].updated < task'[x].stamp
    <3>1. x # w /\ task'[x] = task[x]
      BY <1>6, <2>5
    <3> QED BY <1>0, <2>3, <2>5, <3>1 DEF Stamps
  <2> QED BY <2>1, <2>2, <2>4, <2>5 DEF Stamps
<1> QED BY <1>2, <1>3, <1>4, <1>7, <1>8

(* A commit leaves everything behind that was selected before it.          *)
LEMMA Outdates ==
  ASSUME ListingInv, NEW w \in Writers, task[w].at = "write", L!Outdate(w)
  PROVE  /\ CacheType' /\ \A q \in Queries : CacheFresh(q)'
         /\ \E at \in {"idle", "committed"} : task' = [task EXCEPT ![w] = [at |-> at]]
<1>0. CacheType /\ task[w] \in Tasks
  BY DEF ListingInv, ListingType
<1>1. PICK byKey \in BOOLEAN : byKey = task[w].byKey
  BY <1>0 DEF Tasks
<1>2. PICK forPages, forReads, at :
        /\ forPages = (IF byKey THEN "key" ELSE "open") /\ forReads = (IF byKey THEN "key" ELSE "late")
        /\ at = (IF byKey THEN "idle" ELSE "committed")
  OBVIOUS
<1>3. forPages \in L!Races /\ forReads \in L!Races /\ at \in {"idle", "committed"}
  BY <1>2 DEF L!Races
<1>4. /\ pages' = [o \in Offsets |-> IF pages[o].kept
                                     THEN [pages[o] EXCEPT !.behind = pages[o].behind \cup {forPages}]
                                     ELSE pages[o]]
      /\ reads' = [r \in Readers |-> IF reads[r].at = "selected"
                                     THEN [reads[r] EXCEPT !.behind = reads[r].behind \cup {forReads}]
                                     ELSE reads[r]]
      /\ task' = [task EXCEPT ![w] = [at |-> at]]
  BY <1>1, <1>2 DEF L!Outdate
<1>5. ASSUME NEW o \in Offsets PROVE pages'[o] \in KeptPages /\ (pages'[o].kept => pages'[o].behind # {})
  <2>1. pages[o] \in KeptPages
    BY <1>0 DEF CacheType
  <2>2. CASE pages[o].kept
    <3>1. pages'[o] = [pages[o] EXCEPT !.behind = pages[o].behind \cup {forPages}]
      BY <1>4, <2>2
    <3>2. pages[o].behind \cup {forPages} \in SUBSET L!Races
      BY <1>3, <2>1 DEF KeptPages
    <3> QED BY <2>1, <3>1, <3>2 DEF KeptPages
  <2>3. CASE ~pages[o].kept
    BY <1>4, <2>1, <2>3
  <2> QED BY <2>2, <2>3
<1>6. ASSUME NEW r \in Readers PROVE reads'[r] \in OpenReads /\ (reads'[r].at = "selected" => reads'[r].behind # {})
  <2>1. reads[r] \in OpenReads
    BY <1>0 DEF CacheType
  <2>2. CASE reads[r].at = "selected"
    <3>1. reads'[r] = [reads[r] EXCEPT !.behind = reads[r].behind \cup {forReads}]
      BY <1>4, <2>2
    <3>2. reads[r].behind \cup {forReads} \in SUBSET L!Races
      BY <1>3, <2>1 DEF OpenReads
    <3> QED BY <2>1, <3>1, <3>2 DEF OpenReads
  <2>3. CASE reads[r].at # "selected"
    BY <1>4, <2>1, <2>3
  <2> QED BY <2>2, <2>3
<1>7. CacheType'
  BY <1>4, <1>5, <1>6 DEF CacheType
<1>8. \A q \in Queries : CacheFresh(q)'
  BY <1>5, <1>6 DEF CacheFresh
<1> QED BY <1>3, <1>4, <1>7, <1>8

(* What is written moves to the front: it does not bring what was not      *)
(* written nearer to the front.                                            *)
LEMMA Commits ==
  ASSUME ListingInv, NEW w \in Writers, L!Commit(w)
  PROVE  ListingInv'
<1>0. ListingType /\ Stamps /\ DocsType /\ task[w] \in Tasks /\ task[w].at = "write"
  BY DEF ListingInv, ListingType, L!Commit
<1>1. PICK t, row : t = task[w] /\ row = [live |-> TRUE, updated |-> t.stamp, value |-> t.value]
  OBVIOUS
<1>2. row \in [live : BOOLEAN, updated : Nat, value : Values] /\ row.updated = t.stamp /\ row.live
  BY <1>0, <1>1 DEF Tasks
<1>3. row.updated =< clock
  BY <1>0, <1>1, <1>2 DEF Stamps
<1>c. CacheType' /\ \A q \in Queries : CacheFresh(q)'
  BY <1>0, Outdates DEF L!Commit
<1>a. PICK at \in {"idle", "committed"} : task' = [task EXCEPT ![w] = [at |-> at]]
  BY <1>0, Outdates DEF L!Commit
<1>4. /\ docs' = [docs EXCEPT ![task[w].doc] = row] /\ fixed' = fixed \ {task[w].doc}
      /\ UNCHANGED <<clock, walk, settled>> /\ since' = since \cup {"write"}
  BY <1>1 DEF L!Commit
<1>5. /\ ListingType' /\ Stamps' /\ t.doc \in Docs /\ docs'[t.doc] = row
      /\ \A d \in Docs : d # t.doc => docs'[d] = docs[d]
  <2>1. row \in [live : BOOLEAN, updated : Nat, value : Values]
    BY <1>2
  <2>2. /\ ListingType' /\ Stamps' /\ task[w].doc \in Docs /\ docs'[task[w].doc] = row
        /\ \A d \in Docs : d # task[w].doc => docs'[d] = docs[d]
    BY <1>0, <1>3, <1>4, <1>a, <2>1, HasEnded
  <2> QED BY <1>1, <2>2
<1>6. ASSUME NEW q \in Queries, walk.query = q PROVE ToCome(q)' /\ SoFar(q)'
  <2>1. SoFar(q)'
    BY <1>4 DEF SoFar
  <2>2. ASSUME q.op = "all", q.order = "none", settled, "delete" \notin since', L!Current',
               walk'.at \in {"walking", "done"}, NEW d \in fixed'
        PROVE  \/ \E i \in DOMAIN walk'.seen : walk'.seen[i] = d
               \/ walk'.at = "walking" /\ walk'.offset =< Cardinality(L!Ahead(q, d)')
    <3>1. d \in fixed /\ d \in Docs /\ d # t.doc /\ docs'[d] = docs[d] /\ walk' = walk
      BY <1>0, <1>1, <1>4, <1>5 DEF ListingType
    <3>2. \/ \E i \in DOMAIN walk.seen : walk.seen[i] = d
          \/ walk.at = "walking" /\ walk.offset =< Cardinality(L!Ahead(q, d))
      BY <1>4, <1>6, <2>2, <3>1 DEF ListingInv, ToCome, L!Current
    <3>3. docs[d].updated < t.stamp /\ docs[d].updated \in Nat /\ t.stamp \in Nat
      BY <1>0, <1>1, <2>2, <3>1 DEF Stamps, DocsType, Tasks
    <3>4. L!Ahead(q, d) = {e \in Docs : docs[e].live /\ L!Newer(e, d)}
      BY <2>2, AllMatch
    <3>5. L!Ahead(q, d)' = {e \in Docs : docs'[e].live /\ L!Newer(e, d)'}
      BY <2>2 DEF L!Matched, L!Ahead, L!Compare, L!Before
    <3>6. ASSUME NEW e \in Docs, docs[e].live, L!Newer(e, d) PROVE docs'[e].live /\ L!Newer(e, d)'
      <4>1. CASE e = t.doc
        <5>1. docs'[e].updated > docs'[d].updated /\ docs'[e].live
          BY <1>2, <1>5, <3>1, <3>3, <4>1
        <5> QED BY <5>1 DEF L!Newer
      <4>2. CASE e # t.doc
        BY <1>5, <3>1, <3>6, <4>2 DEF L!Newer
      <4> QED BY <4>1, <4>2
    <3>7. PICK Old, Now : Old = L!Ahead(q, d) /\ Now = L!Ahead(q, d)'
      OBVIOUS
    <3>8. Old \in SUBSET Now /\ Now \in SUBSET Docs
      BY <3>4, <3>5, <3>6, <3>7
    <3>9. Cardinality(Old) \in Nat /\ Cardinality(Now) \in Nat /\ Cardinality(Old) =< Cardinality(Now)
      BY <3>8, Listed, FS_Subset, FS_CardinalityType
    <3>10. walk.offset \in Nat
      BY <1>0 DEF ListingType, Walks
    <3>11. walk.offset =< Cardinality(Old) => walk.offset =< Cardinality(Now)
      BY <3>9, <3>10
    <3> QED BY <3>1, <3>2, <3>7, <3>11
  <2>3. ToCome(q)'
    BY <1>4, <2>2 DEF ToCome
  <2> QED BY <2>1, <2>3
<1> QED BY <1>4, <1>5, <1>6, <1>c DEF ListingInv

LEMMA Deletes ==
  ASSUME ListingInv, NEW w \in Writers, L!Delete(w)
  PROVE  ListingInv'
<1>0. ListingType /\ Stamps /\ task[w].at = "write" /\ clock \in Nat
  BY DEF ListingInv, ListingType, L!Delete
<1>1. PICK row : row = L!Gone
  OBVIOUS
<1>2. row \in [live : BOOLEAN, updated : Nat, value : Values] /\ row.updated = 0
  BY <1>1 DEF L!Gone, L!Null, Values, Null
<1>c. CacheType' /\ \A q \in Queries : CacheFresh(q)'
  BY <1>0, Outdates DEF L!Delete
<1>a. PICK at \in {"idle", "committed"} : task' = [task EXCEPT ![w] = [at |-> at]]
  BY <1>0, Outdates DEF L!Delete
<1>3. /\ docs' = [docs EXCEPT ![task[w].doc] = row] /\ fixed' = fixed \ {task[w].doc}
      /\ UNCHANGED <<clock, walk, settled>> /\ since' = since \cup {"write", "delete"}
  BY <1>1 DEF L!Delete
<1>4. row.updated =< clock
  BY <1>0, <1>2
<1>5. ListingType' /\ Stamps'
  BY <1>0, <1>2, <1>3, <1>4, <1>a, HasEnded
<1>6. \A q \in Queries : ToCome(q)' /\ SoFar(q)'
  BY <1>3 DEF ToCome, SoFar
<1> QED BY <1>5, <1>6, <1>c DEF ListingInv

(* A page that was selected and no commit has left behind is as fresh      *)
(* cached as it was; and pages may always be dropped.                      *)
LEMMA Invalidates == ASSUME ListingInv, NEW w \in Writers, L!Invalidate(w) PROVE ListingInv'
<1>0. ListingType /\ Stamps /\ CacheType /\ task[w].at = "committed"
      /\ UNCHANGED <<docs, clock, reads, walk, fixed, settled, since>>
  BY DEF ListingInv, L!Invalidate
<1>1. /\ task' = [task EXCEPT ![w] = [at |-> "idle"]]
      /\ pages' = [o \in Offsets |-> [kept |-> FALSE, docs |-> <<>>, behind |-> {}]]
  BY DEF L!Invalidate, L!NoPage
<1>2. [at |-> "idle"] \in Tasks
  BY DEF Tasks
<1>3. /\ task' \in [Writers -> Tasks] /\ task'[w].at # "write"
      /\ \A x \in Writers : x # w => task'[x] = task[x]
  BY <1>0, <1>1, <1>2 DEF ListingType
<1>4. ListingType'
  BY <1>0, <1>3 DEF ListingType, DocsType
<1>5. Stamps'
  BY <1>0, <1>3 DEF Stamps
<1>6. \A o \in Offsets : pages'[o] = [kept |-> FALSE, docs |-> <<>>, behind |-> {}]
  BY <1>1
<1>7. CacheType'
  <2>1. [kept |-> FALSE, docs |-> <<>>, behind |-> {}] \in KeptPages
    BY DEF KeptPages
  <2> QED BY <1>0, <1>1, <2>1 DEF CacheType
<1>8. ASSUME NEW q \in Queries, walk.query = q PROVE CacheFresh(q)'
  BY <1>0, <1>6, <1>8, FreshStays
<1> QED BY <1>0, <1>4, <1>5, <1>7, <1>8, WalkWaits DEF ListingInv

LEMMA ReadsOne ==
  ASSUME ListingInv, NEW r \in Readers, NEW o \in Offsets, L!Read(r, o) PROVE ListingInv'
<1>0. ListingType /\ Stamps /\ CacheType /\ UNCHANGED <<docs, clock, task, pages, walk, fixed, settled, since>>
  BY DEF ListingInv, L!Read
<1>1. PICK q \in Queries : walk.query = q
  BY <1>0 DEF ListingType, Walks
<1>2. PICK page : page = L!Slice(L!Answer(q), o)
  OBVIOUS
<1>3. PICK read : read = [at |-> "selected", offset |-> o, docs |-> page, behind |-> {}]
  OBVIOUS
<1>4. Sortable(q) /\ reads' = [reads EXCEPT ![r] = read]
  BY <1>1, <1>2, <1>3 DEF L!Read, L!Fails, Sortable
<1>5. o \in Nat /\ page \in Seq(Docs)
  <2>1. L!Answer(q) \in Seq(Docs)
    BY <1>0, <1>4, AnswerSound DEF ListingType
  <2>2. o \in Nat
    BY Listed
  <2> QED BY <1>2, <2>1, <2>2, Cut
<1>6. read \in OpenReads
  BY <1>3, <1>5 DEF OpenReads
<1>7. CacheType' /\ reads'[r] = read /\ \A x \in Readers : x # r => reads'[x] = reads[x]
  BY <1>0, <1>4, <1>6 DEF CacheType
<1>8. CacheFresh(q)'
  <2>1. read.docs = page /\ read.offset = o
    BY <1>3
  <2> QED BY <1>0, <1>1, <1>2, <1>4, <1>7, <2>1, FreshStays
<1>9. ListingType' /\ Stamps'
  BY <1>0 DEF ListingType, DocsType, Stamps
<1> QED BY <1>0, <1>1, <1>7, <1>8, <1>9, WalkWaits DEF ListingInv

LEMMA Keeps == ASSUME ListingInv, NEW r \in Readers, L!Keep(r) PROVE ListingInv'
<1>0. ListingType /\ Stamps /\ CacheType /\ UNCHANGED <<docs, clock, task, walk, fixed, settled, since>>
  BY DEF ListingInv, L!Keep
<1>1. PICK q \in Queries : walk.query = q
  BY <1>0 DEF ListingType, Walks
<1>2. PICK old, kept : old = reads[r] /\ kept = [kept |-> TRUE, docs |-> old.docs, behind |-> old.behind]
  OBVIOUS
<1>3. old \in OpenReads /\ old.at = "selected"
  BY <1>0, <1>2 DEF CacheType, L!Keep
<1>4. kept \in KeptPages /\ kept.docs = old.docs /\ kept.behind = old.behind
  BY <1>2, <1>3 DEF OpenReads, KeptPages
<1>5. PICK none : none = L!NoRead
  OBVIOUS
<1>6. none \in OpenReads /\ none.at = "idle"
  BY <1>5 DEF L!NoRead, OpenReads
<1>7. pages' = [pages EXCEPT ![old.offset] = kept] /\ reads' = [reads EXCEPT ![r] = none]
  BY <1>2, <1>5 DEF L!Keep
<1>8. CacheType'
  BY <1>0, <1>4, <1>6, <1>7 DEF CacheType
<1>9. CacheFresh(q)'
  <2>1. \A x \in Readers : reads'[x] = reads[x] \/ reads'[x].at = "idle"
    BY <1>0, <1>6, <1>7 DEF CacheType
  <2>2. \A o \in Offsets : \/ pages'[o] = pages[o]
                           \/ o = old.offset /\ pages'[o] = kept
    BY <1>0, <1>7 DEF CacheType
  <2>3. old.behind = {} => Sortable(q) /\ old.docs = L!Slice(L!Answer(q), old.offset)
    BY <1>1, <1>2, <1>3 DEF ListingInv, CacheFresh
  <2>4. ASSUME NEW o \in Offsets, pages'[o].behind = {}, o = old.offset, pages'[o] = kept
        PROVE  Sortable(q) /\ pages'[o].docs = L!Slice(L!Answer(q), o)
    BY <1>4, <2>3, <2>4
  <2> QED BY <1>0, <1>1, <2>1, <2>2, <2>4, FreshStays
<1>10. ListingType' /\ Stamps'
  BY <1>0 DEF ListingType, DocsType, Stamps
<1> QED BY <1>0, <1>1, <1>8, <1>9, <1>10, WalkWaits DEF ListingInv

LEMMA Forgets == ASSUME ListingInv, NEW o \in Offsets, L!Forget(o) PROVE ListingInv'
<1>0. ListingType /\ Stamps /\ CacheType /\ UNCHANGED <<docs, clock, task, reads, walk, fixed, settled, since>>
  BY DEF ListingInv, L!Forget
<1>1. PICK none : none = L!NoPage
  OBVIOUS
<1>2. none \in KeptPages /\ ~none.kept
  BY <1>1 DEF L!NoPage, KeptPages
<1>3. pages' = [pages EXCEPT ![o] = none]
  BY <1>1 DEF L!Forget
<1>4. CacheType' /\ \A x \in Offsets : pages'[x] = pages[x] \/ pages'[x] = none
  BY <1>0, <1>2, <1>3 DEF CacheType
<1>5. ASSUME NEW q \in Queries, walk.query = q PROVE CacheFresh(q)'
  BY <1>0, <1>2, <1>4, <1>5, FreshStays
<1>6. ListingType' /\ Stamps'
  BY <1>0 DEF ListingType, DocsType, Stamps
<1> QED BY <1>0, <1>4, <1>5, <1>6, WalkWaits DEF ListingInv

LEMMA Starts == ASSUME ListingInv, L!Start PROVE ListingInv'
<1>0. ListingType /\ Stamps /\ DocsType /\ walk \in Walks /\ walk.at = "off"
  BY DEF ListingInv, ListingType, L!Start
<1>1. /\ UNCHANGED <<docs, clock, task, pages, reads>> /\ fixed' = {d \in Docs : docs[d].live}
      /\ settled' = L!Ready /\ since' = {} /\ walk' = [walk EXCEPT !.at = "walking"]
  BY DEF L!Start
<1>2. walk.offset = 0 /\ walk.seen = <<>>
  BY <1>0 DEF ListingType
<1>3. walk' \in Walks /\ walk'.at = "walking" /\ walk'.query = walk.query /\ walk'.offset = 0 /\ walk'.seen = <<>>
  BY <1>0, <1>1, <1>2 DEF Walks
<1>4. ListingType'
  BY <1>0, <1>1, <1>3 DEF ListingType, DocsType
<1>5. Stamps'
  BY <1>0, <1>1 DEF Stamps, L!Ready
<1>6. ASSUME NEW q \in Queries PROVE ToCome(q)' /\ SoFar(q)'
  <2>1. \A d : Cardinality(L!Ahead(q, d)') >= 0
    <3>1. \A d : L!Ahead(q, d)' \in SUBSET Docs
      BY DEF L!Ahead, L!Matched
    <3> QED BY <3>1, Listed, FS_Subset, FS_CardinalityType
  <2>2. Cardinality(L!Matched(q)') >= 0
    <3>1. L!Matched(q)' \in SUBSET Docs
      BY DEF L!Matched
    <3> QED BY <3>1, Listed, FS_Subset, FS_CardinalityType
  <2>3. ToCome(q)'
    BY <1>3, <2>1 DEF ToCome
  <2>4. Len(walk'.seen) = 0
    BY <1>3
  <2>5. SoFar(q)'
    BY <1>3, <2>2, <2>4 DEF SoFar
  <2> QED BY <2>3, <2>5
<1> QED BY <1>1, <1>3, <1>4, <1>5, <1>6, CacheWaits DEF ListingInv

LEMMA ReadsPage == ASSUME ListingInv, L!ReadPage PROVE ListingInv'
<1>0. ListingType /\ Stamps /\ DocsType /\ walk \in Walks /\ walk.at = "walking"
      /\ UNCHANGED <<docs, clock, task, pages, reads, fixed, settled, since>>
  BY DEF ListingInv, ListingType, L!ReadPage
<1>1. PICK q \in Queries : walk.query = q
  BY <1>0 DEF Walks
<1>2. PICK page : page = L!Slice(L!Answer(q), walk.offset)
  OBVIOUS
<1>3. CASE Sortable(q)
  <2>1. ~L!Fails(q)
    BY <1>3 DEF Sortable, L!Fails
  <2>2. L!Turn(page)
    BY <1>1, <1>2, <2>1 DEF L!ReadPage
  <2> QED BY <1>0, <1>1, <1>2, <1>3, <2>2, PageRead
<1>4. CASE ~Sortable(q)
  <2>1. L!Fails(q)
    BY <1>4 DEF Sortable, L!Fails
  <2>2. walk' = [walk EXCEPT !.at = "failed"]
    BY <1>1, <2>1 DEF L!ReadPage
  <2>3. walk' \in Walks /\ walk'.at = "failed"
    BY <1>0, <2>2 DEF Walks
  <2>4. ListingType'
    BY <1>0, <2>3 DEF ListingType, DocsType
  <2>5. Stamps'
    BY <1>0 DEF Stamps
  <2>6. \A p \in Queries : ToCome(p)' /\ SoFar(p)'
    BY <2>3 DEF ToCome, SoFar
  <2>7. walk'.query = walk.query
    BY <1>0, <2>2 DEF Walks
  <2> QED BY <1>0, <2>4, <2>5, <2>6, <2>7, CacheWaits DEF ListingInv
<1> QED BY <1>3, <1>4

(* A page from the cache is what the table would answer, or one of the     *)
(* races is remembered.                                                    *)
LEMMA ReadsCached == ASSUME ListingInv, L!ReadCached PROVE ListingInv'
<1>0. /\ ListingType /\ Stamps /\ CacheType /\ walk \in Walks /\ walk.at = "walking"
      /\ UNCHANGED <<docs, clock, task, pages, reads, fixed, settled>>
  BY DEF ListingInv, ListingType, L!ReadCached
<1>1. PICK q \in Queries : walk.query = q
  BY <1>0 DEF Walks
<1>2. PICK o \in Offsets : o = walk.offset /\ pages[o].kept
  BY DEF L!ReadCached, L!InCache
<1>3. PICK page : page = pages[o]
  OBVIOUS
<1>4. page \in KeptPages /\ page.docs \in Seq(Docs) /\ page.behind \in SUBSET L!Races
  BY <1>0, <1>3 DEF CacheType, KeptPages
<1>5. L!Turn(page.docs) /\ since' = since \cup page.behind
  BY <1>2, <1>3 DEF L!ReadCached
<1>6. CASE page.behind = {}
  <2>1. Sortable(q) /\ page.docs = L!Slice(L!Answer(q), walk.offset)
    BY <1>1, <1>2, <1>3, <1>6 DEF ListingInv, CacheFresh
  <2>2. since' = since
    BY <1>5, <1>6
  <2> QED BY <1>0, <1>1, <1>5, <2>1, <2>2, PageRead
<1>7. CASE page.behind # {}
  <2>1. walk' \in Walks /\ walk'.query = q /\ walk'.at \in {"walking", "done"}
    <3>1. /\ walk' \in Walks /\ walk'.query = q
          /\ walk'.at = IF Len(page.docs) < Limit THEN "done" ELSE "walking"
      BY <1>0, <1>1, <1>4, <1>5, Turned
    <3> QED BY <3>1
  <2>2. since' # {} /\ since' \cap L!Races # {}
    BY <1>4, <1>5, <1>7
  <2>3. \A p \in Queries : ToCome(p)' /\ SoFar(p)'
    BY <2>2 DEF ToCome, SoFar, L!Current, L!Races
  <2>4. ListingType' /\ Stamps'
    BY <1>0, <2>1 DEF ListingType, DocsType, Stamps
  <2>5. CacheType' /\ \A p \in Queries : walk'.query = p => CacheFresh(p)'
    BY <1>0, <1>1, <2>1, CacheWaits
  <2> QED BY <2>3, <2>4, <2>5 DEF ListingInv
<1> QED BY <1>6, <1>7

LEMMA ListingStarts == L!Init => ListingInv
<1> SUFFICES ASSUME L!Init PROVE ListingInv
  OBVIOUS
<1>1. PICK value \in [Docs -> Values], live \in SUBSET Docs :
        docs = [d \in Docs |-> IF d \in live THEN [live |-> TRUE, updated |-> 0, value |-> value[d]] ELSE L!Gone]
  BY DEF L!Init
<1>2. ASSUME NEW d \in Docs PROVE docs[d] \in [live : BOOLEAN, updated : Nat, value : Values] /\ docs[d].updated = 0
  <2>1. CASE d \in live
    BY <1>1, <2>1
  <2>2. CASE d \notin live
    <3>1. docs[d] = L!Gone
      BY <1>1, <2>2
    <3> QED BY <3>1 DEF L!Gone, L!Null, Values, Null
  <2> QED BY <2>1, <2>2
<1>3. DocsType
  BY <1>1, <1>2 DEF DocsType
<1>4. PICK query \in Queries, cached \in BOOLEAN :
        walk = [at |-> "off", query |-> query, cached |-> cached, offset |-> 0, seen |-> <<>>]
  BY DEF L!Init
<1>5. walk \in Walks /\ walk.at = "off" /\ walk.offset = 0 /\ walk.seen = <<>>
  BY <1>4 DEF Walks
<1>6. clock = 0 /\ fixed = {} /\ task = [w \in Writers |-> [at |-> "idle"]]
  BY DEF L!Init
<1>7. task \in [Writers -> Tasks] /\ \A w \in Writers : task[w].at # "write"
  BY <1>6 DEF Tasks
<1>8. ListingType
  BY <1>3, <1>5, <1>6, <1>7 DEF ListingType
<1>9. Stamps
  BY <1>2, <1>6, <1>7 DEF Stamps
<1>10. \A q \in Queries : ToCome(q) /\ SoFar(q)
  BY <1>5 DEF ToCome, SoFar
<1>11. CacheType /\ \A q \in Queries : CacheFresh(q)
  <2>1. PICK page, read : page = L!NoPage /\ read = L!NoRead
    OBVIOUS
  <2>2. page \in KeptPages /\ ~page.kept /\ read \in OpenReads /\ read.at = "idle"
    BY <2>1 DEF L!NoPage, L!NoRead, KeptPages, OpenReads
  <2>3. pages = [o \in Offsets |-> page] /\ reads = [r \in Readers |-> read]
    BY <2>1 DEF L!Init
  <2> QED BY <2>2, <2>3 DEF CacheType, CacheFresh
<1> QED BY <1>8, <1>9, <1>10, <1>11 DEF ListingInv

LEMMA ListingStep == ASSUME ListingInv, L!Next PROVE ListingInv'
<1>1. ASSUME NEW w \in Writers, NEW d \in Docs, NEW value \in Values, NEW byKey \in BOOLEAN,
             L!Begin(w, d, value, byKey)
      PROVE  ListingInv'
  BY <1>1, Begins
<1>2. ASSUME NEW w \in Writers, L!Commit(w) \/ L!Delete(w) \/ L!Invalidate(w) PROVE ListingInv'
  BY <1>2, Commits, Deletes, Invalidates
<1>3. ASSUME NEW r \in Readers, NEW o \in Offsets, L!Read(r, o) PROVE ListingInv'
  BY <1>3, ReadsOne
<1>4. ASSUME NEW r \in Readers, L!Keep(r) PROVE ListingInv'
  BY <1>4, Keeps
<1>5. ASSUME NEW o \in Offsets, L!Forget(o) PROVE ListingInv'
  BY <1>5, Forgets
<1> QED BY <1>1, <1>2, <1>3, <1>4, <1>5, Starts, ReadsPage, ReadsCached DEF L!Next

-----------------------------------------------------------------------------
(* The listing: what it promises *)

(* What comes before is in the order that was asked for.                   *)
LEMMA BeforeOrdered ==
  ASSUME DocsType, NEW d \in Docs, NEW e \in Docs, NEW order \in {"none", "asc", "desc"}, L!Before(d, e, order)
  PROVE  L!Ordered(d, e, order)
<1>1. PICK v, w : v = docs[d].value /\ w = docs[e].value
  OBVIOUS
<1>2. ValueType(v) /\ ValueType(w)
  BY <1>1, ValuesType DEF DocsType
<1>3. CASE order = "none"
  <2>1. ~L!Newer(e, d)
    BY <1>3, NewerOrdered DEF L!Before
  <2> QED BY <1>3, <2>1 DEF L!Ordered
<1>4. ASSUME NEW x, NEW y, ValueType(x), ValueType(y), L!KeyBelow(x, y) \/ ~L!KeyBelow(y, x)
      PROVE  (x.kind = "null" => y.kind = "null") /\ (y.kind # "null" => ~L!Below(y, x))
  BY <1>4 DEF ValueType, L!KeyBelow, L!Below
<1>5. \A x : ValueType(x) => ~L!KeyBelow(x, x)
  BY DEF ValueType, L!KeyBelow, L!Below
<1>6. CASE order = "asc"
  <2>1. L!KeyBelow(v, w) \/ (~L!KeyBelow(w, v) /\ L!Newer(d, e))
    BY <1>1, <1>6 DEF L!Before, L!Precedes
  <2>2. (v.kind = "null" => w.kind = "null") /\ (w.kind # "null" => ~L!Below(w, v)) /\ (v = w => L!Newer(d, e))
    BY <1>2, <1>4, <1>5, <2>1
  <2> QED BY <1>1, <1>6, <2>2 DEF L!Ordered
<1>7. CASE order = "desc"
  <2>1. L!KeyBelow(w, v) \/ (~L!KeyBelow(v, w) /\ L!Newer(d, e))
    BY <1>1, <1>7 DEF L!Before, L!Precedes
  <2>2. (w.kind = "null" => v.kind = "null") /\ (v.kind # "null" => ~L!Below(v, w)) /\ (v = w => L!Newer(d, e))
    BY <1>2, <1>4, <1>5, <2>1
  <2> QED BY <1>1, <1>7, <2>2 DEF L!Ordered
<1> QED BY <1>3, <1>6, <1>7

LEMMA WalksEnd == ASSUME ListingInv PROVE L!WalkComplete /\ L!StaticWalk
<1>0. ListingType /\ DocsType /\ walk \in Walks
  BY DEF ListingInv, ListingType
<1>1. PICK q \in Queries : walk.query = q
  BY <1>0 DEF Walks
<1>2. ToCome(q) /\ SoFar(q)
  BY <1>1 DEF ListingInv
<1>3. PICK seen : seen = walk.seen
  OBVIOUS
<1>4. seen \in Seq(Docs) /\ DOMAIN seen = 1..Len(seen) /\ Len(seen) \in Nat
  BY <1>0, <1>3 DEF Walks
<1>5. L!ToSet(seen) = {seen[i] : i \in DOMAIN seen}
  BY Listed DEF ToSet
<1>6. L!WalkComplete
  <2>1. SUFFICES ASSUME walk.at = "done", q.op = "all", q.order = "none", settled,
                        "delete" \notin since, L!Current, NEW d \in fixed
                 PROVE  d \in L!ToSet(seen)
    BY <1>1, <1>3 DEF L!WalkComplete, L!Done, L!Plain
  <2>2. \E i \in DOMAIN seen : seen[i] = d
    BY <1>2, <1>3, <2>1 DEF ToCome
  <2> QED BY <1>5, <2>2
<1>7. L!StaticWalk
  <2>1. SUFFICES ASSUME walk.at = "done", since = {}
                 PROVE  /\ L!ToSet(seen) = L!Matched(q)
                        /\ \A i, j \in DOMAIN seen : i < j => seen[i] # seen[j] /\ L!Ordered(seen[i], seen[j], q.order)
    BY <1>1, <1>3 DEF L!StaticWalk, L!IsAnswer, L!Done
  <2>2. PICK M, A : M = L!Matched(q) /\ A = L!Answer(q)
    OBVIOUS
  <2>3. Sortable(q) /\ Len(seen) = Cardinality(M) /\ \A i \in 1..Len(seen) : seen[i] = A[i]
    BY <1>2, <1>3, <2>1, <2>2 DEF SoFar
  <2>4. /\ M \in SUBSET Docs
        /\ \A i \in 1..Cardinality(M) : A[i] \in M
        /\ \A d \in M : /\ Cardinality(L!Ahead(q, d)) + 1 \in 1..Cardinality(M)
                        /\ A[Cardinality(L!Ahead(q, d)) + 1] = d
        /\ \A i, j \in 1..Cardinality(M) : i < j => A[i] # A[j] /\ L!Before(A[i], A[j], q.order)
    BY <1>0, <2>2, <2>3, AnswerSound
  <2>5. \A d \in M : \E i \in 1..Cardinality(M) : A[i] = d
    BY <2>4
  <2>6. \A i \in DOMAIN seen : i \in 1..Cardinality(M) /\ seen[i] = A[i]
    BY <1>4, <2>3
  <2>7. {seen[i] : i \in DOMAIN seen} = M
    BY <1>4, <2>3, <2>4, <2>5, <2>6
  <2>8. q.order \in {"none", "asc", "desc"}
    BY DEF Queries, Ask
  <2>9. ASSUME NEW i \in DOMAIN seen, NEW j \in DOMAIN seen, i < j
        PROVE  seen[i] # seen[j] /\ L!Ordered(seen[i], seen[j], q.order)
    <3>1. seen[i] # seen[j] /\ L!Before(seen[i], seen[j], q.order) /\ seen[i] \in Docs /\ seen[j] \in Docs
      BY <2>4, <2>6, <2>9
    <3> QED BY <1>0, <2>8, <3>1, BeforeOrdered
  <2> QED BY <1>5, <2>2, <2>7, <2>9
<1> QED BY <1>6, <1>7

(* Whether something happens or nothing does.                              *)
LEMMA ListingGoesOn == ASSUME ListingInv, [L!Next]_(L!vars) PROVE ListingInv'
<1>1. CASE L!Next
  BY <1>1, ListingStep
<1>2. CASE UNCHANGED L!vars
  <2>1. UNCHANGED <<docs, clock, task, pages, reads, walk, fixed, settled, since>>
    BY <1>2 DEF L!vars
  <2>2. ListingType' /\ Stamps'
    BY <2>1 DEF ListingInv, ListingType, DocsType, Stamps
  <2> QED BY <2>1, <2>2, WalkWaits, CacheWaits DEF ListingInv
<1> QED BY <1>1, <1>2

LEMMA ListingAlways == MCSpec => [](scene = "listing" => ListingInv)
<1>1. MCInit => (scene = "listing" => ListingInv)
  BY ListingStarts DEF MCInit, ListingInit
<1>2. (scene = "listing" => ListingInv) /\ [MCNext]_<<vars, scene, listingVars>> => (scene = "listing" => ListingInv)'
  <2> SUFFICES ASSUME scene = "listing" => ListingInv, [MCNext]_<<vars, scene, listingVars>>, scene' = "listing"
               PROVE  ListingInv'
    OBVIOUS
  <2>1. CASE scene = "listing" /\ L!Next
    BY <2>1, ListingStep
  <2>2. CASE UNCHANGED <<vars, scene, listingVars>>
    <3>1. scene = "listing" /\ UNCHANGED L!vars
      BY <2>2 DEF listingVars, L!vars
    <3> QED BY <3>1, ListingGoesOn
  <2> QED BY <2>1, <2>2 DEF MCNext
<1> QED BY <1>1, <1>2, PTL DEF MCSpec

(* WalkSound, for any documents, writers and other readers and any size of *)
(* a page: if no page came from the cache that was behind the table, a     *)
(* walk over the collection misses no document that stayed and was not     *)
(* written, for what is written moves to the front; and if besides nothing *)
(* is written, the pages put together are the answer                       *)
(* (public_query_documents and the other list and query endpoints).        *)
THEOREM WalksAreSound == MCSpec => []WalkSound
<1>1. (scene = "listing" => ListingInv) => WalkSound
  BY WalksEnd DEF WalkSound
<1> QED BY <1>1, ListingAlways, PTL

(* The same of every behaviour of Listing, of all its values and queries   *)
(* and any number of writes, and not only of those TLC goes through: each  *)
(* query may be answered from the cache (query_documents,                  *)
(* public_query_documents).                                                *)
THEOREM EveryWalkIsSound == L!Spec => [](L!WalkComplete /\ L!StaticWalk)
<1>1. ListingInv => L!WalkComplete /\ L!StaticWalk
  BY WalksEnd
<1>2. L!Spec => []ListingInv
  <2>1. ListingInv /\ [L!Next]_(L!vars) => ListingInv'
    BY ListingGoesOn
  <2> QED BY <2>1, ListingStarts, PTL DEF L!Spec
<1> QED BY <1>1, <1>2, PTL

=============================================================================
