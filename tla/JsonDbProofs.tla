---------------------------- MODULE JsonDbProofs ----------------------------
(***************************************************************************)
(* Proofs about JsonDb: its types, that its operation log can always be    *)
(* replayed, that the table and the log agree on who owns a document, and  *)
(* that the document_owner rule isolates app users, for any number of      *)
(* requests in progress and whatever they ask.                             *)
(***************************************************************************)
EXTENDS JsonDb, TLAPS

Entry == LogEntry \cup AdminEntry

(* A session knows its request; it holds the lock from its first flush on. *)
SessionOK(c) ==
  /\ pc[c] # "idle" => req[c] \in Requests /\ snap[c] \in Collection
  /\ pc[c] # "ready" => writer # c /\ item[c] = 1 /\ obj[c] = Absent
  /\ item[c] > 1 <=> writer = c

(* What the session loaded is still true of the row's existence and owner, *)
(* in the table or, for the lock holder, in its transaction.               *)
SameOwner(row, rows, d) == rows[d] # Absent /\ rows[d].owner = row.owner
ObjectOK(c) ==
  pc[c] = "ready" =>
    /\ item[c] = 1 => Finds(First(c), obj[c])
    /\ item[c] > 1 => obj[c] # Absent
    /\ obj[c] # Absent =>
         /\ SameOwner(obj[c], tdocs, First(c).id)
         /\ writer # c => SameOwner(obj[c], docs, First(c).id)

(* A committed row is in the transaction too, with its owner.              *)
RowsKept == \A d \in DocIds : docs[d] # Absent => SameOwner(docs[d], tdocs, d)
Idle == writer = None => tdocs = docs /\ tlog = log

LogOK ==
  /\ CreatesFirstIn(log) /\ CreatesFirstIn(tlog)
  /\ OwnersAgreeIn(docs, log) /\ OwnersAgreeIn(tdocs, tlog)

IInv ==
  /\ TypeOK
  /\ \A c \in Clients : SessionOK(c)
  /\ \A c \in Clients : ObjectOK(c)
  /\ RowsKept
  /\ Idle
  /\ LogOK

-----------------------------------------------------------------------------
(* A patch of a document is a document.                                    *)
LEMMA MergeType ==
  ASSUME NEW old \in Data, NEW new \in Data
  PROVE  Merge(old, new) \in Data
<1>1. PICK F \in SUBSET Fields : old \in [F -> Values]
  BY DEF Data
<1>2. PICK G \in SUBSET Fields : new \in [G -> Values]
  BY DEF Data
<1>3. Merge(old, new) \in [F \cup G -> Values]
  BY <1>1, <1>2 DEF Merge
<1>4. F \cup G \in SUBSET Fields
  OBVIOUS
<1> QED BY <1>3, <1>4 DEF Data

(* A write makes a row of a row, and never changes its owner.              *)
LEMMA NewRowType ==
  ASSUME NEW r \in Requests, NEW w \in Write, NEW row \in Row \cup {Absent},
         row = Absent => w.op \in {"create", "set"}
  PROVE  /\ NewRow(r, w, row) \in Row
         /\ row # Absent => NewRow(r, w, row).owner = row.owner
         /\ row = Absent => NewRow(r, w, row).owner = InsertOwner(r)
<1>0. w.op \in Ops /\ w.data \in Data
  BY DEF Write
<1>1. CASE row = Absent
  <2>1. r.app \in Apps \cup {None}
    BY JsonDbAssumption DEF IsRequest
  <2> QED BY <1>0, <1>1, <2>1 DEF NewRow, InsertRow, InsertOwner, Row
<1>2. CASE row # Absent
  <2>0. row \in Row /\ row.data \in Data /\ row.version + 1 \in Nat \ {0}
    BY <1>2 DEF Row
  <2>1. CASE w.op \in {"create", "set"}
    BY <1>0, <1>2, <2>0, <2>1 DEF NewRow, ReplaceRow, Row
  <2>2. CASE w.op = "patch"
    <3>1. Merge(row.data, w.data) \in Data
      BY <1>0, <2>0, MergeType
    <3> QED BY <1>0, <1>2, <2>0, <2>2, <3>1 DEF NewRow, PatchRow, Row
  <2>3. CASE w.op = "delete"
    BY <1>0, <1>2, <2>0, <2>3 DEF NewRow, DeleteRow, Row
  <2> QED BY <1>0, <2>1, <2>2, <2>3 DEF Ops
<1> QED BY <1>1, <1>2

(* The flush of a row writes a row, with the owner it had.                 *)
LEMMA FlushType ==
  ASSUME NEW row \in Row \cup {Absent}, NEW new \in Row,
         NEW cur \in Row \cup {Absent},
         row # Absent => cur # Absent
  PROVE  /\ Flush(row, new, cur) \in Row
         /\ row = Absent => Flush(row, new, cur) = new
         /\ row # Absent => Flush(row, new, cur).owner = cur.owner
BY DEF Flush, Row

-----------------------------------------------------------------------------
(* Appending to the log keeps what was said of its entries.                *)
LEMMA AppendKeepsCreates ==
  ASSUME NEW l \in Seq(Entry), NEW e \in Entry, CreatesFirstIn(l),
         e.op \in Ops /\ e.op # "create" =>
           \E j \in DOMAIN l : l[j].op = "create" /\ l[j].id = e.id
  PROVE  CreatesFirstIn(Append(l, e))
<1> DEFINE m == Append(l, e)
<1>1. /\ DOMAIN m = 1..(Len(l) + 1)
      /\ DOMAIN l = 1..Len(l)
      /\ \A i \in DOMAIN l : m[i] = l[i]
      /\ m[Len(l) + 1] = e
      /\ Len(l) \in Nat
  OBVIOUS
<1> HIDE DEF m
<1> SUFFICES ASSUME NEW i \in DOMAIN m, m[i].op \in Ops, m[i].op # "create"
             PROVE  \E j \in 1..(i - 1) : m[j].op = "create" /\ m[j].id = m[i].id
  BY DEF CreatesFirstIn, m
<1>2. CASE i \in DOMAIN l
  <2>1. PICK j \in 1..(i - 1) : l[j].op = "create" /\ l[j].id = l[i].id
    BY <1>1, <1>2 DEF CreatesFirstIn
  <2>2. j \in DOMAIN l
    BY <1>1, <1>2, <2>1
  <2> QED BY <1>1, <1>2, <2>1, <2>2
<1>3. CASE i = Len(l) + 1
  <2>1. PICK j \in DOMAIN l : l[j].op = "create" /\ l[j].id = e.id
    BY <1>1, <1>3
  <2>2. j \in 1..(i - 1)
    BY <1>1, <1>3, <2>1
  <2> QED BY <1>1, <1>3, <2>1, <2>2
<1> QED BY <1>1, <1>2, <1>3

(* An operation on a row keeps the owners of table and log in agreement    *)
(* when it names nobody or the row's owner and the row keeps its owner, or *)
(* when it is the create that inserts the row.                             *)
LEMMA AppendKeepsOwners ==
  ASSUME NEW rows \in [DocIds -> Row \cup {Absent}],
         NEW l \in Seq(Entry), NEW e \in LogEntry, NEW row \in Row,
         OwnersAgreeIn(rows, l),
         e.owner \in {None, row.owner},
         rows[e.id] # Absent => rows[e.id].owner = row.owner,
         rows[e.id] = Absent => e.op = "create" /\ e.owner = row.owner
  PROVE  OwnersAgreeIn([rows EXCEPT ![e.id] = row], Append(l, e))
<1> DEFINE m == Append(l, e)
           after == [rows EXCEPT ![e.id] = row]
<1>0. e.id \in DocIds /\ e.op \in Ops
  BY DEF LogEntry
<1>1. /\ DOMAIN m = 1..(Len(l) + 1)
      /\ DOMAIN l = 1..Len(l)
      /\ \A i \in DOMAIN l : i \in DOMAIN m /\ m[i] = l[i]
      /\ m[Len(l) + 1] = e
      /\ Len(l) \in Nat
  OBVIOUS
<1>2. /\ \A d \in DocIds : after[d] = IF d = e.id THEN row ELSE rows[d]
      /\ row # Absent
  BY JsonRowsAssumption
<1> HIDE DEF m, after
<1>3. ASSUME NEW i \in DOMAIN m, m[i].op \in Ops
      PROVE  after[m[i].id] # Absent /\ m[i].owner \in {None, after[m[i].id].owner}
  <2>1. CASE i = Len(l) + 1
    BY <1>0, <1>1, <1>2, <2>1
  <2>2. CASE i \in DOMAIN l
    <3>1. l[i] \in LogEntry
      BY <1>1, <1>3, <2>2 DEF Entry, LogEntry, AdminEntry, Ops
    <3>2. l[i].id \in DocIds
      BY <3>1 DEF LogEntry
    <3>3. rows[l[i].id] # Absent /\ l[i].owner \in {None, rows[l[i].id].owner}
      BY <1>1, <1>3, <2>2 DEF OwnersAgreeIn
    <3> QED BY <1>1, <1>2, <2>2, <3>2, <3>3
  <2> QED BY <1>1, <2>1, <2>2
<1>4. ASSUME NEW d \in DocIds, after[d] # Absent
      PROVE  \E i \in DOMAIN m :
               m[i].op = "create" /\ m[i].id = d /\ m[i].owner = after[d].owner
  <2>1. CASE rows[d] = Absent
    <3>1. d = e.id
      BY <1>2, <1>4, <2>1
    <3> QED BY <1>1, <1>2, <2>1, <3>1
  <2>2. CASE rows[d] # Absent
    <3>1. PICK i \in DOMAIN l :
            l[i].op = "create" /\ l[i].id = d /\ l[i].owner = rows[d].owner
      BY <2>2 DEF OwnersAgreeIn
    <3>2. after[d].owner = rows[d].owner
      BY <1>2, <2>2
    <3> QED BY <1>1, <3>1, <3>2
  <2> QED BY <2>1, <2>2
<1> QED BY <1>3, <1>4 DEF OwnersAgreeIn, m, after

(* A rules or validator operation is about no document.                    *)
LEMMA AdminKeepsOwners ==
  ASSUME NEW rows \in [DocIds -> Row \cup {Absent}],
         NEW l \in Seq(Entry), NEW e \in AdminEntry, OwnersAgreeIn(rows, l)
  PROVE  OwnersAgreeIn(rows, Append(l, e))
<1> DEFINE m == Append(l, e)
<1>1. /\ DOMAIN m = 1..(Len(l) + 1)
      /\ DOMAIN l = 1..Len(l)
      /\ \A i \in DOMAIN l : i \in DOMAIN m /\ m[i] = l[i]
      /\ m[Len(l) + 1] = e
      /\ Len(l) \in Nat
  OBVIOUS
<1>2. e.op \notin Ops
  BY DEF AdminEntry, Ops
<1> HIDE DEF m
<1>3. \A i \in DOMAIN m : m[i].op \in Ops => i \in DOMAIN l
  BY <1>1, <1>2
<1> QED BY <1>1, <1>3 DEF OwnersAgreeIn, m

-----------------------------------------------------------------------------
(* The invariant holds initially.                                          *)
LEMMA InitInv == Init => IInv
<1> SUFFICES ASSUME Init PROVE IInv
  OBVIOUS
<1>1. NewCollection \in Collection
  BY DEF NewCollection, Collection, Rules
<1>2. log = <<>> /\ tlog = <<>> /\ <<>> \in Seq(LogEntry \cup AdminEntry)
  BY DEF Init
<1>3. TypeOK
  BY <1>1, <1>2 DEF Init, TypeOK
<1>4. \A c \in Clients : SessionOK(c) /\ ObjectOK(c)
  BY JsonDbAssumption DEF Init, SessionOK, ObjectOK
<1>5. RowsKept /\ Idle
  BY DEF Init, RowsKept, Idle
<1>6. CreatesFirstIn(log) /\ OwnersAgreeIn(docs, log)
  BY <1>2 DEF Init, CreatesFirstIn, OwnersAgreeIn
<1> QED BY <1>2, <1>3, <1>4, <1>5, <1>6 DEF IInv, LogOK, Init

(* What a step that touches no row and no log entry has to show.           *)
LEMMA QuietStep ==
  ASSUME IInv, UNCHANGED db, TypeOK',
         (\A c \in Clients : SessionOK(c) /\ ObjectOK(c))'
  PROVE  IInv'
BY DEF IInv, db, RowsKept, SameOwner, Idle, LogOK, CreatesFirstIn, OwnersAgreeIn

(* Begin and Find only change what the session knows.                      *)
LEMMA BeginInv ==
  ASSUME IInv, NEW c \in Clients, Begin(c)
  PROVE  IInv'
<1>1. PICK r \in Requests : req' = [req EXCEPT ![c] = r]
  BY DEF Begin
<1>2. TypeOK'
  BY <1>1 DEF IInv, TypeOK, Begin, db
<1>3. ASSUME NEW k \in Clients PROVE SessionOK(k)' /\ ObjectOK(k)'
  <2>1. SessionOK(k) /\ ObjectOK(k) /\ SessionOK(c)
    BY DEF IInv
  <2>2. CASE k = c
    BY <1>1, <2>1, <2>2 DEF IInv, TypeOK, Begin, db, SessionOK, ObjectOK
  <2>3. CASE k # c
    <3>1. /\ pc'[k] = pc[k] /\ req'[k] = req[k] /\ snap'[k] = snap[k]
          /\ obj'[k] = obj[k] /\ item'[k] = item[k]
      BY <1>1, <2>3 DEF IInv, TypeOK, Begin
    <3> QED BY <2>1, <3>1 DEF Begin, db, SessionOK, ObjectOK, First, SameOwner
  <2> QED BY <2>2, <2>3
<1> QED BY <1>2, <1>3, QuietStep DEF Begin

(* Forgetting a request keeps the other sessions as they are.              *)
LEMMA ForgetTypes ==
  ASSUME TypeOK, NEW c \in Clients, Forget(c)
  PROVE  /\ pc' \in [Clients -> {"idle", "begun", "ready"}]
         /\ req' \in [Clients -> Requests \cup {None}]
         /\ snap' \in [Clients -> Collection \cup {None}]
         /\ obj' \in [Clients -> Row \cup {Absent}]
         /\ item' \in [Clients -> Nat \ {0}]
         /\ pc'[c] = "idle" /\ obj'[c] = Absent /\ item'[c] = 1
         /\ \A k \in Clients \ {c} :
              /\ pc'[k] = pc[k] /\ req'[k] = req[k] /\ snap'[k] = snap[k]
              /\ obj'[k] = obj[k] /\ item'[k] = item[k]
<1>1. 1 \in Nat \ {0}
  OBVIOUS
<1> QED BY <1>1 DEF TypeOK, Forget

LEMMA FindInv ==
  ASSUME IInv, NEW c \in Clients, Find(c)
  PROVE  IInv'
<1> DEFINE row == docs[First(c).id]
<1>0. TypeOK /\ pc[c] = "begun" /\ UNCHANGED <<coll, db, admin>>
  BY DEF IInv, Find
<1>1. req[c] \in Requests /\ SessionOK(c)
  BY <1>0 DEF IInv, SessionOK
<1>2. First(c) \in Write /\ First(c).id \in DocIds
  <2>1. req[c].writes \in Seq(Write) /\ req[c].writes # <<>>
    BY <1>1, JsonDbAssumption DEF IsRequest
  <2>2. req[c].writes[1] \in Write
    BY <2>1
  <2> QED BY <2>2 DEF First, Write
<1>3. row \in Row \cup {Absent}
  BY <1>0, <1>2 DEF TypeOK
<1> HIDE DEF row
<1>4. CASE ~Admitted(c, row)
  <2>1. Forget(c)
    BY <1>4 DEF Find, row
  <2>2. TypeOK'
    BY <1>0, <2>1, ForgetTypes DEF TypeOK, db
  <2>3. ASSUME NEW k \in Clients PROVE SessionOK(k)' /\ ObjectOK(k)'
    <3>1. SessionOK(k) /\ ObjectOK(k)
      BY DEF IInv
    <3>2. CASE k = c
      BY <1>0, <1>1, <2>1, <3>2, ForgetTypes DEF db, SessionOK, ObjectOK
    <3>3. CASE k # c
      BY <1>0, <2>1, <3>1, <3>3, ForgetTypes
         DEF db, SessionOK, ObjectOK, First, SameOwner
    <3> QED BY <3>2, <3>3
  <2> QED BY <1>0, <2>2, <2>3, QuietStep
<1>5. CASE Admitted(c, row)
  <2>1. /\ pc' = [pc EXCEPT ![c] = "ready"]
        /\ obj' = [obj EXCEPT ![c] = row]
        /\ UNCHANGED <<req, snap, item>>
    BY <1>5 DEF Find, row
  <2>2. TypeOK'
    BY <1>0, <1>3, <2>1 DEF TypeOK, db
  <2>3. ASSUME NEW k \in Clients PROVE SessionOK(k)' /\ ObjectOK(k)'
    <3>1. SessionOK(k) /\ ObjectOK(k)
      BY DEF IInv
    <3>2. CASE k = c
      <4>1. SessionOK(k)'
        BY <1>0, <1>1, <2>1, <3>2 DEF db, SessionOK, TypeOK
      <4>2. item[c] = 1 /\ obj'[c] = row /\ Finds(First(c), row)
        BY <1>0, <1>1, <1>5, <2>1 DEF SessionOK, Admitted, TypeOK
      <4>3. row # Absent => SameOwner(row, docs, First(c).id)
                            /\ SameOwner(row, tdocs, First(c).id)
        BY <1>2 DEF IInv, RowsKept, SameOwner, row
      <4>4. UNCHANGED <<docs, tdocs>> /\ First(c)' = First(c) /\ item'[c] = item[c]
        BY <1>0, <2>1 DEF db, First
      <4>5. ObjectOK(c)'
        <5> HIDE DEF First, Finds
        <5> QED BY <4>2, <4>3, <4>4 DEF ObjectOK, SameOwner
      <4> QED BY <3>2, <4>1, <4>5
    <3>3. CASE k # c
      <4>1. pc'[k] = pc[k] /\ obj'[k] = obj[k]
        BY <1>0, <2>1, <3>3 DEF TypeOK
      <4> QED BY <1>0, <2>1, <3>1, <4>1 DEF db, SessionOK, ObjectOK, First, SameOwner
    <3> QED BY <3>2, <3>3
  <2> QED BY <1>0, <2>2, <2>3, QuietStep
<1> QED BY <1>4, <1>5

(* The writes of a request are writes.                                     *)
LEMMA WriteTypes ==
  ASSUME TypeOK, NEW c \in Clients, req[c] \in Requests,
         item[c] =< Len(req[c].writes)
  PROVE  /\ Current(c) \in Write /\ Current(c).id \in DocIds
         /\ First(c) \in Write /\ First(c).id \in DocIds
<1>1. req[c].writes \in Seq(Write) /\ req[c].writes # <<>>
  BY JsonDbAssumption DEF IsRequest
<1>2. req[c].writes[1] \in Write
  BY <1>1
<1>3. item[c] \in Nat \ {0}
  BY DEF TypeOK
<1>4. req[c].writes[item[c]] \in Write
  BY <1>1, <1>3
<1> QED BY <1>2, <1>4 DEF Current, First, Write

(* What WriteItem works with: a row that is in the transaction with this   *)
(* owner, or none in either place.                                         *)
LEMMA WriteItemFacts ==
  ASSUME IInv, NEW c \in Clients, WriteItem(c)
  PROVE  LET row == Loaded(c)
             w == Current(c)
         IN /\ req[c] \in Requests
            /\ w \in Write /\ w.id \in DocIds
            /\ First(c).id \in DocIds
            /\ row \in Row \cup {Absent}
            /\ row = Absent => w.op \in {"create", "set"} /\ tdocs[w.id] = Absent
            /\ row # Absent => SameOwner(row, tdocs, w.id)
            /\ item[c] = 1 => w = First(c)
<1> DEFINE row == Loaded(c)
           w == Current(c)
<1>1. TypeOK /\ SessionOK(c) /\ ObjectOK(c) /\ pc[c] = "ready"
  BY DEF IInv, WriteItem
<1>2. req[c] \in Requests /\ item[c] =< Len(req[c].writes)
  BY <1>1 DEF SessionOK, WriteItem
<1>3. w \in Write /\ w.id \in DocIds /\ First(c).id \in DocIds
  BY <1>1, <1>2, WriteTypes
<1>4. item[c] \in Nat \ {0} /\ obj[c] \in Row \cup {Absent}
      /\ tdocs[w.id] \in Row \cup {Absent}
  BY <1>1, <1>3 DEF TypeOK
<1>5. row \in Row \cup {Absent}
  BY <1>4 DEF Loaded
<1>6. item[c] = 1 => w = First(c)
  BY DEF Current, First
<1>7. row # Absent => SameOwner(row, tdocs, w.id)
  BY <1>1 DEF ObjectOK, Loaded, SameOwner
<1>8. row = Absent => tdocs[w.id] = Absent
  BY DEF WriteItem, Insertable
<1>9. w.op \in Ops
  BY <1>3 DEF Write
<1>10. row = Absent => w.op \in {"create", "set"}
  <2> SUFFICES ASSUME row = Absent, w.op \notin {"create", "set"} PROVE FALSE
    OBVIOUS
  <2>1. w.op \in {"patch", "delete"}
    BY <1>9 DEF Ops
  <2>2. item[c] # 1
    BY <1>1, <1>6, <2>1 DEF ObjectOK, Finds, Live, Loaded
  <2>3. Finds(w, tdocs[w.id])
    BY <2>1, <2>2 DEF WriteItem, ItemFound
  <2>4. tdocs[w.id] # Absent
    BY <2>1, <2>3 DEF Finds, Live
  <2> QED BY <1>8, <2>4
<1> QED BY <1>2, <1>3, <1>5, <1>6, <1>7, <1>8, <1>10

(* A write in the transaction keeps every part of the invariant.           *)
LEMMA WriteItemInv ==
  ASSUME IInv, NEW c \in Clients, WriteItem(c)
  PROVE  IInv'
<1> DEFINE row == Loaded(c)
           w == Current(c)
           new == NewRow(req[c], w, row)
           f == Flush(row, new, tdocs[w.id])
           e == Operation(req[c], w, row, new)
<1>1. /\ tdocs' = [tdocs EXCEPT ![w.id] = f]
      /\ tlog' = Append(tlog, e)
      /\ obj' = [obj EXCEPT ![c] = IF w.id = First(c).id THEN new ELSE obj[c]]
      /\ writer' = c
      /\ item' = [item EXCEPT ![c] = item[c] + 1]
      /\ UNCHANGED <<coll, docs, log, pc, req, snap, admin>>
      /\ pc[c] = "ready" /\ writer \in {None, c}
  BY DEF WriteItem
<1>2. /\ req[c] \in Requests
      /\ w \in Write /\ w.id \in DocIds /\ First(c).id \in DocIds
      /\ row \in Row \cup {Absent}
      /\ row = Absent => w.op \in {"create", "set"} /\ tdocs[w.id] = Absent
      /\ row # Absent => SameOwner(row, tdocs, w.id)
      /\ item[c] = 1 => w = First(c)
  BY WriteItemFacts
<1>3. TypeOK /\ tdocs \in [DocIds -> Row \cup {Absent}] /\ tlog \in Seq(Entry)
      /\ item[c] \in Nat \ {0} /\ tdocs[w.id] \in Row \cup {Absent}
  BY <1>2 DEF IInv, TypeOK, Entry
<1>4. /\ new \in Row
      /\ row # Absent => new.owner = row.owner
      /\ row = Absent => new.owner = InsertOwner(req[c])
  BY <1>2, NewRowType
<1>5. f \in Row /\ f.owner = new.owner
  BY <1>2, <1>3, <1>4, FlushType DEF SameOwner
<1>6. /\ e \in LogEntry /\ e.id = w.id
      /\ e.owner \in {None, new.owner}
      /\ row = Absent => e.op = "create" /\ e.owner = new.owner
      /\ w.op \in Ops
  BY <1>2, <1>4
     DEF Operation, LoggedOp, OpOwner, InsertOwner, LogEntry, Write, Ops, Row
<1> HIDE DEF row, w, new, f, e
<1>7. Absent \notin Row
  BY JsonRowsAssumption
<1>8. TypeOK'
  <2>1. tdocs' \in [DocIds -> Row \cup {Absent}]
    BY <1>1, <1>3, <1>5
  <2>2. tlog' \in Seq(LogEntry \cup AdminEntry)
    BY <1>1, <1>3, <1>6 DEF Entry
  <2>3. obj' \in [Clients -> Row \cup {Absent}]
    BY <1>1, <1>3, <1>4 DEF TypeOK
  <2>4. item' \in [Clients -> Nat \ {0}]
    BY <1>1, <1>3 DEF TypeOK
  <2> QED BY <1>1, <1>3, <2>1, <2>2, <2>3, <2>4 DEF TypeOK
<1>9. \A d \in DocIds : tdocs[d] # Absent =>
        tdocs'[d] # Absent /\ tdocs'[d].owner = tdocs[d].owner
  BY <1>1, <1>2, <1>3, <1>4, <1>5, <1>7 DEF SameOwner
<1>10. RowsKept'
  BY <1>1, <1>9 DEF IInv, RowsKept, SameOwner
<1>11. LogOK'
  <2>1. OwnersAgreeIn(tdocs, tlog) /\ CreatesFirstIn(tlog)
        /\ OwnersAgreeIn(docs, log) /\ CreatesFirstIn(log)
    BY DEF IInv, LogOK
  <2>2. tdocs[e.id] # Absent => tdocs[e.id].owner = f.owner
    BY <1>2, <1>4, <1>5, <1>6 DEF SameOwner
  <2>3. tdocs[e.id] = Absent => e.op = "create" /\ e.owner = f.owner
    BY <1>2, <1>5, <1>6 DEF SameOwner
  <2>4. e.owner \in {None, f.owner}
    BY <1>5, <1>6
  <2>5. OwnersAgreeIn([tdocs EXCEPT ![e.id] = f], Append(tlog, e))
    BY <1>3, <1>5, <1>6, <2>1, <2>2, <2>3, <2>4, AppendKeepsOwners
  <2>6. OwnersAgreeIn(tdocs', tlog')
    BY <1>1, <1>6, <2>5
  <2>7. e.op \in Ops /\ e.op # "create" =>
          \E j \in DOMAIN tlog : tlog[j].op = "create" /\ tlog[j].id = e.id
    BY <1>2, <1>6, <2>1, <2>3 DEF OwnersAgreeIn
  <2>8. CreatesFirstIn(tlog')
    BY <1>1, <1>3, <1>6, <2>1, <2>7, AppendKeepsCreates DEF Entry
  <2>9. OwnersAgreeIn(docs', log') /\ CreatesFirstIn(log')
    BY <1>1, <2>1
  <2> QED BY <2>6, <2>8, <2>9 DEF LogOK, OwnersAgreeIn, CreatesFirstIn
<1>12. ASSUME NEW k \in Clients PROVE SessionOK(k)' /\ ObjectOK(k)'
  <2>1. SessionOK(k) /\ ObjectOK(k)
    BY DEF IInv
  <2>2. CASE k = c
    <3>1. item'[c] = item[c] + 1 /\ item'[c] > 1
      BY <1>1, <1>3, <1>8 DEF TypeOK
    <3>2. SessionOK(c)'
      BY <1>1, <2>1, <2>2, <3>1 DEF SessionOK
    <3>3. obj'[c] = IF w.id = First(c).id THEN new ELSE obj[c]
      BY <1>1, <1>3 DEF TypeOK
    <3>4. w.id # First(c).id => obj[c] # Absent /\ SameOwner(obj[c], tdocs, First(c).id)
      BY <1>1, <1>2, <1>3, <2>1, <2>2 DEF ObjectOK
    <3>5. obj'[c] # Absent /\ SameOwner(obj'[c], tdocs', First(c).id)
      <4>1. CASE w.id = First(c).id
        BY <1>1, <1>2, <1>3, <1>4, <1>5, <1>7, <3>3, <4>1 DEF SameOwner
      <4>2. CASE w.id # First(c).id
        BY <1>2, <1>9, <3>3, <3>4, <4>2 DEF SameOwner
      <4> QED BY <4>1, <4>2
    <3>6. First(c)' = First(c)
      BY <1>1 DEF First
    <3> QED BY <1>1, <2>2, <3>1, <3>2, <3>5, <3>6 DEF ObjectOK, SameOwner
  <2>3. CASE k # c
    <3>1. obj'[k] = obj[k] /\ item'[k] = item[k] /\ writer # k /\ writer' # k
      BY <1>1, <1>3, <2>3, JsonDbAssumption DEF TypeOK
    <3>2. SessionOK(k)'
      BY <1>1, <2>1, <3>1 DEF SessionOK
    <3>3. First(k)' = First(k)
      BY <1>1 DEF First
    <3>4. pc[k] = "ready" => First(k).id \in DocIds
      <4>1. pc[k] = "ready" => req[k] \in Requests
        BY <2>1 DEF SessionOK
      <4>2. pc[k] = "ready" =>
              req[k].writes \in Seq(Write) /\ req[k].writes # <<>>
        BY <4>1, JsonDbAssumption DEF IsRequest
      <4>3. pc[k] = "ready" => req[k].writes[1] \in Write
        BY <4>2
      <4> QED BY <4>3 DEF First, Write
    <3>5. ObjectOK(k)'
      BY <1>1, <1>9, <2>1, <3>1, <3>3, <3>4 DEF ObjectOK, SameOwner
    <3> QED BY <3>2, <3>5
  <2> QED BY <2>2, <2>3
<1>13. Idle'
  BY <1>1, JsonDbAssumption DEF Idle
<1> QED BY <1>8, <1>10, <1>11, <1>12, <1>13 DEF IInv

(* Publishing the transaction: the table becomes what it was there.        *)
LEMMA CommitInv ==
  ASSUME IInv, NEW c \in Clients, Commit(c)
  PROVE  IInv'
<1>1. /\ writer = c /\ writer' = None /\ docs' = tdocs /\ log' = tlog
      /\ Forget(c) /\ UNCHANGED <<coll, tdocs, tlog, admin>> /\ TypeOK
  BY DEF Commit, IInv
<1>2. TypeOK'
  BY <1>1, ForgetTypes DEF TypeOK
<1>3. ASSUME NEW k \in Clients PROVE SessionOK(k)' /\ ObjectOK(k)'
  <2>1. SessionOK(k) /\ ObjectOK(k)
    BY DEF IInv
  <2>2. CASE k = c
    BY <1>1, <2>2, ForgetTypes, JsonDbAssumption DEF SessionOK, ObjectOK
  <2>3. CASE k # c
    BY <1>1, <2>1, <2>3, ForgetTypes, JsonDbAssumption
       DEF SessionOK, ObjectOK, First, SameOwner
  <2> QED BY <2>2, <2>3
<1>4. RowsKept' /\ Idle'
  BY <1>1 DEF RowsKept, Idle, SameOwner
<1>5. LogOK'
  BY <1>1 DEF IInv, LogOK, CreatesFirstIn, OwnersAgreeIn
<1> QED BY <1>2, <1>3, <1>4, <1>5 DEF IInv

(* Rolling back while no other session holds the lock.                     *)
LEMMA AbortInv ==
  ASSUME IInv, NEW c \in Clients, Abort(c)
  PROVE  IInv'
<1>1. /\ writer \in {None, c} /\ writer' = None /\ tdocs' = docs /\ tlog' = log
      /\ Forget(c) /\ UNCHANGED <<coll, docs, log, admin>> /\ TypeOK
  BY DEF Abort, Rollback, IInv
<1>2. TypeOK'
  BY <1>1, ForgetTypes DEF TypeOK
<1>3. ASSUME NEW k \in Clients PROVE SessionOK(k)' /\ ObjectOK(k)'
  <2>1. SessionOK(k) /\ ObjectOK(k)
    BY DEF IInv
  <2>2. CASE k = c
    BY <1>1, <2>2, ForgetTypes, JsonDbAssumption DEF SessionOK, ObjectOK
  <2>3. CASE k # c
    BY <1>1, <2>1, <2>3, ForgetTypes, JsonDbAssumption
       DEF SessionOK, ObjectOK, First, SameOwner
  <2> QED BY <2>2, <2>3
<1>4. RowsKept' /\ Idle'
  BY <1>1 DEF RowsKept, Idle, SameOwner
<1>5. LogOK'
  BY <1>1 DEF IInv, LogOK, CreatesFirstIn, OwnersAgreeIn
<1> QED BY <1>2, <1>3, <1>4, <1>5 DEF IInv

(* A request that waited too long for the lock held nothing.               *)
LEMMA LockTimeoutInv ==
  ASSUME IInv, NEW c \in Clients, LockTimeout(c)
  PROVE  IInv'
<1>1. writer # c /\ Forget(c) /\ UNCHANGED <<coll, db, admin>> /\ TypeOK
  BY DEF LockTimeout, IInv
<1>2. TypeOK'
  BY <1>1, ForgetTypes DEF TypeOK, db
<1>3. ASSUME NEW k \in Clients PROVE SessionOK(k)' /\ ObjectOK(k)'
  <2>1. SessionOK(k) /\ ObjectOK(k)
    BY DEF IInv
  <2>2. CASE k = c
    BY <1>1, <2>2, ForgetTypes DEF db, SessionOK, ObjectOK
  <2>3. CASE k # c
    BY <1>1, <2>1, <2>3, ForgetTypes DEF db, SessionOK, ObjectOK, First, SameOwner
  <2> QED BY <2>2, <2>3
<1> QED BY <1>1, <1>2, <1>3, QuietStep

(* A dying process takes its sessions and the open transaction with it.    *)
LEMMA CrashInv ==
  ASSUME IInv, Crash
  PROVE  IInv'
<1>1. TypeOK
  BY DEF IInv
<1>2. TypeOK'
  <2>1. 1 \in Nat \ {0}
    OBVIOUS
  <2> QED BY <1>1, <2>1 DEF TypeOK, Crash, Rollback
<1>3. \A k \in Clients : SessionOK(k)' /\ ObjectOK(k)'
  BY JsonDbAssumption DEF Crash, Rollback, SessionOK, ObjectOK
<1>4. RowsKept' /\ Idle'
  BY DEF Crash, Rollback, RowsKept, Idle, SameOwner
<1>5. LogOK'
  BY DEF IInv, LogOK, Crash, Rollback, CreatesFirstIn, OwnersAgreeIn
<1> QED BY <1>2, <1>3, <1>4, <1>5 DEF IInv

(* The rules and validator endpoints touch no document.                    *)
LEMMA AdminReadInv ==
  ASSUME IInv, NEW a \in Admins, AdminRead(a)
  PROVE  IInv'
<1>1. TypeOK /\ UNCHANGED <<coll, db, sessions>>
  BY DEF IInv, AdminRead
<1>2. admin' \in [Admins -> [seen : Collection, change : Change] \cup {None}]
  BY <1>1, JsonDbAssumption DEF TypeOK, AdminRead
<1>3. TypeOK'
  BY <1>1, <1>2 DEF TypeOK, db, sessions
<1>4. (\A c \in Clients : SessionOK(c) /\ ObjectOK(c))'
  BY <1>1 DEF IInv, db, sessions, SessionOK, ObjectOK, First, SameOwner
<1> QED BY <1>1, <1>3, <1>4, QuietStep

LEMMA AdminCommitInv ==
  ASSUME IInv, NEW a \in Admins, AdminCommit(a)
  PROVE  IInv'
<1> DEFINE g == admin[a].change
           e == [op |-> g.kind, change |-> g]
<1>1. /\ writer = None /\ log' = Append(log, e) /\ tlog' = log'
      /\ admin' = [admin EXCEPT ![a] = None]
      /\ UNCHANGED <<docs, writer, tdocs, pc, req, snap, obj, item>>
      /\ TypeOK /\ tdocs = docs /\ tlog = log
  BY DEF AdminCommit, IInv, Idle, sessions
<1>2. admin[a] \in [seen : Collection, change : Change]
  BY <1>1 DEF TypeOK, AdminCommit
<1>3. g \in Change /\ e \in AdminEntry
  BY <1>2 DEF AdminEntry, Change
<1>4. coll' \in Collection
  <2>1. coll \in Collection
    BY <1>1 DEF TypeOK
  <2>2. CASE g.kind = "rules"
    <3>1. g.read \in Rules /\ g.write \in Rules
      BY <1>3, <2>2 DEF Change
    <3>2. coll' = SetRules(admin[a].seen, g)
      BY <2>2 DEF AdminCommit
    <3> QED BY <2>1, <3>1, <3>2 DEF SetRules, Collection
  <2>3. CASE g.kind # "rules"
    <3>1. g.validator \in Validators \cup {None}
      BY <1>3, <2>3 DEF Change
    <3>2. coll' = SetValidator(admin[a].seen, g)
      BY <2>3 DEF AdminCommit
    <3> QED BY <2>1, <3>1, <3>2 DEF SetValidator, Collection
  <2> QED BY <2>2, <2>3
<1> HIDE DEF g, e
<1>5. log \in Seq(Entry) /\ log' \in Seq(LogEntry \cup AdminEntry)
  BY <1>1, <1>3 DEF TypeOK, Entry
<1>6. TypeOK'
  BY <1>1, <1>4, <1>5 DEF TypeOK
<1>7. \A c \in Clients : SessionOK(c)' /\ ObjectOK(c)'
  BY <1>1 DEF IInv, SessionOK, ObjectOK, First, SameOwner
<1>8. RowsKept' /\ Idle'
  BY <1>1 DEF RowsKept, Idle, SameOwner
<1>9. LogOK'
  <2>1. CreatesFirstIn(log) /\ OwnersAgreeIn(docs, log)
    BY DEF IInv, LogOK
  <2>2. e.op \notin Ops
    BY <1>3 DEF AdminEntry, Ops
  <2>3. CreatesFirstIn(log')
    BY <1>1, <1>3, <1>5, <2>1, <2>2, AppendKeepsCreates DEF Entry
  <2>4. docs \in [DocIds -> Row \cup {Absent}]
    BY <1>1 DEF TypeOK
  <2>5. OwnersAgreeIn(docs, log')
    BY <1>1, <1>3, <1>5, <2>1, <2>4, AdminKeepsOwners
  <2> QED BY <1>1, <2>3, <2>5 DEF LogOK, CreatesFirstIn, OwnersAgreeIn
<1> QED BY <1>6, <1>7, <1>8, <1>9 DEF IInv

LEMMA NextInv == IInv /\ [Next]_vars => IInv'
<1> SUFFICES ASSUME IInv, [Next]_vars PROVE IInv'
  OBVIOUS
<1>1. CASE UNCHANGED vars
  <2>1. TypeOK'
    BY <1>1 DEF IInv, TypeOK, vars
  <2>2. (\A c \in Clients : SessionOK(c) /\ ObjectOK(c))'
    BY <1>1 DEF IInv, vars, SessionOK, ObjectOK, First, SameOwner
  <2> QED BY <1>1, <2>1, <2>2, QuietStep DEF vars, db
<1>2. CASE \E c \in Clients : \/ Begin(c) \/ Find(c) \/ WriteItem(c)
                              \/ Commit(c) \/ Abort(c) \/ LockTimeout(c)
  BY <1>2, BeginInv, FindInv, WriteItemInv, CommitInv, AbortInv, LockTimeoutInv
<1>3. CASE \E a \in Admins : AdminRead(a) \/ AdminCommit(a)
  BY <1>3, AdminReadInv, AdminCommitInv
<1>4. CASE Crash
  BY <1>4, CrashInv
<1> QED BY <1>1, <1>2, <1>3, <1>4 DEF Next

-----------------------------------------------------------------------------
THEOREM Invariance == Spec => []IInv
BY InitInv, NextInv, PTL DEF Spec

(* Every variable has its type, whatever requests overlap.                 *)
THEOREM TypeCorrect == Spec => []TypeOK
<1>1. IInv => TypeOK
  BY DEF IInv
<1> QED BY <1>1, Invariance, PTL

(* The log never holds a patch, set or delete of a document it did not     *)
(* create first: the restore tool's RestoreError cannot arise from it.     *)
THEOREM AlwaysReplayable == Spec => []LogReplayable
<1>1. IInv => LogReplayable
  BY DEF IInv, LogOK, LogReplayable
<1> QED BY <1>1, Invariance, PTL

(* The owner_uid of a row and of its operations never disagree.            *)
THEOREM OwnersAlwaysAgree == Spec => []OwnersAgree
<1>1. IInv => OwnersAgree
  BY DEF IInv, LogOK, OwnersAgree
<1> QED BY <1>1, Invariance, PTL

-----------------------------------------------------------------------------
(* Isolation of app users *)

(* A request that the document_owner rule admitted.                        *)
Guest(c) ==
  pc[c] # "idle" /\ req[c].user # "owner" /\ snap[c].write = "document_owner"

GuestOK(c) == Guest(c) =>
  /\ req[c].app \in Uids
  /\ pc[c] = "ready" /\ obj[c] # Absent => obj[c].owner = req[c].app
  /\ writer = c => \A d \in DocIds : tdocs[d] # docs[d] =>
       /\ tdocs[d].owner = req[c].app
       /\ docs[d] # Absent => docs[d].owner = req[c].app

(* An admitted stranger comes with an app user's token, through the        *)
(* publishable-key router, and writes one document.                        *)
LEMMA GuestRequest ==
  ASSUME NEW r \in Requests, r.app \in Uids
  PROVE  r.path = "key" /\ Len(r.writes) = 1
<1>1. IsRequest(r) /\ None \notin Uids
  BY JsonDbAssumption, JsonRowsAssumption DEF Apps
<1> QED BY <1>1 DEF IsRequest

(* While nothing the invariant speaks of changes, it holds.                *)
LEMMA GuestKept ==
  ASSUME NEW c \in Clients, GuestOK(c),
         UNCHANGED <<pc[c], req[c], snap[c], obj[c]>>,
         writer' = c => writer = c /\ UNCHANGED <<docs, tdocs>>
  PROVE  GuestOK(c)'
BY DEF GuestOK, Guest

LEMMA GuestWrites ==
  ASSUME IInv, NEW c \in Clients, GuestOK(c), WriteItem(c)
  PROVE  GuestOK(c)'
<1> DEFINE row == Loaded(c)
           w == Current(c)
           new == NewRow(req[c], w, row)
           f == Flush(row, new, tdocs[w.id])
<1>1. /\ tdocs' = [tdocs EXCEPT ![w.id] = f]
      /\ obj' = [obj EXCEPT ![c] = IF w.id = First(c).id THEN new ELSE obj[c]]
      /\ UNCHANGED <<docs, pc, req, snap>>
      /\ item[c] =< Len(req[c].writes)
      /\ pc[c] = "ready" /\ writer \in {None, c} /\ TypeOK
  BY DEF WriteItem, IInv
<1> SUFFICES ASSUME Guest(c) PROVE GuestOK(c)'
  BY <1>1 DEF GuestOK, Guest
<1>2. /\ req[c] \in Requests /\ w \in Write /\ w.id \in DocIds
      /\ row \in Row \cup {Absent}
      /\ row = Absent => w.op \in {"create", "set"} /\ tdocs[w.id] = Absent
      /\ row # Absent => SameOwner(row, tdocs, w.id)
      /\ item[c] = 1 => w = First(c)
  BY WriteItemFacts
<1>3. /\ req[c].app \in Uids /\ req[c].path = "key" /\ Len(req[c].writes) = 1
      /\ obj[c] # Absent => obj[c].owner = req[c].app
  BY <1>1, <1>2, GuestRequest DEF GuestOK
<1>4. item[c] = 1 /\ w = First(c)
  BY <1>1, <1>2, <1>3 DEF TypeOK
<1>5. row = obj[c]
  BY <1>4 DEF Loaded
<1>6. /\ new \in Row
      /\ row # Absent => new.owner = row.owner
      /\ row = Absent => new.owner = InsertOwner(req[c])
  BY <1>2, NewRowType
<1>7. new.owner = req[c].app
  BY <1>3, <1>5, <1>6 DEF InsertOwner
<1>8. tdocs[w.id] \in Row \cup {Absent} /\ tdocs \in [DocIds -> Row \cup {Absent}]
  BY <1>1, <1>2 DEF TypeOK
<1>9. f.owner = req[c].app
  BY <1>2, <1>6, <1>7, <1>8, FlushType DEF SameOwner
<1>10. docs[w.id] # Absent => docs[w.id].owner = req[c].app
  BY <1>2, <1>3, <1>5 DEF IInv, RowsKept, SameOwner
<1> HIDE DEF row, w, new, f
<1>11. obj'[c] = new
  BY <1>1, <1>4 DEF TypeOK
<1>12. ASSUME NEW d \in DocIds, tdocs'[d] # docs'[d]
       PROVE  tdocs'[d].owner = req[c].app
              /\ (docs[d] # Absent => docs[d].owner = req[c].app)
  <2>1. CASE d = w.id
    BY <1>1, <1>8, <1>9, <1>10, <2>1
  <2>2. CASE d # w.id
    <3>1. tdocs'[d] = tdocs[d] /\ tdocs[d] # docs[d]
      BY <1>1, <1>8, <1>12, <2>2
    <3>2. writer = c
      BY <1>1, <3>1 DEF IInv, Idle
    <3> QED BY <3>1, <3>2 DEF GuestOK
  <2> QED BY <2>1, <2>2
<1> QED BY <1>1, <1>3, <1>7, <1>11, <1>12 DEF GuestOK

LEMMA GuestInv ==
  ASSUME IInv, [Next]_vars, NEW c \in Clients, GuestOK(c)
  PROVE  GuestOK(c)'
<1>0. TypeOK /\ SessionOK(c) /\ RowsKept /\ Idle
  BY DEF IInv
<1>1. CASE UNCHANGED vars
  BY <1>1, GuestKept DEF vars
<1>2. ASSUME NEW k \in Clients, Begin(k) PROVE GuestOK(c)'
  <2>1. CASE k = c
    <3>1. PICK r \in Requests :
            CanWrite(coll, r, Absent) /\ req' = [req EXCEPT ![c] = r]
      BY <1>2, <2>1 DEF Begin
    <3>2. /\ req'[c] = r /\ snap'[c] = coll /\ pc'[c] = "begun"
          /\ writer' = writer /\ writer # c
      BY <1>0, <1>2, <2>1, <3>1 DEF Begin, TypeOK, SessionOK, db
    <3>3. r.path = "owner" => r.user = "owner"
      BY JsonDbAssumption DEF IsRequest
    <3> QED BY <3>1, <3>2, <3>3 DEF GuestOK, Guest, CanWrite, CanAccess
  <2>2. CASE k # c
    BY <1>0, <1>2, <2>2, GuestKept DEF Begin, db, TypeOK
  <2> QED BY <2>1, <2>2
<1>3. ASSUME NEW k \in Clients, Forget(k), k = c PROVE GuestOK(c)'
  BY <1>0, <1>3, ForgetTypes DEF GuestOK, Guest
<1>4. ASSUME NEW k \in Clients, Find(k) PROVE GuestOK(c)'
  <2>1. CASE k = c
    <3> DEFINE row == docs[First(c).id]
    <3>1. CASE Admitted(c, row)
      <4>1. /\ pc'[c] = "ready" /\ obj'[c] = row /\ UNCHANGED <<req, snap, docs, tdocs, writer>>
            /\ pc[c] = "begun" /\ writer # c
        BY <1>0, <1>4, <2>1, <3>1 DEF Find, db, TypeOK, SessionOK
      <4>2. CanWrite(snap[c], req[c], row)
        BY <3>1 DEF Admitted
      <4>3. req[c].path = "owner" => req[c].user = "owner"
        BY <1>0, <4>1, JsonDbAssumption DEF SessionOK, IsRequest
      <4> QED BY <4>1, <4>2, <4>3 DEF GuestOK, Guest, CanWrite, CanAccess
    <3>2. CASE ~Admitted(c, row)
      BY <1>3, <1>4, <2>1, <3>2 DEF Find
    <3> QED BY <3>1, <3>2
  <2>2. CASE k # c
    BY <1>0, <1>4, <2>2, GuestKept, ForgetTypes DEF Find, db, TypeOK
  <2> QED BY <2>1, <2>2
<1>5. ASSUME NEW k \in Clients, WriteItem(k) PROVE GuestOK(c)'
  <2>1. CASE k = c
    BY <1>5, <2>1, GuestWrites
  <2>2. CASE k # c
    BY <1>0, <1>5, <2>2, GuestKept DEF WriteItem, TypeOK
  <2> QED BY <2>1, <2>2
<1>6. ASSUME NEW k \in Clients, Commit(k) \/ Abort(k) \/ LockTimeout(k)
      PROVE  GuestOK(c)'
  <2>1. Forget(k) /\ (writer' = c => writer = c /\ UNCHANGED <<docs, tdocs>>)
    BY <1>6, JsonDbAssumption DEF Commit, Abort, LockTimeout, Rollback, db
  <2>2. CASE k = c
    BY <1>3, <2>1, <2>2
  <2>3. CASE k # c
    BY <1>0, <2>1, <2>3, ForgetTypes, GuestKept
  <2> QED BY <2>2, <2>3
<1>7. ASSUME NEW a \in Admins, AdminRead(a) \/ AdminCommit(a) PROVE GuestOK(c)'
  BY <1>7, GuestKept DEF AdminRead, AdminCommit, db, sessions
<1>8. CASE Crash
  BY <1>8 DEF Crash, GuestOK, Guest
<1> QED BY <1>1, <1>2, <1>4, <1>5, <1>6, <1>7, <1>8 DEF Next

(* Whatever overlaps, a commit under the document_owner rule only touches  *)
(* rows of the app user who asked for it.                                  *)
THEOREM Isolation == Spec => OwnerIsolation
<1> DEFINE Inv == IInv /\ \A c \in Clients : GuestOK(c)
           Isolated == \A c \in Clients, d \in DocIds :
             /\ Commits(c) /\ Changed(d)
             /\ req[c].user # "owner"
             /\ snap[c].write = "document_owner"
             => /\ docs'[d].owner = req[c].app
                /\ docs[d] # Absent => docs[d].owner = req[c].app
<1>1. Init => Inv
  <2>1. Init => \A c \in Clients : GuestOK(c)
    BY DEF Init, GuestOK, Guest
  <2> QED BY <2>1, InitInv
<1>2. Inv /\ [Next]_vars => Inv'
  BY NextInv, GuestInv
<1>3. Inv /\ [Next]_vars => [Isolated]_vars
  <2> SUFFICES ASSUME Inv, Next, NEW c \in Clients, NEW d \in DocIds,
                      Commits(c), Changed(d), req[c].user # "owner",
                      snap[c].write = "document_owner"
               PROVE  /\ docs'[d].owner = req[c].app
                      /\ docs[d] # Absent => docs[d].owner = req[c].app
    OBVIOUS
  <2>1. SessionOK(c) /\ GuestOK(c) /\ writer = c
    BY DEF IInv, Commits
  <2>2. docs' = tdocs
    <3>1. docs' # docs
      BY DEF Commits
    <3> QED BY <3>1 DEF Next, Begin, Find, WriteItem, Commit, Abort, LockTimeout,
                        AdminRead, AdminCommit, Crash, db
  <2>3. Guest(c)
    BY <2>1, JsonDbAssumption DEF Guest, SessionOK
  <2> QED BY <2>1, <2>2, <2>3 DEF GuestOK, Changed
<1>4. OwnerIsolation <=> [][Isolated]_vars
  BY DEF OwnerIsolation
<1> HIDE DEF Inv, Isolated
<1> QED BY <1>1, <1>2, <1>3, <1>4, PTL DEF Spec

-----------------------------------------------------------------------------
(* What an open transaction holds *)

(* So far: one operation per write done, after the log as it was, and no   *)
(* row but theirs; a tombstone was lifted by a create or a set.            *)
Done(c) == 1..(item[c] - 1)
Names(c, d) == \E i \in Done(c) : req[c].writes[i].id = d
Revives(c, d) == \E i \in Done(c) :
  req[c].writes[i].id = d /\ req[c].writes[i].op \in {"create", "set"}
TransactionOK(c) == writer = c =>
  /\ item[c] =< Len(req[c].writes) + 1
  /\ Len(tlog) = Len(log) + (item[c] - 1)
  /\ \A i \in DOMAIN log : tlog[i] = log[i]
  /\ \A i \in Done(c) : tlog[Len(log) + i].id = req[c].writes[i].id
  /\ \A d \in DocIds : tdocs[d] # docs[d] => Names(c, d)
  /\ \A d \in DocIds :
       docs[d] # Absent /\ docs[d].deleted /\ ~tdocs[d].deleted => Revives(c, d)

(* A client holds the lock because it has just written, or because it held *)
(* it and another client took a step that is none of its business.         *)
LEMMA LockHolder ==
  ASSUME IInv, [Next]_vars, NEW c \in Clients, writer' = c
  PROVE  \/ WriteItem(c)
         \/ /\ writer = c
            /\ UNCHANGED <<docs, log, tdocs, tlog>>
            /\ UNCHANGED <<pc[c], req[c], snap[c], obj[c], item[c]>>
<1>0. TypeOK /\ SessionOK(c) /\ c # None
  BY JsonDbAssumption DEF IInv
<1>1. CASE UNCHANGED vars
  BY <1>1 DEF vars
<1>2. ASSUME NEW k \in Clients, Begin(k) \/ Find(k) \/ LockTimeout(k)
      PROVE  /\ writer = c
             /\ UNCHANGED <<docs, log, tdocs, tlog>>
             /\ UNCHANGED <<pc[c], req[c], snap[c], obj[c], item[c]>>
  <2>1. writer = c /\ UNCHANGED <<docs, log, tdocs, tlog>>
    BY <1>2 DEF Begin, Find, LockTimeout, db
  <2>2. pc[c] = "ready"
    BY <1>0, <2>1 DEF SessionOK
  <2>3. k # c
    BY <1>2, <2>1, <2>2 DEF Begin, Find, LockTimeout
  <2>4. UNCHANGED <<pc[c], req[c], snap[c], obj[c], item[c]>>
    <3>1. CASE Forget(k)
      BY <1>0, <2>3, <3>1, ForgetTypes
    <3>2. CASE Begin(k)
      BY <1>0, <2>3, <3>2 DEF Begin, TypeOK
    <3>3. CASE Find(k)
      BY <1>0, <2>3, <3>1, <3>3 DEF Find, TypeOK
    <3> QED BY <1>2, <3>1, <3>2, <3>3 DEF LockTimeout
  <2> QED BY <2>1, <2>4
<1>3. ASSUME NEW k \in Clients, WriteItem(k) PROVE WriteItem(c)
  BY <1>3 DEF WriteItem
<1>4. ASSUME NEW k \in Clients, Commit(k) \/ Abort(k) PROVE FALSE
  BY <1>0, <1>4 DEF Commit, Abort, Rollback
<1>5. ASSUME NEW a \in Admins, AdminRead(a)
      PROVE  /\ writer = c
             /\ UNCHANGED <<docs, log, tdocs, tlog>>
             /\ UNCHANGED <<pc[c], req[c], snap[c], obj[c], item[c]>>
  BY <1>5 DEF AdminRead, db, sessions
<1>6. ASSUME NEW a \in Admins, AdminCommit(a) PROVE FALSE
  BY <1>0, <1>6 DEF AdminCommit
<1>7. CASE Crash
  BY <1>0, <1>7 DEF Crash, Rollback
<1> QED BY <1>1, <1>2, <1>3, <1>4, <1>5, <1>6, <1>7 DEF Next

(* A flush lifts a tombstone only for a create or a set.                   *)
LEMMA FlushKeepsTombstone ==
  ASSUME NEW r \in Requests, NEW w \in Write, NEW row \in Row, NEW cur \in Row,
         w.op \notin {"create", "set"}, cur.deleted
  PROVE  Flush(row, NewRow(r, w, row), cur).deleted
<1>1. row # Absent /\ row.deleted \in BOOLEAN
  BY JsonRowsAssumption DEF Row
<1>2. CASE w.op = "patch"
  BY <1>1, <1>2 DEF Flush, NewRow, PatchRow, Row
<1>3. CASE w.op = "delete"
  BY <1>1, <1>3 DEF Flush, NewRow, DeleteRow, Row
<1> QED BY <1>2, <1>3 DEF Write, Ops

LEMMA TransactionWrites ==
  ASSUME IInv, NEW c \in Clients, TransactionOK(c), WriteItem(c)
  PROVE  TransactionOK(c)'
<1> DEFINE row == Loaded(c)
           w == Current(c)
           new == NewRow(req[c], w, row)
           f == Flush(row, new, tdocs[w.id])
           e == Operation(req[c], w, row, new)
           ws == req[c].writes
           n == item[c]
<1>1. /\ tdocs' = [tdocs EXCEPT ![w.id] = f]
      /\ tlog' = Append(tlog, e)
      /\ UNCHANGED <<docs, log, req>>
      /\ item' = [item EXCEPT ![c] = item[c] + 1]
      /\ n =< Len(ws) /\ w = ws[n]
      /\ writer \in {None, c} /\ TypeOK /\ SessionOK(c)
  BY DEF WriteItem, IInv, Current
<1>2. /\ req[c] \in Requests /\ w \in Write /\ w.id \in DocIds
      /\ row \in Row \cup {Absent}
      /\ row = Absent => w.op \in {"create", "set"} /\ tdocs[w.id] = Absent
      /\ row # Absent => SameOwner(row, tdocs, w.id)
  BY WriteItemFacts
<1>3. /\ n \in Nat \ {0} /\ log \in Seq(Entry) /\ tlog \in Seq(Entry)
      /\ ws \in Seq(Write)
      /\ tdocs \in [DocIds -> Row \cup {Absent}]
      /\ docs \in [DocIds -> Row \cup {Absent}]
      /\ item'[c] = n + 1
  BY <1>1, <1>2, JsonDbAssumption DEF TypeOK, Entry, IsRequest
<1>4. e.id = w.id
  BY DEF Operation
(* Before the first flush the transaction is the table. *)
<1>5. /\ Len(tlog) = Len(log) + (n - 1)
      /\ \A i \in DOMAIN log : tlog[i] = log[i]
      /\ \A i \in 1..(n - 1) : tlog[Len(log) + i].id = ws[i].id
      /\ \A d \in DocIds : tdocs[d] # docs[d] => \E i \in 1..(n - 1) : ws[i].id = d
      /\ \A d \in DocIds :
           docs[d] # Absent /\ docs[d].deleted /\ ~tdocs[d].deleted =>
             \E i \in 1..(n - 1) : ws[i].id = d /\ ws[i].op \in {"create", "set"}
  <2>1. CASE writer = c
    BY <2>1 DEF TransactionOK, Done, Names, Revives
  <2>2. CASE writer = None
    <3>1. n = 1 /\ tdocs = docs /\ tlog = log
      BY <1>1, <1>3, <2>2, JsonDbAssumption DEF SessionOK, IInv, Idle
    <3>2. Len(log) \in Nat
      BY <1>3
    <3>3. 1..(n - 1) = {}
      BY <3>1
    <3> QED BY <3>1, <3>2, <3>3
  <2> QED BY <1>1, <2>1, <2>2
<1>6. row # Absent => tdocs[w.id] \in Row
  BY <1>2, <1>3 DEF SameOwner
<1>7. w.op \notin {"create", "set"} /\ tdocs[w.id].deleted => f.deleted
  BY <1>2, <1>6, FlushKeepsTombstone
<1> HIDE DEF row, w, new, f, e, ws, n
<1>8. /\ Len(tlog') = Len(log) + n
      /\ \A i \in DOMAIN log : tlog'[i] = log[i]
      /\ \A i \in 1..n : tlog'[Len(log) + i].id = ws[i].id
  <2>1. /\ Len(tlog') = Len(tlog) + 1 /\ tlog'[Len(tlog) + 1] = e
        /\ \A i \in 1..Len(tlog) : tlog'[i] = tlog[i]
        /\ DOMAIN log = 1..Len(log) /\ Len(log) \in Nat /\ Len(tlog) \in Nat
    BY <1>1, <1>3
  <2>2. Len(tlog') = Len(log) + n /\ Len(tlog) + 1 = Len(log) + n
    BY <1>3, <1>5, <2>1
  <2>3. ASSUME NEW i \in DOMAIN log PROVE tlog'[i] = log[i]
    <3>1. i \in 1..Len(tlog)
      BY <1>3, <1>5, <2>1
    <3> QED BY <1>5, <2>1, <3>1
  <2>4. ASSUME NEW i \in 1..n PROVE tlog'[Len(log) + i].id = ws[i].id
    <3>1. CASE i = n
      BY <1>1, <1>4, <2>1, <2>2, <3>1
    <3>2. CASE i # n
      <4>1. i \in 1..(n - 1) /\ Len(log) + i \in 1..Len(tlog)
        BY <1>3, <1>5, <2>1, <3>2
      <4> QED BY <1>5, <2>1, <4>1
    <3> QED BY <3>1, <3>2
  <2> QED BY <2>2, <2>3, <2>4
<1>9. n \in 1..n /\ \A i \in 1..(n - 1) : i \in 1..n
  BY <1>3
<1>10. \A d \in DocIds : tdocs'[d] = IF d = w.id THEN f ELSE tdocs[d]
  BY <1>1, <1>3
<1>11. ASSUME NEW d \in DocIds, tdocs'[d] # docs[d]
       PROVE  \E i \in 1..n : ws[i].id = d
  <2>1. CASE d = w.id
    BY <1>1, <1>9, <2>1
  <2>2. CASE d # w.id
    BY <1>5, <1>9, <1>10, <1>11, <2>2
  <2> QED BY <2>1, <2>2
<1>12. ASSUME NEW d \in DocIds, docs[d] # Absent, docs[d].deleted, ~tdocs'[d].deleted
       PROVE  \E i \in 1..n : ws[i].id = d /\ ws[i].op \in {"create", "set"}
  <2>1. CASE d = w.id /\ w.op \in {"create", "set"}
    BY <1>1, <1>9, <2>1
  <2>2. CASE ~tdocs[d].deleted
    BY <1>5, <1>9, <1>12, <2>2
  <2>3. CASE d # w.id
    BY <1>10, <1>12, <2>2, <2>3
  <2>4. CASE w.op \notin {"create", "set"} /\ d = w.id
    BY <1>7, <1>10, <1>12, <2>2, <2>4
  <2> QED BY <2>1, <2>3, <2>4
<1>13. Done(c)' = 1..n /\ item'[c] =< Len(ws) + 1 /\ Len(log) + (item'[c] - 1) = Len(log) + n
  <2>1. (n + 1) - 1 = n /\ Len(ws) \in Nat
    BY <1>3
  <2> QED BY <1>1, <1>3, <2>1 DEF Done
<1>14. ws' = ws /\ ws' = req'[c].writes
  BY <1>1 DEF ws
<1>15. /\ \A d \in DocIds : tdocs'[d] # docs'[d] => Names(c, d)'
       /\ \A d \in DocIds :
            docs'[d] # Absent /\ docs'[d].deleted /\ ~tdocs'[d].deleted => Revives(c, d)'
  BY <1>1, <1>11, <1>12, <1>13, <1>14 DEF Names, Revives
<1>16. /\ Len(tlog') = Len(log') + (item'[c] - 1)
       /\ \A i \in DOMAIN log' : tlog'[i] = log'[i]
       /\ \A i \in Done(c)' : tlog'[Len(log') + i].id = req'[c].writes[i].id
       /\ item'[c] =< Len(req'[c].writes) + 1
  BY <1>1, <1>8, <1>13, <1>14
<1> QED BY <1>15, <1>16 DEF TransactionOK

LEMMA TransactionInv ==
  ASSUME IInv, [Next]_vars, NEW c \in Clients, TransactionOK(c)
  PROVE  TransactionOK(c)'
<1> SUFFICES ASSUME writer' = c PROVE TransactionOK(c)'
  BY DEF TransactionOK
<1>1. CASE WriteItem(c)
  BY <1>1, TransactionWrites
<1>2. CASE /\ writer = c
           /\ UNCHANGED <<docs, log, tdocs, tlog>>
           /\ UNCHANGED <<pc[c], req[c], snap[c], obj[c], item[c]>>
  BY <1>2 DEF TransactionOK, Done, Names, Revives
<1> QED BY <1>1, <1>2, LockHolder

(* Only Commit changes the table, and it publishes the transaction.        *)
LEMMA CommitPublishes ==
  ASSUME Next, NEW c \in Clients, IInv, Commits(c)
  PROVE  /\ docs' = tdocs /\ log' = tlog
         /\ item[c] > Len(req[c].writes)
<1>1. docs' # docs /\ writer = c
  BY DEF Commits
<1>2. PICK k \in Clients : Commit(k)
  BY <1>1 DEF Next, Begin, Find, WriteItem, Abort, LockTimeout,
              AdminRead, AdminCommit, Crash, db
<1> QED BY <1>1, <1>2 DEF Commit

TransactionsOK == \A c \in Clients : TransactionOK(c)
LEMMA TransactionsInvariance == Spec => [](IInv /\ TransactionsOK)
<1>1. Init => TransactionsOK
  BY JsonDbAssumption DEF Init, TransactionsOK, TransactionOK
<1>2. IInv /\ TransactionsOK /\ [Next]_vars => TransactionsOK'
  BY TransactionInv DEF TransactionsOK
<1> QED BY <1>1, <1>2, InitInv, NextInv, PTL DEF Spec

(* When a transaction is published all writes of its request are done.     *)
LEMMA PublishedWhole ==
  ASSUME Next, NEW c \in Clients, IInv, TransactionOK(c), Commits(c)
  PROVE  /\ item[c] = Len(req[c].writes) + 1
         /\ Done(c) = DOMAIN req[c].writes
<1>1. /\ TypeOK /\ SessionOK(c) /\ writer = c
      /\ item[c] > Len(req[c].writes) /\ item[c] =< Len(req[c].writes) + 1
  BY CommitPublishes DEF IInv, Commits, TransactionOK
<1>2. pc[c] # "idle"
  BY <1>1 DEF SessionOK
<1>3. req[c].writes \in Seq(Write) /\ item[c] \in Nat
  BY <1>1, <1>2, JsonDbAssumption DEF SessionOK, IsRequest, TypeOK
<1>4. Len(req[c].writes) \in Nat /\ DOMAIN req[c].writes = 1..Len(req[c].writes)
  BY <1>3
<1>5. item[c] = Len(req[c].writes) + 1
  BY <1>1, <1>3, <1>4
<1>6. item[c] - 1 = Len(req[c].writes)
  BY <1>4, <1>5
<1> QED BY <1>4, <1>5, <1>6 DEF Done

(* A batch is never half applied, and no other request's operation stands  *)
(* between two of its own.                                                 *)
THEOREM BatchesAreWhole == Spec => CommitsWhole
<1> DEFINE Whole == \A c \in Clients : Commits(c) =>
       LET ws == req[c].writes IN
         /\ Len(log') = Len(log) + Len(ws)
         /\ \A i \in DOMAIN log : log'[i] = log[i]
         /\ \A i \in DOMAIN ws : log'[Len(log) + i].id = ws[i].id
         /\ \A d \in DocIds : Changed(d) => \E i \in DOMAIN ws : ws[i].id = d
<1>1. IInv /\ TransactionsOK /\ [Next]_vars => [Whole]_vars
  <2> SUFFICES ASSUME IInv, TransactionsOK, Next, NEW c \in Clients, Commits(c)
               PROVE  /\ Len(log') = Len(log) + Len(req[c].writes)
                      /\ \A i \in DOMAIN log : log'[i] = log[i]
                      /\ \A i \in DOMAIN req[c].writes :
                           log'[Len(log) + i].id = req[c].writes[i].id
                      /\ \A d \in DocIds : Changed(d) =>
                           \E i \in DOMAIN req[c].writes : req[c].writes[i].id = d
    OBVIOUS
  <2>1. TransactionOK(c) /\ writer = c /\ docs' = tdocs /\ log' = tlog
    BY CommitPublishes DEF Commits, TransactionsOK
  <2>2. item[c] - 1 = Len(req[c].writes) /\ Done(c) = DOMAIN req[c].writes
    <3>1. item[c] = Len(req[c].writes) + 1 /\ item[c] \in Nat
      BY <2>1, PublishedWhole DEF IInv, TypeOK
    <3>2. Done(c) = DOMAIN req[c].writes
      BY <2>1, PublishedWhole
    <3>3. Len(req[c].writes) + 1 \in Nat => item[c] - 1 = Len(req[c].writes)
      <4>1. pc[c] # "idle"
        BY <2>1 DEF IInv, SessionOK
      <4>2. Len(req[c].writes) \in Nat
        BY <4>1, JsonDbAssumption DEF IInv, SessionOK, IsRequest
      <4> QED BY <3>1, <4>2
    <3> QED BY <3>1, <3>2, <3>3
  <2> QED BY <2>1, <2>2 DEF TransactionOK, Names, Changed
<1>2. CommitsWhole <=> [][Whole]_vars
  BY DEF CommitsWhole
<1> HIDE DEF Whole
<1> QED BY <1>1, <1>2, TransactionsInvariance, PTL DEF Spec

(* A patch computed from the live row cannot undo a delete that committed  *)
(* in between: its UPDATE does not name the column.                        *)
THEOREM DeletedStaysDeleted == Spec => NoResurrection
<1> DEFINE Stays == \A c \in Clients, d \in DocIds :
       Commits(c) /\ docs[d] # Absent /\ docs[d].deleted /\ ~docs'[d].deleted
       => \E i \in DOMAIN req[c].writes :
            /\ req[c].writes[i].id = d
            /\ req[c].writes[i].op \in {"create", "set"}
<1>1. IInv /\ TransactionsOK /\ [Next]_vars => [Stays]_vars
  <2> SUFFICES ASSUME IInv, TransactionsOK, Next, NEW c \in Clients, NEW d \in DocIds,
                      Commits(c), docs[d] # Absent, docs[d].deleted, ~docs'[d].deleted
               PROVE  \E i \in DOMAIN req[c].writes :
                        /\ req[c].writes[i].id = d
                        /\ req[c].writes[i].op \in {"create", "set"}
    OBVIOUS
  <2>1. TransactionOK(c) /\ writer = c /\ docs' = tdocs
    BY CommitPublishes DEF Commits, TransactionsOK
  <2>2. Done(c) = DOMAIN req[c].writes
    BY <2>1, PublishedWhole
  <2> QED BY <2>1, <2>2 DEF TransactionOK, Revives
<1>2. NoResurrection <=> [][Stays]_vars
  BY DEF NoResurrection
<1> HIDE DEF Stays
<1> QED BY <1>1, <1>2, TransactionsInvariance, PTL DEF Spec

-----------------------------------------------------------------------------
(* Validated data *)

(* A request through a public router: what it is about to write, and all   *)
(* it has written, passed the validator it loaded.                         *)
Public(c) == pc[c] # "idle" /\ req[c].path # "owner"
ValidOK(c) == Public(c) =>
  /\ First(c).op \in {"create", "set"} => Accepts(snap[c].validator, First(c).data)
  /\ pc[c] = "ready" /\ item[c] = 1 /\ First(c).op = "patch" =>
       Accepts(snap[c].validator, Merge(obj[c].data, First(c).data))
  /\ writer = c => \A d \in DocIds :
       tdocs[d] # Absent /\ (docs[d] = Absent \/ tdocs[d].data # docs[d].data)
       => Accepts(snap[c].validator, tdocs[d].data)

(* The data a flush leaves is the row's, or what the write makes of it.    *)
LEMMA FlushData ==
  ASSUME NEW r \in Requests, NEW w \in Write, NEW row \in Row \cup {Absent},
         NEW cur \in Row \cup {Absent}, row # Absent => cur # Absent,
         row = Absent => w.op \in {"create", "set"}
  PROVE  LET kept == Flush(row, NewRow(r, w, row), cur).data IN
           \/ row # Absent /\ kept = cur.data
           \/ w.op \in {"create", "set"} /\ kept = w.data
           \/ w.op = "patch" /\ kept = Merge(row.data, w.data)
<1>0. w.op \in Ops
  BY DEF Write
<1>1. CASE w.op \in {"create", "set"}
  BY <1>1 DEF Flush, NewRow, InsertRow, ReplaceRow, Row
<1>2. CASE w.op = "patch"
  BY <1>2 DEF Flush, NewRow, PatchRow, Row
<1>3. CASE w.op = "delete"
  BY <1>3 DEF Flush, NewRow, DeleteRow, Row
<1> QED BY <1>0, <1>1, <1>2, <1>3 DEF Ops

LEMMA ValidWrites ==
  ASSUME IInv, NEW c \in Clients, ValidOK(c), WriteItem(c)
  PROVE  ValidOK(c)'
<1> DEFINE row == Loaded(c)
           w == Current(c)
           f == Flush(row, NewRow(req[c], w, row), tdocs[w.id])
<1>1. /\ tdocs' = [tdocs EXCEPT ![w.id] = f]
      /\ UNCHANGED <<docs, pc, req, snap>>
      /\ item' = [item EXCEPT ![c] = item[c] + 1]
      /\ item[c] =< Len(req[c].writes)
      /\ pc[c] = "ready" /\ writer \in {None, c} /\ TypeOK /\ SessionOK(c)
  BY DEF WriteItem, IInv
<1> SUFFICES ASSUME Public(c) PROVE ValidOK(c)'
  BY <1>1 DEF ValidOK, Public
<1>2. /\ req[c] \in Requests /\ w \in Write /\ w.id \in DocIds
      /\ row \in Row \cup {Absent}
      /\ row = Absent => w.op \in {"create", "set"}
      /\ row # Absent => SameOwner(row, tdocs, w.id)
      /\ item[c] = 1 => w = First(c)
  BY WriteItemFacts
<1>3. Len(req[c].writes) = 1
  BY <1>2, JsonDbAssumption DEF Public, IsRequest
<1>4. item[c] = 1 /\ w = First(c) /\ item'[c] = 2
  BY <1>1, <1>2, <1>3 DEF TypeOK
<1>5. row = obj[c] /\ tdocs = docs
  BY <1>1, <1>4 DEF Loaded, SessionOK, IInv, Idle
<1>6. tdocs[w.id] \in Row \cup {Absent} /\ tdocs \in [DocIds -> Row \cup {Absent}]
  BY <1>1, <1>2 DEF TypeOK
<1>7. \/ row # Absent /\ f.data = tdocs[w.id].data
      \/ w.op \in {"create", "set"} /\ f.data = w.data
      \/ w.op = "patch" /\ f.data = Merge(row.data, w.data)
  BY <1>2, <1>6, FlushData DEF SameOwner
<1>8. row # Absent => tdocs[w.id] # Absent
  BY <1>2 DEF SameOwner
<1> HIDE DEF row, w, f
<1>9. \/ docs[w.id] # Absent /\ f.data = docs[w.id].data
      \/ Accepts(snap[c].validator, f.data)
  BY <1>1, <1>4, <1>5, <1>7, <1>8 DEF ValidOK
<1>10. \A d \in DocIds : tdocs'[d] = IF d = w.id THEN f ELSE docs[d]
  BY <1>1, <1>5, <1>6
<1>11. First(c)' = First(c)
  BY <1>1 DEF First
<1> QED BY <1>1, <1>4, <1>9, <1>10, <1>11 DEF ValidOK, Public

(* Begin checks the body of a create or a set, Find the merged document of *)
(* a patch; the other actions leave a session alone or end it.             *)
LEMMA ValidInv ==
  ASSUME IInv, [Next]_vars, NEW c \in Clients, ValidOK(c)
  PROVE  ValidOK(c)'
<1>0. TypeOK /\ SessionOK(c)
  BY DEF IInv
<1> DEFINE Same == /\ UNCHANGED <<pc[c], req[c], snap[c], obj[c], item[c]>>
                   /\ writer' = c => writer = c /\ UNCHANGED <<docs, tdocs>>
<1>1. Same => ValidOK(c)'
  BY DEF ValidOK, Public, First
<1>2. pc'[c] = "idle" => ValidOK(c)'
  BY DEF ValidOK, Public
<1>3. CASE UNCHANGED vars
  BY <1>1, <1>3 DEF vars
<1>4. ASSUME NEW k \in Clients, Forget(k),
             writer' = c => writer = c /\ UNCHANGED <<docs, tdocs>>
      PROVE  ValidOK(c)'
  BY <1>0, <1>1, <1>2, <1>4, ForgetTypes
<1>5. ASSUME NEW k \in Clients, Begin(k) PROVE ValidOK(c)'
  <2>1. CASE k = c
    <3>1. PICK r \in Requests :
            /\ r.writes[1].op \in {"create", "set"} => Validates(coll, r, r.writes[1].data)
            /\ req' = [req EXCEPT ![c] = r]
      BY <1>5, <2>1 DEF Begin
    <3>2. /\ req'[c] = r /\ snap'[c] = coll /\ pc'[c] = "begun"
          /\ writer' = writer /\ writer # c
      BY <1>0, <1>5, <2>1, <3>1 DEF Begin, TypeOK, SessionOK, db
    <3> QED BY <3>1, <3>2 DEF ValidOK, Public, First, Validates
  <2>2. CASE k # c
    BY <1>0, <1>1, <1>5, <2>2 DEF Begin, db, TypeOK
  <2> QED BY <2>1, <2>2
<1>6. ASSUME NEW k \in Clients, Find(k) PROVE ValidOK(c)'
  <2> DEFINE row == docs[First(k).id]
  <2>1. CASE ~Admitted(k, row)
    BY <1>4, <1>6, <2>1 DEF Find, db
  <2>2. CASE k # c /\ Admitted(k, row)
    BY <1>0, <1>1, <1>6, <2>2 DEF Find, db, TypeOK
  <2>3. CASE k = c /\ Admitted(k, row)
    <3>1. /\ pc'[c] = "ready" /\ obj'[c] = row /\ UNCHANGED <<req, snap, writer>>
          /\ pc[c] = "begun" /\ writer # c
      BY <1>0, <1>6, <2>3 DEF Find, db, TypeOK, SessionOK
    <3>2. First(c).op = "patch" => Validates(snap[c], req[c], Merge(row.data, First(c).data))
      BY <2>3 DEF Admitted
    <3>3. First(c)' = First(c)
      BY <3>1 DEF First
    <3> HIDE DEF row
    <3> QED BY <3>1, <3>2, <3>3 DEF ValidOK, Public, Validates
  <2> QED BY <2>1, <2>2, <2>3
<1>7. ASSUME NEW k \in Clients, WriteItem(k) PROVE ValidOK(c)'
  <2>1. CASE k = c
    BY <1>7, <2>1, ValidWrites
  <2>2. CASE k # c
    BY <1>0, <1>1, <1>7, <2>2 DEF WriteItem, TypeOK
  <2> QED BY <2>1, <2>2
<1>8. ASSUME NEW k \in Clients, Commit(k) \/ Abort(k) \/ LockTimeout(k)
      PROVE  ValidOK(c)'
  <2>1. Forget(k) /\ (writer' = c => writer = c /\ UNCHANGED <<docs, tdocs>>)
    BY <1>8, JsonDbAssumption DEF Commit, Abort, LockTimeout, Rollback, db
  <2> QED BY <1>4, <2>1
<1>9. ASSUME NEW a \in Admins, AdminRead(a) \/ AdminCommit(a) PROVE ValidOK(c)'
  BY <1>1, <1>9 DEF AdminRead, AdminCommit, db, sessions
<1>10. CASE Crash
  BY <1>2, <1>10 DEF Crash
<1> QED BY <1>3, <1>5, <1>6, <1>7, <1>8, <1>9, <1>10 DEF Next

(* No overlap of requests lets data past the validator: a row a public     *)
(* router changed holds data that the collection row it loaded accepts.    *)
THEOREM OnlyValidData == Spec => PublicDataValidated
<1> DEFINE Inv == IInv /\ \A c \in Clients : ValidOK(c)
           Validated == \A c \in Clients, d \in DocIds :
             /\ Commits(c)
             /\ req[c].path # "owner"
             /\ docs'[d] # Absent
             /\ docs[d] = Absent \/ docs'[d].data # docs[d].data
             => Accepts(snap[c].validator, docs'[d].data)
<1>1. Init => Inv
  <2>1. Init => \A c \in Clients : ValidOK(c)
    BY DEF Init, ValidOK, Public
  <2> QED BY <2>1, InitInv
<1>2. Inv /\ [Next]_vars => Inv'
  BY NextInv, ValidInv
<1>3. Inv /\ [Next]_vars => [Validated]_vars
  <2> SUFFICES ASSUME Inv, Next, NEW c \in Clients, NEW d \in DocIds,
                      Commits(c), req[c].path # "owner", docs'[d] # Absent,
                      docs[d] = Absent \/ docs'[d].data # docs[d].data
               PROVE  Accepts(snap[c].validator, docs'[d].data)
    OBVIOUS
  <2>1. ValidOK(c) /\ SessionOK(c) /\ writer = c /\ docs' = tdocs
    BY CommitPublishes DEF IInv, Commits
  <2>2. Public(c)
    BY <2>1 DEF Public, SessionOK
  <2> QED BY <2>1, <2>2 DEF ValidOK
<1>4. PublicDataValidated <=> [][Validated]_vars
  BY DEF PublicDataValidated
<1> HIDE DEF Inv, Validated
<1> QED BY <1>1, <1>2, <1>3, <1>4, PTL DEF Spec

-----------------------------------------------------------------------------
(* One request at a time: the log replays to the tables *)

(* Replaying a log, entry by entry.  That the fold of ReplayDocs and of    *)
(* ReplayCollection exists and what it ends in is carried along the log as *)
(* it grows.                                                               *)
NoRows == [d \in DocIds |-> Absent]
DocsStep(rows, e) ==
  IF e.op \in Ops /\ CanReplay(rows, e)
    THEN [rows EXCEPT ![e.id] = ReplayRow(@, e)] ELSE rows
DocsFold(h, l) ==
  h = [i \in 0..Len(l) |-> IF i = 0 THEN NoRows ELSE DocsStep(h[i - 1], l[i])]
RulesStep(cl, e) ==
  IF e.op = "rules" THEN [cl EXCEPT !.read = e.change.read, !.write = e.change.write]
  ELSE IF e.op = "validator" THEN [cl EXCEPT !.validator = e.change.validator]
  ELSE cl
RulesFold(h, l) ==
  h = [i \in 0..Len(l) |-> IF i = 0 THEN NewCollection ELSE RulesStep(h[i - 1], l[i])]

DocsReplay(l, rows) ==
  /\ \E h : DocsFold(h, l)
  /\ \A h : DocsFold(h, l) => h[Len(l)] = rows
RulesReplay(l, cl) ==
  /\ \E h : RulesFold(h, l)
  /\ \A h : RulesFold(h, l) => h[Len(l)] = cl

LEMMA ReplayedDocs ==
  ASSUME NEW l, NEW rows, DocsReplay(l, rows)
  PROVE  ReplayDocs(l) = rows
<1> DEFINE h == CHOOSE h : DocsFold(h, l)
<1>1. ReplayDocs(l) = h[Len(l)]
  BY DEF ReplayDocs, DocsFold, DocsStep, NoRows
<1>2. DocsFold(h, l)
  BY DEF DocsReplay
<1> HIDE DEF h
<1> QED BY <1>1, <1>2 DEF DocsReplay

LEMMA ReplayedRules ==
  ASSUME NEW l, NEW cl, RulesReplay(l, cl)
  PROVE  ReplayCollection(l) = cl
<1> DEFINE h == CHOOSE h : RulesFold(h, l)
<1>1. ReplayCollection(l) = h[Len(l)]
  BY DEF ReplayCollection, RulesFold, RulesStep
<1>2. RulesFold(h, l)
  BY DEF RulesReplay
<1> HIDE DEF h
<1> QED BY <1>1, <1>2 DEF RulesReplay

LEMMA DocsReplayEmpty == DocsReplay(<<>>, NoRows)
<1>1. Len(<<>>) = 0 /\ 0..0 = {0}
  OBVIOUS
<1>2. DocsFold([i \in {0} |-> NoRows], <<>>)
  BY <1>1 DEF DocsFold
<1> QED BY <1>1, <1>2 DEF DocsReplay, DocsFold

LEMMA RulesReplayEmpty == RulesReplay(<<>>, NewCollection)
<1>1. Len(<<>>) = 0 /\ 0..0 = {0}
  OBVIOUS
<1>2. RulesFold([i \in {0} |-> NewCollection], <<>>)
  BY <1>1 DEF RulesFold
<1> QED BY <1>1, <1>2 DEF RulesReplay, RulesFold

LEMMA DocsReplayAppend ==
  ASSUME NEW l \in Seq(Entry), NEW e \in Entry, NEW rows, DocsReplay(l, rows)
  PROVE  DocsReplay(Append(l, e), DocsStep(rows, e))
<1> DEFINE m == Append(l, e)
           n == Len(l)
<1>1. /\ n \in Nat /\ Len(m) = n + 1 /\ m[n + 1] = e
      /\ \A i \in 1..n : m[i] = l[i]
  OBVIOUS
<1>2. /\ n \in 0..n /\ n + 1 \in 0..(n + 1) /\ n + 1 # 0 /\ (n + 1) - 1 = n
      /\ \A i \in 0..n : i \in 0..(n + 1) /\ i # n + 1
      /\ \A i \in 0..n : i # 0 => i \in 1..n /\ i - 1 \in 0..n
      /\ \A i \in 0..(n + 1) : i # n + 1 => i \in 0..n
  BY <1>1
<1> HIDE DEF m, n
<1>3. \E h : DocsFold(h, m)
  <2>1. PICK h : DocsFold(h, l)
    BY DEF DocsReplay
  <2> DEFINE k == [i \in 0..(n + 1) |-> IF i = n + 1 THEN DocsStep(h[n], e) ELSE h[i]]
  <2>2. k[n + 1] = DocsStep(k[n], e) /\ \A i \in 0..n : k[i] = h[i]
    BY <1>2
  <2>3. \A i \in 0..n : h[i] = IF i = 0 THEN NoRows ELSE DocsStep(h[i - 1], l[i])
    BY <2>1 DEF DocsFold, n
  <2>4. \A i \in 0..(n + 1) : k[i] = IF i = 0 THEN NoRows ELSE DocsStep(k[i - 1], m[i])
    <3> TAKE i \in 0..(n + 1)
    <3>1. CASE i = n + 1
      BY <1>1, <1>2, <2>2, <3>1
    <3>2. CASE i # n + 1
      BY <1>1, <1>2, <2>2, <2>3, <3>2
    <3> QED BY <3>1, <3>2
  <2>5. k = [i \in 0..(n + 1) |-> k[i]]
    OBVIOUS
  <2> HIDE DEF k
  <2>6. DocsFold(k, m)
    BY <1>1, <2>4, <2>5 DEF DocsFold
  <2> QED BY <2>6
<1>4. ASSUME NEW h, DocsFold(h, m) PROVE h[Len(m)] = DocsStep(rows, e)
  <2>1. \A i \in 0..(n + 1) : h[i] = IF i = 0 THEN NoRows ELSE DocsStep(h[i - 1], m[i])
    BY <1>1, <1>4 DEF DocsFold
  <2> DEFINE k == [i \in 0..n |-> h[i]]
  <2>2. \A i \in 0..n : k[i] = IF i = 0 THEN NoRows ELSE DocsStep(k[i - 1], l[i])
    BY <1>1, <1>2, <2>1
  <2>3. k = [i \in 0..n |-> k[i]] /\ k[n] = h[n]
    BY <1>2
  <2> HIDE DEF k
  <2>4. DocsFold(k, l)
    BY <2>2, <2>3 DEF DocsFold, n
  <2>5. h[n] = rows
    BY <2>3, <2>4 DEF DocsReplay, n
  <2> QED BY <1>1, <1>2, <2>1, <2>5
<1> QED BY <1>3, <1>4 DEF DocsReplay, m

LEMMA RulesReplayAppend ==
  ASSUME NEW l \in Seq(Entry), NEW e \in Entry, NEW cl, RulesReplay(l, cl)
  PROVE  RulesReplay(Append(l, e), RulesStep(cl, e))
<1> DEFINE m == Append(l, e)
           n == Len(l)
<1>1. /\ n \in Nat /\ Len(m) = n + 1 /\ m[n + 1] = e
      /\ \A i \in 1..n : m[i] = l[i]
  OBVIOUS
<1>2. /\ n \in 0..n /\ n + 1 \in 0..(n + 1) /\ n + 1 # 0 /\ (n + 1) - 1 = n
      /\ \A i \in 0..n : i \in 0..(n + 1) /\ i # n + 1
      /\ \A i \in 0..n : i # 0 => i \in 1..n /\ i - 1 \in 0..n
      /\ \A i \in 0..(n + 1) : i # n + 1 => i \in 0..n
  BY <1>1
<1> HIDE DEF m, n
<1>3. \E h : RulesFold(h, m)
  <2>1. PICK h : RulesFold(h, l)
    BY DEF RulesReplay
  <2> DEFINE k == [i \in 0..(n + 1) |-> IF i = n + 1 THEN RulesStep(h[n], e) ELSE h[i]]
  <2>2. k[n + 1] = RulesStep(k[n], e) /\ \A i \in 0..n : k[i] = h[i]
    BY <1>2
  <2>3. \A i \in 0..n : h[i] = IF i = 0 THEN NewCollection ELSE RulesStep(h[i - 1], l[i])
    BY <2>1 DEF RulesFold, n
  <2>4. \A i \in 0..(n + 1) : k[i] = IF i = 0 THEN NewCollection ELSE RulesStep(k[i - 1], m[i])
    <3> TAKE i \in 0..(n + 1)
    <3>1. CASE i = n + 1
      BY <1>1, <1>2, <2>2, <3>1
    <3>2. CASE i # n + 1
      BY <1>1, <1>2, <2>2, <2>3, <3>2
    <3> QED BY <3>1, <3>2
  <2>5. k = [i \in 0..(n + 1) |-> k[i]]
    OBVIOUS
  <2> HIDE DEF k
  <2>6. RulesFold(k, m)
    BY <1>1, <2>4, <2>5 DEF RulesFold
  <2> QED BY <2>6
<1>4. ASSUME NEW h, RulesFold(h, m) PROVE h[Len(m)] = RulesStep(cl, e)
  <2>1. \A i \in 0..(n + 1) : h[i] = IF i = 0 THEN NewCollection ELSE RulesStep(h[i - 1], m[i])
    BY <1>1, <1>4 DEF RulesFold
  <2> DEFINE k == [i \in 0..n |-> h[i]]
  <2>2. \A i \in 0..n : k[i] = IF i = 0 THEN NewCollection ELSE RulesStep(k[i - 1], l[i])
    BY <1>1, <1>2, <2>1
  <2>3. k = [i \in 0..n |-> k[i]] /\ k[n] = h[n]
    BY <1>2
  <2> HIDE DEF k
  <2>4. RulesFold(k, l)
    BY <2>2, <2>3 DEF RulesFold, n
  <2>5. h[n] = cl
    BY <2>3, <2>4 DEF RulesReplay, n
  <2> QED BY <1>1, <1>2, <2>1, <2>5
<1> QED BY <1>3, <1>4 DEF RulesReplay, m

(* One document request and one request to the rules at a time.            *)
OneAtATime ==
  /\ \A k, c \in Clients : k = c
  /\ \A a, b \in Admins : a = b

(* What a session loaded is what the tables still hold.                    *)
Fresh ==
  /\ \A c \in Clients :
       pc[c] = "ready" => obj[c] = tdocs[First(c).id]
  /\ \A a \in Admins : admin[a] # None => admin[a].seen = coll
Replayed ==
  /\ DocsReplay(log, docs) /\ DocsReplay(tlog, tdocs)
  /\ RulesReplay(log, coll) /\ RulesReplay(tlog, coll)
SerialInv == Fresh /\ Replayed

(* The flush of a fresh object is the object; an operation replays to it.  *)
LEMMA FreshFlush ==
  ASSUME NEW r \in Requests, NEW w \in Write, NEW row \in Row \cup {Absent},
         row = Absent => w.op \in {"create", "set"}
  PROVE  LET new == NewRow(r, w, row)
         IN /\ Flush(row, new, row) = new
            /\ ReplayRow(row, Operation(r, w, row, new)) = new
<1> DEFINE new == NewRow(r, w, row)
           e == Operation(r, w, row, new)
<1>0. w.op \in Ops /\ Absent \notin Row
  BY JsonRowsAssumption DEF Write
<1>1. new \in Row
  BY NewRowType
<1>2. CASE row = Absent
  <2>1. new = InsertRow(r, w)
    BY <1>2 DEF NewRow
  <2>2. e.op = "create" \/ e.op = "set"
    BY <1>2 DEF Operation, LoggedOp
  <2>3. e.owner = InsertOwner(r) /\ e.data = w.data
    BY <2>1 DEF Operation, OpOwner, InsertOwner, InsertRow
  <2>4. ReplayRow(row, e) = new
    BY <1>2, <2>1, <2>2, <2>3 DEF ReplayRow, InsertRow
  <2> QED BY <1>2, <2>4 DEF Flush
<1>3. CASE row # Absent
  <2>0. row \in Row /\ row = [owner |-> row.owner, data |-> row.data,
                              version |-> row.version, deleted |-> row.deleted]
    BY <1>3 DEF Row
  <2>1. new = [owner |-> new.owner, data |-> new.data,
               version |-> new.version, deleted |-> new.deleted]
    BY <1>1 DEF Row
  <2>2. new.owner = row.owner
    BY <1>3, NewRowType
  <2>3. Flush(row, new, row) = new
    BY <1>3, <2>1, <2>2 DEF Flush
  <2>4. e.op = w.op /\ e.data = w.data /\ e.owner \in {None, row.owner}
    BY <1>3, <2>2 DEF Operation, LoggedOp, OpOwner
  <2>5. ReplayRow(row, e) = new
    <3>1. CASE w.op \in {"create", "set"}
      <4>1. new = [owner |-> row.owner, data |-> w.data,
                   version |-> row.version + 1, deleted |-> FALSE]
        BY <1>3, <2>0, <3>1 DEF NewRow, ReplaceRow
      <4>2. (IF row.owner = None THEN e.owner ELSE row.owner) = row.owner
        BY <2>4
      <4> HIDE DEF e, new
      <4> QED BY <1>3, <2>4, <3>1, <4>1, <4>2 DEF ReplayRow
    <3>2. CASE w.op = "patch"
      <4>1. new = PatchRow(row, w)
        BY <3>2 DEF NewRow
      <4> HIDE DEF e, new
      <4> QED BY <2>4, <3>2, <4>1 DEF ReplayRow, PatchRow
    <3>3. CASE w.op = "delete"
      <4>1. new = DeleteRow(row)
        BY <3>3 DEF NewRow
      <4> HIDE DEF e, new
      <4> QED BY <2>4, <3>3, <4>1 DEF ReplayRow, DeleteRow
    <3> QED BY <1>0, <3>1, <3>2, <3>3 DEF Ops
  <2> QED BY <2>3, <2>5
<1> QED BY <1>2, <1>3

(* An operation on a document is none on the rules, and the reverse.       *)
LEMMA OtherStep ==
  ASSUME NEW rows, NEW cl, NEW e
  PROVE  /\ e.op \in Ops => RulesStep(cl, e) = cl
         /\ e.op \notin Ops => DocsStep(rows, e) = rows
BY DEF RulesStep, DocsStep, Ops

(* A fresh object is the row of the transaction, whichever item is next.   *)
LEMMA LoadedFresh ==
  ASSUME Fresh, NEW c \in Clients, pc[c] = "ready"
  PROVE  Loaded(c) = tdocs[Current(c).id]
BY DEF Fresh, Loaded

LEMMA SerialWrites ==
  ASSUME IInv, OneAtATime, SerialInv, NEW c \in Clients, WriteItem(c)
  PROVE  LET row == tdocs[Current(c).id]
             new == NewRow(req[c], Current(c), row)
         IN /\ tdocs' = [tdocs EXCEPT ![Current(c).id] = new]
            /\ tlog' = Append(tlog, Operation(req[c], Current(c), row, new))
            /\ SerialInv'
<1> DEFINE w == Current(c)
           row == tdocs[w.id]
           new == NewRow(req[c], w, row)
           e == Operation(req[c], w, row, new)
<1>1. /\ pc[c] = "ready" /\ Loaded(c) = row
      /\ UNCHANGED <<coll, docs, log, pc, req, snap, admin>>
      /\ TypeOK
  BY LoadedFresh DEF WriteItem, SerialInv, IInv
<1>2. /\ req[c] \in Requests /\ w \in Write /\ w.id \in DocIds
      /\ row \in Row \cup {Absent}
      /\ row = Absent => w.op \in {"create", "set"}
      /\ First(c).id \in DocIds
  BY <1>1, WriteItemFacts
<1>3. Flush(row, new, row) = new /\ ReplayRow(row, e) = new
  BY <1>2, FreshFlush
<1>4. new \in Row /\ e \in LogEntry /\ e.id = w.id /\ e.op \in Ops
  <2>1. /\ new \in Row
        /\ row # Absent => new.owner = row.owner
        /\ row = Absent => new.owner = InsertOwner(req[c])
    BY <1>2, NewRowType
  <2> HIDE DEF row, new, w
  <2> QED BY <1>2, <2>1
        DEF Operation, LoggedOp, OpOwner, InsertOwner, LogEntry, Write, Ops, Row
<1>5. /\ tdocs' = [tdocs EXCEPT ![w.id] = new]
      /\ tlog' = Append(tlog, e)
      /\ obj' = [obj EXCEPT ![c] = IF w.id = First(c).id THEN new ELSE obj[c]]
  BY <1>1, <1>3 DEF WriteItem
<1>6. tdocs \in [DocIds -> Row \cup {Absent}] /\ tlog \in Seq(Entry)
      /\ obj \in [Clients -> Row \cup {Absent}]
  BY <1>1 DEF TypeOK, Entry
<1>7. CanReplay(tdocs, e)
  <2>1. e.op \in {"patch", "delete"} => w.op \in {"patch", "delete"}
    BY DEF Operation, LoggedOp
  <2> QED BY <1>2, <1>4, <2>1 DEF CanReplay
<1>8. DocsStep(tdocs, e) = tdocs'
  <2> HIDE DEF row, new, w, e
  <2>1. DocsStep(tdocs, e) = [tdocs EXCEPT ![e.id] = ReplayRow(tdocs[e.id], e)]
    BY <1>4, <1>7 DEF DocsStep
  <2> QED BY <1>3, <1>4, <1>5, <2>1 DEF row
<1>9. RulesStep(coll, e) = coll
  BY <1>4, OtherStep
<1>10. Replayed'
  <2> HIDE DEF e
  <2>1. DocsReplay(Append(tlog, e), tdocs')
    BY <1>4, <1>6, <1>8, DocsReplayAppend DEF SerialInv, Replayed, Entry
  <2>2. RulesReplay(Append(tlog, e), coll)
    BY <1>4, <1>6, <1>9, RulesReplayAppend DEF SerialInv, Replayed, Entry
  <2> QED BY <1>1, <1>5, <2>1, <2>2 DEF SerialInv, Replayed, DocsReplay, RulesReplay
<1>11. Fresh'
  <2> SUFFICES ASSUME NEW k \in Clients, pc'[k] = "ready"
               PROVE  obj'[k] = tdocs'[First(k).id]
    BY <1>1 DEF Fresh, SerialInv, First
  <2>1. k = c /\ obj[c] = tdocs[First(c).id]
    BY <1>1 DEF OneAtATime, Fresh, SerialInv
  <2> HIDE DEF new, w
  <2> QED BY <1>2, <1>5, <1>6, <2>1
<1> QED BY <1>5, <1>10, <1>11 DEF SerialInv

LEMMA SerialNext ==
  ASSUME IInv, OneAtATime, SerialInv, [Next]_vars
  PROVE  SerialInv'
<1>0. TypeOK /\ Idle /\ Fresh /\ Replayed
  BY DEF IInv, SerialInv
<1> DEFINE SameRows == UNCHANGED <<coll, docs, log, tdocs, tlog>>
<1>1. SameRows => Replayed'
  BY <1>0 DEF Replayed, DocsReplay, RulesReplay
<1>2. UNCHANGED coll /\ (\A a \in Admins : admin'[a] \in {admin[a], None})
        => \A a \in Admins : admin'[a] # None => admin'[a].seen = coll'
  BY <1>0 DEF Fresh
<1>3. ASSUME NEW c \in Clients, Forget(c)
      PROVE  \A k \in Clients : pc'[k] # "ready"
  BY <1>0, <1>3, ForgetTypes DEF OneAtATime
<1>4. CASE UNCHANGED vars
  BY <1>0, <1>4 DEF vars, SerialInv, Fresh, Replayed, DocsReplay, RulesReplay, First
<1>5. ASSUME NEW c \in Clients, Begin(c) PROVE SerialInv'
  <2>1. SameRows /\ UNCHANGED admin
    BY <1>5 DEF Begin, db
  <2>2. \A k \in Clients : pc'[k] # "ready"
    BY <1>0, <1>5 DEF Begin, TypeOK, OneAtATime
  <2> QED BY <1>1, <1>2, <2>1, <2>2 DEF SerialInv, Fresh
<1>6. ASSUME NEW c \in Clients, Find(c) PROVE SerialInv'
  <2> DEFINE row == docs[First(c).id]
  <2>1. SameRows /\ UNCHANGED admin /\ pc[c] = "begun" /\ SessionOK(c)
    BY <1>6 DEF Find, db, IInv
  <2>2. CASE ~Admitted(c, row)
    <3>1. Forget(c)
      BY <1>6, <2>2 DEF Find
    <3> QED BY <1>1, <1>2, <1>3, <2>1, <3>1 DEF SerialInv, Fresh
  <2>3. CASE Admitted(c, row)
    <3>1. writer = None
      BY <1>0, <2>1 DEF SessionOK, TypeOK, OneAtATime
    <3>2. obj'[c] = row /\ tdocs = docs /\ UNCHANGED req
      BY <1>0, <1>6, <2>3, <3>1 DEF Find, TypeOK, Idle
    <3>3. \A k \in Clients : pc'[k] = "ready" => obj'[k] = tdocs'[First(k)'.id]
      BY <2>1, <3>2 DEF OneAtATime, First
    <3> QED BY <1>1, <1>2, <2>1, <3>3 DEF SerialInv, Fresh
  <2> QED BY <2>2, <2>3
<1>7. ASSUME NEW c \in Clients, WriteItem(c) PROVE SerialInv'
  BY <1>7, SerialWrites
<1>8. ASSUME NEW c \in Clients, Commit(c) PROVE SerialInv'
  <2>1. /\ Forget(c) /\ docs' = tdocs /\ log' = tlog
        /\ UNCHANGED <<coll, tdocs, tlog, admin>>
    BY <1>8 DEF Commit
  <2>2. Replayed'
    BY <1>0, <2>1 DEF Replayed, DocsReplay, RulesReplay
  <2> QED BY <1>2, <1>3, <2>1, <2>2 DEF SerialInv, Fresh
<1>9. ASSUME NEW c \in Clients, Abort(c) PROVE SerialInv'
  <2>1. /\ Forget(c) /\ tdocs' = docs /\ tlog' = log
        /\ UNCHANGED <<coll, docs, log, admin>>
    BY <1>9 DEF Abort, Rollback
  <2>2. Replayed'
    BY <1>0, <2>1 DEF Replayed, DocsReplay, RulesReplay
  <2> QED BY <1>2, <1>3, <2>1, <2>2 DEF SerialInv, Fresh
<1>10. ASSUME NEW c \in Clients, LockTimeout(c) PROVE SerialInv'
  <2>1. Forget(c) /\ SameRows /\ UNCHANGED admin
    BY <1>10 DEF LockTimeout, db
  <2> QED BY <1>1, <1>2, <1>3, <2>1 DEF SerialInv, Fresh
<1>11. ASSUME NEW a \in Admins, AdminRead(a) PROVE SerialInv'
  <2>1. SameRows /\ UNCHANGED sessions
    BY <1>11 DEF AdminRead, db
  <2>2. \A b \in Admins : admin'[b].seen = coll
    BY <1>0, <1>11 DEF AdminRead, TypeOK, OneAtATime
  <2> QED BY <1>0, <1>1, <2>1, <2>2 DEF SerialInv, Fresh, sessions, First
<1>12. ASSUME NEW a \in Admins, AdminCommit(a) PROVE SerialInv'
  <2> DEFINE g == admin[a].change
             e == [op |-> g.kind, change |-> g]
  <2>1. /\ writer = None /\ log' = Append(log, e) /\ tlog' = log'
        /\ UNCHANGED <<docs, tdocs, pc, req, obj>>
        /\ tdocs = docs /\ tlog = log
        /\ admin' = [admin EXCEPT ![a] = None] /\ admin[a] # None
    BY <1>0, <1>12 DEF AdminCommit, Idle, sessions
  <2>2. admin[a] \in [seen : Collection, change : Change] /\ admin[a].seen = coll
    BY <1>0, <2>1 DEF TypeOK, Fresh
  <2>3. g \in Change /\ e \in AdminEntry /\ coll \in Collection
    BY <1>0, <2>2 DEF AdminEntry, Change, TypeOK
  <2>4. coll' = RulesStep(coll, e)
    <3>1. coll = [read |-> coll.read, write |-> coll.write, validator |-> coll.validator]
      BY <2>3 DEF Collection
    <3>2. CASE g.kind = "rules"
      <4>1. coll' = SetRules(coll, g)
        BY <1>12, <2>2, <3>2 DEF AdminCommit
      <4>2. RulesStep(coll, e) = [coll EXCEPT !.read = g.read, !.write = g.write]
        BY <3>2 DEF RulesStep
      <4> HIDE DEF g, e
      <4> QED BY <3>1, <4>1, <4>2 DEF SetRules
    <3>3. CASE g.kind # "rules"
      <4>1. coll' = SetValidator(coll, g) /\ g.kind = "validator"
        BY <1>12, <2>2, <2>3, <3>3 DEF AdminCommit, Change
      <4>2. RulesStep(coll, e) = [coll EXCEPT !.validator = g.validator]
        BY <4>1 DEF RulesStep
      <4> HIDE DEF g, e
      <4> QED BY <3>1, <4>1, <4>2 DEF SetValidator
    <3> QED BY <3>2, <3>3
  <2>5. e.op \notin Ops
    BY <2>3 DEF Change, Ops
  <2>6. DocsStep(docs, e) = docs
    BY <2>5, OtherStep
  <2>7. e \in Entry /\ log \in Seq(Entry)
    BY <1>0, <2>3 DEF Entry, TypeOK
  <2> HIDE DEF g, e
  <2>8. Replayed'
    <3>1. DocsReplay(Append(log, e), docs)
      BY <1>0, <2>6, <2>7, DocsReplayAppend DEF Replayed
    <3>2. RulesReplay(Append(log, e), coll')
      BY <1>0, <2>4, <2>7, RulesReplayAppend DEF Replayed
    <3> QED BY <2>1, <3>1, <3>2 DEF Replayed, DocsReplay, RulesReplay
  <2>9. Fresh'
    <3>1. \A b \in Admins : admin'[b] = None
      BY <1>0, <2>1 DEF TypeOK, OneAtATime
    <3> QED BY <1>0, <2>1, <3>1 DEF Fresh, First
  <2> QED BY <2>8, <2>9 DEF SerialInv
<1>13. CASE Crash
  <2>1. /\ tdocs' = docs /\ tlog' = log /\ UNCHANGED <<coll, docs, log>>
        /\ \A c \in Clients : pc'[c] = "idle"
        /\ \A a \in Admins : admin'[a] = None
    BY <1>13 DEF Crash, Rollback
  <2>2. Replayed'
    BY <1>0, <2>1 DEF Replayed, DocsReplay, RulesReplay
  <2> QED BY <2>1, <2>2 DEF SerialInv, Fresh
<1> QED BY <1>4, <1>5, <1>6, <1>7, <1>8, <1>9, <1>10, <1>11, <1>12, <1>13 DEF Next

LEMMA SerialInit == Init => SerialInv
<1> SUFFICES ASSUME Init PROVE SerialInv
  OBVIOUS
<1>1. docs = NoRows /\ tdocs = NoRows /\ log = <<>> /\ tlog = <<>> /\ coll = NewCollection
  BY DEF Init, NoRows
<1>2. Replayed
  BY <1>1, DocsReplayEmpty, RulesReplayEmpty DEF Replayed
<1>3. Fresh
  BY DEF Init, Fresh
<1> QED BY <1>2, <1>3 DEF SerialInv

(* Without overlap the tables are exactly what the log replays to: what    *)
(* the restore tool rebuilds is the database, rules and validator too.     *)
THEOREM LogIsTheDatabase ==
  ASSUME OneAtATime
  PROVE  Spec => []TablesMatchLog
<1>1. IInv /\ SerialInv /\ [Next]_vars => SerialInv'
  BY SerialNext
<1>2. SerialInv => TablesMatchLog
  BY ReplayedDocs, ReplayedRules
     DEF SerialInv, Replayed, TablesMatchLog, DocsMatchLog, RulesMatchLog
<1> QED BY <1>1, <1>2, SerialInit, InitInv, NextInv, PTL DEF Spec

-----------------------------------------------------------------------------
(* One request at a time: JsonDb implements JsonDbAtomic *)

(* The fold of the promise over the first n writes of r, from rows D and   *)
(* log L.                                                                  *)
ApplyWrite(s, r, w) ==
  [docs |-> [s.docs EXCEPT ![w.id] = Atomic!NewRow(r, w, s.docs[w.id])],
   log  |-> Append(s.log,
              Atomic!Operation(r, w, s.docs[w.id],
                               Atomic!NewRow(r, w, s.docs[w.id])))]
WritesFold(h, D, L, r, n) ==
  h = [i \in 0..n |-> IF i = 0 THEN [docs |-> D, log |-> L]
                      ELSE ApplyWrite(h[i - 1], r, r.writes[i])]
(* The first n writes apply, one after the other, and lead to s.           *)
Applied(D, L, r, n, s) ==
  /\ \E h : WritesFold(h, D, L, r, n)
  /\ \A h : WritesFold(h, D, L, r, n) =>
       /\ h[n] = s
       /\ \A i \in 1..n : Finds(r.writes[i], h[i - 1].docs[r.writes[i].id])

(* The promise is made of the same functions on rows.                      *)
LEMMA SameFunctions ==
  ASSUME NEW r, NEW w, NEW row
  PROVE  /\ Atomic!NewRow(r, w, row) = NewRow(r, w, row)
         /\ \A new : Atomic!Operation(r, w, row, new) = Operation(r, w, row, new)
         /\ Atomic!Finds(w, row) <=> Finds(w, row)
<1>1. Atomic!NewRow(r, w, row) = NewRow(r, w, row)
  BY DEF Atomic!NewRow, Atomic!InsertRow, Atomic!ReplaceRow, Atomic!PatchRow,
         Atomic!DeleteRow, Atomic!InsertOwner, Atomic!Merge,
         NewRow, InsertRow, ReplaceRow, PatchRow, DeleteRow, InsertOwner, Merge
<1>2. \A new : Atomic!Operation(r, w, row, new) = Operation(r, w, row, new)
  BY DEF Atomic!Operation, Atomic!LoggedOp, Atomic!OpOwner,
         Operation, LoggedOp, OpOwner
<1>3. Atomic!Finds(w, row) <=> Finds(w, row)
  BY DEF Atomic!Finds, Atomic!Live, Finds, Live
<1> QED BY <1>1, <1>2, <1>3

LEMMA NothingApplied ==
  ASSUME NEW D, NEW L, NEW r
  PROVE  Applied(D, L, r, 0, [docs |-> D, log |-> L])
<1>1. 0..0 = {0} /\ 1..0 = {}
  OBVIOUS
<1>2. WritesFold([i \in {0} |-> [docs |-> D, log |-> L]], D, L, r, 0)
  BY <1>1 DEF WritesFold
<1> QED BY <1>1, <1>2 DEF Applied, WritesFold

LEMMA OneMoreApplied ==
  ASSUME NEW D, NEW L, NEW r, NEW n \in Nat, NEW s, Applied(D, L, r, n, s),
         Finds(r.writes[n + 1], s.docs[r.writes[n + 1].id])
  PROVE  Applied(D, L, r, n + 1, ApplyWrite(s, r, r.writes[n + 1]))
<1> DEFINE w(i) == r.writes[i]
           base == [docs |-> D, log |-> L]
<1>2. /\ n \in 0..n /\ n + 1 \in 0..(n + 1) /\ n + 1 # 0 /\ (n + 1) - 1 = n
      /\ \A i \in 0..n : i \in 0..(n + 1) /\ i # n + 1
      /\ \A i \in 0..n : i # 0 => i \in 1..n /\ i - 1 \in 0..n
      /\ \A i \in 0..(n + 1) : i # n + 1 => i \in 0..n
      /\ \A i \in 1..(n + 1) : i # n + 1 => i \in 1..n
      /\ \A i \in 1..n : i - 1 \in 0..n
  OBVIOUS
<1> HIDE DEF w, base
<1>3. \E h : WritesFold(h, D, L, r, n + 1)
  <2>1. PICK h : WritesFold(h, D, L, r, n)
    BY DEF Applied
  <2> DEFINE k == [i \in 0..(n + 1) |->
                     IF i = n + 1 THEN ApplyWrite(h[n], r, w(i)) ELSE h[i]]
  <2>2. k[n + 1] = ApplyWrite(k[n], r, w(n + 1)) /\ \A i \in 0..n : k[i] = h[i]
    BY <1>2
  <2>3. \A i \in 0..n : h[i] = IF i = 0 THEN base ELSE ApplyWrite(h[i - 1], r, w(i))
    BY <2>1 DEF WritesFold, w, base
  <2>4. \A i \in 0..(n + 1) : k[i] = IF i = 0 THEN base ELSE ApplyWrite(k[i - 1], r, w(i))
    <3> TAKE i \in 0..(n + 1)
    <3>1. CASE i = n + 1
      BY <1>2, <2>2, <3>1
    <3>2. CASE i # n + 1
      BY <1>2, <2>2, <2>3, <3>2
    <3> QED BY <3>1, <3>2
  <2>5. k = [i \in 0..(n + 1) |-> k[i]]
    OBVIOUS
  <2> HIDE DEF k
  <2>6. WritesFold(k, D, L, r, n + 1)
    BY <2>4, <2>5 DEF WritesFold, w, base
  <2> QED BY <2>6
<1>4. ASSUME NEW h, WritesFold(h, D, L, r, n + 1)
      PROVE  /\ h[n + 1] = ApplyWrite(s, r, w(n + 1))
             /\ \A i \in 1..(n + 1) : Finds(w(i), h[i - 1].docs[w(i).id])
  <2>1. \A i \in 0..(n + 1) : h[i] = IF i = 0 THEN base ELSE ApplyWrite(h[i - 1], r, w(i))
    BY <1>4 DEF WritesFold, w, base
  <2> DEFINE k == [i \in 0..n |-> h[i]]
  <2>2. \A i \in 0..n : k[i] = IF i = 0 THEN base ELSE ApplyWrite(k[i - 1], r, w(i))
    BY <1>2, <2>1
  <2>3. k = [i \in 0..n |-> k[i]] /\ \A i \in 0..n : k[i] = h[i]
    BY <1>2
  <2> HIDE DEF k
  <2>4. WritesFold(k, D, L, r, n)
    BY <2>2, <2>3 DEF WritesFold, w, base
  <2>5. k[n] = s /\ \A i \in 1..n : Finds(w(i), k[i - 1].docs[w(i).id])
    BY <2>4 DEF Applied, w
  <2>6. h[n] = s /\ \A i \in 1..n : Finds(w(i), h[i - 1].docs[w(i).id])
    BY <1>2, <2>3, <2>5
  <2>7. Finds(w(n + 1), h[n].docs[w(n + 1).id])
    BY <2>6 DEF w
  <2> QED BY <1>2, <2>1, <2>6, <2>7
<1> QED BY <1>3, <1>4 DEF Applied, w

(* The open transaction has applied the writes done so far to the tables;  *)
(* the owner's changes are from Changes.                                   *)
AtomicOK ==
  /\ \A c \in Clients : writer = c =>
       Applied(docs, log, req[c], item[c] - 1, [docs |-> tdocs, log |-> tlog])
  /\ \A a \in Admins : admin[a] # None => admin[a].change \in Changes

LEMMA AtomicWrites ==
  ASSUME IInv, OneAtATime, SerialInv, AtomicOK, NEW c \in Clients, WriteItem(c)
  PROVE  Applied(docs, log, req[c], item[c], [docs |-> tdocs', log |-> tlog'])
<1> DEFINE w == Current(c)
           row == tdocs[w.id]
           new == NewRow(req[c], w, row)
           n == item[c] - 1
           s == [docs |-> tdocs, log |-> tlog]
<1>1. /\ pc[c] = "ready" /\ writer \in {None, c} /\ ItemFound(c)
      /\ TypeOK /\ SessionOK(c) /\ ObjectOK(c) /\ Idle
  BY DEF WriteItem, IInv
<1>2. item[c] \in Nat \ {0} /\ n \in Nat /\ n + 1 = item[c]
  BY <1>1 DEF TypeOK
<1>3. Applied(docs, log, req[c], n, s)
  <2>1. CASE writer = c
    BY <2>1 DEF AtomicOK
  <2>2. CASE writer = None
    <3>1. item[c] = 1 /\ tdocs = docs /\ tlog = log
      BY <1>1, <1>2, <2>2, JsonDbAssumption DEF SessionOK, Idle
    <3>2. n = 0
      BY <3>1
    <3> QED BY <3>1, <3>2, NothingApplied
  <2> QED BY <1>1, <2>1, <2>2
<1>4. Finds(w, row)
  <2>1. Loaded(c) = row
    BY <1>1, LoadedFresh DEF SerialInv
  <2>2. CASE item[c] = 1
    <3>1. w = First(c) /\ Loaded(c) = obj[c]
      BY <2>2 DEF Current, First, Loaded
    <3> QED BY <1>1, <2>1, <2>2, <3>1 DEF ObjectOK
  <2>3. CASE item[c] # 1
    BY <1>1, <2>1, <2>3 DEF ItemFound
  <2> QED BY <2>2, <2>3
<1>5. w = req[c].writes[n + 1]
  BY <1>2 DEF Current
<1>6. /\ tdocs' = [tdocs EXCEPT ![w.id] = new]
      /\ tlog' = Append(tlog, Operation(req[c], w, row, new))
  BY SerialWrites
<1>7. ApplyWrite(s, req[c], w) = [docs |-> tdocs', log |-> tlog']
  <2>1. s.docs = tdocs /\ s.log = tlog
    OBVIOUS
  <2>2. Atomic!NewRow(req[c], w, row) = new
    BY SameFunctions
  <2>3. Atomic!Operation(req[c], w, row, new) = Operation(req[c], w, row, new)
    BY SameFunctions
  <2> HIDE DEF s, new, w
  <2> QED BY <1>6, <2>1, <2>2, <2>3 DEF ApplyWrite
<1> HIDE DEF n, w
<1>8. Finds(req[c].writes[n + 1], s.docs[req[c].writes[n + 1].id])
  BY <1>4, <1>5
<1> HIDE DEF s
<1>9. Applied(docs, log, req[c], n + 1, ApplyWrite(s, req[c], req[c].writes[n + 1]))
  BY <1>2, <1>3, <1>8, OneMoreApplied
<1> QED BY <1>2, <1>5, <1>7, <1>9

LEMMA AtomicNext ==
  ASSUME IInv, OneAtATime, SerialInv, AtomicOK, [Next]_vars
  PROVE  AtomicOK'
<1>0. TypeOK
  BY DEF IInv
<1>1. ASSUME NEW c \in Clients, writer' = c
      PROVE  Applied(docs, log, req[c], item[c] - 1, [docs |-> tdocs, log |-> tlog])'
  <2>1. CASE WriteItem(c)
    <3>1. /\ item'[c] - 1 = item[c] /\ req' = req /\ docs' = docs /\ log' = log
      BY <1>0, <2>1 DEF WriteItem, TypeOK
    <3>2. Applied(docs, log, req[c], item[c], [docs |-> tdocs', log |-> tlog'])
      BY <2>1, AtomicWrites
    <3> QED BY <3>1, <3>2
  <2>2. CASE /\ writer = c
             /\ UNCHANGED <<docs, log, tdocs, tlog>>
             /\ UNCHANGED <<pc[c], req[c], snap[c], obj[c], item[c]>>
    BY <2>2 DEF AtomicOK
  <2> QED BY <1>1, <2>1, <2>2, LockHolder
<1>2. ASSUME NEW a \in Admins, admin'[a] # None
      PROVE  admin'[a].change \in Changes
  <2>1. CASE \E b \in Admins : AdminRead(b)
    <3>1. PICK b \in Admins : AdminRead(b)
      BY <2>1
    <3>2. PICK g \in Changes :
            admin' = [admin EXCEPT ![b] = [seen |-> coll, change |-> g]]
      BY <3>1 DEF AdminRead
    <3> QED BY <1>0, <1>2, <3>2 DEF TypeOK, AtomicOK
  <2>2. CASE admin'[a] \in {admin[a], None}
    BY <1>2, <2>2 DEF AtomicOK
  <2>3. ASSUME NEW b \in Admins, AdminCommit(b) PROVE admin'[a] \in {admin[a], None}
    BY <1>0, <2>3 DEF AdminCommit, TypeOK
  <2>4. ~(\E b \in Admins : AdminRead(b) \/ AdminCommit(b)) => admin'[a] \in {admin[a], None}
    BY DEF Next, vars, Begin, Find, WriteItem, Commit, Abort, LockTimeout, Crash
  <2> QED BY <2>1, <2>2, <2>3, <2>4
<1> QED BY <1>1, <1>2 DEF AtomicOK

(* The step that publishes a transaction is the promise's Apply.           *)
LEMMA CommitApplies ==
  ASSUME IInv, OneAtATime, SerialInv, AtomicOK, TransactionsOK,
         NEW c \in Clients, Commit(c)
  PROVE  Atomic!Apply(req[c]) /\ req[c] \in Requests
<1> DEFINE r == req[c]
           n == Len(r.writes)
           h == Atomic!After(r)
<1>1. /\ writer = c /\ docs' = tdocs /\ log' = tlog /\ coll' = coll
      /\ item[c] > n /\ TypeOK /\ SessionOK(c) /\ TransactionOK(c)
  BY DEF Commit, IInv, TransactionsOK
<1>2. r \in Requests
  BY <1>1 DEF SessionOK
<1>3. n \in Nat
  BY <1>2, JsonDbAssumption DEF IsRequest
<1>4. item[c] - 1 = n
  BY <1>1, <1>3 DEF TypeOK, TransactionOK
<1>5. Applied(docs, log, r, n, [docs |-> tdocs, log |-> tlog])
  BY <1>1, <1>4 DEF AtomicOK
<1>6. WritesFold(h, docs, log, r, n)
  <2>1. h = CHOOSE k : WritesFold(k, docs, log, r, n)
    BY DEF Atomic!After, WritesFold, ApplyWrite
  <2> HIDE DEF h, n, r
  <2> QED BY <1>5, <2>1 DEF Applied
<1> HIDE DEF h, n, r
<1>7. /\ h[n] = [docs |-> tdocs, log |-> tlog]
      /\ \A i \in 1..n : Finds(r.writes[i], h[i - 1].docs[r.writes[i].id])
  BY <1>5, <1>6 DEF Applied
<1>8. Atomic!Applicable(r)
  <2>1. \A i \in 1..n : Atomic!Finds(r.writes[i], h[i - 1].docs[r.writes[i].id])
    BY <1>7, SameFunctions
  <2> QED BY <2>1 DEF Atomic!Applicable, h, n
<1>9. docs' = h[n].docs /\ log' = h[n].log
  BY <1>1, <1>7
<1> QED BY <1>1, <1>2, <1>8, <1>9 DEF Atomic!Apply, h, n, r

(* Rules and validator are set as asked when nobody set them in between.   *)
LEMMA ChangeApplies ==
  ASSUME IInv, OneAtATime, SerialInv, AtomicOK, NEW a \in Admins, AdminCommit(a)
  PROVE  \E g \in Changes : Atomic!ApplyChange(g)
<1> DEFINE g == admin[a].change
<1>1. /\ admin[a] # None /\ TypeOK /\ Fresh
      /\ log' = Append(log, [op |-> g.kind, change |-> g])
      /\ UNCHANGED docs
  BY DEF AdminCommit, IInv, SerialInv
<1>2. admin[a].seen = coll /\ g \in Changes
  BY <1>1 DEF Fresh, AtomicOK
<1>3. coll' = IF g.kind = "rules" THEN SetRules(coll, g) ELSE SetValidator(coll, g)
  BY <1>2 DEF AdminCommit
<1>4. coll = [read |-> coll.read, write |-> coll.write, validator |-> coll.validator]
  BY <1>1 DEF TypeOK, Collection
<1> HIDE DEF g
<1>5. SetRules(coll, g) = [coll EXCEPT !.read = g.read, !.write = g.write]
  BY <1>4 DEF SetRules
<1>6. SetValidator(coll, g) = [coll EXCEPT !.validator = g.validator]
  BY <1>4 DEF SetValidator
<1>7. Atomic!ApplyChange(g)
  BY <1>1, <1>3, <1>5, <1>6 DEF Atomic!ApplyChange
<1> QED BY <1>2, <1>7

LEMMA StepRefines ==
  ASSUME IInv, OneAtATime, SerialInv, AtomicOK, TransactionsOK, [Next]_vars
  PROVE  [Atomic!Next]_<<coll, docs, log>>
<1>1. CASE \E c \in Clients : Commit(c)
  BY <1>1, CommitApplies DEF Atomic!Next
<1>2. CASE \E a \in Admins : AdminCommit(a)
  BY <1>2, ChangeApplies DEF Atomic!Next
<1>3. CASE /\ ~(\E c \in Clients : Commit(c))
           /\ ~(\E a \in Admins : AdminCommit(a))
  BY <1>3 DEF Next, vars, db, Begin, Find, WriteItem, Abort, LockTimeout, AdminRead, Crash
<1> QED BY <1>1, <1>2, <1>3

(* Without overlap a request takes effect at one instant, whole, on the    *)
(* rows as they are then, and the log records it: the detailed write path  *)
(* implements the promise.                                                 *)
THEOREM RequestsAreAtomic ==
  ASSUME OneAtATime
  PROVE  Spec => AtomicSpec
<1> DEFINE Inv == IInv /\ TransactionsOK /\ SerialInv /\ AtomicOK
<1>1. Init => Inv /\ Atomic!Init
  <2>1. Init => AtomicOK /\ TransactionsOK
    BY JsonDbAssumption DEF Init, AtomicOK, TransactionsOK, TransactionOK
  <2>2. Init => Atomic!Init
    BY DEF Init, Atomic!Init, NewCollection, Atomic!NewCollection
  <2> QED BY <2>1, <2>2, InitInv, SerialInit
<1>2. Inv /\ [Next]_vars => Inv'
  <2>1. IInv /\ TransactionsOK /\ [Next]_vars => TransactionsOK'
    BY TransactionInv DEF TransactionsOK
  <2> QED BY <2>1, NextInv, SerialNext, AtomicNext
<1>3. Inv /\ [Next]_vars => [Atomic!Next]_<<coll, docs, log>>
  BY StepRefines
<1> HIDE DEF Inv
<1> QED BY <1>1, <1>2, <1>3, PTL DEF Spec, AtomicSpec, Atomic!Spec

=============================================================================
