------------------------------- MODULE JsonDb -------------------------------
(***************************************************************************)
(* The write path of one JSON collection (lcloud/api/json_db.py).          *)
(*                                                                         *)
(* Three routers write the same rows: the owner's router, the publishable- *)
(* key router and the router by collection id.  A request opens a session  *)
(* and                                                                     *)
(*   Begin     SELECTs the collection and checks rules and validator on it,*)
(*   Find      SELECTs the row of its (first) document,                    *)
(*   WriteItem flushes a write: the first flush opens the SQLite write     *)
(*             transaction, so rows were read BEFORE the lock is taken,    *)
(*   Commit    publishes the transaction.                                  *)
(* The driver runs SELECTs outside a transaction, and the ORM's UPDATE     *)
(* names only the columns whose value differs from the one loaded: see     *)
(* Flush.  A document row is never removed here, "delete" marks it;        *)
(* dropping the whole collection is module OpLogBackup's subject.          *)
(*                                                                         *)
(* A request that is refused by its first SELECT is no step at all.        *)
(***************************************************************************)
EXTENDS JsonRows

CONSTANTS
  Clients,     \* document requests in progress at one time
  Admins,      \* requests to the rules and validator endpoints in progress
  Requests,    \* the document requests clients may send
  Changes,     \* the rules and validators the owner may ask for
  MaxLog       \* bound: no request begins once the log is this long

VARIABLES
  coll,    \* the committed json_collections row: read, write, validator
  docs,    \* the committed json_documents rows
  log,     \* the committed json_operations rows, in id order
  writer,  \* who holds SQLite's write lock, or None
  tdocs,   \* json_documents as the write transaction sees it
  tlog,    \* json_operations as the write transaction sees it
  pc,      \* per client: where the handler is
  req,     \* per client: the request
  snap,    \* per client: the collection row it loaded
  obj,     \* per client: the session's object of the first document
  item,    \* per client: index of the write that is next
  admin    \* per admin: NULL or the collection row it loaded and the change

ASSUME JsonDbAssumption ==
  /\ \A r \in Requests : IsRequest(r)
  /\ Changes \subseteq Change
  /\ None \notin Clients
  /\ None \notin Collection
  /\ None \notin [seen : Collection, change : Change]
  /\ MaxLog \in Nat

db == <<docs, log, writer, tdocs, tlog>>
sessions == <<pc, req, snap, obj, item>>
vars == <<coll, docs, log, writer, tdocs, tlog, pc, req, snap, obj, item, admin>>

-----------------------------------------------------------------------------
Init ==
  /\ coll = NewCollection
  /\ docs = [d \in DocIds |-> Absent]
  /\ log = <<>>
  /\ writer = None
  /\ tdocs = docs
  /\ tlog = log
  /\ pc = [c \in Clients |-> "idle"]
  /\ req = [c \in Clients |-> None]
  /\ snap = [c \in Clients |-> None]
  /\ obj = [c \in Clients |-> Absent]
  /\ item = [c \in Clients |-> 1]
  /\ admin = [a \in Admins |-> None]

Current(c) == req[c].writes[item[c]]
First(c) == req[c].writes[1]

(* SELECT the collection; 403 and 422 leave no trace.  create and set      *)
(* validate the body before they look for the row, patch the merged data.  *)
Begin(c) ==
  /\ pc[c] = "idle"
  /\ Len(log) < MaxLog
  /\ \E r \in Requests :
       /\ CanWrite(coll, r, Absent)
       /\ r.writes[1].op \in {"create", "set"}
            => Validates(coll, r, r.writes[1].data)
       /\ req' = [req EXCEPT ![c] = r]
  /\ snap' = [snap EXCEPT ![c] = coll]
  /\ pc' = [pc EXCEPT ![c] = "begun"]
  /\ UNCHANGED <<coll, db, obj, item, admin>>

Forget(c) ==
  /\ pc' = [pc EXCEPT ![c] = "idle"]
  /\ req' = [req EXCEPT ![c] = None]
  /\ snap' = [snap EXCEPT ![c] = None]
  /\ obj' = [obj EXCEPT ![c] = Absent]
  /\ item' = [item EXCEPT ![c] = 1]

(* SELECT the row of the first document, in no transaction.                *)
(* Mutant: the body of a patch is validated instead of the merged data. *)
AdmittedByBody(c, row) ==
  /\ Finds(First(c), row)
  /\ CanWrite(snap[c], req[c], row)
  /\ First(c).op = "patch" => Validates(snap[c], req[c], First(c).data)

Admitted(c, row) ==
  /\ Finds(First(c), row)
  /\ CanWrite(snap[c], req[c], row)
  /\ First(c).op = "patch"
       => Validates(snap[c], req[c], Merge(row.data, First(c).data))

Find(c) ==
  /\ pc[c] = "begun"
  /\ LET row == docs[First(c).id] IN
       IF Admitted(c, row)
         THEN /\ pc' = [pc EXCEPT ![c] = "ready"]
              /\ obj' = [obj EXCEPT ![c] = row]
              /\ UNCHANGED <<req, snap, item>>
         ELSE Forget(c)
  /\ UNCHANGED <<coll, db, admin>>

(* Mutant: later items of a batch are read outside the transaction. *)
LoadedCommitted(c) ==
  IF item[c] = 1 THEN obj[c] ELSE docs[Current(c).id]

(* The object the session's identity map holds for the current document:   *)
(* the one loaded first, or a row read inside the transaction.             *)
Loaded(c) ==
  IF Current(c).id = First(c).id THEN obj[c] ELSE tdocs[Current(c).id]

(* Later items of a batch SELECT inside the transaction: the WHERE clause  *)
(* of update and delete is evaluated on the table, create looks at the     *)
(* object.                                                                 *)
ItemFound(c) ==
  \/ item[c] = 1
  \/ Finds(Current(c), IF Current(c).op \in {"patch", "delete"}
                         THEN tdocs[Current(c).id] ELSE Loaded(c))

(* The unique constraint on (collection, doc id). *)
Insertable(c) == Loaded(c) = Absent => tdocs[Current(c).id] = Absent

WriteItem(c) ==
  /\ pc[c] = "ready"
  /\ item[c] =< Len(req[c].writes)
  /\ writer \in {None, c}
  /\ ItemFound(c)
  /\ Insertable(c)
  /\ LET w == Current(c)
         row == Loaded(c)
         new == NewRow(req[c], w, row)
     IN /\ tdocs' = [tdocs EXCEPT ![w.id] = Flush(row, new, @)]
        /\ tlog' = Append(tlog, Operation(req[c], w, row, new))
        /\ obj' = [obj EXCEPT ![c] = IF w.id = First(c).id THEN new ELSE @]
  /\ writer' = c
  /\ item' = [item EXCEPT ![c] = @ + 1]
  /\ UNCHANGED <<coll, docs, log, pc, req, snap, admin>>

Commit(c) ==
  /\ writer = c
  /\ item[c] > Len(req[c].writes)
  /\ docs' = tdocs
  /\ log' = tlog
  /\ writer' = None
  /\ Forget(c)
  /\ UNCHANGED <<coll, tdocs, tlog, admin>>

Rollback ==
  /\ writer' = None
  /\ tdocs' = docs
  /\ tlog' = log

(* Mutant: the items before the refused one are committed. *)
AbortKeepsItems(c) ==
  /\ pc[c] = "ready"
  /\ item[c] =< Len(req[c].writes)
  /\ writer \in {None, c}
  /\ ~(ItemFound(c) /\ Insertable(c))
  /\ docs' = tdocs
  /\ log' = tlog
  /\ writer' = None
  /\ Forget(c)
  /\ UNCHANGED <<coll, tdocs, tlog, admin>>

(* A later item of a batch is refused, or an INSERT meets a row another    *)
(* request committed: the session closes without committing.               *)
Abort(c) ==
  /\ pc[c] = "ready"
  /\ item[c] =< Len(req[c].writes)
  /\ writer \in {None, c}
  /\ ~(ItemFound(c) /\ Insertable(c))
  /\ Rollback
  /\ Forget(c)
  /\ UNCHANGED <<coll, docs, log, admin>>

(* PRAGMA busy_timeout ran out while another request held the lock.        *)
LockTimeout(c) ==
  /\ pc[c] = "ready"
  /\ writer \notin {None, c}
  /\ Forget(c)
  /\ UNCHANGED <<coll, db, admin>>

-----------------------------------------------------------------------------
(* The rules and validator endpoints: SELECT the collection, then an       *)
(* UPDATE of the columns that change, with its operation.                  *)
AdminRead(a) ==
  /\ admin[a] = None
  /\ Len(log) < MaxLog
  /\ \E g \in Changes : admin' = [admin EXCEPT ![a] = [seen |-> coll, change |-> g]]
  /\ UNCHANGED <<coll, db, sessions>>

(* Mutant: the write rule is forgotten. *)
SetReadRule(seen, g) ==
  [coll EXCEPT !.read = IF g.read # seen.read THEN g.read ELSE @]

SetRules(seen, g) ==
  [coll EXCEPT !.read  = IF g.read # seen.read THEN g.read ELSE @,
               !.write = IF g.write # seen.write THEN g.write ELSE @]
SetValidator(seen, g) ==
  [coll EXCEPT !.validator =
     IF g.validator # seen.validator THEN g.validator ELSE @]

AdminCommit(a) ==
  /\ admin[a] # None
  /\ writer = None
  /\ LET asked == admin[a].change IN
       /\ coll' = IF asked.kind = "rules" THEN SetRules(admin[a].seen, asked)
                                          ELSE SetValidator(admin[a].seen, asked)
       /\ log' = Append(log, [op |-> asked.kind, change |-> asked])
  /\ tlog' = log'
  /\ admin' = [admin EXCEPT ![a] = None]
  /\ UNCHANGED <<docs, writer, tdocs, sessions>>

(* The process dies: every session is gone, an open transaction with it.   *)
Crash ==
  /\ \E c \in Clients : pc[c] # "idle"
  /\ Rollback
  /\ pc' = [c \in Clients |-> "idle"]
  /\ req' = [c \in Clients |-> None]
  /\ snap' = [c \in Clients |-> None]
  /\ obj' = [c \in Clients |-> Absent]
  /\ item' = [c \in Clients |-> 1]
  /\ admin' = [a \in Admins |-> None]
  /\ UNCHANGED <<coll, docs, log>>

Next ==
  \/ \E c \in Clients :
       \/ Begin(c) \/ Find(c) \/ WriteItem(c) \/ Commit(c)
       \/ Abort(c) \/ LockTimeout(c)
  \/ \E a \in Admins : AdminRead(a) \/ AdminCommit(a)
  \/ Crash

Spec == Init /\ [][Next]_vars

-----------------------------------------------------------------------------
(* Properties *)

TypeOK ==
  /\ coll \in Collection
  /\ docs \in [DocIds -> Row \cup {Absent}]
  /\ log \in Seq(LogEntry \cup AdminEntry)
  /\ writer \in Clients \cup {None}
  /\ tdocs \in [DocIds -> Row \cup {Absent}]
  /\ tlog \in Seq(LogEntry \cup AdminEntry)
  /\ pc \in [Clients -> {"idle", "begun", "ready"}]
  /\ req \in [Clients -> Requests \cup {None}]
  /\ snap \in [Clients -> Collection \cup {None}]
  /\ obj \in [Clients -> Row \cup {Absent}]
  /\ item \in [Clients -> Nat \ {0}]
  /\ admin \in [Admins -> [seen : Collection, change : Change] \cup {None}]

(* The log can always be replayed: whatever requests overlapped, the first *)
(* operation on a document is a create, so the restore tool never meets a  *)
(* patch or delete of a missing row.                                       *)
CreatesFirstIn(l) ==
  \A i \in DOMAIN l : l[i].op \in Ops /\ l[i].op # "create" =>
    \E j \in 1..(i - 1) : l[j].op = "create" /\ l[j].id = l[i].id
LogReplayable == CreatesFirstIn(log)

(* Who owns a document is the same in the table and in the log: an         *)
(* operation names nobody or the row's owner (the event stream filters on  *)
(* it), and a row with an owner has an operation that names it (the        *)
(* restore tool has no other source for owner_uid).                        *)
OwnersAgreeIn(rows, l) ==
  /\ \A i \in DOMAIN l : l[i].op \in Ops =>
       /\ rows[l[i].id] # Absent
       /\ l[i].owner \in {None, rows[l[i].id].owner}
  /\ \A d \in DocIds : rows[d] # Absent =>
       \E i \in DOMAIN l :
         l[i].op = "create" /\ l[i].id = d /\ l[i].owner = rows[d].owner
OwnersAgree == OwnersAgreeIn(docs, log)

(* The client whose transaction this step commits. *)
Commits(c) == writer = c /\ writer' = None /\ docs' # docs
Changed(d) == docs'[d] # docs[d]

(* Under the document_owner rule an app user inserts rows of its own and   *)
(* changes no other row, although the row was checked before the lock was  *)
(* taken.                                                                  *)
OwnerIsolation ==
  [][\A c \in Clients, d \in DocIds :
       /\ Commits(c) /\ Changed(d)
       /\ req[c].user # "owner"
       /\ snap[c].write = "document_owner"
       => /\ docs'[d].owner = req[c].app
          /\ docs[d] # Absent => docs[d].owner = req[c].app]_vars

(* Through the public routers only data the validator accepts reaches a    *)
(* row: the validator of the collection as the request loaded it.          *)
PublicDataValidated ==
  [][\A c \in Clients, d \in DocIds :
       /\ Commits(c)
       /\ req[c].path # "owner"
       /\ docs'[d] # Absent
       /\ docs[d] = Absent \/ docs'[d].data # docs[d].data
       => Accepts(snap[c].validator, docs'[d].data)]_vars

(* A request is committed whole or not at all: its operations are appended *)
(* in its order with nothing between them, and every row it changed is     *)
(* named by one of them.                                                   *)
CommitsWhole ==
  [][\A c \in Clients : Commits(c) =>
       LET ws == req[c].writes IN
         /\ Len(log') = Len(log) + Len(ws)
         /\ \A i \in DOMAIN log : log'[i] = log[i]
         /\ \A i \in DOMAIN ws : log'[Len(log) + i].id = ws[i].id
         /\ \A d \in DocIds : Changed(d) => \E i \in DOMAIN ws : ws[i].id = d]_vars

(* A deleted document comes back only through a create or a set, never     *)
(* through a patch that was computed from the live row.                    *)
NoResurrection ==
  [][\A c \in Clients, d \in DocIds :
       Commits(c) /\ docs[d] # Absent /\ docs[d].deleted /\ ~docs'[d].deleted
       => \E i \in DOMAIN req[c].writes :
            /\ req[c].writes[i].id = d
            /\ req[c].writes[i].op \in {"create", "set"}]_vars

(* The tables are what the operation log replays to (JsonOperation: "log   *)
(* for replay, audit").  True while requests do not overlap.               *)
DocsMatchLog == docs = ReplayDocs(log)
RulesMatchLog == coll = ReplayCollection(log)
TablesMatchLog == DocsMatchLog /\ RulesMatchLog

(* The promise, met while requests do not overlap. *)
Atomic == INSTANCE JsonDbAtomic
AtomicSpec == Atomic!Spec

=============================================================================
