------------------------------ MODULE JsonRows ------------------------------
(***************************************************************************)
(* The rows of the JSON database and the functions on them: who may write, *)
(* what each kind of write makes of a row (lcloud/api/json_db.py) and what *)
(* the restore tool makes of an operation (lcloud/userbot/db_restore.py).  *)
(*                                                                         *)
(* Abstractions: timestamps are reduced to "deleted or not"; a document is *)
(* a partial function from field names to values; of the four validator    *)
(* checks max_bytes is left out, a size bound of the shape of max_fields.  *)
(***************************************************************************)
EXTENDS Integers, Sequences, FiniteSets

CONSTANTS
  DocIds,      \* document ids
  Fields,      \* field names of a document
  Values,      \* field values
  Uids,        \* app users of the collection's project and database
  ForeignUids, \* app users of other projects
  None,        \* NULL: no app user, no validator
  Absent       \* no row

-----------------------------------------------------------------------------
(* Data *)

Data == UNION {[F -> Values] : F \in SUBSET Fields}

Merge(old, new) ==
  [f \in DOMAIN old \cup DOMAIN new |->
     IF f \in DOMAIN new THEN new[f] ELSE old[f]]

Apps == Uids \cup ForeignUids
Rules == {"owner", "document_owner", "authenticated", "public"}
Validators ==
  [max_fields : Nat, required : SUBSET Fields, allowed : SUBSET Fields]

Collection ==
  [read : Rules, write : Rules, validator : Validators \cup {None}]

NewCollection == [read |-> "owner", write |-> "owner", validator |-> None]

Row == [owner : Apps \cup {None}, data : Data,
        version : Nat \ {0}, deleted : BOOLEAN]

Ops == {"create", "set", "patch", "delete"}
(* A write carries a body, except for delete. *)
NoData == [f \in {} |-> None]
Write == {w \in [op : Ops, id : DocIds, data : Data] :
            w.op = "delete" => w.data = NoData}

LogEntry == [op : Ops, id : DocIds, data : Data, owner : Apps \cup {None}]
Change == [kind : {"rules"}, read : Rules, write : Rules]
            \cup [kind : {"validator"}, validator : Validators \cup {None}]
AdminEntry == [op : {"rules", "validator"}, change : Change]

(* A request: the router it came through, the principal the dependency     *)
(* resolved and its writes.  Only the owner's router has a batch endpoint; *)
(* a batch of one write does what the single endpoint does.                *)
IsRequest(r) ==
  /\ r.path \in {"owner", "key", "id"}
  /\ r.user \in {"owner", "other", None}
  /\ r.app \in Apps \cup {None}
  /\ r.writes \in Seq(Write)
  /\ r.writes # <<>>
  /\ r.path = "owner" => r.user = "owner"
  /\ r.path # "key" => r.app = None
  /\ r.path # "owner" => Len(r.writes) = 1

ASSUME JsonRowsAssumption ==
  /\ None \notin Apps
  /\ Absent \notin Row
  /\ Absent # None

-----------------------------------------------------------------------------
(* Rules and validators *)

(* Mutant: the row's owner is not compared. *)
CanAccessAnyRow(rule, r, row) ==
  \/ r.user = "owner"
  \/ rule = "public"
  \/ rule = "authenticated" /\ (r.user # None \/ r.app \in Uids)
  \/ rule = "document_owner" /\ r.app \in Uids

CanAccess(rule, r, row) ==
  \/ r.user = "owner"
  \/ rule = "public"
  \/ rule = "authenticated" /\ (r.user # None \/ r.app \in Uids)
  \/ /\ rule = "document_owner"
     /\ r.app \in Uids
     /\ row # Absent => row.owner = r.app

Accepts(v, data) ==
  v # None =>
    /\ Cardinality(DOMAIN data) =< v.max_fields
    /\ v.required \subseteq DOMAIN data
    /\ v.allowed # {} => DOMAIN data \subseteq v.allowed

CanWrite(cl, r, row) == r.path = "owner" \/ CanAccess(cl.write, r, row)
Validates(cl, r, data) == r.path = "owner" \/ Accepts(cl.validator, data)

(* The owner_uid a request gives the rows it inserts. *)
InsertOwner(r) == IF r.path = "key" THEN r.app ELSE None
(* Mutant: the operation names the caller. *)
OpOwnerCaller(r, row) == IF r.path = "key" THEN r.app ELSE None
(* The owner_uid of the operation it logs for a row. *)
OpOwner(r, row) == IF r.path = "key" THEN row.owner ELSE None

-----------------------------------------------------------------------------
(* What one write does to the object the session holds *)

Live(row) == row # Absent /\ ~row.deleted

(* Mutant: the version of a new row is left to a default of zero. *)
InsertRowUnversioned(r, w) ==
  [owner |-> InsertOwner(r), data |-> w.data, version |-> 0, deleted |-> FALSE]

InsertRow(r, w) ==
  [owner |-> InsertOwner(r), data |-> w.data, version |-> 1, deleted |-> FALSE]
ReplaceRow(row, w) ==
  [row EXCEPT !.data = w.data, !.version = @ + 1, !.deleted = FALSE]
PatchRow(row, w) ==
  [row EXCEPT !.data = Merge(@, w.data), !.version = @ + 1]
DeleteRow(row) ==
  [row EXCEPT !.version = @ + 1, !.deleted = TRUE]

NewRow(r, w, row) ==
  IF w.op \in {"create", "set"}
    THEN IF row = Absent THEN InsertRow(r, w) ELSE ReplaceRow(row, w)
    ELSE IF w.op = "patch" THEN PatchRow(row, w) ELSE DeleteRow(row)

(* Mutant: a set that inserts is logged as a set. *)
LoggedOpAsAsked(w, row) == w.op
LoggedOp(w, row) == IF w.op = "set" /\ row = Absent THEN "create" ELSE w.op

Operation(r, w, row, new) ==
  [op |-> LoggedOp(w, row), id |-> w.id, data |-> w.data,
   owner |-> OpOwner(r, new)]

(* create answers 409 on a live document, patch and delete 404 without one. *)
Finds(w, row) ==
  CASE w.op = "create" -> ~Live(row)
    [] w.op = "set"    -> TRUE
    [] OTHER           -> Live(row)

(* Mutant: the UPDATE names every column. *)
FlushEveryColumn(loaded, new, current) == new

(* The flush: INSERT when there was no row, else an UPDATE of the columns  *)
(* that changed since the object was loaded.                               *)
Flush(loaded, new, current) ==
  IF loaded = Absent THEN new
  ELSE [owner   |-> current.owner,
        data    |-> IF new.data # loaded.data THEN new.data ELSE current.data,
        version |-> new.version,
        deleted |-> IF new.deleted # loaded.deleted
                      THEN new.deleted ELSE current.deleted]

-----------------------------------------------------------------------------
(* What the restore tool makes of an operation log *)

(* patch and delete raise RestoreError when there is no row. *)
CanReplay(rows, e) == e.op \in {"patch", "delete"} => rows[e.id] # Absent

(* Mutant: a patch is replayed as a set. *)
ReplayRowReplacing(row, e) ==
  IF row = Absent
    THEN [owner |-> e.owner, data |-> e.data, version |-> 1, deleted |-> FALSE]
    ELSE [row EXCEPT !.data = IF e.op = "delete" THEN @ ELSE e.data,
                     !.version = @ + 1,
                     !.deleted = (e.op = "delete")]

ReplayRow(row, e) ==
  IF e.op \in {"create", "set"}
    THEN IF row = Absent
           THEN [owner |-> e.owner, data |-> e.data,
                 version |-> 1, deleted |-> FALSE]
           ELSE [owner   |-> IF row.owner = None THEN e.owner ELSE row.owner,
                 data    |-> e.data,
                 version |-> row.version + 1,
                 deleted |-> FALSE]
    ELSE IF e.op = "patch"
           THEN [row EXCEPT !.data = Merge(@, e.data), !.version = @ + 1]
           ELSE [row EXCEPT !.version = @ + 1, !.deleted = TRUE]

ReplayDocs(l) ==
  LET after[i \in 0..Len(l)] ==
        IF i = 0 THEN [d \in DocIds |-> Absent]
        ELSE IF l[i].op \in Ops /\ CanReplay(after[i-1], l[i])
          THEN [after[i-1] EXCEPT ![l[i].id] = ReplayRow(@, l[i])]
          ELSE after[i-1]
  IN after[Len(l)]

ReplayCollection(l) ==
  LET after[i \in 0..Len(l)] ==
        IF i = 0 THEN NewCollection
        ELSE IF l[i].op = "rules"
          THEN [after[i-1] EXCEPT !.read  = l[i].change.read,
                                  !.write = l[i].change.write]
        ELSE IF l[i].op = "validator"
          THEN [after[i-1] EXCEPT !.validator = l[i].change.validator]
        ELSE after[i-1]
  IN after[Len(l)]

=============================================================================
