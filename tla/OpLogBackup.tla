----------------------------- MODULE OpLogBackup -----------------------------
(***************************************************************************)
(* The operation log of all collections and its backup to Telegram         *)
(* (lcloud/api/json_db.py, lcloud/userbot/db_backup.py).                   *)
(*                                                                         *)
(* Collections and operations get their ids from SQLite: neither table is  *)
(* AUTOINCREMENT, so an id is one more than the largest in the table, and  *)
(* deleting a collection (its operations go with it, ON DELETE CASCADE)    *)
(* frees the largest ids for reuse.  One worker per process makes passes:  *)
(* it lists the databases with operations above their watermark and, for   *)
(* each in turn, builds a segment, uploads it to the database's chat and   *)
(* marks it.  An exception ends the pass, a crash the process; both may    *)
(* strike between the upload and the mark.                                 *)
(*                                                                         *)
(* Document writes are taken one at a time here, JsonDb has them overlap.  *)
(* A collection's rules and validator are one value of Settings.           *)
(***************************************************************************)
EXTENDS JsonRows, FiniteSetsExt, SequencesExt

CONSTANTS
  Dbs,        \* databases, each with its Telegram chat
  Names,      \* collection names
  Settings,   \* rules and validator of a collection, as one value
  Default,    \* the settings of a new collection
  Writers,    \* principals: [path, app]
  Bodies,     \* data of the writes
  BatchLimit, \* lc_json_db_backup_batch_operations
  Broken,     \* databases whose chat refuses every upload; others may refuse one
  MaxOps,     \* bound: largest operation id
  MaxWrites,  \* bound: committed changes
  MaxDeletes, \* bound: collection deletions
  MaxFaults   \* bound: crashes and failed passes

VARIABLES
  colls,    \* collection id -> its row, or Absent
  docs,     \* collection id -> document id -> row
  ops,      \* json_operations: a set of [id, coll, op, body]
  mark,     \* json_backup_state: database -> last_operation_id
  segments, \* json_backup_segments: database -> ranges marked uploaded
  chat,     \* the LCDB1 messages in each database's chat, oldest first: [db, first, last, ops]
  worker,   \* the backup worker
  writes, deletes, faults \* how often things happened, for the bounds

store == <<colls, docs, ops>>
backup == <<mark, segments, chat, worker>>
vars == <<colls, docs, ops, mark, segments, chat, worker, writes, deletes, faults>>

CollRow == [db : Dbs, name : Names, settings : Settings]

ASSUME OpLogBackupAssumption ==
  /\ Default \in Settings
  /\ Absent \notin CollRow \cup Names
  /\ Bodies \subseteq Data
  /\ \A p \in Writers : p.app \in Apps \cup {None}
  /\ Broken \subseteq Dbs
  /\ BatchLimit \in Nat \ {0}
  /\ {MaxOps, MaxWrites, MaxDeletes, MaxFaults} \subseteq Nat

CollIds == 1..MaxOps
NoDocs == [d \in DocIds |-> Absent]
Existing == {k \in CollIds : colls[k] # Absent}

(* sqlite3's rowid for a new row of a table that holds the ids S.          *)
NextId(S) == Max(S \cup {0}) + 1
OpIds == {o.id : o \in ops}

Sleeping == [pc |-> "asleep", queue |-> <<>>, segment |-> None]

Init ==
  /\ colls = [k \in CollIds |-> Absent]
  /\ docs = [k \in CollIds |-> NoDocs]
  /\ ops = {}
  /\ mark = [b \in Dbs |-> 0]
  /\ segments = [b \in Dbs |-> {}]
  /\ chat = [b \in Dbs |-> <<>>]
  /\ worker = Sleeping
  /\ writes = 0 /\ deletes = 0 /\ faults = 0

-----------------------------------------------------------------------------
(* Changes *)

Log(k, op, body) ==
  ops' = ops \cup {[id |-> NextId(OpIds), coll |-> k, op |-> op, body |-> body]}

Counted ==
  /\ writes < MaxWrites
  /\ NextId(OpIds) =< MaxOps
  /\ writes' = writes + 1
  /\ UNCHANGED <<backup, deletes, faults>>

CreateCollection(b, name) ==
  LET k == NextId(Existing) IN
    /\ \A j \in Existing : ~(colls[j].db = b /\ colls[j].name = name)
    /\ k \in CollIds
    /\ colls' = [colls EXCEPT ![k] = [db |-> b, name |-> name, settings |-> Default]]
    /\ Log(k, "collection", [name |-> name])
    /\ Counted
    /\ UNCHANGED docs

ChangeSettings(k, s) ==
  /\ colls' = [colls EXCEPT ![k].settings = s]
  /\ Log(k, "rules", [settings |-> s])
  /\ Counted
  /\ UNCHANGED docs

WriteDocument(k, p, w) ==
  LET row == docs[k][w.id]
      new == NewRow(p, w, row)
  IN /\ Finds(w, row)
     /\ docs' = [docs EXCEPT ![k][w.id] = new]
     /\ Log(k, LoggedOp(w, row),
            [doc |-> w.id, data |-> w.data,
             owner |-> OpOwner(p, new)])
     /\ Counted
     /\ UNCHANGED colls

(* The cascade takes documents and operations; nothing is logged.          *)
DeleteCollection(k) ==
  /\ deletes < MaxDeletes
  /\ colls' = [colls EXCEPT ![k] = Absent]
  /\ docs' = [docs EXCEPT ![k] = NoDocs]
  /\ ops' = {o \in ops : o.coll # k}
  /\ deletes' = deletes + 1
  /\ UNCHANGED <<backup, writes, faults>>

-----------------------------------------------------------------------------
(* The worker *)

OpsOf(b) == {o \in ops : colls[o.coll].db = b}
Pending(b) == {o \in OpsOf(b) : o.id > mark[b]}

(* _databases_with_pending_operations, the oldest first; the LIMIT of the  *)
(* query is far above the number of databases and left out.                *)
Due == {b \in Dbs : Pending(b) # {}}
Oldest(b) == Min({o.id : o \in Pending(b)})
OldestFirst == SetToSortSeq(Due, LAMBDA x, y : Oldest(x) < Oldest(y))

ListPending ==
  /\ worker.pc = "asleep"
  /\ Due # {}
  /\ worker' = [worker EXCEPT !.pc = "busy", !.queue = OldestFirst]
  /\ UNCHANGED <<store, mark, segments, chat, writes, deletes, faults>>

(* Mutant: the newest operations are taken. *)
NewestOf(S) == {o \in S : Cardinality({p \in S : p.id > o.id}) < BatchLimit}

(* ORDER BY id LIMIT.                                                      *)
OldestOf(S) == {o \in S : Cardinality({p \in S : p.id < o.id}) < BatchLimit}

(* A segment carries each operation with its collection's row as it is now.*)
Segment(b) ==
  LET rows == OldestOf(Pending(b))
      ids == {o.id : o \in rows}
  IN [db |-> b, first |-> Min(ids), last |-> Max(ids),
      ops |-> {[row |-> o, meta |-> colls[o.coll]] : o \in rows}]

(* Mutant: a database with nothing left to send stays at the head. *)
BuildKeepsHead ==
  /\ worker.pc = "busy"
  /\ worker.queue # <<>>
  /\ LET b == Head(worker.queue) IN
       worker' = IF Pending(b) = {}
                   THEN worker
                   ELSE [worker EXCEPT !.pc = "built", !.segment = Segment(b)]
  /\ UNCHANGED <<store, mark, segments, chat, writes, deletes, faults>>

Build ==
  /\ worker.pc = "busy"
  /\ worker.queue # <<>>
  /\ LET b == Head(worker.queue) IN
       worker' = IF Pending(b) = {}
                   THEN [worker EXCEPT !.queue = Tail(@)]
                   ELSE [worker EXCEPT !.pc = "built", !.segment = Segment(b)]
  /\ UNCHANGED <<store, mark, segments, chat, writes, deletes, faults>>

Upload ==
  /\ worker.pc = "built"
  /\ worker.segment.db \notin Broken
  /\ chat' = [chat EXCEPT ![worker.segment.db] = Append(@, worker.segment)]
  /\ worker' = [worker EXCEPT !.pc = "sent"]
  /\ UNCHANGED <<store, mark, segments, writes, deletes, faults>>

(* send_file raises: backup_once is left, the other databases with it.     *)
Refused ==
  LET b == worker.segment.db IN
    /\ worker.pc = "built"
    /\ b \in Broken \/ faults < MaxFaults
    /\ worker' = Sleeping
    /\ faults' = IF b \in Broken THEN faults ELSE faults + 1
    /\ UNCHANGED <<store, mark, segments, chat, writes, deletes>>

Key(s) == <<s.first, s.last>>

(* Mutant: the watermark moves to the newest operation there is. *)
MarkNewest ==
  LET s == worker.segment IN
    /\ worker.pc = "sent"
    /\ segments' = [segments EXCEPT ![s.db] = @ \cup {Key(s)}]
    /\ mark' = [mark EXCEPT ![s.db] = Max({@} \cup {o.id : o \in OpsOf(s.db)})]
    /\ worker' = [worker EXCEPT !.pc = "busy", !.queue = Tail(@), !.segment = None]
    /\ UNCHANGED <<store, chat, writes, deletes, faults>>

(* Mutant: the segment is recorded and the watermark is not moved. *)
MarkSegmentOnly ==
  LET s == worker.segment IN
    /\ worker.pc = "sent"
    /\ segments' = [segments EXCEPT ![s.db] = @ \cup {Key(s)}]
    /\ worker' = [worker EXCEPT !.pc = "busy", !.queue = Tail(@), !.segment = None]
    /\ UNCHANGED <<store, mark, chat, writes, deletes, faults>>

MarkUploaded ==
  LET s == worker.segment IN
    /\ worker.pc = "sent"
    /\ segments' = [segments EXCEPT ![s.db] = @ \cup {Key(s)}]
    /\ mark' = [mark EXCEPT ![s.db] = Max({@, s.last})]
    /\ worker' = [worker EXCEPT !.pc = "busy", !.queue = Tail(@), !.segment = None]
    /\ UNCHANGED <<store, chat, writes, deletes, faults>>

EndPass ==
  /\ worker.pc = "busy"
  /\ worker.queue = <<>>
  /\ worker' = Sleeping
  /\ UNCHANGED <<store, mark, segments, chat, writes, deletes, faults>>

(* The process dies, the worker is cancelled or any call of it raises: the *)
(* rows and the messages stay, the pass is forgotten.                      *)
Interrupt ==
  /\ worker.pc # "asleep"
  /\ faults < MaxFaults
  /\ worker' = Sleeping
  /\ faults' = faults + 1
  /\ UNCHANGED <<store, mark, segments, chat, writes, deletes>>

Work == ListPending \/ Build \/ Upload \/ Refused \/ MarkUploaded \/ EndPass

(* Requests on the databases Ds by the principals Ps, with settings of Ss  *)
(* and bodies of Bs.                                                       *)
Request(Ds, Ss, Ps, Bs) ==
  \/ \E b \in Ds, name \in Names : CreateCollection(b, name)
  \/ \E k \in Existing :
       \/ \E s \in Ss : ChangeSettings(k, s)
       \/ \E p \in Ps, o \in Ops, d \in DocIds, data \in Bs :
            WriteDocument(k, p, [op |-> o, id |-> d,
                                 data |-> IF o = "delete" THEN NoData ELSE data])
       \/ DeleteCollection(k)

Next == Request(Dbs, Settings, Writers, Bodies) \/ Work \/ Interrupt

(* The loop of run(): every pass comes to its next step, and another pass  *)
(* follows it after the interval.                                          *)
Fairness == WF_vars(Work)
Spec == Init /\ [][Next]_vars /\ Fairness

=============================================================================
