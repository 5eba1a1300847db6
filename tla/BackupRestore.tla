---------------------------- MODULE BackupRestore ----------------------------
(***************************************************************************)
(* Restoring a database from the segments in its chat                      *)
(* (lcloud/userbot/db_restore.py), and what backup and restore promise     *)
(* together.  The restore runs offline, in one transaction on an empty     *)
(* target, so it is a function of the messages in the chat.                *)
(***************************************************************************)
EXTENDS OpLogBackup

(* Of the messages with one range the newest is kept; ranges that overlap  *)
(* are not recognised.                                                     *)
Deduped(messages) ==
  {messages[i] : i \in {i \in DOMAIN messages :
     \A j \in DOMAIN messages : j > i => Key(messages[j]) # Key(messages[i])}}

(* The operations of the segments, each with its segment.                  *)
Items(messages) == UNION {{s} \X s.ops : s \in Deduped(messages)}

(* They are sorted by id, and the sort is stable: those with one id come in *)
(* the order of their segments, by range.                                  *)
Sooner(x, y) ==
  \/ x[2].row.id < y[2].row.id
  \/ /\ x[2].row.id = y[2].row.id
     /\ \/ x[1].first < y[1].first
        \/ x[1].first = y[1].first /\ x[1].last < y[1].last
Before(items, x) == {y \in items : Sooner(y, x)}
Sorted(items) ==
  [i \in 1..Cardinality(items) |->
     CHOOSE x \in items : Cardinality(Before(items, x)) = i - 1]

Empty ==
  [ok       |-> TRUE,
   target   |-> [k \in CollIds |-> Absent],     \* collection_map
   settings |-> [n \in Names |-> Absent],       \* json_collections by name
   docs     |-> [n \in Names |-> NoDocs],
   known    |-> [i \in 1..MaxOps |-> Absent]]   \* json_operations

(* The first operation of a collection id decides which collection the     *)
(* restore fills for it, and gives that one the settings of its snapshot.  *)
Ensure(st, o) ==
  IF st.target[o.row.coll] # Absent THEN st
  ELSE [st EXCEPT !.target[o.row.coll] = o.meta.name,
                  !.settings[o.meta.name] = o.meta.settings]

Entry(row) == [op |-> row.op, id |-> row.body.doc, data |-> row.body.data, owner |-> row.body.owner]

Replayed(st, row, name) ==
  IF row.op = "rules" THEN [st EXCEPT !.settings[name] = row.body.settings]
  ELSE IF row.op \notin Ops THEN st
  ELSE IF CanReplay(st.docs[name], Entry(row))
    THEN [st EXCEPT !.docs[name][row.body.doc] = ReplayRow(st.docs[name][row.body.doc], Entry(row))]
  ELSE [st EXCEPT !.ok = FALSE]

(* An operation id that is already known must be the same operation on the *)
(* same document.                                                          *)
What(row) == <<row.op, IF row.op \in Ops THEN row.body.doc ELSE None>>
Recorded(st, row) ==
  IF st.known[row.id] = Absent THEN [st EXCEPT !.known[row.id] = What(row)]
  ELSE IF st.known[row.id] = What(row) THEN st
  ELSE [st EXCEPT !.ok = FALSE]

(* The first RestoreError rolls the whole restore back.                    *)
ReplayOne(st, o) ==
  IF ~st.ok THEN st
  ELSE LET e == Ensure(st, o)
       IN Recorded(Replayed(e, o.row, e.target[o.row.coll]), o.row)

Restore(messages) ==
  LET items == Items(messages)
      sorted == Sorted(items)
      after[i \in 0..Cardinality(items)] ==
        IF i = 0 THEN Empty ELSE ReplayOne(after[i-1], sorted[i][2])
  IN after[Cardinality(items)]

-----------------------------------------------------------------------------
(* Properties *)

TypeOK ==
  /\ colls \in [CollIds -> CollRow \cup {Absent}]
  /\ docs \in [CollIds -> [DocIds -> Row \cup {Absent}]]
  /\ \A o \in ops : o.id \in 1..MaxOps /\ colls[o.coll] # Absent
  /\ \A o, p \in ops : o.id = p.id => o = p
  /\ mark \in [Dbs -> 0..MaxOps]
  /\ \A b \in Dbs : segments[b] \subseteq (1..MaxOps) \X (1..MaxOps)
  /\ worker.pc \in {"asleep", "busy", "built", "sent"}

(* An operation is safe when its database's chat holds it.                 *)
InChat(b, o) == \E i \in DOMAIN chat[b] : \E e \in chat[b][i].ops : e.row = o

(* Everything at or below the watermark is in the chat, whatever failed or *)
(* crashed between the upload and the mark.                                *)
MarkedIsInChat ==
  \A b \in Dbs : \A o \in OpsOf(b) : o.id =< mark[b] => InChat(b, o)

(* lag_operations of the status endpoint.                                  *)
Lag(b) == Max({0, Max({o.id : o \in OpsOf(b)} \cup {0}) - mark[b]})

(* "operations still waiting for Telegram backup": none waits at lag 0.    *)
LagCountsWaiting == \A b \in Dbs : Lag(b) = 0 => \A o \in OpsOf(b) : InChat(b, o)

(* Marking a segment never meets the unique constraint on its range, so    *)
(* the worker cannot be stuck on a segment it uploads again and again.     *)
MarkNeverConflicts ==
  worker.pc = "sent" => Key(worker.segment) \notin segments[worker.segment.db]

(* Whatever crashes left in the chat, segments uploaded twice or ranges    *)
(* that overlap, it can be restored.                                       *)
AlwaysRestorable == \A b \in Dbs : Restore(chat[b]).ok

(* The collection of a name, and what a database holds by name.            *)
Named(b, n) == {k \in Existing : colls[k].db = b /\ colls[k].name = n}
SameContent(row, copy) ==
  \/ row = Absent /\ copy = Absent
  \/ /\ row # Absent /\ copy # Absent
     /\ row.data = copy.data /\ row.deleted = copy.deleted /\ row.owner = copy.owner
     /\ row.version =< copy.version

RestoresTo(b, n, r) ==
  IF Named(b, n) = {}
    THEN r.settings[n] = Absent
    ELSE LET k == CHOOSE k \in Named(b, n) : TRUE IN
           /\ r.settings[n] = colls[k].settings
           /\ \A d \in DocIds : SameContent(docs[k][d], r.docs[n][d])

(* A database that is backed up is restored to what it was: its            *)
(* collections, their settings, and of every document the data, the owner  *)
(* and whether it is deleted.  (Versions may come out larger: an operation *)
(* in two overlapping segments is replayed twice.)                         *)
Faithful(b, r) == Lag(b) = 0 => r.ok /\ \A n \in Names : RestoresTo(b, n, r)
RestoreIsFaithful == \A b \in Dbs : Faithful(b, Restore(chat[b]))

(* Nothing is left above the watermark of a database whose chat takes      *)
(* uploads; and while no collection was deleted, the chat holds every one  *)
(* of its operations.  (After a deletion ids come again: an operation at   *)
(* or below the watermark waits for nothing and is never uploaded.)        *)
NothingAbove == \A b \in Dbs \ Broken : Pending(b) = {}
EveryOpInChat == \A b \in Dbs \ Broken : \A o \in OpsOf(b) : InChat(b, o)
UploadedAll == NothingAbove /\ (deletes = 0 => EveryOpInChat)

=============================================================================
