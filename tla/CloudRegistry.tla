--------------------------- MODULE CloudRegistry ---------------------------
(***************************************************************************)
(* Clouds: supergroups of Telegram whose description holds a signed        *)
(* marker, and the rows of the clouds table that track them                *)
(* (lcloud/api/v2_clouds.py, clouds.py, json_databases.py,                 *)
(* lcloud/userbot/clouds.py, scan.py, inchat.py, commands.py).             *)
(*                                                                         *)
(* Creating a cloud is a call that makes the chat, a call that marks it    *)
(* and an INSERT; connecting an existing group is a SELECT, a mark and an  *)
(* INSERT; disconnecting is a SELECT, a call that clears the marker and a  *)
(* DELETE by id; an upload is a SELECT, a call that sends and an INSERT    *)
(* of a row that refers to the cloud by id; and at startup a scan walks    *)
(* all dialogs and inserts what it finds marked.  Everything may overlap,  *)
(* Telegram's calls may fail before or after they took effect, and ids of  *)
(* deleted rows are given again (INTEGER PRIMARY KEY, no AUTOINCREMENT).   *)
(*                                                                         *)
(* The scan is one more request, so that with one client nothing overlaps. *)
(* Names, signatures and confirmations are left out: a marker is there or  *)
(* not.  Groups do not lose their markers by other means.                  *)
(***************************************************************************)
EXTENDS Integers, FiniteSetsExt, Functions

CONSTANTS
  Clients,    \* requests, commands and the scan
  Chats,      \* supergroups there are or can be
  Users,      \* users of the v2 interface
  Nobody,     \* owner_user_id NULL: rows the administrator or a scan made
  DbNames,
  NoCloud,    \* json_databases.cloud_id NULL
  MaxInserts, \* bound: rows inserted into clouds
  MaxUploads, \* bound: uploads
  MaxFaults,  \* bound: failed calls of Telegram
  MaxCrashes, \* bound: crashes
  MaxScans    \* bound: scans

VARIABLES
  clouds,  \* id -> [chat, user]
  dbs,     \* rows [user, name, cloud] of json_databases
  files,   \* rows [cloud, chat] of files: the row's cloud, the chat the message is in
  chats,   \* chat -> "absent", "plain" or "marked"
  task,    \* client -> what its request is at
  steady,  \* history: chats the scan under way must not miss
  inserts, uploads, faults, crashes, scans \* how often things happened

vars == <<clouds, dbs, files, chats, task, steady,
          inserts, uploads, faults, crashes, scans>>
tables == <<clouds, dbs, files>>
counters == <<inserts, uploads, faults, crashes, scans>>

ASSUME CloudRegistryAssumption ==
  /\ Nobody \notin Users
  /\ NoCloud \notin Nat
  /\ {MaxInserts, MaxUploads, MaxFaults, MaxCrashes, MaxScans} \subseteq Nat

Idle == [at |-> "idle"]
At(c, place) == task[c].at = place
Goto(c, t) == task' = [task EXCEPT ![c] = t]

Init ==
  /\ clouds = <<>>
  /\ dbs = {}
  /\ files = {}
  /\ chats \in [Chats -> {"absent", "plain"}]
  /\ task = [c \in Clients |-> Idle]
  /\ steady = {}
  /\ inserts = 0 /\ uploads = 0 /\ faults = 0 /\ crashes = 0 /\ scans = 0

Tracks(id, ch) == clouds[id].chat = ch
RowOf(ch) == {id \in DOMAIN clouds : Tracks(id, ch)}

(* SQLite's rowid: one more than the largest there is.                     *)
NextId == 1 + Max({0} \cup DOMAIN clouds)
WithRow(row) ==
  [id \in DOMAIN clouds \cup {NextId} |-> IF id = NextId THEN row ELSE clouds[id]]

(* Whose rows a request sees: a user their own, the administrator all.     *)
Sees(u, id) == u = Nobody \/ clouds[id].user = u

-----------------------------------------------------------------------------
(* Telegram: a call that raises may have taken effect. *)

Described(ch, to) == chats' = [chats EXCEPT ![ch] = to]

Fails(effect) ==
  /\ faults < MaxFaults
  /\ faults' = faults + 1
  /\ effect \/ UNCHANGED chats
  /\ UNCHANGED <<inserts, uploads, crashes, scans>>

-----------------------------------------------------------------------------
(* Creating a cloud, with a database or without *)

(* create_database looks for its name first; the other routers do not ask. *)
AskCloud(c) ==
  /\ At(c, "idle")
  /\ inserts < MaxInserts
  /\ \E u \in Users \cup {Nobody}, n \in DbNames \cup {"none"} :
       /\ u = Nobody => n = "none"
       /\ ~ \E d \in dbs : d.user = u /\ d.name = n
       /\ Goto(c, [at |-> "creating", user |-> u, name |-> n])
  /\ UNCHANGED <<tables, chats, steady, counters>>

(* CreateChannelRequest                                                    *)
CreateChat(c) ==
  /\ At(c, "creating")
  /\ \E ch \in Chats :
       /\ chats[ch] = "absent"
       /\ Described(ch, "plain")
       /\ Goto(c, [at |-> "marking", user |-> task[c].user, name |-> task[c].name, chat |-> ch])
  /\ UNCHANGED <<tables, steady, counters>>

CreateChatFails(c) ==
  /\ At(c, "creating")
  /\ \E ch \in Chats : chats[ch] = "absent" /\ Fails(Described(ch, "plain"))
  /\ Goto(c, Idle)
  /\ UNCHANGED <<tables, steady>>

(* EditChatAboutRequest, for a new chat or one that is to be connected.    *)
Mark(c) ==
  /\ At(c, "marking")
  /\ Described(task[c].chat, "marked")
  /\ Goto(c, [task[c] EXCEPT !.at = "inserting"])
  /\ UNCHANGED <<tables, steady, counters>>

MarkFails(c) ==
  /\ At(c, "marking")
  /\ Fails(Described(task[c].chat, "marked"))
  /\ Goto(c, Idle)
  /\ UNCHANGED <<tables, steady>>

NewDatabase(t, id) ==
  IF t.name = "none" THEN {} ELSE {[user |-> t.user, name |-> t.name, cloud |-> id]}

(* The rows of the cloud and the database are one transaction: 500 and     *)
(* neither when the chat or the name is there already.                     *)
InsertRow(c) ==
  LET t == task[c]
      clash == RowOf(t.chat) # {} \/ (\E d \in dbs : d.user = t.user /\ d.name = t.name)
  IN
  /\ At(c, "inserting")
  /\ \/ clash /\ UNCHANGED <<clouds, dbs, inserts>>
     \/ /\ ~clash
        /\ clouds' = WithRow([chat |-> t.chat, user |-> t.user])
        /\ dbs' = dbs \cup NewDatabase(t, NextId)
        /\ inserts' = inserts + 1
  /\ Goto(c, Idle)
  /\ UNCHANGED <<files, chats, steady, uploads, faults, crashes, scans>>

(* get_default_database: a row without a cloud, at the first use.          *)
AddDefaultDatabase(u) ==
  /\ ~ \E d \in dbs : d.user = u
  /\ dbs' = {[user |-> u, name |-> "default", cloud |-> NoCloud]} \cup dbs
  /\ UNCHANGED <<clouds, files, chats, task, steady, counters>>

(* /connect and /lc_connect: a row that is there ends the command.         *)
Connect(c) ==
  /\ At(c, "idle")
  /\ inserts < MaxInserts
  /\ \E ch \in Chats :
       /\ chats[ch] # "absent"
       /\ RowOf(ch) = {}
       /\ Goto(c, [at |-> "marking", user |-> Nobody, name |-> "none", chat |-> ch])
  /\ UNCHANGED <<tables, chats, steady, counters>>

-----------------------------------------------------------------------------
(* Disconnecting *)

Locate(c) ==
  /\ At(c, "idle")
  /\ \E u \in Users \cup {Nobody}, id \in DOMAIN clouds :
       /\ Sees(u, id)
       /\ Goto(c, [at |-> "clearing", user |-> u, id |-> id, chat |-> clouds[id].chat])
  /\ UNCHANGED <<tables, chats, steady, counters>>

(* Mutant: the marker stays where it is. *)
ClearNothing(c) ==
  /\ At(c, "clearing")
  /\ Goto(c, [task[c] EXCEPT !.at = "deleting"])
  /\ UNCHANGED <<tables, chats, steady, counters>>

ClearMarker(c) ==
  /\ At(c, "clearing")
  /\ Described(task[c].chat, "plain")
  /\ steady' = steady \ {task[c].chat}
  /\ Goto(c, [task[c] EXCEPT !.at = "deleting"])
  /\ UNCHANGED <<tables, counters>>

(* Logged; the row is deleted anyway.                                      *)
ClearMarkerFails(c) ==
  /\ At(c, "clearing")
  /\ Fails(Described(task[c].chat, "plain"))
  /\ steady' = steady \ {task[c].chat}
  /\ Goto(c, [task[c] EXCEPT !.at = "deleting"])
  /\ UNCHANGED tables

(* Mutant: the reference of a file does not hold the row. *)
ReferredNever(id) == id = NoCloud
Referred(id) == \E f \in files : f.cloud = id

(* Mutant: databases keep the id of the cloud. *)
DetachedNot(id) == dbs
(* json_databases.cloud_id ON DELETE SET NULL                              *)
Detached(id) == {[d EXCEPT !.cloud = IF @ = id THEN NoCloud ELSE @] : d \in dbs}

(* The DELETE is by id; files refer to the row without a rule of their     *)
(* own, so that it fails while there is one.                               *)
DeleteRow(c) ==
  LET id == task[c].id IN
  /\ At(c, "deleting")
  /\ IF id \in DOMAIN clouds /\ ~Referred(id)
     THEN /\ clouds' = Restrict(clouds, DOMAIN clouds \ {id})
          /\ dbs' = Detached(id)
          /\ steady' = steady \ {clouds[id].chat}
     ELSE UNCHANGED <<clouds, dbs, steady>>
  /\ Goto(c, Idle)
  /\ UNCHANGED <<files, chats, counters>>

-----------------------------------------------------------------------------
(* Uploading *)

(* _get_cloud_for_user                                                     *)
LocateForUpload(c) ==
  /\ At(c, "idle")
  /\ uploads < MaxUploads
  /\ uploads' = uploads + 1
  /\ \E u \in Users \cup {Nobody}, id \in DOMAIN clouds :
       /\ Sees(u, id)
       /\ Goto(c, [at |-> "uploading", id |-> id, chat |-> clouds[id].chat])
  /\ UNCHANGED <<tables, chats, steady, inserts, faults, crashes, scans>>

(* Sent to the chat that was located, filed under the id that was located. *)
FileUpload(c) ==
  /\ At(c, "uploading")
  /\ files' = IF task[c].id \in DOMAIN clouds
              THEN files \cup {[cloud |-> task[c].id, chat |-> task[c].chat]}
              ELSE files
  /\ Goto(c, Idle)
  /\ UNCHANGED <<clouds, dbs, chats, steady, counters>>

-----------------------------------------------------------------------------
(* The scan *)

Marked == {ch \in Chats : chats[ch] = "marked"}

StartScan(c) ==
  /\ At(c, "idle")
  /\ scans < MaxScans
  /\ ~ \E d \in Clients : task[d].at \in {"dialogs", "found", "looked", "scanned"}
  /\ scans' = scans + 1
  /\ Goto(c, [at |-> "dialogs", left |-> {ch \in Chats : chats[ch] # "absent"}])
  /\ steady' = Marked
  /\ UNCHANGED <<tables, chats, inserts, uploads, faults, crashes>>

(* GetFullChannelRequest of the next dialog; one without a marker is       *)
(* passed over.                                                            *)
ReadDialog(c) ==
  /\ At(c, "dialogs")
  /\ \E ch \in task[c].left :
       LET left == task[c].left \ {ch} IN
         Goto(c, IF chats[ch] = "marked" THEN [at |-> "found", left |-> left, chat |-> ch]
                 ELSE [at |-> "dialogs", left |-> left])
  /\ UNCHANGED <<tables, chats, steady, counters>>

(* Mutant: a dialog that cannot be read ends the walk. *)
ReadDialogStops(c) ==
  /\ At(c, "dialogs")
  /\ Fails(UNCHANGED chats)
  /\ \E ch \in task[c].left :
       /\ steady' = steady \ {ch}
       /\ Goto(c, [at |-> "dialogs", left |-> {}])
  /\ UNCHANGED tables

(* Logged; the scan continues with the next dialog.                        *)
ReadDialogFails(c) ==
  /\ At(c, "dialogs")
  /\ Fails(UNCHANGED chats)
  /\ \E ch \in task[c].left :
       /\ steady' = steady \ {ch}
       /\ Goto(c, [at |-> "dialogs", left |-> task[c].left \ {ch}])
  /\ UNCHANGED tables

LookUp(c) ==
  /\ At(c, "found")
  /\ Goto(c, [at |-> "looked", left |-> task[c].left, chat |-> task[c].chat,
              row |-> RowOf(task[c].chat)])
  /\ UNCHANGED <<tables, chats, steady, counters>>

(* A row that was not there is inserted, for nobody; the unique chat_id    *)
(* may refuse it, and the exception ends the scan.  Of a row that was      *)
(* there the name and the marker are written; when it is gone, an UPDATE   *)
(* ends the scan too, and nothing that differs is no UPDATE.               *)
Record(c) ==
  LET t == task[c]
      next == [at |-> "dialogs", left |-> t.left]
  IN
  /\ At(c, "looked")
  /\ \/ /\ t.row = {} /\ RowOf(t.chat) = {}
        /\ clouds' = WithRow([chat |-> t.chat, user |-> Nobody])
        /\ inserts' = inserts + 1
        /\ Goto(c, next)
        /\ UNCHANGED steady
     \/ /\ t.row = {} /\ RowOf(t.chat) # {}
        /\ Goto(c, Idle)
        /\ steady' = {}
        /\ UNCHANGED <<clouds, inserts>>
     \/ /\ t.row # {}
        /\ \/ Goto(c, next) /\ UNCHANGED steady
           \/ ~(t.row \subseteq DOMAIN clouds) /\ Goto(c, Idle) /\ steady' = {}
        /\ UNCHANGED <<clouds, inserts>>
  /\ UNCHANGED <<dbs, files, chats, uploads, faults, crashes, scans>>

EndScan(c) ==
  /\ At(c, "dialogs")
  /\ task[c].left = {}
  /\ Goto(c, Idle)
  /\ steady' = {}
  /\ UNCHANGED <<tables, chats, counters>>

Crash ==
  /\ crashes < MaxCrashes
  /\ crashes' = crashes + 1
  /\ task' = [c \in Clients |-> Idle]
  /\ steady' = {}
  /\ UNCHANGED <<tables, chats, inserts, uploads, faults, scans>>

Next ==
  \/ \E c \in Clients :
       \/ AskCloud(c) \/ CreateChat(c) \/ CreateChatFails(c)
       \/ Connect(c) \/ Mark(c) \/ MarkFails(c) \/ InsertRow(c)
       \/ Locate(c) \/ ClearMarker(c) \/ ClearMarkerFails(c) \/ DeleteRow(c)
       \/ LocateForUpload(c) \/ FileUpload(c)
       \/ StartScan(c) \/ ReadDialog(c) \/ ReadDialogFails(c) \/ LookUp(c)
       \/ Record(c) \/ EndScan(c)
  \/ \E u \in Users : AddDefaultDatabase(u)
  \/ Crash

Spec == Init /\ [][Next]_vars

-----------------------------------------------------------------------------
(* Properties *)

Database == [user : Users, name : DbNames \cup {"default"}, cloud : {NoCloud} \cup Nat]

TypeOK ==
  /\ \A id \in DOMAIN clouds :
       id \in Nat \ {0} /\ clouds[id] \in [chat : Chats, user : Users \cup {Nobody}]
  /\ dbs \subseteq Database
  /\ files \subseteq [cloud : DOMAIN clouds, chat : Chats]
  /\ chats \in [Chats -> {"absent", "plain", "marked"}]
  /\ \A c \in Clients : task[c].at \in
       {"idle", "creating", "marking", "inserting", "clearing", "deleting",
        "uploading", "dialogs", "found", "looked"}

Quiet == \A c \in Clients : At(c, "idle")

(* A database is backed up to a cloud of its own owner, though the cloud's *)
(* row may be deleted and its id given to another user's cloud meanwhile.  *)
DatabaseCloudIsOwners ==
  \A d \in dbs : d.cloud # NoCloud =>
    d.cloud \in DOMAIN clouds /\ clouds[d.cloud].user = d.user

(* A scan that walks to its end leaves no marked chat untracked, except    *)
(* those it could not read or that were disconnected meanwhile: markers    *)
(* stay the source from which the table can be recovered.                  *)
ScanFindsAll ==
  [][\A c \in Clients : EndScan(c) => \A ch \in steady : RowOf(ch) # {}]_vars

(* With one request at a time and Telegram answering, the rows are the     *)
(* marked chats, but for clouds that hold files: of those the marker is    *)
(* cleared and the row stays.                                              *)
RowsAreMarked ==
  Quiet /\ faults = 0 /\ crashes = 0 =>
    /\ \A ch \in Marked : RowOf(ch) # {}
    /\ \A id \in DOMAIN clouds : clouds[id].chat \in Marked \/ Referred(id)

(* A row disappears only by a request of somebody who sees it, and the     *)
(* chat that was located is the one whose row goes.                        *)
OwnRowsOnly ==
  [][\A id \in DOMAIN clouds : id \notin DOMAIN clouds' =>
       \E c \in Clients : At(c, "deleting") /\ Tracks(id, task[c].chat)
                          /\ task[c].user \in {Nobody, clouds[id].user}]_vars

(* The message of a listed file is in the chat its cloud tracks, where a   *)
(* download looks for it.                                                  *)
FileInItsChat ==
  \A f \in files : f.cloud \in DOMAIN clouds /\ Tracks(f.cloud, f.chat)

(* "if marker clear fails (e.g., we lost admin in the chat), the DB row is *)
(* still removed so the UI no longer shows the cloud"                      *)
DisconnectRemovesRow ==
  [][\A c \in Clients : DeleteRow(c) => task[c].id \notin DOMAIN clouds']_vars

=============================================================================
