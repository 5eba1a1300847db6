------------------------------ MODULE FileStore ------------------------------
(***************************************************************************)
(* The files of one cloud: rows of the files table, messages of the        *)
(* cloud's Telegram chat, and the bytes each user is charged               *)
(* (lcloud/api/v2_files.py, files.py, storage_public.py,                   *)
(* lcloud/auth/storage_quota.py, lcloud/userbot/handlers.py).              *)
(*                                                                         *)
(* An upload checks the quota, sends the message, looks for the live row   *)
(* of the same name, commits the new row with the old one superseded, and  *)
(* charges the user; a deletion reads the row, deletes the message, marks  *)
(* the row and releases the bytes.  Every arrow is an await, and every     *)
(* step a transaction or a call of Telegram of its own.  Three routers     *)
(* share the rows:                                                         *)
(*   "v2"   the users' own, admins see everything,                         *)
(*   "key"  a publishable storage key, acting as the cloud's owner,        *)
(*   "v1"   the administrator's, which knows nothing of users and quotas.  *)
(* A document dropped into the chat from another client is ingested.       *)
(*                                                                         *)
(* The message a client sends is taken not to come back to it as an event. *)
(* Bytes, hashes, signatures and compression are left out: a file has a    *)
(* name and the size it is stored with.                                    *)
(***************************************************************************)
EXTENDS Integers, SequencesExt, FiniteSetsExt

CONSTANTS
  Clients,    \* requests in progress at one time
  Paths,      \* the routers in use, a subset of {"v2", "key", "v1"}
  Users,
  Admins,     \* users with the role admin
  CloudOwner, \* clouds.owner_user_id
  Nobody,     \* owner_user_id NULL
  Names,
  Sizes,      \* size_bytes
  Quota,      \* storage_quota_bytes
  MaxMessages, \* bound: messages sent to the chat
  MaxDrops,   \* bound: documents dropped into the chat
  MaxRenames, \* bound: renames
  MaxFaults,  \* bound: failed calls of Telegram
  MaxCrashes, \* bound: crashes
  MaxSums     \* bound: recomputations

VARIABLES
  files,    \* the files table, in id order; rows are never removed
  chat,     \* messages of the chat
  inbox,    \* events of dropped documents, not handled yet
  used,     \* user -> storage_used_bytes
  task,     \* client -> what its request is at
  total,    \* what the operator's recompute_used has summed up, or Nothing
  messages, drops, renames, faults, crashes, sums \* how often things happened

vars == <<files, chat, inbox, used, task, total, messages,
          drops, renames, faults, crashes, sums>>
counters == <<drops, renames, faults, crashes, sums>>

(* An upload has a largest size, LC_MAX_FILE_BYTES.                        *)
ASSUME FileStoreAssumption ==
  /\ Clients # {} /\ IsFiniteSet(Clients)
  /\ Sizes # {} /\ IsFiniteSet(Sizes)
  /\ Paths \subseteq {"v2", "key", "v1"}
  /\ Admins \subseteq Users
  /\ CloudOwner \in Users
  /\ Nobody \notin Users
  /\ Sizes \subseteq Nat \ {0}
  /\ {Quota, MaxMessages, MaxDrops, MaxRenames, MaxFaults, MaxCrashes, MaxSums} \subseteq Nat

Nothing == [user |-> Nobody]
Idle == [at |-> "idle"]
At(c, place) == task[c].at = place
Goto(c, t) == task' = [task EXCEPT ![c] = t]

Init ==
  /\ files = <<>>
  /\ chat = {}
  /\ inbox = {}
  /\ used = [u \in Users |-> 0]
  /\ task = [c \in Clients |-> Idle]
  /\ total = Nothing
  /\ messages = 0 /\ drops = 0 /\ renames = 0 /\ faults = 0 /\ crashes = 0 /\ sums = 0

Live == {i \in DOMAIN files : files[i].live}
OwnedBy(u) == {i \in DOMAIN files : files[i].owner = u}
Bytes(S) == MapThenSumSet(LAMBDA i : files[i].size, S)

(* Who the routers serve in this cloud, and which rows they let them touch.*)
Serves(path, u) ==
  CASE path = "v2"  -> u \in Admins \cup {CloudOwner}
    [] path = "key" -> u = CloudOwner
    [] path = "v1"  -> u = Nobody
MayTouch(path, u, row) ==
  \/ path = "v1"
  \/ row.owner = u
  \/ path = "v2" /\ u \in Admins

-----------------------------------------------------------------------------
(* Uploads *)

(* Mutant: the size of the new file is not counted. *)
FitsUsedOnly(u, size) == used[u] =< Quota
(* assert_can_store *)
Fits(u, size) == used[u] + size =< Quota

Room == messages + Cardinality({c \in Clients : At(c, "checked")}) < MaxMessages

Check(c) ==
  /\ At(c, "idle")
  /\ Room
  /\ \E path \in Paths, u \in Users \cup {Nobody}, n \in Names, s \in Sizes :
       /\ Serves(path, u)
       /\ path # "v1" => Fits(u, s)
       /\ Goto(c, [at |-> "checked", path |-> path, user |-> u, name |-> n, size |-> s,
                   message |-> 0, previous |-> {}])
  /\ UNCHANGED <<files, chat, inbox, used, total, messages, counters>>

(* Mutant: a call of Telegram that raised is taken for one that succeeded. *)
SendUnchecked(c) ==
  /\ At(c, "checked")
  /\ messages' = messages + 1
  /\ chat' \in {chat, chat \cup {messages'}}
  /\ Goto(c, [task[c] EXCEPT !.at = "sent", !.message = messages'])
  /\ UNCHANGED <<files, inbox, used, total, counters>>

(* send_file and edit_message of the caption.                              *)
Send(c) ==
  /\ At(c, "checked")
  /\ messages' = messages + 1
  /\ chat' = chat \cup {messages'}
  /\ Goto(c, [task[c] EXCEPT !.at = "sent", !.message = messages'])
  /\ UNCHANGED <<files, inbox, used, total, counters>>

(* 502: send_file raised, or the edit did and the message stays.           *)
SendFails(c) ==
  /\ At(c, "checked")
  /\ faults < MaxFaults
  /\ faults' = faults + 1
  /\ \/ UNCHANGED <<chat, messages>>
     \/ messages' = messages + 1 /\ chat' = chat \cup {messages'}
  /\ Goto(c, Idle)
  /\ UNCHANGED <<files, inbox, used, total, drops, renames, crashes, sums>>

(* The live rows of the name, as the router selects them.                  *)
SameName(t) ==
  {i \in Live : files[i].name = t.name /\ (t.path = "key" => files[i].owner = t.user)}

(* scalar_one_or_none raises when there are two: 500, the message stays.   *)
FindPrevious(c) ==
  /\ At(c, "sent")
  /\ LET S == IF task[c].path = "v1" THEN {} ELSE SameName(task[c]) IN
       Goto(c, IF \E i, j \in S : i # j THEN Idle
               ELSE [task[c] EXCEPT !.at = "found", !.previous =
                       {i \in S : MayTouch(task[c].path, task[c].user, files[i])}])
  /\ UNCHANGED <<files, chat, inbox, used, total, messages, counters>>

NewRow(t) ==
  [owner |-> t.user, name |-> t.name, size |-> t.size, message |-> t.message,
   live |-> TRUE, replaces |-> t.previous]

(* Mutant: the row of the same name stays live. *)
SupersedeNothing(rows, previous) == rows
Supersede(rows, previous) ==
  [i \in DOMAIN rows |->
     IF i \in previous THEN [rows[i] EXCEPT !.live = FALSE] ELSE rows[i]]

CommitRow(c) ==
  /\ At(c, "found")
  /\ files' = Append(Supersede(files, task[c].previous), NewRow(task[c]))
  /\ Goto(c, IF task[c].path = "v1" THEN Idle ELSE [task[c] EXCEPT !.at = "committed"])
  /\ UNCHANGED <<chat, inbox, used, total, messages, counters>>

(* increment_used: one UPDATE adds to the column.                          *)
Charge(c) ==
  /\ At(c, "committed")
  /\ used' = [used EXCEPT ![task[c].user] = @ + task[c].size]
  /\ Goto(c, Idle)
  /\ UNCHANGED <<files, chat, inbox, total, messages, counters>>

-----------------------------------------------------------------------------
(* Deletions *)

(* Mutant: superseded and deleted rows are found as well. *)
DeletableAnyRow(path, u) == {i \in DOMAIN files : MayTouch(path, u, files[i])}
Deletable(path, u) == {i \in Live : MayTouch(path, u, files[i])}

FindFile(c) ==
  /\ At(c, "idle")
  /\ \E path \in Paths, u \in Users \cup {Nobody} :
       /\ Serves(path, u)
       /\ \E i \in Deletable(path, u) :
            Goto(c, [at |-> "deleting", path |-> path, file |-> i])
  /\ UNCHANGED <<files, chat, inbox, used, total, messages, counters>>

(* Mutant: the message is left where it is. *)
KeepMessage(c) ==
  /\ At(c, "deleting")
  /\ Goto(c, [task[c] EXCEPT !.at = "emptied"])
  /\ UNCHANGED <<files, chat, inbox, used, total, messages, counters>>

DeleteMessage(c) ==
  /\ At(c, "deleting")
  /\ chat' = chat \ {files[task[c].file].message}
  /\ Goto(c, [task[c] EXCEPT !.at = "emptied"])
  /\ UNCHANGED <<files, inbox, used, total, messages, counters>>

(* Telegram refuses; the row is deleted anyway.                            *)
DeleteMessageFails(c) ==
  /\ At(c, "deleting")
  /\ faults < MaxFaults
  /\ faults' = faults + 1
  /\ Goto(c, [task[c] EXCEPT !.at = "emptied"])
  /\ UNCHANGED <<files, chat, inbox, used, total, messages, drops, renames, crashes, sums>>

(* UPDATE ... WHERE deleted_at IS NULL; v1 and rows of nobody end here.    *)
DeleteRow(c) ==
  /\ At(c, "emptied")
  /\ LET i == task[c].file IN
       /\ files' = [files EXCEPT ![i].live = FALSE]
       /\ Goto(c, IF task[c].path = "v1" \/ files[i].owner = Nobody THEN Idle
                  ELSE [task[c] EXCEPT !.at = "deleted"])
  /\ UNCHANGED <<chat, inbox, used, total, messages, counters>>

Release(c) ==
  /\ At(c, "deleted")
  /\ LET row == files[task[c].file] IN
       used' = [used EXCEPT ![row.owner] = @ - row.size]
  /\ Goto(c, Idle)
  /\ UNCHANGED <<files, chat, inbox, total, messages, counters>>

-----------------------------------------------------------------------------
(* The administrator, other Telegram clients, the operator *)

Rename(i, n) ==
  /\ renames < MaxRenames
  /\ renames' = renames + 1
  /\ "v1" \in Paths
  /\ files' = [files EXCEPT ![i].name = n]
  /\ UNCHANGED <<chat, inbox, used, task, total, messages, drops, faults, crashes, sums>>

DropDocument ==
  /\ drops < MaxDrops
  /\ Room
  /\ drops' = drops + 1
  /\ messages' = messages + 1
  /\ chat' = chat \cup {messages'}
  /\ \E n \in Names, s \in Sizes :
       inbox' = inbox \cup {[message |-> messages', name |-> n, size |-> s]}
  /\ UNCHANGED <<files, used, task, total, renames, faults, crashes, sums>>

(* The handler of the event; a row of nobody, charged to nobody.           *)
Ingest ==
  /\ \E m \in inbox :
       /\ inbox' = inbox \ {m}
       /\ files' = Append(files, [owner |-> Nobody, name |-> m.name, size |-> m.size,
                                 message |-> m.message, live |-> TRUE, replaces |-> {}])
  /\ UNCHANGED <<chat, used, task, total, messages, counters>>

(* recompute_used, run beside the server: a SELECT, then an UPDATE.        *)
SumUp(u) ==
  /\ total = Nothing
  /\ sums < MaxSums
  /\ sums' = sums + 1
  /\ total' = [user |-> u, bytes |-> Bytes(Live \cap OwnedBy(u))]
  /\ UNCHANGED <<files, chat, inbox, used, task, messages, drops, renames, faults, crashes>>

Recompute ==
  /\ total # Nothing
  /\ used' = [used EXCEPT ![total.user] = total.bytes]
  /\ total' = Nothing
  /\ UNCHANGED <<files, chat, inbox, task, messages, counters>>

Crash ==
  /\ crashes < MaxCrashes
  /\ crashes' = crashes + 1
  /\ task' = [c \in Clients |-> Idle]
  /\ inbox' = {}
  /\ UNCHANGED <<files, chat, used, total, messages, drops, renames, faults, sums>>

Next ==
  \/ \E c \in Clients :
       \/ Check(c) \/ Send(c) \/ SendFails(c)
       \/ FindPrevious(c) \/ CommitRow(c) \/ Charge(c)
       \/ FindFile(c) \/ DeleteMessage(c) \/ DeleteMessageFails(c)
       \/ DeleteRow(c) \/ Release(c)
  \/ \E i \in Live, n \in Names : Rename(i, n)
  \/ DropDocument \/ Ingest
  \/ \E u \in Users : SumUp(u)
  \/ Recompute \/ Crash

Spec == Init /\ [][Next]_vars

-----------------------------------------------------------------------------
(* Properties *)

Row == [owner : Users \cup {Nobody}, name : Names, size : Sizes,
        message : 1..messages, live : BOOLEAN, replaces : SUBSET DOMAIN files]

TypeOK ==
  /\ files \in Seq(Row)
  /\ chat \subseteq 1..messages
  /\ \A m \in inbox : m.message \in chat
  /\ used \in [Users -> Int]
  /\ \A c \in Clients : task[c].at \in
       {"idle", "checked", "sent", "found", "committed",
        "deleting", "emptied", "deleted"}
  /\ total = Nothing \/ total \in [user : Users, bytes : Nat]

Quiet == \A c \in Clients : At(c, "idle")
LiveBytes(u) == Bytes(Live \cap OwnedBy(u))

(* A file that is listed can be downloaded: its message is in the chat,    *)
(* unless a request is just deleting it.  Whatever requests overlap and    *)
(* whichever calls of Telegram fail; a crash in the middle of a deletion   *)
(* leaves a listed file without its message.                               *)
ListedIsStored ==
  crashes = 0 => \A i \in Live :
    \/ files[i].message \in chat
    \/ \E c \in Clients : At(c, "emptied") /\ task[c].file = i

(* Uploads that passed the check before others were charged can take a     *)
(* user over the quota, but by no more than a file for each other request; *)
(* unless a recomputation counted rows that were charged again after it.   *)
LargestSize == CHOOSE s \in Sizes : \A t \in Sizes : t =< s
OvershootBounded ==
  sums = 0 => \A u \in Users : used[u] =< Quota + (Cardinality(Clients) - 1) * LargestSize

(* "Raise HTTP 413 if `additional_bytes` would push the user over quota":  *)
(* the live files of a user fit in the quota.                              *)
NeverOverQuota == \A u \in Users : LiveBytes(u) =< Quota

(* "storage_used_bytes is the running total of all live files owned by a   *)
(* user", between requests.                                                *)
UsedIsLive == Quiet => \A u \in Users : used[u] = LiveBytes(u)

(* At least it is not less, so that no upload is let in that should not.   *)
UsedCoversLive == Quiet => \A u \in Users : used[u] >= LiveBytes(u)

(* An upload supersedes the live file of its name, so that a user has one  *)
(* live file of a name, whoever else has one too: with two, every later    *)
(* upload of the name fails after its message was sent.  A rename asks     *)
(* nobody, and rows of nobody (v1's, ingested ones) are not counted.       *)
Twins(i, j) == i # j /\ files[i].name = files[j].name
OneLivePerOwner ==
  renames = 0 =>
    \A i, j \in Live : files[i].owner = files[j].owner /\ files[i].owner # Nobody => ~Twins(i, j)

(* Every message in the chat is a listed file or a version of one, or is   *)
(* about to be ingested: nothing is left behind that no row leads to.      *)
(* That holds of a cloud that one user fills: with two live rows of a name *)
(* (v1's or ingested ones, another user's, renamed ones) an upload of the  *)
(* name fails after its message was sent.                                  *)
Sole == renames = 0 /\ \E u \in Users : DOMAIN files = OwnedBy(u)
Superseded == UNION {files[i].replaces : i \in DOMAIN files}
Accounted(m) == \/ \E i \in DOMAIN files : files[i].message = m /\ i \in Live \cup Superseded
                \/ \E e \in inbox : e.message = m
NoOrphans == Sole /\ Quiet => \A m \in chat : Accounted(m)

(* What the code does not give: the same of every cloud.                   *)
OneLivePerName == \A i, j \in Live : ~Twins(i, j)
NothingOrphaned == Quiet => \A m \in chat : Accounted(m)

=============================================================================
