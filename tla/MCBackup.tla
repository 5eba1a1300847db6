------------------------------ MODULE MCBackup ------------------------------
(* An instance of BackupRestore for TLC, seen in two scenes.  "restore": one *)
(* database, written by its owner and an app user, rules that change and two *)
(* faults.  "progress": two databases, a collection that is dropped and      *)
(* created again, and a fault.                                               *)
EXTENDS BackupRestore

CONSTANTS u1, d1, f, g, b1, b2, n1, closed, open

VARIABLE scene

MCData(x) == [y \in {x} |-> 1]
OneBody == {MCData(f)}
TwoBodies == {MCData(f), MCData(g)}
Owner == [path |-> "owner", app |-> None]
AppUser == [path |-> "key", app |-> u1]
Both == {Owner, AppUser}

ASSUME MCBackupAssumption ==
  /\ b1 \in Dbs /\ closed \in Settings
  /\ Owner \in Writers /\ OneBody \subseteq Bodies

MCInit == scene \in {"restore", "progress"} /\ Init

MCNext ==
  /\ \/ /\ scene = "restore"
        /\ Request({b1}, Settings, Writers, Bodies) \/ Work \/ Interrupt
        /\ deletes' = 0
     \/ /\ scene = "progress"
        /\ Request(Dbs, {closed}, {Owner}, OneBody) \/ Work \/ Interrupt
        /\ faults' =< 1
  /\ UNCHANGED scene

MCFairness == WF_vars(scene = "progress" /\ Work /\ UNCHANGED scene)
MCSpec == MCInit /\ [][MCNext]_<<vars, scene>> /\ MCFairness

(* While no collection is deleted, everything at or below the watermark is   *)
(* in the chat; and marking a segment never meets the unique constraint on   *)
(* its range.                                                                *)
MarksSound == MarkNeverConflicts /\ (deletes = 0 => MarkedIsInChat)
(* A restore runs while no pass does: what crashes left in the chat can be   *)
(* restored, and a database that is backed up is restored to what it was     *)
(* (AlwaysRestorable and RestoreIsFaithful of one restore).                  *)
ChatRestores ==
  scene = "restore" /\ worker.pc = "asleep" =>
    LET r == Restore(chat[b1]) IN r.ok /\ Faithful(b1, r)
(* Once writing ends, as MaxWrites makes it, nothing stays above the         *)
(* watermark; and if no collection was deleted, the chat of each database    *)
(* holds all its operations at last.  (After a deletion it may never hold    *)
(* those that were given ids at or below the watermark.)  A failed upload or *)
(* a crash only delays it.                                                   *)
BackedUpAtLast == <>[](scene = "progress" => UploadedAll)

(* Not given by the code. *)
EverythingBackedUp == <>[](scene = "progress" => EveryOpInChat)
LagTellsWaiting == scene = "progress" => LagCountsWaiting
=============================================================================
