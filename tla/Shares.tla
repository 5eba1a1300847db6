------------------------------- MODULE Shares -------------------------------
(***************************************************************************)
(* Public links to one file (lcloud/api/shares.py).                        *)
(*                                                                         *)
(* A download loads the share, looks at it, loads the file, writes the     *)
(* counter it read plus one, and then asks the Telegram client for the     *)
(* bytes.  The SELECTs are outside a transaction and the UPDATE sets the   *)
(* counter to a value, so that overlapping downloads count as one, or      *)
(* put the counter back.  Revoking writes its own column only.             *)
(***************************************************************************)
EXTENDS Integers, Sequences, FiniteSets

CONSTANTS
  Clients,    \* downloads in progress at one time
  Limits,     \* the max_downloads shares are made with
  Unlimited,  \* max_downloads NULL
  MaxShares,    \* bound: shares made
  MaxDownloads  \* bound: downloads of a share

VARIABLES
  shares,   \* the file_shares table
  live,     \* the file is not deleted
  online,   \* the Telegram client is connected and authorized
  task,     \* client -> what its download is at
  begun,    \* history: share -> downloads that found it active
  served    \* history: share -> downloads that were given the bytes

vars == <<shares, live, online, task, begun, served>>

SharesAssumption ==
  /\ Limits \subseteq (Nat \ {0}) \cup {Unlimited}
  /\ Unlimited \notin Nat
  /\ {MaxShares, MaxDownloads} \subseteq Nat

Idle == [at |-> "idle"]
At(c, place) == task[c].at = place
Goto(c, t) == task' = [task EXCEPT ![c] = t]

Init ==
  /\ shares = <<>>
  /\ live = TRUE
  /\ online \in BOOLEAN
  /\ task = [c \in Clients |-> Idle]
  /\ begun = <<>> /\ served = <<>>

(* Mutant: the limit is passed by one. *)
ActiveByOne(s) ==
  ~s.revoked /\ ~s.expired /\ (s.max # Unlimited => s.count =< s.max)
(* _is_active                                                              *)
Active(s) ==
  ~s.revoked /\ ~s.expired /\ (s.max # Unlimited => s.count < s.max)

CreateShare(max) ==
  /\ live
  /\ Len(shares) < MaxShares
  /\ shares' = Append(shares, [max |-> max, count |-> 0, revoked |-> FALSE, expired |-> FALSE])
  /\ begun' = Append(begun, 0) /\ served' = Append(served, 0)
  /\ UNCHANGED <<live, online, task>>

Revoke(s) ==
  /\ ~shares[s].revoked
  /\ shares' = [shares EXCEPT ![s].revoked = TRUE]
  /\ UNCHANGED <<live, online, task, begun, served>>

(* expires_at passes.                                                      *)
Expire(s) ==
  /\ ~shares[s].expired
  /\ shares' = [shares EXCEPT ![s].expired = TRUE]
  /\ UNCHANGED <<live, online, task, begun, served>>

DeleteFile ==
  /\ live
  /\ live' = FALSE
  /\ UNCHANGED <<shares, online, task, begun, served>>

Connection ==
  /\ online' = ~online
  /\ UNCHANGED <<shares, live, task, begun, served>>

-----------------------------------------------------------------------------
(* A download *)

(* 404 leaves everything as it was.                                        *)
LoadShare(c, s) ==
  /\ At(c, "idle")
  /\ begun[s] < MaxDownloads
  /\ Active(shares[s])
  /\ begun' = [begun EXCEPT ![s] = @ + 1]
  /\ Goto(c, [at |-> "file", share |-> s, count |-> shares[s].count])
  /\ UNCHANGED <<shares, live, online, served>>

LoadFile(c) ==
  /\ At(c, "file")
  /\ Goto(c, IF live THEN [task[c] EXCEPT !.at = "count"] ELSE Idle)
  /\ UNCHANGED <<shares, live, online, begun, served>>

(* Mutant: the row is written as it was loaded. *)
CountedRow(t) ==
  [shares EXCEPT ![t.share].count = t.count + 1, ![t.share].revoked = FALSE]
(* Mutant: nothing is committed. *)
CountedNever(t) == shares
Counted(t) == [shares EXCEPT ![t.share].count = t.count + 1]

Count(c) ==
  /\ At(c, "count")
  /\ shares' = Counted(task[c])
  /\ Goto(c, [task[c] EXCEPT !.at = "stream"])
  /\ UNCHANGED <<live, online, begun, served>>

(* 503 if the client is not connected: counted, not served.                *)
Stream(c) ==
  /\ At(c, "stream")
  /\ served' = IF online THEN [served EXCEPT ![task[c].share] = @ + 1] ELSE served
  /\ Goto(c, Idle)
  /\ UNCHANGED <<shares, live, online, begun>>

Next ==
  \/ \E max \in Limits : CreateShare(max)
  \/ \E s \in DOMAIN shares :
       Revoke(s) \/ Expire(s) \/ \E c \in Clients : LoadShare(c, s)
  \/ DeleteFile \/ Connection
  \/ \E c \in Clients : LoadFile(c) \/ Count(c) \/ Stream(c)

Spec == Init /\ [][Next]_vars

-----------------------------------------------------------------------------
(* Properties *)

Limited(s) == shares[s].max # Unlimited

(* The counter itself never passes the limit, however downloads overlap.   *)
CountWithinLimit ==
  \A s \in DOMAIN shares : Limited(s) => shares[s].count =< shares[s].max

(* A share that was revoked, or ran out, stays so whatever downloads are   *)
(* still on their way.                                                     *)
EndedStays ==
  \A s \in DOMAIN shares :
    /\ shares[s].revoked => shares'[s].revoked
    /\ shares[s].expired => shares'[s].expired

(* Bytes go out max_downloads times at most.                               *)
WithinLimit == \A s \in DOMAIN shares : Limited(s) => served[s] =< shares[s].max

(* "Every successful download increases the counter" (public_download).     *)
EveryDownloadCounted == \A s \in DOMAIN shares : served[s] =< shares[s].count
=============================================================================
