----------------------------- MODULE MCFileStore -----------------------------
(* Instances of FileStore for TLC.  "overlap": two requests at a time of a   *)
(* cloud with one user, its owner and an administrator, with a failing call, *)
(* a crash and a recomputation.  "serial": one request at a time of any      *)
(* router, of the owner and of an administrator beside it, and a larger      *)
(* quota; no call of Telegram fails, nothing crashes and nobody recomputes.  *)
(* In both, documents are dropped into the chat and files are renamed.       *)
(*                                                                           *)
(* The clients are symmetric where there are two; a serial state has one of  *)
(* them, so that no other serial state is its image.                         *)
EXTENDS FileStore, TLC

CONSTANTS c1, c2, user, admin, n1, n2, SerialAdmins, SerialQuota, SerialMessages,
          FreeSizes, Recomputed

ASSUME SerialAssumption ==
  SerialAdmins \subseteq Users /\ SerialQuota \in Nat /\ SerialMessages \in Nat

VARIABLE regime

Sym == Permutations(Clients) \cup Permutations(Names)

S == INSTANCE FileStore WITH
       Clients <- {c1}, Admins <- SerialAdmins, Quota <- SerialQuota,
       MaxMessages <- SerialMessages, MaxFaults <- 0, MaxCrashes <- 0, MaxSums <- 0

MCInit ==
  \/ regime = "overlap" /\ Init
  \/ regime = "serial" /\ S!Init

(* What nobody is charged for has one of FreeSizes: no charge depends on it. *)
(* The charge of Recomputed alone is recomputed.                             *)
Enough ==
  /\ \A m \in inbox : m.size \in FreeSizes
  /\ \A c \in DOMAIN task : task[c].at = "checked" /\ task[c].path = "v1" => task[c].size \in FreeSizes
  /\ total = Nothing \/ total.user \in Recomputed

MCNext ==
  /\ \/ regime = "overlap" /\ Next
     \/ regime = "serial" /\ S!Next
  /\ Enough'
  /\ UNCHANGED regime

MCSpec == MCInit /\ [][MCNext]_<<vars, regime>>

Overlapping(P) == regime = "overlap" => P
Serially(P) == regime = "serial" => P

(* What is listed is in the chat, however requests overlap and fail; one at  *)
(* a time, no message of a cloud that one user fills is there that no row    *)
(* leads to.                                                                 *)
RowsMatchMessages == Overlapping(ListedIsStored) /\ Serially(S!NoOrphans)
(* The quota is exceeded by no more than the uploads that overlap; by none,  *)
(* one at a time.                                                            *)
QuotaOvershootBounded == Overlapping(OvershootBounded) /\ Serially(S!NeverOverQuota)
(* What is charged covers the live files.                                    *)
SerialUsedCoversLive == Serially(S!UsedCoversLive)
(* A user has one live file of a name, unless files were renamed.            *)
SerialOneLivePerOwner == Serially(S!OneLivePerOwner)

(* Not given by the code. *)
SerialUsedIsLive == Serially(S!UsedIsLive)
SerialNothingOrphaned == Serially(S!NothingOrphaned)
SerialOneLivePerName == Serially(S!OneLivePerName)
=============================================================================
