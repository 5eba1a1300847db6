----------------------------- MODULE MCAccounts -----------------------------
(* Instances of Accounts for TLC.  A behaviour is one of two regimes:        *)
(* "overlap", or "serial", one request at a time.                            *)
EXTENDS Accounts, TLC

CONSTANTS c1, c2, k1, k2, buyer, p1, p2

VARIABLE regime

Sym == Permutations(Clients) \cup Permutations(Pins) \cup Permutations(Keys)

Overlapping == IF regime = "serial" THEN 1 ELSE Cardinality(Clients)

Allowed ==
  regime = "serial" => \A c, d \in Clients : c = d \/ At(c, "idle") \/ At(d, "idle")

MCInit == Init /\ regime \in {"overlap", "serial"}
MCNext == Next /\ UNCHANGED regime /\ Allowed'
MCSpec == MCInit /\ [][MCNext]_<<vars, regime>>

(* A key registers once.  A challenge opens one session, and a contact has   *)
(* one pending request, for each of the requests that overlap.               *)
UsesBounded == OneUserPerKey /\ ChallengeOpens(Overlapping) /\ PendingOf(Overlapping)
(* With one request at a time, an approved payment is one account.           *)
SerialAccountIffApproved == regime = "serial" => AccountIffApproved
(* While an account is locked no guess is judged but those under way; with   *)
(* one request at a time, MaxFailed misses lock it.                          *)
GuessesBounded == LockHolds /\ (regime = "serial" => MissesLock)

=============================================================================
