---------------------------- MODULE AdminTokens ----------------------------
(***************************************************************************)
(* The administrator's web sessions (lcloud/auth/jwt_utils.py, deps.py,    *)
(* lcloud/api/auth.py, magic.py; the commands /admin and /revoke of        *)
(* lcloud/userbot/commands.py; lcloud/db/bootstrap.py).                    *)
(*                                                                         *)
(* Cookies and one-time links are signed and carry the epoch they were     *)
(* made in; a cookie is good while its epoch is that of the row.  /revoke  *)
(* loads the epoch and writes one more, as a value.  A link is spent by    *)
(* inserting its jti, a primary key, after two SELECTs.                    *)
(*                                                                         *)
(* The first start inserts the owner and the epoch in two transactions; a  *)
(* later start that finds the owner inserts nothing.                       *)
(* Times to live are left out.                                             *)
(***************************************************************************)
EXTENDS Integers, Sequences, FiniteSets

CONSTANTS
  Clients,    \* requests and commands in progress at one time
  MaxLinks,   \* bound: links made
  MaxCookies, \* bound: cookies made
  MaxRevokes, \* bound: /revoke
  MaxCrashes  \* bound: crashes

VARIABLES
  up,      \* "down", "owner" (between the two inserts) or "up"
  owner,   \* the owners row is there
  epoch,   \* auth_state.epoch, or NoRow
  links,   \* links sent: the epoch of each
  spent,   \* used_tokens
  cookies, \* cookies issued: the epoch of each
  task,    \* client -> what it is at
  ended,   \* history: cookies there were when a /revoke committed
  endedLinks, \* history: links likewise
  opened,  \* history: link -> cookies it opened
  late,    \* history: links spent though ended
  revokes, crashes \* how often things happened

vars == <<up, owner, epoch, links, spent, cookies, task, ended, endedLinks, opened, late,
          revokes, crashes>>
history == <<ended, endedLinks, opened, late>>

AdminTokensAssumption == {MaxLinks, MaxCookies, MaxRevokes, MaxCrashes} \subseteq Nat

NoRow == 0
Idle == [at |-> "idle"]
At(c, place) == task[c].at = place
Goto(c, t) == task' = [task EXCEPT ![c] = t]

Init ==
  /\ up = "down" /\ owner = FALSE /\ epoch = NoRow
  /\ links = <<>> /\ spent = {} /\ cookies = <<>>
  /\ task = [c \in Clients |-> Idle]
  /\ ended = {} /\ endedLinks = {} /\ opened = <<>> /\ late = {}
  /\ revokes = 0 /\ crashes = 0

-----------------------------------------------------------------------------
(* Start: ensure_admin_owner *)

InsertOwner ==
  /\ up = "down"
  /\ owner' = TRUE
  /\ up' = IF owner THEN "up" ELSE "owner"
  /\ UNCHANGED <<epoch, links, spent, cookies, task, history, revokes, crashes>>

InsertEpoch ==
  /\ up = "owner"
  /\ epoch' = 1
  /\ up' = "up"
  /\ UNCHANGED <<owner, links, spent, cookies, task, history, revokes, crashes>>

Crash ==
  /\ up # "down"
  /\ crashes < MaxCrashes
  /\ crashes' = crashes + 1
  /\ up' = "down"
  /\ task' = [c \in Clients |-> Idle]
  /\ UNCHANGED <<owner, epoch, links, spent, cookies, history, revokes>>

-----------------------------------------------------------------------------
(* Links and cookies *)

(* Mutant: the epoch is not looked up. *)
CurrentDefault == 1
(* The epoch a token is made with; 1 if there is no row.                   *)
Current == IF epoch = NoRow THEN 1 ELSE epoch

(* require_admin: without a row no cookie is good.                         *)
Valid(k) == epoch # NoRow /\ cookies[k] = epoch

Admin ==
  /\ up = "up"
  /\ Len(links) < MaxLinks
  /\ links' = Append(links, Current)
  /\ opened' = Append(opened, 0)
  /\ UNCHANGED <<up, owner, epoch, spent, cookies, task, ended, endedLinks, late, revokes, crashes>>

(* A login read the epoch, or a link was found unused.                     *)
LoginReads(c) ==
  /\ up = "up" /\ At(c, "idle")
  /\ Goto(c, [at |-> "issue", epoch |-> Current, link |-> 0])
  /\ UNCHANGED <<up, owner, epoch, links, spent, cookies, history, revokes, crashes>>

FindUnused(c, l) ==
  /\ up = "up" /\ At(c, "idle")
  /\ l \notin spent
  /\ Goto(c, [at |-> "epoch", link |-> l])
  /\ UNCHANGED <<up, owner, epoch, links, spent, cookies, history, revokes, crashes>>

(* Mutant: a link of another epoch is taken. *)
SameEpochAnyway(l) == TRUE
SameEpoch(l) == links[l] = Current

MatchEpoch(c) ==
  /\ At(c, "epoch")
  /\ Goto(c, IF SameEpoch(task[c].link)
             THEN [at |-> "spend", link |-> task[c].link, epoch |-> Current]
             ELSE Idle)
  /\ UNCHANGED <<up, owner, epoch, links, spent, cookies, history, revokes, crashes>>

(* Mutant: the jti is no key, and a second row is inserted. *)
InsertableAlways(l) == TRUE
(* used_tokens.jti is the primary key: the second INSERT fails, 500.       *)
Insertable(l) == l \notin spent

Spend(c) ==
  /\ At(c, "spend")
  /\ IF Insertable(task[c].link)
     THEN /\ spent' = spent \cup {task[c].link}
          /\ late' = IF task[c].link \in endedLinks THEN late \cup {task[c].link} ELSE late
          /\ Goto(c, [task[c] EXCEPT !.at = "issue"])
     ELSE Goto(c, Idle) /\ UNCHANGED <<spent, late>>
  /\ UNCHANGED <<up, owner, epoch, links, cookies, ended, endedLinks, opened, revokes, crashes>>

Issue(c) ==
  /\ At(c, "issue")
  /\ Len(cookies) < MaxCookies
  /\ cookies' = Append(cookies, task[c].epoch)
  /\ opened' = IF task[c].link = 0 THEN opened ELSE [opened EXCEPT ![task[c].link] = @ + 1]
  /\ Goto(c, Idle)
  /\ UNCHANGED <<up, owner, epoch, links, spent, ended, endedLinks, late, revokes, crashes>>

-----------------------------------------------------------------------------
(* /revoke *)

ReadEpoch(c) ==
  /\ up = "up" /\ At(c, "idle")
  /\ revokes < MaxRevokes
  /\ revokes' = revokes + 1
  /\ Goto(c, [at |-> "bump", epoch |-> epoch])
  /\ UNCHANGED <<up, owner, epoch, links, spent, cookies, history, crashes>>

(* Mutant: the epoch is set as for a missing row. *)
BumpedOnce(e) == 2
(* A missing row is inserted with epoch 2.                                 *)
Bumped(e) == IF e = NoRow THEN 2 ELSE e + 1

(* A second INSERT of the row fails.                                       *)
Bump(c) ==
  /\ At(c, "bump")
  /\ IF task[c].epoch = NoRow /\ epoch # NoRow
     THEN UNCHANGED <<epoch, ended, endedLinks>>
     ELSE /\ epoch' = Bumped(task[c].epoch)
          /\ ended' = DOMAIN cookies
          /\ endedLinks' = DOMAIN links
  /\ Goto(c, Idle)
  /\ UNCHANGED <<up, owner, links, spent, cookies, opened, late, revokes, crashes>>

Next ==
  \/ InsertOwner \/ InsertEpoch \/ Crash
  \/ Admin
  \/ \E c \in Clients :
       \/ LoginReads(c) \/ MatchEpoch(c) \/ Spend(c) \/ Issue(c) \/ ReadEpoch(c) \/ Bump(c)
       \/ \E l \in DOMAIN links : FindUnused(c, l)

Spec == Init /\ [][Next]_vars

-----------------------------------------------------------------------------
(* Properties *)

(* A one-time link opens one session at most, however often it is followed.*)
LinkUsedOnce == \A l \in DOMAIN links : opened[l] =< 1

(* /revoke ends the sessions and the links there are, for good.            *)
RevokeEnds == (\A k \in ended : ~Valid(k)) /\ late = {}

(* A session nobody ended is good.                                         *)
FreshIsGood ==
  up = "up" => \A k \in DOMAIN cookies \ ended : Valid(k)
=============================================================================
