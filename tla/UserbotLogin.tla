---------------------------- MODULE UserbotLogin ----------------------------
(***************************************************************************)
(* The login of the one Telegram client (lcloud/userbot/client.py,         *)
(* session.py; lcloud/api/auth.py; the claim of lcloud/config.py; the      *)
(* start of lcloud/main.py).                                               *)
(*                                                                         *)
(* A flow asks for a code, perhaps for a password, and then the account is *)
(* looked at: in bootstrap the first one is claimed as the administrator,  *)
(* any other is logged out, its session files are archived and a fresh     *)
(* client connects.  All of it runs under one lock, but a failing await    *)
(* releases the lock where it stands, and the process may die anywhere.    *)
(* Telethon writes the session file when sign_in succeeds, and the client  *)
(* remembers the answer to is_user_authorized(): a session that is ended   *)
(* from another device may leave a client that still believes in it.       *)
(*                                                                         *)
(* A wrong code or password raises and changes nothing; it is left out.    *)
(***************************************************************************)
EXTENDS Integers, FiniteSets

CONSTANTS
  People,      \* Telegram accounts, each with its phone
  None,
  Env,         \* LC_ADMIN_TG_ID, or None
  TwoStep,     \* accounts that have a password
  MaxStrays,   \* bound: flows of accounts that are not wanted, and cancelled flows
  MaxFaults,   \* bound: awaits that raise
  MaxCrashes,  \* bound: deaths of the process
  MaxEnds      \* bound: sessions ended from another device

VARIABLES
  running,  \* the process is up
  stamp,    \* data/keys/admin.tgid
  disk,     \* the account the session files log in, or None
  client,   \* the manager has a client
  remembered, \* what the client's is_user_authorized() answers
  flow,     \* None, or the login under way: [who, password]
  waiting,  \* Telegram waits for the password of this account (external)
  op,       \* where the holder of the lock is, "free" if there is none
  scans,    \* post-login tasks scheduled and not run
  handlers, \* how often handlers are attached to the client
  cookies,  \* history: accounts a cookie was issued for
  torn,     \* history: the process died or an await raised inside an operation
  strays, faults, crashes, ends \* how often things happened

vars == <<running, stamp, disk, client, remembered, flow, waiting, op, scans, handlers, cookies,
          torn, strays, faults, crashes, ends>>
counts == <<strays, faults, crashes, ends>>

UserbotLoginAssumption ==
  /\ None \notin People
  /\ Env \in People \cup {None} /\ TwoStep \subseteq People
  /\ {MaxStrays, MaxFaults, MaxCrashes, MaxEnds} \subseteq Nat

Init ==
  /\ running = FALSE /\ client = FALSE /\ remembered = FALSE
  /\ stamp = None /\ disk = None /\ flow = None /\ waiting = None
  /\ op = "free"
  /\ scans = 0 /\ handlers = 0
  /\ cookies = {} /\ torn = FALSE
  /\ strays = 0 /\ faults = 0 /\ crashes = 0 /\ ends = 0

(* effective_admin_tg_id                                                   *)
Effective == IF Env # None THEN Env ELSE stamp
Authorized == client /\ disk # None
Wanted(who) == Effective \in {None, who}

-----------------------------------------------------------------------------
(* The process *)

(* lifespan: the session files are taken as they are.                      *)
Start ==
  /\ ~running
  /\ running' = TRUE /\ client' = TRUE /\ remembered' = (disk # None)
  /\ scans' = 1
  /\ UNCHANGED <<stamp, disk, flow, waiting, op, handlers, cookies, torn, counts>>

Crash ==
  /\ running
  /\ crashes < MaxCrashes
  /\ crashes' = crashes + 1
  /\ running' = FALSE /\ client' = FALSE /\ remembered' = FALSE /\ flow' = None
  /\ op' = "free" /\ scans' = 0 /\ handlers' = 0
  /\ torn' = (torn \/ op # "free")
  /\ UNCHANGED <<stamp, disk, waiting, cookies, strays, faults, ends>>

(* _post_login_scan_if_authorized                                          *)
Attach ==
  /\ scans > 0
  /\ scans' = scans - 1
  /\ handlers' = IF Authorized /\ disk = Effective THEN handlers + 1 ELSE handlers
  /\ UNCHANGED <<running, stamp, disk, client, remembered, flow, waiting, op, cookies, torn,
                 counts>>

(* The administrator ends the session in Telegram, which the client may or *)
(* may not notice (snapshot is ready for a get_me that answers nobody).    *)
EndSession ==
  /\ Authorized /\ op \in {"free", "finalize"}
  /\ ends < MaxEnds
  /\ ends' = ends + 1
  /\ disk' = None /\ remembered' \in {FALSE, remembered}
  /\ UNCHANGED <<running, stamp, client, flow, waiting, op, scans, handlers, cookies, torn,
                 strays, faults, crashes>>

-----------------------------------------------------------------------------
(* The flow, under the lock *)

(* LoginAlreadyAuthorizedError goes by the remembered answer.              *)
StartLogin(who) ==
  /\ op = "free" /\ client /\ ~remembered
  /\ flow = None
  /\ Wanted(who) \/ strays < MaxStrays
  /\ strays' = IF Wanted(who) THEN strays ELSE strays + 1
  /\ flow' = [who |-> who, password |-> FALSE]
  /\ UNCHANGED <<running, stamp, disk, client, remembered, waiting, op, scans, handlers,
                 cookies, torn, faults, crashes, ends>>

(* The code of the flow's phone: the session is signed in, or              *)
(* SessionPasswordNeededError.                                             *)
SubmitCode ==
  /\ op = "free" /\ client /\ flow # None
  /\ IF flow.who \in TwoStep
     THEN /\ flow' = [flow EXCEPT !.password = TRUE]
          /\ waiting' = flow.who
          /\ UNCHANGED <<disk, remembered, op>>
     ELSE /\ disk' = flow.who /\ remembered' = TRUE
          /\ op' = "finalize"
          /\ UNCHANGED <<flow, waiting>>
  /\ UNCHANGED <<running, stamp, client, scans, handlers, cookies, torn, counts>>

(* Mutant: a password is taken whatever the flow is at. *)
NeedsPasswordAnyway == flow # None
NeedsPassword == flow # None /\ flow.password

(* sign_in(password=...) answers for the account Telegram waits for.       *)
SubmitPassword ==
  /\ op = "free" /\ client /\ NeedsPassword
  /\ waiting # None
  /\ disk' = waiting /\ remembered' = TRUE
  /\ waiting' = None
  /\ op' = "finalize"
  /\ UNCHANGED <<running, stamp, client, flow, scans, handlers, cookies, torn, counts>>

CancelFlow ==
  /\ op = "free" /\ flow # None
  /\ ~Wanted(flow.who) \/ strays < MaxStrays
  /\ strays' = IF Wanted(flow.who) THEN strays + 1 ELSE strays
  /\ flow' = None
  /\ UNCHANGED <<running, stamp, disk, client, remembered, waiting, op, scans, handlers,
                 cookies, torn, faults, crashes, ends>>

-----------------------------------------------------------------------------
(* _finalize_login and _reject_session *)

(* Mutant: whoever logs in is claimed. *)
ClaimedAnyway == disk
(* Bootstrap claims; later logins must match.  get_me answers nobody when  *)
(* the session was ended meanwhile, which is turned away too.              *)
Claimed == IF Effective = None THEN disk ELSE stamp

Finalize ==
  /\ op = "finalize"
  /\ stamp' = Claimed
  /\ IF disk # None /\ disk = (IF Env # None THEN Env ELSE Claimed)
     THEN /\ op' = "free" /\ flow' = None
          /\ cookies' = cookies \cup {disk}
          /\ scans' = scans + 1
     ELSE /\ op' = "reject"
          /\ UNCHANGED <<flow, cookies, scans>>
  /\ UNCHANGED <<running, disk, client, remembered, waiting, handlers, torn, counts>>

(* log_out deletes the session files, unless it fails, which is suppressed.*)
LogOut ==
  /\ op = "reject"
  /\ disk' \in {None, disk}
  /\ client' = FALSE /\ remembered' = FALSE /\ handlers' = 0
  /\ op' = "archive"
  /\ UNCHANGED <<running, stamp, flow, waiting, scans, cookies, torn, counts>>

(* Mutant: the session files stay where they are. *)
ArchivedNever == disk
Archived == None

Archive ==
  /\ op = "archive"
  /\ disk' = Archived
  /\ op' = "reconnect"
  /\ UNCHANGED <<running, stamp, client, remembered, flow, waiting, scans, handlers, cookies,
                 torn, counts>>

(* Mutant: no fresh client is made. *)
ReconnectedNever == FALSE
Reconnected == TRUE

Reconnect ==
  /\ op = "reconnect"
  /\ client' = Reconnected /\ remembered' = (disk # None)
  /\ flow' = None /\ waiting' = None
  /\ op' = "free"
  /\ UNCHANGED <<running, stamp, disk, scans, handlers, cookies, torn, counts>>

(* get_me, the archive or connect raises: the lock is released.            *)
Fail ==
  /\ op \in {"finalize", "archive", "reconnect"}
  /\ faults < MaxFaults
  /\ faults' = faults + 1
  /\ op' = "free"
  /\ torn' = TRUE
  /\ UNCHANGED <<running, stamp, disk, client, remembered, flow, waiting, scans, handlers,
                 cookies, strays, crashes, ends>>

Finish == Finalize \/ LogOut \/ Archive \/ Reconnect

Next ==
  \/ Start \/ Crash \/ Attach \/ EndSession
  \/ \E who \in People : StartLogin(who)
  \/ SubmitCode \/ SubmitPassword \/ CancelFlow
  \/ Finish \/ Fail

StartWanted == \E who \in People : Wanted(who) /\ StartLogin(who)
CancelUnwanted == flow # None /\ ~Wanted(flow.who) /\ CancelFlow

(* The operations go on; somebody restarts the process; the administrator, *)
(* or before there is one anybody, keeps trying to log in, and cancels a   *)
(* flow of somebody else's that stands in the way.                         *)
Fairness ==
  /\ WF_vars(Finish) /\ WF_vars(Start)
  /\ WF_vars(StartWanted) /\ WF_vars(CancelUnwanted)
  /\ WF_vars(SubmitCode) /\ WF_vars(SubmitPassword)

Spec == Init /\ [][Next]_vars /\ Fairness

-----------------------------------------------------------------------------
(* Properties *)

TypeOK ==
  /\ {running, client, remembered, torn} \subseteq BOOLEAN
  /\ {stamp, disk, waiting} \subseteq People \cup {None}
  /\ flow \in [who : People, password : BOOLEAN] \cup {None}
  /\ op \in {"free", "finalize", "reject", "archive", "reconnect"}
  /\ client => running
  /\ op \in {"archive", "reconnect"} => ~client
  /\ op # "free" => flow # None
  /\ cookies \subseteq People

(* One account is ever the administrator: whoever got a cookie, across     *)
(* crashes and other people's logins.                                      *)
OneAdmin == cookies \subseteq {Effective}

(* Between operations no other account is logged in, though log_out may    *)
(* have failed; unless an operation was torn before it could see to that.  *)
ForeignNeverRests ==
  ~torn /\ op = "free" /\ disk # None => disk = Effective

(* A flow logs in the account it was started for, also after a flow that   *)
(* was cancelled while Telegram waited for a password.                     *)
FlowsOwn == op = "free" /\ op' = "finalize" => disk' = flow.who
FlowLogsInItsOwn == [][FlowsOwn]_vars

LoggedIn == Authorized /\ disk = Effective

(* The client believes in a session that was ended, and no login starts    *)
(* before the process is started again.                                    *)
Misled == op = "free" /\ client /\ remembered /\ disk = None

(* An administrator who keeps trying is logged in, whoever else tried, if  *)
(* no operation is torn and the client is not misled.                      *)
LoginSucceeds == []<>(LoggedIn \/ torn \/ Misled)

(* What the code does not give: the same for a client that is misled, and  *)
(* whatever is torn; and handlers attached once ("once per admin-auth +    *)
(* once per app start").                                                   *)
LoginSucceedsAfterEnd == []<>(LoggedIn \/ torn)
LoginAlwaysSucceeds == []<>LoggedIn
ForeignNeverStays == op = "free" /\ disk # None => disk = Effective
AttachedOnce == handlers =< 1
=============================================================================
