------------------------------ MODULE MCAccess ------------------------------
(* Who is let in: instances of UserbotLogin, AdminTokens, AppSessions,       *)
(* PublicKeys and Shares for TLC.  They share nothing, so that a behaviour   *)
(* is of one of them, the others staying as they began.  All but the login,  *)
(* which has a lock, are run with requests that overlap, and with one at a   *)
(* time.                                                                     *)
EXTENDS Integers, Sequences, FiniteSets

CONSTANTS
  c1, c2, c3, Clients,
  People, None, Env, TwoStep, MaxStrays, MaxFaults, MaxDeaths, MaxEnds,
  MaxLinks, MaxCookies, MaxRevokes, MaxCrashes,
  Calls, MaxSessions, MaxCalls, MaxLost,
  Keys, Clouds, MaxKeys,
  Limits, Unlimited, MaxShares, MaxDownloads

VARIABLES
  scene, regime, task,
  running, stamp, disk, client, remembered, flow, waiting, op, scans, handlers, logins, torn,
  strays, faults, deaths, ends,
  up, owner, epoch, links, spent, cookies, ended, endedLinks, opened, late, revokes, crashes,
  sessions, keyLive, local, orphans, issuedDead, calls, lost,
  key, of, clouds, cached,
  shares, live, online, begun, served

L == INSTANCE UserbotLogin WITH cookies <- logins, crashes <- deaths, MaxCrashes <- MaxDeaths
T == INSTANCE AdminTokens
A == INSTANCE AppSessions WITH call <- task
K == INSTANCE PublicKeys
S == INSTANCE Shares

ASSUME AccessAssumption ==
       /\ L!UserbotLoginAssumption /\ T!AdminTokensAssumption /\ A!AppSessionsAssumption
       /\ K!PublicKeysAssumption /\ S!SharesAssumption

loginVars == <<running, stamp, disk, client, remembered, flow, waiting, op, scans, handlers,
               logins, torn, strays, faults, deaths, ends>>
tokenVars == <<up, owner, epoch, links, spent, cookies, ended, endedLinks, opened, late,
               revokes, crashes>>
appVars == <<sessions, keyLive, local, orphans, issuedDead, calls, lost>>
keysVars == <<key, of, clouds, cached>>
sharesVars == <<shares, live, online, begun, served>>
vars == <<scene, regime, task, loginVars, tokenVars, appVars, keysVars, sharesVars>>

NoLogin ==
  /\ running = FALSE /\ client = FALSE /\ remembered = FALSE /\ stamp = None /\ disk = None
  /\ flow = None /\ waiting = None /\ op = "free" /\ scans = 0 /\ handlers = 0 /\ logins = {} /\ torn = FALSE
  /\ strays = 0 /\ faults = 0 /\ deaths = 0 /\ ends = 0
NoTokens ==
  /\ up = "down" /\ owner = FALSE /\ epoch = 0 /\ links = <<>> /\ spent = {} /\ cookies = <<>>
  /\ ended = {} /\ endedLinks = {} /\ opened = <<>> /\ late = {} /\ revokes = 0 /\ crashes = 0
NoApp ==
  /\ sessions = <<>> /\ keyLive = TRUE /\ local = 0 /\ orphans = <<>> /\ issuedDead = <<>>
  /\ calls = 0 /\ lost = 0
NoKeys == key = <<>> /\ of = <<>> /\ clouds = {} /\ cached = {}
NoShares == shares = <<>> /\ live = TRUE /\ online = TRUE /\ begun = <<>> /\ served = <<>>

Init ==
  \/ /\ scene = "login" /\ regime = "overlap" /\ task = <<>>
     /\ L!Init /\ NoTokens /\ NoApp /\ NoKeys /\ NoShares
  \/ /\ regime \in {"overlap", "serial"}
     /\ NoLogin
     /\ \/ scene = "tokens" /\ T!Init /\ NoApp /\ NoKeys /\ NoShares
        \/ scene = "app" /\ A!Init /\ NoTokens /\ NoKeys /\ NoShares
        \/ scene = "keys" /\ K!Init /\ NoTokens /\ NoApp /\ NoShares
        \/ scene = "shares" /\ S!Init /\ NoTokens /\ NoApp /\ NoKeys

OneAtATime == \A c, d \in DOMAIN task : c = d \/ task[c].at = "idle" \/ task[d].at = "idle"

LoginRest == <<scene, regime, task, tokenVars, appVars, keysVars, sharesVars>>
KeysRest == <<scene, regime, loginVars, tokenVars, appVars, sharesVars>>

Next ==
  /\ \/ scene = "login" /\ L!Next /\ UNCHANGED <<task, tokenVars, appVars, keysVars, sharesVars>>
     \/ scene = "tokens" /\ T!Next /\ UNCHANGED <<loginVars, appVars, keysVars, sharesVars>>
     \/ scene = "app" /\ A!Next /\ UNCHANGED <<loginVars, tokenVars, keysVars, sharesVars>>
     \/ scene = "keys" /\ K!Next /\ UNCHANGED <<loginVars, tokenVars, appVars, sharesVars>>
     \/ scene = "shares" /\ S!Next /\ UNCHANGED <<loginVars, tokenVars, appVars, keysVars>>
  /\ UNCHANGED <<scene, regime>>
  /\ regime = "serial" => OneAtATime'

(* The fairness of UserbotLogin and of PublicKeys. *)
Fairness ==
  /\ WF_vars(scene = "login" /\ L!Finish /\ UNCHANGED LoginRest)
  /\ WF_vars(scene = "login" /\ L!Start /\ UNCHANGED LoginRest)
  /\ WF_vars(scene = "login" /\ L!StartWanted /\ UNCHANGED LoginRest)
  /\ WF_vars(scene = "login" /\ L!SubmitCode /\ UNCHANGED LoginRest)
  /\ WF_vars(scene = "login" /\ L!SubmitPassword /\ UNCHANGED LoginRest)
  /\ WF_vars(scene = "login" /\ L!CancelUnwanted /\ UNCHANGED LoginRest)
  /\ \A c \in Clients : WF_vars(scene = "keys" /\ K!Step(c) /\ UNCHANGED KeysRest)
  /\ \A k \in Keys : WF_vars(scene = "keys" /\ K!Expire(k) /\ UNCHANGED KeysRest)

Spec == Init /\ [][Next]_vars /\ Fairness

Serial(name) == scene = name /\ regime = "serial"
Overlapping == IF regime = "serial" THEN 1 ELSE Cardinality(Clients)

(* One account is ever the administrator, and between operations no other    *)
(* is logged in, unless one was torn.                                        *)
OnlyTheAdmin == L!OneAdmin /\ L!ForeignNeverRests
(* A flow logs in the account it was started for.                            *)
FlowLogsInItsOwn == [][scene = "login" => L!FlowsOwn]_vars
(* An administrator who keeps trying is logged in, if no operation is torn   *)
(* and the client does not believe in a session ended from another device.   *)
LoginSucceeds == []<>(scene = "login" => L!LoggedIn \/ torn \/ L!Misled)
(* A one-time link opens one session at most, however many openings overlap. *)
(* With one request at a time, /revoke ends for good what there is; and,     *)
(* without a crash, nothing else.                                            *)
LinksAndCookiesEnd ==
  /\ scene = "tokens" => T!LinkUsedOnce
  /\ Serial("tokens") => T!RevokeEnds /\ (crashes = 0 => T!FreshIsGood)
(* Few access tokens are issued after a sign-out; and with one call at a     *)
(* time, the SDK believes in no session it signed out of.                    *)
SignOutHolds ==
  scene = "app" => A!FewTokensAfterSignOut /\ (regime = "serial" => A!BelievesLive)
(* No session that was revoked and no share that ended comes back, whatever  *)
(* was under way; and with one call at a time, a refresh costs no live       *)
(* session.                                                                  *)
EndedStaysEnded ==
  [][/\ scene = "app" => A!RevokedStay /\ (regime = "serial" => A!RefreshKeeps)
     /\ scene = "shares" => S!EndedStays]_vars
(* Requests that overlap exceed the limit of keys by no more than themselves,*)
(* and one at a time a share serves no more than its limit; the counter of a *)
(* share never passes it.                                                    *)
LimitsBounded ==
  /\ scene = "keys" => K!ActiveKeysWithin(Overlapping)
  /\ scene = "shares" => S!CountWithinLimit /\ (regime = "serial" => S!WithinLimit)
(* A revoked or deleted key is forgotten in the end; with one request at a   *)
(* time, a revoked one at once.                                              *)
DeadKeysForgotten ==
  /\ \A k \in Keys : (scene = "keys" /\ key[k] \in {"revoked", "deleted"}) ~> [](k \notin cached)
  /\ [](Serial("keys") => K!RevokedRefused)

(* Not given by the code. *)
LoginSucceedsAfterEnd == []<>(scene = "login" => L!LoggedIn \/ torn)
LoginAlwaysSucceeds == []<>(scene = "login" => L!LoggedIn)
ForeignNeverStays == L!ForeignNeverStays
AttachedOnce == L!AttachedOnce
RevokeEnds == scene = "tokens" => T!RevokeEnds
FreshIsGood == Serial("tokens") => T!FreshIsGood
BelievesLive == scene = "app" => A!BelievesLive
RefreshKeepsSession == [][scene = "app" => A!RefreshKeeps]_vars
RevokedRefused == scene = "keys" => K!RevokedRefused
DeletedRefused == Serial("keys") => K!DeletedRefused
WithinLimit == scene = "shares" => S!WithinLimit
EveryDownloadCounted == scene = "shares" => S!EveryDownloadCounted
=============================================================================
