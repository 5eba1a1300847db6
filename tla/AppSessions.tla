---------------------------- MODULE AppSessions ----------------------------
(***************************************************************************)
(* Sessions of an app's end users: the server (lcloud/api/app_auth.py) and *)
(* one client of the SDK (sdk/src/auth.ts) with a network between them.    *)
(*                                                                         *)
(* A session is a row with a refresh token; signing out sets revoked_at.   *)
(* The access tokens issued with it are looked up nowhere and outlive it   *)
(* for 15 minutes at most; that time is left out here.  So are a session's *)
(* expires_at, which each refresh puts off by REFRESH_TOKEN_TTL_DAYS, and  *)
(* a user's disabled_at, which is read at each refresh and set nowhere.    *)
(*                                                                         *)
(* The SDK keeps one session and one refresh at a time, but nothing keeps  *)
(* its sign-in, refresh and sign-out from overlapping: what comes back     *)
(* last is what it believes.  Requests and answers may be lost.            *)
(***************************************************************************)
EXTENDS Integers, Sequences

CONSTANTS
  Calls,       \* SDK calls in progress at one time
  MaxSessions, \* bound: sessions signed in
  MaxCalls,    \* bound: calls
  MaxLost      \* bound: lost requests and answers

VARIABLES
  sessions,   \* app_refresh_sessions: whether revoked_at is set
  keyLive,    \* the publishable key the client uses is not revoked
  local,      \* the SDK's session, or NoSession
  call,       \* call -> what it is at
  orphans,    \* session -> refreshes under way whose connection broke
  issuedDead, \* history: session -> access tokens issued after it was revoked
  calls, lost \* how often things happened

vars == <<sessions, keyLive, local, call, orphans, issuedDead, calls, lost>>
server == <<sessions, orphans, issuedDead>>

AppSessionsAssumption == {MaxSessions, MaxCalls, MaxLost} \subseteq Nat

NoSession == 0
Idle == [at |-> "idle"]
At(c, place) == call[c].at = place
Goto(c, t) == call' = [call EXCEPT ![c] = t]

Init ==
  /\ sessions = <<>> /\ orphans = <<>> /\ issuedDead = <<>>
  /\ keyLive = TRUE
  /\ local = NoSession
  /\ call = [c \in Calls |-> Idle]
  /\ calls = 0 /\ lost = 0

-----------------------------------------------------------------------------
(* The SDK calls *)

Request(c, kind, id) ==
  /\ At(c, "idle")
  /\ calls < MaxCalls
  /\ calls' = calls + 1
  /\ Goto(c, [at |-> "sent", kind |-> kind, id |-> id])
  /\ UNCHANGED <<server, keyLive, local, lost>>

SignIn(c) == Request(c, "signin", NoSession)

(* Mutant: each caller refreshes for itself. *)
NotRefreshingAnyway == TRUE
(* refreshPromise is null                                                  *)
NotRefreshing == \A c \in Calls : ~At(c, "idle") => call[c].kind # "refresh"

(* refresh(), or getAccessToken with a token that is about to expire.      *)
Refresh(c) ==
  /\ local # NoSession
  /\ NotRefreshing
  /\ Request(c, "refresh", local)

SignOut(c) == local # NoSession /\ Request(c, "signout", local)

-----------------------------------------------------------------------------
(* The server *)

Answer(c, status, id) ==
  Goto(c, [at |-> "answered", kind |-> call[c].kind, id |-> id, status |-> status])

Sent(c, kind) == At(c, "sent") /\ call[c].kind = kind /\ keyLive

(* _project_for_key: 404 for every kind of request.                        *)
NoKey(c) ==
  /\ At(c, "sent")
  /\ ~keyLive
  /\ Answer(c, "error", call[c].id)
  /\ UNCHANGED <<server, keyLive, local, calls, lost>>

SignInAnonymously(c) ==
  /\ Sent(c, "signin")
  /\ Len(sessions) < MaxSessions
  /\ sessions' = Append(sessions, FALSE)
  /\ orphans' = Append(orphans, 0) /\ issuedDead' = Append(issuedDead, 0)
  /\ Answer(c, "ok", Len(sessions'))
  /\ UNCHANGED <<keyLive, local, calls, lost>>

(* Of the conditions on session and user, revoked_at alone.                *)
Usable(id) == ~sessions[id]

RefreshLoad(c) ==
  /\ Sent(c, "refresh")
  /\ IF Usable(call[c].id) THEN Goto(c, [call[c] EXCEPT !.at = "loaded"])
                           ELSE Answer(c, "401", call[c].id)
  /\ UNCHANGED <<server, keyLive, local, calls, lost>>

(* Mutant: the row is written as it was loaded. *)
TouchedRow(id) == [sessions EXCEPT ![id] = FALSE]
(* UPDATE of last_used_at and expires_at only.                             *)
Touched(id) == sessions

(* The access token is signed after the commit.                            *)
Issue(id) ==
  /\ sessions' = Touched(id)
  /\ issuedDead' = [issuedDead EXCEPT ![id] = @ + (IF sessions[id] THEN 1 ELSE 0)]

RefreshWrite(c) ==
  /\ At(c, "loaded")
  /\ Issue(call[c].id)
  /\ Answer(c, "ok", call[c].id)
  /\ UNCHANGED <<keyLive, local, orphans, calls, lost>>

(* The handler goes on when nobody waits for it.                           *)
OrphanWrites(id) ==
  /\ orphans[id] > 0
  /\ orphans' = [orphans EXCEPT ![id] = @ - 1]
  /\ Issue(id)
  /\ UNCHANGED <<keyLive, local, call, calls, lost>>

SignOutRevokes(c) ==
  /\ Sent(c, "signout")
  /\ sessions' = [sessions EXCEPT ![call[c].id] = TRUE]
  /\ Answer(c, "ok", call[c].id)
  /\ UNCHANGED <<keyLive, local, orphans, issuedDead, calls, lost>>

RevokeKey ==
  /\ keyLive
  /\ keyLive' = FALSE
  /\ UNCHANGED <<server, local, call, calls, lost>>

-----------------------------------------------------------------------------
(* What comes back, and what does not *)

(* The request or its answer is lost, or the connection breaks between:    *)
(* fetch rejects.                                                          *)
Lose(c) ==
  /\ ~At(c, "idle")
  /\ lost < MaxLost
  /\ lost' = lost + 1
  /\ Answer(c, "error", call[c].id)
  /\ orphans' = IF At(c, "loaded") THEN [orphans EXCEPT ![call[c].id] = @ + 1] ELSE orphans
  /\ UNCHANGED <<sessions, keyLive, local, issuedDead, calls>>

(* Mutant: a sign-out that failed leaves the session. *)
AfterSignOutKept(t) == IF t.status = "ok" THEN NoSession ELSE local
(* finally: clearSession()                                                 *)
AfterSignOut(t) == NoSession

(* Mutant: a refresh that failed for any reason ends the session. *)
EndsAnyway(t) == t.kind = "refresh" /\ t.status # "ok"
(* error.status === 401                                                    *)
Ends(t) == t.kind = "refresh" /\ t.status = "401"

(* clearSession or saveResponse, whatever session there is by now.         *)
Believed(t) ==
  CASE t.kind = "signout" -> AfterSignOut(t)
    [] t.kind # "signout" /\ t.status = "ok" -> t.id
    [] Ends(t) -> NoSession
    [] OTHER -> local

Receive(c) ==
  /\ At(c, "answered")
  /\ local' = Believed(call[c])
  /\ Goto(c, Idle)
  /\ UNCHANGED <<server, keyLive, calls, lost>>

Next ==
  \/ \E c \in Calls :
       \/ SignIn(c) \/ Refresh(c) \/ SignOut(c)
       \/ NoKey(c) \/ SignInAnonymously(c) \/ RefreshLoad(c) \/ RefreshWrite(c)
       \/ SignOutRevokes(c) \/ Lose(c) \/ Receive(c)
  \/ \E id \in DOMAIN sessions : OrphanWrites(id)
  \/ RevokeKey

Spec == Init /\ [][Next]_vars

-----------------------------------------------------------------------------
(* Properties *)

(* No refresh undoes a sign-out, whatever it had loaded before.            *)
RevokedStay == \A id \in DOMAIN sessions : sessions[id] => sessions'[id]

(* After a sign-out one access token more may be issued, to the refresh    *)
(* that had read the session before, for the SDK has no second on its way; *)
(* and one for each connection that broke and left a refresh behind.       *)
FewTokensAfterSignOut == \A id \in DOMAIN sessions : issuedDead[id] =< 1 + lost

Working == \E c \in Calls : ~At(c, "idle")

(* What the SDK believes in between calls is no session it signed out of,  *)
(* though the network failed while it did.                                 *)
BelievesLive == ~Working /\ local # NoSession => ~sessions[local]

(* A refresh costs the user the session only if the server has ended it:   *)
(* there is no way back into an anonymous account.                         *)
RefreshKeeps ==
  \A c \in Calls :
    (At(c, "answered") /\ call[c].kind = "refresh" /\ local # NoSession /\ ~sessions[local])
      => (call'[c].at = "idle" => local' # NoSession)
=============================================================================
