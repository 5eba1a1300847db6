---------------------------- MODULE EventStream ----------------------------
(***************************************************************************)
(* The change stream of one collection (lcloud/api/json_db.py,             *)
(* _stream_collection_events and its three endpoints; sdk/src/realtime.ts).*)
(*                                                                         *)
(* A stream polls: one SELECT of the collection, whose read rule is        *)
(* checked, then one SELECT of the operations above the last id it sent,   *)
(* a page at most, sent frame by frame after the session is closed.  The   *)
(* two SELECTs run outside a transaction.  A connection may break at any   *)
(* time and takes the rest of the page with it.  A client comes back with  *)
(* ?since=, the id it saw last; or, as EventSource does, with the URL it   *)
(* first opened, for the endpoints do not read Last-Event-ID.              *)
(*                                                                         *)
(* Operations get SQLite's ids: one more than the largest in the table.    *)
(* Dropping the collection takes its operations along, and the one created *)
(* in its place may have its id (no AUTOINCREMENT), so that streams go on. *)
(* Writes are atomic here, whose order is the order of ids: the INSERT     *)
(* holds SQLite's write lock until the commit (JsonDb).                    *)
(***************************************************************************)
EXTENDS Integers, SequencesExt, FiniteSetsExt

CONSTANTS
  Streams,    \* clients that watch
  AppUsers,   \* writers the operations are logged with; a stream may belong to one
  Guest,      \* a client without a session, and the owner_uid NULL
  Owner,      \* the owner of the database
  Page,       \* EVENT_STREAM_BATCH_LIMIT
  MaxOps,     \* bound: operations written
  MaxBreaks,  \* bound: broken connections
  MaxRules,   \* bound: changes of the read rule
  MaxDrops    \* bound: collections dropped

VARIABLES
  rule,    \* read_rule, or "none" while there is no collection
  ops,     \* json_operations: a set of [id, owner, tag, mine]
  stream,  \* client -> what its stream is at
  got,     \* client -> tags of the operations it received
  written, \* history: tag of an operation -> the owner and the rule it was written with
  leaked,  \* history: client -> frames of operations hidden when written and when sent
  breaks, rules, drops \* how often things happened

vars == <<rule, ops, stream, got, written, leaked, breaks, rules, drops>>

Rules == {"public", "authenticated", "document_owner", "private"}

ASSUME EventStreamAssumption ==
  /\ Guest # Owner /\ {Guest, Owner} \cap AppUsers = {}
  /\ Page \in Nat \ {0}
  /\ {MaxOps, MaxBreaks, MaxRules, MaxDrops} \subseteq Nat

At(s, place) == stream[s].at = place
Goto(s, t) == stream' = [stream EXCEPT ![s] = t]

(* who: the principal the stream is opened for, kept while it lasts.       *)
Off(who, resumes, since) ==
  [at |-> "off", who |-> who, resumes |-> resumes, since |-> since,
   last |-> 0, page |-> {}, under |-> "none"]

Init ==
  /\ rule \in {"public", "document_owner"}
  /\ ops = {}
  /\ \E who \in [Streams -> AppUsers \cup {Guest, Owner}], resumes \in [Streams -> BOOLEAN] :
       stream = [s \in Streams |-> Off(who[s], resumes[s], 0)]
  /\ got = [s \in Streams |-> <<>>]
  /\ written = <<>>
  /\ leaked = [s \in Streams |-> 0]
  /\ breaks = 0 /\ rules = 0 /\ drops = 0

MayRead(who, r) ==
  \/ who = Owner
  \/ r = "public"
  \/ r \in {"authenticated", "document_owner"} /\ who # Guest
(* The filter on owner_uid, for sessions of app users only.                *)
Sees(who, r, op) == r = "document_owner" /\ who \in AppUsers => op.owner = who
Visible(who, r, op) == MayRead(who, r) /\ Sees(who, r, op)

-----------------------------------------------------------------------------
(* The collection *)

NextId == 1 + Max({0} \cup {op.id : op \in ops})

Write(owner) ==
  /\ rule # "none"
  /\ Len(written) < MaxOps
  /\ written' = Append(written, [owner |-> owner, rule |-> rule])
  /\ ops' = ops \cup {[id |-> NextId, owner |-> owner, tag |-> Len(written'), mine |-> TRUE]}
  /\ UNCHANGED <<rule, stream, got, leaked, breaks, rules, drops>>

(* Another collection's operation takes an id of the same table.           *)
WriteElsewhere ==
  /\ Cardinality(ops) < MaxOps
  /\ \A op \in ops : op.mine
  /\ ops' = ops \cup {[id |-> NextId, owner |-> Guest, tag |-> 0, mine |-> FALSE]}
  /\ UNCHANGED <<rule, stream, got, written, leaked, breaks, rules, drops>>

SetRule(r) ==
  /\ rule # "none" /\ r # rule
  /\ rules < MaxRules
  /\ rules' = rules + 1
  /\ rule' = r
  /\ UNCHANGED <<ops, stream, got, written, leaked, breaks, drops>>

Drop ==
  /\ rule # "none"
  /\ drops < MaxDrops
  /\ drops' = drops + 1
  /\ rule' = "none"
  /\ ops' = {op \in ops : ~op.mine}
  /\ UNCHANGED <<stream, got, written, leaked, breaks, rules>>

CreateAgain ==
  /\ rule = "none"
  /\ rule' \in Rules
  /\ UNCHANGED <<ops, stream, got, written, leaked, breaks, rules, drops>>

-----------------------------------------------------------------------------
(* A stream *)

Open(s) ==
  /\ At(s, "off")
  /\ rule # "none" /\ MayRead(stream[s].who, rule)
  /\ Goto(s, [stream[s] EXCEPT !.at = "poll", !.last = stream[s].since])
  /\ UNCHANGED <<rule, ops, got, written, leaked, breaks, rules, drops>>

Closed(s) == Off(stream[s].who, stream[s].resumes, stream[s].since)

(* Mutant: the rule is checked when the stream is opened only. *)
AllowedOnce(s) == TRUE
Allowed(s) == rule # "none" /\ MayRead(stream[s].who, rule)

(* SELECT of the collection; 404 or 403 ends the stream.                   *)
CheckRule(s) ==
  /\ At(s, "poll")
  /\ Goto(s, IF Allowed(s)
             THEN [stream[s] EXCEPT !.at = "checked", !.under = rule]
             ELSE Closed(s))
  /\ UNCHANGED <<rule, ops, got, written, leaked, breaks, rules, drops>>

(* Mutant: the page starts at the last id once more. *)
NewFrom(s) ==
  {op \in ops : op.mine /\ op.id >= stream[s].last /\ Sees(stream[s].who, stream[s].under, op)}
New(s) ==
  {op \in ops : op.mine /\ op.id > stream[s].last /\ Sees(stream[s].who, stream[s].under, op)}

(* ORDER BY id LIMIT, and the frame that is sent next.                     *)
FirstPage(S) == {op \in S : Cardinality({o \in S : o.id < op.id}) < Page}
First(S) == CHOOSE op \in S : \A o \in S : op.id =< o.id

(* SELECT of the operations; nothing new sends a keepalive.                *)
SelectOps(s) ==
  /\ At(s, "checked")
  /\ Goto(s, [stream[s] EXCEPT !.at = IF New(s) = {} THEN "sleep" ELSE "send",
                               !.page = FirstPage(New(s))])
  /\ UNCHANGED <<rule, ops, got, written, leaked, breaks, rules, drops>>

(* Mutant: the cursor moves past everything there is, sent or not. *)
SentToEnd(s) ==
  IF Cardinality(stream[s].page) = 1 THEN NextId - 1 ELSE First(stream[s].page).id
Sent(s) == First(stream[s].page).id

HiddenWhenWritten(s, tag) == ~Visible(stream[s].who, written[tag].rule, written[tag])
HiddenNow(s, tag) == ~Visible(stream[s].who, rule, written[tag])

(* One frame; what a client that resumes will ask for next is its id.      *)
Send(s) ==
  LET op == First(stream[s].page)
      rest == stream[s].page \ {op}
  IN
  /\ At(s, "send")
  /\ got' = [got EXCEPT ![s] = Append(@, op.tag)]
  /\ leaked' = [leaked EXCEPT ![s] =
                  @ + IF HiddenWhenWritten(s, op.tag) /\ HiddenNow(s, op.tag) THEN 1 ELSE 0]
  /\ Goto(s, [stream[s] EXCEPT !.last = Sent(s), !.page = rest,
                !.since = IF stream[s].resumes THEN Sent(s) ELSE @,
                !.at = IF rest = {} THEN "sleep" ELSE "send"])
  /\ UNCHANGED <<rule, ops, written, breaks, rules, drops>>

(* EVENT_STREAM_POLL_SECONDS pass.                                         *)
Sleep(s) ==
  /\ At(s, "sleep")
  /\ Goto(s, [stream[s] EXCEPT !.at = "poll"])
  /\ UNCHANGED <<rule, ops, got, written, leaked, breaks, rules, drops>>

Break(s) ==
  /\ ~At(s, "off")
  /\ breaks < MaxBreaks
  /\ breaks' = breaks + 1
  /\ Goto(s, Closed(s))
  /\ UNCHANGED <<rule, ops, got, written, leaked, rules, drops>>

Serve(s) == CheckRule(s) \/ SelectOps(s) \/ Send(s) \/ Sleep(s)

Next ==
  \/ \E owner \in AppUsers \cup {Guest} : Write(owner)
  \/ WriteElsewhere
  \/ \E r \in Rules : SetRule(r)
  \/ Drop \/ CreateAgain
  \/ \E s \in Streams : Open(s) \/ Serve(s) \/ Break(s)

(* The server's loop goes on, and a client whose connection broke comes    *)
(* back.                                                                   *)
Fairness == \A s \in Streams : WF_vars(Open(s)) /\ WF_vars(Serve(s))

Spec == Init /\ [][Next]_vars /\ Fairness

-----------------------------------------------------------------------------
(* Properties *)

TypeOK ==
  /\ rule \in Rules \cup {"none"}
  /\ ops \subseteq [id : Nat \ {0}, owner : AppUsers \cup {Guest}, tag : Nat, mine : BOOLEAN]
  /\ \A op, o \in ops : op.id = o.id => op = o
  /\ \A s \in Streams : At(s, "send") <=> stream[s].page # {}
  /\ \A s \in Streams : got[s] \in Seq(1..Len(written))

Untouched == rules = 0 /\ drops = 0

(* The operations a stream under a rule that never changed should have.    *)
Due(s) ==
  {op.tag : op \in {o \in ops : o.mine /\ o.id =< stream[s].since /\ Sees(stream[s].who, rule, o)}}

(* "Use `since=<last_event_id>` to resume after reconnect": a client that  *)
(* does has every operation it may see up to there, once and in order,     *)
(* wherever connections broke and pages ended.                             *)
NoGapNoRepeat ==
  \A s \in Streams : Untouched /\ stream[s].resumes =>
    /\ ToSet(got[s]) = Due(s)
    /\ \A i, j \in DOMAIN got[s] : i < j => got[s][i] < got[s][j]

(* A poll checks the rule before it reads, so a rule that is tightened     *)
(* while it runs, or a collection dropped, lets a page through of what the *)
(* client was never to see: one for each such change, no more.             *)
LeakBounded == \A s \in Streams : leaked[s] =< Page * (rules + drops)

(* Whatever is written arrives, once and for all, though connections break.*)
Delivered ==
  \A s \in Streams : \A tag \in 1..MaxOps :
    (tag \in DOMAIN written /\ Untouched /\ stream[s].resumes /\ ~HiddenNow(s, tag))
      ~> (Contains(got[s], tag) \/ ~Untouched)

(* What an SDK watcher might expect and the code does not give: EventSource*)
(* reconnects with the URL it opened, and gets everything since once more; *)
(* a leak of nothing at all; and delivery though the collection is dropped *)
(* and created again, for ids start over below the client's.               *)
NoRepeat ==
  \A s \in Streams : \A i, j \in DOMAIN got[s] : i # j => got[s][i] # got[s][j]
NothingLeaks == \A s \in Streams : leaked[s] = 0
DeliveredAlways ==
  \A s \in Streams : \A tag \in 1..MaxOps :
    (tag \in DOMAIN written /\ rules = 0 /\ rule # "none" /\ stream[s].resumes
       /\ (\E op \in ops : op.tag = tag) /\ ~HiddenNow(s, tag))
      ~> (Contains(got[s], tag) \/ (\A op \in ops : op.tag # tag) \/ rules # 0)

=============================================================================
