----------------------------- MODULE MCReaders -----------------------------
(* Instances of EventStream and Listing for TLC.  They share nothing, so     *)
(* that a behaviour is of one of them, its scene: the other stays as it      *)
(* began.                                                                    *)
EXTENDS EventStream

CONSTANTS s1, a1, w1, w2, r1, Docs, Writers, Limit, Readers, Offsets, MaxWrites, MaxTroubles

VARIABLES scene, docs, clock, task, pages, reads, walk, fixed, settled, since

N(n) == [kind |-> "number", n |-> n]
Null == [kind |-> "null"]
Values == {Null, N(1), N(2), [kind |-> "text", n |-> 1, rest |-> 2]}
Ask(op, value, order) == [op |-> op, value |-> value, order |-> order]
Queries == {Ask("all", Null, order) : order \in {"none", "asc", "desc"}}
             \cup {Ask("!=", Null, "none"), Ask(">=", N(2), "none"), Ask("<", N(2), "desc")}

L == INSTANCE Listing

ASSUME ReadersAssumption == L!ListingAssumption

listingVars == <<docs, clock, task, pages, reads, walk, fixed, settled, since>>

(* Values are left out where nothing asks for them.  Where something does,   *)
(* one write is enough, and one query and two values of a cache; where pages *)
(* are cached, two writes of one writer, none under way when the walk        *)
(* begins; and no page is cached for a walk that never asks for one.         *)
AtRest(writers) == \A w \in writers : task[w].at = "idle"
ValuesIn(S) ==
  /\ \A d \in Docs : docs[d].value \in S
  /\ \A w \in Writers : task[w].at = "write" => task[w].value \in S
PlainEnough == ValuesIn({Null})
QueryEnough ==
  /\ walk.cached => walk.query = Ask("all", Null, "desc") /\ ValuesIn({Null, N(1)})
  /\ clock =< 1 /\ AtRest(Writers \ {w1})
CachedEnough == settled /\ clock =< 2 /\ AtRest(Writers \ {w1})
UncachedEnough ==
  /\ \A w \in Writers : task[w].at = "write" => task[w].byKey
  /\ \A r \in Readers : reads[r].at = "idle"
Enough ==
  /\ IF L!Plain THEN PlainEnough ELSE QueryEnough
  /\ IF walk.cached THEN CachedEnough ELSE UncachedEnough

(* One trouble at a time: of broken connections, changed rules and drops.    *)
(* Whose an operation is matters to an app user only, and no rule to the     *)
(* owner.                                                                    *)
StreamEnough ==
  /\ breaks + rules + drops =< MaxTroubles
  /\ \A s \in Streams : stream[s].who = Owner => rules = 0
  /\ (\E s \in Streams : stream[s].who \in AppUsers) \/ \A i \in DOMAIN written : written[i].owner = Guest

StreamInit ==
  /\ Init
  /\ docs = <<>> /\ clock = 0 /\ task = <<>>
  /\ pages = <<>> /\ reads = <<>> /\ walk = [at |-> "off"]
  /\ fixed = {} /\ settled = TRUE /\ since = {}

ListingInit ==
  /\ L!Init
  /\ Enough
  /\ rule = "none" /\ ops = {} /\ written = <<>> /\ breaks = 0 /\ rules = 0 /\ drops = 0
  /\ stream = [s \in Streams |-> Off(Guest, FALSE, 0)]
  /\ got = [s \in Streams |-> <<>>] /\ leaked = [s \in Streams |-> 0]

MCInit ==
  \/ scene = "stream" /\ StreamInit
  \/ scene = "listing" /\ ListingInit

(* Once a walk has ended, its pages are what they are.                       *)
MCNext ==
  \/ /\ scene = "stream"
     /\ Next
     /\ StreamEnough'
     /\ UNCHANGED <<scene, listingVars>>
  \/ /\ scene = "listing"
     /\ walk.at \in {"off", "walking"}
     /\ L!Next
     /\ Enough'
     /\ UNCHANGED <<scene, vars>>

MCFairness ==
  \A s \in Streams : /\ WF_<<vars, scene>>(scene = "stream" /\ Open(s) /\ UNCHANGED <<scene, listingVars>>)
                     /\ WF_<<vars, scene>>(scene = "stream" /\ Serve(s) /\ UNCHANGED <<scene, listingVars>>)

MCSpec == MCInit /\ [][MCNext]_<<vars, scene, listingVars>> /\ MCFairness

(* A walk misses nothing that stayed and was not written; with nothing       *)
(* written meanwhile, it is the answer cut in pages, in order; if no page    *)
(* came from the cache that was behind the table.                            *)
WalkSound == scene = "listing" => L!WalkComplete /\ L!StaticWalk
(* Not given by the code. *)
WalkCompleteUnsettled == scene = "listing" => L!WalkCompleteUnsettled
WalkCompleteDeleting == scene = "listing" => L!WalkCompleteDeleting
WalkCompleteCached == scene = "listing" => L!WalkCompleteCached
StaticWalkCached == scene = "listing" => L!StaticWalkCached
WalkCompleteQuery == scene = "listing" => L!WalkCompleteQuery
AlwaysAnswers == scene = "listing" => L!AlwaysAnswers
=============================================================================
