------------------------------ MODULE Listing ------------------------------
(***************************************************************************)
(* Reading a collection page by page (lcloud/api/json_db.py, list and      *)
(* query endpoints of the owner, of a publishable key and by id): a SELECT *)
(* of the live documents, last updated first; for a query a filter and a   *)
(* sort in Python; then the page [offset, offset + limit).                 *)
(*                                                                         *)
(* A client walks: it asks for page after page until one comes back short. *)
(* Meanwhile others write.  A write stamps updated_at before it waits for  *)
(* SQLite's write lock, so that stamps need not follow the order of        *)
(* commits.                                                                *)
(*                                                                         *)
(* The endpoints of the owner and by id answer from a cache that keeps     *)
(* each page by itself, under its limit and offset; those of a publishable *)
(* key read the table.  A page is kept after its session was closed, from  *)
(* what was selected before; writes of the owner and by id drop the        *)
(* collection's pages after their commit, those of a publishable key never *)
(* do.  Which clients put the pages there is left open: readers do.  What  *)
(* the walk itself puts there it never asks for again.                     *)
(***************************************************************************)
EXTENDS Integers, SequencesExt, FiniteSetsExt

CONSTANTS
  Docs,      \* row ids: the tie of two stamps goes to the greater
  Writers,   \* requests that write while the walk lasts
  Values,    \* values the documents have
  Queries,   \* what the walk may ask for
  Limit,     \* body.limit
  Readers,   \* other clients that ask for pages of the same answer
  Offsets,   \* the offsets they ask for
  MaxWrites  \* bound: writes

VARIABLES
  docs,    \* json_documents
  clock,   \* the time stamps are taken from
  task,    \* writer -> the write it has begun
  pages,   \* the cached pages, by offset: [kept, docs, behind]
  reads,   \* reader -> the page it has selected and not cached yet
  walk,    \* the walk: [at, query, cached, offset, seen]
  fixed,   \* history: documents live since the walk began and not written
  settled, \* history: no write was under way when it began
  since    \* history: what happened since then, of "write", "delete" and Races

vars == <<docs, clock, task, pages, reads, walk, fixed, settled, since>>

(* How a page can be behind the table when the walk gets it: a publishable *)
(* key wrote; a commit has not dropped the pages yet; a page selected      *)
(* before a commit was kept after it.                                      *)
Races == {"key", "open", "late"}

(* JSON values: null, numbers and texts; of texts, only the first letter   *)
(* and the rest.                                                           *)
Null == [kind |-> "null"]

ListingAssumption ==
  /\ Docs \subseteq Nat /\ IsFiniteSet(Docs)
  /\ Limit \in Nat \ {0} /\ Offsets \subseteq Nat
  /\ MaxWrites \in Nat

Gone == [live |-> FALSE, updated |-> 0, value |-> Null]
NoPage == [kept |-> FALSE, docs |-> <<>>, behind |-> {}]
NoRead == [at |-> "idle", offset |-> 0, docs |-> <<>>, behind |-> {}]

Init ==
  /\ \E value \in [Docs -> Values], live \in SUBSET Docs :
       docs = [d \in Docs |-> IF d \in live THEN [live |-> TRUE, updated |-> 0, value |-> value[d]]
                                            ELSE Gone]
  /\ clock = 0
  /\ task = [w \in Writers |-> [at |-> "idle"]]
  /\ pages = [o \in Offsets |-> NoPage] /\ reads = [r \in Readers |-> NoRead]
  /\ \E query \in Queries, cached \in BOOLEAN :
       walk = [at |-> "off", query |-> query, cached |-> cached, offset |-> 0, seen |-> <<>>]
  /\ fixed = {} /\ settled = TRUE /\ since = {}

-----------------------------------------------------------------------------
(* Writers *)

Ready == \A w \in Writers : task[w].at # "write"

(* now = _now(): the stamp is taken, the UPDATE waits for the lock.        *)
Begin(w, d, value, byKey) ==
  /\ task[w].at = "idle"
  /\ clock < MaxWrites
  /\ clock' = clock + 1
  /\ task' = [task EXCEPT ![w] = [at |-> "write", doc |-> d, stamp |-> clock', value |-> value,
                                 byKey |-> byKey]]
  /\ UNCHANGED <<docs, pages, reads, walk, fixed, settled, since>>

(* A write is committed, and what was selected before it is behind.        *)
Outdate(w) ==
  LET byKey == task[w].byKey IN
  /\ pages' = [o \in Offsets |->
                 IF pages[o].kept
                 THEN [pages[o] EXCEPT !.behind = @ \cup {IF byKey THEN "key" ELSE "open"}]
                 ELSE pages[o]]
  /\ reads' = [r \in Readers |->
                 IF reads[r].at = "selected"
                 THEN [reads[r] EXCEPT !.behind = @ \cup {IF byKey THEN "key" ELSE "late"}]
                 ELSE reads[r]]
  /\ task' = [task EXCEPT ![w] = [at |-> IF byKey THEN "idle" ELSE "committed"]]

(* A document is created, written anew or revived.                         *)
Commit(w) ==
  LET t == task[w] IN
  /\ t.at = "write"
  /\ docs' = [docs EXCEPT ![t.doc] = [live |-> TRUE, updated |-> t.stamp, value |-> t.value]]
  /\ fixed' = fixed \ {t.doc}
  /\ since' = since \cup {"write"}
  /\ Outdate(w)
  /\ UNCHANGED <<clock, walk, settled>>

Delete(w) ==
  LET t == task[w] IN
  /\ t.at = "write"
  /\ docs[t.doc].live
  /\ docs' = [docs EXCEPT ![t.doc] = Gone]
  /\ fixed' = fixed \ {t.doc}
  /\ since' = since \cup {"write", "delete"}
  /\ Outdate(w)
  /\ UNCHANGED <<clock, walk, settled>>

(* invalidate_json_collection                                              *)
Invalidate(w) ==
  /\ task[w].at = "committed"
  /\ pages' = [o \in Offsets |-> NoPage]
  /\ task' = [task EXCEPT ![w] = [at |-> "idle"]]
  /\ UNCHANGED <<docs, clock, reads, walk, fixed, settled, since>>

-----------------------------------------------------------------------------
(* Answers *)

(* Mutant: the oldest first. *)
NewerOldest(d, e) ==
  docs[d].updated < docs[e].updated \/ (docs[d].updated = docs[e].updated /\ d < e)
(* order_by(updated_at.desc(), id.desc())                                  *)
Newer(d, e) ==
  docs[d].updated > docs[e].updated \/ (docs[d].updated = docs[e].updated /\ d > e)

Same(v, w) == v.kind = w.kind /\ v = w
Below(v, w) ==
  /\ v.kind = w.kind
  /\ v.n < w.n \/ (v.kind = "text" /\ v.n = w.n /\ v.rest < w.rest)

(* _compare: no order between kinds, and null is in none.                  *)
Compare(left, op, right) ==
  \/ op = "all"
  \/ op = "==" /\ Same(left, right)
  \/ op = "!=" /\ ~Same(left, right)
  \/ op = "contains" /\ left.kind = "text" /\ right.kind = "text" /\ right.n \in {left.n, left.rest}
  \/ op = "startsWith" /\ left.kind = "text" /\ right.kind = "text" /\ left.n = right.n
  \/ /\ left.kind # "null" /\ left.kind = right.kind
     /\ \/ op = "<" /\ Below(left, right)
        \/ op = "<=" /\ ~Below(right, left)
        \/ op = ">" /\ Below(right, left)
        \/ op = ">=" /\ ~Below(left, right)

Matched(query) == {d \in Docs : docs[d].live /\ Compare(docs[d].value, query.op, query.value)}

(* The key of the sort: (is null, value).                                  *)
KeyBelow(v, w) ==
  \/ v.kind # "null" /\ w.kind = "null"
  \/ v.kind # "null" /\ w.kind # "null" /\ Below(v, w)
Precedes(v, w, order) == IF order = "desc" THEN KeyBelow(w, v) ELSE KeyBelow(v, w)

(* Values of two kinds: "<" raises TypeError, and the answer is 500.       *)
Incomparable(S) ==
  \E d, e \in S : {docs[d].value.kind, docs[e].value.kind} = {"number", "text"}

(* list.sort is stable, reverse or not: a tie stays as it was selected.    *)
Before(d, e, order) ==
  LET v == docs[d].value  w == docs[e].value IN
  IF order = "none" THEN Newer(d, e)
  ELSE Precedes(v, w, order) \/ (~Precedes(w, v, order) /\ Newer(d, e))

(* The matches in order: the one with i - 1 before it is the i-th.         *)
Ahead(query, d) == {e \in Matched(query) : Before(e, d, query.order)}
Answer(query) ==
  [i \in 1..Cardinality(Matched(query)) |->
     CHOOSE d \in Matched(query) : Cardinality(Ahead(query, d)) = i - 1]

(* Mutant: the slice is one longer than the page. *)
SliceLong(seq, offset) == SubSeq(seq, offset + 1, Min({offset + Limit + 1, Len(seq)}))
Slice(seq, offset) == SubSeq(seq, offset + 1, Min({offset + Limit, Len(seq)}))

Fails(query) == query.order # "none" /\ Incomparable(Matched(query))

-----------------------------------------------------------------------------
(* Other readers *)

(* cache.get finds nothing; the page is selected.                          *)
Read(r, offset) ==
  /\ reads[r].at = "idle"
  /\ ~pages[offset].kept /\ ~Fails(walk.query)
  /\ reads' = [reads EXCEPT ![r] = [at |-> "selected", offset |-> offset,
                                   docs |-> Slice(Answer(walk.query), offset), behind |-> {}]]
  /\ UNCHANGED <<docs, clock, task, pages, walk, fixed, settled, since>>

(* cache.set                                                               *)
Keep(r) ==
  LET page == reads[r] IN
  /\ page.at = "selected"
  /\ pages' = [pages EXCEPT ![page.offset] =
                 [kept |-> TRUE, docs |-> page.docs, behind |-> page.behind]]
  /\ reads' = [reads EXCEPT ![r] = NoRead]
  /\ UNCHANGED <<docs, clock, task, walk, fixed, settled, since>>

(* Ten seconds have passed, or the entry was evicted.                      *)
Forget(offset) ==
  /\ pages[offset].kept
  /\ pages' = [pages EXCEPT ![offset] = NoPage]
  /\ UNCHANGED <<docs, clock, task, reads, walk, fixed, settled, since>>

-----------------------------------------------------------------------------
(* The walk *)

Start ==
  /\ walk.at = "off"
  /\ walk' = [walk EXCEPT !.at = "walking"]
  /\ fixed' = {d \in Docs : docs[d].live}
  /\ settled' = Ready
  /\ since' = {}
  /\ UNCHANGED <<docs, clock, task, pages, reads>>

Turn(page) ==
  walk' = [walk EXCEPT !.seen = @ \o page,
                       !.offset = @ + Limit,
                       !.at = IF Len(page) < Limit THEN "done" ELSE @]

InCache == walk.cached /\ walk.offset \in Offsets /\ pages[walk.offset].kept

ReadPage ==
  /\ walk.at = "walking" /\ ~InCache
  /\ IF Fails(walk.query) THEN walk' = [walk EXCEPT !.at = "failed"]
                          ELSE Turn(Slice(Answer(walk.query), walk.offset))
  /\ UNCHANGED <<docs, clock, task, pages, reads, fixed, settled, since>>

ReadCached ==
  /\ walk.at = "walking" /\ InCache
  /\ Turn(pages[walk.offset].docs)
  /\ since' = since \cup pages[walk.offset].behind
  /\ UNCHANGED <<docs, clock, task, pages, reads, fixed, settled>>

Next ==
  \/ \E w \in Writers, d \in Docs, value \in Values, byKey \in BOOLEAN : Begin(w, d, value, byKey)
  \/ \E w \in Writers : Commit(w) \/ Delete(w) \/ Invalidate(w)
  \/ \E r \in Readers, offset \in Offsets : Read(r, offset)
  \/ \E r \in Readers : Keep(r)
  \/ \E offset \in Offsets : Forget(offset)
  \/ Start \/ ReadPage \/ ReadCached

Spec == Init /\ [][Next]_vars

-----------------------------------------------------------------------------
(* Properties *)

Done == walk.at = "done"
Plain == walk.query.op = "all" /\ walk.query.order = "none"

(* No page the walk was given was behind the table.                        *)
Current == since \cap Races = {}

(* A walk over the whole collection misses no document that was there all  *)
(* along and nobody wrote, though documents are created and updated while  *)
(* it lasts: what is written moves to the front, and pages only repeat.    *)
(* It holds if no write was under way when the walk began, nothing is      *)
(* deleted, and no page that one of the races left behind was met in the   *)
(* cache.                                                                  *)
WalkComplete ==
  Done /\ Plain /\ settled /\ "delete" \notin since /\ Current => fixed \subseteq ToSet(walk.seen)

Ordered(d, e, order) ==
  LET v == docs[d].value  w == docs[e].value IN
  CASE order = "none" -> ~Newer(e, d)
    [] order = "asc" -> /\ v.kind = "null" => w.kind = "null"
                        /\ w.kind # "null" => ~Below(w, v)
                        /\ v = w => Newer(d, e)
    [] order = "desc" -> /\ w.kind = "null" => v.kind = "null"
                         /\ v.kind # "null" => ~Below(v, w)
                         /\ v = w => Newer(d, e)

(* If nothing is written meanwhile, and no page was behind from before,    *)
(* the pages put together are the matches, each once and in the order      *)
(* asked for.                                                              *)
IsAnswer ==
  /\ ToSet(walk.seen) = Matched(walk.query)
  /\ \A i, j \in DOMAIN walk.seen : i < j =>
       walk.seen[i] # walk.seen[j] /\ Ordered(walk.seen[i], walk.seen[j], walk.query.order)
StaticWalk == Done /\ since = {} => IsAnswer

(* What the code does not give: complete walks whatever is done meanwhile, *)
(* whatever the cache holds, and under any query; the answer in pages      *)
(* though nothing is written; and an answer to every query.                *)
WalkCompleteUnsettled ==
  Done /\ Plain /\ "delete" \notin since /\ Current => fixed \subseteq ToSet(walk.seen)
WalkCompleteDeleting == Done /\ Plain /\ settled /\ Current => fixed \subseteq ToSet(walk.seen)
WalkCompleteCached ==
  Done /\ Plain /\ settled /\ "delete" \notin since => fixed \subseteq ToSet(walk.seen)
StaticWalkCached == Done /\ "write" \notin since => IsAnswer
WalkCompleteQuery ==
  Done /\ settled /\ "delete" \notin since /\ Current =>
    fixed \cap Matched(walk.query) \subseteq ToSet(walk.seen)
AlwaysAnswers == walk.at # "failed"
=============================================================================
