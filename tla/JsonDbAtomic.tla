---------------------------- MODULE JsonDbAtomic ----------------------------
(***************************************************************************)
(* What the document store promises: a request is applied to the rows as   *)
(* they are at one instant, all of its writes or none, and the operation   *)
(* log records exactly what was applied.                                   *)
(***************************************************************************)
EXTENDS JsonRows

CONSTANTS Requests, Changes

VARIABLES coll, docs, log

Init ==
  /\ coll = NewCollection
  /\ docs = [d \in DocIds |-> Absent]
  /\ log = <<>>

(* The rows and the log after the first i writes of r. *)
After(r) ==
  LET after[i \in 0..Len(r.writes)] ==
        IF i = 0 THEN [docs |-> docs, log |-> log]
        ELSE LET w == r.writes[i]
                 row == after[i - 1].docs[w.id]
                 new == NewRow(r, w, row)
             IN [docs |-> [after[i - 1].docs EXCEPT ![w.id] = new],
                 log  |-> Append(after[i - 1].log, Operation(r, w, row, new))]
  IN after

Applicable(r) ==
  \A i \in 1..Len(r.writes) :
    Finds(r.writes[i], After(r)[i - 1].docs[r.writes[i].id])

Apply(r) ==
  /\ Applicable(r)
  /\ docs' = After(r)[Len(r.writes)].docs
  /\ log' = After(r)[Len(r.writes)].log
  /\ UNCHANGED coll

ApplyChange(g) ==
  /\ coll' = IF g.kind = "rules"
               THEN [coll EXCEPT !.read = g.read, !.write = g.write]
               ELSE [coll EXCEPT !.validator = g.validator]
  /\ log' = Append(log, [op |-> g.kind, change |-> g])
  /\ UNCHANGED docs

Next == \/ \E r \in Requests : Apply(r)
        \/ \E g \in Changes : ApplyChange(g)

Spec == Init /\ [][Next]_<<coll, docs, log>>

=============================================================================
