------------------------------ MODULE MCJsonDb ------------------------------
(* Instances of JsonDb for TLC. *)
EXTENDS JsonDb, TLC

CONSTANTS u1, u2, foreign, d1, d2, f, g

Sym == Permutations(Clients)

MCFields == {f, g}
MCValues == {1}
Only(x) == [y \in {x} |-> 1]

Writes(ops, ids, bodies) ==
  {[op |-> o, id |-> d, data |-> b] : o \in ops \ {"delete"}, d \in ids, b \in bodies}
  \cup {[op |-> o, id |-> d, data |-> NoData] : o \in ops \cap {"delete"}, d \in ids}

Single(path, user, app, ws) ==
  {[path |-> path, user |-> user, app |-> app, writes |-> <<w>>] : w \in ws}

Rule(w) == [kind |-> "rules", read |-> "owner", write |-> w]
Needs(x) == [kind |-> "validator",
             validator |-> [max_fields |-> 1, required |-> {x}, allowed |-> {}]]

(* Two app users, a guest of another database, a stranger, a public writer *)
(* and the owner with single writes and batches.                           *)
OverlapRequests ==
  Single("key", None, u1, Writes(Ops, {d1}, {Only(f)}))
  \cup Single("key", None, u2, Writes({"patch"}, {d1}, {Only(g)}))
  \cup Single("key", None, foreign, Writes({"set"}, {d1}, {Only(g)}))
  \cup Single("id", "other", None, Writes({"set"}, {d1}, {Only(g)}))
  \cup Single("id", None, None, Writes({"patch"}, {d1}, {Only(g)}))
  \cup Single("owner", "owner", None, Writes({"set", "delete"}, {d1}, {Only(g)}))
  \cup {[path |-> "owner", user |-> "owner", app |-> None, writes |-> <<v, w>>] :
          v \in Writes({"set", "delete"}, {d1}, {Only(f)}),
          w \in Writes({"create", "patch"}, {d1}, {Only(g)})
                 \cup Writes({"set"}, {d2}, {Only(g)})}
OverlapChanges ==
  {Rule("public"), Rule("document_owner"), Rule("authenticated"), Needs(f)}

(* Two writes of one document and nothing else. *)
TwoWrites == Single("owner", "owner", None, Writes({"set", "patch"}, {d1}, {Only(f), Only(g)}))

(* Batches and single writes through two routers, one request at a time. *)
SerialRequests ==
  Single("key", None, u1, Writes(Ops, {d1}, {Only(f)}))
  \cup Single("owner", "owner", None, Writes({"set", "patch"}, {d1}, {Only(g)}))
  \cup {[path |-> "owner", user |-> "owner", app |-> None, writes |-> <<v, w>>] :
          v \in Writes({"set", "delete"}, {d1}, {Only(g)}),
          w \in Writes({"create", "patch"}, {d1}, {Only(f)})
                 \cup Writes({"set"}, {d2}, {Only(f)})}
SerialChanges == {Rule("public"), Needs(f)}

NoChanges == {}

=============================================================================
