-------------------------- MODULE MCCloudRegistry --------------------------
(* Instances of CloudRegistry for TLC.  A behaviour is one of two regimes:  *)
(* "overlap", or "serial", one request at a time without faults.            *)
EXTENDS CloudRegistry, TLC

CONSTANTS c1, c2, u1, u2, g1, g2, n1

VARIABLE regime

Allowed ==
  \/ regime = "overlap" /\ inserts =< 2
     /\ uploads + faults + crashes + scans
          + Cardinality({d \in dbs : d.name = "default"}) =< 2
  \/ /\ regime = "serial" /\ faults = 0 /\ crashes = 0
     /\ \A c, d \in Clients : c = d \/ At(c, "idle") \/ At(d, "idle")

Sym == Permutations(Chats) \cup Permutations(Users) \cup Permutations(Clients)

MCInit == Init /\ regime \in {"overlap", "serial"}
(* A default database is added by a request too, so "serial" has it added    *)
(* between two requests.                                                     *)
MCNext ==
  /\ Next /\ UNCHANGED regime
  /\ Allowed'
  /\ regime = "serial" /\ UNCHANGED task => Quiet
MCSpec == MCInit /\ [][MCNext]_<<vars, regime>>

(* With one request at a time the rows are the marked chats, and a file's    *)
(* message is in its cloud's chat.                                           *)
SerialRowsMatchChats == regime = "serial" => RowsAreMarked /\ FileInItsChat

=============================================================================
