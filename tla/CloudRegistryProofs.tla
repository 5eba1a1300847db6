------------------------ MODULE CloudRegistryProofs ------------------------
(***************************************************************************)
(* What is proved of MCCloudRegistry, for every set of clients, chats,     *)
(* users and names, and every bound: a database's cloud is its owner's,    *)
(* a scan that ends has missed nothing, and with one request at a time     *)
(* the rows are the marked chats.                                          *)
(***************************************************************************)
EXTENDS MCCloudRegistry, WellFoundedInduction, TLAPS

-----------------------------------------------------------------------------
(* Lemmas about the operators of the model *)

(* A set of naturals with a bound has a greatest element: what Max chooses. *)
LEMMA Greatest ==
  ASSUME NEW S \in SUBSET Nat, 0 \in S, NEW n \in Nat, \A s \in S : s =< n
  PROVE  \E x \in S : \A y \in S : x >= y
<1> DEFINE R == {p \in Nat \X Nat : p[1] < p[2]}
           U == {m \in Nat : \A s \in S : s =< m}
<1>1. IsWellFoundedOn(R, Nat)
  BY NatLessThanWellFounded DEF OpToRel
<1>2. U \subseteq Nat /\ U # {}
  OBVIOUS
<1>3. PICK m \in U : \A y \in U : <<y, m>> \notin R
  <2> HIDE DEF U, R
  <2> QED BY <1>1, <1>2, WFMin
<1>4. \A y \in U : m =< y
  <2> TAKE y \in U
  <2>1. y \in Nat /\ m \in Nat /\ <<y, m>> \in Nat \X Nat /\ <<y, m>>[1] = y /\ <<y, m>>[2] = m
    OBVIOUS
  <2>2. ~ (y < m)
    BY <1>3, <2>1
  <2> QED BY <2>1, <2>2
<1>5. m \in S
  <2>1. SUFFICES ASSUME m \notin S PROVE FALSE
    OBVIOUS
  <2>2. m \in Nat /\ m # 0 /\ \A s \in S : s =< m /\ s # m
    BY <2>1
  <2>3. m - 1 \in U
    BY <2>2
  <2> QED BY <2>2, <2>3, <1>4
<1> QED BY <1>5

Ids == Nat \ {0}
Bounded == \E n \in Nat : \A id \in DOMAIN clouds : id =< n

(* The next rowid is no id there is.                                       *)
LEMMA NextIsFresh ==
  ASSUME DOMAIN clouds \subseteq Ids, Bounded
  PROVE  NextId \in Ids /\ \A id \in DOMAIN clouds : id < NextId
<1> DEFINE S == {0} \cup DOMAIN clouds
<1>1. PICK n \in Nat : \A s \in S : s =< n
  BY SMTT(30) DEF Bounded, Ids
<1>2. S \in SUBSET Nat /\ 0 \in S
  BY DEF Ids
<1>3. \E x \in S : \A y \in S : x >= y
  <2> HIDE DEF S
  <2> QED BY <1>1, <1>2, Greatest
<1>4. Max(S) \in S /\ \A y \in S : Max(S) >= y
  BY <1>3 DEF Max
<1>5. NextId = 1 + Max(S)
  BY DEF NextId
<1> QED BY <1>2, <1>4, <1>5 DEF Ids

-----------------------------------------------------------------------------
(* Types *)

Viewers == Users \cup {Nobody}
Names == DbNames \cup {"none"}
Asks(t) == t.user = Nobody => t.name = "none"
Creating == {t \in [at : {"creating"}, user : Viewers, name : Names] : Asks(t)}
Marking == {t \in [at : {"marking", "inserting"}, user : Viewers, name : Names, chat : Chats] : Asks(t)}
Clearing == [at : {"clearing", "deleting"}, user : Viewers, id : Nat, chat : Chats]
Uploading == [at : {"uploading"}, id : Nat, chat : Chats]
Walking == [at : {"dialogs"}, left : SUBSET Chats]
Finding == [at : {"found"}, left : SUBSET Chats, chat : Chats]
Looking == [at : {"looked"}, left : SUBSET Chats, chat : Chats, row : SUBSET Nat]
Tasks == {Idle} \cup Creating \cup Marking \cup Clearing \cup Uploading
           \cup Walking \cup Finding \cup Looking

Rows == [chat : Chats, user : Viewers]

TypeInv ==
  /\ clouds \in [DOMAIN clouds -> Rows]
  /\ DOMAIN clouds \subseteq Ids
  /\ Bounded
  /\ dbs \subseteq Database
  /\ files \subseteq [cloud : DOMAIN clouds, chat : Chats]
  /\ chats \in [Chats -> {"absent", "plain", "marked"}]
  /\ task \in [Clients -> Tasks]
  /\ steady \subseteq Chats

(* Where a request is says which record it has.                            *)
LEMMA Places ==
  ASSUME TypeInv, NEW c \in Clients
  PROVE  /\ At(c, "creating") => task[c] \in Creating
         /\ At(c, "marking") \/ At(c, "inserting") => task[c] \in Marking
         /\ At(c, "clearing") \/ At(c, "deleting") => task[c] \in Clearing
         /\ At(c, "uploading") => task[c] \in Uploading
         /\ At(c, "dialogs") => task[c] \in Walking
         /\ At(c, "found") => task[c] \in Finding
         /\ At(c, "looked") => task[c] \in Looking
BY DEF TypeInv, At, Tasks, Idle, Creating, Marking, Clearing, Uploading, Walking, Finding, Looking

(* A request that goes somewhere goes there alone.                         *)
LEMMA Went ==
  ASSUME TypeInv, NEW c \in Clients, NEW t \in Tasks, Goto(c, t)
  PROVE  /\ task' \in [Clients -> Tasks]
         /\ task'[c] = t
         /\ \A d \in Clients : d # c => task'[d] = task[d]
BY DEF TypeInv, Goto

(* What a call of Telegram may do to a chat.                               *)
LEMMA Rewritten ==
  ASSUME TypeInv, NEW ch \in Chats, NEW to \in {"absent", "plain", "marked"}, Described(ch, to)
  PROVE  /\ chats' \in [Chats -> {"absent", "plain", "marked"}]
         /\ chats'[ch] = to
         /\ \A other \in Chats : other # ch => chats'[other] = chats[other]
BY DEF TypeInv, Described

(* Rows that stay what they are keep their types.                          *)
LEMMA SameTables ==
  ASSUME TypeInv, UNCHANGED tables, task' \in [Clients -> Tasks], steady' \subseteq Chats,
         chats' \in [Chats -> {"absent", "plain", "marked"}]
  PROVE  TypeInv'
BY DEF TypeInv, tables, Bounded

(* What inserting a row does.                                              *)
LEMMA Inserted ==
  ASSUME TypeInv, NEW row \in Rows, clouds' = WithRow(row)
  PROVE  /\ DOMAIN clouds' = DOMAIN clouds \cup {NextId}
         /\ NextId \in Ids /\ NextId \notin DOMAIN clouds
         /\ clouds'[NextId] = row
         /\ \A id \in DOMAIN clouds : clouds'[id] = clouds[id]
         /\ clouds' \in [DOMAIN clouds' -> Rows]
         /\ Bounded'
<1>1. NextId \in Ids /\ \A id \in DOMAIN clouds : id < NextId
  BY NextIsFresh DEF TypeInv
<1>2. NextId \notin DOMAIN clouds
  BY <1>1 DEF Ids
<1>3. /\ DOMAIN clouds' = DOMAIN clouds \cup {NextId}
      /\ clouds'[NextId] = row
      /\ \A id \in DOMAIN clouds : clouds'[id] = clouds[id]
      /\ clouds' \in [DOMAIN clouds' -> Rows]
  BY <1>2 DEF TypeInv, WithRow
<1>4. \A id \in DOMAIN clouds' : id =< NextId
  BY <1>1, <1>3 DEF TypeInv, Ids
<1>5. Bounded'
  BY <1>1, <1>4 DEF Bounded, Ids
<1> QED BY <1>1, <1>2, <1>3, <1>5

LEMMA TypeInit == Init => TypeInv
<1> SUFFICES ASSUME Init PROVE TypeInv
  OBVIOUS
<1>1. clouds = <<>> /\ DOMAIN clouds = {}
  BY DEF Init
<1>2. clouds \in [DOMAIN clouds -> Rows] /\ DOMAIN clouds \subseteq Ids
  BY <1>1
<1>3. Bounded
  BY <1>1 DEF Bounded
<1>4. task \in [Clients -> Tasks] /\ chats \in [Chats -> {"absent", "plain", "marked"}]
  BY DEF Init, Tasks
<1> QED BY <1>1, <1>2, <1>3, <1>4 DEF Init, TypeInv

(* Every action keeps the types.                                           *)
LEMMA TypeStep ==
  ASSUME TypeInv, Next
  PROVE  TypeInv'
<1> DEFINE Statuses == {"absent", "plain", "marked"}
<1>0. Idle \in Tasks
  BY DEF Tasks
<1>c. chats \in [Chats -> Statuses] /\ steady \subseteq Chats
  BY DEF TypeInv
<1>d. \A ch \in Chats, to \in Statuses : Described(ch, to) => chats' \in [Chats -> Statuses]
  BY Rewritten
<1>f. \A ch \in Chats, to \in Statuses : Fails(Described(ch, to)) => chats' \in [Chats -> Statuses]
  BY <1>c, <1>d DEF Fails
<1> HIDE DEF Statuses
<1>s. {"absent", "plain", "marked"} = Statuses
  BY DEF Statuses
<1>r. \A id \in DOMAIN clouds : id \in Nat /\ clouds[id] \in Rows /\ clouds[id].chat \in Chats
                               /\ clouds[id].user \in Viewers
  BY DEF TypeInv, Ids, Rows
<1>1. ASSUME NEW c \in Clients, AskCloud(c) PROVE TypeInv'
  <2>1. PICK t \in Tasks : Goto(c, t)
    BY <1>1 DEF AskCloud, Tasks, Creating, Asks, Viewers, Names
  <2> QED BY <1>1, <1>c, <1>s, <2>1, Went, SameTables DEF AskCloud
<1>2. ASSUME NEW c \in Clients, CreateChat(c) PROVE TypeInv'
  <2>1. task[c] \in Creating
    BY <1>2, Places DEF CreateChat
  <2>2. PICK ch \in Chats : /\ Described(ch, "plain")
                            /\ Goto(c, [at |-> "marking", user |-> task[c].user, name |-> task[c].name, chat |-> ch])
    BY <1>2 DEF CreateChat
  <2>3. [at |-> "marking", user |-> task[c].user, name |-> task[c].name, chat |-> ch] \in Tasks
    BY <2>1 DEF Tasks, Creating, Marking, Asks
  <2> QED BY <1>2, <1>c, <1>d, <1>s, <2>2, <2>3, Went, SameTables DEF CreateChat
<1>3. ASSUME NEW c \in Clients, CreateChatFails(c) PROVE TypeInv'
  BY <1>0, <1>3, <1>c, <1>f, <1>s, Went, SameTables DEF CreateChatFails
<1>4. ASSUME NEW c \in Clients, Connect(c) PROVE TypeInv'
  <2>1. PICK t \in Tasks : Goto(c, t)
    BY <1>4 DEF Connect, Tasks, Marking, Asks, Viewers, Names
  <2> QED BY <1>4, <1>c, <1>s, <2>1, Went, SameTables DEF Connect
<1>5. ASSUME NEW c \in Clients, Mark(c) PROVE TypeInv'
  <2>1. task[c] \in Marking
    BY <1>5, Places DEF Mark
  <2>2. [task[c] EXCEPT !.at = "inserting"] \in Tasks /\ task[c].chat \in Chats
    BY <2>1 DEF Tasks, Marking, Asks
  <2> QED BY <1>5, <1>c, <1>d, <1>s, <2>2, Went, SameTables DEF Mark
<1>6. ASSUME NEW c \in Clients, MarkFails(c) PROVE TypeInv'
  <2>1. task[c].chat \in Chats
    BY <1>6, Places DEF MarkFails, Marking
  <2> QED BY <1>0, <1>6, <1>c, <1>f, <1>s, <2>1, Went, SameTables DEF MarkFails
<1>7. ASSUME NEW c \in Clients, InsertRow(c) PROVE TypeInv'
  <2> DEFINE t == task[c]
  <2>1. t \in Marking /\ t.chat \in Chats /\ t.user \in Viewers /\ t.name \in Names /\ Asks(t)
    BY <1>7, Places DEF InsertRow, Marking
  <2>2. task' \in [Clients -> Tasks] /\ UNCHANGED <<files, chats, steady>>
    BY <1>7, <1>0, Went DEF InsertRow
  <2>3. CASE UNCHANGED <<clouds, dbs, inserts>>
    BY <2>2, <2>3, <1>c, <1>s, SameTables DEF tables
  <2>4. CASE /\ clouds' = WithRow([chat |-> t.chat, user |-> t.user])
             /\ dbs' = dbs \cup NewDatabase(t, NextId)
    <3>1. [chat |-> t.chat, user |-> t.user] \in Rows
      BY <2>1 DEF Rows
    <3>2. /\ DOMAIN clouds' = DOMAIN clouds \cup {NextId} /\ NextId \in Ids
          /\ clouds' \in [DOMAIN clouds' -> Rows]
          /\ Bounded'
      BY <2>4, <3>1, Inserted
    <3>3. NewDatabase(t, NextId) \subseteq Database
      BY <2>1, <3>2 DEF NewDatabase, Database, Viewers, Names, Ids, Asks
    <3> QED BY <2>2, <2>4, <3>2, <3>3 DEF TypeInv
  <2> QED BY <1>7, <2>3, <2>4 DEF InsertRow

<1>8. ASSUME NEW u \in Users, AddDefaultDatabase(u) PROVE TypeInv'
  <2>1. [user |-> u, name |-> "default", cloud |-> NoCloud] \in Database
    BY DEF Database
  <2> QED BY <1>8, <2>1 DEF AddDefaultDatabase, TypeInv, Bounded
<1>9. ASSUME NEW c \in Clients, Locate(c) PROVE TypeInv'
  <2>1. PICK t \in Tasks : Goto(c, t)
    BY <1>9, <1>r DEF Locate, Tasks, Clearing, Viewers
  <2> QED BY <1>9, <1>c, <1>s, <2>1, Went, SameTables DEF Locate
<1>10. ASSUME NEW c \in Clients, ClearMarker(c) \/ ClearMarkerFails(c) PROVE TypeInv'
  <2>1. task[c] \in Clearing
    BY <1>10, Places DEF ClearMarker, ClearMarkerFails
  <2>2. [task[c] EXCEPT !.at = "deleting"] \in Tasks /\ task[c].chat \in Chats
    BY <2>1 DEF Tasks, Clearing
  <2>3. chats' \in [Chats -> Statuses]
    BY <1>10, <1>d, <1>f, <1>s, <2>2 DEF ClearMarker, ClearMarkerFails
  <2>4. task' \in [Clients -> Tasks] /\ steady' \subseteq Chats /\ UNCHANGED tables
    BY <1>10, <1>c, <2>2, Went DEF ClearMarker, ClearMarkerFails
  <2> QED BY <1>s, <2>3, <2>4, SameTables
<1>11. ASSUME NEW c \in Clients, DeleteRow(c) PROVE TypeInv'
  <2> DEFINE id == task[c].id
  <2>1. task' \in [Clients -> Tasks] /\ UNCHANGED <<files, chats>>
    BY <1>11, <1>0, Went DEF DeleteRow
  <2>2. CASE UNCHANGED <<clouds, dbs, steady>>
    BY <2>1, <2>2, <1>c, <1>s, SameTables DEF tables
  <2>3. CASE /\ id \in DOMAIN clouds /\ ~Referred(id)
             /\ clouds' = Restrict(clouds, DOMAIN clouds \ {id})
             /\ dbs' = Detached(id)
             /\ steady' = steady \ {clouds[id].chat}
    <3>1. /\ DOMAIN clouds' = DOMAIN clouds \ {id}
          /\ \A i \in DOMAIN clouds' : clouds'[i] = clouds[i]
          /\ clouds' \in [DOMAIN clouds' -> Rows]
      BY <2>3 DEF TypeInv, Restrict
    <3>2. Bounded' /\ DOMAIN clouds' \subseteq Ids
      BY <3>1 DEF TypeInv, Bounded
    <3>3. dbs' \subseteq Database
      BY <2>3 DEF TypeInv, Detached, Database
    <3>4. files' \subseteq [cloud : DOMAIN clouds', chat : Chats]
      BY <2>1, <2>3, <3>1 DEF TypeInv, Referred
    <3> QED BY <1>c, <1>s, <2>1, <2>3, <3>1, <3>2, <3>3, <3>4 DEF TypeInv
  <2> QED BY <1>11, <2>2, <2>3 DEF DeleteRow
<1>12. ASSUME NEW c \in Clients, LocateForUpload(c) PROVE TypeInv'
  <2>1. PICK t \in Tasks : Goto(c, t)
    BY <1>12, <1>r DEF LocateForUpload, Tasks, Uploading
  <2> QED BY <1>12, <1>c, <1>s, <2>1, Went, SameTables DEF LocateForUpload
<1>13. ASSUME NEW c \in Clients, FileUpload(c) PROVE TypeInv'
  <2>1. task' \in [Clients -> Tasks] /\ UNCHANGED <<clouds, dbs, chats, steady>>
    BY <1>13, <1>0, Went DEF FileUpload
  <2>2. task[c].chat \in Chats
    BY <1>13, Places DEF FileUpload, Uploading
  <2>3. files' \subseteq [cloud : DOMAIN clouds, chat : Chats]
    BY <1>13, <2>2 DEF FileUpload, TypeInv
  <2> QED BY <2>1, <2>3 DEF TypeInv, Bounded
<1>14. ASSUME NEW c \in Clients, StartScan(c) PROVE TypeInv'
  <2>1. PICK t \in Tasks : Goto(c, t)
    BY <1>14 DEF StartScan, Tasks, Walking
  <2>2. steady' \subseteq Chats
    BY <1>14 DEF StartScan, Marked
  <2> QED BY <1>14, <1>c, <1>s, <2>1, <2>2, Went, SameTables DEF StartScan
<1>15. ASSUME NEW c \in Clients, ReadDialog(c) PROVE TypeInv'
  <2>1. task[c].left \in SUBSET Chats
    BY <1>15, Places DEF ReadDialog, Walking
  <2>2. PICK t \in Tasks : Goto(c, t)
    BY <1>15, <2>1 DEF ReadDialog, Tasks, Walking, Finding
  <2> QED BY <1>15, <1>c, <1>s, <2>2, Went, SameTables DEF ReadDialog
<1>16. ASSUME NEW c \in Clients, ReadDialogFails(c) PROVE TypeInv'
  <2>1. task[c].left \in SUBSET Chats
    BY <1>16, Places DEF ReadDialogFails, Walking
  <2>2. PICK ch \in task[c].left :
          steady' = steady \ {ch} /\ Goto(c, [at |-> "dialogs", left |-> task[c].left \ {ch}])
    BY <1>16 DEF ReadDialogFails
  <2>3. [at |-> "dialogs", left |-> task[c].left \ {ch}] \in Tasks
    BY <2>1 DEF Tasks, Walking
  <2>4. UNCHANGED tables /\ UNCHANGED chats
    BY <1>16 DEF ReadDialogFails, Fails
  <2> QED BY <1>c, <1>s, <2>2, <2>3, <2>4, Went, SameTables
<1>17. ASSUME NEW c \in Clients, LookUp(c) PROVE TypeInv'
  <2>1. task[c] \in Finding /\ RowOf(task[c].chat) \subseteq Nat
    BY <1>17, <1>r, Places DEF LookUp, RowOf
  <2>2. PICK t \in Tasks : Goto(c, t)
    BY <1>17, <2>1 DEF LookUp, Tasks, Finding, Looking
  <2> QED BY <1>17, <1>c, <1>s, <2>2, Went, SameTables DEF LookUp
<1>18. ASSUME NEW c \in Clients, Record(c) PROVE TypeInv'
  <2> DEFINE t == task[c]
             next == [at |-> "dialogs", left |-> t.left]
  <2>1. t.chat \in Chats /\ next \in Tasks
    BY <1>18, Places DEF Record, Looking, Walking, Tasks
  <2>2. Goto(c, next) \/ Goto(c, Idle)
    BY <1>18 DEF Record
  <2>3. task' \in [Clients -> Tasks]
    BY <1>0, <2>1, <2>2, Went
  <2>4. /\ UNCHANGED <<dbs, files, chats>> /\ (steady' = steady \/ steady' = {})
        /\ UNCHANGED clouds \/ clouds' = WithRow([chat |-> t.chat, user |-> Nobody])
    BY <1>18 DEF Record
  <2>5. CASE UNCHANGED clouds
    BY <1>c, <1>s, <2>3, <2>4, <2>5, SameTables DEF tables
  <2>6. CASE clouds' = WithRow([chat |-> t.chat, user |-> Nobody])
    <3>1. [chat |-> t.chat, user |-> Nobody] \in Rows
      BY <2>1 DEF Rows, Viewers
    <3>2. /\ DOMAIN clouds' = DOMAIN clouds \cup {NextId} /\ NextId \in Ids
          /\ clouds' \in [DOMAIN clouds' -> Rows]
          /\ Bounded'
      BY <2>6, <3>1, Inserted
    <3> QED BY <1>c, <2>3, <2>4, <3>2 DEF TypeInv
  <2> QED BY <2>4, <2>5, <2>6
<1>19. ASSUME NEW c \in Clients, EndScan(c) PROVE TypeInv'
  BY <1>0, <1>19, <1>c, <1>s, Went, SameTables DEF EndScan
<1>20. ASSUME Crash PROVE TypeInv'
  <2>1. task' \in [Clients -> Tasks]
    BY <1>0, <1>20 DEF Crash
  <2> QED BY <1>20, <1>c, <1>s, <2>1, SameTables DEF Crash
<1> QED BY <1>1, <1>2, <1>3, <1>4, <1>5, <1>6, <1>7, <1>8, <1>9, <1>10, <1>11, <1>12, <1>13,
            <1>14, <1>15, <1>16, <1>17, <1>18, <1>19, <1>20 DEF Next

(* The type invariant holds of every reachable state.                      *)
THEOREM TypeCorrect == MCSpec => []TypeInv
<1>1. MCInit => TypeInv
  BY TypeInit DEF MCInit
<1>2. TypeInv /\ [MCNext]_<<vars, regime>> => TypeInv'
  <2> SUFFICES ASSUME TypeInv, [MCNext]_<<vars, regime>> PROVE TypeInv'
    OBVIOUS
  <2>1. CASE Next
    BY <2>1, TypeStep
  <2>2. CASE UNCHANGED <<vars, regime>>
    BY <2>2 DEF vars, TypeInv, Bounded
  <2> QED BY <2>1, <2>2 DEF MCNext
<1> QED BY <1>1, <1>2, PTL DEF MCSpec

-----------------------------------------------------------------------------
(* A database's cloud is its owner's *)

(* What a step may do to the rows: leave the table as it is, add a row     *)
(* under an id that no row has, or delete one no file refers to and clear  *)
(* the databases' references to it.                                        *)
Adds(row) ==
  /\ DOMAIN clouds' = DOMAIN clouds \cup {NextId} /\ NextId \notin DOMAIN clouds
  /\ clouds'[NextId] = row
  /\ \A id \in DOMAIN clouds : clouds'[id] = clouds[id]
Removes(id) ==
  /\ id \in DOMAIN clouds /\ ~Referred(id)
  /\ DOMAIN clouds' = DOMAIN clouds \ {id}
  /\ \A i \in DOMAIN clouds' : clouds'[i] = clouds[i]
  /\ dbs' = Detached(id)

LEMMA RowSteps ==
  ASSUME TypeInv, Next
  PROVE  \/ UNCHANGED clouds
         \/ \E c \in Clients : /\ InsertRow(c)
                               /\ RowOf(task[c].chat) = {}
                               /\ Adds([chat |-> task[c].chat, user |-> task[c].user])
                               /\ dbs' = dbs \cup NewDatabase(task[c], NextId)
         \/ \E c \in Clients : /\ Record(c)
                               /\ RowOf(task[c].chat) = {}
                               /\ Adds([chat |-> task[c].chat, user |-> Nobody])
                               /\ dbs' = dbs
         \/ \E c \in Clients : DeleteRow(c) /\ Removes(task[c].id)
<1>1. \A row \in Rows : clouds' = WithRow(row) => Adds(row)
  BY Inserted DEF Adds
<1>2. ASSUME NEW c \in Clients, InsertRow(c), ~ UNCHANGED clouds
      PROVE  /\ RowOf(task[c].chat) = {}
             /\ Adds([chat |-> task[c].chat, user |-> task[c].user])
             /\ dbs' = dbs \cup NewDatabase(task[c], NextId)
  <2>1. [chat |-> task[c].chat, user |-> task[c].user] \in Rows
    BY <1>2, Places DEF InsertRow, Marking, Rows
  <2> QED BY <1>1, <1>2, <2>1 DEF InsertRow
<1>3. ASSUME NEW c \in Clients, Record(c), ~ UNCHANGED clouds
      PROVE  RowOf(task[c].chat) = {} /\ Adds([chat |-> task[c].chat, user |-> Nobody]) /\ dbs' = dbs
  <2>1. [chat |-> task[c].chat, user |-> Nobody] \in Rows
    BY <1>3, Places DEF Record, Looking, Rows, Viewers
  <2> QED BY <1>1, <1>3, <2>1 DEF Record
<1>4. ASSUME NEW c \in Clients, DeleteRow(c), ~ UNCHANGED clouds
      PROVE  Removes(task[c].id)
  <2>1. /\ task[c].id \in DOMAIN clouds /\ ~Referred(task[c].id)
        /\ clouds' = Restrict(clouds, DOMAIN clouds \ {task[c].id})
        /\ dbs' = Detached(task[c].id)
    BY <1>4 DEF DeleteRow
  <2> QED BY <2>1 DEF Removes, Restrict
<1>5. CASE UNCHANGED clouds
  BY <1>5
<1>6. CASE ~ UNCHANGED clouds
  <2>1. \E c \in Clients : InsertRow(c) \/ Record(c) \/ DeleteRow(c)
    BY <1>6 DEF Next, AskCloud, CreateChat, CreateChatFails, Connect, Mark, MarkFails, Locate, ClearMarker,
         ClearMarkerFails, LocateForUpload, FileUpload, StartScan, ReadDialog, ReadDialogFails, LookUp,
         EndScan, AddDefaultDatabase, Crash, tables
  <2> QED BY <1>2, <1>3, <1>4, <1>6, <2>1
<1> QED BY <1>5, <1>6

(* The databases of a step that leaves the rows alone.                     *)
LEMMA SameRowsSameClouds ==
  ASSUME TypeInv, Next, UNCHANGED clouds
  PROVE  dbs' = dbs \/ \E u \in Users : dbs' = {[user |-> u, name |-> "default", cloud |-> NoCloud]} \cup dbs
<1>1. ASSUME NEW c \in Clients, InsertRow(c) PROVE dbs' = dbs
  <2>1. [chat |-> task[c].chat, user |-> task[c].user] \in Rows
    BY <1>1, Places DEF InsertRow, Marking, Rows
  <2>2. clouds' # WithRow([chat |-> task[c].chat, user |-> task[c].user])
    BY <2>1, Inserted
  <2> QED BY <1>1, <2>2 DEF InsertRow
<1>2. ASSUME NEW c \in Clients, DeleteRow(c) PROVE dbs' = dbs
  BY <1>2 DEF DeleteRow, Restrict
<1> QED BY <1>1, <1>2 DEF Next, AskCloud, CreateChat, CreateChatFails, Connect, Mark, MarkFails, Locate, ClearMarker,
         ClearMarkerFails, LocateForUpload, FileUpload, StartScan, ReadDialog, ReadDialogFails, LookUp,
         Record, EndScan, AddDefaultDatabase, Crash, tables

LEMMA OwnersStep ==
  ASSUME TypeInv, DatabaseCloudIsOwners, Next
  PROVE  DatabaseCloudIsOwners'
<1>1. NoCloud \notin Nat
  BY CloudRegistryAssumption
<1>2. \A d \in dbs : d \in Database
  BY DEF TypeInv
<1>3. CASE UNCHANGED clouds
  BY <1>3, SameRowsSameClouds DEF DatabaseCloudIsOwners
<1>4. ASSUME NEW row, NEW new, Adds(row), dbs' = dbs \cup new,
             \A d \in new : d.cloud = NextId /\ d.user = row.user
      PROVE  DatabaseCloudIsOwners'
  BY <1>4 DEF DatabaseCloudIsOwners, Adds
<1>5. ASSUME NEW c \in Clients, Adds([chat |-> task[c].chat, user |-> task[c].user]),
             dbs' = dbs \cup NewDatabase(task[c], NextId)
      PROVE  DatabaseCloudIsOwners'
  <2>1. \A d \in NewDatabase(task[c], NextId) : d.cloud = NextId /\ d.user = task[c].user
    BY DEF NewDatabase
  <2> QED BY <1>4, <1>5, <2>1
<1>6. ASSUME NEW c \in Clients, Adds([chat |-> task[c].chat, user |-> Nobody]), dbs' = dbs
      PROVE  DatabaseCloudIsOwners'
  BY <1>6 DEF DatabaseCloudIsOwners, Adds
<1>7. ASSUME NEW id, Removes(id) PROVE DatabaseCloudIsOwners'
  <2>1. SUFFICES ASSUME NEW e \in dbs', e.cloud # NoCloud
        PROVE  e.cloud \in DOMAIN clouds' /\ clouds'[e.cloud].user = e.user
    BY DEF DatabaseCloudIsOwners
  <2>2. PICK d \in dbs : e = [d EXCEPT !.cloud = IF @ = id THEN NoCloud ELSE @]
    BY <1>7, <2>1 DEF Removes, Detached
  <2>3. e.user = d.user /\ e.cloud = d.cloud /\ d.cloud # id
    BY <1>2, <2>1, <2>2 DEF Database
  <2> QED BY <1>7, <2>1, <2>3 DEF Removes, DatabaseCloudIsOwners
<1> QED BY <1>3, <1>5, <1>6, <1>7, RowSteps

(* However requests, crashes and scans overlap, and though ids are given   *)
(* again, the cloud a database is backed up to is its owner's.             *)
THEOREM OwnersKeepTheirClouds == MCSpec => []DatabaseCloudIsOwners
<1>1. MCInit => DatabaseCloudIsOwners
  BY DEF MCInit, Init, DatabaseCloudIsOwners
<1>2. TypeInv /\ DatabaseCloudIsOwners /\ [MCNext]_<<vars, regime>> => DatabaseCloudIsOwners'
  <2> SUFFICES ASSUME TypeInv, DatabaseCloudIsOwners, [MCNext]_<<vars, regime>>
      PROVE  DatabaseCloudIsOwners'
    OBVIOUS
  <2>1. CASE Next
    BY <2>1, OwnersStep
  <2>2. CASE UNCHANGED <<vars, regime>>
    BY <2>2 DEF vars, DatabaseCloudIsOwners
  <2> QED BY <2>1, <2>2 DEF MCNext
<1> QED BY <1>1, <1>2, TypeCorrect, PTL DEF MCSpec

-----------------------------------------------------------------------------
(* A scan that ends has missed nothing *)

Walks(c) == task[c].at \in {"dialogs", "found", "looked"}
Tracked(ch) == RowOf(ch) # {}
Awaits(c, ch) == ch \in task[c].left \/ (task[c].at \in {"found", "looked"} /\ task[c].chat = ch)

(* One scan at a time; each chat that it must not miss is still ahead of   *)
(* it, or in its hands, or has its row; and a row that it found for the    *)
(* chat in its hands is there unless the chat was disconnected.            *)
ScanInv ==
  /\ steady \subseteq Marked
  /\ \A c, d \in Clients : Walks(c) /\ Walks(d) => c = d
  /\ \A c \in Clients : Walks(c) => \A ch \in steady : Awaits(c, ch) \/ Tracked(ch)
  /\ \A c \in Clients : At(c, "looked") /\ task[c].row # {} /\ task[c].chat \in steady
                          => Tracked(task[c].chat)

(* No row goes of a chat that the scan must not miss.                      *)
LEMMA TrackedStay ==
  ASSUME TypeInv, Next, NEW ch \in steady, ch \in steady', Tracked(ch)
  PROVE  Tracked(ch)'
<1>1. CASE UNCHANGED clouds
  BY <1>1 DEF Tracked, RowOf, Tracks
<1>2. ASSUME NEW row, Adds(row) PROVE Tracked(ch)'
  BY <1>2 DEF Adds, Tracked, RowOf, Tracks
<1>3. ASSUME NEW c \in Clients, DeleteRow(c), Removes(task[c].id) PROVE Tracked(ch)'
  <2>1. task[c].id \in DOMAIN clouds /\ task[c].id \notin DOMAIN clouds'
    BY <1>3 DEF Removes
  <2>2. steady' = steady \ {clouds[task[c].id].chat}
    BY <1>3, <2>1 DEF DeleteRow
  <2> QED BY <1>3, <2>2 DEF Removes, Tracked, RowOf, Tracks
<1> QED BY <1>1, <1>2, <1>3, RowSteps

(* A chat that the scan must not miss keeps its marker.                    *)
LEMMA SteadyStaysMarked ==
  ASSUME TypeInv, ScanInv, Next
  PROVE  steady' \subseteq Marked'
<1> DEFINE Same == steady' \subseteq steady /\ UNCHANGED chats
<1>0. CASE Same
  BY <1>0 DEF ScanInv, Marked
<1>1. ASSUME NEW ch \in Chats, chats[ch] = "absent", Described(ch, "plain"), UNCHANGED steady
      PROVE  steady' \subseteq Marked'
  BY <1>1, Rewritten DEF ScanInv, Marked
<1>2. ASSUME NEW ch \in Chats, Described(ch, "marked"), UNCHANGED steady
      PROVE  steady' \subseteq Marked'
  BY <1>2, Rewritten DEF ScanInv, Marked
<1>3. ASSUME NEW ch \in Chats, Described(ch, "plain"), steady' = steady \ {ch}
      PROVE  steady' \subseteq Marked'
  BY <1>3, Rewritten DEF ScanInv, Marked
<1>4. ASSUME NEW c \in Clients, CreateChat(c) \/ CreateChatFails(c) PROVE steady' \subseteq Marked'
  BY <1>0, <1>1, <1>4 DEF CreateChat, CreateChatFails, Fails
<1>5. ASSUME NEW c \in Clients, Mark(c) \/ MarkFails(c) PROVE steady' \subseteq Marked'
  <2>1. task[c].chat \in Chats
    BY <1>5, Places DEF Mark, MarkFails, Marking
  <2> QED BY <1>0, <1>2, <1>5, <2>1 DEF Mark, MarkFails, Fails
<1>6. ASSUME NEW c \in Clients, ClearMarker(c) \/ ClearMarkerFails(c) PROVE steady' \subseteq Marked'
  <2>1. task[c].chat \in Chats
    BY <1>6, Places DEF ClearMarker, ClearMarkerFails, Clearing
  <2> QED BY <1>0, <1>3, <1>6, <2>1 DEF ClearMarker, ClearMarkerFails, Fails
<1>7. ASSUME NEW c \in Clients, StartScan(c) PROVE steady' \subseteq Marked'
  BY <1>7 DEF StartScan, Marked
<1>8. ASSUME NEW c \in Clients, ReadDialogFails(c) PROVE Same
  BY <1>8 DEF ReadDialogFails, Fails
<1>9. ASSUME NEW c \in Clients, DeleteRow(c) PROVE Same
  BY <1>9 DEF DeleteRow
<1>10. ASSUME NEW c \in Clients, Record(c) PROVE Same
  BY <1>10 DEF Record
<1>11. ASSUME NEW c \in Clients,
              \/ AskCloud(c) \/ Connect(c) \/ InsertRow(c) \/ Locate(c) \/ LocateForUpload(c) \/ FileUpload(c)
              \/ ReadDialog(c) \/ LookUp(c) \/ EndScan(c)
       PROVE  Same
  BY <1>11 DEF AskCloud, Connect, InsertRow, Locate, LocateForUpload, FileUpload, ReadDialog, LookUp, EndScan
<1>12. ASSUME \E u \in Users : AddDefaultDatabase(u) PROVE Same
  BY <1>12 DEF AddDefaultDatabase
<1>13. ASSUME Crash PROVE Same
  BY <1>13 DEF Crash
<1> HIDE DEF Same
<1> QED BY <1>0, <1>4, <1>5, <1>6, <1>7, <1>8, <1>9, <1>10, <1>11, <1>12, <1>13 DEF Next

(* A step that is not the scan's leaves it where it was.                   *)
LEMMA NotTheScan ==
  ASSUME TypeInv, ScanInv, Next, steady' \subseteq steady,
         \A c \in Clients : Walks(c)' => task'[c] = task[c]
  PROVE  ScanInv'
<1>1. steady' \subseteq Marked'
  BY SteadyStaysMarked
<1>2. \A c \in Clients : Walks(c)' => Walks(c)
  BY DEF Walks
<1>3. \A ch \in steady' : Tracked(ch) => Tracked(ch)'
  BY TrackedStay
<1>4. \A c \in Clients : Walks(c)' => \A ch \in steady' : Awaits(c, ch)' \/ Tracked(ch)'
  <2> TAKE c \in Clients
  <2> HAVE Walks(c)'
  <2> TAKE ch \in steady'
  <2>1. Awaits(c, ch) \/ Tracked(ch)
    BY <1>2 DEF ScanInv
  <2>2. Awaits(c, ch) => Awaits(c, ch)'
    BY DEF Awaits
  <2> QED BY <1>3, <2>1, <2>2
<1>5. ASSUME NEW c \in Clients, At(c, "looked")', task'[c].row # {}, task'[c].chat \in steady'
      PROVE  \E id \in DOMAIN clouds' : clouds'[id].chat = task'[c].chat
  <2>1. task'[c] = task[c]
    BY <1>5 DEF Walks, At
  <2>2. Tracked(task[c].chat)
    BY <1>5, <2>1 DEF ScanInv, At
  <2>3. ASSUME NEW ch, ch = task[c].chat PROVE Tracked(ch)'
    BY <1>3, <1>5, <2>1, <2>2, <2>3
  <2> QED BY <2>1, <2>3 DEF Tracked, RowOf, Tracks
<1> QED BY <1>1, <1>2, <1>4, <1>5 DEF ScanInv, Tracked, RowOf, Tracks

(* A step of a request that scans, or starts to or ends.                   *)
LEMMA TheScan ==
  ASSUME TypeInv, ScanInv, Next, NEW c \in Clients, NEW t \in Tasks, Goto(c, t),
         t.at \in {"dialogs", "found", "looked"},
         \A d \in Clients : Walks(d) => d = c,
         \A ch \in steady' : \/ ch \in t.left
                             \/ t.at \in {"found", "looked"} /\ t.chat = ch
                             \/ Tracked(ch)',
         t.at = "looked" /\ t.row # {} /\ t.chat \in steady'
           => \E id \in DOMAIN clouds' : clouds'[id].chat = t.chat
  PROVE  ScanInv'
<1>1. task'[c] = t /\ \A d \in Clients : d # c => task'[d] = task[d]
  BY Went
<1>2. steady' \subseteq Marked'
  BY SteadyStaysMarked
<1>3. \A d \in Clients : Walks(d)' => d = c
  BY <1>1 DEF Walks
<1>4. \A ch \in steady' : Awaits(c, ch)' \/ Tracked(ch)'
  BY <1>1 DEF Awaits
<1>5. At(c, "looked")' /\ task'[c].row # {} /\ task'[c].chat \in steady'
        => \E id \in DOMAIN clouds' : clouds'[id].chat = task'[c].chat
  BY <1>1 DEF At
<1>6. \A d \in Clients : At(d, "looked")' => Walks(d)'
  BY DEF At, Walks
<1> QED BY <1>2, <1>3, <1>4, <1>5, <1>6 DEF ScanInv, Tracked, RowOf, Tracks

LEMMA ScanStep ==
  ASSUME TypeInv, ScanInv, Next
  PROVE  ScanInv'
<1>0. Idle \in Tasks /\ Idle.at = "idle"
  BY DEF Tasks, Idle
<1>w. \A c \in Clients : Walks(c) <=> At(c, "dialogs") \/ At(c, "found") \/ At(c, "looked")
  BY DEF Walks, At
<1>t. \A ch \in steady' : ch \in steady /\ Tracked(ch) => Tracked(ch)'
  BY TrackedStay
<1>1. ASSUME NEW c \in Clients, NEW t \in Tasks, Goto(c, t), t.at \notin {"dialogs", "found", "looked"},
             steady' \subseteq steady
      PROVE  ScanInv'
  <2>1. task'[c] = t /\ \A d \in Clients : d # c => task'[d] = task[d]
    BY <1>1, Went
  <2>2. \A d \in Clients : Walks(d)' => task'[d] = task[d]
    BY <1>1, <2>1 DEF Walks
  <2> QED BY <1>1, <2>2, NotTheScan
<1>2. ASSUME NEW c \in Clients, AskCloud(c) PROVE ScanInv'
  <2>1. PICK t \in Tasks : Goto(c, t) /\ t.at = "creating"
    BY <1>2 DEF AskCloud, Tasks, Creating, Asks, Viewers, Names
  <2> QED BY <1>1, <1>2, <2>1 DEF AskCloud
<1>3. ASSUME NEW c \in Clients, CreateChat(c) PROVE ScanInv'
  <2>1. task[c] \in Creating
    BY <1>3, Places DEF CreateChat
  <2>2. PICK t \in Tasks : Goto(c, t) /\ t.at = "marking"
    BY <1>3, <2>1 DEF CreateChat, Tasks, Creating, Marking, Asks
  <2> QED BY <1>1, <1>3, <2>2 DEF CreateChat
<1>4. ASSUME NEW c \in Clients, CreateChatFails(c) \/ MarkFails(c) \/ InsertRow(c) \/ FileUpload(c) \/ EndScan(c)
      PROVE  ScanInv'
  <2>1. Goto(c, Idle) /\ steady' \subseteq steady
    BY <1>4 DEF CreateChatFails, MarkFails, InsertRow, FileUpload, EndScan, Fails
  <2> QED BY <1>0, <1>1, <2>1
<1>5. ASSUME NEW c \in Clients, Connect(c) PROVE ScanInv'
  <2>1. PICK t \in Tasks : Goto(c, t) /\ t.at = "marking"
    BY <1>5 DEF Connect, Tasks, Marking, Asks, Viewers, Names
  <2> QED BY <1>1, <1>5, <2>1 DEF Connect
<1>6. ASSUME NEW c \in Clients, Mark(c) PROVE ScanInv'
  <2>1. task[c] \in Marking
    BY <1>6, Places DEF Mark
  <2>2. PICK t \in Tasks : Goto(c, t) /\ t.at = "inserting"
    BY <1>6, <2>1 DEF Mark, Tasks, Marking, Asks
  <2> QED BY <1>1, <1>6, <2>2 DEF Mark
<1>7. ASSUME NEW c \in Clients, Locate(c) PROVE ScanInv'
  <2>1. \A id \in DOMAIN clouds : id \in Nat /\ clouds[id].chat \in Chats
    BY DEF TypeInv, Ids, Rows
  <2>2. PICK t \in Tasks : Goto(c, t) /\ t.at = "clearing"
    BY <1>7, <2>1 DEF Locate, Tasks, Clearing, Viewers
  <2> QED BY <1>1, <1>7, <2>2 DEF Locate
<1>8. ASSUME NEW c \in Clients, ClearMarker(c) \/ ClearMarkerFails(c) PROVE ScanInv'
  <2>1. task[c] \in Clearing
    BY <1>8, Places DEF ClearMarker, ClearMarkerFails
  <2>2. PICK t \in Tasks : Goto(c, t) /\ t.at = "deleting"
    BY <1>8, <2>1 DEF ClearMarker, ClearMarkerFails, Tasks, Clearing
  <2> QED BY <1>1, <1>8, <2>2 DEF ClearMarker, ClearMarkerFails
<1>9. ASSUME NEW c \in Clients, DeleteRow(c) PROVE ScanInv'
  <2>1. Goto(c, Idle) /\ steady' \subseteq steady
    BY <1>9 DEF DeleteRow
  <2> QED BY <1>0, <1>1, <2>1
<1>10. ASSUME NEW c \in Clients, LocateForUpload(c) PROVE ScanInv'
  <2>1. \A id \in DOMAIN clouds : id \in Nat /\ clouds[id].chat \in Chats
    BY DEF TypeInv, Ids, Rows
  <2>2. PICK t \in Tasks : Goto(c, t) /\ t.at = "uploading"
    BY <1>10, <2>1 DEF LocateForUpload, Tasks, Uploading
  <2> QED BY <1>1, <1>10, <2>2 DEF LocateForUpload
<1>11. ASSUME NEW c \in Clients, StartScan(c) PROVE ScanInv'
  <2> DEFINE t == [at |-> "dialogs", left |-> {ch \in Chats : chats[ch] # "absent"}]
  <2>1. t \in Tasks /\ t.at = "dialogs" /\ \A ch \in Marked : ch \in t.left
    BY DEF Tasks, Walking, Marked
  <2>2. Goto(c, t) /\ steady' = Marked /\ \A d \in Clients : ~Walks(d)
    BY <1>11 DEF StartScan, Walks
  <2> HIDE DEF t
  <2> QED BY <2>1, <2>2, TheScan
<1>12. ASSUME NEW c \in Clients, ReadDialog(c) PROVE ScanInv'
  <2>1. task[c] \in Walking /\ Walks(c) /\ steady' = steady /\ UNCHANGED <<clouds, chats>>
    BY <1>12, <1>w, Places DEF ReadDialog, tables
  <2>2. PICK ch \in task[c].left :
          Goto(c, IF chats[ch] = "marked" THEN [at |-> "found", left |-> task[c].left \ {ch}, chat |-> ch]
                  ELSE [at |-> "dialogs", left |-> task[c].left \ {ch}])
    BY <1>12 DEF ReadDialog
  <2>3. ch \in Chats /\ task[c].left \subseteq Chats /\ task[c].at = "dialogs"
    BY <2>1 DEF Walking
  <2>4. \A x \in steady : x \in task[c].left \/ Tracked(x)'
    BY <1>t, <2>1, <2>3 DEF ScanInv, Awaits
  <2>5. \A d \in Clients : Walks(d) => d = c
    BY <2>1 DEF ScanInv
  <2>6. CASE chats[ch] = "marked"
    <3> DEFINE t == [at |-> "found", left |-> task[c].left \ {ch}, chat |-> ch]
    <3>1. t \in Tasks /\ t.at = "found" /\ t.left = task[c].left \ {ch} /\ t.chat = ch /\ Goto(c, t)
      BY <2>2, <2>3, <2>6 DEF Tasks, Finding
    <3> HIDE DEF t
    <3> QED BY <2>1, <2>4, <2>5, <3>1, TheScan
  <2>7. CASE chats[ch] # "marked"
    <3> DEFINE t == [at |-> "dialogs", left |-> task[c].left \ {ch}]
    <3>1. t \in Tasks /\ t.at = "dialogs" /\ t.left = task[c].left \ {ch} /\ Goto(c, t)
      BY <2>2, <2>3, <2>7 DEF Tasks, Walking
    <3>2. ch \notin steady
      BY <2>7 DEF ScanInv, Marked
    <3> HIDE DEF t
    <3> QED BY <2>1, <2>4, <2>5, <3>1, <3>2, TheScan
  <2> QED BY <2>6, <2>7
<1>13. ASSUME NEW c \in Clients, ReadDialogFails(c) PROVE ScanInv'
  <2>1. task[c] \in Walking /\ Walks(c)
    BY <1>13, <1>w, Places DEF ReadDialogFails
  <2>2. PICK ch \in task[c].left :
          steady' = steady \ {ch} /\ Goto(c, [at |-> "dialogs", left |-> task[c].left \ {ch}])
    BY <1>13 DEF ReadDialogFails
  <2>3. task[c].left \subseteq Chats /\ task[c].at = "dialogs"
    BY <2>1 DEF Walking
  <2>4. \A x \in steady' : x \in task[c].left \/ Tracked(x)'
    BY <1>t, <2>1, <2>2, <2>3 DEF ScanInv, Awaits
  <2>5. \A d \in Clients : Walks(d) => d = c
    BY <2>1 DEF ScanInv
  <2> DEFINE t == [at |-> "dialogs", left |-> task[c].left \ {ch}]
  <2>6. t \in Tasks /\ t.at = "dialogs" /\ t.left = task[c].left \ {ch} /\ Goto(c, t)
    BY <2>2, <2>3 DEF Tasks, Walking
  <2> HIDE DEF t
  <2> QED BY <2>2, <2>4, <2>5, <2>6, TheScan
<1>14. ASSUME NEW c \in Clients, LookUp(c) PROVE ScanInv'
  <2>1. task[c] \in Finding /\ Walks(c) /\ steady' = steady /\ UNCHANGED clouds
    BY <1>14, <1>w, Places DEF LookUp, tables
  <2> DEFINE t == [at |-> "looked", left |-> task[c].left, chat |-> task[c].chat, row |-> RowOf(task[c].chat)]
  <2>2. RowOf(task[c].chat) \subseteq Nat
    BY DEF RowOf, TypeInv, Ids
  <2>3. /\ t \in Tasks /\ t.at = "looked" /\ t.left = task[c].left /\ t.chat = task[c].chat
        /\ t.row = RowOf(task[c].chat) /\ Goto(c, t)
    BY <1>14, <2>1, <2>2 DEF LookUp, Tasks, Looking, Finding
  <2>4. \A x \in steady : x \in task[c].left \/ task[c].chat = x \/ Tracked(x)'
    BY <1>t, <2>1 DEF ScanInv, Awaits
  <2>5. \A d \in Clients : Walks(d) => d = c
    BY <2>1 DEF ScanInv
  <2>6. t.row # {} => \E id \in DOMAIN clouds' : clouds'[id].chat = t.chat
    BY <2>1, <2>3 DEF RowOf, Tracks
  <2> HIDE DEF t
  <2> QED BY <2>1, <2>3, <2>4, <2>5, <2>6, TheScan
<1>15. ASSUME NEW c \in Clients, Record(c) PROVE ScanInv'
  <2>1. task[c] \in Looking /\ Walks(c) /\ At(c, "looked")
    BY <1>15, <1>w, Places DEF Record
  <2> DEFINE next == [at |-> "dialogs", left |-> task[c].left]
  <2>2. next \in Tasks /\ next.at = "dialogs" /\ next.left = task[c].left
    BY <2>1 DEF Tasks, Walking, Looking
  <2>3. \A d \in Clients : Walks(d) => d = c
    BY <2>1 DEF ScanInv
  <2>4. \A x \in steady : x \in task[c].left \/ task[c].chat = x \/ Tracked(x)
    BY <2>1 DEF ScanInv, Awaits
  <2>5. CASE Goto(c, Idle)
    <3>1. steady' \subseteq steady
      BY <1>15 DEF Record
    <3> QED BY <1>0, <1>1, <2>5, <3>1
  <2>6. CASE Goto(c, next) /\ UNCHANGED steady /\ task[c].row # {}
    <3>1. \A x \in steady' : x \in task[c].left \/ Tracked(x)'
      BY <1>t, <2>1, <2>4, <2>6 DEF ScanInv
    <3> HIDE DEF next
    <3> QED BY <2>2, <2>3, <2>6, <3>1, TheScan
  <2>7. CASE Goto(c, next) /\ UNCHANGED steady /\ clouds' = WithRow([chat |-> task[c].chat, user |-> Nobody])
    <3>1. [chat |-> task[c].chat, user |-> Nobody] \in Rows
      BY <2>1 DEF Looking, Rows, Viewers
    <3>2. NextId \in DOMAIN clouds' /\ clouds'[NextId].chat = task[c].chat
      BY <2>7, <3>1, Inserted
    <3>3. ASSUME NEW ch, ch = task[c].chat PROVE Tracked(ch)'
      BY <3>2, <3>3 DEF Tracked, RowOf, Tracks
    <3>4. \A x \in steady' : x \in task[c].left \/ Tracked(x)'
      BY <1>t, <2>4, <2>7, <3>3
    <3> HIDE DEF next
    <3> QED BY <2>2, <2>3, <2>7, <3>4, TheScan
  <2>8. \/ Goto(c, Idle)
        \/ Goto(c, next) /\ UNCHANGED steady /\ task[c].row # {}
        \/ Goto(c, next) /\ UNCHANGED steady /\ clouds' = WithRow([chat |-> task[c].chat, user |-> Nobody])
    BY <1>15 DEF Record
  <2> HIDE DEF next
  <2> QED BY <2>5, <2>6, <2>7, <2>8
<1>16. ASSUME \E u \in Users : AddDefaultDatabase(u) PROVE ScanInv'
  <2>1. task' = task /\ steady' = steady
    BY <1>16 DEF AddDefaultDatabase
  <2> QED BY <2>1, NotTheScan
<1>17. ASSUME Crash PROVE ScanInv'
  <2>1. steady' \subseteq steady /\ \A c \in Clients : ~Walks(c)'
    BY <1>0, <1>17 DEF Crash, Walks
  <2> QED BY <2>1, NotTheScan
<1> QED BY <1>2, <1>3, <1>4, <1>5, <1>6, <1>7, <1>8, <1>9, <1>10, <1>11, <1>12, <1>13, <1>14, <1>15,
            <1>16, <1>17 DEF Next

LEMMA ScanInvariant == MCSpec => []ScanInv
<1>1. MCInit => ScanInv
  <2> SUFFICES ASSUME MCInit PROVE ScanInv
    OBVIOUS
  <2>1. steady = {} /\ \A c \in Clients : task[c].at = "idle"
    BY DEF MCInit, Init, Idle
  <2> QED BY <2>1 DEF ScanInv, Walks, At
<1>2. TypeInv /\ ScanInv /\ [MCNext]_<<vars, regime>> => ScanInv'
  <2> SUFFICES ASSUME TypeInv, ScanInv, [MCNext]_<<vars, regime>> PROVE ScanInv'
    OBVIOUS
  <2>1. CASE Next
    BY <2>1, ScanStep
  <2>2. CASE UNCHANGED <<vars, regime>>
    BY <2>2 DEF vars, ScanInv, Walks, Awaits, Tracked, RowOf, Tracks, At, Marked
  <2> QED BY <2>1, <2>2 DEF MCNext
<1> QED BY <1>1, <1>2, TypeCorrect, PTL DEF MCSpec

(* Whatever is created, connected, disconnected or read in vain meanwhile, *)
(* a scan that walks to its end leaves no marked chat without a row.       *)
THEOREM ScansFindAll == MCSpec => ScanFindsAll
<1> DEFINE Complete == \A c \in Clients : EndScan(c) => \A ch \in steady : RowOf(ch) # {}
<1>1. ScanInv => Complete
  <2> SUFFICES ASSUME ScanInv, NEW c \in Clients, EndScan(c), NEW ch \in steady PROVE RowOf(ch) # {}
    OBVIOUS
  <2>1. Walks(c) /\ task[c].left = {} /\ task[c].at = "dialogs"
    BY DEF EndScan, Walks, At
  <2> QED BY <2>1 DEF ScanInv, Awaits, Tracked
<1>2. ScanInv => [Complete]_vars
  BY <1>1
<1>3. ScanInv /\ [MCNext]_<<vars, regime>> => [Complete]_vars
  BY <1>2
<1> QED BY <1>3, ScanInvariant, PTL DEF MCSpec, ScanFindsAll

-----------------------------------------------------------------------------
(* With one request at a time the rows are the marked chats *)

OneAtATime == \A c, d \in Clients : c = d \/ At(c, "idle") \/ At(d, "idle")
Alone(c) == \A d \in Clients : d # c => At(d, "idle")
Inserting(ch) == \E c \in Clients : At(c, "inserting") /\ task[c].chat = ch
Deleting(id) == \E c \in Clients : At(c, "deleting") /\ task[c].id = id
Named(t) == \E d \in dbs : d.user = t.user /\ d.name = t.name

(* What a request knows is still so when it acts on it.                    *)
TaskFits(c) ==
  /\ task[c].at \in {"creating", "marking", "inserting"} => ~Named(task[c])
  /\ task[c].at \in {"marking", "inserting"} => RowOf(task[c].chat) = {} /\ chats[task[c].chat] # "absent"
  /\ task[c].at \in {"inserting", "found", "looked"} => chats[task[c].chat] = "marked"
  /\ task[c].at \in {"clearing", "deleting", "uploading"}
       => task[c].id \in DOMAIN clouds /\ Tracks(task[c].id, task[c].chat)
  /\ At(c, "deleting") => chats[task[c].chat] = "plain"

RowsFit ==
  /\ \A id \in DOMAIN clouds : chats[clouds[id].chat] # "absent"
  /\ \A i, j \in DOMAIN clouds : clouds[i].chat = clouds[j].chat => i = j
  /\ \A ch \in Marked : RowOf(ch) # {} \/ Inserting(ch)
  /\ \A id \in DOMAIN clouds : clouds[id].chat \in Marked \/ Referred(id) \/ Deleting(id)
  /\ FileInItsChat

Undisturbed == faults = 0 /\ crashes = 0 /\ OneAtATime
SerialInv == regime = "serial" => Undisturbed /\ RowsFit /\ \A c \in Clients : TaskFits(c)

(* The request that acts is the only one there is.                         *)
LEMMA Single ==
  ASSUME TypeInv, OneAtATime, OneAtATime', NEW c \in Clients, NEW t \in Tasks, Goto(c, t),
         ~At(c, "idle") \/ t.at # "idle"
  PROVE  Alone(c) /\ Alone(c)' /\ task'[c] = t
<1>1. task'[c] = t /\ \A d \in Clients : d # c => task'[d] = task[d]
  BY Went
<1> QED BY <1>1 DEF OneAtATime, Alone, At

LEMMA OthersFit ==
  ASSUME NEW c \in Clients, Alone(c)', TaskFits(c)'
  PROVE  \A d \in Clients : TaskFits(d)'
<1>1. \A d \in Clients : d # c => task'[d].at = "idle"
  BY DEF Alone, At
<1>2. ASSUME NEW d \in Clients, d # c PROVE TaskFits(d)'
  BY <1>1, <1>2 DEF TaskFits, At
<1> QED BY <1>2

(* Who inserts or deletes is who acts.                                     *)
LEMMA WhoActs ==
  ASSUME NEW c \in Clients, Alone(c)
  PROVE  /\ \A ch : Inserting(ch) <=> At(c, "inserting") /\ task[c].chat = ch
         /\ \A id : Deleting(id) <=> At(c, "deleting") /\ task[c].id = id
BY DEF Alone, At, Inserting, Deleting

LEMMA WhoActed ==
  ASSUME NEW c \in Clients, Alone(c)'
  PROVE  /\ \A ch : (\E d \in Clients : At(d, "inserting")' /\ task'[d].chat = ch)
                      <=> At(c, "inserting")' /\ task'[c].chat = ch
         /\ \A id : (\E d \in Clients : At(d, "deleting")' /\ task'[d].id = id)
                      <=> At(c, "deleting")' /\ task'[c].id = id
BY DEF Alone, At

(* What there is to show of a step of one request.                         *)
LEMMA RowsFitAfter ==
  ASSUME NEW c \in Clients, Alone(c)',
         \A id \in DOMAIN clouds' : chats'[clouds'[id].chat] # "absent",
         \A i, j \in DOMAIN clouds' : clouds'[i].chat = clouds'[j].chat => i = j,
         \A ch \in Chats : chats'[ch] = "marked" =>
           \/ \E id \in DOMAIN clouds' : clouds'[id].chat = ch
           \/ task'[c].at = "inserting" /\ task'[c].chat = ch,
         \A id \in DOMAIN clouds' :
           \/ clouds'[id].chat \in Chats /\ chats'[clouds'[id].chat] = "marked"
           \/ \E f \in files' : f.cloud = id
           \/ task'[c].at = "deleting" /\ task'[c].id = id,
         \A f \in files' : f.cloud \in DOMAIN clouds' /\ clouds'[f.cloud].chat = f.chat
  PROVE  RowsFit'
<1>1. \A ch \in Marked' : RowOf(ch)' # {} \/ Inserting(ch)'
  BY WhoActed DEF Marked, RowOf, Tracks, Inserting, At
<1>2. \A id \in DOMAIN clouds' : clouds'[id].chat \in Marked' \/ Referred(id)' \/ Deleting(id)'
  BY WhoActed DEF Marked, Referred, Deleting, At
<1>3. FileInItsChat'
  BY DEF FileInItsChat, Tracks
<1> QED BY <1>1, <1>2, <1>3 DEF RowsFit

(* The same, read of the state before.                                     *)
LEMMA RowsFitBefore ==
  ASSUME TypeInv, RowsFit, NEW c \in Clients, Alone(c)
  PROVE  /\ \A id \in DOMAIN clouds : clouds[id].chat \in Chats /\ chats[clouds[id].chat] # "absent"
         /\ \A i, j \in DOMAIN clouds : clouds[i].chat = clouds[j].chat => i = j
         /\ \A ch \in Chats : chats[ch] = "marked" =>
              \/ \E id \in DOMAIN clouds : clouds[id].chat = ch
              \/ task[c].at = "inserting" /\ task[c].chat = ch
         /\ \A id \in DOMAIN clouds :
              \/ chats[clouds[id].chat] = "marked"
              \/ \E f \in files : f.cloud = id
              \/ task[c].at = "deleting" /\ task[c].id = id
         /\ \A f \in files : f.cloud \in DOMAIN clouds /\ clouds[f.cloud].chat = f.chat
<1>1. \A id \in DOMAIN clouds : clouds[id].chat \in Chats
  BY DEF TypeInv, Rows
<1> QED BY <1>1, WhoActs DEF RowsFit, Marked, RowOf, Tracks, Referred, FileInItsChat, At

(* A request that touches neither rows nor chats.                          *)
LEMMA Passing ==
  ASSUME TypeInv, RowsFit, NEW c \in Clients, Alone(c), Alone(c)', UNCHANGED <<clouds, files, chats>>,
         task[c].at \notin {"inserting", "deleting"}
  PROVE  RowsFit'
<1>1. \A id \in DOMAIN clouds : clouds[id].chat \in Chats
  BY DEF TypeInv, Rows
<1> QED BY <1>1, RowsFitBefore, RowsFitAfter

LEMMA SerialStep ==
  ASSUME TypeInv, Undisturbed, RowsFit, \A c \in Clients : TaskFits(c), Undisturbed',
         Next, UNCHANGED task => Quiet
  PROVE  RowsFit' /\ \A c \in Clients : TaskFits(c)'
<1>0. Idle \in Tasks /\ Idle.at = "idle"
  BY DEF Tasks, Idle
<1>u. OneAtATime /\ OneAtATime'
  BY DEF Undisturbed
<1>p. \A c \in Clients : \A place : At(c, place) <=> task[c].at = place
  BY DEF At
<1>r. \A id \in DOMAIN clouds : id \in Nat /\ clouds[id].chat \in Chats
  BY DEF TypeInv, Ids, Rows
<1>1. ASSUME NEW c \in Clients, AskCloud(c) PROVE RowsFit' /\ \A d \in Clients : TaskFits(d)'
  <2>1. PICK t \in Tasks : Goto(c, t) /\ t.at = "creating" /\ ~ \E d \in dbs : d.user = t.user /\ d.name = t.name
    BY <1>1 DEF AskCloud, Tasks, Creating, Asks, Viewers, Names
  <2>2. task'[c] = t /\ Alone(c) /\ Alone(c)' /\ task[c].at = "idle" /\ UNCHANGED <<clouds, dbs, files, chats>>
    BY <1>1, <1>u, <2>1, Single DEF AskCloud, At, tables
  <2>3. TaskFits(c)'
    BY <2>1, <2>2 DEF TaskFits, At, Named
  <2> QED BY <2>2, <2>3, OthersFit, Passing
<1>2. ASSUME NEW c \in Clients, CreateChat(c) PROVE RowsFit' /\ \A d \in Clients : TaskFits(d)'
  <2>1. task[c] \in Creating /\ task[c].at = "creating" /\ ~Named(task[c])
    BY <1>2, Places DEF CreateChat, TaskFits, At
  <2>2. PICK ch \in Chats : /\ chats[ch] = "absent" /\ Described(ch, "plain")
                            /\ Goto(c, [at |-> "marking", user |-> task[c].user, name |-> task[c].name, chat |-> ch])
    BY <1>2 DEF CreateChat
  <2> DEFINE t == [at |-> "marking", user |-> task[c].user, name |-> task[c].name, chat |-> ch]
  <2>3. t \in Tasks /\ t.at = "marking"
    BY <2>1 DEF Tasks, Creating, Marking, Asks
  <2>4. task'[c] = t /\ Alone(c) /\ Alone(c)' /\ UNCHANGED <<clouds, dbs, files>>
    BY <1>2, <1>u, <2>2, <2>3, Single DEF CreateChat, tables
  <2>5. chats'[ch] = "plain" /\ \A other \in Chats : other # ch => chats'[other] = chats[other]
    BY <2>2, Rewritten
  <2>6. \A id \in DOMAIN clouds : clouds[id].chat # ch
    BY <2>2 DEF RowsFit
  <2>7. TaskFits(c)'
    BY <2>1, <2>4, <2>5, <2>6 DEF TaskFits, At, Named, RowOf, Tracks
  <2>8. RowsFit'
    <3> HIDE DEF t
    <3> QED BY <1>r, <2>1, <2>2, <2>4, <2>5, <2>6, RowsFitBefore, RowsFitAfter
  <2> QED BY <2>4, <2>7, <2>8, OthersFit
<1>3. ASSUME NEW c \in Clients, Connect(c) PROVE RowsFit' /\ \A d \in Clients : TaskFits(d)'
  <2>1. PICK t \in Tasks : /\ Goto(c, t) /\ t.at = "marking" /\ t.user = Nobody
                           /\ RowOf(t.chat) = {} /\ chats[t.chat] # "absent"
    BY <1>3 DEF Connect, Tasks, Marking, Asks, Viewers, Names
  <2>2. task'[c] = t /\ Alone(c) /\ Alone(c)' /\ task[c].at = "idle" /\ UNCHANGED <<clouds, dbs, files, chats>>
    BY <1>3, <1>u, <2>1, Single DEF Connect, At, tables
  <2>3. \A d \in dbs : d.user # Nobody
    BY CloudRegistryAssumption DEF TypeInv, Database
  <2>4. TaskFits(c)'
    BY <2>1, <2>2, <2>3 DEF TaskFits, At, Named, RowOf, Tracks
  <2> QED BY <2>2, <2>4, OthersFit, Passing
<1>4. ASSUME NEW c \in Clients, Mark(c) PROVE RowsFit' /\ \A d \in Clients : TaskFits(d)'
  <2>1. task[c] \in Marking /\ task[c].at = "marking" /\ ~Named(task[c]) /\ RowOf(task[c].chat) = {}
    BY <1>4, Places DEF Mark, TaskFits, At
  <2> DEFINE t == [task[c] EXCEPT !.at = "inserting"]
             ch == task[c].chat
  <2>2. /\ t \in Tasks /\ t.at = "inserting" /\ t.chat = ch /\ t.user = task[c].user /\ t.name = task[c].name
        /\ ch \in Chats
    BY <2>1 DEF Tasks, Marking, Asks
  <2>3. task'[c] = t /\ Alone(c) /\ Alone(c)' /\ UNCHANGED <<clouds, dbs, files>>
    BY <1>4, <1>u, <2>2, Single DEF Mark, tables
  <2>4. chats'[ch] = "marked" /\ \A other \in Chats : other # ch => chats'[other] = chats[other]
    BY <1>4, <2>2, Rewritten DEF Mark
  <2>5. \A id \in DOMAIN clouds : clouds[id].chat # ch
    BY <2>1 DEF RowOf, Tracks
  <2> HIDE DEF t, ch
  <2>6. TaskFits(c)'
    BY <2>1, <2>2, <2>3, <2>4, <2>5 DEF TaskFits, At, Named, RowOf, Tracks
  <2>7. RowsFit'
    BY <1>r, <2>1, <2>2, <2>3, <2>4, <2>5, RowsFitBefore, RowsFitAfter
  <2> QED BY <2>3, <2>6, <2>7, OthersFit
<1>5. ASSUME NEW c \in Clients, InsertRow(c) PROVE RowsFit' /\ \A d \in Clients : TaskFits(d)'
  <2> DEFINE ch == task[c].chat
             row == [chat |-> ch, user |-> task[c].user]
  <2>1. /\ task[c] \in Marking /\ task[c].at = "inserting" /\ ~Named(task[c]) /\ RowOf(ch) = {}
        /\ ch \in Chats /\ chats[ch] = "marked"
    BY <1>5, Places DEF InsertRow, TaskFits, At, Marking
  <2>2. task'[c] = Idle /\ Alone(c) /\ Alone(c)' /\ UNCHANGED <<files, chats>>
    BY <1>5, <1>0, <1>p, <1>u, <2>1, Single DEF InsertRow
  <2>3. clouds' = WithRow(row) /\ row \in Rows /\ row.chat = ch
    BY <1>5, <2>1 DEF InsertRow, Named, Rows, Marking
  <2>4. /\ DOMAIN clouds' = DOMAIN clouds \cup {NextId} /\ NextId \notin DOMAIN clouds
        /\ clouds'[NextId] = row /\ \A id \in DOMAIN clouds : clouds'[id] = clouds[id]
    BY <2>3, Inserted
  <2>5. \A id \in DOMAIN clouds : clouds[id].chat # ch
    BY <2>1 DEF RowOf, Tracks
  <2> HIDE DEF row, ch
  <2>6. TaskFits(c)'
    BY <1>0, <2>2 DEF TaskFits, At
  <2>7. RowsFit'
    BY <1>r, <2>1, <2>2, <2>3, <2>4, <2>5, RowsFitBefore, RowsFitAfter DEF ch
  <2> QED BY <2>2, <2>6, <2>7, OthersFit
<1>6. ASSUME NEW c \in Clients, Locate(c) PROVE RowsFit' /\ \A d \in Clients : TaskFits(d)'
  <2>1. PICK t \in Tasks : Goto(c, t) /\ t.at = "clearing" /\ t.id \in DOMAIN clouds /\ clouds[t.id].chat = t.chat
    BY <1>6, <1>r DEF Locate, Tasks, Clearing, Viewers
  <2>2. task'[c] = t /\ Alone(c) /\ Alone(c)' /\ task[c].at = "idle" /\ UNCHANGED <<clouds, dbs, files, chats>>
    BY <1>6, <1>u, <2>1, Single DEF Locate, At, tables
  <2>3. TaskFits(c)'
    BY <2>1, <2>2 DEF TaskFits, At, Tracks
  <2> QED BY <2>2, <2>3, OthersFit, Passing
<1>7. ASSUME NEW c \in Clients, ClearMarker(c) PROVE RowsFit' /\ \A d \in Clients : TaskFits(d)'
  <2> DEFINE t == [task[c] EXCEPT !.at = "deleting"]
             ch == task[c].chat
             id == task[c].id
  <2>1. /\ task[c] \in Clearing /\ task[c].at = "clearing" /\ ch \in Chats
        /\ id \in DOMAIN clouds /\ clouds[id].chat = ch
    BY <1>7, Places DEF ClearMarker, TaskFits, At, Clearing, Tracks
  <2>2. t \in Tasks /\ t.at = "deleting" /\ t.chat = ch /\ t.id = id
    BY <2>1 DEF Tasks, Clearing
  <2>3. task'[c] = t /\ Alone(c) /\ Alone(c)' /\ UNCHANGED <<clouds, dbs, files>>
    BY <1>7, <1>u, <2>2, Single DEF ClearMarker, tables
  <2>4. chats'[ch] = "plain" /\ \A other \in Chats : other # ch => chats'[other] = chats[other]
    BY <1>7, <2>1, Rewritten DEF ClearMarker
  <2> HIDE DEF t, ch, id
  <2>5. TaskFits(c)'
    BY <2>1, <2>2, <2>3, <2>4 DEF TaskFits, At, Tracks
  <2>6. RowsFit'
    BY <1>r, <2>1, <2>2, <2>3, <2>4, RowsFitBefore, RowsFitAfter
  <2> QED BY <2>3, <2>5, <2>6, OthersFit
<1>8. ASSUME NEW c \in Clients, DeleteRow(c) PROVE RowsFit' /\ \A d \in Clients : TaskFits(d)'
  <2> DEFINE id == task[c].id
             ch == task[c].chat
  <2>1. /\ task[c].at = "deleting" /\ id \in DOMAIN clouds /\ clouds[id].chat = ch /\ chats[ch] = "plain"
    BY <1>8 DEF DeleteRow, TaskFits, At, Tracks
  <2>2. task'[c] = Idle /\ Alone(c) /\ Alone(c)' /\ UNCHANGED <<files, chats>>
    BY <1>8, <1>0, <1>p, <1>u, <2>1, Single DEF DeleteRow
  <2>3. \/ Referred(id) /\ UNCHANGED clouds
        \/ /\ ~Referred(id) /\ DOMAIN clouds' = DOMAIN clouds \ {id}
           /\ \A i \in DOMAIN clouds' : clouds'[i] = clouds[i]
    BY <1>8, <2>1 DEF DeleteRow, Restrict
  <2> HIDE DEF id, ch
  <2>4. TaskFits(c)'
    BY <1>0, <2>2 DEF TaskFits, At
  <2>5. CASE Referred(id) /\ UNCHANGED clouds
    BY <1>r, <2>1, <2>2, <2>4, <2>5, OthersFit, RowsFitBefore, RowsFitAfter DEF Referred, id
  <2>6. CASE /\ ~Referred(id) /\ DOMAIN clouds' = DOMAIN clouds \ {id}
             /\ \A i \in DOMAIN clouds' : clouds'[i] = clouds[i]
    BY <1>r, <2>1, <2>2, <2>4, <2>6, OthersFit, RowsFitBefore, RowsFitAfter DEF Referred, id
  <2> QED BY <2>3, <2>5, <2>6
<1>9. ASSUME NEW c \in Clients, LocateForUpload(c) PROVE RowsFit' /\ \A d \in Clients : TaskFits(d)'
  <2>1. PICK t \in Tasks : Goto(c, t) /\ t.at = "uploading" /\ t.id \in DOMAIN clouds /\ clouds[t.id].chat = t.chat
    BY <1>9, <1>r DEF LocateForUpload, Tasks, Uploading
  <2>2. task'[c] = t /\ Alone(c) /\ Alone(c)' /\ task[c].at = "idle" /\ UNCHANGED <<clouds, dbs, files, chats>>
    BY <1>9, <1>u, <2>1, Single DEF LocateForUpload, At, tables
  <2>3. TaskFits(c)'
    BY <2>1, <2>2 DEF TaskFits, At, Tracks
  <2> QED BY <2>2, <2>3, OthersFit, Passing
<1>10. ASSUME NEW c \in Clients, FileUpload(c) PROVE RowsFit' /\ \A d \in Clients : TaskFits(d)'
  <2> DEFINE file == [cloud |-> task[c].id, chat |-> task[c].chat]
  <2>1. task[c].at = "uploading" /\ task[c].id \in DOMAIN clouds /\ clouds[task[c].id].chat = task[c].chat
    BY <1>10 DEF FileUpload, TaskFits, At, Tracks
  <2>2. task'[c] = Idle /\ Alone(c) /\ Alone(c)' /\ UNCHANGED <<clouds, chats>> /\ files' = files \cup {file}
    BY <1>10, <1>0, <1>p, <1>u, <2>1, Single DEF FileUpload
  <2>3. file.cloud = task[c].id /\ file.chat = task[c].chat
    OBVIOUS
  <2> HIDE DEF file
  <2>4. TaskFits(c)'
    BY <1>0, <2>2 DEF TaskFits, At
  <2>5. RowsFit'
    BY <1>r, <2>1, <2>2, <2>3, RowsFitBefore, RowsFitAfter
  <2> QED BY <2>2, <2>4, <2>5, OthersFit
<1>11. ASSUME NEW c \in Clients, StartScan(c) PROVE RowsFit' /\ \A d \in Clients : TaskFits(d)'
  <2>1. PICK t \in Tasks : Goto(c, t) /\ t.at = "dialogs"
    BY <1>11 DEF StartScan, Tasks, Walking
  <2>2. task'[c] = t /\ Alone(c) /\ Alone(c)' /\ task[c].at = "idle" /\ UNCHANGED <<clouds, dbs, files, chats>>
    BY <1>11, <1>u, <2>1, Single DEF StartScan, At, tables
  <2>3. TaskFits(c)'
    BY <2>1, <2>2 DEF TaskFits, At
  <2> QED BY <2>2, <2>3, OthersFit, Passing
<1>12. ASSUME NEW c \in Clients, ReadDialog(c) PROVE RowsFit' /\ \A d \in Clients : TaskFits(d)'
  <2>1. task[c].left \in SUBSET Chats /\ task[c].at = "dialogs"
    BY <1>12, Places DEF ReadDialog, Walking, At
  <2>2. PICK t \in Tasks : Goto(c, t) /\ t.at \in {"dialogs", "found"} /\ (t.at = "found" => chats[t.chat] = "marked")
    <3>1. PICK ch \in task[c].left :
            Goto(c, IF chats[ch] = "marked" THEN [at |-> "found", left |-> task[c].left \ {ch}, chat |-> ch]
                    ELSE [at |-> "dialogs", left |-> task[c].left \ {ch}])
      BY <1>12 DEF ReadDialog
    <3>2. CASE chats[ch] = "marked"
      <4>1. Goto(c, [at |-> "found", left |-> task[c].left \ {ch}, chat |-> ch])
        BY <3>1, <3>2
      <4> QED BY <2>1, <3>2, <4>1 DEF Tasks, Finding
    <3>3. CASE chats[ch] # "marked"
      <4>1. Goto(c, [at |-> "dialogs", left |-> task[c].left \ {ch}])
        BY <3>1, <3>3
      <4>2. ASSUME NEW t, t = [at |-> "dialogs", left |-> task[c].left \ {ch}]
            PROVE  t \in Tasks /\ t.at = "dialogs"
        BY <2>1, <4>2 DEF Tasks, Walking
      <4> QED BY <4>1, <4>2
    <3> QED BY <3>2, <3>3
  <2>3. task'[c] = t /\ Alone(c) /\ Alone(c)' /\ UNCHANGED <<clouds, dbs, files, chats>>
    BY <1>12, <1>u, <2>1, <2>2, Single DEF ReadDialog, tables
  <2>4. TaskFits(c)'
    BY <2>2, <2>3 DEF TaskFits, At
  <2> QED BY <2>1, <2>3, <2>4, OthersFit, Passing
<1>13. ASSUME NEW c \in Clients, LookUp(c) PROVE RowsFit' /\ \A d \in Clients : TaskFits(d)'
  <2>1. task[c] \in Finding /\ task[c].at = "found" /\ chats[task[c].chat] = "marked" /\ RowOf(task[c].chat) \subseteq Nat
    BY <1>13, <1>r, Places DEF LookUp, TaskFits, At, RowOf
  <2>2. PICK t \in Tasks : Goto(c, t) /\ t.at = "looked" /\ t.chat = task[c].chat
    BY <1>13, <2>1 DEF LookUp, Tasks, Finding, Looking
  <2>3. task'[c] = t /\ Alone(c) /\ Alone(c)' /\ UNCHANGED <<clouds, dbs, files, chats>>
    BY <1>13, <1>u, <2>1, <2>2, Single DEF LookUp, tables
  <2>4. TaskFits(c)'
    BY <2>1, <2>2, <2>3 DEF TaskFits, At
  <2> QED BY <2>1, <2>3, <2>4, OthersFit, Passing
<1>14. ASSUME NEW c \in Clients, Record(c) PROVE RowsFit' /\ \A d \in Clients : TaskFits(d)'
  <2> DEFINE ch == task[c].chat
             row == [chat |-> task[c].chat, user |-> Nobody]
  <2>1. /\ task[c] \in Looking /\ task[c].at = "looked" /\ ch \in Chats /\ chats[ch] = "marked"
    BY <1>14, Places DEF Record, TaskFits, At, Looking
  <2>2. PICK t \in Tasks : Goto(c, t) /\ t.at \in {"idle", "dialogs"}
    BY <1>0, <1>14, <2>1 DEF Record, Tasks, Walking, Looking
  <2>3. task'[c] = t /\ Alone(c) /\ Alone(c)' /\ UNCHANGED <<dbs, files, chats>>
    BY <1>14, <1>u, <2>1, <2>2, Single DEF Record, At
  <2>4. TaskFits(c)'
    BY <2>2, <2>3 DEF TaskFits, At
  <2>5. UNCHANGED clouds \/ (RowOf(ch) = {} /\ clouds' = WithRow(row))
    BY <1>14 DEF Record
  <2>6. CASE UNCHANGED clouds
    BY <2>1, <2>3, <2>4, <2>6, OthersFit, Passing
  <2>7. CASE RowOf(ch) = {} /\ clouds' = WithRow(row)
    <3>1. row \in Rows /\ row.chat = ch
      BY <2>1 DEF Rows, Viewers
    <3>2. /\ DOMAIN clouds' = DOMAIN clouds \cup {NextId} /\ NextId \notin DOMAIN clouds
          /\ clouds'[NextId] = row /\ \A id \in DOMAIN clouds : clouds'[id] = clouds[id]
      BY <2>7, <3>1, Inserted
    <3>3. \A id \in DOMAIN clouds : clouds[id].chat # ch
      BY <2>7 DEF RowOf, Tracks
    <3> HIDE DEF row, ch
    <3>4. RowsFit'
      BY <1>r, <2>1, <2>3, <3>1, <3>2, <3>3, RowsFitBefore, RowsFitAfter
    <3> QED BY <2>3, <2>4, <3>4, OthersFit
  <2> QED BY <2>5, <2>6, <2>7
<1>15. ASSUME NEW c \in Clients, EndScan(c) PROVE RowsFit' /\ \A d \in Clients : TaskFits(d)'
  <2>1. task[c].at = "dialogs"
    BY <1>15 DEF EndScan, At
  <2>2. task'[c] = Idle /\ Alone(c) /\ Alone(c)' /\ UNCHANGED <<clouds, files, chats>>
    BY <1>0, <1>15, <1>p, <1>u, <2>1, Single DEF EndScan, tables
  <2>3. TaskFits(c)'
    BY <1>0, <2>2 DEF TaskFits, At
  <2> QED BY <2>1, <2>2, <2>3, OthersFit, Passing
<1>16. ASSUME \E u \in Users : AddDefaultDatabase(u) PROVE RowsFit' /\ \A d \in Clients : TaskFits(d)'
  <2>1. UNCHANGED <<clouds, files, chats, task>> /\ \A c \in Clients : task[c].at = "idle"
    BY <1>16 DEF AddDefaultDatabase, Quiet, At
  <2>2. \A d \in Clients : TaskFits(d)'
    BY <2>1 DEF TaskFits, At
  <2>3. RowsFit'
    BY <2>1 DEF RowsFit, Marked, RowOf, Tracks, Referred, Inserting, Deleting, FileInItsChat, At
  <2> QED BY <2>2, <2>3
<1>17. ~Crash /\ \A c \in Clients : ~CreateChatFails(c) /\ ~MarkFails(c) /\ ~ClearMarkerFails(c) /\ ~ReadDialogFails(c)
  BY DEF Undisturbed, Fails, Crash, CreateChatFails, MarkFails, ClearMarkerFails, ReadDialogFails
<1> QED BY <1>1, <1>2, <1>3, <1>4, <1>5, <1>6, <1>7, <1>8, <1>9, <1>10, <1>11, <1>12, <1>13, <1>14, <1>15,
            <1>16, <1>17 DEF Next

LEMMA SerialInvariant == MCSpec => []SerialInv
<1>1. MCInit => SerialInv
  <2> SUFFICES ASSUME MCInit PROVE SerialInv
    OBVIOUS
  <2>1. /\ clouds = <<>> /\ DOMAIN clouds = {} /\ files = {} /\ Marked = {} /\ faults = 0 /\ crashes = 0
        /\ \A c \in Clients : task[c].at = "idle"
    BY DEF MCInit, Init, Marked, Idle
  <2>2. OneAtATime /\ \A c \in Clients : TaskFits(c)
    BY <2>1 DEF OneAtATime, TaskFits, At
  <2>3. RowsFit
    BY <2>1 DEF RowsFit, FileInItsChat
  <2> QED BY <2>1, <2>2, <2>3 DEF SerialInv, Undisturbed
<1>2. TypeInv /\ SerialInv /\ [MCNext]_<<vars, regime>> => SerialInv'
  <2> SUFFICES ASSUME TypeInv, SerialInv, [MCNext]_<<vars, regime>>, regime' = "serial"
      PROVE  Undisturbed' /\ RowsFit' /\ \A c \in Clients : TaskFits(c)'
    BY DEF SerialInv
  <2>1. regime = "serial" /\ Undisturbed /\ RowsFit /\ \A c \in Clients : TaskFits(c)
    BY DEF SerialInv, MCNext
  <2>2. CASE MCNext
    <3>1. Undisturbed'
      BY <2>2 DEF MCNext, Allowed, Undisturbed, OneAtATime
    <3> QED BY <2>1, <2>2, <3>1, SerialStep DEF MCNext
  <2>3. CASE UNCHANGED <<vars, regime>>
    BY <2>1, <2>3 DEF vars, Undisturbed, OneAtATime, RowsFit, TaskFits, Named, Inserting, Deleting,
         Tracks, RowOf, Marked, Referred, FileInItsChat, At
  <2> QED BY <2>2, <2>3
<1> QED BY <1>1, <1>2, TypeCorrect, PTL DEF MCSpec

(* With one request at a time and Telegram answering, the rows are the     *)
(* marked chats, but for clouds that hold files, and the message of every  *)
(* file is in the chat its cloud tracks.                                   *)
THEOREM SerialRowsDoMatch == MCSpec => []SerialRowsMatchChats
<1>1. SerialInv => SerialRowsMatchChats
  <2> SUFFICES ASSUME SerialInv, regime = "serial" PROVE RowsAreMarked /\ FileInItsChat
    BY DEF SerialRowsMatchChats
  <2>1. RowsFit
    BY DEF SerialInv
  <2>2. Quiet => \A ch : ~Inserting(ch) /\ ~Deleting(ch)
    BY DEF Quiet, At, Inserting, Deleting
  <2> QED BY <2>1, <2>2 DEF RowsFit, RowsAreMarked
<1> QED BY <1>1, SerialInvariant, PTL

=============================================================================
