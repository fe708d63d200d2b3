--------------------------- MODULE ApprovalsProofs ---------------------------
(***************************************************************************)
(* TLAPS proofs about Approvals: types, one pending approval per task      *)
(* under the approvals API, the announcement of the final status, and the  *)
(* shape of every deadlock on task rows.                                   *)
(***************************************************************************)
EXTENDS Approvals, FiniteSetTheorems, WellFoundedInduction, TLAPS

-----------------------------------------------------------------------------
(* Types. *)

(* A request that is received has a well-formed record, and nothing else moves. *)
LEMMA ReceiveType ==
    ASSUME TypeOK, NEW q \in Requests, NEW op \in {"create", "update", "escalate"},
           NEW a \in Ids, NEW ts \in SUBSET Tasks, NEW s \in Statuses,
           NEW loaded \in Statuses \cup {"absent"}, NEW stage \in Phases,
           Receive(q, op, a, ts, s, loaded, stage)
    PROVE  TypeOK'
<1>1. [op |-> op, app |-> a, tasks |-> ts, target |-> s, prior |-> loaded] \in Request
  BY DEF Request
<1>2. req' \in [Requests -> Request \cup {None}]
  BY <1>1 DEF Receive, TypeOK
<1>3. \A r \in Requests : phase'[r] # "idle" => req'[r] \in Request
  BY <1>1 DEF Receive, TypeOK, Goto
<1> QED BY <1>2, <1>3 DEF Receive, TypeOK, Goto, rows, locks

(* Releasing the locks of a transaction keeps the lock table well-formed. *)
LEMMA ReleaseType ==
    ASSUME TypeOK, NEW q \in Requests, Release(q)
    PROVE  owner' \in [Tasks -> Requests \cup {None}] /\ sharers' \in [Tasks -> SUBSET Requests]
  BY DEF TypeOK, Release

(* The initial state is well-typed. *)
LEMMA InitType == Init => TypeOK
  BY DEF Init, TypeOK, Statuses, Phases, Resolved

(* Every step keeps the types. *)
LEMMA NextType == TypeOK /\ [Next]_vars => TypeOK'
<1> SUFFICES ASSUME TypeOK, [Next]_vars PROVE TypeOK'
  OBVIOUS
<1>1. ASSUME NEW q \in Requests, NEW a \in Ids, NEW ts \in SUBSET Tasks, NEW s \in Statuses,
             BeginCreate(q, a, ts, s)
      PROVE  TypeOK'
  <2> DEFINE stage == IF s = "pending" /\ ts # {} THEN "lock" ELSE "insert"
  <2>1. stage \in Phases BY DEF Phases
  <2>2. Receive(q, "create", a, ts, s, "absent", stage) BY <1>1 DEF BeginCreate
  <2> HIDE DEF stage
  <2> QED BY <2>1, <2>2, ReceiveType
<1>2. ASSUME NEW q \in Requests, NEW a \in Ids, NEW s \in Statuses, BeginUpdate(q, a, s)
      PROVE  TypeOK'
  <2> DEFINE stage == IF s = "pending" /\ status[a] # "pending" /\ links[a] # {}
                      THEN "lock" ELSE "write"
  <2>1. stage \in Phases BY DEF Phases
  <2>2. Receive(q, "update", a, links[a], s, status[a], stage) BY <1>2 DEF BeginUpdate
  <2>3. links[a] \in SUBSET Tasks /\ status[a] \in Statuses \cup {"absent"} BY DEF TypeOK
  <2> HIDE DEF stage
  <2> QED BY <2>1, <2>2, <2>3, ReceiveType
<1>3. ASSUME NEW q \in Requests, NEW a \in Ids, NEW t \in Tasks, BeginEscalate(q, a, t)
      PROVE  TypeOK'
  <2>1. Receive(q, "escalate", a, {t}, "pending", "absent", "insert")
    BY <1>3 DEF BeginEscalate
  <2> QED BY <2>1, ReceiveType DEF Phases, Statuses
<1>4. ASSUME NEW q \in Requests, NEW t \in Tasks, LockTask(q, t) PROVE TypeOK'
  BY <1>4 DEF LockTask, TypeOK, Goto, Phases, rows
<1>5. ASSUME NEW q \in Requests, NEW t \in Tasks, InsertLink(q, t) PROVE TypeOK'
  BY <1>5 DEF InsertLink, TypeOK, Goto, rows
<1>6. ASSUME NEW q \in Requests, CheckPasses(q) PROVE TypeOK'
  BY <1>6 DEF CheckPasses, TypeOK, Goto, Phases, rows, locks
<1>7. ASSUME NEW q \in Requests, CheckConflicts(q) PROVE TypeOK'
  BY <1>7, ReleaseType DEF CheckConflicts, TypeOK, Respond, Goto, Phases, rows
<1>8. ASSUME NEW q \in Requests, CommitInsert(q) PROVE TypeOK'
  <2>1. req[q] \in Request BY <1>8 DEF CommitInsert, TypeOK
  <2>2. req[q].app \in Ids /\ req[q].tasks \in SUBSET Tasks /\ req[q].target \in Statuses
    BY <2>1 DEF Request
  <2> QED BY <1>8, <2>2, ReleaseType DEF CommitInsert, TypeOK, Respond, Goto, Phases
<1>9. ASSUME NEW q \in Requests, CommitUpdate(q) PROVE TypeOK'
  <2>1. req[q] \in Request BY <1>9 DEF CommitUpdate, TypeOK
  <2>2. req[q].app \in Ids /\ req[q].target \in Statuses BY <2>1 DEF Request
  <2>3. status' \in [Ids -> Statuses \cup {"absent"}] /\ unannounced' \subseteq Ids
    BY <1>9, <2>2 DEF CommitUpdate, WriteStatus, TypeOK
  <2> QED BY <1>9, <2>3, ReleaseType DEF CommitUpdate, TypeOK, Goto, Phases
<1>10. ASSUME NEW q \in Requests, Notify(q) PROVE TypeOK'
  BY <1>10 DEF Notify, TypeOK, Respond, Goto, Phases, rows, locks
<1>11. ASSUME NEW q \in Requests, Abort(q) PROVE TypeOK'
  BY <1>11, ReleaseType DEF Abort, TypeOK, Respond, Goto, Phases, rows
<1>12. CASE UNCHANGED vars
  BY <1>12 DEF TypeOK, vars
<1> QED
  BY <1>1, <1>2, <1>3, <1>4, <1>5, <1>6, <1>7, <1>8, <1>9, <1>10, <1>11, <1>12
  DEF Next, NextApi, Escalation, Progress

(* Types of the approval rows, of the lock table and of the requests in     *)
(* flight, for every set of tasks, approvals and concurrent requests.       *)
THEOREM TypeCorrect == Spec => []TypeOK
<1>1. Init => TypeOK BY InitType
<1>2. TypeOK /\ [Next]_vars => TypeOK' BY NextType
<1> QED BY <1>1, <1>2, PTL DEF Spec

-----------------------------------------------------------------------------
(* What a request in flight knows about its row. *)

Active(q) == phase[q] # "idle"

(* A PATCH works on a row that exists and on the links that row has; an     *)
(* insert on an id no row and no other insert has.                          *)
RequestsMatchRows ==
    \A q \in Requests : Active(q) =>
        /\ phase[q] \in {"write", "refresh"} => req[q].op = "update"
        /\ phase[q] = "insert" => req[q].op # "update"
        /\ req[q].op = "update" =>
             /\ status[req[q].app] # "absent" /\ req[q].tasks = links[req[q].app]
        /\ req[q].op # "update" =>
             /\ status[req[q].app] = "absent" /\ req[q].prior = "absent"
             /\ \A r \in Requests : Active(r) /\ req[r].app = req[q].app => r = q

(* Debts are owed for resolved rows only. *)
DebtsAreResolved == \A a \in unannounced : status[a] \in Resolved

RowInv == TypeOK /\ RequestsMatchRows /\ DebtsAreResolved

(* The fields of an active request. *)
LEMMA RequestFields ==
    ASSUME TypeOK, NEW q \in Requests, Active(q)
    PROVE  /\ req[q] \in Request
           /\ req[q].app \in Ids /\ req[q].tasks \in SUBSET Tasks
           /\ req[q].target \in Statuses
  BY DEF TypeOK, Active, Request

(* Steps that only move one request along, or end it, keep RequestsMatchRows. *)
LEMMA AdvanceKeepsRows ==
    ASSUME RowInv, NEW q \in Requests, NEW stage \in Phases, Active(q),
           Goto(q, stage), UNCHANGED <<rows, unannounced>>,
           \/ stage = "idle" /\ \E v : req' = [req EXCEPT ![q] = v]
           \/ /\ UNCHANGED req /\ stage # "idle"
              /\ stage \in {"write", "refresh"} => req[q].op = "update"
              /\ stage = "insert" => req[q].op # "update"
    PROVE  RequestsMatchRows' /\ DebtsAreResolved'
<1>1. \A r \in Requests \ {q} : phase'[r] = phase[r] /\ req'[r] = req[r]
  BY DEF RowInv, TypeOK, Goto
<1>2. phase'[q] = stage BY DEF RowInv, TypeOK, Goto
<1>3. stage # "idle" => req'[q] = req[q] OBVIOUS
<1>4. status' = status /\ links' = links /\ unannounced' = unannounced BY DEF rows
<1> QED BY <1>1, <1>2, <1>3, <1>4 DEF RowInv, RequestsMatchRows, DebtsAreResolved, Active

(* Receiving a request about a suitable row keeps RequestsMatchRows. *)
LEMMA ReceiveKeepsRows ==
    ASSUME RowInv, NEW q \in Requests, NEW op, NEW a \in Ids, NEW ts, NEW s, NEW loaded,
           NEW stage \in {"lock", "insert", "write"},
           Receive(q, op, a, ts, s, loaded, stage),
           stage = "write" => op = "update", stage = "insert" => op # "update",
           op = "update" => status[a] # "absent" /\ ts = links[a],
           op # "update" => Fresh(a) /\ loaded = "absent"
    PROVE  RequestsMatchRows' /\ DebtsAreResolved'
<1>1. \A r \in Requests \ {q} : phase'[r] = phase[r] /\ req'[r] = req[r]
  BY DEF RowInv, TypeOK, Receive, Goto
<1>2. phase'[q] = stage /\ phase[q] = "idle" BY DEF RowInv, TypeOK, Receive, Goto
<1>3. req'[q] = [op |-> op, app |-> a, tasks |-> ts, target |-> s, prior |-> loaded]
  BY DEF RowInv, TypeOK, Receive
<1>4. status' = status /\ links' = links /\ unannounced' = unannounced BY DEF Receive, rows
<1>5. req'[q].op = op /\ req'[q].app = a /\ req'[q].tasks = ts /\ req'[q].prior = loaded
  BY <1>3
<1>6. \A r \in Requests \ {q} : Active(r) /\ req[r].op # "update" => req[r].app # a
  BY DEF RowInv, RequestsMatchRows, Fresh, Active
<1>7. op # "update" => \A r \in Requests : Active(r) => req[r].app # a
  BY DEF Fresh, Active
<1> QED
  BY <1>1, <1>2, <1>4, <1>5, <1>6, <1>7
  DEF RowInv, RequestsMatchRows, DebtsAreResolved, Active, Fresh

(* Every step keeps RowInv. *)
LEMMA NextRows == RowInv /\ [Next]_vars => RowInv'
<1> SUFFICES ASSUME RowInv, [Next]_vars PROVE RequestsMatchRows' /\ DebtsAreResolved'
  BY NextType DEF RowInv
<1> USE DEF Phases
<1>1. ASSUME NEW q \in Requests, NEW a \in Ids, NEW ts \in SUBSET Tasks, NEW s \in Statuses,
             BeginCreate(q, a, ts, s)
      PROVE  RequestsMatchRows' /\ DebtsAreResolved'
  BY <1>1, ReceiveKeepsRows DEF BeginCreate
<1>2. ASSUME NEW q \in Requests, NEW a \in Ids, NEW s \in Statuses, BeginUpdate(q, a, s)
      PROVE  RequestsMatchRows' /\ DebtsAreResolved'
  BY <1>2, ReceiveKeepsRows DEF BeginUpdate
<1>3. ASSUME NEW q \in Requests, NEW a \in Ids, NEW t \in Tasks, BeginEscalate(q, a, t)
      PROVE  RequestsMatchRows' /\ DebtsAreResolved'
  BY <1>3, ReceiveKeepsRows DEF BeginEscalate
<1>4. ASSUME NEW q \in Requests, NEW t \in Tasks, LockTask(q, t)
      PROVE  RequestsMatchRows' /\ DebtsAreResolved'
  BY <1>4, AdvanceKeepsRows DEF LockTask, Active
<1>5. ASSUME NEW q \in Requests, NEW t \in Tasks, InsertLink(q, t)
      PROVE  RequestsMatchRows' /\ DebtsAreResolved'
  BY <1>5 DEF InsertLink, RowInv, RequestsMatchRows, DebtsAreResolved, Active, rows
<1>6. ASSUME NEW q \in Requests, CheckPasses(q) PROVE RequestsMatchRows' /\ DebtsAreResolved'
  BY <1>6, AdvanceKeepsRows DEF CheckPasses, Active
<1>7. ASSUME NEW q \in Requests, CheckConflicts(q) PROVE RequestsMatchRows' /\ DebtsAreResolved'
  BY <1>7, AdvanceKeepsRows DEF CheckConflicts, Respond, Active
<1>8. ASSUME NEW q \in Requests, CommitInsert(q) PROVE RequestsMatchRows' /\ DebtsAreResolved'
  <2> DEFINE a == req[q].app
  <2>1. Active(q) /\ req[q].op # "update" BY <1>8 DEF CommitInsert, Active, RowInv, RequestsMatchRows
  <2>2. a \in Ids /\ req[q].target \in Statuses BY <2>1, RequestFields DEF RowInv
  <2>3. status[a] = "absent" /\ \A r \in Requests \ {q} : Active(r) => req[r].app # a
    BY <2>1 DEF RowInv, RequestsMatchRows
  <2>4. \A b \in Ids \ {a} : status'[b] = status[b] /\ links'[b] = links[b]
    BY <1>8, <2>2 DEF CommitInsert, RowInv, TypeOK
  <2>5. a \notin unannounced BY <2>3 DEF RowInv, DebtsAreResolved, Resolved
  <2>6. \A r \in Requests \ {q} : phase'[r] = phase[r] /\ req'[r] = req[r]
    BY <1>8 DEF CommitInsert, Respond, Goto, RowInv, TypeOK
  <2>7. phase'[q] = "idle" BY <1>8 DEF CommitInsert, Respond, Goto, RowInv, TypeOK
  <2>8. unannounced' = unannounced /\ unannounced \subseteq Ids
    BY <1>8 DEF CommitInsert, RowInv, TypeOK
  <2>9. \A r \in Requests \ {q} : Active(r) => req[r].app \in Ids \ {a}
    BY <2>3, RequestFields DEF RowInv
  <2> HIDE DEF a
  <2>10. DebtsAreResolved' BY <2>4, <2>5, <2>8 DEF RowInv, DebtsAreResolved
  <2>11. RequestsMatchRows' BY <2>4, <2>6, <2>7, <2>9 DEF RowInv, RequestsMatchRows, Active
  <2> QED BY <2>10, <2>11
<1>9. ASSUME NEW q \in Requests, CommitUpdate(q) PROVE RequestsMatchRows' /\ DebtsAreResolved'
  <2> DEFINE a == req[q].app
  <2>1. Active(q) /\ req[q].op = "update" BY <1>9 DEF CommitUpdate, Active, RowInv, RequestsMatchRows
  <2>2. a \in Ids /\ req[q].target \in Statuses BY <2>1, RequestFields DEF RowInv
  <2>3. status[a] # "absent" BY <2>1 DEF RowInv, RequestsMatchRows
  <2>4. \A b \in Ids \ {a} : status'[b] = status[b]
    BY <1>9, <2>2 DEF CommitUpdate, WriteStatus, RowInv, TypeOK
  <2>5. status'[a] # "absent"
    BY <1>9, <2>2, <2>3 DEF CommitUpdate, WriteStatus, RowInv, TypeOK, Statuses
  <2>6. \A r \in Requests \ {q} : phase'[r] = phase[r]
    BY <1>9 DEF CommitUpdate, Goto, RowInv, TypeOK
  <2>7. phase'[q] = "refresh" BY <1>9 DEF CommitUpdate, Goto, RowInv, TypeOK
  <2>8. req' = req /\ links' = links BY <1>9 DEF CommitUpdate
  <2>9. \A r \in Requests : Active(r) => req[r].app \in Ids BY RequestFields DEF RowInv
  <2>10. DebtsAreResolved'
    <3>1. CASE req[q].target = req[q].prior
      BY <1>9, <3>1 DEF CommitUpdate, RowInv, DebtsAreResolved
    <3>2. CASE req[q].target # req[q].prior
      BY <1>9, <3>2, <2>2 DEF CommitUpdate, WriteStatus, RowInv, TypeOK, DebtsAreResolved
    <3> QED BY <3>1, <3>2
  <2>11. \A b \in Ids : (status'[b] = "absent") <=> (status[b] = "absent")
    BY <2>3, <2>4, <2>5
  <2> HIDE DEF a
  <2>12. RequestsMatchRows'
    BY <2>1, <2>6, <2>7, <2>8, <2>9, <2>11 DEF RowInv, RequestsMatchRows, Active
  <2> QED BY <2>10, <2>12
<1>10. ASSUME NEW q \in Requests, Notify(q) PROVE RequestsMatchRows' /\ DebtsAreResolved'
  <2>1. \A r \in Requests \ {q} : phase'[r] = phase[r] /\ req'[r] = req[r]
    BY <1>10 DEF Notify, Respond, Goto, RowInv, TypeOK
  <2>2. phase'[q] = "idle" BY <1>10 DEF Notify, Respond, Goto, RowInv, TypeOK
  <2>3. status' = status /\ links' = links /\ unannounced' \subseteq unannounced
    BY <1>10 DEF Notify, rows
  <2> QED BY <2>1, <2>2, <2>3 DEF RowInv, RequestsMatchRows, DebtsAreResolved, Active
<1>11. ASSUME NEW q \in Requests, Abort(q) PROVE RequestsMatchRows' /\ DebtsAreResolved'
  BY <1>11, AdvanceKeepsRows DEF Abort, Respond, Active
<1>12. CASE UNCHANGED vars
  BY <1>12 DEF vars, RowInv, RequestsMatchRows, DebtsAreResolved, Active
<1> QED
  BY <1>1, <1>2, <1>3, <1>4, <1>5, <1>6, <1>7, <1>8, <1>9, <1>10, <1>11, <1>12
  DEF Next, NextApi, Escalation, Progress

(* RowInv holds initially. *)
LEMMA InitRows == Init => RowInv
  BY InitType DEF Init, RowInv, RequestsMatchRows, DebtsAreResolved, Active

-----------------------------------------------------------------------------
(* The lead hears of the final status. *)

AnnouncedInv == RowInv /\ FinalStatusAnnounced

(* Steps that change no row, no debt, and take no request out of "refresh". *)
LEMMA QuietKeepsAnnounced ==
    ASSUME AnnouncedInv, UNCHANGED <<status, unannounced>>,
           \A q \in Requests : phase[q] = "refresh" => phase'[q] = "refresh" /\ req'[q] = req[q]
    PROVE  FinalStatusAnnounced'
  BY DEF AnnouncedInv, FinalStatusAnnounced

(* Every step keeps FinalStatusAnnounced. *)
LEMMA NextAnnounced == AnnouncedInv /\ [Next]_vars => AnnouncedInv'
<1> SUFFICES ASSUME AnnouncedInv, [Next]_vars PROVE FinalStatusAnnounced'
  BY NextRows DEF AnnouncedInv
<1>1. ASSUME NEW q \in Requests, NEW op, NEW a, NEW ts, NEW s, NEW loaded, NEW stage,
             Receive(q, op, a, ts, s, loaded, stage)
      PROVE  FinalStatusAnnounced'
  BY <1>1, QuietKeepsAnnounced DEF Receive, Goto, AnnouncedInv, RowInv, TypeOK, rows
<1>2. ASSUME NEW q \in Requests, NEW t \in Tasks, LockTask(q, t) PROVE FinalStatusAnnounced'
  BY <1>2, QuietKeepsAnnounced DEF LockTask, Goto, AnnouncedInv, RowInv, TypeOK, rows
<1>3. ASSUME NEW q \in Requests, NEW t \in Tasks, InsertLink(q, t) PROVE FinalStatusAnnounced'
  BY <1>3, QuietKeepsAnnounced DEF InsertLink, rows
<1>4. ASSUME NEW q \in Requests, CheckPasses(q) PROVE FinalStatusAnnounced'
  BY <1>4, QuietKeepsAnnounced DEF CheckPasses, Goto, AnnouncedInv, RowInv, TypeOK, rows
<1>5. ASSUME NEW q \in Requests, CheckConflicts(q) \/ Abort(q) PROVE FinalStatusAnnounced'
  BY <1>5, QuietKeepsAnnounced
  DEF CheckConflicts, Abort, Respond, Goto, AnnouncedInv, RowInv, TypeOK, rows
<1>6. ASSUME NEW q \in Requests, CommitInsert(q) PROVE FinalStatusAnnounced'
  <2> DEFINE a == req[q].app
  <2>1. Active(q) /\ status[a] = "absent"
    BY <1>6 DEF CommitInsert, Active, AnnouncedInv, RowInv, RequestsMatchRows
  <2>2. a \notin unannounced
    BY <2>1 DEF AnnouncedInv, RowInv, DebtsAreResolved, Resolved
  <2>3. a \in Ids BY <2>1, RequestFields DEF AnnouncedInv, RowInv
  <2>4. \A b \in Ids \ {a} : status'[b] = status[b]
    BY <1>6, <2>3 DEF CommitInsert, AnnouncedInv, RowInv, TypeOK
  <2>5. \A r \in Requests : phase[r] = "refresh" => phase'[r] = "refresh" /\ req'[r] = req[r]
    BY <1>6 DEF CommitInsert, Respond, Goto, AnnouncedInv, RowInv, TypeOK
  <2>6. unannounced' = unannounced /\ unannounced \subseteq Ids
    BY <1>6 DEF CommitInsert, AnnouncedInv, RowInv, TypeOK
  <2> HIDE DEF a
  <2> QED BY <2>2, <2>4, <2>5, <2>6 DEF AnnouncedInv, FinalStatusAnnounced
<1>7. ASSUME NEW q \in Requests, CommitUpdate(q) PROVE FinalStatusAnnounced'
  <2> DEFINE a == req[q].app
  <2>1. phase'[q] = "refresh" /\ req' = req
    BY <1>7 DEF CommitUpdate, Goto, AnnouncedInv, RowInv, TypeOK
  <2>2. \A r \in Requests : phase[r] = "refresh" => phase'[r] = "refresh"
    BY <1>7 DEF CommitUpdate, Goto, AnnouncedInv, RowInv, TypeOK
  <2>3. CASE req[q].target = req[q].prior
    BY <1>7, <2>1, <2>2, <2>3, QuietKeepsAnnounced DEF CommitUpdate
  <2>4. CASE req[q].target # req[q].prior
    <3>1. a \in Ids
      BY <1>7, RequestFields DEF CommitUpdate, Active, AnnouncedInv, RowInv
    <3>2. status'[a] = req[q].target /\ \A b \in Ids \ {a} : status'[b] = status[b]
      BY <1>7, <2>4, <3>1 DEF CommitUpdate, WriteStatus, AnnouncedInv, RowInv, TypeOK
    <3>3. unannounced' \subseteq unannounced \cup {a} /\ unannounced \subseteq Ids
      BY <1>7, <2>4 DEF CommitUpdate, WriteStatus, AnnouncedInv, RowInv, TypeOK
    <3>4. req'[q].app = a /\ req'[q].prior # status'[a]
      BY <2>1, <2>4, <3>2
    <3> HIDE DEF a
    <3> QED
      BY <2>1, <2>2, <3>2, <3>3, <3>4 DEF AnnouncedInv, FinalStatusAnnounced
  <2> QED BY <2>3, <2>4
<1>8. ASSUME NEW q \in Requests, Notify(q) PROVE FinalStatusAnnounced'
  <2>1. \A r \in Requests \ {q} : phase'[r] = phase[r] /\ req'[r] = req[r]
    BY <1>8 DEF Notify, Respond, Goto, AnnouncedInv, RowInv, TypeOK
  <2>2. status' = status BY <1>8 DEF Notify, rows
  <2>3. \A a \in unannounced' : a \in unannounced /\
          (req[q].app = a => status[a] \notin Resolved \/ status[a] = req[q].prior)
    BY <1>8 DEF Notify
  <2>4. \A a \in unannounced' : \E r \in Requests \ {q} :
          phase[r] = "refresh" /\ req[r].app = a /\ req[r].prior # status[a]
    BY <2>3 DEF AnnouncedInv, FinalStatusAnnounced, RowInv, DebtsAreResolved
  <2> QED BY <2>1, <2>2, <2>4 DEF FinalStatusAnnounced
<1>9. CASE UNCHANGED vars
  BY <1>9, QuietKeepsAnnounced DEF vars
<1>10. ASSUME NEW q \in Requests, NEW a \in Ids, NEW ts \in SUBSET Tasks, NEW s \in Statuses,
              BeginCreate(q, a, ts, s)
       PROVE  FinalStatusAnnounced'
  BY <1>1, <1>10 DEF BeginCreate
<1>11. ASSUME NEW q \in Requests, NEW a \in Ids, NEW s \in Statuses, BeginUpdate(q, a, s)
       PROVE  FinalStatusAnnounced'
  BY <1>1, <1>11 DEF BeginUpdate
<1>12. ASSUME NEW q \in Requests, NEW a \in Ids, NEW t \in Tasks, BeginEscalate(q, a, t)
       PROVE  FinalStatusAnnounced'
  BY <1>1, <1>12 DEF BeginEscalate
<1> QED
  BY <1>2, <1>3, <1>4, <1>5, <1>6, <1>7, <1>8, <1>9, <1>10, <1>11, <1>12
  DEF Next, NextApi, Escalation, Progress

(* The status a PATCH left on a resolved approval reaches the lead          *)
(* notification of update_approval, whatever requests overlap; escalations  *)
(* included.                                                                *)
THEOREM LeadHearsFinalStatus == Spec => []FinalStatusAnnounced
<1>1. Init => AnnouncedInv
  BY InitRows DEF AnnouncedInv, Init, FinalStatusAnnounced
<1>2. AnnouncedInv /\ [Next]_vars => AnnouncedInv' BY NextAnnounced
<1>3. AnnouncedInv => FinalStatusAnnounced BY DEF AnnouncedInv
<1> QED BY <1>1, <1>2, <1>3, PTL DEF Spec

-----------------------------------------------------------------------------
(* One pending approval per task, under the approvals API. *)

(* Requests that would make tasks pending which were not. *)
Locking(q) == /\ req[q].target = "pending" /\ req[q].prior # "pending"
              /\ req[q].tasks # {}

(* Between the conflict check and the commit. *)
Cleared(q) == phase[q] \in {"insert", "write"} /\ Locking(q)

LocksHeld ==
    \A q \in Requests : phase[q] = "check" \/ Cleared(q) =>
        \A t \in req[q].tasks : owner[t] = q

StaysCleared ==
    \A q \in Requests : Cleared(q) =>
        \A a \in Ids \ {req[q].app} : status[a] = "pending" => links[a] \cap req[q].tasks = {}

PendingInv == RowInv /\ LocksHeld /\ StaysCleared /\ OnePending

(* Steps that write no row and in which request q alone moves, without      *)
(* becoming cleared or checking, and gives up no lock of another request.   *)
LEMMA QuietKeepsPending ==
    ASSUME PendingInv, UNCHANGED rows, NEW q \in Requests,
           \A r \in Requests \ {q} : phase'[r] = phase[r] /\ req'[r] = req[r],
           \A t \in Tasks : owner[t] \in Requests \ {q} => owner'[t] = owner[t],
           phase'[q] # "check" /\ ~Cleared(q)'
    PROVE  LocksHeld' /\ StaysCleared' /\ OnePending'
<1>1. status' = status /\ links' = links BY DEF rows
<1>2. \A r \in Requests \ {q} : Cleared(r)' <=> Cleared(r)
  BY DEF Cleared, Locking
<1>3. \A r \in Requests \ {q} : phase[r] = "check" \/ Cleared(r) => req[r].tasks \subseteq Tasks
  BY RequestFields DEF PendingInv, RowInv, Cleared, Active
<1>4. LocksHeld'
  BY <1>2, <1>3 DEF PendingInv, LocksHeld
<1>5. StaysCleared'
  BY <1>1, <1>2 DEF PendingInv, StaysCleared
<1> QED BY <1>1, <1>4, <1>5 DEF PendingInv, OnePending

(* A transaction's release frees its own locks only. *)
LEMMA ReleaseOwn ==
    ASSUME PendingInv, NEW q \in Requests, Release(q)
    PROVE  \A t \in Tasks : owner[t] \in Requests \ {q} => owner'[t] = owner[t]
  BY DEF Release

(* When q commits a pending status on its tasks, they have no other pending *)
(* approval and no other request is cleared for one of them.                *)
LEMMA CommitPending ==
    ASSUME PendingInv, NEW q \in Requests, NEW a \in Ids, Cleared(q), a = req[q].app
    PROVE  /\ \A b \in Ids \ {a} : status[b] = "pending" => links[b] \cap req[q].tasks = {}
           /\ \A r \in Requests \ {q} : Cleared(r) => req[r].tasks \cap req[q].tasks = {}
  BY DEF PendingInv, StaysCleared, LocksHeld
(* Every step of the approvals API keeps PendingInv. *)
LEMMA NextPending == PendingInv /\ [NextApi]_vars => PendingInv'
<1> SUFFICES ASSUME PendingInv, [NextApi]_vars PROVE LocksHeld' /\ StaysCleared' /\ OnePending'
  BY NextRows DEF PendingInv, Next
<1>0. TypeOK /\ RequestsMatchRows BY DEF PendingInv, RowInv
<1>1. ASSUME NEW q \in Requests, NEW op, NEW a, NEW ts, NEW s, NEW loaded, NEW stage,
             Receive(q, op, a, ts, s, loaded, stage), stage # "check",
             stage \in {"insert", "write"} => s # "pending" \/ loaded = "pending" \/ ts = {}
      PROVE  LocksHeld' /\ StaysCleared' /\ OnePending'
  <2>1. req'[q] = [op |-> op, app |-> a, tasks |-> ts, target |-> s, prior |-> loaded]
    BY <1>0, <1>1 DEF Receive, TypeOK
  <2>2. req'[q].target = s /\ req'[q].prior = loaded /\ req'[q].tasks = ts BY <2>1
  <2>3. phase'[q] = stage BY <1>0, <1>1 DEF Receive, Goto, TypeOK
  <2>4. phase'[q] # "check" /\ ~Cleared(q)' BY <1>1, <2>2, <2>3 DEF Cleared, Locking
  <2>5. UNCHANGED rows /\ owner' = owner BY <1>1 DEF Receive, locks
  <2>6. \A r \in Requests \ {q} : phase'[r] = phase[r] /\ req'[r] = req[r]
    BY <1>0, <1>1 DEF Receive, Goto, TypeOK
  <2> QED BY <2>4, <2>5, <2>6, QuietKeepsPending
<1>2. ASSUME NEW q \in Requests, NEW a \in Ids, NEW ts \in SUBSET Tasks, NEW s \in Statuses,
             BeginCreate(q, a, ts, s)
      PROVE  LocksHeld' /\ StaysCleared' /\ OnePending'
  BY <1>1, <1>2 DEF BeginCreate
<1>3. ASSUME NEW q \in Requests, NEW a \in Ids, NEW s \in Statuses, BeginUpdate(q, a, s)
      PROVE  LocksHeld' /\ StaysCleared' /\ OnePending'
  BY <1>1, <1>3 DEF BeginUpdate
<1>4. ASSUME NEW q \in Requests, NEW t \in Tasks, LockTask(q, t)
      PROVE  LocksHeld' /\ StaysCleared' /\ OnePending'
  <2>1. \A r \in Requests \ {q} : phase'[r] = phase[r] BY <1>0, <1>4 DEF LockTask, Goto, TypeOK
  <2>2. req' = req /\ status' = status /\ links' = links BY <1>4 DEF LockTask, rows
  <2>3. \A u \in Tasks : owner[u] \in Requests => owner'[u] = owner[u]
    BY <1>0, <1>4, ConstantsAssumption DEF LockTask, TypeOK
  <2>4. owner'[t] = q BY <1>0, <1>4 DEF LockTask, TypeOK
  <2>5. ~Cleared(q)' BY <1>0, <1>4 DEF LockTask, Goto, TypeOK, Cleared
  <2>6. phase'[q] = "check" => \A u \in req[q].tasks \ {t} : owner[u] = q
    BY <1>0, <1>4 DEF LockTask, Goto, TypeOK
  <2>7. req[q].tasks \subseteq Tasks
    BY <1>0, <1>4, RequestFields DEF LockTask, Active
  <2>8. \A r \in Requests \ {q} : phase[r] = "check" \/ Cleared(r) => req[r].tasks \subseteq Tasks
    BY <1>0, RequestFields DEF Cleared, Active
  <2>9. \A r \in Requests \ {q} : Cleared(r)' <=> Cleared(r) BY <2>1, <2>2 DEF Cleared, Locking
  <2>10. phase'[q] = "check" => \A u \in req[q].tasks : owner'[u] = q
    BY <2>3, <2>4, <2>6, <2>7
  <2>11. LocksHeld'
    BY <2>1, <2>2, <2>3, <2>5, <2>8, <2>9, <2>10 DEF PendingInv, LocksHeld
  <2> QED BY <2>2, <2>5, <2>9, <2>11 DEF PendingInv, StaysCleared, OnePending
<1>5. ASSUME NEW q \in Requests, NEW t \in Tasks, InsertLink(q, t)
      PROVE  LocksHeld' /\ StaysCleared' /\ OnePending'
  BY <1>5 DEF InsertLink, rows, PendingInv, LocksHeld, StaysCleared, OnePending, Cleared, Locking
<1>6. ASSUME NEW q \in Requests, CheckPasses(q)
      PROVE  LocksHeld' /\ StaysCleared' /\ OnePending'
  <2>1. \A r \in Requests \ {q} : phase'[r] = phase[r] BY <1>0, <1>6 DEF CheckPasses, Goto, TypeOK
  <2>2. req' = req /\ status' = status /\ links' = links /\ owner' = owner
    BY <1>6 DEF CheckPasses, rows, locks
  <2>3. phase'[q] # "check" BY <1>0, <1>6 DEF CheckPasses, Goto, TypeOK
  <2>4. \A r \in Requests \ {q} : Cleared(r)' <=> Cleared(r) BY <2>1, <2>2 DEF Cleared, Locking
  <2>5. \A u \in req[q].tasks : owner[u] = q BY <1>6 DEF CheckPasses, PendingInv, LocksHeld
  <2>6. \A a \in Ids \ {req[q].app} : status[a] = "pending" => links[a] \cap req[q].tasks = {}
    BY <1>6 DEF CheckPasses, PendingConflict
  <2>7. LocksHeld' BY <2>1, <2>2, <2>3, <2>4, <2>5 DEF PendingInv, LocksHeld
  <2>8. StaysCleared' BY <2>2, <2>4, <2>6 DEF PendingInv, StaysCleared
  <2> QED BY <2>2, <2>7, <2>8 DEF PendingInv, OnePending
<1>7. ASSUME NEW q \in Requests, CheckConflicts(q) \/ Abort(q)
      PROVE  LocksHeld' /\ StaysCleared' /\ OnePending'
  <2>1. phase'[q] = "idle" BY <1>0, <1>7 DEF CheckConflicts, Abort, Respond, Goto, TypeOK
  <2>2. \A r \in Requests \ {q} : phase'[r] = phase[r] /\ req'[r] = req[r]
    BY <1>0, <1>7 DEF CheckConflicts, Abort, Respond, Goto, TypeOK
  <2>3. UNCHANGED rows /\ Release(q) BY <1>7 DEF CheckConflicts, Abort
  <2>4. ~Cleared(q)' BY <2>1 DEF Cleared
  <2> QED BY <2>1, <2>2, <2>3, <2>4, ReleaseOwn, QuietKeepsPending
<1>8. ASSUME NEW q \in Requests, Notify(q)
      PROVE  LocksHeld' /\ StaysCleared' /\ OnePending'
  <2>1. phase'[q] = "idle" BY <1>0, <1>8 DEF Notify, Respond, Goto, TypeOK
  <2>2. \A r \in Requests \ {q} : phase'[r] = phase[r] /\ req'[r] = req[r]
    BY <1>0, <1>8 DEF Notify, Respond, Goto, TypeOK
  <2>3. UNCHANGED rows /\ owner' = owner BY <1>8 DEF Notify, locks
  <2>4. ~Cleared(q)' BY <2>1 DEF Cleared
  <2> QED BY <2>1, <2>2, <2>3, <2>4, QuietKeepsPending
<1>9. ASSUME NEW q \in Requests, CommitInsert(q) \/ CommitUpdate(q)
      PROVE  LocksHeld' /\ StaysCleared' /\ OnePending'
  <2> DEFINE a == req[q].app
  <2>1. phase[q] \in {"insert", "write"} /\ Active(q)
    BY <1>9 DEF CommitInsert, CommitUpdate, Active
  <2>2. a \in Ids /\ req[q].tasks \in SUBSET Tasks BY <1>0, <2>1, RequestFields
  <2>3. phase'[q] \in {"idle", "refresh"}
    BY <1>0, <1>9 DEF CommitInsert, CommitUpdate, Respond, Goto, TypeOK
  <2>4. \A r \in Requests \ {q} : phase'[r] = phase[r] /\ req'[r] = req[r]
    BY <1>0, <1>9 DEF CommitInsert, CommitUpdate, Respond, Goto, TypeOK
  <2>5. \A t \in Tasks : owner[t] \in Requests \ {q} => owner'[t] = owner[t]
    BY <1>9, ReleaseOwn DEF CommitInsert, CommitUpdate
  <2>6. \A b \in Ids \ {a} : status'[b] = status[b] /\ links'[b] = links[b]
    BY <1>0, <1>9, <2>2 DEF CommitInsert, CommitUpdate, WriteStatus, TypeOK
  <2>7. ~Cleared(q)' /\ phase'[q] # "check" BY <2>3 DEF Cleared
  <2>8. \A r \in Requests \ {q} : Cleared(r)' <=> Cleared(r) BY <2>4 DEF Cleared, Locking
  <2>9. \A r \in Requests \ {q} : phase[r] = "check" \/ Cleared(r) => req[r].tasks \subseteq Tasks
    BY <1>0, RequestFields DEF Cleared, Active
  <2>10. LocksHeld'
    BY <2>4, <2>5, <2>7, <2>8, <2>9 DEF PendingInv, LocksHeld
  <2>11. links'[a] = req[q].tasks
    <3>1. CASE CommitInsert(q) BY <1>0, <3>1, <2>2 DEF CommitInsert, TypeOK
    <3>2. CASE CommitUpdate(q)
      BY <1>0, <2>1, <3>2 DEF CommitUpdate, RequestsMatchRows
    <3> QED BY <1>9, <3>1, <3>2
  <2>12. CASE Cleared(q)
    <3>1. /\ \A b \in Ids \ {a} : status[b] = "pending" => links[b] \cap req[q].tasks = {}
          /\ \A r \in Requests \ {q} : Cleared(r) => req[r].tasks \cap req[q].tasks = {}
      BY <2>2, <2>12, CommitPending
    <3> HIDE DEF a
    <3>2. OnePending' BY <2>6, <2>11, <3>1 DEF PendingInv, OnePending
    <3>3. StaysCleared'
      BY <2>4, <2>6, <2>7, <2>8, <2>11, <3>1 DEF PendingInv, StaysCleared
    <3> QED BY <2>10, <3>2, <3>3
  <2>13. CASE ~Cleared(q)
    <3>1. \/ status'[a] # "pending"
          \/ status'[a] = status[a] /\ links'[a] = links[a]
          \/ links'[a] = {}
      <4>1. CASE CommitInsert(q)
        <5>1. req[q].prior = "absent"
          BY <1>0, <2>1, <4>1 DEF CommitInsert, RequestsMatchRows
        <5>2. status'[a] = req[q].target BY <1>0, <2>2, <4>1 DEF CommitInsert, TypeOK
        <5> QED BY <2>1, <2>11, <2>13, <5>1, <5>2 DEF Cleared, Locking
      <4>2. CASE CommitUpdate(q) /\ req[q].target = req[q].prior
        BY <4>2 DEF CommitUpdate
      <4>3. CASE CommitUpdate(q) /\ req[q].target # req[q].prior
        <5>1. status'[a] = req[q].target
          BY <1>0, <2>2, <4>3 DEF CommitUpdate, WriteStatus, TypeOK
        <5> QED BY <2>1, <2>11, <2>13, <4>3, <5>1 DEF Cleared, Locking
      <4> QED BY <1>9, <4>1, <4>2, <4>3
    <3> HIDE DEF a
    <3>2. OnePending' BY <2>6, <3>1 DEF PendingInv, OnePending
    <3>3. StaysCleared'
      BY <2>2, <2>4, <2>6, <2>7, <2>8, <3>1 DEF PendingInv, StaysCleared
    <3> QED BY <2>10, <3>2, <3>3
  <2> QED BY <2>12, <2>13
<1>10. CASE UNCHANGED vars
  BY <1>10 DEF vars, PendingInv, LocksHeld, StaysCleared, OnePending, Cleared, Locking
<1> QED
  BY <1>2, <1>3, <1>4, <1>5, <1>6, <1>7, <1>8, <1>9, <1>10 DEF NextApi, Progress

(* A task never has two pending approvals, whatever creations, reopenings   *)
(* and resolutions of the approvals API overlap, for every number of tasks, *)
(* approvals and requests: the locks taken before the check serialise the   *)
(* requests that could disagree.                                            *)
THEOREM OnePendingPerTask == SpecApi => []OnePending
<1>1. Init => PendingInv
  BY InitRows DEF Init, PendingInv, LocksHeld, StaysCleared, OnePending, Cleared
<1>2. PendingInv /\ [NextApi]_vars => PendingInv' BY NextPending
<1>3. PendingInv => OnePending BY DEF PendingInv
<1> QED BY <1>1, <1>2, <1>3, PTL DEF SpecApi

-----------------------------------------------------------------------------
(* Deadlocks on task rows. *)

(* Who holds what: row locks are taken from the lowest id upwards, a request *)
(* past its lock phase that owns a row owns all of its rows, a creation of a *)
(* pending approval inserts with its rows locked, an escalation names one    *)
(* task, and foreign-key locks are held by requests that insert.             *)
LocksOrdered ==
    /\ \A t \in Tasks, q \in Requests : owner[t] = q =>
          phase[q] \in {"lock", "check", "insert", "write"} /\ t \in req[q].tasks
    /\ \A t \in Tasks : \A q \in sharers[t] : phase[q] = "insert" /\ t \in req[q].tasks
    /\ \A q \in Requests : phase[q] = "lock" =>
          \A t, u \in req[q].tasks : owner[t] = q /\ u < t => owner[u] = q
    /\ \A q \in Requests : phase[q] \in {"check", "insert", "write"} =>
          \A t, u \in req[q].tasks : owner[t] = q => owner[u] = q
    /\ \A q \in Requests : phase[q] = "check" => \A t \in req[q].tasks : owner[t] = q
    /\ \A q \in Requests : phase[q] = "insert" /\ req[q].target = "pending" =>
          (\A t \in req[q].tasks : owner[t] = q) \/ (\A t, u \in req[q].tasks : t = u)

LockInv == TypeOK /\ LocksOrdered

(* A finite, non-empty set of task ids has a highest one. *)
LEMMA HighestTask ==
    ASSUME NEW S \in SUBSET Nat, IsFiniteSet(S), S # {}
    PROVE  \E t \in S : \A u \in S : u <= t
<1> DEFINE Above(t) == {u \in S : u > t}
           T == {Above(t) : t \in S}
<1>1. IsWellFoundedOn(StrictSubsetOrdering(S), FiniteSubsetsOf(S))
  BY FS_StrictSubsetOrderingWellFounded
<1>2. T \subseteq FiniteSubsetsOf(S)
  BY FS_Subset DEF FiniteSubsetsOf
<1>3. T # {}
  OBVIOUS
<1>4. PICK A \in T : \A B \in T : ~(<<B, A>> \in StrictSubsetOrdering(S))
  BY <1>1, <1>2, <1>3, WFMin
<1>5. PICK t \in S : A = Above(t)
  OBVIOUS
<1>6. ASSUME NEW u \in S, u > t PROVE FALSE
  <2>1. Above(u) \in T
    OBVIOUS
  <2>3. (\A v \in S : v > u => v > t) /\ ~(u > u)
    BY <1>6
  <2>4. Above(u) \subseteq Above(t) /\ u \in Above(t) /\ u \notin Above(u)
    BY <1>6, <2>3
  <2>2. <<Above(u), Above(t)>> \in StrictSubsetOrdering(S)
    BY <2>4 DEF StrictSubsetOrdering
  <2> QED BY <1>4, <1>5, <2>1, <2>2
<1> QED BY <1>6

(* Ending a request, or receiving one without locks, keeps the discipline. *)
LEMMA ReleaseKeepsLocks ==
    ASSUME LockInv, TypeOK', NEW q \in Requests, Release(q), phase'[q] \in {"idle", "refresh"},
           \A r \in Requests \ {q} : phase'[r] = phase[r] /\ req'[r] = req[r]
    PROVE  LocksOrdered'
<1>1. \A t \in Tasks : /\ owner'[t] # q /\ (owner[t] # q => owner'[t] = owner[t])
                       /\ q \notin sharers'[t] /\ sharers'[t] \subseteq sharers[t]
  BY ConstantsAssumption DEF LockInv, TypeOK, Release, ConstantsAssumption
<1>2. \A t \in Tasks, r \in Requests \ {q} : owner'[t] = r <=> owner[t] = r
  BY ConstantsAssumption DEF LockInv, TypeOK, Release, ConstantsAssumption
<1>3. \A r \in Requests \ {q} : phase'[r] # "idle" => req'[r].tasks \subseteq Tasks
  BY DEF TypeOK, Request
<1> QED
  <2>1. /\ \A t \in Tasks, r \in Requests : owner'[t] = r =>
             phase'[r] \in {"lock", "check", "insert", "write"} /\ t \in req'[r].tasks
        /\ \A t \in Tasks : \A r \in sharers'[t] : phase'[r] = "insert" /\ t \in req'[r].tasks
    BY <1>1, <1>2 DEF LockInv, LocksOrdered, TypeOK
  <2>2. \A r \in Requests : phase'[r] = "lock" =>
          \A t, u \in req'[r].tasks : owner'[t] = r /\ u < t => owner'[u] = r
    BY <1>2, <1>3 DEF LockInv, LocksOrdered
  <2>3. \A r \in Requests : phase'[r] \in {"check", "insert", "write"} =>
          \A t, u \in req'[r].tasks : owner'[t] = r => owner'[u] = r
    BY <1>2, <1>3 DEF LockInv, LocksOrdered
  <2>4. \A r \in Requests : phase'[r] = "check" => \A t \in req'[r].tasks : owner'[t] = r
    BY <1>2, <1>3 DEF LockInv, LocksOrdered
  <2>5. \A r \in Requests : phase'[r] = "insert" /\ req'[r].target = "pending" =>
          (\A t \in req'[r].tasks : owner'[t] = r) \/ (\A t, u \in req'[r].tasks : t = u)
    BY <1>2, <1>3 DEF LockInv, LocksOrdered
  <2> QED BY <2>1, <2>2, <2>3, <2>4, <2>5 DEF LocksOrdered

(* A request that arrives holds nothing yet. *)
LEMMA ReceiveKeepsLocks ==
    ASSUME LockInv, TypeOK', NEW q \in Requests, NEW op, NEW a, NEW ts, NEW s, NEW loaded,
           NEW stage \in {"lock", "insert", "write"},
           Receive(q, op, a, ts, s, loaded, stage),
           stage = "insert" /\ s = "pending" => \A t, u \in ts : t = u
    PROVE  LocksOrdered'
<1>1. /\ \A r \in Requests \ {q} : phase'[r] = phase[r] /\ req'[r] = req[r]
      /\ phase'[q] = stage /\ phase[q] = "idle" /\ owner' = owner /\ sharers' = sharers
  BY DEF LockInv, TypeOK, Receive, Goto, locks
<1>2. req'[q].tasks = ts /\ req'[q].target = s
  BY DEF LockInv, TypeOK, Receive
<1>3. \A t \in Tasks : owner[t] # q /\ q \notin sharers[t]
  BY <1>1 DEF LockInv, LocksOrdered
<1>4. ts \subseteq Tasks
  BY <1>1, <1>2 DEF TypeOK, Request
<1> QED BY <1>1, <1>2, <1>3, <1>4 DEF LockInv, TypeOK, LocksOrdered

(* Every step keeps the lock discipline. *)
LEMMA NextLocks == LockInv /\ [Next]_vars => LockInv'
<1> SUFFICES ASSUME LockInv, [Next]_vars, TypeOK' PROVE LocksOrdered'
  BY NextType DEF LockInv
<1>t. \A q \in Requests : phase[q] # "idle" => req[q].tasks \subseteq Tasks
  BY DEF LockInv, TypeOK, Request
<1>n. \A q \in Requests : q # None
  BY ConstantsAssumption DEF ConstantsAssumption
<1>1. ASSUME NEW q \in Requests, NEW a \in Ids, NEW ts \in SUBSET Tasks, NEW s \in Statuses,
             BeginCreate(q, a, ts, s)
      PROVE  LocksOrdered'
  <2> DEFINE stage == IF s = "pending" /\ ts # {} THEN "lock" ELSE "insert"
  <2>1. Receive(q, "create", a, ts, s, "absent", stage) /\ stage \in {"lock", "insert", "write"}
    BY <1>1 DEF BeginCreate
  <2>2. stage = "insert" /\ s = "pending" => ts = {}
    OBVIOUS
  <2> HIDE DEF stage
  <2> QED BY <2>1, <2>2, ReceiveKeepsLocks
<1>2. ASSUME NEW q \in Requests, NEW a \in Ids, NEW s \in Statuses, BeginUpdate(q, a, s)
      PROVE  LocksOrdered'
  <2> DEFINE stage == IF s = "pending" /\ status[a] # "pending" /\ links[a] # {}
                      THEN "lock" ELSE "write"
  <2>1. /\ Receive(q, "update", a, links[a], s, status[a], stage)
        /\ stage \in {"lock", "insert", "write"} /\ stage # "insert"
    BY <1>2 DEF BeginUpdate
  <2> HIDE DEF stage
  <2> QED BY <2>1, ReceiveKeepsLocks
<1>3. ASSUME NEW q \in Requests, NEW a \in Ids, NEW t \in Tasks, BeginEscalate(q, a, t)
      PROVE  LocksOrdered'
  <2>1. Receive(q, "escalate", a, {t}, "pending", "absent", "insert")
    BY <1>3 DEF BeginEscalate
  <2> QED BY <2>1, ReceiveKeepsLocks
<1>4. ASSUME NEW q \in Requests, NEW t \in Tasks, LockTask(q, t) PROVE LocksOrdered'
  <2>1. /\ phase[q] = "lock" /\ t \in req[q].tasks /\ owner[t] = None
        /\ \A u \in req[q].tasks : u < t => owner[u] = q
        /\ owner'[t] = q /\ \A u \in Tasks \ {t} : owner'[u] = owner[u]
        /\ sharers' = sharers /\ req' = req
        /\ \A r \in Requests \ {q} : phase'[r] = phase[r]
        /\ phase'[q] \in {"lock", "check"}
        /\ phase'[q] = "check" => \A u \in req[q].tasks \ {t} : owner[u] = q
    BY <1>4 DEF LockTask, LockInv, TypeOK, Goto
  <2>2. req[q].tasks \subseteq Tasks
    BY <1>t, <2>1
  <2>3. \A u \in req[q].tasks : u < t \/ u = t \/ t < u
    BY <2>2, ConstantsAssumption DEF ConstantsAssumption
  <2>4. \A u, v \in req[q].tasks : owner'[u] = q /\ v < u => owner'[v] = q
    BY <2>1, <2>2, <2>3, <1>n DEF LockInv, LocksOrdered
  <2>5. phase'[q] = "check" => \A u \in req[q].tasks : owner'[u] = q
    BY <2>1, <2>2
  <2>6. \A u \in Tasks, r \in Requests \ {q} : owner'[u] = r <=> owner[u] = r
    BY <2>1, <1>n
  <2>7. /\ \A u \in Tasks, r \in Requests : owner'[u] = r =>
             phase'[r] \in {"lock", "check", "insert", "write"} /\ u \in req'[r].tasks
        /\ \A u \in Tasks : \A r \in sharers'[u] : phase'[r] = "insert" /\ u \in req'[r].tasks
    BY <2>1, <2>6 DEF LockInv, LocksOrdered, TypeOK
  <2>8. \A r \in Requests : phase'[r] = "lock" =>
          \A u, v \in req'[r].tasks : owner'[u] = r /\ v < u => owner'[v] = r
    BY <2>1, <2>4, <2>6, <1>t DEF LockInv, LocksOrdered
  <2>9. \A r \in Requests : phase'[r] \in {"check", "insert", "write"} =>
          \A u, v \in req'[r].tasks : owner'[u] = r => owner'[v] = r
    BY <2>1, <2>5, <2>6, <1>t DEF LockInv, LocksOrdered
  <2>10. \A r \in Requests : phase'[r] = "check" => \A u \in req'[r].tasks : owner'[u] = r
    BY <2>1, <2>5, <2>6, <1>t DEF LockInv, LocksOrdered
  <2>11. \A r \in Requests : phase'[r] = "insert" /\ req'[r].target = "pending" =>
          (\A u \in req'[r].tasks : owner'[u] = r) \/ (\A u, v \in req'[r].tasks : u = v)
    BY <2>1, <2>6, <1>t DEF LockInv, LocksOrdered
  <2> QED BY <2>7, <2>8, <2>9, <2>10, <2>11 DEF LocksOrdered
<1>5. ASSUME NEW q \in Requests, NEW t \in Tasks, InsertLink(q, t) PROVE LocksOrdered'
  <2>1. /\ phase[q] = "insert" /\ t \in req[q].tasks /\ UNCHANGED <<owner, phase, req>>
        /\ \A u \in Tasks : sharers'[u] \subseteq sharers[u] \cup {q}
        /\ \A u \in Tasks \ {t} : sharers'[u] = sharers[u]
    BY <1>5 DEF InsertLink, LockInv, TypeOK
  <2> QED BY <2>1 DEF LockInv, LocksOrdered
<1>6. ASSUME NEW q \in Requests, CheckPasses(q) PROVE LocksOrdered'
  <2>1. /\ phase[q] = "check" /\ phase'[q] \in {"insert", "write"}
        /\ UNCHANGED <<owner, sharers, req>>
        /\ \A r \in Requests \ {q} : phase'[r] = phase[r]
    BY <1>6 DEF CheckPasses, LockInv, TypeOK, Goto, locks
  <2> QED BY <2>1 DEF LockInv, LocksOrdered, TypeOK
<1>7. ASSUME NEW q \in Requests, CheckConflicts(q) \/ CommitInsert(q) \/ CommitUpdate(q) \/ Abort(q)
      PROVE  LocksOrdered'
  <2>1. /\ Release(q) /\ phase'[q] \in {"idle", "refresh"}
        /\ \A r \in Requests \ {q} : phase'[r] = phase[r] /\ req'[r] = req[r]
    BY <1>7 DEF CheckConflicts, CommitInsert, CommitUpdate, Abort, Respond, Goto, LockInv, TypeOK
  <2> QED BY <2>1, ReleaseKeepsLocks
<1>8. ASSUME NEW q \in Requests, Notify(q) PROVE LocksOrdered'
  <2>1. /\ phase[q] = "refresh" /\ phase'[q] = "idle" /\ UNCHANGED <<owner, sharers>>
        /\ \A r \in Requests \ {q} : phase'[r] = phase[r] /\ req'[r] = req[r]
    BY <1>8 DEF Notify, Respond, Goto, LockInv, TypeOK, locks
  <2>2. \A t \in Tasks : owner[t] # q /\ q \notin sharers[t]
    BY <2>1 DEF LockInv, LocksOrdered
  <2> QED BY <2>1, <2>2 DEF LockInv, LocksOrdered, TypeOK
<1>9. CASE UNCHANGED vars
  BY <1>9 DEF vars, LockInv, LocksOrdered
<1> QED
  BY <1>1, <1>2, <1>3, <1>4, <1>5, <1>6, <1>7, <1>8, <1>9
  DEF Next, NextApi, Escalation, Progress

(* The task a request in its lock phase is waiting for. *)
Awaited(q) == {t \in req[q].tasks : owner[t] # q /\ \A u \in req[q].tasks : u < t => owner[u] = q}

(* Who waits: in a deadlock in which every insert that skipped the locks    *)
(* names at most one task, whoever is waited for is itself locking, owns    *)
(* the row, and awaits a higher one.                                        *)
LEMMA DeadlockClimbs ==
    ASSUME LockInv, NEW qs \in SUBSET Requests, Deadlocked(qs),
           \A q \in qs : phase[q] = "insert" /\ req[q].target # "pending" =>
               \A t, u \in req[q].tasks : t = u
    PROVE  /\ \A q \in qs : \E r \in qs : phase[r] = "lock"
           /\ \A q \in qs : phase[q] = "lock" => Awaited(q) # {}
           /\ \A q \in qs : phase[q] = "lock" => \A t \in Awaited(q) :
                 \E r \in qs : phase[r] = "lock" /\ \E u \in Awaited(r) : t < u
<1>1. ASSUME NEW r \in qs, phase[r] = "insert",
             NEW t \in req[r].tasks, owner[t] = r \/ r \in sharers[t]
      PROVE  FALSE
  <2>1. PICK p \in qs : Waits(r, p)
    BY <1>1 DEF Deadlocked
  <2>2. PICK u \in req[r].tasks : r \notin sharers[u] /\ owner[u] = p /\ p # r
    BY <1>1, <2>1 DEF Waits
  <2>3. CASE owner[t] = r
    BY <1>1, <2>2, <2>3 DEF LockInv, LocksOrdered
  <2>4. CASE r \in sharers[t]
    <3>1. t # u
      BY <2>2, <2>4
    <3>2. req[r].target = "pending"
      BY <1>1, <3>1
    <3>3. owner[u] = r
      BY <1>1, <3>1, <3>2 DEF LockInv, LocksOrdered
    <3> QED BY <2>2, <3>3
  <2> QED BY <1>1, <2>3, <2>4
<1>2. ASSUME NEW q \in qs
      PROVE  \E r \in qs, t \in req[q].tasks : phase[r] = "lock" /\ owner[t] = r
  <2>1. PICK r \in qs : phase[q] # "idle" /\ Waits(q, r)
    BY <1>2 DEF Deadlocked
  <2>2. PICK t \in req[q].tasks : owner[t] = r \/ r \in sharers[t]
    BY <2>1 DEF Waits
  <2>3. t \in Tasks
    BY <2>1 DEF LockInv, TypeOK, Request
  <2>4. t \in req[r].tasks
    BY <2>2, <2>3 DEF LockInv, LocksOrdered
  <2>5. phase[r] \in {"lock", "insert"}
    <3>1. PICK p \in qs : Waits(r, p)
      BY DEF Deadlocked
    <3> QED BY <3>1 DEF Waits
  <2>6. phase[r] = "lock"
    BY <1>1, <2>2, <2>4, <2>5
  <2>7. owner[t] = r
    BY <2>2, <2>3, <2>6 DEF LockInv, LocksOrdered
  <2> QED BY <2>6, <2>7
<1>3. ASSUME NEW q \in qs, phase[q] = "lock" PROVE Awaited(q) # {}
  <2>1. PICK r \in qs : Waits(q, r)
    BY <1>3 DEF Deadlocked
  <2> QED BY <1>3, <2>1 DEF Waits, Awaited
<1>4. ASSUME NEW q \in qs, phase[q] = "lock", NEW t \in Awaited(q)
      PROVE  \E r \in qs : phase[r] = "lock" /\ \E u \in Awaited(r) : t < u
  <2>1. PICK r \in qs : Waits(q, r)
    BY <1>4 DEF Deadlocked
  <2>2. PICK v \in req[q].tasks : /\ owner[v] # q /\ (owner[v] = r \/ r \in sharers[v])
                                  /\ \A u \in req[q].tasks : u < v => owner[u] = q
    BY <1>4, <2>1 DEF Waits
  <2>3. req[q].tasks \subseteq Tasks /\ Tasks \subseteq Nat
    BY <1>4, ConstantsAssumption DEF LockInv, TypeOK, Request, ConstantsAssumption
  <2>4. v = t
    <3>1. ~(v < t) /\ ~(t < v) /\ t \in req[q].tasks
      BY <1>4, <2>2 DEF Awaited
    <3>2. v \in Nat /\ t \in Nat
      BY <2>3, <3>1
    <3> QED BY <3>1, <3>2
  <2>5. t \in Tasks /\ t \in req[r].tasks
    BY <2>2, <2>3, <2>4 DEF LockInv, LocksOrdered
  <2>6. phase[r] \in {"lock", "insert"}
    <3>1. PICK p \in qs : Waits(r, p)
      BY DEF Deadlocked
    <3> QED BY <3>1 DEF Waits
  <2>7. phase[r] = "lock"
    BY <1>1, <2>2, <2>4, <2>5, <2>6
  <2>8. owner[t] = r
    BY <2>2, <2>4, <2>5, <2>7 DEF LockInv, LocksOrdered
  <2>9. PICK u \in Awaited(r) : TRUE
    BY <1>3, <2>7
  <2>10. u \in Nat /\ t \in Nat
    BY <2>3, <2>5, <2>7, ConstantsAssumption DEF Awaited, LockInv, TypeOK, Request, ConstantsAssumption
  <2>11. ~(u < t) /\ u # t
    BY <2>5, <2>7, <2>8, <2>9 DEF Awaited, LockInv, LocksOrdered
  <2>12. t < u
    BY <2>10, <2>11
  <2> QED BY <2>7, <2>9, <2>12
<1> QED BY <1>2, <1>3, <1>4

(* Requests that lock task rows in id order never deadlock among themselves, *)
(* nor with escalations or creations that name a single task: every deadlock *)
(* has a creation that skipped the lock and names several tasks.             *)
THEOREM DeadlocksNeedAnUnlockedCreation == Spec => []OrderedLocks
<1>1. Init => LockInv
  <2> SUFFICES ASSUME Init PROVE LockInv
    OBVIOUS
  <2>1. TypeOK
    BY InitType
  <2> QED BY <2>1, ConstantsAssumption DEF Init, LockInv, LocksOrdered, ConstantsAssumption
<1>2. LockInv => OrderedLocks
  <2> SUFFICES ASSUME LockInv, NEW qs \in SUBSET Requests, qs # {}, Deadlocked(qs),
                      \A q \in qs : phase[q] = "insert" /\ req[q].target # "pending" =>
                          \A t, u \in req[q].tasks : t = u
               PROVE  FALSE
    BY DEF OrderedLocks
  <2> DEFINE S == UNION {Awaited(q) : q \in {r \in qs : phase[r] = "lock"}}
  <2>1. S \subseteq Tasks
    BY DEF Awaited, LockInv, TypeOK, Request
  <2>2. S \in SUBSET Nat /\ IsFiniteSet(S)
    BY <2>1, ConstantsAssumption, FS_Subset DEF ConstantsAssumption
  <2>3. S # {}
    BY DeadlockClimbs
  <2>4. PICK t \in S : \A u \in S : u <= t
    BY <2>2, <2>3, HighestTask
  <2>5. PICK q \in qs : phase[q] = "lock" /\ t \in Awaited(q)
    OBVIOUS
  <2>6. PICK r \in qs : phase[r] = "lock" /\ \E u \in Awaited(r) : t < u
    BY <2>5, DeadlockClimbs
  <2>7. PICK u \in S : t < u
    BY <2>6
  <2>8. u <= t /\ t \in Nat /\ u \in Nat
    BY <2>2, <2>4
  <2> QED BY <2>7, <2>8
<1> QED BY <1>1, <1>2, NextLocks, PTL DEF Spec

=============================================================================
