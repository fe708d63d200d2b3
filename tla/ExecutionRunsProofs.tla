------------------------- MODULE ExecutionRunsProofs -------------------------
(***************************************************************************)
(* TLAPS proofs about ExecutionRuns: types; the timestamps of a run and    *)
(* the watch over its dispatch under every interleaving of sessions; one   *)
(* dispatch per time a run is dispatchable, with one worker; the task's    *)
(* in_progress_at, one request at a time.                                  *)
(***************************************************************************)
EXTENDS ExecutionRuns, TLAPS

-----------------------------------------------------------------------------
(* Rows and sessions. *)

(* A merged run row is a run row. *)
LEMMA MergeRunType ==
    ASSUME NEW a \in RunRow, NEW b \in RunRow, NEW c \in RunRow
    PROVE  MergeRun(a, b, c) \in RunRow
  BY DEF MergeRun, RunRow

(* A merged task row is a task row. *)
LEMMA MergeTaskType ==
    ASSUME NEW a \in TaskRow, NEW b \in TaskRow, NEW c \in TaskRow
    PROVE  MergeTask(a, b, c) \in TaskRow
  BY DEF MergeTask, TaskRow

(* The rows that operations compute are rows. *)
LEMMA NewRowTypes ==
    /\ Absent \in RunRow /\ NewRun \in RunRow
    /\ \A row \in RunRow, to \in RunStatuses : UpdatedRun(row, to) \in RunRow
    /\ \A row \in RunRow : DispatchedRun(row) \in RunRow
    /\ \A to \in RunStatuses : CallbackTask(to) \in TaskRow
    /\ \A row \in TaskRow : EscalatedTask(row) \in TaskRow
    /\ \A row \in TaskRow, to \in TaskStatuses, lead \in BOOLEAN : MovedTask(row, to, lead) \in TaskRow
<1>1. Absent \in RunRow /\ NewRun \in RunRow
  BY DEF Absent, NewRun, RunRow, RunStatuses
<1>2. \A row \in RunRow, to \in RunStatuses : UpdatedRun(row, to) \in RunRow
  BY DEF UpdatedRun, RunRow
<1>3. \A row \in RunRow : DispatchedRun(row) \in RunRow
  BY DEF DispatchedRun, RunRow, RunStatuses
<1>4. \A to \in RunStatuses : CallbackTask(to) \in TaskRow
  BY DEF CallbackTask, AutoTarget, TaskRow, TaskStatuses
<1>5. \A row \in TaskRow : EscalatedTask(row) \in TaskRow
  BY DEF EscalatedTask, TaskRow, TaskStatuses
<1>6. \A row \in TaskRow, to \in TaskStatuses, lead \in BOOLEAN : MovedTask(row, to, lead) \in TaskRow
  <2> SUFFICES ASSUME NEW row \in TaskRow, NEW to \in TaskStatuses, NEW lead \in BOOLEAN
               PROVE  MovedTask(row, to, lead) \in TaskRow
    OBVIOUS
  <2>1. MovedTask(row, to, lead).working \in BOOLEAN
    BY DEF MovedTask, TaskRow
  <2> QED BY <2>1 DEF MovedTask, TaskRow
<1> QED BY <1>1, <1>2, <1>3, <1>4, <1>5, <1>6

(* What TypeOK says of one open session. *)
GoodSession(v) ==
    /\ v \in Session
    /\ v.op \in {"update", "cancel"} => v.to \in RunStatuses
    /\ v.op = "move" => v.to \in TaskStatuses
    /\ v.op \notin {"create", "move"} => v.run \in Runs

GoodSessions ==
    /\ session \in [Sessions -> Session \cup {None}]
    /\ \A s \in Sessions : session[s] # None => GoodSession(session[s])

(* TypeOK with the sessions folded. *)
LEMMA TypeParts ==
    TypeOK <=> /\ GoodSessions
               /\ run \in [Runs -> RunRow] /\ task \in TaskRow /\ pending \in BOOLEAN
               /\ queued \in [Runs -> 0..MaxMessages]
               /\ sent \in [Runs -> Nat] /\ lost \in [Runs -> 0..MaxLost]
               /\ asked \subseteq Runs /\ failed \subseteq Runs /\ unstamped \in BOOLEAN
  BY DEF TypeOK, GoodSessions, GoodSession

(* TypeOK in the next state, from its parts. *)
LEMMA TypePartsNext ==
    ASSUME GoodSessions', run' \in [Runs -> RunRow], task' \in TaskRow, pending' \in BOOLEAN,
           queued' \in [Runs -> 0..MaxMessages], sent' \in [Runs -> Nat],
           lost' \in [Runs -> 0..MaxLost], asked' \subseteq Runs, failed' \subseteq Runs,
           unstamped' \in BOOLEAN
    PROVE  TypeOK'
  BY DEF TypeOK, GoodSessions, GoodSession

(* Closing a session keeps the sessions well-formed. *)
LEMMA CloseType ==
    ASSUME GoodSessions, NEW s \in Sessions, Close(s)
    PROVE  GoodSessions'
  BY DEF GoodSessions, GoodSession, Close

(* Replacing a session by a well-formed one keeps them so. *)
LEMMA PutType ==
    ASSUME GoodSessions, NEW s \in Sessions, NEW v, GoodSession(v), Put(s, v)
    PROVE  GoodSessions'
<1>1. session' \in [Sessions -> Session \cup {None}]
  BY DEF GoodSessions, GoodSession, Put
<1>2. \A t \in Sessions : session'[t] = IF t = s THEN v ELSE session[t]
  BY DEF GoodSessions, Put
<1> QED BY <1>1, <1>2 DEF GoodSessions

(* A new session for a fitting request is well-formed. *)
LEMMA NewSessionType ==
    ASSUME TypeOK, NEW op \in Ops, NEW r \in Runs \cup {None},
           NEW to \in RunStatuses \cup TaskStatuses, NEW then \in BOOLEAN,
           NEW stage \in Stages, NEW row \in RunRow,
           op \in {"update", "cancel"} => to \in RunStatuses,
           op = "move" => to \in TaskStatuses,
           op \notin {"create", "move"} => r \in Runs
    PROVE  GoodSession(NewSession(op, r, to, then, stage, row))
<1>1. task \in TaskRow BY DEF TypeOK
<1>2. NewSession(op, r, to, then, stage, row) \in Session BY <1>1 DEF Session, NewSession
<1> QED BY <1>2 DEF GoodSession, NewSession

(* The session that dispatches a run is well-formed. *)
LEMMA DispatchSessionType ==
    ASSUME TypeOK, NEW r \in Runs, NEW stage \in Stages, NEW row \in RunRow
    PROVE  GoodSession(NewSession("dispatch", r, "dispatching", FALSE, stage, row))
<1>1. "dispatch" \in Ops /\ "dispatching" \in RunStatuses BY DEF Ops, RunStatuses
<1> QED BY <1>1, NewSessionType

(* A session that goes on to another stage stays well-formed. *)
LEMMA AdvanceType ==
    ASSUME GoodSessions, NEW s \in Sessions, session[s] # None, NEW stage \in Stages,
           NEW row \in RunRow, NEW auto \in BOOLEAN, Advance(s, stage, row, auto)
    PROVE  GoodSessions'
<1> DEFINE v == [session[s] EXCEPT !.stage = stage, !.runRow = row, !.auto = auto]
<1>1. GoodSession(session[s]) BY DEF GoodSessions
<1>2. v \in Session BY <1>1 DEF GoodSession, Session
<1>3. v.op = session[s].op /\ v.to = session[s].to /\ v.run = session[s].run
  BY <1>1 DEF GoodSession, Session
<1>4. GoodSession(v) BY <1>1, <1>2, <1>3 DEF GoodSession
<1>5. Put(s, v) BY DEF Advance, Put
<1> HIDE DEF v
<1> QED BY <1>4, <1>5, PutType

(* The fields of an open session. *)
LEMMA SessionFields ==
    ASSUME TypeOK, NEW s \in Sessions, session[s] # None
    PROVE  /\ GoodSession(session[s])
           /\ session[s].runRow \in RunRow /\ session[s].taskRow \in TaskRow
           /\ session[s].auto \in BOOLEAN /\ session[s].then \in BOOLEAN
<1>1. GoodSession(session[s]) BY TypeParts DEF GoodSessions
<1> QED BY <1>1 DEF GoodSession, Session

-----------------------------------------------------------------------------
(* Types. *)

(* The initial state is well-typed. *)
LEMMA InitType == Init => TypeOK
<1> SUFFICES ASSUME Init PROVE TypeOK
  OBVIOUS
<1>1. run \in [Runs -> RunRow] BY NewRowTypes DEF Init
<1>2. task \in TaskRow /\ unstamped \in BOOLEAN BY ConstantsAssumption DEF Init, TaskRow
<1>3. session \in [Sessions -> Session \cup {None}] BY DEF Init
<1>4. \A s \in Sessions : session[s] = None BY DEF Init
<1>5. /\ queued \in [Runs -> 0..MaxMessages] /\ lost \in [Runs -> 0..MaxLost]
      /\ sent \in [Runs -> Nat]
  BY ConstantsAssumption DEF Init
<1>6. pending \in BOOLEAN /\ asked \subseteq Runs /\ failed \subseteq Runs BY DEF Init
<1> QED BY <1>1, <1>2, <1>3, <1>4, <1>5, <1>6 DEF TypeOK

(* Committing a run row keeps the types. *)
LEMMA WriteRunType ==
    ASSUME TypeOK, NEW s \in Sessions, session[s] # None, session[s].run \in Runs,
           NEW new \in RunRow, WriteRun(s, new)
    PROVE  /\ run' \in [Runs -> RunRow]
           /\ sent' \in [Runs -> Nat] /\ lost' \in [Runs -> 0..MaxLost]
<1> DEFINE row == MergeRun(run[session[s].run], session[s].runRow, new)
<1>1. row \in RunRow BY MergeRunType, SessionFields DEF TypeOK
<1>2. run' = [run EXCEPT ![session[s].run] = row] BY DEF WriteRun
<1>3. sent' \in [Runs -> Nat] /\ lost' \in [Runs -> 0..MaxLost]
  BY ConstantsAssumption DEF WriteRun, TypeOK
<1> HIDE DEF row
<1> QED BY <1>1, <1>2, <1>3 DEF TypeOK

(* Every step keeps the types. *)
LEMMA NextType == TypeOK /\ [Next]_vars => TypeOK'
<1> SUFFICES ASSUME TypeOK, [Next]_vars PROVE TypeOK'
  OBVIOUS
<1> USE ConstantsAssumption
<1>0. GoodSessions BY TypeParts
<1>1. ASSUME NEW s \in Requests, RequestBegins(s) PROVE TypeOK'
  <2>1. s \in Sessions BY DEF Sessions
  <2>2. ASSUME NEW then \in BOOLEAN, BeginCreate(s, then) PROVE TypeOK'
    <3>1. "create" \in Ops /\ "queued" \in RunStatuses /\ "loaded" \in Stages
      BY DEF Ops, RunStatuses, Stages
    <3>2. GoodSession(NewSession("create", None, "queued", then, "loaded", Absent))
      BY <3>1, NewSessionType, NewRowTypes
    <3>3. GoodSessions' BY <1>0, <2>1, <2>2, <3>2, PutType DEF BeginCreate, Open
    <3> QED BY <2>2, <3>3, TypePartsNext DEF BeginCreate, db, hist, TypeOK
  <2>3. ASSUME NEW to \in Moves, NEW lead \in BOOLEAN, BeginMove(s, to, lead) PROVE TypeOK'
    <3>1. "move" \in Ops /\ to \in TaskStatuses /\ "ready" \in Stages BY DEF Ops, Stages
    <3>2. GoodSession(NewSession("move", None, to, lead, "ready", Absent))
      BY <3>1, NewSessionType, NewRowTypes
    <3>3. GoodSessions' BY <1>0, <2>1, <2>3, <3>2, PutType DEF BeginMove, Open
    <3> QED BY <2>3, <3>3, TypePartsNext DEF BeginMove, db, hist, TypeOK
  <2>4. ASSUME NEW op \in {"retry", "update", "cancel", "escalate"}, NEW r \in Runs,
               NEW to \in RunStatuses \cup TaskStatuses, NEW then \in BOOLEAN,
               op \in {"update", "cancel"} => to \in RunStatuses,
               BeginOperator(s, op, r, to, then)
        PROVE  TypeOK'
    <3>1. op \in Ops /\ "task" \in Stages BY DEF Ops, Stages
    <3>2. GoodSession(NewSession(op, r, to, then, "task", Absent))
      BY <2>4, <3>1, NewSessionType, NewRowTypes
    <3>3. GoodSessions' BY <1>0, <2>1, <2>4, <3>2, PutType DEF BeginOperator, Open
    <3> QED BY <2>4, <3>3, TypePartsNext DEF BeginOperator, db, hist, TypeOK
  <2>5. ASSUME NEW r \in Runs, NEW to \in Reports, BeginCallback(s, r, to) PROVE TypeOK'
    <3>1. "update" \in Ops /\ to \in RunStatuses /\ "loaded" \in Stages BY DEF Ops, Stages
    <3>2. run[r] \in RunRow BY DEF TypeOK
    <3>3. GoodSession(NewSession("update", r, to, FALSE, "loaded", run[r]))
      BY <3>1, <3>2, NewSessionType
    <3>4. GoodSessions' BY <1>0, <2>1, <2>5, <3>3, PutType DEF BeginCallback, Open
    <3> QED BY <2>5, <3>4, TypePartsNext DEF BeginCallback, db, hist, TypeOK
  <2>6. ASSUME NEW r \in Runs, BeginDispatch(s, r) PROVE TypeOK'
    <3>1. "enqueue" \in Stages BY DEF Stages
    <3>2. GoodSessions'
      BY <1>0, <2>1, <2>6, <3>1, PutType, DispatchSessionType, NewRowTypes DEF BeginDispatch, Open
    <3> QED BY <2>6, <3>2, TypePartsNext DEF BeginDispatch, db, TypeOK
  <2>7. ASSUME AssigneeDeleted(s) PROVE TypeOK'
    <3>1. task' \in TaskRow BY <2>7 DEF AssigneeDeleted, TaskRow, TaskStatuses
    <3> QED BY <2>7, <3>1 DEF AssigneeDeleted, hist, TypeOK
  <2> QED
    BY <1>1, <2>2, <2>3, <2>4, <2>5, <2>6, <2>7 DEF RequestBegins, RunStatuses, TaskStatuses
<1>2. ASSUME NEW s \in Sessions, LoadRun(s) PROVE TypeOK'
  <2>1. session[s] # None /\ session[s].run \in Runs
    BY <1>2, SessionFields DEF LoadRun, At, GoodSession
  <2>2. run[session[s].run] \in RunRow /\ "loaded" \in Stages BY <2>1 DEF TypeOK, Stages
  <2>3. GoodSessions' BY <1>0, <1>2, <2>1, <2>2, AdvanceType, CloseType DEF LoadRun
  <2> QED BY <1>2, <2>3, TypePartsNext DEF LoadRun, db, hist, TypeOK
<1>3. ASSUME NEW s \in Sessions, Decide(s) PROVE TypeOK'
  <2>1. session[s] # None /\ session[s].runRow \in RunRow /\ "ready" \in Stages
    BY <1>3, SessionFields DEF Decide, At, Stages
  <2>2. GoodSessions' BY <1>0, <1>3, <2>1, AdvanceType DEF Decide
  <2> QED BY <1>3, <2>2, TypePartsNext DEF Decide, db, hist, TypeOK
<1>4. ASSUME NEW s \in Sessions, CommitUpdate(s) PROVE TypeOK'
  <2>1. /\ session[s] # None /\ session[s].run \in Runs /\ session[s].to \in RunStatuses
        /\ session[s].runRow \in RunRow /\ session[s].taskRow \in TaskRow
    BY <1>4, SessionFields DEF CommitUpdate, At, GoodSession
  <2>2. /\ run' \in [Runs -> RunRow] /\ sent' \in [Runs -> Nat] /\ lost' \in [Runs -> 0..MaxLost]
    BY <1>4, <2>1, NewRowTypes, WriteRunType DEF CommitUpdate
  <2>3. task' \in TaskRow
    BY <1>4, <2>1, NewRowTypes, MergeTaskType DEF CommitUpdate, TypeOK
  <2>4. GoodSessions' BY <1>0, <1>4, CloseType DEF CommitUpdate
  <2>5. unstamped' \in BOOLEAN BY <1>4 DEF CommitUpdate, TypeOK
  <2> QED BY <1>4, <2>2, <2>3, <2>4, <2>5, TypePartsNext DEF CommitUpdate, TypeOK
<1>5. ASSUME NEW s \in Sessions, RejectCreate(s) PROVE TypeOK'
  <2>1. GoodSessions' BY <1>0, <1>5, CloseType DEF RejectCreate
  <2> QED BY <1>5, <2>1, TypePartsNext DEF RejectCreate, db, hist, TypeOK
<1>6. ASSUME NEW s \in Sessions, NEW r \in Runs, CommitCreate(s, r) PROVE TypeOK'
  <2>1. "enqueue" \in Stages BY DEF Stages
  <2>2. GoodSessions'
    BY <1>0, <1>6, <2>1, PutType, CloseType, DispatchSessionType, NewRowTypes DEF CommitCreate
  <2>3. run' \in [Runs -> RunRow] BY <1>6, NewRowTypes DEF CommitCreate, TypeOK
  <2> QED BY <1>6, <2>2, <2>3, TypePartsNext DEF CommitCreate, TypeOK
<1>7. ASSUME NEW s \in Sessions, CheckEscalate(s) PROVE TypeOK'
  <2>1. session[s] # None /\ session[s].runRow \in RunRow /\ "ready" \in Stages
    BY <1>7, SessionFields DEF CheckEscalate, At, Stages
  <2>2. GoodSessions' BY <1>0, <1>7, <2>1, AdvanceType, CloseType DEF CheckEscalate
  <2> QED BY <1>7, <2>2, TypePartsNext DEF CheckEscalate, db, hist, TypeOK
<1>8. ASSUME NEW s \in Sessions, CommitEscalate(s) PROVE TypeOK'
  <2>1. session[s].taskRow \in TaskRow BY <1>8, SessionFields DEF CommitEscalate, At
  <2>2. task' \in TaskRow BY <1>8, <2>1, NewRowTypes, MergeTaskType DEF CommitEscalate, TypeOK
  <2>3. GoodSessions' BY <1>0, <1>8, CloseType DEF CommitEscalate
  <2> QED BY <1>8, <2>2, <2>3, TypePartsNext DEF CommitEscalate, hist, TypeOK
<1>9. ASSUME NEW s \in Sessions, CommitMove(s) PROVE TypeOK'
  <2>1. session[s].taskRow \in TaskRow /\ session[s].to \in TaskStatuses /\ session[s].then \in BOOLEAN
    BY <1>9, SessionFields DEF CommitMove, At, GoodSession
  <2>2. task' \in TaskRow BY <1>9, <2>1, NewRowTypes, MergeTaskType DEF CommitMove, TypeOK
  <2>3. GoodSessions' BY <1>0, <1>9, CloseType DEF CommitMove
  <2> QED BY <1>9, <2>1, <2>2, <2>3, TypePartsNext DEF CommitMove, TypeOK
<1>10. ASSUME NEW s \in Sessions, NEW r \in Runs, StartDispatch(s, r) PROVE GoodSessions'
  <2>1. run[r] \in RunRow /\ "call" \in Stages BY DEF TypeOK, Stages
  <2> QED BY <1>0, <1>10, <2>1, PutType, CloseType, DispatchSessionType DEF StartDispatch
<1>11. ASSUME NEW s \in Sessions, Enqueue(s) PROVE TypeOK'
  <2>1. session[s].run \in Runs BY <1>11, SessionFields DEF Enqueue, At, GoodSession
  <2>2. GoodSessions' BY <1>0, <1>11, CloseType DEF Enqueue
  <2>3. queued' \in [Runs -> 0..MaxMessages] BY <1>11, <2>1 DEF Enqueue, TypeOK
  <2> QED BY <1>11, <2>2, <2>3, TypePartsNext DEF Enqueue, db, hist, TypeOK
<1>12. ASSUME NEW s \in Sessions, EnqueueFails(s) PROVE TypeOK'
  <2>1. session[s].run \in Runs BY <1>12, SessionFields DEF EnqueueFails, At, GoodSession
  <2>2. GoodSessions' BY <1>10, <1>12, <2>1 DEF EnqueueFails
  <2> QED BY <1>12, <2>2, TypePartsNext DEF EnqueueFails, Answered, db, TypeOK
<1>13. ASSUME NEW w \in Workers, NEW r \in Runs, TakeMessage(w, r) PROVE TypeOK'
  <2>1. w \in Sessions BY DEF Sessions
  <2>2. GoodSessions' BY <1>10, <1>13, <2>1 DEF TakeMessage
  <2>3. queued' \in [Runs -> 0..MaxMessages] BY <1>13 DEF TakeMessage, TypeOK
  <2> QED BY <1>13, <2>2, <2>3, TypePartsNext DEF TakeMessage, Answered, db, TypeOK
<1>14. ASSUME NEW s \in Sessions, DispatchAccepted(s) PROVE TypeOK'
  <2>1. /\ session[s] # None /\ session[s].runRow \in RunRow /\ session[s].run \in Runs
        /\ "accepted" \in Stages
    BY <1>14, SessionFields DEF DispatchAccepted, At, Stages, GoodSession
  <2>2. GoodSessions' BY <1>0, <1>14, <2>1, AdvanceType DEF DispatchAccepted
  <2>3. sent' \in [Runs -> Nat] BY <1>14, <2>1 DEF DispatchAccepted, TypeOK
  <2> QED BY <1>14, <2>2, <2>3, TypePartsNext DEF DispatchAccepted, db, TypeOK
<1>15. ASSUME NEW s \in Sessions, session[s] # None, session[s].run \in Runs, DispatchRaises(s)
       PROVE  GoodSessions' /\ queued' \in [Runs -> 0..MaxMessages] /\ failed' \subseteq Runs
  <2>1. GoodSessions' BY <1>0, <1>15, CloseType DEF DispatchRaises
  <2>2. queued' \in [Runs -> 0..MaxMessages] /\ failed' \subseteq Runs
    BY <1>15 DEF DispatchRaises, TypeOK
  <2> QED BY <2>1, <2>2
<1>16. ASSUME NEW s \in Sessions, DispatchRejected(s) PROVE TypeOK'
  <2>1. session[s] # None /\ session[s].run \in Runs
    BY <1>16, SessionFields DEF DispatchRejected, At, GoodSession
  <2> QED BY <1>15, <1>16, <2>1, TypePartsNext DEF DispatchRejected, db, TypeOK
<1>17. ASSUME NEW s \in Sessions, DispatchReplyLost(s) PROVE TypeOK'
  <2>1. session[s] # None /\ session[s].run \in Runs
    BY <1>17, SessionFields DEF DispatchReplyLost, At, GoodSession
  <2>2. sent' \in [Runs -> Nat] /\ lost' \in [Runs -> 0..MaxLost]
    BY <1>17, <2>1 DEF DispatchReplyLost, TypeOK
  <2> QED BY <1>15, <1>17, <2>1, <2>2, TypePartsNext DEF DispatchReplyLost, db, TypeOK
<1>18. ASSUME NEW s \in Sessions, CommitDispatch(s) PROVE TypeOK'
  <2>1. session[s] # None /\ session[s].run \in Runs /\ session[s].runRow \in RunRow
    BY <1>18, SessionFields DEF CommitDispatch, At, GoodSession
  <2>2. /\ run' \in [Runs -> RunRow] /\ sent' \in [Runs -> Nat] /\ lost' \in [Runs -> 0..MaxLost]
    BY <1>18, <2>1, NewRowTypes, WriteRunType DEF CommitDispatch
  <2>3. GoodSessions' BY <1>0, <1>18, CloseType DEF CommitDispatch
  <2> QED BY <1>18, <2>2, <2>3, TypePartsNext DEF CommitDispatch, TypeOK
<1>19. CASE ResolveApproval
  BY <1>19 DEF ResolveApproval, hist, TypeOK
<1>20. CASE UNCHANGED vars
  BY <1>20 DEF vars, TypeOK
<1> QED
  BY <1>1, <1>2, <1>3, <1>4, <1>5, <1>6, <1>7, <1>8, <1>9, <1>11, <1>12, <1>13, <1>14,
     <1>16, <1>17, <1>18, <1>19, <1>20
  DEF Next, SessionStep

(* Types of the rows, of the queue and of the open sessions, for every      *)
(* number of runs, requests and workers and every board configuration.      *)
THEOREM TypeCorrect == Spec => []TypeOK
<1>1. Init => TypeOK BY InitType
<1>2. TypeOK /\ [Next]_vars => TypeOK' BY NextType
<1> QED BY <1>1, <1>2, PTL DEF Spec

-----------------------------------------------------------------------------
(* Timestamps. *)

Stamped(row) == /\ row.status = "running" => row.started
                /\ row.status \in Finished => row.completed

(* A row loaded earlier has no timestamp that the row of now lacks. *)
Behind(old, now) == (old.started => now.started) /\ (old.completed => now.completed)

(* What an open session may rely on about its run. *)
Tracks(v) ==
    v.op \notin {"create", "move"} =>
        /\ v.stage \in {"task", "enqueue"} => v.runRow = Absent
        /\ v.stage \notin {"task", "enqueue"} =>
             run[v.run].status # "absent" /\ Behind(v.runRow, run[v.run])

LoadedInv == \A s \in Sessions : session[s] # None => Tracks(session[s])

TimestampInv == TypeOK /\ RunTimestamps /\ LoadedInv

(* Steps that leave the runs alone and close or well replace one session. *)
LEMMA SessionKeepsStamps ==
    ASSUME TimestampInv, UNCHANGED run, NEW s \in Sessions,
           \/ Close(s)
           \/ \E v : Tracks(v) /\ Put(s, v)
    PROVE  RunTimestamps' /\ LoadedInv'
<1>1. RunTimestamps' BY DEF TimestampInv, RunTimestamps
<1>2. \A t \in Sessions \ {s} : session'[t] = session[t]
  BY DEF TimestampInv, TypeOK, Close, Put
<1>3. session'[s] = None \/ Tracks(session'[s])
  BY DEF TimestampInv, TypeOK, Close, Put
<1>4. \A v : Tracks(v)' <=> Tracks(v) BY DEF Tracks
<1>5. ASSUME NEW t \in Sessions, session'[t] # None PROVE Tracks(session'[t])
  BY <1>2, <1>3, <1>5 DEF TimestampInv, LoadedInv
<1>6. \A t \in Sessions : session'[t] # None => Tracks(session[t])'
  BY <1>5 DEF Tracks
<1> QED BY <1>1, <1>6 DEF LoadedInv

(* What the flush of a changed row leaves in the database. *)
LEMMA MergeKeepsStamps ==
    ASSUME NEW now \in RunRow, NEW old \in RunRow, NEW new \in RunRow,
           Behind(old, now), Behind(old, new), Stamped(now), Stamped(new),
           now.status # "absent", new.status # "absent"
    PROVE  LET row == MergeRun(now, old, new)
           IN  Stamped(row) /\ Behind(now, row) /\ row.status # "absent"
  BY DEF MergeRun, Stamped, Behind, RunRow

(* Committing a run row keeps every run stamped and every session's         *)
(* knowledge valid.                                                         *)
LEMMA WriteKeepsStamps ==
    ASSUME TimestampInv, NEW s \in Sessions, session[s] # None, session[s].run \in Runs,
           session[s].op \notin {"create", "move"},
           session[s].stage \notin {"task", "enqueue"},
           NEW new \in RunRow, Behind(session[s].runRow, new), Stamped(new),
           new.status # "absent", WriteRun(s, new), Close(s)
    PROVE  RunTimestamps' /\ LoadedInv'
<1> DEFINE r == session[s].run
           row == MergeRun(run[r], session[s].runRow, new)
<1>1. session[s].runRow \in RunRow /\ run[r] \in RunRow
  BY SessionFields DEF TimestampInv, TypeOK
<1>2. run[r].status # "absent" /\ Behind(session[s].runRow, run[r])
  BY DEF TimestampInv, LoadedInv, Tracks
<1>3. Stamped(run[r]) BY DEF TimestampInv, RunTimestamps, Stamped
<1>4. Stamped(row) /\ Behind(run[r], row) /\ row.status # "absent"
  BY <1>1, <1>2, <1>3, MergeKeepsStamps
<1>5. run' = [run EXCEPT ![r] = row] BY DEF WriteRun
<1>6. \A q \in Runs : run'[q] = IF q = r THEN row ELSE run[q]
  BY <1>5 DEF TimestampInv, TypeOK
<1>7. \A t \in Sessions : session'[t] = IF t = s THEN None ELSE session[t]
  BY DEF Close, TimestampInv, TypeOK
<1> HIDE DEF row, r
<1>8. RunTimestamps'
  BY <1>4, <1>6 DEF TimestampInv, RunTimestamps, Stamped
<1>9. ASSUME NEW t \in Sessions, session'[t] # None PROVE Tracks(session[t])'
  <2>1. session'[t] = session[t] /\ session[t] # None BY <1>7, <1>9
  <2>2. Tracks(session[t]) BY <2>1 DEF TimestampInv, LoadedInv
  <2>3. session[t].op \notin {"create", "move"} => session[t].run \in Runs
    BY <2>1, SessionFields DEF TimestampInv, GoodSession
  <2> QED BY <1>4, <1>6, <2>1, <2>2, <2>3 DEF Tracks, Behind
<1> QED BY <1>8, <1>9 DEF LoadedInv

(* Every step keeps the timestamps in order. *)
LEMMA NextStamps == TimestampInv /\ [Next]_vars => TimestampInv'
<1> SUFFICES ASSUME TimestampInv, [Next]_vars PROVE RunTimestamps' /\ LoadedInv'
  BY NextType DEF TimestampInv
<1>0. TypeOK BY DEF TimestampInv
<1>1. ASSUME NEW s \in Sessions, NEW op, NEW r, NEW to, NEW then,
             NEW stage \in {"task", "enqueue"}, Put(s, NewSession(op, r, to, then, stage, Absent)),
             UNCHANGED run
      PROVE  RunTimestamps' /\ LoadedInv'
  <2>1. Tracks(NewSession(op, r, to, then, stage, Absent)) BY DEF Tracks, NewSession
  <2> QED BY <1>1, <2>1, SessionKeepsStamps
<1>2. ASSUME NEW s \in Sessions, NEW op, NEW r \in Runs, NEW to, NEW then,
             NEW stage \in {"loaded", "call"}, run[r].status # "absent",
             Put(s, NewSession(op, r, to, then, stage, run[r])), UNCHANGED run
      PROVE  RunTimestamps' /\ LoadedInv'
  <2>1. Tracks(NewSession(op, r, to, then, stage, run[r]))
    BY <1>2 DEF Tracks, NewSession, Behind
  <2> QED BY <1>2, <2>1, SessionKeepsStamps
<1>3. ASSUME NEW s \in Sessions, session[s] # None, NEW stage \in {"loaded", "ready", "accepted"},
             NEW row, NEW auto, Advance(s, stage, row, auto), UNCHANGED run,
             session[s].op \notin {"create", "move"} =>
                 run[session[s].run].status # "absent" /\ Behind(row, run[session[s].run])
      PROVE  RunTimestamps' /\ LoadedInv'
  <2> DEFINE v == [session[s] EXCEPT !.stage = stage, !.runRow = row, !.auto = auto]
  <2>1. session[s] \in Session BY <1>0, <1>3, SessionFields DEF GoodSession
  <2>2. v.op = session[s].op /\ v.run = session[s].run /\ v.stage = stage /\ v.runRow = row
    BY <2>1 DEF Session
  <2>3. Put(s, v) BY <1>3 DEF Advance, Put
  <2> HIDE DEF v
  <2>4. Tracks(v) BY <1>3, <2>2 DEF Tracks
  <2> QED BY <1>3, <2>3, <2>4, SessionKeepsStamps
<1>4. ASSUME NEW s \in Requests, RequestBegins(s) PROVE RunTimestamps' /\ LoadedInv'
  <2>1. s \in Sessions BY DEF Sessions
  <2>2. ASSUME NEW op \in {"create", "move"}, NEW to, NEW then, NEW stage,
               Put(s, NewSession(op, None, to, then, stage, Absent)), UNCHANGED run
        PROVE  RunTimestamps' /\ LoadedInv'
    <3>1. Tracks(NewSession(op, None, to, then, stage, Absent)) BY DEF Tracks, NewSession
    <3> QED BY <2>1, <2>2, <3>1, SessionKeepsStamps
  <2>3. ASSUME NEW then \in BOOLEAN, BeginCreate(s, then) PROVE RunTimestamps' /\ LoadedInv'
    BY <2>2, <2>3 DEF BeginCreate, Open, db
  <2>4. ASSUME NEW to \in Moves, NEW lead \in BOOLEAN, BeginMove(s, to, lead) PROVE RunTimestamps' /\ LoadedInv'
    BY <2>2, <2>4 DEF BeginMove, Open, db
  <2>5. ASSUME NEW op, NEW r \in Runs, NEW to, NEW then, BeginOperator(s, op, r, to, then)
        PROVE  RunTimestamps' /\ LoadedInv'
    BY <1>1, <2>1, <2>5 DEF BeginOperator, Open, db
  <2>6. ASSUME NEW r \in Runs, NEW to \in Reports, BeginCallback(s, r, to)
        PROVE  RunTimestamps' /\ LoadedInv'
    BY <1>2, <2>1, <2>6 DEF BeginCallback, Open, db
  <2>7. ASSUME NEW r \in Runs, BeginDispatch(s, r) PROVE RunTimestamps' /\ LoadedInv'
    BY <1>1, <2>1, <2>7 DEF BeginDispatch, Open, db
  <2>8. ASSUME AssigneeDeleted(s) PROVE RunTimestamps' /\ LoadedInv'
    BY <2>8 DEF AssigneeDeleted, TimestampInv, RunTimestamps, LoadedInv, Tracks
  <2> QED BY <1>4, <2>3, <2>4, <2>5, <2>6, <2>7, <2>8 DEF RequestBegins
<1>5. ASSUME NEW s \in Sessions, LoadRun(s) PROVE RunTimestamps' /\ LoadedInv'
  <2> DEFINE row == run[session[s].run]
  <2>1. session[s] # None /\ UNCHANGED run BY <1>5 DEF LoadRun, At, db
  <2>2. CASE Permitted(session[s].op, row.status)
    <3>1. row.status # "absent" BY <2>2 DEF Permitted, Terminal
    <3> QED BY <1>3, <1>5, <2>1, <2>2, <3>1 DEF LoadRun, Behind
  <2>3. CASE ~Permitted(session[s].op, row.status)
    BY <1>5, <2>1, <2>3, SessionKeepsStamps DEF LoadRun
  <2> QED BY <2>2, <2>3
<1>6. ASSUME NEW s \in Sessions, session[s] # None, session[s].stage \notin {"task", "enqueue"},
             session[s].op \notin {"create", "move"}
      PROVE  run[session[s].run].status # "absent" /\ Behind(session[s].runRow, run[session[s].run])
  BY <1>6 DEF TimestampInv, LoadedInv, Tracks
<1>7. ASSUME NEW s \in Sessions, Decide(s) PROVE RunTimestamps' /\ LoadedInv'
  BY <1>3, <1>6, <1>7 DEF Decide, At, db
<1>8. ASSUME NEW s \in Sessions, CommitUpdate(s) PROVE RunTimestamps' /\ LoadedInv'
  <2> DEFINE new == UpdatedRun(session[s].runRow, session[s].to)
  <2>1. /\ session[s] # None /\ session[s].run \in Runs /\ session[s].to \in RunStatuses
        /\ session[s].runRow \in RunRow
    BY <1>0, <1>8, SessionFields DEF CommitUpdate, At, GoodSession
  <2>2. new \in RunRow BY <2>1, NewRowTypes
  <2>3. Behind(session[s].runRow, new) /\ Stamped(new) /\ new.status # "absent"
    BY <2>1 DEF Behind, Stamped, UpdatedRun, RunStatuses
  <2>4. WriteRun(s, new) /\ Close(s) BY <1>8 DEF CommitUpdate
  <2>5. session[s].op \notin {"create", "move"} /\ session[s].stage \notin {"task", "enqueue"}
    BY <1>8 DEF CommitUpdate, At
  <2> HIDE DEF new
  <2> QED BY <2>1, <2>2, <2>3, <2>4, <2>5, WriteKeepsStamps
<1>9. ASSUME NEW s \in Sessions, CommitDispatch(s) PROVE RunTimestamps' /\ LoadedInv'
  <2> DEFINE new == DispatchedRun(session[s].runRow)
  <2>1. session[s] # None /\ session[s].run \in Runs /\ session[s].runRow \in RunRow
    BY <1>0, <1>9, SessionFields DEF CommitDispatch, At, GoodSession
  <2>2. new \in RunRow BY <2>1, NewRowTypes
  <2>3. Behind(session[s].runRow, new) /\ Stamped(new) /\ new.status # "absent"
    BY <2>1 DEF Behind, Stamped, DispatchedRun, Finished
  <2>4. WriteRun(s, new) /\ Close(s) BY <1>9 DEF CommitDispatch
  <2>5. session[s].op \notin {"create", "move"} /\ session[s].stage \notin {"task", "enqueue"}
    BY <1>9 DEF CommitDispatch, At
  <2> HIDE DEF new
  <2> QED BY <2>1, <2>2, <2>3, <2>4, <2>5, WriteKeepsStamps
<1>10. ASSUME NEW s \in Sessions, NEW r \in Runs, CommitCreate(s, r)
       PROVE  RunTimestamps' /\ LoadedInv'
  <2>1. \A q \in Runs : run'[q] = IF q = r THEN NewRun ELSE run[q]
    BY <1>0, <1>10 DEF CommitCreate, TypeOK
  <2>2. RunTimestamps'
    BY <2>1 DEF TimestampInv, RunTimestamps, NewRun, Finished
  <2>3. \A t \in Sessions \ {s} : session'[t] = session[t]
    BY <1>0, <1>10 DEF CommitCreate, TypeOK, Close, Put
  <2>4. \/ session'[s] = None
        \/ session'[s] = NewSession("dispatch", r, "dispatching", FALSE, "enqueue", Absent)
    BY <1>0, <1>10 DEF CommitCreate, TypeOK, Close, Put
  <2>5. session'[s] # None => Tracks(session[s])'
    BY <2>4 DEF Tracks, NewSession
  <2>6. ASSUME NEW t \in Sessions \ {s}, session'[t] # None PROVE Tracks(session[t])'
    <3>1. session'[t] = session[t] /\ session[t] # None BY <2>3, <2>6
    <3>2. Tracks(session[t]) BY <3>1 DEF TimestampInv, LoadedInv
    <3>3. session[t].op \notin {"create", "move"} => session[t].run \in Runs
      BY <1>0, <3>1, SessionFields DEF GoodSession
    <3>4. run[r].status = "absent" BY <1>10 DEF CommitCreate
    <3> QED BY <2>1, <3>1, <3>2, <3>3, <3>4 DEF Tracks
  <2> QED BY <2>2, <2>5, <2>6 DEF LoadedInv
<1>11. ASSUME NEW s \in Sessions,
              RejectCreate(s) \/ CommitEscalate(s) \/ CommitMove(s) \/ Enqueue(s)
              \/ DispatchRejected(s) \/ DispatchReplyLost(s)
       PROVE  RunTimestamps' /\ LoadedInv'
  <2>1. UNCHANGED run /\ Close(s)
    BY <1>11 DEF RejectCreate, CommitEscalate, CommitMove, Enqueue, DispatchRejected,
                 DispatchReplyLost, DispatchRaises, db
  <2> QED BY <2>1, SessionKeepsStamps
<1>12. ASSUME NEW s \in Sessions, CheckEscalate(s) PROVE RunTimestamps' /\ LoadedInv'
  BY <1>3, <1>6, <1>12, SessionKeepsStamps DEF CheckEscalate, At, db
<1>13. ASSUME NEW s \in Sessions, DispatchAccepted(s) PROVE RunTimestamps' /\ LoadedInv'
  BY <1>3, <1>6, <1>13 DEF DispatchAccepted, At, db
<1>14. ASSUME NEW s \in Sessions, NEW r \in Runs, StartDispatch(s, r), UNCHANGED run
       PROVE  RunTimestamps' /\ LoadedInv'
  <2>1. CASE run[r].status \in Dispatchable
    BY <1>2, <1>14, <2>1 DEF StartDispatch, Dispatchable
  <2>2. CASE run[r].status \notin Dispatchable
    BY <1>14, <2>2, SessionKeepsStamps DEF StartDispatch
  <2> QED BY <2>1, <2>2
<1>15. ASSUME NEW s \in Sessions, EnqueueFails(s) PROVE RunTimestamps' /\ LoadedInv'
  <2>1. session[s].run \in Runs
    BY <1>0, <1>15, SessionFields DEF EnqueueFails, At, GoodSession
  <2> QED BY <1>14, <1>15, <2>1 DEF EnqueueFails, db
<1>16. ASSUME NEW w \in Workers, NEW r \in Runs, TakeMessage(w, r)
       PROVE  RunTimestamps' /\ LoadedInv'
  BY <1>14, <1>16 DEF TakeMessage, db, Sessions
<1>17. CASE ResolveApproval
  BY <1>17 DEF ResolveApproval, TimestampInv, RunTimestamps, LoadedInv, Tracks
<1>18. CASE UNCHANGED vars
  BY <1>18 DEF vars, TimestampInv, RunTimestamps, LoadedInv, Tracks
<1> QED
  BY <1>4, <1>5, <1>7, <1>8, <1>9, <1>10, <1>11, <1>12, <1>13, <1>15, <1>16, <1>17, <1>18
  DEF Next, SessionStep

(* A run that shows as running has a started_at and one that shows as       *)
(* finished a completed_at, whatever sessions of update_run, dispatch_run   *)
(* and cancel_run overlap on it, for every number of them.                  *)
THEOREM TimestampsConsistent == Spec => []RunTimestamps
<1>1. Init => TimestampInv
  BY InitType DEF Init, TimestampInv, RunTimestamps, LoadedInv, Absent, Finished
<1>2. TimestampInv /\ [Next]_vars => TimestampInv' BY NextStamps
<1>3. TimestampInv => RunTimestamps BY DEF TimestampInv
<1> QED BY <1>1, <1>2, <1>3, PTL DEF Spec

-----------------------------------------------------------------------------
(* Dispatches that somebody asked for. *)

(* The session v is on its way to dispatch r. *)
Carries(v, r) == v # None /\ v.run = r /\ v.stage \in {"enqueue", "call", "accepted"}

(* Whatever a step does to one session, it hands what that session carried *)
(* on to the queue, to a session or to the report of a failure.            *)
HandsOn(s) ==
    \A r \in asked' :
        \/ queued'[r] > 0 \/ r \in failed' \/ Carries(session'[s], r)
        \/ /\ r \in asked
           /\ queued[r] > 0 => queued'[r] > 0
           /\ r \in failed => r \in failed'
           /\ ~Carries(session[s], r)

LEMMA HandedOn ==
    ASSUME TypeOK, DispatchNotForgotten, NEW s \in Sessions,
           \A t \in Sessions \ {s} : session'[t] = session[t], HandsOn(s)
    PROVE  DispatchNotForgotten'
<1> SUFFICES ASSUME NEW r \in asked', ~(queued'[r] > 0), r \notin failed'
             PROVE  \E t \in Sessions : Carries(session'[t], r)
  BY DEF DispatchNotForgotten, Carries
<1>1. CASE Carries(session'[s], r)
  BY <1>1
<1>2. CASE r \in asked /\ ~(queued[r] > 0) /\ r \notin failed /\ ~Carries(session[s], r)
  <2>1. PICK t \in Sessions : Carries(session[t], r)
    BY <1>2 DEF DispatchNotForgotten, Carries
  <2> QED BY <1>2, <2>1
<1> QED BY <1>1, <1>2 DEF HandsOn

(* What a step does to the sessions, in terms of their values. *)
LEMMA ClosedSession ==
    ASSUME TypeOK, NEW s \in Sessions, Close(s)
    PROVE  session'[s] = None /\ \A t \in Sessions \ {s} : session'[t] = session[t]
  BY DEF Close, TypeOK

LEMMA PutSession ==
    ASSUME TypeOK, NEW s \in Sessions, NEW v, Put(s, v)
    PROVE  session'[s] = v /\ \A t \in Sessions \ {s} : session'[t] = session[t]
  BY DEF Put, TypeOK

LEMMA AdvancedSession ==
    ASSUME TypeOK, NEW s \in Sessions, session[s] # None, NEW stage \in Stages,
           NEW row \in RunRow, NEW auto \in BOOLEAN, Advance(s, stage, row, auto)
    PROVE  /\ session'[s] # None
           /\ session'[s].op = session[s].op /\ session'[s].run = session[s].run
           /\ session'[s].to = session[s].to /\ session'[s].taskRow = session[s].taskRow
           /\ session'[s].then = session[s].then
           /\ session'[s].stage = stage /\ session'[s].runRow = row /\ session'[s].auto = auto
           /\ \A t \in Sessions \ {s} : session'[t] = session[t]
<1> DEFINE v == [session[s] EXCEPT !.stage = stage, !.runRow = row, !.auto = auto]
<1>1. session \in [Sessions -> Session \cup {None}]
  BY DEF TypeOK
<1>2. session[s] \in Session
  BY <1>1
<1>3. session' = [session EXCEPT ![s] = v]
  BY DEF Advance
<1>4. /\ v.op = session[s].op /\ v.run = session[s].run /\ v.taskRow = session[s].taskRow
      /\ v.to = session[s].to /\ v.then = session[s].then /\ v.stage = stage /\ v.runRow = row /\ v.auto = auto
      /\ v \in Session
  BY <1>2 DEF Session
<1> HIDE DEF v
<1> QED BY <1>1, <1>3, <1>4, NoneAssumption

(* A session that is to dispatch r carries it. *)
LEMMA DispatchCarries ==
    ASSUME TypeOK, NEW r \in Runs, NEW stage \in {"enqueue", "call"}, NEW row \in RunRow
    PROVE  Carries(NewSession("dispatch", r, "dispatching", FALSE, stage, row), r)
<1>1. stage \in Stages
  BY DEF Stages
<1>2. NewSession("dispatch", r, "dispatching", FALSE, stage, row) # None
  BY <1>1, DispatchSessionType, NoneAssumption DEF GoodSession
<1> QED BY <1>2 DEF Carries, NewSession

(* A step of a session that carries no dispatch, and asks for none. *)
LEMMA QuietHandsOn ==
    ASSUME NEW s \in Sessions, UNCHANGED <<queued, asked, failed>>,
           session[s] = None \/ session[s].stage \notin {"enqueue", "call", "accepted"}
    PROVE  HandsOn(s)
  BY DEF HandsOn, Carries

(* dispatch_run, entered with the status guard. *)
LEMMA StartHandsOn ==
    ASSUME TypeOK, NEW s \in Sessions, NEW r \in Runs, StartDispatch(s, r), Answered(r)
    PROVE  /\ r \notin asked' \/ Carries(session'[s], r)
           /\ asked' \subseteq asked
           /\ \A t \in Sessions \ {s} : session'[t] = session[t]
<1>1. CASE run[r].status \in Dispatchable
  <2>1. Put(s, NewSession("dispatch", r, "dispatching", FALSE, "call", run[r])) /\ asked' = asked
    BY <1>1 DEF StartDispatch, Answered
  <2>2. run[r] \in RunRow
    BY DEF TypeOK
  <2> QED BY <2>1, <2>2, PutSession, DispatchCarries
<1>2. CASE run[r].status \notin Dispatchable
  <2>1. Close(s) /\ asked' = asked \ {r}
    BY <1>2 DEF StartDispatch, Answered
  <2> QED BY <2>1, ClosedSession
<1> QED BY <1>1, <1>2

(* An exception out of dispatch_run. *)
LEMMA RaiseHandsOn ==
    ASSUME TypeOK, NEW s \in Sessions, session[s] # None, session[s].run \in Runs,
           DispatchRaises(s), UNCHANGED asked
    PROVE  HandsOn(s) /\ \A t \in Sessions \ {s} : session'[t] = session[t]
<1>1. \A t \in Sessions \ {s} : session'[t] = session[t]
  BY ClosedSession DEF DispatchRaises
<1>2. queued \in [Runs -> 0..MaxMessages] /\ asked \subseteq Runs
  BY DEF TypeOK
<1>3. CASE queued' = [queued EXCEPT ![session[s].run] = @ + 1] /\ UNCHANGED failed
  <2>1. /\ queued'[session[s].run] > 0
        /\ \A r \in Runs \ {session[s].run} : queued'[r] = queued[r]
    BY <1>2, <1>3
  <2> QED BY <1>1, <1>2, <1>3, <2>1 DEF HandsOn, Carries
<1>4. CASE failed' = failed \cup {session[s].run} /\ UNCHANGED queued
  BY <1>1, <1>4 DEF HandsOn, Carries
<1> QED BY <1>3, <1>4 DEF DispatchRaises

(* Every step of every session hands its dispatch on. *)
LEMMA NextNotForgotten == TypeOK /\ DispatchNotForgotten /\ [Next]_vars => DispatchNotForgotten'
<1> SUFFICES ASSUME TypeOK, DispatchNotForgotten, [Next]_vars PROVE DispatchNotForgotten'
  OBVIOUS
<1>0. queued \in [Runs -> 0..MaxMessages] /\ asked \subseteq Runs /\ run \in [Runs -> RunRow]
  BY DEF TypeOK
<1>1. ASSUME NEW s \in Sessions, NEW v, session[s] = None, Put(s, v),
             UNCHANGED <<queued, asked, failed>>
      PROVE  DispatchNotForgotten'
  BY <1>1, PutSession, QuietHandsOn, HandedOn
<1>2. ASSUME NEW s \in Requests, NEW r \in Runs, BeginDispatch(s, r) PROVE DispatchNotForgotten'
  <2>1. /\ s \in Sessions /\ session[s] = None
        /\ Put(s, NewSession("dispatch", r, "dispatching", FALSE, "enqueue", Absent))
    BY <1>2 DEF BeginDispatch, Open, Sessions
  <2>2. Carries(session'[s], r) /\ \A t \in Sessions \ {s} : session'[t] = session[t]
    BY <2>1, PutSession, DispatchCarries, NewRowTypes
  <2>3. asked' = asked \cup {r} /\ failed' = failed \ {r} /\ queued' = queued
    BY <1>2 DEF BeginDispatch
  <2>4. HandsOn(s)
    BY <2>1, <2>2, <2>3 DEF HandsOn, Carries
  <2> QED BY <2>1, <2>2, <2>4, HandedOn
<1>3. ASSUME NEW s \in Requests, RequestBegins(s) PROVE DispatchNotForgotten'
  <2>1. s \in Sessions
    BY DEF Sessions
  <2>2. ASSUME AssigneeDeleted(s) PROVE DispatchNotForgotten'
    BY <2>2 DEF AssigneeDeleted, hist, DispatchNotForgotten
  <2> QED BY <1>1, <1>2, <1>3, <2>1, <2>2
      DEF RequestBegins, BeginCreate, BeginMove, BeginOperator, BeginCallback, Open, hist
<1>4. ASSUME NEW s \in Sessions, Close(s), UNCHANGED <<queued, asked, failed>>,
             session[s].stage \notin {"enqueue", "call", "accepted"}
      PROVE  DispatchNotForgotten'
  BY <1>4, ClosedSession, QuietHandsOn, HandedOn
<1>5. ASSUME NEW s \in Sessions, session[s] # None, NEW stage \in {"loaded", "ready"},
             NEW row \in RunRow, NEW auto \in BOOLEAN, Advance(s, stage, row, auto),
             UNCHANGED <<queued, asked, failed>>,
             session[s].stage \notin {"enqueue", "call", "accepted"}
      PROVE  DispatchNotForgotten'
  <2>1. stage \in Stages
    BY DEF Stages
  <2> QED BY <1>5, <2>1, AdvancedSession, QuietHandsOn, HandedOn
<1>6. ASSUME NEW s \in Sessions, LoadRun(s) PROVE DispatchNotForgotten'
  <2>1. session[s] # None /\ session[s].run \in Runs /\ session[s].stage = "task"
    BY <1>6, SessionFields DEF LoadRun, At, GoodSession
  <2> QED BY <1>0, <1>4, <1>5, <1>6, <2>1 DEF LoadRun, hist
<1>7. ASSUME NEW s \in Sessions, Decide(s) PROVE DispatchNotForgotten'
  <2>1. session[s] # None /\ session[s].runRow \in RunRow /\ session[s].stage = "loaded"
    BY <1>7, SessionFields DEF Decide, At
  <2> QED BY <1>5, <1>7, <2>1 DEF Decide, hist
<1>8. ASSUME NEW s \in Sessions, CheckEscalate(s) PROVE DispatchNotForgotten'
  <2>1. session[s] # None /\ session[s].runRow \in RunRow /\ session[s].stage = "loaded"
    BY <1>8, SessionFields DEF CheckEscalate, At
  <2> QED BY <1>4, <1>5, <1>8, <2>1 DEF CheckEscalate, hist
<1>9. ASSUME NEW s \in Sessions,
             CommitUpdate(s) \/ RejectCreate(s) \/ CommitEscalate(s) \/ CommitMove(s)
      PROVE  DispatchNotForgotten'
  BY <1>4, <1>9 DEF CommitUpdate, RejectCreate, CommitEscalate, CommitMove, At, hist
<1>10. ASSUME NEW s \in Sessions, NEW r \in Runs, CommitCreate(s, r)
       PROVE  DispatchNotForgotten'
  <2>1. session[s].stage = "loaded" /\ queued' = queued /\ failed' = failed
    BY <1>10 DEF CommitCreate, At
  <2>2. CASE ~session[s].then
    BY <1>4, <1>10, <2>1, <2>2 DEF CommitCreate
  <2>3. CASE session[s].then
    <3>1. /\ Put(s, NewSession("dispatch", r, "dispatching", FALSE, "enqueue", Absent))
          /\ asked' = asked \cup {r}
      BY <1>10, <2>3 DEF CommitCreate
    <3>2. Carries(session'[s], r) /\ \A t \in Sessions \ {s} : session'[t] = session[t]
      BY <3>1, PutSession, DispatchCarries, NewRowTypes
    <3>3. HandsOn(s)
      BY <2>1, <3>1, <3>2 DEF HandsOn, Carries
    <3> QED BY <3>2, <3>3, HandedOn
  <2> QED BY <2>2, <2>3
<1>11. ASSUME NEW s \in Sessions, Enqueue(s) PROVE DispatchNotForgotten'
  <2>1. session[s].run \in Runs
    BY <1>11, SessionFields DEF Enqueue, At, GoodSession
  <2>2. /\ queued'[session[s].run] > 0
        /\ \A r \in Runs \ {session[s].run} : queued'[r] = queued[r]
    BY <1>0, <1>11, <2>1 DEF Enqueue
  <2>3. HandsOn(s)
    BY <1>0, <1>11, <2>2 DEF Enqueue, hist, HandsOn, Carries
  <2> QED BY <1>11, <2>3, ClosedSession, HandedOn DEF Enqueue
<1>12. ASSUME NEW s \in Sessions, EnqueueFails(s) PROVE DispatchNotForgotten'
  <2>1. session[s].run \in Runs
    BY <1>12, SessionFields DEF EnqueueFails, At, GoodSession
  <2>2. /\ session[s].run \notin asked' \/ Carries(session'[s], session[s].run)
        /\ asked' \subseteq asked
        /\ \A t \in Sessions \ {s} : session'[t] = session[t]
    BY <1>12, <2>1, StartHandsOn DEF EnqueueFails
  <2>3. HandsOn(s)
    BY <1>12, <2>2 DEF EnqueueFails, HandsOn, Carries
  <2> QED BY <2>2, <2>3, HandedOn
<1>13. ASSUME NEW w \in Workers, NEW r \in Runs, TakeMessage(w, r) PROVE DispatchNotForgotten'
  <2>1. w \in Sessions /\ session[w] = None /\ failed' = failed
    BY <1>13 DEF TakeMessage, Sessions
  <2>2. /\ r \notin asked' \/ Carries(session'[w], r)
        /\ asked' \subseteq asked
        /\ \A t \in Sessions \ {w} : session'[t] = session[t]
    BY <1>13, <2>1, StartHandsOn DEF TakeMessage
  <2>3. \A q \in Runs \ {r} : queued'[q] = queued[q]
    BY <1>0, <1>13 DEF TakeMessage
  <2>4. HandsOn(w)
    BY <1>0, <2>1, <2>2, <2>3 DEF HandsOn, Carries
  <2> QED BY <2>1, <2>2, <2>4, HandedOn
<1>14. ASSUME NEW s \in Sessions, DispatchAccepted(s) PROVE DispatchNotForgotten'
  <2>1. session[s] # None /\ session[s].runRow \in RunRow /\ "accepted" \in Stages
    BY <1>14, SessionFields DEF DispatchAccepted, At, Stages
  <2>2. /\ session'[s] # None /\ session'[s].run = session[s].run
        /\ session'[s].stage = "accepted"
        /\ \A t \in Sessions \ {s} : session'[t] = session[t]
    BY <1>14, <2>1, AdvancedSession DEF DispatchAccepted
  <2>3. HandsOn(s)
    BY <1>14, <2>2 DEF DispatchAccepted, HandsOn, Carries
  <2> QED BY <2>2, <2>3, HandedOn
<1>15. ASSUME NEW s \in Sessions, DispatchRejected(s) \/ DispatchReplyLost(s)
       PROVE  DispatchNotForgotten'
  <2>1. session[s] # None /\ session[s].run \in Runs
    BY <1>15, SessionFields DEF DispatchRejected, DispatchReplyLost, At, GoodSession
  <2> QED BY <1>15, <2>1, RaiseHandsOn, HandedOn DEF DispatchRejected, DispatchReplyLost
<1>16. ASSUME NEW s \in Sessions, CommitDispatch(s) PROVE DispatchNotForgotten'
  <2>1. HandsOn(s)
    BY <1>16 DEF CommitDispatch, HandsOn, Carries
  <2> QED BY <1>16, <2>1, ClosedSession, HandedOn DEF CommitDispatch
<1>17. CASE ResolveApproval \/ UNCHANGED vars
  BY <1>17 DEF ResolveApproval, vars, hist, DispatchNotForgotten
<1> QED
  BY <1>3, <1>6, <1>7, <1>8, <1>9, <1>10, <1>11, <1>12, <1>13, <1>14, <1>15, <1>16, <1>17
  DEF Next, SessionStep

(* A run that waits for a dispatch is in the queue, in a session's hands or *)
(* reported to have failed, for every number of runs, requests and workers  *)
(* and whether or not Redis takes the messages.                             *)
THEOREM NoDispatchForgotten == Spec => []DispatchNotForgotten
<1>1. Init => TypeOK /\ DispatchNotForgotten
  BY InitType DEF Init, DispatchNotForgotten
<1>2. TypeOK /\ DispatchNotForgotten /\ [Next]_vars => (TypeOK /\ DispatchNotForgotten)'
  BY NextType, NextNotForgotten
<1> QED BY <1>1, <1>2, PTL DEF Spec

-----------------------------------------------------------------------------
(* One dispatch at a time. *)

(* One worker, and a queue that takes every message: dispatch_run then runs *)
(* in the worker alone.                                                     *)
OneDispatcher == ~RedisFails /\ \A v, w \in Workers : v = w

Idle == Dispatchable \cup {"absent"}

Accepted(s, r) == session[s] # None /\ session[s].stage = "accepted" /\ session[s].run = r

(* A session in dispatch_run is the worker's; it found the run dispatchable *)
(* and, until the bridge answers, nobody else has dispatched it.            *)
Careful(s) ==
    session[s] # None /\ session[s].stage \in {"call", "accepted"} =>
        /\ s \in Workers /\ session[s].run \in Runs
        /\ session[s].runRow.status \in Dispatchable
        /\ session[s].stage = "call" => sent[session[s].run] <= lost[session[s].run]

(* A run that is dispatchable and not being committed has been dispatched   *)
(* by lost calls alone.                                                     *)
Undispatched(r) ==
    run[r].status \in Idle /\ (\A s \in Sessions : ~Accepted(s, r)) => sent[r] <= lost[r]

OnceInv == /\ \A s \in Sessions : Careful(s)
           /\ \A r \in Runs : Undispatched(r)
           /\ DispatchOnce

(* The counters of a step that does not reach the bridge: a run that enters *)
(* a dispatchable status starts anew, one that is in it was in it before.   *)
CountersKept ==
    \A r \in Runs :
        \/ sent'[r] = 0 /\ lost'[r] = 0
        \/ /\ sent'[r] = sent[r] /\ lost'[r] = lost[r]
           /\ run'[r].status \in Idle => run[r].status \in Idle

LEMMA WriteKeepsCounters ==
    ASSUME TypeOK, NEW s \in Sessions, session[s] # None, session[s].run \in Runs,
           NEW new \in RunRow, new.status # "absent", WriteRun(s, new)
    PROVE  CountersKept
<1> DEFINE q == session[s].run
           row == MergeRun(run[q], session[s].runRow, new)
<1>1. run' = [run EXCEPT ![q] = row] /\ run \in [Runs -> RunRow]
  BY DEF WriteRun, TypeOK
<1>2. sent \in [Runs -> Nat] /\ lost \in [Runs -> 0..MaxLost]
  BY DEF TypeOK
<1>3. row.status = new.status \/ row.status = run[q].status
  BY DEF MergeRun
<1>4. CASE row.status \in Dispatchable /\ row.status # run[q].status
  <2>1. sent' = [sent EXCEPT ![q] = 0] /\ lost' = [lost EXCEPT ![q] = 0]
    BY <1>4 DEF WriteRun
  <2> HIDE DEF row
  <2> QED BY <1>1, <1>2, <2>1 DEF CountersKept
<1>5. CASE ~(row.status \in Dispatchable /\ row.status # run[q].status)
  <2>1. sent' = sent /\ lost' = lost
    BY <1>5 DEF WriteRun
  <2> HIDE DEF row
  <2> QED BY <1>1, <1>3, <1>5, <2>1 DEF CountersKept, Idle
<1> QED BY <1>4, <1>5

(* A step of one session that does not reach the bridge. *)
LEMMA OnceKept ==
    ASSUME TypeOK, TypeOK', OnceInv, CountersKept, NEW s \in Sessions,
           \A t \in Sessions \ {s} : session'[t] = session[t], Careful(s)',
           \A r \in Runs : Accepted(s, r) => run'[r].status \notin Idle
    PROVE  OnceInv'
<1>1. /\ sent \in [Runs -> Nat] /\ lost \in [Runs -> 0..MaxLost]
      /\ sent' \in [Runs -> Nat] /\ lost' \in [Runs -> 0..MaxLost]
  BY DEF TypeOK
<1>2. MaxLost \in Nat
  BY ConstantsAssumption
<1>3. ASSUME NEW t \in Sessions \ {s} PROVE Careful(t)'
  <2>1. session'[t] = session[t] /\ Careful(t)
    BY DEF OnceInv
  <2> QED BY <1>1, <1>2, <2>1 DEF Careful, CountersKept
<1>4. ASSUME NEW r \in Runs PROVE Undispatched(r)'
  <2>1. Undispatched(r)
    BY DEF OnceInv
  <2> QED BY <1>1, <1>2, <2>1 DEF Undispatched, CountersKept, Accepted
<1>5. DispatchOnce'
  BY <1>1, <1>2 DEF OnceInv, DispatchOnce, CountersKept
<1> QED BY <1>3, <1>4, <1>5 DEF OnceInv

LEMMA NextOnce ==
    ASSUME OneDispatcher PROVE TypeOK /\ OnceInv /\ [Next]_vars => OnceInv'
<1> SUFFICES ASSUME TypeOK, OnceInv, [Next]_vars PROVE OnceInv'
  OBVIOUS
<1>0. TypeOK'
  BY NextType
<1>1. /\ run \in [Runs -> RunRow] /\ sent \in [Runs -> Nat] /\ lost \in [Runs -> 0..MaxLost]
      /\ MaxLost \in Nat
  BY ConstantsAssumption DEF TypeOK
<1>2. UNCHANGED <<run, sent, lost>> => CountersKept
  BY DEF CountersKept
<1>3. ASSUME NEW s \in Sessions, NEW v, session[s] = None, Put(s, v), UNCHANGED <<run, sent, lost>>,
             v.stage \notin {"call", "accepted"}
      PROVE  OnceInv'
  <2>1. session'[s] = v /\ \A t \in Sessions \ {s} : session'[t] = session[t]
    BY <1>3, PutSession
  <2>2. Careful(s)' /\ \A r \in Runs : ~Accepted(s, r)
    BY <1>3, <2>1 DEF Careful, Accepted
  <2> QED BY <1>0, <1>2, <1>3, <2>1, <2>2, OnceKept
<1>4. ASSUME NEW s \in Requests, RequestBegins(s) PROVE OnceInv'
  <2>1. s \in Sessions
    BY DEF Sessions
  <2>2. ASSUME AssigneeDeleted(s) PROVE OnceInv'
    BY <2>2 DEF AssigneeDeleted, hist, OnceInv, Careful, Undispatched, Accepted, DispatchOnce
  <2> QED BY <1>3, <1>4, <2>1, <2>2
      DEF RequestBegins, BeginCreate, BeginMove, BeginOperator, BeginCallback, BeginDispatch,
          Open, NewSession, db, hist
<1>5. ASSUME NEW s \in Sessions, Close(s), CountersKept,
             session[s].stage = "accepted" => run'[session[s].run].status \notin Idle
      PROVE  OnceInv'
  <2>1. session'[s] = None /\ \A t \in Sessions \ {s} : session'[t] = session[t]
    BY <1>5, ClosedSession
  <2>2. Careful(s)' /\ \A r \in Runs : Accepted(s, r) => run'[r].status \notin Idle
    BY <1>5, <2>1 DEF Careful, Accepted
  <2> QED BY <1>0, <1>5, <2>1, <2>2, OnceKept
<1>6. ASSUME NEW s \in Sessions, session[s] # None, NEW stage \in {"loaded", "ready"},
             NEW row \in RunRow, NEW auto \in BOOLEAN, Advance(s, stage, row, auto),
             UNCHANGED <<run, sent, lost>>, session[s].stage # "accepted"
      PROVE  OnceInv'
  <2>1. stage \in Stages
    BY DEF Stages
  <2>2. session'[s].stage = stage /\ \A t \in Sessions \ {s} : session'[t] = session[t]
    BY <1>6, <2>1, AdvancedSession
  <2>3. Careful(s)' /\ \A r \in Runs : ~Accepted(s, r)
    BY <1>6, <2>2 DEF Careful, Accepted
  <2> QED BY <1>0, <1>2, <1>6, <2>2, <2>3, OnceKept
<1>7. ASSUME NEW s \in Sessions, LoadRun(s) PROVE OnceInv'
  <2>1. session[s] # None /\ session[s].run \in Runs /\ session[s].stage = "task"
    BY <1>7, SessionFields DEF LoadRun, At, GoodSession
  <2> QED BY <1>1, <1>2, <1>5, <1>6, <1>7, <2>1 DEF LoadRun, db, hist
<1>8. ASSUME NEW s \in Sessions, Decide(s) PROVE OnceInv'
  <2>1. session[s] # None /\ session[s].runRow \in RunRow /\ session[s].stage = "loaded"
    BY <1>8, SessionFields DEF Decide, At
  <2> QED BY <1>6, <1>8, <2>1 DEF Decide, db, hist
<1>9. ASSUME NEW s \in Sessions, CheckEscalate(s) PROVE OnceInv'
  <2>1. session[s] # None /\ session[s].runRow \in RunRow /\ session[s].stage = "loaded"
    BY <1>9, SessionFields DEF CheckEscalate, At
  <2> QED BY <1>2, <1>5, <1>6, <1>9, <2>1 DEF CheckEscalate, db, hist
<1>10. ASSUME NEW s \in Sessions, RejectCreate(s) \/ CommitEscalate(s) \/ CommitMove(s) \/ Enqueue(s)
       PROVE  OnceInv'
  BY <1>2, <1>5, <1>10 DEF RejectCreate, CommitEscalate, CommitMove, Enqueue, At, db, hist
<1>11. ASSUME NEW s \in Sessions, CommitUpdate(s) PROVE OnceInv'
  <2>1. /\ session[s] # None /\ session[s].run \in Runs /\ session[s].to \in RunStatuses
        /\ session[s].runRow \in RunRow /\ session[s].stage = "ready"
    BY <1>11, SessionFields DEF CommitUpdate, At, GoodSession
  <2>2. /\ UpdatedRun(session[s].runRow, session[s].to) \in RunRow
        /\ UpdatedRun(session[s].runRow, session[s].to).status # "absent"
    <3>1. UpdatedRun(session[s].runRow, session[s].to) \in RunRow
      BY <2>1, NewRowTypes
    <3>2. UpdatedRun(session[s].runRow, session[s].to).status = session[s].to
      BY DEF UpdatedRun
    <3> QED BY <2>1, <3>1, <3>2 DEF RunStatuses
  <2>3. CountersKept
    BY <1>11, <2>1, <2>2, WriteKeepsCounters DEF CommitUpdate
  <2> QED BY <1>5, <1>11, <2>1, <2>3 DEF CommitUpdate
<1>12. ASSUME NEW s \in Sessions, NEW r \in Runs, CommitCreate(s, r) PROVE OnceInv'
  <2>1. CountersKept /\ session[s].stage = "loaded"
    BY <1>1, <1>12 DEF CommitCreate, At, CountersKept, Idle
  <2>2. CASE ~session[s].then
    BY <1>5, <1>12, <2>1, <2>2 DEF CommitCreate
  <2>3. CASE session[s].then
    <3>1. Put(s, NewSession("dispatch", r, "dispatching", FALSE, "enqueue", Absent))
      BY <1>12, <2>3 DEF CommitCreate
    <3>2. session'[s].stage = "enqueue" /\ \A t \in Sessions \ {s} : session'[t] = session[t]
      BY <3>1, PutSession DEF NewSession
    <3>3. Careful(s)' /\ \A q \in Runs : ~Accepted(s, q)
      BY <2>1, <3>2 DEF Careful, Accepted
    <3> QED BY <1>0, <2>1, <3>2, <3>3, OnceKept
  <2> QED BY <2>2, <2>3
<1>13. ASSUME NEW w \in Workers, NEW r \in Runs, TakeMessage(w, r) PROVE OnceInv'
  <2>1. w \in Sessions /\ session[w] = None /\ UNCHANGED <<run, sent, lost>>
    BY <1>13 DEF TakeMessage, db, Sessions
  <2>2. CASE run[r].status \notin Dispatchable
    <3>1. session'[w] = None /\ \A t \in Sessions \ {w} : session'[t] = session[t]
      BY <1>13, <2>1, <2>2, ClosedSession DEF TakeMessage, StartDispatch
    <3>2. Careful(w)' /\ \A q \in Runs : ~Accepted(w, q)
      BY <2>1, <3>1 DEF Careful, Accepted
    <3> QED BY <1>0, <1>2, <2>1, <3>1, <3>2, OnceKept
  <2>3. CASE run[r].status \in Dispatchable
    <3> DEFINE v == NewSession("dispatch", r, "dispatching", FALSE, "call", run[r])
    <3>1. session'[w] = v /\ \A t \in Sessions \ {w} : session'[t] = session[t]
      BY <1>13, <2>1, <2>3, PutSession DEF TakeMessage, StartDispatch
    <3>2. v.stage = "call" /\ v.run = r /\ v.runRow = run[r]
      BY DEF NewSession
    <3>3. \A t \in Sessions : ~Accepted(t, r)
      BY <2>1 DEF Accepted, OnceInv, Careful, OneDispatcher
    <3>4. sent[r] <= lost[r]
      BY <2>3, <3>3 DEF OnceInv, Undispatched, Idle
    <3> HIDE DEF v
    <3>5. Careful(w)' /\ \A q \in Runs : ~Accepted(w, q)
      BY <2>1, <2>3, <3>1, <3>2, <3>4 DEF Careful, Accepted
    <3> QED BY <1>0, <1>2, <2>1, <3>1, <3>5, OnceKept
  <2> QED BY <2>2, <2>3
<1>14. ASSUME NEW s \in Sessions, At(s, {"dispatch"}, "call")
       PROVE  /\ session[s] # None /\ s \in Workers /\ session[s].run \in Runs
              /\ session[s].runRow \in RunRow /\ session[s].runRow.status \in Dispatchable
              /\ sent[session[s].run] <= lost[session[s].run]
              /\ \A t \in Sessions, r \in Runs : ~Accepted(t, r)
              /\ \A t \in Sessions \ {s} :
                    session[t] = None \/ session[t].stage \notin {"call", "accepted"}
  <2>1. session[s] # None /\ session[s].stage = "call" /\ session[s].runRow \in RunRow
    BY <1>14, SessionFields DEF At
  <2> QED BY <2>1 DEF OnceInv, Careful, Accepted, OneDispatcher
<1>15. ASSUME NEW s \in Sessions, DispatchAccepted(s) PROVE OnceInv'
  <2>0. PICK q \in Runs : q = session[s].run
    BY <1>14, <1>15 DEF DispatchAccepted
  <2>1. /\ session[s] # None /\ s \in Workers
        /\ session[s].runRow \in RunRow /\ session[s].runRow.status \in Dispatchable
        /\ sent[q] <= lost[q] /\ \A t \in Sessions, r \in Runs : ~Accepted(t, r)
        /\ \A t \in Sessions \ {s} :
              session[t] = None \/ session[t].stage \notin {"call", "accepted"}
    BY <1>14, <1>15, <2>0 DEF DispatchAccepted
  <2>2. "accepted" \in Stages
    BY DEF Stages
  <2>3. /\ session'[s] # None /\ session'[s].run = q /\ session'[s].stage = "accepted"
        /\ session'[s].runRow = session[s].runRow
        /\ \A t \in Sessions \ {s} : session'[t] = session[t]
    BY <1>15, <2>0, <2>1, <2>2, AdvancedSession DEF DispatchAccepted
  <2>4. run' = run /\ lost' = lost /\ sent' = [sent EXCEPT ![q] = @ + 1]
    BY <1>15, <2>0 DEF DispatchAccepted, db
  <2>5. \A t \in Sessions : Careful(t)'
    BY <2>1, <2>3 DEF Careful
  <2>6. \A r \in Runs : Undispatched(r)'
    <3>1. Accepted(s, q)'
      BY <2>3 DEF Accepted
    <3>2. \A r \in Runs \ {q} : run[r].status \in Idle => sent[r] <= lost[r]
      BY <2>1 DEF OnceInv, Undispatched
    <3>3. ~(\A t \in Sessions : ~Accepted(t, q))'
      BY <3>1
    <3>4. \A r \in Runs \ {q} : sent'[r] = sent[r]
      BY <1>1, <2>4
    <3>5. Undispatched(q)'
      BY <3>3 DEF Undispatched
    <3>6. ASSUME NEW r \in Runs \ {q} PROVE Undispatched(r)'
      BY <2>4, <3>2, <3>4 DEF Undispatched
    <3> QED BY <3>5, <3>6
  <2>7. DispatchOnce'
    BY <1>1, <2>1, <2>4 DEF OnceInv, DispatchOnce
  <2> QED BY <2>5, <2>6, <2>7 DEF OnceInv
<1>16. ASSUME NEW s \in Sessions, DispatchRejected(s) PROVE OnceInv'
  BY <1>2, <1>5, <1>16 DEF DispatchRejected, DispatchRaises, At, db
<1>17. ASSUME NEW s \in Sessions, DispatchReplyLost(s) PROVE OnceInv'
  <2> DEFINE q == session[s].run
  <2>1. /\ q \in Runs /\ sent[q] <= lost[q]
        /\ \A t \in Sessions, r \in Runs : ~Accepted(t, r)
        /\ \A t \in Sessions \ {s} :
              session[t] = None \/ session[t].stage \notin {"call", "accepted"}
    BY <1>14, <1>17 DEF DispatchReplyLost
  <2>2. session'[s] = None /\ \A t \in Sessions \ {s} : session'[t] = session[t]
    BY <1>17, ClosedSession DEF DispatchReplyLost, DispatchRaises
  <2>3. /\ run' = run /\ lost' = [lost EXCEPT ![q] = @ + 1]
        /\ sent' = [sent EXCEPT ![q] = @ + 1]
    BY <1>17 DEF DispatchReplyLost, db
  <2>4. \A t \in Sessions : Careful(t)'
    BY <2>1, <2>2 DEF Careful
  <2>5. \A r \in Runs : run[r].status \in Idle => sent[r] <= lost[r]
    BY <2>1 DEF OnceInv, Undispatched
  <2>6. /\ \A r \in Runs \ {q} : sent'[r] = sent[r] /\ lost'[r] = lost[r]
        /\ sent'[q] <= lost'[q] /\ sent'[q] <= 1 + lost'[q]
    BY <1>1, <2>1, <2>3
  <2>7. \A r \in Runs : Undispatched(r)'
    BY <2>3, <2>5, <2>6 DEF Undispatched
  <2>8. DispatchOnce'
    BY <2>6 DEF OnceInv, DispatchOnce
  <2> QED BY <2>4, <2>7, <2>8 DEF OnceInv
<1>18. ASSUME NEW s \in Sessions, CommitDispatch(s) PROVE OnceInv'
  <2> DEFINE q == session[s].run
             row == MergeRun(run[q], session[s].runRow, DispatchedRun(session[s].runRow))
  <2>1. /\ session[s] # None /\ q \in Runs /\ session[s].runRow \in RunRow
        /\ session[s].runRow.status \in Dispatchable
    BY <1>18, SessionFields DEF CommitDispatch, At, OnceInv, Careful
  <2>2. /\ DispatchedRun(session[s].runRow) \in RunRow
        /\ DispatchedRun(session[s].runRow).status = "dispatching"
    BY <2>1, NewRowTypes DEF DispatchedRun
  <2>3. CountersKept
    BY <1>18, <2>1, <2>2, WriteKeepsCounters DEF CommitDispatch
  <2>4. row.status = "dispatching"
    BY <2>1, <2>2 DEF MergeRun, Dispatchable
  <2>5. run' = [run EXCEPT ![q] = row]
    BY <1>18 DEF CommitDispatch, WriteRun
  <2> HIDE DEF row
  <2>6. run'[q].status \notin Idle
    BY <1>1, <2>1, <2>4, <2>5 DEF Idle, Dispatchable
  <2> QED BY <1>5, <1>18, <2>3, <2>6 DEF CommitDispatch
<1>19. CASE ResolveApproval \/ UNCHANGED vars
  BY <1>19 DEF ResolveApproval, vars, hist, OnceInv, Careful, Undispatched, Accepted, DispatchOnce
<1>20. \A s \in Sessions : ~EnqueueFails(s)
  BY DEF EnqueueFails, OneDispatcher
<1> QED
  BY <1>4, <1>7, <1>8, <1>9, <1>10, <1>11, <1>12, <1>13, <1>15, <1>16, <1>17, <1>18, <1>19, <1>20
  DEF Next, SessionStep

(* With one worker and a queue that takes every message, the bridge gets a  *)
(* run once per time it becomes dispatchable and once more per lost reply,  *)
(* however many requests, callbacks and cancellations overlap with it.      *)
THEOREM DispatchedOnce ==
    ASSUME OneDispatcher PROVE Spec => []DispatchOnce
<1>1. Init => TypeOK /\ OnceInv
  BY InitType DEF Init, OnceInv, Careful, Undispatched, DispatchOnce
<1>2. TypeOK /\ OnceInv /\ [Next]_vars => (TypeOK /\ OnceInv)'
  BY NextType, NextOnce
<1>3. OnceInv => DispatchOnce
  BY DEF OnceInv
<1> QED BY <1>1, <1>2, <1>3, PTL DEF Spec

-----------------------------------------------------------------------------
(* One request at a time. *)

OneRequest == \A s, t \in Requests : s = t

(* What the open request loaded is what the row still says, and a lead's    *)
(* move is one that the lead may make; a worker only dispatches, which does *)
(* not touch the task.                                                      *)
Serial(s) ==
    session[s] # None =>
        IF s \in Workers THEN session[s].op = "dispatch"
        ELSE /\ session[s].taskRow = task
             /\ session[s].op = "move" /\ session[s].then =>
                    LeadMoves(session[s].taskRow.status, session[s].to)

SerialInv == InProgressStamped /\ \A s \in Sessions : Serial(s)

(* A merge into the row that was loaded is the new row. *)
LEMMA MergeIntoLoaded ==
    ASSUME NEW old \in TaskRow, NEW new \in TaskRow PROVE MergeTask(old, old, new) = new
  BY DEF MergeTask, TaskRow

(* InProgressStamped of a row, u telling whether the last start stamps nothing. *)
StampedTask(row, u) ==
    /\ row.status = "in_progress" => row.working = ~u
    /\ row.status \in {"inbox", "review"} => ~row.working

(* The row a commit of a session writes, and what it says of the last start. *)
NewTask(new, v, u, w) ==
    \/ \E to \in RunStatuses : new = CallbackTask(to) /\ w = (u /\ to # "running")
    \/ new = EscalatedTask(v.taskRow) /\ w = u
    \/ \E to \in TaskStatuses, lead \in BOOLEAN :
        /\ new = MovedTask(v.taskRow, to, lead)
        /\ w = IF to = "in_progress" THEN lead ELSE u
        /\ lead => LeadMoves(v.taskRow.status, to)

(* The rows that callbacks, escalations and moves write are stamped right. *)
LEMMA NewTaskStamped ==
    ASSUME NEW v, v.taskRow \in TaskRow, NEW u \in BOOLEAN, StampedTask(v.taskRow, u),
           NEW new, NEW w, NewTask(new, v, u, w)
    PROVE  StampedTask(new, w)
<1>1. ASSUME NEW to \in RunStatuses, new = CallbackTask(to), w = (u /\ to # "running")
      PROVE  StampedTask(new, w)
  BY <1>1 DEF CallbackTask, AutoTarget, StampedTask
<1>2. CASE new = EscalatedTask(v.taskRow) /\ w = u
  BY <1>2 DEF EscalatedTask, StampedTask
<1>3. ASSUME NEW to \in TaskStatuses, NEW lead \in BOOLEAN, new = MovedTask(v.taskRow, to, lead),
             w = IF to = "in_progress" THEN lead ELSE u,
             lead => LeadMoves(v.taskRow.status, to)
      PROVE  StampedTask(new, w)
  <2>1. new.status = to
    BY <1>3 DEF MovedTask
  <2>2. CASE to = "in_progress" /\ lead
    <3>1. v.taskRow.status = "inbox"
      BY <1>3, <2>2 DEF LeadMoves
    <3>2. ~v.taskRow.working
      BY <3>1 DEF StampedTask
    <3> QED BY <1>3, <2>1, <2>2, <3>2 DEF MovedTask, StampedTask
  <2>3. CASE to = "in_progress" /\ ~lead
    BY <1>3, <2>1, <2>3 DEF MovedTask, StampedTask
  <2>4. CASE to \in {"inbox", "review"}
    BY <1>3, <2>1, <2>4 DEF MovedTask, StampedTask
  <2>5. CASE to \notin {"inbox", "review", "in_progress"}
    BY <2>1, <2>5 DEF StampedTask
  <2> QED BY <2>2, <2>3, <2>4, <2>5
<1> QED BY <1>1, <1>2, <1>3 DEF NewTask

LEMMA NextSerial ==
    ASSUME OneRequest PROVE TypeOK /\ SerialInv /\ [Next]_vars => SerialInv'
<1> SUFFICES ASSUME TypeOK, SerialInv, [Next]_vars PROVE SerialInv'
  OBVIOUS
<1>1. task \in TaskRow /\ run \in [Runs -> RunRow] /\ unstamped \in BOOLEAN
  BY DEF TypeOK
<1>2. ASSUME NEW s \in Sessions, UNCHANGED <<task, unstamped>>, Serial(s)',
             \A t \in Sessions \ {s} : session'[t] = session[t]
      PROVE  SerialInv'
  BY <1>2 DEF SerialInv, InProgressStamped, Serial
<1>3. ASSUME NEW s \in Sessions, NEW op, NEW r, NEW to, NEW then, NEW stage, NEW row,
             Put(s, NewSession(op, r, to, then, stage, row)), UNCHANGED <<task, unstamped>>,
             s \in Workers => op = "dispatch",
             op = "move" /\ then => LeadMoves(task.status, to)
      PROVE  SerialInv'
  <2>1. /\ session'[s].taskRow = task /\ session'[s].op = op
        /\ session'[s].then = then /\ session'[s].to = to
        /\ \A t \in Sessions \ {s} : session'[t] = session[t]
    BY <1>3, PutSession DEF NewSession
  <2> QED BY <1>2, <1>3, <2>1 DEF Serial
<1>4. ASSUME NEW s \in Sessions, Close(s), UNCHANGED <<task, unstamped>> PROVE SerialInv'
  <2>1. session'[s] = None /\ \A t \in Sessions \ {s} : session'[t] = session[t]
    BY <1>4, ClosedSession
  <2> QED BY <1>2, <1>4, <2>1 DEF Serial
<1>5. ASSUME NEW s \in Sessions, session[s] # None, NEW stage \in Stages, NEW row \in RunRow,
             NEW auto \in BOOLEAN, Advance(s, stage, row, auto), UNCHANGED <<task, unstamped>>
      PROVE  SerialInv'
  <2>1. /\ session'[s].taskRow = session[s].taskRow /\ session'[s].op = session[s].op
        /\ session'[s].then = session[s].then /\ session'[s].to = session[s].to
        /\ \A t \in Sessions \ {s} : session'[t] = session[t]
    BY <1>5, AdvancedSession
  <2> QED BY <1>2, <1>5, <2>1 DEF Serial, SerialInv
<1>6. ASSUME NEW s \in Sessions, session[s] # None, session[s].op # "dispatch",
             NEW new \in TaskRow, Close(s),
             task' = MergeTask(task, session[s].taskRow, new),
             NewTask(new, session[s], unstamped, unstamped')
      PROVE  SerialInv'
  <2>1. s \in Requests /\ s \notin Workers /\ session[s].taskRow = task
    BY <1>6 DEF SerialInv, Serial, Sessions
  <2>2. task' = new
    BY <1>1, <1>6, <2>1, MergeIntoLoaded
  <2>3. InProgressStamped'
    BY <1>1, <1>6, <2>1, <2>2, NewTaskStamped DEF SerialInv, InProgressStamped, StampedTask
  <2>4. session'[s] = None /\ \A t \in Sessions \ {s} : session'[t] = session[t]
    BY <1>6, ClosedSession
  <2>5. \A t \in Sessions \ {s} : t \in Workers
    BY <2>1 DEF OneRequest, Sessions
  <2> QED BY <2>3, <2>4, <2>5 DEF SerialInv, Serial
<1>7. ASSUME NEW s \in Requests, RequestBegins(s) PROVE SerialInv'
  <2>1. s \in Sessions /\ s \notin Workers
    BY ConstantsAssumption DEF Sessions, ConstantsAssumption
  <2>2. ASSUME NEW to \in Moves, NEW lead \in BOOLEAN, BeginMove(s, to, lead) PROVE SerialInv'
    BY <1>3, <2>1, <2>2 DEF BeginMove, Open, db, hist
  <2>3. ASSUME NEW op, NEW r, NEW to, NEW then, op # "move", BeginOperator(s, op, r, to, then)
        PROVE  SerialInv'
    BY <1>3, <2>1, <2>3 DEF BeginOperator, Open, db, hist
  <2>4. ASSUME AssigneeDeleted(s) PROVE SerialInv'
    <3>1. \A t \in Sessions : session[t] # None => t \in Workers
      BY <2>1, <2>4 DEF AssigneeDeleted, OneRequest, Sessions
    <3> QED BY <2>4, <3>1 DEF AssigneeDeleted, hist, SerialInv, InProgressStamped, Serial
  <2> QED BY <1>3, <1>7, <2>1, <2>2, <2>3, <2>4
      DEF RequestBegins, BeginCreate, BeginCallback, BeginDispatch, Open, db, hist
<1>8. ASSUME NEW s \in Sessions, LoadRun(s) PROVE SerialInv'
  <2>1. session[s] # None /\ session[s].run \in Runs /\ "loaded" \in Stages
    BY <1>8, SessionFields DEF LoadRun, At, GoodSession, Stages
  <2> QED BY <1>1, <1>4, <1>5, <1>8, <2>1 DEF LoadRun, db, hist
<1>9. ASSUME NEW s \in Sessions, Decide(s) \/ CheckEscalate(s) \/ DispatchAccepted(s)
      PROVE  SerialInv'
  <2>1. session[s] # None /\ session[s].runRow \in RunRow /\ {"ready", "accepted"} \subseteq Stages
    BY <1>9, SessionFields DEF Decide, CheckEscalate, DispatchAccepted, At, Stages
  <2> QED BY <1>4, <1>5, <1>9, <2>1 DEF Decide, CheckEscalate, DispatchAccepted, db, hist
<1>10. ASSUME NEW s \in Sessions, CommitUpdate(s) PROVE SerialInv'
  <2>1. session[s] # None /\ session[s].op # "dispatch" /\ session[s].to \in RunStatuses
    BY <1>10, SessionFields DEF CommitUpdate, At, GoodSession
  <2>2. CallbackTask(session[s].to) \in TaskRow
    BY <2>1, NewRowTypes
  <2>3. CASE session[s].auto
    <3>1. NewTask(CallbackTask(session[s].to), session[s], unstamped, unstamped')
      BY <1>10, <2>1, <2>3 DEF CommitUpdate, NewTask
    <3> QED BY <1>6, <1>10, <2>1, <2>2, <2>3, <3>1 DEF CommitUpdate
  <2>4. CASE ~session[s].auto
    BY <1>4, <1>10, <2>4 DEF CommitUpdate
  <2> QED BY <2>3, <2>4
<1>11. ASSUME NEW s \in Sessions, CommitEscalate(s) PROVE SerialInv'
  <2>1. session[s] # None /\ session[s].op # "dispatch" /\ EscalatedTask(session[s].taskRow) \in TaskRow
    BY <1>11, SessionFields, NewRowTypes DEF CommitEscalate, At
  <2>2. NewTask(EscalatedTask(session[s].taskRow), session[s], unstamped, unstamped')
    BY <1>11 DEF CommitEscalate, hist, NewTask
  <2> QED BY <1>6, <1>11, <2>1, <2>2 DEF CommitEscalate
<1>12. ASSUME NEW s \in Sessions, CommitMove(s) PROVE SerialInv'
  <2> DEFINE new == MovedTask(session[s].taskRow, session[s].to, session[s].then)
  <2>1. /\ session[s] # None /\ session[s].op = "move" /\ session[s].taskRow \in TaskRow
        /\ session[s].to \in TaskStatuses /\ session[s].then \in BOOLEAN
    BY <1>12, SessionFields DEF CommitMove, At, GoodSession
  <2>2. new \in TaskRow
    BY <2>1, NewRowTypes
  <2>3. session[s].then => LeadMoves(session[s].taskRow.status, session[s].to)
    BY <2>1 DEF SerialInv, Serial
  <2>4. NewTask(new, session[s], unstamped, unstamped')
    BY <1>12, <2>1, <2>3 DEF CommitMove, NewTask
  <2>5. Close(s) /\ task' = MergeTask(task, session[s].taskRow, new)
    BY <1>12 DEF CommitMove
  <2> HIDE DEF new
  <2> QED BY <1>6, <2>1, <2>2, <2>4, <2>5
<1>13. ASSUME NEW s \in Sessions, NEW r \in Runs, CommitCreate(s, r) PROVE SerialInv'
  BY <1>3, <1>4, <1>13 DEF CommitCreate
<1>14. ASSUME NEW s \in Sessions, NEW r, StartDispatch(s, r), UNCHANGED <<task, unstamped>> PROVE SerialInv'
  BY <1>3, <1>4, <1>14 DEF StartDispatch
<1>15. ASSUME NEW s \in Sessions, EnqueueFails(s) \/ \E r \in Runs : s \in Workers /\ TakeMessage(s, r)
       PROVE  SerialInv'
  BY <1>14, <1>15 DEF EnqueueFails, TakeMessage, db, hist
<1>16. ASSUME NEW s \in Sessions,
              \/ RejectCreate(s) \/ Enqueue(s) \/ CommitDispatch(s)
              \/ DispatchRejected(s) \/ DispatchReplyLost(s)
       PROVE  SerialInv'
  BY <1>4, <1>16
  DEF RejectCreate, Enqueue, CommitDispatch, DispatchRejected, DispatchReplyLost, DispatchRaises, db, hist
<1>17. CASE ResolveApproval \/ UNCHANGED vars
  BY <1>17 DEF ResolveApproval, vars, hist, SerialInv, InProgressStamped, Serial
<1>18. Workers \subseteq Sessions
  BY DEF Sessions
<1> QED
  BY <1>7, <1>8, <1>9, <1>10, <1>11, <1>12, <1>13, <1>15, <1>16, <1>17, <1>18
  DEF Next, SessionStep

(* As long as one request is served at a time, in_progress_at is clear in   *)
(* the inbox and in review, and set while the task is in progress exactly   *)
(* when the last start was not a creation or a lead's, whatever order       *)
(* updates, callbacks, escalations, moves and deletions of the assignee     *)
(* come in and whatever any number of workers dispatches meanwhile.         *)
THEOREM StampFollowsTask ==
    ASSUME OneRequest PROVE Spec => []InProgressStamped
<1>1. Init => TypeOK /\ SerialInv
  BY InitType DEF Init, SerialInv, InProgressStamped, Serial
<1>2. TypeOK /\ SerialInv /\ [Next]_vars => (TypeOK /\ SerialInv)'
  BY NextType, NextSerial
<1>3. SerialInv => InProgressStamped
  BY DEF SerialInv
<1> QED BY <1>1, <1>2, <1>3, PTL DEF Spec

=============================================================================
