---------------------------- MODULE ExecutionRuns ----------------------------
(***************************************************************************)
(* Execution runs of one task (services/task_execution_runs.py, its API    *)
(* endpoints, the Symphony callback endpoint and the dispatch worker).     *)
(*                                                                         *)
(* Every request and every queue message is served in a database session   *)
(* of its own: rows are loaded, decided upon, changed in memory, and       *)
(* written by the final commit, which names only the columns that differ   *)
(* from what was loaded.  No row is locked, so sessions interleave between *)
(* their loads and their commits; the dispatch session also waits for an   *)
(* HTTP call in between.  Timestamps are abstracted to whether they are    *)
(* set; the queue to the number of dispatch messages per run.              *)
(***************************************************************************)
EXTENDS Naturals

CONSTANTS
    Runs,         \* ids of the runs of the task
    Requests,     \* API sessions that may be open at the same time
    Workers,      \* queue workers, one session each
    None,         \* a closed session
    BlockOnPending,   \* board.block_status_changes_with_pending_approval
    LeadOnly,         \* board.only_lead_can_change_status
    CommentRequired,  \* board.comment_required_for_review
    RedisFails,   \* whether enqueue_task may fail
    Reports,      \* bound: statuses that PATCH and callbacks carry
    Created,      \* bound: statuses the task is created with
    Moves,        \* bound: statuses the task is given other than by its runs
    MaxMessages,  \* bound: dispatch messages in the queue, per run
    MaxLost       \* bound: bridge replies lost, per run

RunStatuses  == {"queued", "dispatching", "running", "succeeded", "failed",
                 "cancelled", "blocked"}
Finished     == {"succeeded", "failed", "cancelled", "blocked"}
Terminal     == {"failed", "cancelled", "blocked"}  \* retried, acknowledged, escalated
Dispatchable == {"queued", "blocked"}
TaskStatuses == {"inbox", "in_progress", "review", "done"}

ASSUME ConstantsAssumption ==
    /\ {BlockOnPending, LeadOnly, CommentRequired, RedisFails} \subseteq BOOLEAN
    /\ Reports \subseteq RunStatuses /\ Moves \cup Created \subseteq TaskStatuses
    /\ MaxMessages \in Nat /\ MaxLost \in Nat
    /\ Requests \cap Workers = {}

VARIABLES
    run,      \* TaskExecutionRun rows: status, started_at set, completed_at set
    task,     \* the Task row: status, in_progress_at set
    pending,  \* whether the task has a pending approval
    queued,   \* dispatch messages in the queue, per run
    session,  \* what each open session has loaded and is doing
    sent,     \* dispatches the bridge took since the run last was dispatchable
    lost,     \* of those, the ones whose reply did not arrive
    asked,    \* runs with a request to dispatch that is not answered yet
    failed,   \* runs whose dispatch ended in a reported failure
    unstamped \* the task was last put in progress by a step that stamps nothing

db   == <<run, task, pending>>
hist == <<sent, lost, asked, failed, unstamped>>
vars == <<run, task, pending, queued, session, sent, lost, asked, failed, unstamped>>

RunRow  == [status : RunStatuses \cup {"absent"}, started : BOOLEAN, completed : BOOLEAN]
TaskRow == [status : TaskStatuses, working : BOOLEAN]
Absent  == [status |-> "absent", started |-> FALSE, completed |-> FALSE]
NewRun  == [status |-> "queued", started |-> FALSE, completed |-> FALSE]

Sessions == Requests \cup Workers
Stages == {"task", "loaded", "ready", "enqueue", "call", "accepted"}
Ops == {"create", "retry", "update", "cancel", "escalate", "move", "dispatch"}

(* to: the status asked for; then: whether a created run is also dispatched, *)
(* whether a move is the board lead's; auto: what _can_auto_transition_task  *)
(* answered.                                                                 *)
Session == [op : Ops, run : Runs \cup {None}, to : RunStatuses \cup TaskStatuses, then : BOOLEAN,
            stage : Stages, taskRow : TaskRow, runRow : RunRow, auto : BOOLEAN]

ASSUME NoneAssumption == None \notin Session

TypeOK ==
    /\ run \in [Runs -> RunRow]
    /\ task \in TaskRow
    /\ pending \in BOOLEAN
    /\ queued \in [Runs -> 0..MaxMessages]
    /\ session \in [Sessions -> Session \cup {None}]
    /\ \A s \in Sessions : session[s] # None =>
         /\ session[s].op \in {"update", "cancel"} => session[s].to \in RunStatuses
         /\ session[s].op = "move" => session[s].to \in TaskStatuses
         /\ session[s].op \notin {"create", "move"} => session[s].run \in Runs
    /\ sent \in [Runs -> Nat] /\ lost \in [Runs -> 0..MaxLost]
    /\ asked \subseteq Runs /\ failed \subseteq Runs
    /\ unstamped \in BOOLEAN

(* create_task takes any status, and never a time the task is in progress since. *)
Init ==
    /\ run = [r \in Runs |-> Absent]
    /\ task \in [status : Created, working : {FALSE}]
    /\ pending = FALSE
    /\ queued = [r \in Runs |-> 0]
    /\ session = [s \in Sessions |-> None]
    /\ sent = [r \in Runs |-> 0] /\ lost = [r \in Runs |-> 0]
    /\ asked = {} /\ failed = {}
    /\ unstamped = (task.status = "in_progress")

-----------------------------------------------------------------------------
(* Sessions. *)

At(s, ops, stage) == session[s] # None /\ session[s].op \in ops /\ session[s].stage = stage

Close(s) == session' = [session EXCEPT ![s] = None]

NewSession(op, r, to, then, stage, runRow) ==
    [op |-> op, run |-> r, to |-> to, then |-> then, stage |-> stage,
     taskRow |-> task, runRow |-> runRow, auto |-> FALSE]

Put(s, v) == session' = [session EXCEPT ![s] = v]

Open(s, op, r, to, then, stage, runRow) ==
    session[s] = None /\ Put(s, NewSession(op, r, to, then, stage, runRow))

Advance(s, stage, row, auto) ==
    session' = [session EXCEPT ![s] = [@ EXCEPT !.stage = stage, !.runRow = row, !.auto = auto]]

(* What a flush writes: the columns that differ from the loaded row. *)
MergeRun(now, old, new) ==
    [status    |-> IF new.status # old.status THEN new.status ELSE now.status,
     started   |-> IF new.started # old.started THEN new.started ELSE now.started,
     completed |-> IF new.completed # old.completed THEN new.completed ELSE now.completed]

MergeTask(now, old, new) ==
    [status  |-> IF new.status # old.status THEN new.status ELSE now.status,
     working |-> IF new.working # old.working THEN new.working ELSE now.working]

WriteRun(s, new) ==
    LET r == session[s].run
        row == MergeRun(run[r], session[s].runRow, new)
    IN /\ run' = [run EXCEPT ![r] = row]
       /\ IF row.status \in Dispatchable /\ row.status # run[r].status
          THEN sent' = [sent EXCEPT ![r] = 0] /\ lost' = [lost EXCEPT ![r] = 0]
          ELSE UNCHANGED <<sent, lost>>

-----------------------------------------------------------------------------
(* Requests that load the task first (_get_board_and_task), then the run. *)

BeginCreate(s, then) ==
    /\ Open(s, "create", None, "queued", then, "loaded", Absent)
    /\ UNCHANGED <<db, queued, hist>>

BeginOperator(s, op, r, to, then) ==
    /\ Open(s, op, r, to, then, "task", Absent)
    /\ UNCHANGED <<db, queued, hist>>

(* The status guards of update_run, cancel_run, retry_run and escalate_run. *)
Permitted(op, status) ==
    \/ op = "update" /\ status # "absent"
    \/ op = "cancel" /\ status \notin {"absent", "succeeded", "failed", "cancelled"}
    \/ op \in {"retry", "escalate"} /\ status \in Terminal

LoadRun(s) ==
    /\ At(s, {"update", "cancel", "retry", "escalate"}, "task")
    /\ LET row == run[session[s].run] IN
       IF Permitted(session[s].op, row.status)
       THEN Advance(s, "loaded", row, FALSE)
       ELSE Close(s)
    /\ UNCHANGED <<db, queued, hist>>

(* The Symphony callback (update_run_by_id) loads run and task in one query; *)
(* the stub loop of the dispatch worker makes the same call.                 *)
BeginCallback(s, r, to) ==
    /\ run[r].status # "absent"
    /\ Open(s, "update", r, to, FALSE, "loaded", run[r])
    /\ UNCHANGED <<db, queued, hist>>

(* _lead_apply_status: a lead starts a task of the inbox by assigning it, and *)
(* ends a review.                                                             *)
LeadMoves(status, to) ==
    \/ status = "inbox" /\ to = "in_progress"
    \/ status = "review" /\ to \in {"done", "inbox"}

(* The task is moved by an administrator or an agent (_apply_admin_task_rules, *)
(* _apply_non_lead_agent_task_rules) or by the board lead; the gates in front  *)
(* of it are left open.  A dependency that is reopened moves it to the inbox   *)
(* like an administrator.                                                      *)
BeginMove(s, to, lead) ==
    /\ lead => LeadMoves(task.status, to)
    /\ Open(s, "move", None, to, lead, "ready", Absent)
    /\ UNCHANGED <<db, queued, hist>>

-----------------------------------------------------------------------------
(* create_run, and the clone of retry_run. *)

(* r is the id of the new run: a uuid4 no row has. *)
CommitCreate(s, r) ==
    /\ At(s, {"create", "retry"}, "loaded")
    /\ session[s].taskRow.status # "done"
    /\ run[r].status = "absent"
    /\ run' = [run EXCEPT ![r] = NewRun]
    /\ IF session[s].then
       THEN /\ Put(s, NewSession("dispatch", r, "dispatching", FALSE, "enqueue", Absent))
            /\ asked' = asked \cup {r}
       ELSE Close(s) /\ UNCHANGED asked
    /\ UNCHANGED <<task, pending, queued, sent, lost, failed, unstamped>>

(* "Done tasks cannot be dispatched to Symphony"; bound: no run id is left. *)
RejectCreate(s) ==
    /\ At(s, {"create", "retry"}, "loaded")
    /\ session[s].taskRow.status = "done" \/ \A r \in Runs : run[r].status # "absent"
    /\ Close(s)
    /\ UNCHANGED <<db, queued, hist>>

-----------------------------------------------------------------------------
(* update_run, for PATCH, callback and cancel. *)

(* _can_auto_transition_task, from the loaded task and the approvals of now. *)
CanAutoTransition(target, row) ==
    /\ ~LeadOnly
    /\ \/ target = "in_progress" /\ row.status = "inbox"
       \/ /\ target = "review" /\ row.status \in {"inbox", "in_progress"}
          /\ ~CommentRequired
          /\ ~(BlockOnPending /\ pending)

AutoTarget(to) == IF to = "running" THEN "in_progress" ELSE "review"

Decide(s) ==
    /\ At(s, {"update", "cancel"}, "loaded")
    /\ Advance(s, "ready", session[s].runRow,
               /\ session[s].to \in {"running", "succeeded"}
               /\ CanAutoTransition(AutoTarget(session[s].to), session[s].taskRow))
    /\ UNCHANGED <<db, queued, hist>>

UpdatedRunLate(row, to) ==  \* mutant: blocked is not counted as completed
    [status |-> to, started |-> row.started \/ to = "running",
     completed |-> row.completed \/ to \in Finished \ {"blocked"}]

UpdatedRun(row, to) ==
    [status |-> to, started |-> row.started \/ to = "running",
     completed |-> row.completed \/ to \in Finished]

(* _apply_callback_task_effects: running starts the task, success sends it  *)
(* to review.                                                               *)
CallbackTask(to) == [status |-> AutoTarget(to), working |-> to = "running"]

CommitUpdate(s) ==
    /\ At(s, {"update", "cancel"}, "ready")
    /\ WriteRun(s, UpdatedRun(session[s].runRow, session[s].to))
    /\ IF session[s].auto
       THEN /\ task' = MergeTask(task, session[s].taskRow, CallbackTask(session[s].to))
            /\ unstamped' = (unstamped /\ session[s].to # "running")
       ELSE UNCHANGED <<task, unstamped>>
    /\ Close(s)
    /\ UNCHANGED <<pending, queued, asked, failed>>

-----------------------------------------------------------------------------
(* escalate_run, and what happens to the task elsewhere. *)

(* The conflict query; a pending approval is an error response. *)
CheckEscalate(s) ==
    /\ At(s, {"escalate"}, "loaded")
    /\ IF pending THEN Close(s) ELSE Advance(s, "ready", session[s].runRow, FALSE)
    /\ UNCHANGED <<db, queued, hist>>

EscalatedTaskKeepsStamp(row) ==  \* mutant: in_progress_at is not cleared
    IF row.status \in {"inbox", "in_progress"}
    THEN [status |-> "review", working |-> row.working] ELSE row

EscalatedTask(row) ==
    IF row.status \in {"inbox", "in_progress"}
    THEN [status |-> "review", working |-> row.working /\ row.status # "in_progress"]
    ELSE row

CommitEscalate(s) ==
    /\ At(s, {"escalate"}, "ready")
    /\ pending' = TRUE
    /\ task' = MergeTask(task, session[s].taskRow, EscalatedTask(session[s].taskRow))
    /\ Close(s)
    /\ UNCHANGED <<run, queued, hist>>

(* The approvals API resolves the approval (module Approvals). *)
ResolveApproval ==
    /\ pending
    /\ pending' = FALSE
    /\ UNCHANGED <<run, task, queued, session, hist>>

(* The lead's start stamps nothing. *)
MovedTask(row, to, lead) ==
    [status |-> to, working |-> CASE to = "in_progress" -> row.working \/ ~lead
                                  [] to \in {"inbox", "review"} -> FALSE
                                  [] OTHER -> row.working]

CommitMove(s) ==
    /\ At(s, {"move"}, "ready")
    /\ task' = MergeTask(task, session[s].taskRow,
                         MovedTask(session[s].taskRow, session[s].to, session[s].then))
    /\ unstamped' = IF session[s].to = "in_progress" THEN session[s].then ELSE unstamped
    /\ Close(s)
    /\ UNCHANGED <<run, pending, queued, sent, lost, asked, failed>>

(* A request deletes the agent at work on the task: one UPDATE of its row. *)
AssigneeDeleted(s) ==
    /\ session[s] = None /\ "inbox" \in Moves /\ task.status = "in_progress"
    /\ task' = [status |-> "inbox", working |-> FALSE]
    /\ UNCHANGED <<run, pending, queued, session, hist>>

-----------------------------------------------------------------------------
(* Dispatch. *)

(* POST /{run_id}/dispatch of an existing run. *)
BeginDispatch(s, r) ==
    /\ run[r].status # "absent"
    /\ Open(s, "dispatch", r, "dispatching", FALSE, "enqueue", Absent)
    /\ asked' = asked \cup {r}
    /\ failed' = failed \ {r}
    /\ UNCHANGED <<db, queued, sent, lost, unstamped>>

(* _enqueue_or_dispatch_immediately. *)
Enqueue(s) ==
    /\ At(s, {"dispatch"}, "enqueue")
    /\ queued[session[s].run] < MaxMessages
    /\ queued' = [queued EXCEPT ![session[s].run] = @ + 1]
    /\ Close(s)
    /\ UNCHANGED <<db, hist>>

StartDispatch(s, r) ==
    IF run[r].status \in Dispatchable
    THEN Put(s, NewSession("dispatch", r, "dispatching", FALSE, "call", run[r]))
    ELSE Close(s)

(* The request is answered by a run that needs no dispatch. *)
Answered(r) == asked' = IF run[r].status \in Dispatchable THEN asked ELSE asked \ {r}

(* Redis is down: dispatch_run in the request itself. *)
EnqueueFails(s) ==
    /\ RedisFails
    /\ At(s, {"dispatch"}, "enqueue")
    /\ StartDispatch(s, session[s].run)
    /\ Answered(session[s].run)
    /\ UNCHANGED <<db, queued, sent, lost, failed, unstamped>>

TakeMessageOfEmpty(w, r) ==  \* mutant: BRPOP's timeout taken for a message
    /\ session[w] = None
    /\ queued' = [queued EXCEPT ![r] = @ - 1]
    /\ StartDispatch(w, r)
    /\ Answered(r)
    /\ UNCHANGED <<db, sent, lost, failed, unstamped>>

TakeMessageUnchecked(w, r) ==  \* mutant: dispatch_run without its status guard
    /\ session[w] = None
    /\ queued[r] > 0
    /\ queued' = [queued EXCEPT ![r] = @ - 1]
    /\ Open(w, "dispatch", r, "dispatching", FALSE, "call", run[r])
    /\ UNCHANGED <<db, hist>>

(* process_task_execution_dispatch_task up to the bridge call; a run that   *)
(* is no longer dispatchable is returned as it is.                          *)
TakeMessage(w, r) ==
    /\ session[w] = None
    /\ queued[r] > 0
    /\ queued' = [queued EXCEPT ![r] = @ - 1]
    /\ StartDispatch(w, r)
    /\ Answered(r)
    /\ UNCHANGED <<db, sent, lost, failed, unstamped>>

(* SymphonyDispatchAdapter.dispatch returns (the stub adapter always does). *)
DispatchAccepted(s) ==
    /\ At(s, {"dispatch"}, "call")
    /\ sent' = [sent EXCEPT ![session[s].run] = @ + 1]
    /\ Advance(s, "accepted", session[s].runRow, FALSE)
    /\ UNCHANGED <<db, queued, lost, asked, failed, unstamped>>

GiveUp(s) ==  \* mutant: an exception in the handler ends the message
    /\ Close(s)
    /\ UNCHANGED <<queued, failed>>

(* An exception leaves dispatch_run: the worker requeues the message or, at *)
(* the retry cap, drops it with an error; a request answers with the error. *)
DispatchRaises(s) ==
    LET r == session[s].run IN
    /\ Close(s)
    /\ \/ /\ s \in Workers /\ queued[r] < MaxMessages
          /\ queued' = [queued EXCEPT ![r] = @ + 1] /\ UNCHANGED failed
       \/ failed' = failed \cup {r} /\ UNCHANGED queued

DispatchRejected(s) ==
    /\ At(s, {"dispatch"}, "call")
    /\ DispatchRaises(s)
    /\ UNCHANGED <<db, sent, lost, asked, unstamped>>

(* The bridge took the request; the reply, or the commit after it, fails. *)
DispatchReplyLost(s) ==
    /\ At(s, {"dispatch"}, "call")
    /\ lost[session[s].run] < MaxLost
    /\ sent' = [sent EXCEPT ![session[s].run] = @ + 1]
    /\ lost' = [lost EXCEPT ![session[s].run] = @ + 1]
    /\ DispatchRaises(s)
    /\ UNCHANGED <<db, asked, unstamped>>

DispatchedRun(row) ==
    [status |-> "dispatching", started |-> TRUE, completed |-> row.completed]

CommitDispatch(s) ==
    /\ At(s, {"dispatch"}, "accepted")
    /\ WriteRun(s, DispatchedRun(session[s].runRow))
    /\ asked' = asked \ {session[s].run}
    /\ Close(s)
    /\ UNCHANGED <<task, pending, queued, failed, unstamped>>

-----------------------------------------------------------------------------
RequestBegins(s) ==
    \/ \E then \in BOOLEAN : BeginCreate(s, then)
    \/ \E to \in Moves, lead \in BOOLEAN : BeginMove(s, to, lead)
    \/ AssigneeDeleted(s)
    \/ \E r \in Runs :
        \/ \E then \in BOOLEAN : BeginOperator(s, "retry", r, "queued", then)
        \/ \E to \in Reports : BeginOperator(s, "update", r, to, FALSE) \/ BeginCallback(s, r, to)
        \/ BeginOperator(s, "cancel", r, "cancelled", FALSE)
        \/ BeginOperator(s, "escalate", r, "review", FALSE)
        \/ BeginDispatch(s, r)

(* Steps that finish what a session has begun. *)
SessionStep(s) ==
    \/ LoadRun(s) \/ Decide(s) \/ CommitUpdate(s)
    \/ RejectCreate(s) \/ \E r \in Runs : CommitCreate(s, r)
    \/ CheckEscalate(s) \/ CommitEscalate(s) \/ CommitMove(s)
    \/ Enqueue(s) \/ EnqueueFails(s)
    \/ DispatchAccepted(s) \/ DispatchRejected(s) \/ DispatchReplyLost(s) \/ CommitDispatch(s)

Next ==
    \/ \E s \in Requests : RequestBegins(s)
    \/ \E s \in Sessions : SessionStep(s)
    \/ \E w \in Workers, r \in Runs : TakeMessage(w, r)
    \/ ResolveApproval

Spec == Init /\ [][Next]_vars

-----------------------------------------------------------------------------
(* Properties. *)

(* Safety: whatever sessions overlap, a run that shows as running has a     *)
(* started_at and a run that shows as finished has a completed_at, although *)
(* each session writes only the columns it changed.                         *)
RunTimestamps ==
    \A r \in Runs :
        /\ run[r].status = "running" => run[r].started
        /\ run[r].status \in Finished => run[r].completed

(* Safety, one worker and Redis up: however often dispatch is asked for and *)
(* whatever the operator and the callbacks do meanwhile, the bridge gets a  *)
(* run once per time it becomes dispatchable, plus once per lost reply.     *)
DispatchOnce == \A r \in Runs : sent[r] <= 1 + lost[r]

(* Safety: a run that waits for a dispatch somebody asked for is in the     *)
(* queue or in a session's hands, or its dispatch was reported to have      *)
(* failed: the fallback, the requeue and the drop leave no gap.             *)
DispatchNotForgotten ==
    \A r \in asked :
        \/ queued[r] > 0 \/ r \in failed
        \/ \E s \in Sessions : /\ session[s] # None /\ session[s].run = r
                               /\ session[s].stage \in {"enqueue", "call", "accepted"}

(* Safety, one request at a time: a task in progress has an in_progress_at   *)
(* unless it was created in progress or its lead started it, whatever moves, *)
(* callbacks, escalations and returns to the inbox came before; in the inbox *)
(* and in review it has none.  (The cycle-time queries of api/metrics.py ask *)
(* for tasks in review that have one: there is none to be averaged but one   *)
(* that overlapping requests leave.)                                         *)
InProgressStamped ==
    /\ task.status = "in_progress" => task.working = ~unstamped
    /\ task.status \in {"inbox", "review"} => ~task.working

=============================================================================
