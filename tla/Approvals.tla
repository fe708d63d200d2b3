------------------------------ MODULE Approvals ------------------------------
(***************************************************************************)
(* Approvals of a board (backend/app/api/approvals.py and                  *)
(* services/approval_task_links.py).  An approval is linked to a set of    *)
(* tasks; the API keeps at most one pending approval per task by locking   *)
(* the task rows (SELECT ... FOR UPDATE, in id order) before it looks for  *)
(* a conflict.  Each HTTP request is a transaction of its own; PostgreSQL  *)
(* (READ COMMITTED) is the shared state.  Inserting a row that references  *)
(* a task takes a FOR KEY SHARE lock on that task, which waits for a       *)
(* FOR UPDATE of another transaction.                                      *)
(*                                                                         *)
(* TaskExecutionRunService.escalate_run also creates a pending approval    *)
(* but takes no lock: SpecApi is the approvals API alone, Spec is the      *)
(* whole system.                                                           *)
(***************************************************************************)
EXTENDS Naturals, FiniteSets

CONSTANTS
    Tasks,      \* task ids; their order is the ORDER BY of the lock query
    Ids,        \* approval ids
    Requests,   \* requests that may be in flight at the same time
    None        \* no lock owner, no request

ASSUME ConstantsAssumption ==
    /\ Tasks \subseteq Nat /\ IsFiniteSet(Tasks)
    /\ None \notin Requests

VARIABLES
    status,     \* status of each approval row, "absent" before the insert
    links,      \* approval_task_links of each approval
    owner,      \* which request holds FOR UPDATE on each task row
    sharers,    \* which requests hold FOR KEY SHARE on each task row
    phase,      \* how far each request is
    req,        \* what each request loaded and was asked to do
    unannounced \* history: approvals a PATCH resolved and the board lead was
                \* not yet notified of, in their present status

rows  == <<status, links>>
locks == <<owner, sharers>>
vars  == <<status, links, owner, sharers, phase, req, unannounced>>

Statuses == {"pending", "approved", "rejected"}
Resolved == {"approved", "rejected"}
Phases   == {"idle", "lock", "check", "insert", "write", "refresh"}
Request  == [op : {"create", "update", "escalate"}, app : Ids, tasks : SUBSET Tasks,
             target : Statuses, prior : Statuses \cup {"absent"}]

TypeOK ==
    /\ status \in [Ids -> Statuses \cup {"absent"}]
    /\ links \in [Ids -> SUBSET Tasks]
    /\ owner \in [Tasks -> Requests \cup {None}]
    /\ sharers \in [Tasks -> SUBSET Requests]
    /\ phase \in [Requests -> Phases]
    /\ req \in [Requests -> Request \cup {None}]
    /\ \A q \in Requests : phase[q] # "idle" => req[q] \in Request
    /\ unannounced \subseteq Ids

Init ==
    /\ status = [a \in Ids |-> "absent"]
    /\ links = [a \in Ids |-> {}]
    /\ owner = [t \in Tasks |-> None]
    /\ sharers = [t \in Tasks |-> {}]
    /\ phase = [q \in Requests |-> "idle"]
    /\ req = [q \in Requests |-> None]
    /\ unannounced = {}

(* pending_approval_conflicts_by_task: a pending approval other than the     *)
(* excluded one is linked to one of the tasks.  A created row is not there   *)
(* yet, so excluding the request's own id is right for every operation.      *)
PendingConflict(ts, excluded) ==
    \E a \in Ids \ {excluded} : status[a] = "pending" /\ links[a] \cap ts # {}

(* COMMIT or ROLLBACK releases every row lock of the transaction. *)
Release(q) ==
    /\ owner' = [t \in Tasks |-> IF owner[t] = q THEN None ELSE owner[t]]
    /\ sharers' = [t \in Tasks |-> sharers[t] \ {q}]

Goto(q, stage) == phase' = [phase EXCEPT ![q] = stage]

RespondOnly(q) == UNCHANGED phase /\ req' = [req EXCEPT ![q] = None]  \* mutant

(* The response is sent and the request forgotten. *)
Respond(q) == Goto(q, "idle") /\ req' = [req EXCEPT ![q] = None]

(* A uuid4 no row and no request in flight uses. *)
Fresh(a) == /\ status[a] = "absent"
            /\ \A q \in Requests : phase[q] # "idle" => req[q].app # a

Receive(q, op, a, ts, s, loaded, stage) ==
    /\ phase[q] = "idle"
    /\ req' = [req EXCEPT ![q] = [op |-> op, app |-> a, tasks |-> ts,
                                  target |-> s, prior |-> loaded]]
    /\ Goto(q, stage)
    /\ UNCHANGED <<rows, locks, unannounced>>

-----------------------------------------------------------------------------
(* create_approval: only a pending approval is checked, and only for the    *)
(* tasks it names.                                                          *)
BeginCreate(q, a, ts, s) ==
    /\ Fresh(a)
    /\ Receive(q, "create", a, ts, s, "absent",
               IF s = "pending" /\ ts # {} THEN "lock" ELSE "insert")

UpdateAlwaysWrites(q, a, s) ==  \* mutant: a PATCH to "pending" skips the check
    /\ status[a] # "absent"
    /\ Receive(q, "update", a, links[a], s, status[a], "write")

(* update_approval loads the row; a PATCH that reopens a resolved approval  *)
(* goes through the conflict check, every other status does not.            *)
BeginUpdate(q, a, s) ==
    /\ status[a] # "absent"
    /\ Receive(q, "update", a, links[a], s, status[a],
               IF s = "pending" /\ status[a] # "pending" /\ links[a] # {}
               THEN "lock" ELSE "write")

(* escalate_run: the conflict query without the locks; a conflict is an     *)
(* error response that changes nothing.                                     *)
BeginEscalate(q, a, t) ==
    /\ Fresh(a)
    /\ ~PendingConflict({t}, a)
    /\ Receive(q, "escalate", a, {t}, "pending", "absent", "insert")

LockTaskAnyOrder(q, t) ==  \* mutant: ORDER BY dropped from the lock query
    /\ phase[q] = "lock"
    /\ t \in req[q].tasks /\ owner[t] = None /\ sharers[t] \subseteq {q}
    /\ owner' = [owner EXCEPT ![t] = q]
    /\ Goto(q, IF \A u \in req[q].tasks \ {t} : owner[u] = q THEN "check" ELSE "lock")
    /\ UNCHANGED <<rows, sharers, req, unannounced>>

(* lock_tasks_for_approval: one row at a time, in id order. *)
LockTask(q, t) ==
    /\ phase[q] = "lock"
    /\ t \in req[q].tasks /\ owner[t] = None /\ sharers[t] \subseteq {q}
    /\ \A u \in req[q].tasks : u < t => owner[u] = q
    /\ owner' = [owner EXCEPT ![t] = q]
    /\ Goto(q, IF \A u \in req[q].tasks \ {t} : owner[u] = q THEN "check" ELSE "lock")
    /\ UNCHANGED <<rows, sharers, req, unannounced>>

(* _ensure_no_pending_approval_conflicts, once the locks are held. *)
CheckPasses(q) ==
    /\ phase[q] = "check"
    /\ ~PendingConflict(req[q].tasks, req[q].app)
    /\ Goto(q, IF req[q].op = "update" THEN "write" ELSE "insert")
    /\ UNCHANGED <<rows, locks, req, unannounced>>

(* 409: the request ends and its session rolls back. *)
CheckConflicts(q) ==
    /\ phase[q] = "check"
    /\ PendingConflict(req[q].tasks, req[q].app)
    /\ Respond(q)
    /\ Release(q)
    /\ UNCHANGED <<rows, unannounced>>

(* The foreign-key lock of one inserted reference to a task; the rows are   *)
(* inserted in the order of the payload, which is any order.                *)
InsertLink(q, t) ==
    /\ phase[q] = "insert"
    /\ t \in req[q].tasks
    /\ q \notin sharers[t]
    /\ owner[t] \in {None, q}
    /\ sharers' = [sharers EXCEPT ![t] = @ \cup {q}]
    /\ UNCHANGED <<rows, owner, phase, req, unannounced>>

(* replace_approval_task_links and the commit of an insert. *)
CommitInsert(q) ==
    /\ phase[q] = "insert"
    /\ \A t \in req[q].tasks : q \in sharers[t]
    /\ status' = [status EXCEPT ![req[q].app] = req[q].target]
    /\ links' = [links EXCEPT ![req[q].app] = req[q].tasks]
    /\ Respond(q)
    /\ Release(q)
    /\ UNCHANGED <<unannounced>>

(* The status column is written, and with it the duty to notify the lead. *)
WriteStatus(a, s) ==
    /\ status' = [status EXCEPT ![a] = s]
    /\ unannounced' = IF s \in Resolved THEN unannounced \cup {a} ELSE unannounced \ {a}

(* The UPDATE names only the columns that differ from the loaded row: a     *)
(* PATCH to the status it loaded writes no status.                          *)
CommitUpdate(q) ==
    /\ phase[q] = "write"
    /\ IF req[q].target = req[q].prior
       THEN UNCHANGED <<status, unannounced>>
       ELSE WriteStatus(req[q].app, req[q].target)
    /\ Goto(q, "refresh")
    /\ Release(q)
    /\ UNCHANGED <<links, req>>

NotifyOfPending(q) ==  \* mutant: only an approval that was pending is announced
    /\ phase[q] = "refresh"
    /\ IF status[req[q].app] \in Resolved /\ req[q].prior = "pending"
       THEN unannounced' = unannounced \ {req[q].app}
       ELSE UNCHANGED unannounced
    /\ Respond(q)
    /\ UNCHANGED <<rows, locks>>

NotifyAwaitsOwn(q) ==  \* mutant: polls the row until it shows the status it wrote
    /\ phase[q] = "refresh"
    /\ IF status[req[q].app] = req[q].target
       THEN unannounced' = unannounced \ {req[q].app} /\ Respond(q)
       ELSE UNCHANGED <<unannounced, phase, req>>
    /\ UNCHANGED <<rows, locks>>

(* refresh, then _notify_lead_on_approval_resolution when the status in the *)
(* row is a resolution and is not the one the request first loaded.         *)
Notify(q) ==
    /\ phase[q] = "refresh"
    /\ IF status[req[q].app] \in Resolved \ {req[q].prior}
       THEN unannounced' = unannounced \ {req[q].app}
       ELSE UNCHANGED unannounced
    /\ Respond(q)
    /\ UNCHANGED <<rows, locks>>

(* Before its commit a request may fail (database error, deadlock victim,   *)
(* process death): its transaction rolls back.                              *)
Abort(q) ==
    /\ phase[q] \in {"lock", "check", "insert", "write"}
    /\ Respond(q)
    /\ Release(q)
    /\ UNCHANGED <<rows, unannounced>>

-----------------------------------------------------------------------------
Progress(q) ==
    \/ \E t \in Tasks : LockTask(q, t) \/ InsertLink(q, t)
    \/ CheckPasses(q) \/ CheckConflicts(q)
    \/ CommitInsert(q) \/ CommitUpdate(q) \/ Notify(q)

NextApi ==
    \E q \in Requests :
        \/ \E a \in Ids, ts \in SUBSET Tasks, s \in Statuses : BeginCreate(q, a, ts, s)
        \/ \E a \in Ids, s \in Statuses : BeginUpdate(q, a, s)
        \/ Progress(q)
        \/ Abort(q)

Escalation == \E q \in Requests, a \in Ids, t \in Tasks : BeginEscalate(q, a, t)

Next == NextApi \/ Escalation

SpecApi == Init /\ [][NextApi]_vars
Spec    == Init /\ [][Next]_vars

(* q waits for a row lock that r holds. *)
Waits(q, r) ==
    /\ q # r
    /\ \E t \in req[q].tasks :
        \/ phase[q] = "lock" /\ owner[t] # q /\ (owner[t] = r \/ r \in sharers[t])
              /\ \A u \in req[q].tasks : u < t => owner[u] = q
        \/ phase[q] = "insert" /\ q \notin sharers[t] /\ owner[t] = r

(* A set of requests each of which waits for another of them. *)
Deadlocked(qs) == \A q \in qs : \E r \in qs : phase[q] # "idle" /\ Waits(q, r)

(* PostgreSQL aborts a member of a deadlock, and queues the waiters of a    *)
(* row lock, so that a lock that is freed again and again is granted.       *)
Fairness ==
    \A q \in Requests :
        /\ SF_vars(Progress(q))
        /\ WF_vars(Abort(q) /\ \E qs \in SUBSET Requests : q \in qs /\ Deadlocked(qs))

FairSpec == Spec /\ Fairness

-----------------------------------------------------------------------------
(* Properties. *)

(* Safety: a task has at most one pending approval, whatever creations and  *)
(* reopenings overlap ("Each task can have only one pending approval.").    *)
OnePending ==
    \A a, b \in Ids :
        status[a] = "pending" /\ status[b] = "pending" /\ links[a] \cap links[b] # {}
        => a = b

(* Safety: the status a PATCH left on a resolved approval is passed to the  *)
(* lead notification before the last request for it ends, although each     *)
(* request decides from a row it re-reads after its commit: a request that  *)
(* is about to notify and will find a status it had not loaded exists.      *)
FinalStatusAnnounced ==
    \A a \in unannounced : \E q \in Requests :
        phase[q] = "refresh" /\ req[q].app = a /\ req[q].prior # status[a]

(* Safety: locking the tasks in id order keeps requests that lock out of    *)
(* deadlocks among themselves; one takes a creation that skips the lock and *)
(* takes foreign-key locks on several tasks in the order of its payload.    *)
OrderedLocks ==
    \A qs \in (SUBSET Requests) \ {{}} : Deadlocked(qs) =>
        \E q \in qs : /\ phase[q] = "insert" /\ req[q].target # "pending"
                      /\ \E t, u \in req[q].tasks : t # u

(* Liveness: every request is answered, whoever it waits for. *)
RequestsFinish == \A q \in Requests : (phase[q] # "idle") ~> (phase[q] = "idle")

=============================================================================
