--------------------------- MODULE AgentLifecycle ---------------------------
(***************************************************************************)
(* The lifecycle of one agent: provisioning and update runs                *)
(* (services/openclaw/lifecycle_orchestrator.py), the reconciliation that  *)
(* follows a wake (lifecycle_reconcile.py, lifecycle_queue.py), and the    *)
(* agent's check-ins (commit_heartbeat, _touch_agent_presence).            *)
(*                                                                         *)
(* A run locks the agent row, calls the gateway, commits, and queues a     *)
(* message for the check-in deadline that carries the row's generation.    *)
(* The worker that takes the message wakes the agent again, or gives it up *)
(* as offline.  SELECT ... FOR UPDATE waits for the lock but returns the   *)
(* object the session has already loaded, so a run computes from the row   *)
(* it read before it waited; a commit writes the columns that changed.     *)
(*                                                                         *)
(* Timestamps are counted in wakes: clock is the number of wake times      *)
(* taken, last_seen_at and last_wake_sent_at are values of it.  The queue  *)
(* is a set of messages (module WorkQueue); a deadline is ahead or passed. *)
(***************************************************************************)
EXTENDS Naturals

CONSTANTS
    Requests,      \* API requests that run a lifecycle
    Agents,        \* requests of the agent itself, one session each
    Workers,       \* queue workers
    None,          \* a closed session, a free lock
    MaxWakes,      \* MAX_WAKE_ATTEMPTS_WITHOUT_CHECKIN
    MaxRetries,    \* settings.rq_dispatch_max_retries
    RunKinds,      \* bound: runs asked for by operators, with a wake or without
    MaxRuns,       \* bound: how many of them
    MaxCheckins,   \* bound: check-ins of the agent
    FaultKinds,    \* bound: which faults happen
    MaxFaults      \* bound: how many of them

ASSUME ConstantsAssumption ==
    /\ MaxWakes \in Nat \ {0} /\ MaxRetries \in Nat
    /\ MaxRuns \in Nat /\ MaxCheckins \in Nat /\ MaxFaults \in Nat
    /\ RunKinds \subseteq {"wake", "sync"}
    /\ FaultKinds \subseteq {"gateway", "redis", "crash", "redelivery"}
    /\ Requests \cap Agents = {} /\ Requests \cap Workers = {} /\ Agents \cap Workers = {}
    /\ None \notin Requests \cup Agents \cup Workers

VARIABLES
    agent,     \* the committed Agent row
    lock,      \* the session that holds the row FOR UPDATE
    session,   \* what each open session has loaded and is doing
    messages,  \* reconcile messages in the queue
    clock,     \* wake times taken so far
    dropped,   \* generations whose message the worker dropped at the retry cap
    rewakes,   \* history: wakes by the worker since an operator or a check-in
    budget     \* runs, check-ins and faults used up

vars == <<agent, lock, session, messages, clock, dropped, rewakes, budget>>

Sessions  == Requests \cup Agents \cup Workers
Statuses  == {"provisioning", "updating", "online", "offline"}
Deadlines == {"none", "ahead", "passed"}

(* seen and woken stand for last_seen_at and last_wake_sent_at; seen is 0   *)
(* and woken is 1 before the first of each.                                 *)
Row == [status : Statuses, generation : Nat, wakes : Nat, seen : Nat, woken : Nat,
        deadline : Deadlines]

(* What a session keeps of the row it loaded; owes: the deadline is set. *)
Loaded == [status : Statuses, generation : Nat, wakes : Nat, owes : BOOLEAN]

Message == [generation : Nat, attempts : 0..MaxRetries, ripe : BOOLEAN]

Kinds == {"wake", "sync", "reconcile", "heartbeat", "touch"}

(* row: what was loaded; at: the time a run took for its wake or a check-in *)
(* for last_seen_at; message: what a worker has popped.                     *)
Session == [kind : Kinds, stage : {"lock", "gateway", "enqueue", "offline", "commit"},
            row : Loaded, at : Nat, message : Message \cup {None}]

ASSUME NoneAssumption == None \notin Session

TypeOK ==
    /\ agent \in Row
    /\ lock \in Sessions \cup {None}
    /\ session \in [Sessions -> Session \cup {None}]
    /\ \A s \in Sessions : session[s] # None =>
         /\ session[s].stage = "gateway" <=> lock = s
         /\ session[s].kind = "reconcile" <=> s \in Workers
         /\ s \in Workers => session[s].message \in Message
    /\ lock # None => session[lock] # None
    /\ messages \subseteq Message
    /\ clock \in Nat /\ dropped \subseteq Nat /\ rewakes \in Nat
    /\ budget \in [runs : 0..MaxRuns, checkins : 0..MaxCheckins, faults : 0..MaxFaults]

Init ==
    /\ agent = [status |-> "provisioning", generation |-> 0, wakes |-> 0,
                seen |-> 0, woken |-> 1, deadline |-> "none"]
    /\ lock = None
    /\ session = [s \in Sessions |-> None]
    /\ messages = {} /\ dropped = {}
    /\ clock = 1 /\ rewakes = 0
    /\ budget = [runs |-> 0, checkins |-> 0, faults |-> 0]

-----------------------------------------------------------------------------
At(s, stage) == session[s] # None /\ session[s].stage = stage

Put(s, v) == session' = [session EXCEPT ![s] = v]

Load == [status |-> agent.status, generation |-> agent.generation, wakes |-> agent.wakes,
         owes |-> agent.deadline # "none"]

Open(kind, stage, at, message) ==
    [kind |-> kind, stage |-> stage, row |-> Load, at |-> at, message |-> message]

Use(what, max) == budget[what] < max /\ budget' = [budget EXCEPT ![what] = @ + 1]

Fault(kind) == kind \in FaultKinds /\ Use("faults", MaxFaults)

CheckedIn(row) == row.seen >= row.woken  \* _has_checked_in_since_wake

Wakes(s) == session[s].kind \in {"wake", "reconcile"}

-----------------------------------------------------------------------------
(* Check-ins.  One session: the row is loaded by the token lookup, changed, *)
(* and written by the commit, which waits for the row lock.                 *)

BeginCheckin(s, kind) ==
    /\ session[s] = None
    /\ Use("checkins", MaxCheckins)
    /\ Put(s, Open(kind, "commit", clock, None))
    /\ UNCHANGED <<agent, lock, messages, clock, dropped, rewakes>>

(* What the request makes of the loaded status: a touch leaves an update    *)
(* alone; a heartbeat may name a status, or follow a touch that was made    *)
(* too recently to be repeated.                                             *)
CheckinStatuses(s) ==
    LET old == session[s].row.status IN
    IF session[s].kind = "touch" THEN {IF old = "updating" THEN old ELSE "online"}
    ELSE {"online", IF old = "provisioning" THEN "online" ELSE old}

CommitCheckin(s, new) ==
    LET row == session[s].row
        beat == session[s].kind = "heartbeat"
    IN /\ At(s, "commit") /\ lock = None
       /\ new \in CheckinStatuses(s)
       /\ agent' = [agent EXCEPT
            !.status = IF new # row.status THEN new ELSE @,
            !.seen = session[s].at,
            !.wakes = IF beat /\ row.wakes # 0 THEN 0 ELSE @,
            !.deadline = IF beat /\ row.owes THEN "none" ELSE @]
       /\ Put(s, None)
       /\ rewakes' = 0
       /\ UNCHANGED <<lock, messages, clock, dropped, budget>>

-----------------------------------------------------------------------------
(* run_lifecycle, called by a request or, through the reconcile handler, by *)
(* a worker.                                                                *)

(* update_agent, ensure_board_lead_agent, provision_main_agent_record with  *)
(* a wake; the template synchronisation without one.                        *)
BeginRun(s, kind) ==
    /\ session[s] = None
    /\ Use("runs", MaxRuns)
    /\ Put(s, Open(kind, "lock", 0, None))
    /\ UNCHANGED <<agent, lock, messages, clock, dropped, rewakes>>

LockAgentAtOnce(s) ==  \* mutant: the row is read without FOR UPDATE
    /\ At(s, "lock")
    /\ lock' = s
    /\ clock' = IF Wakes(s) THEN clock + 1 ELSE clock
    /\ Put(s, [session[s] EXCEPT !.stage = "gateway", !.at = IF Wakes(s) THEN clock + 1 ELSE @])
    /\ UNCHANGED <<agent, messages, dropped, rewakes, budget>>

(* _lock_agent, the assignments up to the flush: the wake time is taken     *)
(* while the lock is held, the row keeps what was loaded before.            *)
LockAgent(s) ==
    /\ At(s, "lock") /\ lock = None
    /\ lock' = s
    /\ clock' = IF Wakes(s) THEN clock + 1 ELSE clock
    /\ Put(s, [session[s] EXCEPT !.stage = "gateway", !.at = IF Wakes(s) THEN clock + 1 ELSE @])
    /\ UNCHANGED <<agent, messages, dropped, rewakes, budget>>

(* The row a run commits: generation and wake_attempts count from the       *)
(* loaded row.                                                              *)
Stamped(s, status) ==
    LET row == session[s].row IN
    [status     |-> status,
     generation |-> row.generation + 1,
     wakes      |-> IF Wakes(s) THEN row.wakes + 1 ELSE agent.wakes,
     seen       |-> agent.seen,
     woken      |-> IF Wakes(s) THEN session[s].at ELSE agent.woken,
     deadline   |-> IF Wakes(s) THEN "ahead" ELSE IF row.owes THEN "none" ELSE agent.deadline]

Count(s) == rewakes' = IF session[s].kind = "reconcile" THEN rewakes + 1 ELSE 0

(* apply_agent_lifecycle returns: commit as online. *)
GatewayApplies(s) ==
    /\ At(s, "gateway")
    /\ agent' = Stamped(s, "online")
    /\ lock' = None
    /\ Count(s)
    /\ Put(s, IF Wakes(s) THEN [session[s] EXCEPT !.stage = "enqueue"] ELSE None)
    /\ UNCHANGED <<messages, clock, dropped, budget>>

(* refresh, then enqueue_lifecycle_reconcile with what the row says now. *)
EnqueueReconcile(s) ==
    /\ At(s, "enqueue")
    /\ messages' = IF agent.deadline = "none" THEN messages
                   ELSE messages \cup {[generation |-> agent.generation, attempts |-> 0,
                                        ripe |-> FALSE]}
    /\ Put(s, None)
    /\ UNCHANGED <<agent, lock, clock, dropped, rewakes, budget>>

RequeuedNever(m) == UNCHANGED <<messages, dropped>>  \* mutant: a failed message is forgotten

(* requeue_lifecycle_queue_task, for a handler that raised. *)
Requeued(m) ==
    IF m.attempts < MaxRetries
    THEN /\ messages' = messages \cup {[generation |-> m.generation, ripe |-> FALSE,
                                        attempts |-> m.attempts + 1]}
         /\ UNCHANGED dropped
    ELSE dropped' = dropped \cup {m.generation} /\ UNCHANGED messages

(* mark_provision_requested. *)
Requested(s) == IF session[s].kind = "wake" THEN {"provisioning", "updating"} ELSE {"updating"}

(* The gateway raises: the run is committed as it stands and reported; no   *)
(* message is queued for it, and a worker retries the one it had.           *)
GatewayFails(s) ==
    /\ At(s, "gateway")
    /\ Fault("gateway")
    /\ \E new \in Requested(s) :
          agent' = Stamped(s, IF new # session[s].row.status THEN new ELSE agent.status)
    /\ lock' = None
    /\ Count(s)
    /\ IF s \in Workers THEN Requeued(session[s].message) ELSE UNCHANGED <<messages, dropped>>
    /\ Put(s, None)
    /\ UNCHANGED clock

(* Redis refuses the message (the result is not looked at), or the time     *)
(* limit or a crash ends the run after its commit.                          *)
EnqueueFails(s) ==
    /\ At(s, "enqueue")
    /\ Fault("redis")
    /\ Put(s, None)
    /\ UNCHANGED <<agent, lock, messages, clock, dropped, rewakes>>

-----------------------------------------------------------------------------
(* process_lifecycle_queue_task. *)

(* The agent is still in the lifecycle run the message is about, and silent. *)
Stuck(m) == m.generation = agent.generation /\ ~CheckedIn(agent)

ExhaustedLate == agent.wakes > MaxWakes  \* mutant: one wake more than the limit

Exhausted == agent.wakes >= MaxWakes

(* The early returns, the deferral, and the choice between another wake and *)
(* giving up, all from one read of the row.  The payload's deadline, used   *)
(* when the row has none, has passed when the message arrives.              *)
TakeMessage(w, m) ==
    /\ session[w] = None
    /\ m \in messages /\ m.ripe
    /\ \/ ~Stuck(m) /\ messages' = messages \ {m} /\ UNCHANGED session
       \/ /\ Stuck(m) /\ agent.deadline = "ahead"
          /\ messages' = (messages \ {m}) \cup {[m EXCEPT !.ripe = FALSE]}
          /\ UNCHANGED session
       \/ /\ Stuck(m) /\ agent.deadline # "ahead"
          /\ messages' = messages \ {m}
          /\ Put(w, Open("reconcile", IF Exhausted THEN "offline" ELSE "lock", 0, m))
    /\ UNCHANGED <<agent, lock, clock, dropped, rewakes, budget>>

GiveUpLater(w) ==  \* mutant: the message is put back, the row is not written
    /\ At(w, "offline") /\ lock = None
    /\ messages' = messages \cup {session[w].message}
    /\ Put(w, None)
    /\ UNCHANGED <<agent, lock, clock, dropped, rewakes, budget>>

(* Maximum wake attempts reached. *)
GiveUp(w) ==
    /\ At(w, "offline") /\ lock = None
    /\ agent' = [agent EXCEPT
         !.status = IF session[w].row.status # "offline" THEN "offline" ELSE @,
         !.deadline = IF session[w].row.owes THEN "none" ELSE @]
    /\ Put(w, None)
    /\ UNCHANGED <<lock, messages, clock, dropped, rewakes, budget>>

(* asyncio.wait_for: the transaction of the run is rolled back, be it still *)
(* waiting for the lock or for the gateway, which may have woken the agent. *)
Timeout(w) ==
    /\ At(w, "lock") \/ At(w, "gateway")
    /\ Requeued(session[w].message)
    /\ lock' = IF lock = w THEN None ELSE lock
    /\ Put(w, None)
    /\ UNCHANGED <<agent, clock, rewakes, budget>>

(* A process dies with its transaction, and a worker with the message it    *)
(* popped; a run that finds no owner to render for ends in the same way.    *)
Crash(s) ==
    /\ session[s] # None
    /\ Fault("crash")
    /\ lock' = IF lock = s THEN None ELSE lock
    /\ Put(s, None)
    /\ UNCHANGED <<agent, messages, clock, dropped, rewakes>>

(* A queue that delivers at least once keeps a copy (module WorkQueue). *)
Redeliver(w) ==
    /\ session[w] # None
    /\ Fault("redelivery")
    /\ messages' = messages \cup {session[w].message}
    /\ UNCHANGED <<agent, lock, session, clock, dropped, rewakes>>

-----------------------------------------------------------------------------
(* Time. *)

DeadlinePasses ==
    /\ agent.deadline = "ahead"
    /\ agent' = [agent EXCEPT !.deadline = "passed"]
    /\ UNCHANGED <<lock, session, messages, clock, dropped, rewakes, budget>>

Ripen(m) ==
    /\ m \in messages /\ ~m.ripe
    /\ messages' = (messages \ {m}) \cup {[m EXCEPT !.ripe = TRUE]}
    /\ UNCHANGED <<agent, lock, session, clock, dropped, rewakes, budget>>

-----------------------------------------------------------------------------
RunStep(s) == LockAgent(s) \/ GatewayApplies(s) \/ EnqueueReconcile(s)

WorkerStep(w) == GiveUp(w) \/ \E m \in messages : TakeMessage(w, m)

Next ==
    \/ \E s \in Agents :
        \/ \E kind \in {"heartbeat", "touch"} : BeginCheckin(s, kind)
        \/ \E new \in Statuses : CommitCheckin(s, new)
    \/ \E s \in Requests : \E kind \in RunKinds : BeginRun(s, kind)
    \/ \E s \in Requests \cup Workers : RunStep(s) \/ GatewayFails(s) \/ EnqueueFails(s)
    \/ \E w \in Workers : WorkerStep(w) \/ Timeout(w) \/ Redeliver(w)
    \/ \E s \in Sessions : Crash(s)
    \/ DeadlinePasses
    \/ \E m \in messages : Ripen(m)

Spec == Init /\ [][Next]_vars

(* Gateway calls return or raise, PostgreSQL queues the waiters of a row    *)
(* lock, the worker loop goes on, and time passes.                          *)
Fairness ==
    /\ \A s \in Requests \cup Workers : SF_vars(RunStep(s))
    /\ \A w \in Workers : SF_vars(WorkerStep(w))
    /\ \A s \in Agents : SF_vars(\E new \in Statuses : CommitCheckin(s, new))
    /\ WF_vars(DeadlinePasses)
    /\ WF_vars(\E m \in messages : Ripen(m))

FairSpec == Spec /\ Fairness

-----------------------------------------------------------------------------
(* Properties. *)

(* Somebody will look at the agent again: a message of its generation is    *)
(* queued or in a worker's hands, or a run is about to queue one.           *)
WatchedBy(s) ==
    \/ At(s, "enqueue")
    \/ session[s] # None /\ session[s].kind = "reconcile"
          /\ session[s].message.generation = agent.generation

(* Safety, as long as every run wakes, nothing fails and the agent makes    *)
(* one request at a time: an agent that owes a check-in is watched,         *)
(* although every run moves the generation and makes the messages before it *)
(* stale, and a timed-out reconcile rolls its run back.                     *)
Watched ==
    agent.deadline # "none" /\ ~CheckedIn(agent) =>
        \/ \E m \in messages : m.generation = agent.generation
        \/ \E s \in Sessions : WatchedBy(s)
        \/ agent.generation \in dropped

(* Safety, one worker: whatever messages are retried, redelivered or stale, *)
(* and whatever stale rows operators and check-ins write meanwhile, the     *)
(* worker records at most MaxWakes wakes in a row.                          *)
WakeLimit == rewakes <= MaxWakes

(* Liveness: once a message watches the agent, the agent checks in, or is   *)
(* declared offline, or its cycle is ended by a heartbeat or a run without  *)
(* a wake ("If still no heartbeat after 3 attempts: agent status becomes    *)
(* offline"), unless the message is dropped at the retry cap.               *)
Converges ==
    (\E m \in messages : m.generation = agent.generation) ~>
        (CheckedIn(agent) \/ agent.deadline = "none" \/ agent.generation \in dropped)

=============================================================================
