------------------------------ MODULE WorkQueue ------------------------------
(***************************************************************************)
(* The Redis-backed background queue (backend/app/services/queue.py) and   *)
(* the worker loop that consumes it (queue_worker.py).                     *)
(*                                                                         *)
(* Redis holds a list (LPUSH at one end, RPOP at the other) and a sorted   *)
(* set of delayed envelopes whose score is the time they become due.  A    *)
(* worker moves due envelopes to the list with three separate commands     *)
(* (ZRANGEBYSCORE, LPUSH, ZREM), pops one envelope, runs its handler, and  *)
(* on an exception puts the envelope back with one more attempt, up to a   *)
(* cap.  Scores are abstracted to "waiting" and "due"; an envelope is its  *)
(* payload (job), its attempts counter and its created_at (stamp).         *)
(***************************************************************************)
EXTENDS Naturals, Sequences

CONSTANTS
    Jobs,          \* payloads producers may enqueue, each once
    Workers,       \* worker processes consuming the queue
    Kind,          \* Kind[j]: what _decode_task and _TASK_HANDLERS make of j
    MaxRetries,    \* settings.rq_dispatch_max_retries
    BatchSize,     \* _DRY_RUN_BATCH_SIZE, the most envelopes one drain moves
    RetryDelayed,  \* whether the retry delay is positive
    MaxDefers,     \* bound: reconcile deferrals explored
    None,          \* no envelope in a worker's hands
    MaxFaults      \* bound: crashes and Redis/database errors explored

Kinds == {"task", "timed", "legacy", "garbage"}

ASSUME ConstantsAssumption ==
    /\ Kind \in [Jobs -> Kinds]
    /\ MaxRetries \in Nat
    /\ BatchSize \in Nat \ {0}
    /\ RetryDelayed \in BOOLEAN
    /\ MaxDefers \in Nat
    /\ MaxFaults \in Nat

VARIABLES
    queue,    \* the Redis list, next envelope to pop first
    waiting,  \* members of the sorted set whose score is in the future
    due,      \* members of the sorted set whose score has passed
    pc,       \* where each worker is in flush_queue / dequeue_task
    batch,    \* the ready_items a worker read and has not finished moving
    held,     \* the envelope a worker has popped
    offered,  \* jobs a producer has called enqueue for
    fate,     \* history: how copies of each job left the queue
    runs,     \* history: handler executions of each job
    stamps,   \* created_at values minted by deferrals
    faults    \* faults injected so far

redis   == <<queue, waiting, due>>
workers == <<pc, batch, held>>
history == <<fate, runs>>
vars    == <<queue, waiting, due, pc, batch, held, offered, fate, runs, stamps, faults>>

(* QueuedTask: the part of the JSON envelope that tells two apart. *)
QueuedTask == [job : Jobs, attempts : 0..MaxRetries, stamp : 0..MaxDefers]

(* The envelopes whose created_at has been handed out so far. *)
Minted == [job : Jobs, attempts : 0..MaxRetries, stamp : 0..stamps]

Fates == {"done", "dropped", "unhandled", "undecodable", "lost", "rejected"}

Stages == {"drain", "push", "remove", "pop", "handle", "recording", "failed",
           "requeue", "dead"}

(* Stages at which a worker has an envelope that is in no Redis structure. *)
Busy == {"handle", "recording", "failed", "requeue"}

Elements(s) == {s[i] : i \in 1..Len(s)}

Scheduled == waiting \cup due

RequeueSameAttempt(t) == t  \* mutant: the counter is not incremented

(* _requeue_with_attempt *)
RequeueWithAttempt(t) == [job |-> t.job, attempts |-> t.attempts + 1, stamp |-> t.stamp]

Settle(j, f) == fate' = [fate EXCEPT ![j] = @ \cup {f}]

Goto(w, stage) == pc' = [pc EXCEPT ![w] = stage]

Fault == faults < MaxFaults /\ faults' = faults + 1

(* Types; in particular no copy carries more attempts than the cap, and a   *)
(* worker past its pop always has an envelope to settle or put back.        *)
TypeOK ==
    /\ queue \in Seq(Minted)
    /\ waiting \subseteq Minted /\ due \subseteq Minted
    /\ pc \in [Workers -> Stages]
    /\ batch \in [Workers -> Seq(Minted)]
    /\ held \in [Workers -> Minted \cup {None}]
    /\ \A w \in Workers : pc[w] \in Busy => held[w] \in Minted
    /\ offered \subseteq Jobs
    /\ fate \in [Jobs -> SUBSET Fates]
    /\ runs \in [Jobs -> Nat]
    /\ stamps \in 0..MaxDefers
    /\ faults \in 0..MaxFaults

Init ==
    /\ queue = <<>> /\ waiting = {} /\ due = {}
    /\ pc = [w \in Workers |-> "drain"]
    /\ batch = [w \in Workers |-> <<>>]
    /\ held = [w \in Workers |-> None]
    /\ offered = {}
    /\ fate = [j \in Jobs |-> {}]
    /\ runs = [j \in Jobs |-> 0]
    /\ stamps = 0
    /\ faults = 0

-----------------------------------------------------------------------------
(* Producers. *)

NewTask(j) == [job |-> j, attempts |-> 0, stamp |-> 0]

(* _schedule_for_later: ZADD, which moves an existing member to the new score. *)
ScheduleForLater(t) == waiting' = waiting \cup {t} /\ due' = due \ {t}

(* enqueue_task, and enqueue_task_with_delay for the delayed kind. *)
EnqueueTask(j) ==
    /\ j \notin offered
    /\ offered' = offered \cup {j}
    /\ \/ Kind[j] = "timed" /\ ScheduleForLater(NewTask(j)) /\ UNCHANGED queue
       \/ Kind[j] # "timed" /\ queue' = Append(queue, NewTask(j)) /\ UNCHANGED <<waiting, due>>
    /\ UNCHANGED <<workers, history, stamps, faults>>

(* The Redis command raises: both producers log and return False. *)
EnqueueFails(j) ==
    /\ j \notin offered
    /\ Fault
    /\ offered' = offered \cup {j}
    /\ Settle(j, "rejected")
    /\ UNCHANGED <<redis, workers, runs, stamps>>

(* Time passes the score of one delayed envelope. *)
Ripen(t) ==
    /\ t \in waiting
    /\ waiting' = waiting \ {t}
    /\ due' = due \cup {t}
    /\ UNCHANGED <<queue, workers, offered, history, stamps, faults>>

-----------------------------------------------------------------------------
(* _drain_ready_scheduled_tasks, one action per Redis command. *)

DrainReadRemovesFirst(w) ==  \* mutant: ZREM before LPUSH
    /\ pc[w] = "drain"
    /\ \E n \in 0..BatchSize : \E ready \in [1..n -> due] :
          /\ \A a, b \in 1..n : ready[a] = ready[b] => a = b
          /\ n < BatchSize => due = Elements(ready)
          /\ batch' = [batch EXCEPT ![w] = ready]
          /\ due' = due \ Elements(ready)
          /\ Goto(w, IF n = 0 THEN "pop" ELSE "push")
    /\ UNCHANGED <<queue, waiting, held, offered, history, stamps, faults>>

(* ZRANGEBYSCORE -inf..now LIMIT 0 max_items: the due members, lowest score  *)
(* first; scores are abstracted, so the order is any order.                  *)
DrainRead(w) ==
    /\ pc[w] = "drain"
    /\ \E n \in 0..BatchSize : \E ready \in [1..n -> due] :
          /\ \A a, b \in 1..n : ready[a] = ready[b] => a = b
          /\ n < BatchSize => due = Elements(ready)
          /\ batch' = [batch EXCEPT ![w] = ready]
          /\ Goto(w, IF n = 0 THEN "pop" ELSE "push")
    /\ UNCHANGED <<redis, held, offered, history, stamps, faults>>

(* LPUSH queue v1 v2 ...: v1 is the first of them to be popped. *)
DrainPush(w) ==
    /\ pc[w] = "push"
    /\ queue' = queue \o batch[w]
    /\ Goto(w, "remove")
    /\ UNCHANGED <<waiting, due, batch, held, offered, history, stamps, faults>>

DrainRemoveForgotten(w) ==  \* mutant: the moved members are never removed
    /\ pc[w] = "remove"
    /\ batch' = [batch EXCEPT ![w] = <<>>]
    /\ Goto(w, "pop")
    /\ UNCHANGED <<redis, held, offered, history, stamps, faults>>

(* ZREM removes the members whatever their score has become since. *)
DrainRemove(w) ==
    /\ pc[w] = "remove"
    /\ waiting' = waiting \ Elements(batch[w])
    /\ due' = due \ Elements(batch[w])
    /\ batch' = [batch EXCEPT ![w] = <<>>]
    /\ Goto(w, "pop")
    /\ UNCHANGED <<queue, held, offered, history, stamps, faults>>

-----------------------------------------------------------------------------
(* dequeue_task after the drain: BRPOP and _decode_task. *)

(* BRPOP times out; the second drain of dequeue_task, and then flush_queue's *)
(* next call, start from the sorted set again.                               *)
PopTimeout(w) ==
    /\ pc[w] = "pop"
    /\ queue = <<>>
    /\ Goto(w, "drain")
    /\ UNCHANGED <<redis, batch, held, offered, history, stamps, faults>>

PopTask(w) ==
    /\ pc[w] = "pop"
    /\ queue # <<>>
    /\ Kind[Head(queue).job] \in {"task", "timed"}
    /\ held' = [held EXCEPT ![w] = Head(queue)]
    /\ queue' = Tail(queue)
    /\ Goto(w, "handle")
    /\ UNCHANGED <<waiting, due, batch, offered, history, stamps, faults>>

PopPoison(w) ==  \* mutant: what cannot be handled goes back to the list
    /\ pc[w] = "pop"
    /\ queue # <<>>
    /\ Kind[Head(queue).job] \in {"garbage", "legacy"}
    /\ queue' = Append(Tail(queue), Head(queue))
    /\ Goto(w, "drain")
    /\ UNCHANGED <<waiting, due, batch, held, offered, fate, runs, stamps, faults>>

(* _decode_task raises (dequeue_failed), or no handler is registered for the *)
(* type ("legacy" included): the envelope is already gone from the list.     *)
PopDiscarded(w) ==
    /\ pc[w] = "pop"
    /\ queue # <<>>
    /\ \/ Kind[Head(queue).job] = "garbage" /\ Settle(Head(queue).job, "undecodable")
       \/ Kind[Head(queue).job] = "legacy" /\ Settle(Head(queue).job, "unhandled")
    /\ queue' = Tail(queue)
    /\ Goto(w, "drain")
    /\ UNCHANGED <<waiting, due, batch, held, offered, runs, stamps, faults>>

-----------------------------------------------------------------------------
(* flush_queue: the handler, its telemetry, and the retry. *)

Ran(w) == runs' = [runs EXCEPT ![held[w].job] = @ + 1]

HandleOk(w) ==
    /\ pc[w] = "handle"
    /\ Ran(w)
    /\ Settle(held[w].job, "done")
    /\ Goto(w, "recording")
    /\ UNCHANGED <<redis, batch, held, offered, stamps, faults>>

HandleFails(w) ==
    /\ pc[w] = "handle"
    /\ Ran(w)
    /\ Goto(w, "failed")
    /\ UNCHANGED <<redis, batch, held, offered, fate, stamps, faults>>

(* The envelope of defer_lifecycle_reconcile: same attempts, a fresh created_at. *)
Deferred(t, now) == [job |-> t.job, attempts |-> t.attempts, stamp |-> now]

(* process_lifecycle_queue_task before the deadline. *)
HandleDefers(w) ==
    /\ pc[w] = "handle"
    /\ Kind[held[w].job] = "timed"
    /\ stamps < MaxDefers
    /\ stamps' = stamps + 1
    /\ Ran(w)
    /\ ScheduleForLater(Deferred(held[w], stamps + 1))
    /\ Goto(w, "recording")
    /\ UNCHANGED <<queue, batch, held, offered, fate, faults>>

(* record_telemetry_activity commits; the loop sleeps and goes round again. *)
RecordSuccess(w) ==
    /\ pc[w] = "recording"
    /\ held' = [held EXCEPT ![w] = None]
    /\ Goto(w, "drain")
    /\ UNCHANGED <<redis, batch, offered, history, stamps, faults>>

(* The success telemetry is inside the try: a database error there sends a  *)
(* task that was handled down the retry path.                               *)
RecordSuccessFails(w) ==
    /\ pc[w] = "recording"
    /\ Fault
    /\ Goto(w, "failed")
    /\ UNCHANGED <<redis, batch, held, offered, history, stamps>>

RecordFailure(w) ==
    /\ pc[w] = "failed"
    /\ Goto(w, "requeue")
    /\ UNCHANGED <<redis, batch, held, offered, history, stamps, faults>>

(* The failure telemetry raises before the requeue: the exception leaves    *)
(* flush_queue for _run_worker_loop, and the popped task with it.           *)
RecordFailureFails(w) ==
    /\ pc[w] = "failed"
    /\ Fault
    /\ Settle(held[w].job, "lost")
    /\ held' = [held EXCEPT ![w] = None]
    /\ Goto(w, "drain")
    /\ UNCHANGED <<redis, batch, offered, runs, stamps>>

RequeueAtCap(w) ==  \* mutant: compares the old counter with the cap
    /\ pc[w] = "requeue"
    /\ LET t == RequeueWithAttempt(held[w]) IN
       /\ held[w].attempts <= MaxRetries
       /\ \/ RetryDelayed /\ ScheduleForLater(t) /\ UNCHANGED queue
          \/ ~RetryDelayed /\ queue' = Append(queue, t) /\ UNCHANGED <<waiting, due>>
    /\ held' = [held EXCEPT ![w] = None]
    /\ Goto(w, "drain")
    /\ UNCHANGED <<batch, offered, history, stamps, faults>>

(* requeue_if_failed below the cap: ZADD, or LPUSH when the delay is zero. *)
Requeue(w) ==
    /\ pc[w] = "requeue"
    /\ LET t == RequeueWithAttempt(held[w]) IN
       /\ t.attempts <= MaxRetries
       /\ \/ RetryDelayed /\ ScheduleForLater(t) /\ UNCHANGED queue
          \/ ~RetryDelayed /\ queue' = Append(queue, t) /\ UNCHANGED <<waiting, due>>
    /\ held' = [held EXCEPT ![w] = None]
    /\ Goto(w, "drain")
    /\ UNCHANGED <<batch, offered, history, stamps, faults>>

(* requeue_if_failed at the cap: drop_failed_task, then drop_task. *)
DropTask(w) ==
    /\ pc[w] = "requeue"
    /\ RequeueWithAttempt(held[w]).attempts > MaxRetries
    /\ Settle(held[w].job, "dropped")
    /\ held' = [held EXCEPT ![w] = None]
    /\ Goto(w, "drain")
    /\ UNCHANGED <<redis, batch, offered, runs, stamps, faults>>

(* Redis raises in requeue_if_failed: _schedule_for_later lets it escape to *)
(* _run_worker_loop, enqueue_task returns False and the task is dropped.    *)
RequeueFails(w) ==
    /\ pc[w] = "requeue"
    /\ Fault
    /\ RequeueWithAttempt(held[w]).attempts <= MaxRetries
    /\ Settle(held[w].job, IF RetryDelayed THEN "lost" ELSE "dropped")
    /\ held' = [held EXCEPT ![w] = None]
    /\ Goto(w, "drain")
    /\ UNCHANGED <<redis, batch, offered, runs, stamps>>

-----------------------------------------------------------------------------
(* Faults. *)

(* A Redis command of dequeue_task raises: flush_queue logs and continues.  *)
DequeueFails(w) ==
    /\ pc[w] \in {"drain", "push", "remove", "pop"}
    /\ Fault
    /\ batch' = [batch EXCEPT ![w] = <<>>]
    /\ Goto(w, "drain")
    /\ UNCHANGED <<redis, held, offered, history, stamps>>

(* BRPOP executes and its reply is lost with the connection. *)
PopReplyLost(w) ==
    /\ pc[w] = "pop"
    /\ queue # <<>>
    /\ Fault
    /\ Settle(Head(queue).job, "lost")
    /\ queue' = Tail(queue)
    /\ Goto(w, "drain")
    /\ UNCHANGED <<waiting, due, batch, held, offered, runs, stamps>>

(* The worker process dies anywhere; what it had popped dies with it. *)
Crash(w) ==
    /\ pc[w] # "dead"
    /\ Fault
    /\ IF pc[w] \in Busy THEN Settle(held[w].job, "lost") ELSE UNCHANGED fate
    /\ held' = [held EXCEPT ![w] = None]
    /\ batch' = [batch EXCEPT ![w] = <<>>]
    /\ Goto(w, "dead")
    /\ UNCHANGED <<redis, offered, runs, stamps>>

(* The supervisor (compose, systemd) starts the worker again. *)
Restart(w) ==
    /\ pc[w] = "dead"
    /\ Goto(w, "drain")
    /\ UNCHANGED <<redis, batch, held, offered, history, stamps, faults>>

-----------------------------------------------------------------------------
(* What the process does by itself, in the order of flush_queue. *)
WorkerStep(w) ==
    \/ DrainRead(w) \/ DrainPush(w) \/ DrainRemove(w)
    \/ PopTimeout(w) \/ PopTask(w) \/ PopDiscarded(w)
    \/ HandleOk(w) \/ HandleFails(w) \/ HandleDefers(w)
    \/ RecordSuccess(w) \/ RecordFailure(w)
    \/ Requeue(w) \/ DropTask(w)
    \/ Restart(w)

WorkerFault(w) ==
    \/ RecordSuccessFails(w) \/ RecordFailureFails(w) \/ RequeueFails(w)
    \/ DequeueFails(w) \/ PopReplyLost(w) \/ Crash(w)

Next ==
    \/ \E j \in Jobs : EnqueueTask(j) \/ EnqueueFails(j)
    \/ \E t \in waiting : Ripen(t)
    \/ \E w \in Workers : WorkerStep(w) \/ WorkerFault(w)

Spec == Init /\ [][Next]_vars

(* The worker loop never stops by itself, the supervisor restarts it, and   *)
(* time passes every score.                                                 *)
Fairness ==
    /\ \A w \in Workers : WF_vars(WorkerStep(w))
    /\ \A t \in QueuedTask : WF_vars(Ripen(t))

FairSpec == Spec /\ Fairness

-----------------------------------------------------------------------------
(* Properties. *)

(* A worker at one of these stages still answers for the task it popped. *)
InHand(w) == IF pc[w] \in {"handle", "failed", "requeue"} THEN {held[w]} ELSE {}

(* Copies no pending ZREM can take away: in the list or in a worker's hands. *)
Live == Elements(queue) \cup UNION {InHand(w) : w \in Workers}

(* Copies that outlive every ZREM some worker is about to send. *)
Sound == Live \cup {t \in Scheduled : \A w \in Workers :
                       pc[w] = "remove" => t \notin Elements(batch[w])}

(* Safety: an accepted job is always either on its way (in the list, in the *)
(* sorted set, or in a worker's hands) or accounted for by a fate the code  *)
(* reports.  A drain that a crash, a Redis error or another worker          *)
(* interrupts between its three commands never loses one.                   *)
NoSilentLoss ==
    \A j \in offered : fate[j] # {} \/ \E t \in Live \cup Scheduled : t.job = j

(* Safety: whatever a worker between its LPUSH and its ZREM is about to     *)
(* remove, a copy of that job with at least as many attempts survives the   *)
(* removal, or the job is settled.  (The retry's new attempts counter makes *)
(* the member a different one, so a late ZREM cannot take a retry with it.) *)
ZremBacked ==
    \A w \in Workers : pc[w] = "remove" =>
        \A e \in Elements(batch[w]) :
            fate[e.job] # {} \/ \E t \in Sound : t.job = e.job /\ t.attempts >= e.attempts

Copies(j) == {<<"list", i>> : i \in {k \in 1..Len(queue) : queue[k].job = j}}
             \cup {<<"set", t>> : t \in {u \in Scheduled : u.job = j}}
             \cup {<<"hand", w>> : w \in {v \in Workers : \E t \in InHand(v) : t.job = j}}

(* Safety, one worker, as long as nothing failed: outside the LPUSH/ZREM    *)
(* window there is at most one copy of a job anywhere, and none once it is  *)
(* done or dropped.                                                         *)
OneCopy ==
    faults = 0 /\ (\A w \in Workers : pc[w] # "remove") =>
        \A j \in Jobs : \A a, b \in Copies(j) : a = b /\ fate[j] = {}

(* Safety, one worker: a job without deferrals is handed to its handler at  *)
(* most MaxRetries + 1 times ("capped retries"), as long as nothing failed, *)
(* and whatever fails when retries go straight to the list.  (A drain that  *)
(* fails between LPUSH and ZREM leaves a delayed retry in the queue twice.) *)
RetryBudget ==
    faults = 0 \/ ~RetryDelayed =>
        \A j \in Jobs : Kind[j] # "timed" => runs[j] <= MaxRetries + 1

(* Liveness: every accepted job is eventually handled, or dropped for a     *)
(* reason the code reports, whatever a bounded number of faults does.       *)
EventuallySettled == \A j \in Jobs : (j \in offered) ~> (fate[j] # {})

=============================================================================
