------------------------ MODULE AgentLifecycleProofs ------------------------
(* Proofs about AgentLifecycle: type correctness, the limit on the wakes    *)
(* that one worker records for an agent that stays silent, and the watch    *)
(* over an agent that owes a check-in.                                      *)
EXTENDS AgentLifecycle, TLAPS

(* The initial state is well typed. *)
LEMMA InitType == Init => TypeOK
  BY ConstantsAssumption DEF Init, TypeOK, Row, Statuses, Deadlines, ConstantsAssumption, Sessions

(* The fields of an open session. *)
LEMMA SessionFields ==
    ASSUME TypeOK, NEW s \in Sessions, session[s] # None
    PROVE  /\ session[s] \in Session
           /\ session[s].kind \in Kinds /\ session[s].at \in Nat
           /\ session[s].row.generation \in Nat /\ session[s].row.wakes \in Nat
           /\ session[s].row.status \in Statuses
  BY DEF TypeOK, Session, Loaded

(* A session that goes on to another stage. *)
LEMMA StageType ==
    ASSUME NEW v \in Session, NEW at \in Nat,
           NEW stage \in {"lock", "gateway", "enqueue", "offline", "commit"}
    PROVE  /\ [v EXCEPT !.stage = stage] \in Session
           /\ [v EXCEPT !.stage = stage, !.at = at] \in Session
           /\ [v EXCEPT !.stage = stage].stage = stage
           /\ [v EXCEPT !.stage = stage].kind = v.kind
           /\ [v EXCEPT !.stage = stage].message = v.message
           /\ [v EXCEPT !.stage = stage, !.at = at].stage = stage
           /\ [v EXCEPT !.stage = stage, !.at = at].kind = v.kind
           /\ [v EXCEPT !.stage = stage, !.at = at].message = v.message
  BY DEF Session

(* The row a run commits. *)
LEMMA StampedType ==
    ASSUME TypeOK, NEW s \in Sessions, session[s] # None, NEW new \in Statuses
    PROVE  Stamped(s, new) \in Row
  BY SessionFields DEF Stamped, TypeOK, Row, Statuses, Deadlines

(* The message a worker puts back after a failure. *)
LEMMA RequeuedType ==
    ASSUME TypeOK, NEW m \in Message, Requeued(m)
    PROVE  messages' \subseteq Message /\ dropped' \subseteq Nat
  <1>1. CASE m.attempts < MaxRetries
    <2> DEFINE n == [generation |-> m.generation, ripe |-> FALSE, attempts |-> m.attempts + 1]
    <2>1. n \in Message
      BY <1>1, ConstantsAssumption DEF Message, ConstantsAssumption
    <2>2. messages' = messages \cup {n} /\ dropped' = dropped
      BY <1>1 DEF Requeued
    <2> QED BY <2>1, <2>2 DEF TypeOK
  <1>2. CASE ~(m.attempts < MaxRetries)
    <2>1. m.generation \in Nat
      BY DEF Message
    <2>2. messages' = messages /\ dropped' = dropped \cup {m.generation}
      BY <1>2 DEF Requeued
    <2> QED BY <2>1, <2>2 DEF TypeOK
  <1> QED BY <1>1, <1>2

(* Every step keeps the types, and the lock with the session that is at the *)
(* gateway.                                                                 *)
LEMMA NextType == TypeOK /\ [Next]_vars => TypeOK'
  <1> SUFFICES ASSUME TypeOK, [Next]_vars PROVE TypeOK'
    OBVIOUS
  <1> USE ConstantsAssumption DEF ConstantsAssumption, TypeOK, Statuses, Deadlines, Kinds, Sessions
  <1>1. ASSUME NEW s \in Agents, NEW kind \in {"heartbeat", "touch"}, BeginCheckin(s, kind)
        PROVE  TypeOK'
    BY <1>1 DEF BeginCheckin, Use, Put, Open, Load, Row, Loaded, Session
  <1>2. ASSUME NEW s \in Agents, NEW new \in Statuses, CommitCheckin(s, new)
        PROVE  TypeOK'
    BY <1>2 DEF CommitCheckin, Put, At, Row, Loaded, Session
  <1>3. ASSUME NEW s \in Requests, NEW kind \in RunKinds, BeginRun(s, kind)
        PROVE  TypeOK'
    BY <1>3 DEF BeginRun, Use, Put, Open, Load, Row, Loaded, Session
  <1>4. ASSUME NEW s \in Requests \cup Workers, LockAgent(s)
        PROVE  TypeOK'
    <2>1. session[s] # None /\ session[s].stage = "lock" /\ lock = None
      BY <1>4 DEF LockAgent, At
    <2> DEFINE at == IF Wakes(s) THEN clock + 1 ELSE session[s].at
               v == [session[s] EXCEPT !.stage = "gateway", !.at = at]
    <2>2. session' = [session EXCEPT ![s] = v]
      BY <1>4 DEF LockAgent, Put
    <2>3. clock' \in Nat /\ lock' = s /\ at \in Nat /\ session[s] \in Session
      BY <1>4, <2>1, SessionFields DEF LockAgent
    <2>4. /\ v \in Session /\ v.stage = "gateway"
          /\ v.kind = session[s].kind /\ v.message = session[s].message
      <3> HIDE DEF at
      <3> QED BY <2>3 DEF Session
    <2>5. \A r \in Sessions \ {s} : session'[r] = session[r]
      BY <2>2
    <2>6. session'[s] = v
      BY <2>2
    <2> HIDE DEF v, at
    <2>7. session' \in [Sessions -> Session \cup {None}]
      BY <2>2, <2>4
    <2>8. ASSUME NEW r \in Sessions, session'[r] # None
          PROVE  /\ session'[r].stage = "gateway" <=> lock' = r
                 /\ session'[r].kind = "reconcile" <=> r \in Workers
                 /\ r \in Workers => session'[r].message \in Message
      BY <2>1, <2>3, <2>4, <2>5, <2>6, <2>8
    <2>9. session'[s] # None
      BY <2>4, <2>6, NoneAssumption DEF NoneAssumption
    <2>10. lock' \in Sessions \cup {None} /\ session'[lock'] # None
      BY <2>3, <2>9
    <2>11. /\ agent' = agent /\ messages' = messages /\ dropped' = dropped
           /\ rewakes' = rewakes /\ budget' = budget
      BY <1>4 DEF LockAgent
    <2> QED BY <2>3, <2>7, <2>8, <2>10, <2>11
  <1>5. ASSUME NEW s \in Requests \cup Workers, GatewayApplies(s)
        PROVE  TypeOK'
    <2>1. session[s] # None /\ session[s].stage = "gateway" /\ lock = s /\ lock' = None
      BY <1>5 DEF GatewayApplies, At
    <2>2. agent' \in Row
      BY <1>5, <2>1, StampedType DEF GatewayApplies
    <2>3. rewakes' \in Nat
      BY <1>5 DEF GatewayApplies, Count
    <2> DEFINE v == [session[s] EXCEPT !.stage = "enqueue"]
    <2>4. session' = [session EXCEPT ![s] = v] \/ session' = [session EXCEPT ![s] = None]
      BY <1>5 DEF GatewayApplies, Put
    <2>5. /\ v \in Session /\ v.stage = "enqueue"
          /\ v.kind = session[s].kind /\ v.message = session[s].message
      <3>1. session[s] \in Session
        BY <2>1, SessionFields
      <3> QED BY <3>1, StageType
    <2> HIDE DEF v
    <2>6. session' \in [Sessions -> Session \cup {None}]
      BY <2>4, <2>5
    <2>7. /\ \A r \in Sessions \ {s} : session'[r] = session[r]
          /\ session'[s] \in {v, None}
      BY <2>4
    <2>8. ASSUME NEW r \in Sessions, session'[r] # None
          PROVE  /\ session'[r].stage = "gateway" <=> lock' = r
                 /\ session'[r].kind = "reconcile" <=> r \in Workers
                 /\ r \in Workers => session'[r].message \in Message
      BY <2>1, <2>5, <2>7, <2>8
    <2> QED BY <1>5, <2>1, <2>2, <2>3, <2>6, <2>8 DEF GatewayApplies
  <1>6. ASSUME NEW s \in Requests \cup Workers, EnqueueReconcile(s)
        PROVE  TypeOK'
    <2>1. messages' \subseteq Message
      <3>1. [generation |-> agent.generation, attempts |-> 0, ripe |-> FALSE] \in Message
        BY DEF Row, Message
      <3> QED BY <1>6, <3>1 DEF EnqueueReconcile
    <2> QED BY <1>6, <2>1 DEF EnqueueReconcile, At, Put
  <1>7. ASSUME NEW s \in Requests \cup Workers, GatewayFails(s)
        PROVE  TypeOK'
    <2>1. session[s] # None /\ session[s].stage = "gateway" /\ lock = s /\ lock' = None
      BY <1>7 DEF GatewayFails, At
    <2>2. agent' \in Row
      <3>1. PICK new \in Requested(s) :
               agent' = Stamped(s, IF new # session[s].row.status THEN new ELSE agent.status)
        BY <1>7 DEF GatewayFails
      <3>2. (IF new # session[s].row.status THEN new ELSE agent.status) \in Statuses
        BY <3>1 DEF Requested, Row
      <3> QED BY <2>1, <3>1, <3>2, StampedType
    <2>3. rewakes' \in Nat
      BY <1>7 DEF GatewayFails, Count
    <2>4. session' = [session EXCEPT ![s] = None]
      BY <1>7 DEF GatewayFails, Put
    <2>5. messages' \subseteq Message /\ dropped' \subseteq Nat
      BY <1>7, <2>1, RequeuedType DEF GatewayFails
    <2>6. budget' \in [runs : 0..MaxRuns, checkins : 0..MaxCheckins, faults : 0..MaxFaults]
      BY <1>7 DEF GatewayFails, Fault, Use
    <2> QED BY <1>7, <2>1, <2>2, <2>3, <2>4, <2>5, <2>6 DEF GatewayFails
  <1>8. ASSUME NEW s \in Requests \cup Workers, EnqueueFails(s)
        PROVE  TypeOK'
    BY <1>8 DEF EnqueueFails, At, Put, Session, Fault, Use
  <1>9. ASSUME NEW w \in Workers, GiveUp(w)
        PROVE  TypeOK'
    BY <1>9 DEF GiveUp, At, Put, Session, Row, Loaded
  <1>10. ASSUME NEW w \in Workers, NEW m \in messages, TakeMessage(w, m)
         PROVE  TypeOK'
    <2>1. messages' \subseteq Message
      <3>1. m \in Message
        OBVIOUS
      <3>2. [m EXCEPT !.ripe = FALSE] \in Message
        BY <3>1 DEF Message
      <3>3. \/ messages' = messages \ {m}
            \/ messages' = (messages \ {m}) \cup {[m EXCEPT !.ripe = FALSE]}
        BY <1>10 DEF TakeMessage
      <3> DEFINE n == [m EXCEPT !.ripe = FALSE]
      <3> HIDE DEF n
      <3>4. n \in Message /\ (messages' = messages \ {m} \/ messages' = (messages \ {m}) \cup {n})
        BY <3>2, <3>3 DEF n
      <3> QED BY <3>4
    <2>2. \/ UNCHANGED session
          \/ \E stage \in {"offline", "lock"} :
               session' = [session EXCEPT ![w] = Open("reconcile", stage, 0, m)]
      BY <1>10 DEF TakeMessage, Put
    <2>3. \A stage \in {"offline", "lock"} :
            /\ Open("reconcile", stage, 0, m) \in Session
            /\ Open("reconcile", stage, 0, m).stage = stage
            /\ Open("reconcile", stage, 0, m).kind = "reconcile"
            /\ Open("reconcile", stage, 0, m).message = m
      BY DEF Open, Load, Row, Loaded, Session
    <2>4. lock # w
      BY <1>10 DEF TakeMessage
    <2> QED BY <1>10, <2>1, <2>2, <2>3, <2>4 DEF TakeMessage
  <1>11. ASSUME NEW w \in Workers, Timeout(w)
         PROVE  TypeOK'
    <2>1. messages' \subseteq Message /\ dropped' \subseteq Nat
      BY <1>11, RequeuedType DEF Timeout, At
    <2> QED BY <1>11, <2>1 DEF Timeout, At, Put
  <1>12. ASSUME NEW w \in Workers, Redeliver(w)
         PROVE  TypeOK'
    BY <1>12 DEF Redeliver, Fault, Use, Session, Message
  <1>13. ASSUME NEW s \in Sessions, Crash(s)
         PROVE  TypeOK'
    BY <1>13 DEF Crash, Fault, Use, Put, Session
  <1>14. ASSUME DeadlinePasses
         PROVE  TypeOK'
    BY <1>14 DEF DeadlinePasses, Row
  <1>15. ASSUME NEW m \in messages, Ripen(m)
         PROVE  TypeOK'
    BY <1>15 DEF Ripen, Message
  <1>16. CASE UNCHANGED vars
    BY <1>16 DEF vars
  <1> HIDE DEF TypeOK
  <1> QED BY <1>1, <1>2, <1>3, <1>4, <1>5, <1>6, <1>7, <1>8, <1>9, <1>10, <1>11, <1>12,
             <1>13, <1>14, <1>15, <1>16 DEF Next, RunStep, WorkerStep

(* The rows, sessions and messages of the lifecycle protocol are well       *)
(* typed, and exactly the session at the gateway holds the row lock.        *)
THEOREM TypeCorrect == Spec => []TypeOK
  BY InitType, NextType, PTL DEF Spec

(* The inductive invariant behind the limit: the wakes counted since an     *)
(* operator or a check-in never exceed wake_attempts, neither in the row    *)
(* nor in the copy of it that a worker is about to increment, and that copy *)
(* was found below the limit.                                               *)
Counted ==
    /\ rewakes <= MaxWakes
    /\ rewakes <= agent.wakes
    /\ \A w \in Workers : At(w, "lock") \/ At(w, "gateway") =>
          rewakes <= session[w].row.wakes /\ session[w].row.wakes < MaxWakes

(* There is one queue worker. *)
OneWorker == \A a, b \in Workers : a = b

(* What a worker's run adds is covered by the copy it loaded. *)
LEMMA CommitCounted ==
    ASSUME TypeOK, Counted, OneWorker, NEW s \in Requests \cup Workers, At(s, "gateway"),
           NEW new, agent' = Stamped(s, new), Count(s),
           \A r \in Sessions \ {s} : session'[r] = session[r],
           session'[s] = None \/ session'[s].stage = "enqueue"
    PROVE  Counted'
  <1>1. CASE s \in Workers
    <2>1. session[s].kind = "reconcile" /\ Wakes(s) /\ session[s].row.wakes \in Nat
      BY <1>1, SessionFields DEF TypeOK, At, Wakes, Sessions
    <2>2. rewakes' = rewakes + 1 /\ agent'.wakes = session[s].row.wakes + 1
      BY <2>1 DEF Count, Stamped
    <2>3. \A w \in Workers : ~(At(w, "lock") \/ At(w, "gateway"))'
      BY <1>1 DEF OneWorker, At
    <2>4. rewakes <= session[s].row.wakes /\ session[s].row.wakes < MaxWakes /\ rewakes \in Nat
      BY <1>1 DEF Counted, TypeOK
    <2> QED BY <2>1, <2>2, <2>3, <2>4, ConstantsAssumption DEF Counted, ConstantsAssumption
  <1>2. CASE s \in Requests
    <2>1. s \notin Workers /\ session[s].kind # "reconcile" /\ session[s] # None
      BY <1>2, ConstantsAssumption DEF ConstantsAssumption, At, Sessions, TypeOK
    <2>2. rewakes' = 0
      BY <2>1 DEF Count
    <2>3. agent'.wakes \in Nat
      BY <2>1, SessionFields DEF Stamped, TypeOK, Row, Sessions
    <2>4. ASSUME NEW w \in Workers, (At(w, "lock") \/ At(w, "gateway"))'
          PROVE  0 <= session'[w].row.wakes /\ session'[w].row.wakes < MaxWakes
      <3>1. session'[w] = session[w] /\ (At(w, "lock") \/ At(w, "gateway"))
        BY <2>1, <2>4 DEF At, Sessions
      <3>2. session[w].row.wakes \in Nat
        BY <3>1, SessionFields DEF At, Sessions
      <3> QED BY <3>1, <3>2 DEF Counted
    <2> QED BY <2>2, <2>3, <2>4, ConstantsAssumption DEF Counted, ConstantsAssumption
  <1> QED BY <1>1, <1>2

(* Every step keeps the count. *)
LEMMA NextCounted ==
    ASSUME OneWorker, TypeOK, Counted, [Next]_vars
    PROVE  Counted'
  <1> USE ConstantsAssumption DEF ConstantsAssumption
  <1>1. ASSUME NEW s \in Agents, NEW kind \in {"heartbeat", "touch"}, BeginCheckin(s, kind)
        PROVE  Counted'
    BY <1>1 DEF BeginCheckin, Put, Counted, At, TypeOK, Sessions
  <1>2. ASSUME NEW s \in Agents, NEW new \in Statuses, CommitCheckin(s, new)
        PROVE  Counted'
    <2>1. rewakes' = 0 /\ agent'.wakes \in Nat
      BY <1>2 DEF CommitCheckin, TypeOK, Row
    <2>2. \A w \in Workers : session'[w] = session[w]
      BY <1>2 DEF CommitCheckin, Put, TypeOK, Sessions
    <2>3. \A w \in Workers : session[w] # None => session[w].row.wakes \in Nat
      BY SessionFields DEF Sessions
    <2> QED BY <2>1, <2>2, <2>3 DEF Counted, At
  <1>3. ASSUME NEW s \in Requests, NEW kind \in RunKinds, BeginRun(s, kind)
        PROVE  Counted'
    BY <1>3 DEF BeginRun, Put, Counted, At, TypeOK, Sessions
  <1>4. ASSUME NEW s \in Requests \cup Workers, LockAgent(s)
        PROVE  Counted'
    <2>1. session[s] # None /\ session[s].stage = "lock" /\ session[s] \in Session
      BY <1>4, SessionFields DEF LockAgent, At, Sessions
    <2>2. session'[s].row = session[s].row
      BY <1>4, <2>1 DEF LockAgent, Put, Session, TypeOK, Sessions
    <2>3. \A w \in Workers \ {s} : session'[w] = session[w]
      BY <1>4 DEF LockAgent, Put, TypeOK, Sessions
    <2>4. rewakes' = rewakes /\ agent' = agent
      BY <1>4 DEF LockAgent
    <2> QED BY <2>1, <2>2, <2>3, <2>4 DEF Counted, At
  <1>5. ASSUME NEW s \in Requests \cup Workers, GatewayApplies(s)
        PROVE  Counted'
    <2>1. At(s, "gateway") /\ agent' = Stamped(s, "online") /\ Count(s)
      BY <1>5 DEF GatewayApplies
    <2>2. \A r \in Sessions \ {s} : session'[r] = session[r]
      BY <1>5 DEF GatewayApplies, Put, TypeOK
    <2>3. session'[s] = None \/ session'[s].stage = "enqueue"
      <3>1. session[s] \in Session
        BY <2>1, SessionFields DEF At, Sessions
      <3> QED BY <1>5, <3>1 DEF GatewayApplies, Put, TypeOK, Session, Sessions
    <2> QED BY <2>1, <2>2, <2>3, CommitCounted
  <1>6. ASSUME NEW s \in Requests \cup Workers, EnqueueReconcile(s)
        PROVE  Counted'
    BY <1>6 DEF EnqueueReconcile, Put, Counted, At, TypeOK, Sessions
  <1>7. ASSUME NEW s \in Requests \cup Workers, GatewayFails(s)
        PROVE  Counted'
    <2>1. PICK new : agent' = Stamped(s, new)
      BY <1>7 DEF GatewayFails
    <2>2. At(s, "gateway") /\ Count(s)
      BY <1>7 DEF GatewayFails
    <2>3. /\ \A r \in Sessions \ {s} : session'[r] = session[r]
          /\ session'[s] = None
      BY <1>7 DEF GatewayFails, Put, TypeOK, Sessions
    <2> QED BY <2>1, <2>2, <2>3, CommitCounted
  <1>8. ASSUME NEW s \in Requests \cup Workers, EnqueueFails(s)
        PROVE  Counted'
    BY <1>8 DEF EnqueueFails, Put, Counted, At, TypeOK, Sessions
  <1>9. ASSUME NEW w \in Workers, GiveUp(w)
        PROVE  Counted'
    BY <1>9 DEF GiveUp, Put, Counted, At, TypeOK, Sessions, Row
  <1>10. ASSUME NEW w \in Workers, NEW m \in messages, TakeMessage(w, m)
         PROVE  Counted'
    <2>1. rewakes' = rewakes /\ agent' = agent /\ agent.wakes \in Nat
      BY <1>10 DEF TakeMessage, TypeOK, Row
    <2>2. CASE UNCHANGED session
      BY <2>1, <2>2 DEF Counted, At
    <2>3. CASE Put(w, Open("reconcile", IF Exhausted THEN "offline" ELSE "lock", 0, m))
      <3>1. /\ \A r \in Workers \ {w} : session'[r] = session[r]
            /\ session'[w] = Open("reconcile", IF Exhausted THEN "offline" ELSE "lock", 0, m)
        BY <2>3 DEF Put, TypeOK, Sessions
      <3>2. session'[w].row.wakes = agent.wakes
        BY <3>1 DEF Open, Load
      <3>3. session'[w].stage = "lock" \/ session'[w].stage = "gateway" => agent.wakes < MaxWakes
        BY <2>1, <3>1 DEF Open, Exhausted
      <3> QED BY <2>1, <3>1, <3>2, <3>3 DEF Counted, At
    <2> QED BY <1>10, <2>2, <2>3 DEF TakeMessage
  <1>11. ASSUME NEW w \in Workers, Timeout(w)
         PROVE  Counted'
    BY <1>11 DEF Timeout, Put, Counted, At, TypeOK, Sessions
  <1>12. ASSUME NEW w \in Workers, Redeliver(w)
         PROVE  Counted'
    BY <1>12 DEF Redeliver, Counted, At
  <1>13. ASSUME NEW s \in Sessions, Crash(s)
         PROVE  Counted'
    BY <1>13 DEF Crash, Put, Counted, At, TypeOK, Sessions
  <1>14. ASSUME DeadlinePasses
         PROVE  Counted'
    BY <1>14 DEF DeadlinePasses, Counted, At, TypeOK, Row
  <1>15. ASSUME NEW m \in messages, Ripen(m)
         PROVE  Counted'
    BY <1>15 DEF Ripen, Counted, At
  <1>16. CASE UNCHANGED vars
    BY <1>16 DEF vars, Counted, At
  <1> QED BY <1>1, <1>2, <1>3, <1>4, <1>5, <1>6, <1>7, <1>8, <1>9, <1>10, <1>11, <1>12,
             <1>13, <1>14, <1>15, <1>16 DEF Next, RunStep, WorkerStep

(* With one queue worker, however many requests, check-ins and faults, the  *)
(* reconciler records at most MAX_WAKE_ATTEMPTS_WITHOUT_CHECKIN wakes of an *)
(* agent between two interventions of an operator or of the agent itself.   *)
THEOREM WakesAreLimited ==
    ASSUME OneWorker
    PROVE  Spec => []WakeLimit
  <1>1. Init => Counted
    BY ConstantsAssumption DEF ConstantsAssumption, Init, Counted, At, Sessions
  <1>2. TypeOK /\ Counted /\ [Next]_vars => Counted'
    BY NextCounted
  <1>3. Counted => WakeLimit
    BY DEF Counted, WakeLimit
  <1> QED BY <1>1, <1>2, <1>3, TypeCorrect, PTL DEF Spec

-----------------------------------------------------------------------------
(* An agent that owes a check-in is watched. *)

(* Runs wake the agent, no fault but a redelivery happens, and the agent    *)
(* makes one request at a time.                                             *)
WatchKept ==
    /\ RunKinds \subseteq {"wake"} /\ FaultKinds \subseteq {"redelivery"}
    /\ \A a, b \in Agents : a = b

Owed == agent.deadline # "none" /\ ~CheckedIn(agent)

(* A session that will queue a message, wake the agent or, if it is about   *)
(* to give the agent up, clear the deadline: one that found no deadline     *)
(* leaves the deadline of a later wake alone, and watches nothing.          *)
OnWatch(s) ==
    /\ session[s] # None
    /\ \/ session[s].stage = "enqueue"
       \/ /\ session[s].kind = "reconcile"
          /\ session[s].message.generation = agent.generation
          /\ session[s].stage = "offline" => session[s].row.owes

Guarded == \/ \E m \in messages : m.generation = agent.generation
           \/ \E s \in Sessions : OnWatch(s)
           \/ agent.generation \in dropped

(* Every run wakes; last_seen_at never goes back: it is not later than the  *)
(* time an open check-in has taken.                                         *)
WatchInv ==
    /\ \A s \in Requests : session[s] # None => session[s].kind = "wake"
    /\ agent.seen <= clock
    /\ \A s \in Agents : session[s] # None =>
          agent.seen <= session[s].at /\ session[s].at <= clock
    /\ Owed => Guarded

(* A step that leaves the generation alone and the watch to somebody. *)
LEMMA StillWatched ==
    ASSUME Owed => Guarded, agent'.generation = agent.generation, Owed' => Owed,
           dropped \subseteq dropped',
           \A m \in messages : m.generation = agent.generation =>
              \/ \E n \in messages' : n.generation = agent.generation
              \/ Guarded' \/ ~Owed',
           NEW s \in Sessions, \A r \in Sessions \ {s} : session'[r] = session[r],
           OnWatch(s) => Guarded' \/ ~Owed'
    PROVE  Owed' => Guarded'
  <1>1. ASSUME NEW r \in Sessions \ {s}, OnWatch(r) PROVE OnWatch(r)'
    BY <1>1 DEF OnWatch
  <1> QED BY <1>1 DEF Guarded

(* What a requeue leaves of a message's generation. *)
LEMMA RequeuedGuards ==
    ASSUME NEW m, Requeued(m)
    PROVE  /\ messages \subseteq messages' /\ dropped \subseteq dropped'
           /\ (\E n \in messages' : n.generation = m.generation) \/ m.generation \in dropped'
  <1>1. CASE m.attempts < MaxRetries
    <2> DEFINE n == [generation |-> m.generation, ripe |-> FALSE, attempts |-> m.attempts + 1]
    <2>1. messages' = messages \cup {n} /\ dropped' = dropped
      BY <1>1 DEF Requeued
    <2>2. n.generation = m.generation
      OBVIOUS
    <2> HIDE DEF n
    <2> QED BY <2>1, <2>2
  <1>2. CASE ~(m.attempts < MaxRetries)
    BY <1>2 DEF Requeued
  <1> QED BY <1>1, <1>2

LEMMA NextWatched ==
    ASSUME WatchKept, TypeOK, WatchInv, [Next]_vars
    PROVE  WatchInv'
  <1> USE ConstantsAssumption DEF ConstantsAssumption
  <1>0. /\ agent \in Row /\ clock \in Nat /\ session \in [Sessions -> Session \cup {None}]
        /\ agent.seen \in Nat /\ agent.woken \in Nat /\ messages \subseteq Message
        /\ Agents \subseteq Sessions /\ Requests \subseteq Sessions /\ Workers \subseteq Sessions
    BY DEF TypeOK, Row, Sessions
  <1>1. ASSUME NEW s \in Sessions, NEW v, Put(s, v)
        PROVE  session'[s] = v /\ \A r \in Sessions \ {s} : session'[r] = session[r]
    BY <1>0, <1>1 DEF Put
  <1>2. ASSUME NEW s \in Agents, NEW kind \in {"heartbeat", "touch"}, BeginCheckin(s, kind)
        PROVE  WatchInv'
    <2>1. session[s] = None /\ UNCHANGED <<agent, messages, clock, dropped>>
      BY <1>2 DEF BeginCheckin
    <2>2. /\ session'[s] = Open(kind, "commit", clock, None)
          /\ \A r \in Sessions \ {s} : session'[r] = session[r]
      BY <1>0, <1>1, <1>2 DEF BeginCheckin
    <2>3. session'[s].at = clock
      BY <2>2 DEF Open
    <2>4. Owed' => Guarded'
      BY <1>0, <2>1, <2>2, StillWatched DEF WatchInv, Owed, OnWatch, Guarded
    <2> QED BY <1>0, <2>1, <2>2, <2>3, <2>4 DEF WatchInv
  <1>3. ASSUME NEW s \in Agents, NEW new \in Statuses, CommitCheckin(s, new) PROVE WatchInv'
    <2>1. /\ session[s] # None /\ session[s].stage = "commit"
          /\ UNCHANGED <<messages, clock, dropped>>
      BY <1>3 DEF CommitCheckin, At
    <2>2. session'[s] = None /\ \A r \in Sessions \ {s} : session'[r] = session[r]
      BY <1>0, <1>1, <1>3 DEF CommitCheckin
    <2>3. /\ agent'.generation = agent.generation /\ agent'.woken = agent.woken
          /\ agent'.seen = session[s].at
          /\ agent'.deadline \in {agent.deadline, "none"}
      BY <1>0, <1>3 DEF CommitCheckin, Row
    <2>4. session[s].at \in Nat /\ agent.seen <= session[s].at /\ session[s].at <= clock
      BY <1>0, <2>1, SessionFields DEF WatchInv
    <2>5. Owed' => Owed
      BY <1>0, <2>3, <2>4 DEF Owed, CheckedIn
    <2>6. ~OnWatch(s)
      BY <1>0, <2>1 DEF OnWatch, TypeOK
    <2>7. Owed' => Guarded'
      BY <1>0, <2>1, <2>2, <2>3, <2>5, <2>6, StillWatched DEF WatchInv
    <2>8. \A a \in Agents : session'[a] = None
      BY <2>2 DEF WatchKept
    <2> QED BY <1>0, <2>1, <2>2, <2>3, <2>4, <2>7, <2>8 DEF WatchInv
  <1>4. ASSUME NEW s \in Requests, NEW kind \in RunKinds, BeginRun(s, kind) PROVE WatchInv'
    <2>1. session[s] = None /\ UNCHANGED <<agent, messages, clock, dropped>>
      BY <1>4 DEF BeginRun
    <2>2. /\ session'[s] = Open(kind, "lock", 0, None)
          /\ \A r \in Sessions \ {s} : session'[r] = session[r]
      BY <1>0, <1>1, <1>4 DEF BeginRun
    <2>3. session'[s].kind = "wake"
      <3>1. kind = "wake"
        BY DEF WatchKept
      <3> QED BY <2>2, <3>1 DEF Open
    <2>4. Owed' => Guarded'
      BY <1>0, <2>1, <2>2, StillWatched DEF WatchInv, Owed, OnWatch, Guarded
    <2> QED BY <1>0, <2>1, <2>2, <2>3, <2>4 DEF WatchInv
  <1>5. ASSUME NEW s \in Requests \cup Workers,
               \A r \in Sessions \ {s} : session'[r] = session[r],
               session'[s] # None => session[s] # None /\ session'[s].kind = session[s].kind,
               clock' \in Nat, clock <= clock', agent'.seen = agent.seen, Owed' => Guarded'
        PROVE  WatchInv'
    <2>1. \A a \in Agents : session'[a] = session[a]
      BY <1>0, <1>5
    <2>2. \A a \in Agents : session[a] # None => session[a].at \in Nat
      BY <1>0, SessionFields
    <2>3. \A r \in Requests : session'[r] # None => session'[r].kind = "wake"
      BY <1>0, <1>5 DEF WatchInv
    <2> QED BY <1>0, <1>5, <2>1, <2>2, <2>3 DEF WatchInv
  <1>6. ASSUME NEW s \in Requests \cup Workers, session[s] # None
        PROVE  s \in Sessions /\ session[s] \in Session /\ Wakes(s)
    BY <1>0, <1>6, SessionFields DEF WatchInv, Wakes, TypeOK
  <1>7. ASSUME NEW s \in Requests \cup Workers, LockAgent(s) PROVE WatchInv'
    <2>1. /\ session[s] # None /\ session[s].stage = "lock"
          /\ UNCHANGED <<agent, messages, dropped>>
          /\ clock' \in Nat /\ clock <= clock'
      BY <1>0, <1>7 DEF LockAgent, At
    <2> DEFINE at == IF Wakes(s) THEN clock + 1 ELSE session[s].at
               v == [session[s] EXCEPT !.stage = "gateway", !.at = at]
    <2>2. s \in Sessions /\ session[s] \in Session
      BY <1>6, <2>1
    <2>3. Put(s, v)
      BY <1>7 DEF LockAgent
    <2>4. session'[s] = v /\ \A r \in Sessions \ {s} : session'[r] = session[r]
      BY <1>1, <2>2, <2>3
    <2>5. at \in Nat
      BY <1>0, <2>1, <2>2, SessionFields
    <2> HIDE DEF at
    <2>6. /\ v.kind = session[s].kind /\ v.stage = "gateway" /\ v.message = session[s].message
          /\ v \in Session
      BY <2>2, <2>5 DEF Session
    <2> HIDE DEF v
    <2>7. OnWatch(s) => OnWatch(s)'
      BY <2>1, <2>4, <2>6, NoneAssumption DEF OnWatch
    <2>8. Owed' => Guarded'
      BY <2>1, <2>2, <2>4, <2>7, StillWatched DEF WatchInv, Owed, Guarded
    <2> QED BY <1>5, <2>1, <2>4, <2>6, <2>8
  <1>8. ASSUME NEW s \in Requests \cup Workers, GatewayApplies(s) PROVE WatchInv'
    <2>1. /\ session[s] # None /\ UNCHANGED clock /\ agent'.seen = agent.seen
      BY <1>8 DEF GatewayApplies, At, Stamped
    <2>2. s \in Sessions /\ session[s] \in Session /\ Wakes(s)
      BY <1>6, <2>1
    <2> DEFINE v == [session[s] EXCEPT !.stage = "enqueue"]
    <2>3. session'[s] = v /\ \A r \in Sessions \ {s} : session'[r] = session[r]
      BY <1>1, <1>8, <2>2 DEF GatewayApplies
    <2>4. v \in Session /\ v.stage = "enqueue" /\ v.kind = session[s].kind
      BY <2>2 DEF Session
    <2> HIDE DEF v
    <2>5. OnWatch(s)'
      BY <2>3, <2>4, NoneAssumption DEF OnWatch
    <2> QED BY <1>0, <1>5, <2>1, <2>2, <2>3, <2>4, <2>5 DEF Guarded
  <1>9. ASSUME NEW s \in Requests \cup Workers, EnqueueReconcile(s) PROVE WatchInv'
    <2>1. s \in Sessions /\ UNCHANGED <<agent, clock, dropped>>
      BY <1>0, <1>9 DEF EnqueueReconcile
    <2>2. session'[s] = None /\ \A r \in Sessions \ {s} : session'[r] = session[r]
      BY <1>1, <1>9, <2>1 DEF EnqueueReconcile
    <2>3. Owed' => Guarded'
      <3> DEFINE n == [generation |-> agent.generation, attempts |-> 0, ripe |-> FALSE]
      <3>1. n.generation = agent.generation
        OBVIOUS
      <3>2. Owed' => n \in messages'
        BY <1>9, <2>1 DEF EnqueueReconcile, Owed
      <3> HIDE DEF n
      <3> QED BY <2>1, <3>1, <3>2 DEF Guarded
    <2> QED BY <1>0, <1>5, <2>1, <2>2, <2>3
  <1>10. ASSUME NEW s \in Sessions, GatewayFails(s) \/ EnqueueFails(s) \/ Crash(s) PROVE FALSE
    BY <1>10 DEF GatewayFails, EnqueueFails, Crash, Fault, WatchKept
  <1>11. ASSUME NEW w \in Workers, GiveUp(w) PROVE WatchInv'
    <2>1. /\ w \in Sessions /\ UNCHANGED <<messages, clock, dropped>>
          /\ session[w] # None /\ session[w].stage = "offline"
      BY <1>0, <1>11 DEF GiveUp, At
    <2>2. session'[w] = None /\ \A r \in Sessions \ {w} : session'[r] = session[r]
      BY <1>1, <1>11, <2>1 DEF GiveUp
    <2>3. /\ agent'.generation = agent.generation /\ agent'.seen = agent.seen
          /\ agent'.woken = agent.woken
          /\ agent'.deadline = IF session[w].row.owes THEN "none" ELSE agent.deadline
      BY <1>0, <1>11 DEF GiveUp, Row
    <2>4. (Owed' => Owed) /\ (OnWatch(w) => ~Owed')
      BY <2>1, <2>3 DEF Owed, CheckedIn, OnWatch
    <2>5. Owed' => Guarded'
      BY <2>1, <2>2, <2>3, <2>4, StillWatched DEF WatchInv
    <2> QED BY <1>0, <1>5, <2>1, <2>2, <2>3, <2>5
  <1>12. ASSUME NEW w \in Workers, NEW m \in messages, TakeMessage(w, m) PROVE WatchInv'
    <2>1. /\ w \in Sessions /\ UNCHANGED <<agent, clock, dropped>> /\ session[w] = None
      BY <1>0, <1>12 DEF TakeMessage
    <2>2. CASE ~Stuck(m) /\ messages' = messages \ {m} /\ UNCHANGED session
      <3>1. Owed' => m.generation # agent.generation
        BY <2>1, <2>2 DEF Owed, Stuck
      <3>2. Owed' => Guarded'
        BY <2>1, <2>2, <3>1 DEF WatchInv, Owed, Guarded, OnWatch
      <3> QED BY <1>0, <1>5, <2>1, <2>2, <3>2
    <2>3. CASE messages' = (messages \ {m}) \cup {[m EXCEPT !.ripe = FALSE]} /\ UNCHANGED session
      <3>1. [m EXCEPT !.ripe = FALSE].generation = m.generation
        BY <1>0 DEF Message
      <3>2. Owed' => Guarded'
        BY <2>1, <2>3, <3>1 DEF WatchInv, Owed, Guarded, OnWatch
      <3> QED BY <1>0, <1>5, <2>1, <2>3, <3>2
    <2>4. CASE /\ Stuck(m) /\ messages' = messages \ {m}
               /\ Put(w, Open("reconcile", IF Exhausted THEN "offline" ELSE "lock", 0, m))
      <3> DEFINE v == Open("reconcile", IF Exhausted THEN "offline" ELSE "lock", 0, m)
      <3>1. session'[w] = v /\ \A r \in Sessions \ {w} : session'[r] = session[r]
        BY <1>1, <2>1, <2>4
      <3>2. v.kind = "reconcile" /\ v.message = m /\ v.row.owes = (agent.deadline # "none")
        BY DEF Open, Load
      <3>3. v # None
        <4>1. v \in Session
          BY <1>0, ConstantsAssumption
          DEF Open, Load, Session, Kinds, Loaded, Row, Message
        <4> QED BY <4>1, NoneAssumption
      <3> HIDE DEF v
      <3>4. Owed' => OnWatch(w)'
        BY <2>1, <2>4, <3>1, <3>2, <3>3 DEF OnWatch, Owed, Stuck
      <3>5. \A r \in Requests : session'[r] = session[r]
        BY <1>0, <3>1
      <3>6. \A a \in Agents : session'[a] = session[a]
        BY <1>0, <3>1
      <3> QED BY <1>0, <2>1, <3>4, <3>5, <3>6 DEF WatchInv, Guarded
    <2> QED BY <1>12, <2>2, <2>3, <2>4 DEF TakeMessage
  <1>13. ASSUME NEW w \in Workers, Timeout(w) PROVE WatchInv'
    <2>1. w \in Sessions /\ UNCHANGED <<agent, clock>> /\ session[w] # None
      BY <1>0, <1>13 DEF Timeout, At
    <2>2. session[w].stage # "enqueue"
      BY <1>13 DEF Timeout, At
    <2>3. session'[w] = None /\ \A r \in Sessions \ {w} : session'[r] = session[r]
      BY <1>1, <1>13, <2>1 DEF Timeout
    <2>4. /\ messages \subseteq messages' /\ dropped \subseteq dropped'
          /\ \/ \E n \in messages' : n.generation = session[w].message.generation
             \/ session[w].message.generation \in dropped'
      BY <1>13, RequeuedGuards DEF Timeout
    <2>5. OnWatch(w) => Guarded'
      BY <2>1, <2>2, <2>4 DEF OnWatch, Guarded
    <2>6. Owed' => Guarded'
      BY <2>1, <2>3, <2>4, <2>5, StillWatched DEF WatchInv, Owed
    <2> QED BY <1>0, <1>5, <2>1, <2>3, <2>6
  <1>14. ASSUME NEW w \in Workers, Redeliver(w) PROVE WatchInv'
    BY <1>14 DEF Redeliver, WatchInv, Owed, Guarded, OnWatch
  <1>15. ASSUME DeadlinePasses PROVE WatchInv'
    <2>1. /\ agent'.generation = agent.generation /\ agent'.seen = agent.seen
          /\ agent'.woken = agent.woken /\ agent.deadline # "none"
          /\ UNCHANGED <<session, messages, clock, dropped>>
      BY <1>0, <1>15 DEF DeadlinePasses, Row
    <2> QED BY <2>1 DEF WatchInv, Owed, CheckedIn, Guarded, OnWatch
  <1>16. ASSUME NEW m \in messages, Ripen(m) PROVE WatchInv'
    <2>1. [m EXCEPT !.ripe = TRUE].generation = m.generation
      BY <1>0 DEF Message
    <2> QED BY <1>16, <2>1 DEF Ripen, WatchInv, Owed, Guarded, OnWatch
  <1>17. CASE UNCHANGED vars
    BY <1>17 DEF vars, WatchInv, Owed, Guarded, OnWatch
  <1> QED BY <1>0, <1>2, <1>3, <1>4, <1>7, <1>8, <1>9, <1>10, <1>11, <1>12, <1>13, <1>14,
             <1>15, <1>16, <1>17 DEF Next, RunStep, WorkerStep

(* For every number of requests and workers, and every number of messages   *)
(* retried or redelivered: an agent that owes a check-in has a message of   *)
(* its generation, a run that is about to queue one, or a worker that will  *)
(* wake it or give it up, as long as runs wake the agent, the agent makes   *)
(* one request at a time and neither gateway, Redis nor a process fails.    *)
THEOREM OwedIsWatched ==
    ASSUME WatchKept
    PROVE  Spec => []Watched
  <1>1. Init => WatchInv
    BY ConstantsAssumption DEF ConstantsAssumption, Init, WatchInv, Owed, Sessions
  <1>2. TypeOK /\ WatchInv /\ [Next]_vars => WatchInv'
    BY NextWatched
  <1>3. WatchInv => Watched
    BY DEF WatchInv, Watched, WatchedBy, At, Owed, Guarded, OnWatch
  <1> QED BY <1>1, <1>2, <1>3, TypeCorrect, PTL DEF Spec

=============================================================================
