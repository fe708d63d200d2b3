-------------------------- MODULE WorkQueueProofs --------------------------
(***************************************************************************)
(* Proofs about WorkQueue for any set of jobs and workers, any retry cap,  *)
(* batch size and number of faults.                                        *)
(*                                                                         *)
(* NoSilentLoss is not inductive: a ZREM may remove the only copy unless   *)
(* one knows that whoever pushed it left something behind.  The            *)
(* strengthening says that every envelope a pending ZREM is about to       *)
(* remove is backed by a sound copy with at least as many attempts, where  *)
(* a copy is sound when no pending ZREM can take it.                       *)
(***************************************************************************)
EXTENDS WorkQueue, TLAPS

(* Appending an envelope to the list adds exactly that envelope. *)
LEMMA ElementsAppend ==
    ASSUME NEW S, NEW s \in Seq(S), NEW e \in S
    PROVE  /\ Append(s, e) \in Seq(S)
           /\ Elements(Append(s, e)) = Elements(s) \cup {e}
  <1>1. /\ Append(s, e) \in Seq(S) /\ Len(Append(s, e)) = Len(s) + 1 /\ Len(s) \in Nat
        /\ \A i \in 1..Len(s) : Append(s, e)[i] = s[i]
        /\ Append(s, e)[Len(s) + 1] = e
    OBVIOUS
  <1>2. \A i \in 1..(Len(s) + 1) : i \in 1..Len(s) \/ i = Len(s) + 1
    BY <1>1
  <1>3. Len(s) + 1 \in 1..(Len(s) + 1) /\ \A i \in 1..Len(s) : i \in 1..(Len(s) + 1)
    BY <1>1
  <1> QED BY <1>1, <1>2, <1>3 DEF Elements

(* The drain's LPUSH of a batch adds exactly the elements of the batch. *)
LEMMA ElementsConcat ==
    ASSUME NEW S, NEW s \in Seq(S), NEW t \in Seq(S)
    PROVE  /\ s \o t \in Seq(S)
           /\ Elements(s \o t) = Elements(s) \cup Elements(t)
  <1>1. /\ s \o t \in Seq(S) /\ Len(s \o t) = Len(s) + Len(t)
        /\ Len(s) \in Nat /\ Len(t) \in Nat
    OBVIOUS
  <1>2. \A i \in 1..Len(s) : i \in 1..Len(s \o t) /\ (s \o t)[i] = s[i]
    BY <1>1
  <1>3. \A i \in 1..Len(t) : i + Len(s) \in 1..Len(s \o t) /\ (s \o t)[i + Len(s)] = t[i]
    BY <1>1
  <1>4. \A i \in 1..Len(s \o t) :
           \/ i \in 1..Len(s) /\ (s \o t)[i] = s[i]
           \/ i - Len(s) \in 1..Len(t) /\ (s \o t)[i] = t[i - Len(s)]
    BY <1>1
  <1> QED BY <1>2, <1>3, <1>4 DEF Elements

(* A pop takes the head away and nothing else. *)
LEMMA ElementsTail ==
    ASSUME NEW S, NEW s \in Seq(S), s # <<>>
    PROVE  /\ Tail(s) \in Seq(S) /\ Head(s) \in S
           /\ Elements(s) = {Head(s)} \cup Elements(Tail(s))
  <1>1. /\ Tail(s) \in Seq(S) /\ Head(s) \in S /\ Len(s) \in Nat /\ Len(s) # 0
        /\ Len(Tail(s)) = Len(s) - 1 /\ Head(s) = s[1]
    OBVIOUS
  <1>2. \A i \in 1..Len(Tail(s)) : i + 1 \in 1..Len(s) /\ Tail(s)[i] = s[i + 1]
    BY <1>1
  <1>3. \A i \in 1..Len(s) : i = 1 \/ (i - 1 \in 1..Len(Tail(s)) /\ Tail(s)[i - 1] = s[i])
    BY <1>1
  <1>4. 1 \in 1..Len(s)
    BY <1>1
  <1>5. \A x \in Elements(s) : x = Head(s) \/ x \in Elements(Tail(s))
    BY <1>1, <1>3 DEF Elements
  <1>6. Head(s) \in Elements(s) /\ \A x \in Elements(Tail(s)) : x \in Elements(s)
    BY <1>1, <1>2, <1>4 DEF Elements
  <1> QED BY <1>1, <1>5, <1>6

(* Empty and one-element lists. *)
LEMMA ElementsSmall ==
    ASSUME NEW S, NEW e \in S
    PROVE  /\ <<>> \in Seq(S) /\ Len(<<>>) = 0 /\ Elements(<<>>) = {}
           /\ <<e>> \in Seq(S) /\ Len(<<e>>) = 1 /\ Elements(<<e>>) = {e}
  BY DEF Elements

(* A list of envelopes has envelopes as elements. *)
LEMMA ElementsIn ==
    ASSUME NEW S, NEW s \in Seq(S)
    PROVE  Elements(s) \subseteq S
  BY DEF Elements

(* A list of length one has its first item as only element. *)
LEMMA ElementsOne ==
    ASSUME NEW S, NEW s \in Seq(S), Len(s) = 1
    PROVE  s[1] \in S /\ Elements(s) = {s[1]}
  BY DEF Elements

-----------------------------------------------------------------------------
(* Type correctness. *)

(* The initial state of the queue and its workers is well typed. *)
LEMMA InitType == Init => TypeOK
  BY ConstantsAssumption
  DEF Init, TypeOK, Stages, Busy, Fates, ConstantsAssumption

(* Every step of a producer, of the clock, of a worker or of a fault keeps  *)
(* the queue well typed: no copy ever exceeds the retry cap, and a worker   *)
(* holds one envelope exactly while it works on it.                         *)
LEMMA NextType == TypeOK /\ [Next]_vars => TypeOK'
  <1> SUFFICES ASSUME TypeOK, [Next]_vars PROVE TypeOK'
    OBVIOUS
  <1> USE ConstantsAssumption DEF ConstantsAssumption, TypeOK, Stages, Busy, Fates, Goto,
        redis, workers, history
  <1>m. Minted \subseteq QueuedTask
    BY DEF Minted, QueuedTask
  <1>e. <<>> \in Seq(Minted) /\ Len(<<>>) = 0
    OBVIOUS
  <1>s. stamps' = stamps => Minted' = Minted
    BY DEF Minted
  <1>h. ASSUME NEW w \in Workers, pc[w] \in Busy
        PROVE  held[w] \in Minted /\ held[w].job \in Jobs
    BY <1>h DEF Minted
  <1>n. \A j \in Jobs : NewTask(j) \in Minted
    BY DEF NewTask, Minted
  <1>j. queue # <<>> => /\ Tail(queue) \in Seq(Minted) /\ Head(queue) \in Minted
                        /\ Head(queue).job \in Jobs
    <2>1. queue # <<>> => Tail(queue) \in Seq(Minted) /\ Head(queue) \in Minted
      BY ElementsTail
    <2> QED BY <2>1 DEF Minted
  <1>a. \A t \in Minted : Append(queue, t) \in Seq(Minted)
    BY ElementsAppend
  <1>f. \A j \in Jobs, f \in Fates : Settle(j, f) => fate' \in [Jobs -> SUBSET Fates]
    BY DEF Settle
  <1>1. ASSUME NEW j \in Jobs, EnqueueTask(j) PROVE TypeOK'
    BY <1>1, <1>s, <1>n, <1>a DEF EnqueueTask, ScheduleForLater
  <1>2. ASSUME NEW j \in Jobs, EnqueueFails(j) PROVE TypeOK'
    BY <1>2, <1>s DEF EnqueueFails, Fault, Settle
  <1>3. ASSUME NEW t \in waiting, Ripen(t) PROVE TypeOK'
    BY <1>3, <1>s DEF Ripen
  <1>4. ASSUME NEW w \in Workers, DrainRead(w) PROVE TypeOK'
    BY <1>4, <1>s DEF DrainRead
  <1>5. ASSUME NEW w \in Workers, DrainPush(w) PROVE TypeOK'
    BY <1>5, <1>s, ElementsConcat DEF DrainPush
  <1>6. ASSUME NEW w \in Workers, DrainRemove(w) PROVE TypeOK'
    BY <1>6, <1>s, <1>e DEF DrainRemove
  <1>7. ASSUME NEW w \in Workers, PopTimeout(w) PROVE TypeOK'
    BY <1>7, <1>s DEF PopTimeout
  <1>8. ASSUME NEW w \in Workers, PopTask(w) PROVE TypeOK'
    BY <1>8, <1>s, <1>j DEF PopTask
  <1>9. ASSUME NEW w \in Workers, PopDiscarded(w) PROVE TypeOK'
    <2>1. fate' \in [Jobs -> SUBSET Fates]
      BY <1>9, <1>f, <1>j DEF PopDiscarded
    <2> QED BY <1>9, <1>s, <1>j, <2>1 DEF PopDiscarded
  <1>10. ASSUME NEW w \in Workers, HandleOk(w) PROVE TypeOK'
    BY <1>10, <1>s, <1>h DEF HandleOk, Settle, Ran
  <1>11. ASSUME NEW w \in Workers, HandleFails(w) PROVE TypeOK'
    BY <1>11, <1>s, <1>h DEF HandleFails, Ran
  <1>12. ASSUME NEW w \in Workers, HandleDefers(w) PROVE TypeOK'
    <2>1. Minted \subseteq Minted' /\ stamps' \in 0..MaxDefers
      BY <1>12 DEF HandleDefers, Minted
    <2>2. Deferred(held[w], stamps + 1) \in Minted'
      BY <1>12, <1>h DEF HandleDefers, Deferred, Minted
    <2>3. \A s \in Seq(Minted) : s \in Seq(Minted')
      BY <2>1
    <2>4. /\ queue' \in Seq(Minted')
          /\ batch' \in [Workers -> Seq(Minted')] /\ held' \in [Workers -> Minted' \cup {None}]
          /\ \A v \in Workers : pc'[v] \in Busy => held'[v] \in Minted'
      BY <2>1, <1>12, <2>3 DEF HandleDefers
    <2>5. waiting' \subseteq Minted' /\ due' \subseteq Minted'
      BY <1>12, <2>1, <2>2 DEF HandleDefers, ScheduleForLater
    <2>6. runs' \in [Jobs -> Nat]
      BY <1>12, <1>h DEF HandleDefers, Ran
    <2> QED BY <1>12, <2>1, <2>4, <2>5, <2>6 DEF HandleDefers
  <1>13. ASSUME NEW w \in Workers, RecordSuccess(w) PROVE TypeOK'
    BY <1>13, <1>s, <1>e DEF RecordSuccess
  <1>14. ASSUME NEW w \in Workers, RecordSuccessFails(w) PROVE TypeOK'
    BY <1>14, <1>s DEF RecordSuccessFails, Fault
  <1>15. ASSUME NEW w \in Workers, RecordFailure(w) PROVE TypeOK'
    BY <1>15, <1>s DEF RecordFailure
  <1>16. ASSUME NEW w \in Workers, RecordFailureFails(w) PROVE TypeOK'
    BY <1>16, <1>s, <1>e, <1>h DEF RecordFailureFails, Settle, Fault
  <1>17. ASSUME NEW w \in Workers, Requeue(w) PROVE TypeOK'
    <2>1. RequeueWithAttempt(held[w]) \in Minted
      BY <1>17, <1>h DEF Requeue, RequeueWithAttempt, Minted
    <2> QED BY <1>17, <1>s, <1>a, <2>1 DEF Requeue, ScheduleForLater
  <1>18. ASSUME NEW w \in Workers, DropTask(w) PROVE TypeOK'
    BY <1>18, <1>s, <1>e, <1>h DEF DropTask, Settle
  <1>19. ASSUME NEW w \in Workers, RequeueFails(w) PROVE TypeOK'
    BY <1>19, <1>s, <1>e, <1>h DEF RequeueFails, Settle, Fault
  <1>20. ASSUME NEW w \in Workers, DequeueFails(w) PROVE TypeOK'
    BY <1>20, <1>s, <1>e DEF DequeueFails, Fault
  <1>21. ASSUME NEW w \in Workers, PopReplyLost(w) PROVE TypeOK'
    BY <1>21, <1>s, <1>j DEF PopReplyLost, Settle, Fault
  <1>22. ASSUME NEW w \in Workers, Crash(w) PROVE TypeOK'
    <2>1. fate' \in [Jobs -> SUBSET Fates]
      BY <1>22, <1>f, <1>h DEF Crash
    <2> QED BY <1>22, <1>s, <1>e, <2>1 DEF Crash, Fault
  <1>23. ASSUME NEW w \in Workers, Restart(w) PROVE TypeOK'
    BY <1>23, <1>s DEF Restart
  <1>24. CASE UNCHANGED vars
    BY <1>24, <1>s DEF vars
  <1> QED
    BY <1>1, <1>2, <1>3, <1>4, <1>5, <1>6, <1>7, <1>8, <1>9, <1>10, <1>11, <1>12, <1>13,
       <1>14, <1>15, <1>16, <1>17, <1>18, <1>19, <1>20, <1>21, <1>22, <1>23, <1>24
    DEF Next, WorkerStep, WorkerFault

(* Type correctness of the queue and its workers, for every instance.       *)
THEOREM TypeCorrect == Spec => []TypeOK
  BY InitType, NextType, PTL DEF Spec

-----------------------------------------------------------------------------
(* No silent loss. *)

(* Every offered job that is not settled has a sound copy. *)
Covered == \A j \in offered : fate[j] # {} \/ \E t \in Sound : t.job = j

Ge(t, e) == t.job = e.job /\ t.attempts >= e.attempts

IInv == TypeOK /\ Covered /\ ZremBacked

(* A step keeps the invariant if settled jobs stay settled, every sound     *)
(* copy leaves a sound copy at least as advanced behind it, and what the    *)
(* step adds to offered or to a pending ZREM is covered.                    *)
LEMMA Carry ==
    ASSUME TypeOK, TypeOK', Covered, ZremBacked,
           \A j \in Jobs : fate[j] # {} => fate'[j] # {},
           \A t \in Sound : fate'[t.job] # {} \/ \E u \in Sound' : Ge(u, t),
           \A j \in offered' : j \in offered \/ fate'[j] # {} \/ \E u \in Sound' : u.job = j,
           \A w \in Workers : pc'[w] = "remove" => \A e \in Elements(batch'[w]) :
               (pc[w] = "remove" /\ e \in Elements(batch[w])) \/ \E u \in Sound' : Ge(u, e)
    PROVE  Covered' /\ ZremBacked'
  <1>1. Covered'
    <2> SUFFICES ASSUME NEW j \in offered', fate'[j] = {}
                 PROVE  \E u \in Sound' : u.job = j
      BY DEF Covered
    <2>1. j \in Jobs
      BY DEF TypeOK
    <2>2. CASE j \in offered
      <3>1. PICK t \in Sound : t.job = j
        BY <2>1, <2>2 DEF Covered
      <3> QED BY <3>1 DEF Ge
    <2> QED BY <2>2
  <1>2. ZremBacked'
    <2> SUFFICES ASSUME NEW w \in Workers, pc'[w] = "remove",
                        NEW e \in Elements(batch'[w]), fate'[e.job] = {}
                 PROVE  \E u \in Sound' : Ge(u, e)
      BY DEF ZremBacked, Ge
    <2>1. e \in Minted'
      BY ElementsIn DEF TypeOK
    <2>2. e.job \in Jobs /\ e.attempts \in Nat
      BY <2>1, ConstantsAssumption DEF Minted, ConstantsAssumption
    <2>3. CASE pc[w] = "remove" /\ e \in Elements(batch[w])
      <3>1. PICK t \in Sound : t.job = e.job /\ t.attempts >= e.attempts
        BY <2>2, <2>3 DEF ZremBacked
      <3>2. PICK u \in Sound' : Ge(u, t)
        BY <3>1
      <3>3. t \in Minted
        BY DEF Sound, Live, InHand, Scheduled, TypeOK, Elements, Busy
      <3>4. u \in Minted'
        BY DEF Sound, Live, InHand, Scheduled, TypeOK, Elements, Busy
      <3>5. t.attempts \in Nat /\ u.attempts \in Nat
        BY <3>3, <3>4, ConstantsAssumption DEF Minted, ConstantsAssumption
      <3> QED BY <2>2, <3>1, <3>2, <3>5 DEF Ge
    <2> QED BY <2>3
  <1> QED BY <1>1, <1>2

(* Membership in Sound, case by case. *)
LEMMA SoundMember ==
    ASSUME NEW t
    PROVE  t \in Sound <=>
             \/ t \in Elements(queue)
             \/ \E w \in Workers : pc[w] \in {"handle", "failed", "requeue"} /\ t = held[w]
             \/ /\ t \in waiting \/ t \in due
                /\ \A w \in Workers : pc[w] = "remove" => t \notin Elements(batch[w])
  BY DEF Sound, Live, InHand, Scheduled

FateGrows == \A j \in Jobs : fate[j] # {} => fate'[j] # {}

SoundKept == \A t \in Sound : fate'[t.job] # {} \/ \E u \in Sound' : Ge(u, t)

OfferedCovered ==
    \A j \in offered' : j \in offered \/ fate'[j] # {} \/ \E u \in Sound' : u.job = j

BatchCovered ==
    \A w \in Workers : pc'[w] = "remove" => \A e \in Elements(batch'[w]) :
        (pc[w] = "remove" /\ e \in Elements(batch[w])) \/ \E u \in Sound' : Ge(u, e)

Kept == FateGrows /\ SoundKept /\ OfferedCovered /\ BatchCovered

(* A copy that outlives every pending ZREM is a well-formed envelope. *)
LEMMA SoundTyped ==
    ASSUME TypeOK, NEW t \in Sound
    PROVE  t \in Minted /\ t.job \in Jobs /\ t.attempts \in Nat /\ Ge(t, t)
  <1>1. t \in Minted
    BY DEF Sound, Live, InHand, Scheduled, TypeOK, Elements, Busy
  <1> QED BY <1>1, ConstantsAssumption DEF Minted, Ge, ConstantsAssumption

(* What most steps do: every sound copy stays sound. *)
LEMMA SoundGrows ==
    ASSUME TypeOK, \A t \in Sound : t \in Sound'
    PROVE  SoundKept
  BY SoundTyped DEF SoundKept

(* Settling one job settles no other and unsettles none. *)
LEMMA SettleGrows ==
    ASSUME TypeOK, NEW j \in Jobs, NEW f, Settle(j, f)
    PROVE  FateGrows /\ fate'[j] # {}
  BY DEF TypeOK, Settle, FateGrows

(* A copy put (back) into the sorted set is sound, or a pending ZREM that   *)
(* would take it is itself backed by a sound copy at least as advanced.     *)
LEMMA PutCovered ==
    ASSUME TypeOK, ZremBacked, NEW t \in Minted
    PROVE  \/ \A w \in Workers : pc[w] = "remove" => t \notin Elements(batch[w])
           \/ fate[t.job] # {}
           \/ \E u \in Sound : Ge(u, t)
  BY DEF ZremBacked, Ge

(* Every step keeps what Carry needs. *)
LEMMA NextKept ==
    ASSUME TypeOK, TypeOK', Covered, ZremBacked, Next
    PROVE  Kept
  <1> USE DEF Kept, Goto, redis, workers, history
  <1>c. ASSUME NEW t
        PROVE  t \in Sound <=>
             \/ t \in Elements(queue)
             \/ \E w \in Workers : pc[w] \in {"handle", "failed", "requeue"} /\ t = held[w]
             \/ /\ t \in waiting \/ t \in due
                /\ \A w \in Workers : pc[w] = "remove" => t \notin Elements(batch[w])
    BY SoundMember
  <1>p. ASSUME NEW t
        PROVE  t \in Sound' <=>
             \/ t \in Elements(queue')
             \/ \E w \in Workers : pc'[w] \in {"handle", "failed", "requeue"} /\ t = held'[w]
             \/ /\ t \in waiting' \/ t \in due'
                /\ \A w \in Workers : pc'[w] = "remove" => t \notin Elements(batch'[w])
    BY DEF Sound, Live, InHand, Scheduled
  <1>t. /\ pc \in [Workers -> Stages] /\ held \in [Workers -> Minted \cup {None}]
        /\ batch \in [Workers -> Seq(Minted)] /\ queue \in Seq(Minted)
    BY DEF TypeOK
  <1>h. ASSUME NEW w \in Workers, pc[w] \in Busy
        PROVE  held[w] \in Minted /\ held[w].job \in Jobs
    BY <1>h DEF Minted, TypeOK
  <1>q. queue # <<>> => /\ Elements(queue) = {Head(queue)} \cup Elements(Tail(queue))
                        /\ Head(queue) \in Minted
    BY <1>t, ElementsTail
  <1>j. queue # <<>> => Head(queue).job \in Jobs
    BY <1>q DEF Minted
  <1>n. \A j \in Jobs : NewTask(j) \in Minted /\ NewTask(j).job = j
    BY ConstantsAssumption DEF NewTask, Minted, TypeOK, ConstantsAssumption
  <1>1. ASSUME NEW j \in Jobs, EnqueueTask(j) PROVE Kept
    <2>1. CASE Kind[j] = "timed"
      <3>1. \A t \in Sound : t \in Sound'
        BY <1>1, <2>1, <1>c, <1>p DEF EnqueueTask, ScheduleForLater
      <3>2. fate[j] # {} \/ \E u \in Sound' : u.job = j
        <4>1. NewTask(j) \in waiting'
          BY <1>1, <2>1 DEF EnqueueTask, ScheduleForLater
        <4>2. CASE \A w \in Workers : pc[w] = "remove" => NewTask(j) \notin Elements(batch[w])
          <5>1. NewTask(j) \in Sound'
            BY <1>1, <4>1, <4>2, <1>p DEF EnqueueTask
          <5> QED BY <5>1, <1>n
        <4>3. CASE \E u \in Sound : Ge(u, NewTask(j))
          BY <3>1, <4>3, <1>n DEF Ge
        <4> QED BY <4>2, <4>3, <1>n, PutCovered
      <3> QED BY <1>1, <3>1, <3>2, SoundGrows
              DEF EnqueueTask, FateGrows, OfferedCovered, BatchCovered
    <2>2. CASE Kind[j] # "timed"
      <3>1. Elements(queue') = Elements(queue) \cup {NewTask(j)}
        BY <1>1, <2>2, <1>n, <1>t, ElementsAppend DEF EnqueueTask
      <3>2. NewTask(j) \in Sound'
        BY <3>1, <1>p
      <3>3. \A t \in Sound : t \in Sound'
        BY <1>1, <2>2, <3>1, <1>c, <1>p DEF EnqueueTask
      <3> QED BY <1>1, <3>2, <3>3, <1>n, SoundGrows
              DEF EnqueueTask, FateGrows, OfferedCovered, BatchCovered
    <2> QED BY <2>1, <2>2
  <1>2. ASSUME NEW j \in Jobs, EnqueueFails(j) PROVE Kept
    <2>1. FateGrows /\ fate'[j] # {}
      BY <1>2, SettleGrows DEF EnqueueFails
    <2>2. \A t \in Sound : t \in Sound'
      BY <1>2, <1>c, <1>p DEF EnqueueFails
    <2> QED BY <1>2, <2>1, <2>2, SoundGrows DEF EnqueueFails, OfferedCovered, BatchCovered
  <1>3. ASSUME NEW t \in waiting, Ripen(t) PROVE Kept
    <2>1. \A u \in Sound : u \in Sound'
      BY <1>3, <1>c, <1>p DEF Ripen
    <2> QED BY <1>3, <2>1, SoundGrows DEF Ripen, FateGrows, OfferedCovered, BatchCovered
  <1>4. ASSUME NEW w \in Workers, DrainRead(w) PROVE Kept
    <2>1. pc[w] = "drain" /\ pc'[w] # "remove" /\ \A v \in Workers \ {w} :
             pc'[v] = pc[v] /\ batch'[v] = batch[v]
      BY <1>4, <1>t DEF DrainRead
    <2>2. UNCHANGED <<queue, waiting, due, held, offered, fate>>
      BY <1>4 DEF DrainRead
    <2>3. \A t \in Sound : t \in Sound'
      BY <2>1, <2>2, <1>c, <1>p
    <2> QED BY <2>1, <2>2, <2>3, SoundGrows DEF FateGrows, OfferedCovered, BatchCovered
  <1>5. ASSUME NEW w \in Workers, DrainPush(w) PROVE Kept
    <2>1. Elements(queue') = Elements(queue) \cup Elements(batch[w])
      BY <1>5, <1>t, ElementsConcat DEF DrainPush
    <2>2. /\ pc[w] = "push" /\ pc'[w] = "remove" /\ UNCHANGED <<waiting, due, batch, held, offered, fate>>
          /\ \A v \in Workers \ {w} : pc'[v] = pc[v]
      BY <1>5, <1>t DEF DrainPush
    <2>3. \A t \in Sound : t \in Sound'
      BY <2>1, <2>2, <1>c, <1>p
    <2>4. \A e \in Elements(batch[w]) : e \in Sound' /\ Ge(e, e)
      <3>1. \A e \in Elements(batch[w]) : e \in Minted
        BY <1>t, ElementsIn
      <3> QED BY <2>1, <3>1, <1>p, ConstantsAssumption DEF Ge, Minted, ConstantsAssumption
    <2> QED BY <2>2, <2>3, <2>4, SoundGrows DEF FateGrows, OfferedCovered, BatchCovered
  <1>6. ASSUME NEW w \in Workers, DrainRemove(w) PROVE Kept
    <2>1. \A t \in Sound : t \in Sound'
      BY <1>6, <1>c, <1>p, <1>t DEF DrainRemove
    <2> QED BY <1>6, <1>t, <2>1, SoundGrows DEF DrainRemove, FateGrows, OfferedCovered, BatchCovered
  <1>7. ASSUME NEW w \in Workers, PopTimeout(w) PROVE Kept
    <2>1. \A t \in Sound : t \in Sound'
      BY <1>7, <1>c, <1>p, <1>t DEF PopTimeout
    <2> QED BY <1>7, <1>t, <2>1, SoundGrows DEF PopTimeout, FateGrows, OfferedCovered, BatchCovered
  <1>8. ASSUME NEW w \in Workers, PopTask(w) PROVE Kept
    <2>1. \A t \in Sound : t \in Sound'
      BY <1>8, <1>c, <1>p, <1>t, <1>q DEF PopTask
    <2> QED BY <1>8, <1>t, <2>1, SoundGrows DEF PopTask, FateGrows, OfferedCovered, BatchCovered
  <1>9. ASSUME NEW w \in Workers, PopDiscarded(w) PROVE Kept
    <2>1. FateGrows /\ fate'[Head(queue).job] # {}
      BY <1>9, <1>h, <1>j, SettleGrows DEF PopDiscarded, Busy
    <2>2. SoundKept
      <3> SUFFICES ASSUME NEW t \in Sound, t # Head(queue) PROVE t \in Sound'
        BY <2>1, SoundTyped DEF SoundKept
      <3> QED BY <1>9, <1>c, <1>p, <1>t, <1>q DEF PopDiscarded
    <2> QED BY <1>9, <1>t, <2>1, <2>2 DEF PopDiscarded, OfferedCovered, BatchCovered
  <1>10. ASSUME NEW w \in Workers, HandleOk(w) PROVE Kept
    <2>1. FateGrows /\ fate'[held[w].job] # {}
      BY <1>10, <1>h, <1>j, SettleGrows DEF HandleOk, Busy
    <2>2. SoundKept
      <3> SUFFICES ASSUME NEW t \in Sound, t # held[w] PROVE t \in Sound'
        BY <2>1, SoundTyped DEF SoundKept
      <3> QED BY <1>10, <1>c, <1>p, <1>t, <1>q DEF HandleOk
    <2> QED BY <1>10, <1>t, <2>1, <2>2 DEF HandleOk, OfferedCovered, BatchCovered
  <1>11. ASSUME NEW w \in Workers, HandleFails(w) PROVE Kept
    <2>1. \A t \in Sound : t \in Sound'
      BY <1>11, <1>c, <1>p, <1>t DEF HandleFails
    <2> QED BY <1>11, <1>t, <2>1, SoundGrows DEF HandleFails, FateGrows, OfferedCovered, BatchCovered
  <1>12. ASSUME NEW w \in Workers, HandleDefers(w) PROVE Kept
    <2> DEFINE d == Deferred(held[w], stamps + 1)
    <2>1. /\ pc[w] = "handle" /\ pc'[w] = "recording" /\ held[w] \in Minted
          /\ waiting' = waiting \cup {d} /\ due' = due \ {d}
          /\ UNCHANGED <<queue, batch, held, offered, fate>>
          /\ \A v \in Workers \ {w} : pc'[v] = pc[v]
      BY <1>12, <1>t, <1>h DEF HandleDefers, ScheduleForLater, Busy
    <2>2. d \notin Minted /\ d.job = held[w].job /\ d.attempts = held[w].attempts
      BY <2>1, ConstantsAssumption DEF Deferred, Minted, TypeOK, ConstantsAssumption
    <2>3. \A v \in Workers : d \notin Elements(batch[v])
      BY <2>2, <1>t, ElementsIn
    <2>4. d \in Sound'
      BY <2>1, <2>3, <1>p
    <2>5. Ge(d, held[w])
      BY <2>1, <2>2, ConstantsAssumption DEF Ge, Minted, ConstantsAssumption
    <2>6. \A t \in Sound : t = held[w] \/ t \in Sound'
      BY <2>1, <1>c, <1>p
    <2>7. SoundKept
      BY <2>4, <2>5, <2>6, SoundTyped DEF SoundKept
    <2> QED BY <2>1, <2>7 DEF FateGrows, OfferedCovered, BatchCovered
  <1>13. ASSUME NEW w \in Workers, RecordSuccess(w) PROVE Kept
    <2>1. \A t \in Sound : t \in Sound'
      BY <1>13, <1>c, <1>p, <1>t DEF RecordSuccess
    <2> QED BY <1>13, <1>t, <2>1, SoundGrows DEF RecordSuccess, FateGrows, OfferedCovered, BatchCovered
  <1>14. ASSUME NEW w \in Workers, RecordSuccessFails(w) PROVE Kept
    <2>1. \A t \in Sound : t \in Sound'
      BY <1>14, <1>c, <1>p, <1>t DEF RecordSuccessFails
    <2> QED BY <1>14, <1>t, <2>1, SoundGrows DEF RecordSuccessFails, FateGrows, OfferedCovered, BatchCovered
  <1>15. ASSUME NEW w \in Workers, RecordFailure(w) PROVE Kept
    <2>1. \A t \in Sound : t \in Sound'
      BY <1>15, <1>c, <1>p, <1>t DEF RecordFailure
    <2> QED BY <1>15, <1>t, <2>1, SoundGrows DEF RecordFailure, FateGrows, OfferedCovered, BatchCovered
  <1>16. ASSUME NEW w \in Workers, RecordFailureFails(w) PROVE Kept
    <2>1. FateGrows /\ fate'[held[w].job] # {}
      BY <1>16, <1>h, <1>j, SettleGrows DEF RecordFailureFails, Busy
    <2>2. SoundKept
      <3> SUFFICES ASSUME NEW t \in Sound, t # held[w] PROVE t \in Sound'
        BY <2>1, SoundTyped DEF SoundKept
      <3> QED BY <1>16, <1>c, <1>p, <1>t, <1>q DEF RecordFailureFails
    <2> QED BY <1>16, <1>t, <2>1, <2>2 DEF RecordFailureFails, OfferedCovered, BatchCovered
  <1>17. ASSUME NEW w \in Workers, Requeue(w) PROVE Kept
    <2> DEFINE d == RequeueWithAttempt(held[w])
    <2>1. /\ pc[w] = "requeue" /\ pc'[w] = "drain" /\ held[w] \in Minted
          /\ held' = [held EXCEPT ![w] = None]
          /\ UNCHANGED <<batch, offered, fate, stamps>>
          /\ \A v \in Workers \ {w} : pc'[v] = pc[v]
          /\ d.attempts <= MaxRetries
      BY <1>17, <1>t, <1>h DEF Requeue, Busy
    <2>2. /\ d \in Minted /\ Ge(d, held[w]) /\ Ge(d, d) /\ ~Ge(held[w], d)
          /\ d.job = held[w].job
      BY <2>1, ConstantsAssumption DEF RequeueWithAttempt, Minted, Ge, ConstantsAssumption
    <2>3. \A t \in Sound : t = held[w] \/ t \in Sound'
      <3>1. CASE RetryDelayed
        BY <1>17, <3>1, <2>1, <1>t, <1>c, <1>p DEF Requeue, ScheduleForLater
      <3>2. CASE ~RetryDelayed
        <4>1. Elements(queue') = Elements(queue) \cup {d} /\ UNCHANGED <<waiting, due>>
          BY <1>17, <3>2, <2>2, <1>t, ElementsAppend DEF Requeue
        <4> QED BY <4>1, <2>1, <1>t, <1>c, <1>p
      <3> QED BY <3>1, <3>2
    <2>4. fate[d.job] # {} \/ \E u \in Sound' : Ge(u, d)
      <3>1. CASE RetryDelayed
        <4>1. d \in waiting'
          BY <1>17, <3>1 DEF Requeue, ScheduleForLater
        <4>2. CASE \A v \in Workers : pc[v] = "remove" => d \notin Elements(batch[v])
          <5>1. d \in Sound'
            BY <2>1, <4>1, <4>2, <1>p
          <5> QED BY <5>1, <2>2
        <4>3. CASE \E u \in Sound : Ge(u, d)
          BY <4>3, <2>2, <2>3
        <4> QED BY <4>2, <4>3, <2>2, PutCovered
      <3>2. CASE ~RetryDelayed
        <4>0. queue' = Append(queue, d)
          BY <1>17, <3>2 DEF Requeue
        <4>1. d \in Elements(queue')
          BY <4>0, <2>2, <1>t, ElementsAppend
        <4>2. d \in Sound'
          BY <4>1, <1>p
        <4> QED BY <4>2, <2>2
      <3> QED BY <3>1, <3>2
    <2>5. \A u \in Sound' : Ge(u, d) => Ge(u, held[w])
      <3>1. \A u \in Sound' : u \in Minted
        <4>1. \A u \in Sound' : u \in Minted'
          BY DEF Sound, Live, InHand, Scheduled, TypeOK, Elements, Busy
        <4> QED BY <4>1, <2>1 DEF Minted
      <3> QED BY <3>1, <2>1, ConstantsAssumption
              DEF Ge, RequeueWithAttempt, Minted, ConstantsAssumption
    <2>6. SoundKept
      <3> SUFFICES ASSUME NEW t \in Sound, fate'[t.job] = {}
                   PROVE  \E u \in Sound' : Ge(u, t)
        BY DEF SoundKept
      <3>1. CASE t = held[w]
        BY <3>1, <2>1, <2>2, <2>4, <2>5
      <3>2. CASE t # held[w]
        BY <3>2, <2>3, SoundTyped
      <3> QED BY <3>1, <3>2
    <2> QED BY <2>1, <2>6 DEF FateGrows, OfferedCovered, BatchCovered
  <1>18. ASSUME NEW w \in Workers, DropTask(w) PROVE Kept
    <2>1. FateGrows /\ fate'[held[w].job] # {}
      BY <1>18, <1>h, <1>j, SettleGrows DEF DropTask, Busy
    <2>2. SoundKept
      <3> SUFFICES ASSUME NEW t \in Sound, t # held[w] PROVE t \in Sound'
        BY <2>1, SoundTyped DEF SoundKept
      <3> QED BY <1>18, <1>c, <1>p, <1>t, <1>q DEF DropTask
    <2> QED BY <1>18, <1>t, <2>1, <2>2 DEF DropTask, OfferedCovered, BatchCovered
  <1>19. ASSUME NEW w \in Workers, RequeueFails(w) PROVE Kept
    <2>1. FateGrows /\ fate'[held[w].job] # {}
      BY <1>19, <1>h, <1>j, SettleGrows DEF RequeueFails, Busy
    <2>2. SoundKept
      <3> SUFFICES ASSUME NEW t \in Sound, t # held[w] PROVE t \in Sound'
        BY <2>1, SoundTyped DEF SoundKept
      <3> QED BY <1>19, <1>c, <1>p, <1>t, <1>q DEF RequeueFails
    <2> QED BY <1>19, <1>t, <2>1, <2>2 DEF RequeueFails, OfferedCovered, BatchCovered
  <1>20. ASSUME NEW w \in Workers, DequeueFails(w) PROVE Kept
    <2>1. \A t \in Sound : t \in Sound'
      BY <1>20, <1>c, <1>p, <1>t DEF DequeueFails
    <2> QED BY <1>20, <1>t, <2>1, SoundGrows DEF DequeueFails, FateGrows, OfferedCovered, BatchCovered
  <1>21. ASSUME NEW w \in Workers, PopReplyLost(w) PROVE Kept
    <2>1. FateGrows /\ fate'[Head(queue).job] # {}
      BY <1>21, <1>h, <1>j, SettleGrows DEF PopReplyLost, Busy
    <2>2. SoundKept
      <3> SUFFICES ASSUME NEW t \in Sound, t # Head(queue) PROVE t \in Sound'
        BY <2>1, SoundTyped DEF SoundKept
      <3> QED BY <1>21, <1>c, <1>p, <1>t, <1>q DEF PopReplyLost
    <2> QED BY <1>21, <1>t, <2>1, <2>2 DEF PopReplyLost, OfferedCovered, BatchCovered
  <1>22. ASSUME NEW w \in Workers, Crash(w) PROVE Kept
    <2>1. CASE pc[w] \in Busy
      <3>1. FateGrows /\ fate'[held[w].job] # {}
        BY <1>22, <2>1, <1>h, SettleGrows DEF Crash
      <3>2. SoundKept
        <4> SUFFICES ASSUME NEW t \in Sound, t # held[w] PROVE t \in Sound'
          BY <3>1, SoundTyped DEF SoundKept
        <4> QED BY <1>22, <1>c, <1>p, <1>t DEF Crash
      <3> QED BY <1>22, <1>t, <3>1, <3>2 DEF Crash, OfferedCovered, BatchCovered
    <2>2. CASE pc[w] \notin Busy
      <3>1. \A t \in Sound : t \in Sound'
        BY <1>22, <2>2, <1>c, <1>p, <1>t DEF Crash, Busy
      <3> QED BY <1>22, <2>2, <1>t, <3>1, SoundGrows
              DEF Crash, FateGrows, OfferedCovered, BatchCovered
    <2> QED BY <2>1, <2>2
  <1>23. ASSUME NEW w \in Workers, Restart(w) PROVE Kept
    <2>1. \A t \in Sound : t \in Sound'
      BY <1>23, <1>c, <1>p, <1>t DEF Restart
    <2> QED BY <1>23, <1>t, <2>1, SoundGrows DEF Restart, FateGrows, OfferedCovered, BatchCovered
  <1> QED
    BY <1>1, <1>2, <1>3, <1>4, <1>5, <1>6, <1>7, <1>8, <1>9, <1>10, <1>11, <1>12, <1>13,
       <1>14, <1>15, <1>16, <1>17, <1>18, <1>19, <1>20, <1>21, <1>22, <1>23
    DEF Next, WorkerStep, WorkerFault

(* Every reachable state satisfies the inductive invariant. *)
THEOREM InductiveInvariant == Spec => []IInv
  <1>1. Init => IInv
    <2> SUFFICES ASSUME Init PROVE IInv
      OBVIOUS
    <2>1. TypeOK
      BY InitType
    <2> QED BY <2>1 DEF Init, IInv, Covered, ZremBacked
  <1>2. IInv /\ [Next]_vars => IInv'
    <2> SUFFICES ASSUME IInv, [Next]_vars PROVE IInv'
      OBVIOUS
    <2>1. TypeOK'
      BY NextType DEF IInv
    <2>2. CASE Next
      <3>1. Kept
        BY <2>1, <2>2, NextKept DEF IInv
      <3> QED BY <2>1, <3>1, Carry DEF IInv, Kept, FateGrows, SoundKept, OfferedCovered, BatchCovered
    <2>3. CASE UNCHANGED vars
      BY <2>1, <2>3 DEF vars, IInv, Covered, ZremBacked, Sound, Live, InHand, Scheduled
    <2> QED BY <2>2, <2>3
  <1> QED BY <1>1, <1>2, PTL DEF Spec

(* No job a producer handed to the queue disappears without a reported fate, *)
(* whatever the interleaving of workers, crashes and Redis errors.           *)
THEOREM JobsAreNotLost == Spec => []NoSilentLoss
  <1>1. IInv => NoSilentLoss
    BY DEF IInv, Covered, NoSilentLoss, Sound
  <1> QED BY <1>1, InductiveInvariant, PTL

(* What a worker is about to ZREM is backed by a copy that survives it.      *)
THEOREM PendingZremIsBacked == Spec => []ZremBacked
  <1>1. IInv => ZremBacked
    BY DEF IInv
  <1> QED BY <1>1, InductiveInvariant, PTL

(***************************************************************************)
(* With one worker process, as the queue is deployed: no job is in the     *)
(* queue twice, and no job is retried beyond the cap.                      *)
(*                                                                         *)
(* A job is unique as long as nothing has failed, or when it never enters  *)
(* the sorted set (not timed, and retries go straight to the list).  For   *)
(* those jobs the copies are told apart as in the list, pending (in the    *)
(* sorted set and not about to be removed) or in the worker's hands; at    *)
(* most one of the three holds one, and its attempts counter bounds how    *)
(* often the handler has run.                                              *)
(***************************************************************************)
OneWorker == \A v, w \in Workers : v = w

(* Members of the sorted set that no ZREM under way will remove. *)
Pend == {t \in Scheduled : \A w \in Workers : pc[w] = "remove" => t \notin Elements(batch[w])}

Tracked(j) == faults = 0 \/ (Kind[j] # "timed" /\ ~RetryDelayed)

Holds(w, j) ==
    /\ pc[w] \in {"handle", "failed", "requeue"} \/ (pc[w] = "recording" /\ Kind[j] # "timed")
    /\ held[w].job = j

AtMostOnce(s, j) == \A i, k \in 1..Len(s) : s[i].job = j /\ s[k].job = j => i = k

(* Every envelope belongs to a job that was enqueued, and only delayed jobs *)
(* are in the sorted set when retries are immediate.                        *)
Known ==
    /\ \A t \in Elements(queue) \cup Scheduled : t.job \in offered
    /\ \A w \in Workers : pc[w] \in Busy => held[w].job \in offered
    /\ \A w \in Workers : \A e \in Elements(batch[w]) : e.job \in offered
    /\ \A j \in Jobs \ offered : runs[j] = 0 /\ fate[j] = {}
    /\ ~RetryDelayed => \A t \in Scheduled : Kind[t.job] = "timed"
    /\ ~RetryDelayed => \A w \in Workers : \A e \in Elements(batch[w]) : Kind[e.job] = "timed"

(* What a drain has read and not pushed is still in the sorted set. *)
BatchRead ==
    faults = 0 => \A w \in Workers : pc[w] = "push" =>
        /\ Elements(batch[w]) \subseteq Scheduled
        /\ \A i, k \in 1..Len(batch[w]) : batch[w][i] = batch[w][k] => i = k

Unique(j) ==
    /\ AtMostOnce(queue, j)
    /\ \A t, u \in Pend : t.job = j /\ u.job = j => t = u
    /\ \A t \in Elements(queue), u \in Pend : ~(t.job = j /\ u.job = j)
    /\ \A w \in Workers : Holds(w, j) =>
          (\A t \in Elements(queue) : t.job # j) /\ (\A u \in Pend : u.job # j)

(* The attempts counter of a copy counts the handler runs before it. *)
Counted(j) ==
    /\ runs[j] <= MaxRetries + 1
    /\ \A t \in Elements(queue) \cup Pend : t.job = j => runs[j] <= t.attempts
    /\ \A w \in Workers : held[w].job = j =>
          /\ pc[w] = "handle" => runs[j] <= held[w].attempts
          /\ pc[w] \in Busy => runs[j] <= held[w].attempts + 1

(* A copy exists only of a job that is neither done nor dropped. *)
Unsettled ==
    faults = 0 =>
        /\ \A t \in Elements(queue) \cup Pend : fate[t.job] = {}
        /\ \A w \in Workers : \A t \in InHand(w) : fate[t.job] = {}

SInv ==
    /\ TypeOK /\ Known /\ BatchRead /\ Unsettled
    /\ \A j \in Jobs : Tracked(j) => Unique(j)
    /\ \A j \in Jobs : Tracked(j) /\ Kind[j] # "timed" => Counted(j)

-----------------------------------------------------------------------------
(* Appending a job that is not in the list yet, or another job, leaves each *)
(* job in it at most once.                                                  *)
LEMMA OnceAppend ==
    ASSUME NEW S, NEW s \in Seq(S), NEW e \in S, NEW j, AtMostOnce(s, j),
           e.job = j => \A t \in Elements(s) : t.job # j
    PROVE  AtMostOnce(Append(s, e), j)
  <1>1. /\ Len(Append(s, e)) = Len(s) + 1 /\ Len(s) \in Nat
        /\ \A i \in 1..Len(s) : Append(s, e)[i] = s[i]
        /\ Append(s, e)[Len(s) + 1] = e
    OBVIOUS
  <1>2. \A i \in 1..(Len(s) + 1) : i \in 1..Len(s) \/ i = Len(s) + 1
    BY <1>1
  <1>3. \A i \in 1..Len(s) : s[i] \in Elements(s)
    BY DEF Elements
  <1> QED BY <1>1, <1>2, <1>3 DEF AtMostOnce

(* So does pushing a batch none of whose jobs is in the list. *)
LEMMA OnceConcat ==
    ASSUME NEW S, NEW s \in Seq(S), NEW t \in Seq(S), NEW j,
           AtMostOnce(s, j), AtMostOnce(t, j),
           \A a \in Elements(s), b \in Elements(t) : ~(a.job = j /\ b.job = j)
    PROVE  AtMostOnce(s \o t, j)
  <1>1. Len(s \o t) = Len(s) + Len(t) /\ Len(s) \in Nat /\ Len(t) \in Nat
    OBVIOUS
  <1>2. \A i \in 1..Len(s \o t) :
           \/ i \in 1..Len(s) /\ (s \o t)[i] = s[i]
           \/ i - Len(s) \in 1..Len(t) /\ (s \o t)[i] = t[i - Len(s)]
    BY <1>1
  <1>3. \A i \in 1..Len(s), k \in 1..Len(t) : ~(s[i].job = j /\ t[k].job = j)
    BY DEF Elements
  <1> SUFFICES ASSUME NEW i \in 1..Len(s \o t), NEW k \in 1..Len(s \o t),
                      (s \o t)[i].job = j, (s \o t)[k].job = j
               PROVE  i = k
    BY DEF AtMostOnce
  <1>4. CASE i \in 1..Len(s) /\ (s \o t)[i] = s[i]
    <2>1. k \in 1..Len(s) /\ (s \o t)[k] = s[k]
      BY <1>2, <1>3, <1>4
    <2> QED BY <1>4, <2>1 DEF AtMostOnce
  <1>5. CASE i - Len(s) \in 1..Len(t) /\ (s \o t)[i] = t[i - Len(s)]
    <2>1. k - Len(s) \in 1..Len(t) /\ (s \o t)[k] = t[k - Len(s)]
      BY <1>2, <1>3, <1>5
    <2>2. i - Len(s) = k - Len(s)
      BY <1>5, <2>1 DEF AtMostOnce
    <2> QED BY <1>1, <2>2
  <1> QED BY <1>2, <1>4, <1>5

(* A pop keeps it, and leaves no second copy of what it took. *)
LEMMA OnceTail ==
    ASSUME NEW S, NEW s \in Seq(S), s # <<>>, NEW j, AtMostOnce(s, j)
    PROVE  /\ AtMostOnce(Tail(s), j)
           /\ Head(s).job = j => \A t \in Elements(Tail(s)) : t.job # j
  <1>1. /\ Len(s) \in Nat /\ Len(s) # 0 /\ Len(Tail(s)) = Len(s) - 1 /\ Head(s) = s[1]
    OBVIOUS
  <1>2. \A i \in 1..Len(Tail(s)) : i + 1 \in 1..Len(s) /\ i + 1 # 1 /\ Tail(s)[i] = s[i + 1]
    BY <1>1
  <1>3. 1 \in 1..Len(s)
    BY <1>1
  <1>4. AtMostOnce(Tail(s), j)
    <2> SUFFICES ASSUME NEW i \in 1..Len(Tail(s)), NEW k \in 1..Len(Tail(s)),
                        Tail(s)[i].job = j, Tail(s)[k].job = j
                 PROVE  i = k
      BY DEF AtMostOnce
    <2>1. i + 1 = k + 1
      BY <1>2 DEF AtMostOnce
    <2> QED BY <1>1, <2>1
  <1>5. Head(s).job = j => \A i \in 1..Len(Tail(s)) : Tail(s)[i].job # j
    BY <1>1, <1>2, <1>3 DEF AtMostOnce
  <1> QED BY <1>4, <1>5 DEF Elements

(* Membership in Pend. *)
LEMMA PendMember ==
    ASSUME NEW t
    PROVE  t \in Pend <=>
             /\ t \in waiting \/ t \in due
             /\ \A w \in Workers : pc[w] = "remove" => t \notin Elements(batch[w])
  BY DEF Pend, Scheduled

(* Every step keeps the envelopes within the jobs that were enqueued. *)
LEMMA KnownStep ==
    ASSUME TypeOK, TypeOK', Known, Next
    PROVE  Known'
  <1> USE DEF Goto, redis, workers, history
  <1>t. /\ pc \in [Workers -> Stages] /\ held \in [Workers -> Minted \cup {None}]
        /\ batch \in [Workers -> Seq(Minted)] /\ queue \in Seq(Minted)
        /\ fate \in [Jobs -> SUBSET Fates] /\ runs \in [Jobs -> Nat] /\ faults \in Nat
        /\ offered \subseteq Jobs
    BY DEF TypeOK
  <1>h. ASSUME NEW w \in Workers, pc[w] \in Busy
        PROVE  held[w] \in Minted /\ held[w].job \in Jobs
    BY <1>h DEF TypeOK, Minted
  <1>q. queue # <<>> => /\ Elements(queue) = {Head(queue)} \cup Elements(Tail(queue))
                        /\ Head(queue) \in Minted
    BY <1>t, ElementsTail
  <1>j. queue # <<>> => Head(queue).job \in Jobs
    BY <1>q DEF Minted
  <1>e. Elements(<<>>) = {}
    BY DEF Elements
  <1>1. ASSUME NEW j \in Jobs, EnqueueTask(j) PROVE Known'
    <2>1. /\ Elements(queue') \subseteq Elements(queue) \cup {NewTask(j)}
          /\ Scheduled' \subseteq Scheduled \cup {NewTask(j)}
          /\ ~RetryDelayed => \A u \in Scheduled' : Kind[u.job] = "timed"
      <3>1. NewTask(j).job = j /\ NewTask(j) \in Minted
        BY ConstantsAssumption DEF NewTask, Minted, TypeOK, ConstantsAssumption
      <3>2. CASE Kind[j] = "timed"
        BY <1>1, <3>1, <3>2 DEF EnqueueTask, ScheduleForLater, Scheduled, Known
      <3>3. CASE Kind[j] # "timed"
        <4>1. queue' = Append(queue, NewTask(j)) /\ UNCHANGED <<waiting, due>>
          BY <1>1, <3>3 DEF EnqueueTask
        <4>2. Elements(queue') = Elements(queue) \cup {NewTask(j)}
          BY <1>t, <3>1, <4>1, ElementsAppend
        <4> QED BY <4>1, <4>2 DEF Scheduled, Known
      <3> QED BY <3>2, <3>3
    <2> QED BY <1>1, <2>1 DEF EnqueueTask, NewTask, Known
  <1>2. ASSUME NEW j \in Jobs, EnqueueFails(j) PROVE Known'
    BY <1>2 DEF EnqueueFails, Settle, Known, Scheduled
  <1>3. ASSUME NEW t \in waiting, Ripen(t) PROVE Known'
    BY <1>3 DEF Ripen, Known, Scheduled
  <1>4. ASSUME NEW w \in Workers, DrainRead(w) PROVE Known'
    <2>1. Elements(batch'[w]) \subseteq due /\ \A v \in Workers \ {w} : batch'[v] = batch[v]
      BY <1>4, <1>t DEF DrainRead, Elements
    <2> QED BY <1>4, <1>t, <2>1 DEF DrainRead, Known, Scheduled, Busy
  <1>5. ASSUME NEW w \in Workers, DrainPush(w) PROVE Known'
    <2>1. Elements(queue') = Elements(queue) \cup Elements(batch[w])
      BY <1>5, <1>t, ElementsConcat DEF DrainPush
    <2> QED BY <1>5, <1>t, <2>1 DEF DrainPush, Known, Scheduled, Busy
  <1>6. ASSUME NEW w \in Workers, DrainRemove(w) PROVE Known'
    BY <1>6, <1>e DEF DrainRemove, Known, Scheduled, Busy
  <1>7. ASSUME NEW w \in Workers, PopTimeout(w) PROVE Known'
    BY <1>7 DEF PopTimeout, Known, Scheduled, Busy
  <1>8. ASSUME NEW w \in Workers, PopTask(w) PROVE Known'
    BY <1>8, <1>t, <1>q DEF PopTask, Known, Scheduled
  <1>9. ASSUME NEW w \in Workers, PopDiscarded(w) PROVE Known'
    <2>1. \A k \in Jobs : k # Head(queue).job => fate'[k] = fate[k]
      BY <1>9, <1>t, <1>j DEF PopDiscarded, Settle
    <2>2. Head(queue).job \in offered /\ UNCHANGED <<waiting, due, batch, held, offered, runs>>
      BY <1>9, <1>q DEF PopDiscarded, Known
    <2>3. \A v \in Workers : pc'[v] \in Busy => pc[v] \in Busy
      BY <1>9, <1>t DEF PopDiscarded, Busy
    <2>4. Elements(queue') \subseteq Elements(queue)
      BY <1>9, <1>q DEF PopDiscarded
    <2> QED BY <2>1, <2>2, <2>3, <2>4 DEF Known, Scheduled
  <1>10. ASSUME NEW w \in Workers, HandleOk(w) PROVE Known'
    BY <1>10 DEF HandleOk, Ran, Settle, Known, Scheduled, Busy
  <1>11. ASSUME NEW w \in Workers, HandleFails(w) PROVE Known'
    BY <1>11 DEF HandleFails, Ran, Known, Scheduled, Busy
  <1>12. ASSUME NEW w \in Workers, HandleDefers(w) PROVE Known'
    BY <1>12 DEF HandleDefers, ScheduleForLater, Deferred, Ran, Known, Scheduled, Busy
  <1>13. ASSUME NEW w \in Workers, RecordSuccess(w) PROVE Known'
    BY <1>13, <1>t DEF RecordSuccess, Known, Scheduled, Busy
  <1>14. ASSUME NEW w \in Workers, RecordFailure(w) PROVE Known'
    BY <1>14 DEF RecordFailure, Known, Scheduled, Busy
  <1>15. ASSUME NEW w \in Workers, Requeue(w) PROVE Known'
    <2> DEFINE d == RequeueWithAttempt(held[w])
    <2>1. d \in Minted /\ d.job = held[w].job /\ held[w].job \in offered
      BY <1>15, <1>h, ConstantsAssumption
      DEF Requeue, Known, Busy, RequeueWithAttempt, Minted, ConstantsAssumption
    <2>2. /\ Elements(queue') \subseteq Elements(queue) \cup {d}
          /\ Scheduled' \subseteq Scheduled \cup {d}
          /\ ~RetryDelayed => Scheduled' = Scheduled
      <3> HIDE DEF d
      <3>1. CASE RetryDelayed
        BY <1>15, <3>1 DEF Requeue, ScheduleForLater, Scheduled, d
      <3>2. CASE ~RetryDelayed
        <4>1. queue' = Append(queue, d) /\ UNCHANGED <<waiting, due>>
          BY <1>15, <3>2 DEF Requeue, d
        <4> QED BY <1>t, <2>1, <4>1, ElementsAppend DEF Scheduled
      <3> QED BY <3>1, <3>2
    <2> HIDE DEF d
    <2> QED BY <1>15, <1>t, <2>1, <2>2 DEF Requeue, Known, Busy
  <1>16. ASSUME NEW w \in Workers, DropTask(w) PROVE Known'
    BY <1>16, <1>t DEF DropTask, Settle, Known, Scheduled, Busy
  <1>17. ASSUME NEW w \in Workers, Restart(w) PROVE Known'
    BY <1>17 DEF Restart, Known, Scheduled, Busy
  <1>18. ASSUME NEW w \in Workers, RecordSuccessFails(w) PROVE Known'
    BY <1>18 DEF RecordSuccessFails, Known, Scheduled, Busy
  <1>19. ASSUME NEW w \in Workers, RecordFailureFails(w) PROVE Known'
    BY <1>19, <1>t DEF RecordFailureFails, Settle, Known, Scheduled, Busy
  <1>20. ASSUME NEW w \in Workers, RequeueFails(w) PROVE Known'
    BY <1>20, <1>t DEF RequeueFails, Settle, Known, Scheduled, Busy
  <1>21. ASSUME NEW w \in Workers, DequeueFails(w) PROVE Known'
    BY <1>21, <1>e DEF DequeueFails, Known, Scheduled, Busy
  <1>22. ASSUME NEW w \in Workers, PopReplyLost(w) PROVE Known'
    BY <1>22, <1>q DEF PopReplyLost, Settle, Known, Scheduled, Busy
  <1>23. ASSUME NEW w \in Workers, Crash(w) PROVE Known'
    BY <1>23, <1>t, <1>e DEF Crash, Settle, Known, Scheduled, Busy
  <1> QED
    BY <1>1, <1>2, <1>3, <1>4, <1>5, <1>6, <1>7, <1>8, <1>9, <1>10, <1>11, <1>12, <1>13, <1>14,
       <1>15, <1>16, <1>17, <1>18, <1>19, <1>20, <1>21, <1>22, <1>23
    DEF Next, WorkerStep, WorkerFault

(* One worker: what a drain has read stays in the sorted set until it is pushed. *)
LEMMA BatchReadStep ==
    ASSUME OneWorker, TypeOK, TypeOK', BatchRead, Next
    PROVE  BatchRead'
  <1> USE DEF Goto, redis, workers, history
  <1>t. /\ pc \in [Workers -> Stages] /\ held \in [Workers -> Minted \cup {None}]
        /\ batch \in [Workers -> Seq(Minted)] /\ queue \in Seq(Minted)
        /\ fate \in [Jobs -> SUBSET Fates] /\ runs \in [Jobs -> Nat] /\ faults \in Nat
        /\ offered \subseteq Jobs
    BY DEF TypeOK
  <1>h. ASSUME NEW w \in Workers, pc[w] \in Busy
        PROVE  held[w] \in Minted /\ held[w].job \in Jobs
    BY <1>h DEF TypeOK, Minted
  <1>q. queue # <<>> => /\ Elements(queue) = {Head(queue)} \cup Elements(Tail(queue))
                        /\ Head(queue) \in Minted
    BY <1>t, ElementsTail
  <1>j. queue # <<>> => Head(queue).job \in Jobs
    BY <1>q DEF Minted
  <1>e. Elements(<<>>) = {}
    BY DEF Elements
  <1>1. ASSUME NEW j \in Jobs, EnqueueTask(j) PROVE BatchRead'
    BY <1>1 DEF EnqueueTask, ScheduleForLater, BatchRead, Scheduled
  <1>2. ASSUME NEW j \in Jobs, EnqueueFails(j) PROVE BatchRead'
    BY <1>2, <1>t DEF EnqueueFails, Fault, BatchRead
  <1>3. ASSUME NEW t \in waiting, Ripen(t) PROVE BatchRead'
    BY <1>3 DEF Ripen, BatchRead, Scheduled
  <1>4. ASSUME NEW w \in Workers, DrainRead(w) PROVE BatchRead'
    <2>1. PICK n \in 0..BatchSize : \E ready \in [1..n -> due] :
             /\ \A a, b \in 1..n : ready[a] = ready[b] => a = b
             /\ batch' = [batch EXCEPT ![w] = ready]
      BY <1>4 DEF DrainRead
    <2>2. PICK ready \in [1..n -> due] :
             /\ \A a, b \in 1..n : ready[a] = ready[b] => a = b
             /\ batch' = [batch EXCEPT ![w] = ready]
      BY <2>1
    <2>3. batch'[w] = ready /\ Len(ready) = n /\ Elements(ready) \subseteq due
      BY <1>t, <2>2, ConstantsAssumption DEF Elements, ConstantsAssumption
    <2>4. \A v \in Workers : v = w
      BY DEF OneWorker
    <2> QED BY <1>4, <2>2, <2>3, <2>4 DEF DrainRead, BatchRead, Scheduled
  <1>5. ASSUME NEW w \in Workers, DrainPush(w) PROVE BatchRead'
    BY <1>5, <1>t DEF DrainPush, BatchRead, OneWorker
  <1>6. ASSUME NEW w \in Workers, DrainRemove(w) PROVE BatchRead'
    BY <1>6 DEF DrainRemove, BatchRead, OneWorker
  <1>7. ASSUME NEW w \in Workers, PopTimeout(w) PROVE BatchRead'
    BY <1>7 DEF PopTimeout, BatchRead, OneWorker
  <1>8. ASSUME NEW w \in Workers, PopTask(w) PROVE BatchRead'
    BY <1>8 DEF PopTask, BatchRead, OneWorker
  <1>9. ASSUME NEW w \in Workers, PopDiscarded(w) PROVE BatchRead'
    BY <1>9 DEF PopDiscarded, BatchRead, OneWorker
  <1>10. ASSUME NEW w \in Workers, HandleOk(w) PROVE BatchRead'
    BY <1>10 DEF HandleOk, BatchRead, OneWorker
  <1>11. ASSUME NEW w \in Workers, HandleFails(w) PROVE BatchRead'
    BY <1>11 DEF HandleFails, BatchRead, OneWorker
  <1>12. ASSUME NEW w \in Workers, HandleDefers(w) PROVE BatchRead'
    BY <1>12 DEF HandleDefers, BatchRead, OneWorker
  <1>13. ASSUME NEW w \in Workers, RecordSuccess(w) PROVE BatchRead'
    BY <1>13 DEF RecordSuccess, BatchRead, OneWorker
  <1>14. ASSUME NEW w \in Workers, RecordFailure(w) PROVE BatchRead'
    BY <1>14 DEF RecordFailure, BatchRead, OneWorker
  <1>15. ASSUME NEW w \in Workers, Requeue(w) PROVE BatchRead'
    BY <1>15 DEF Requeue, BatchRead, OneWorker
  <1>16. ASSUME NEW w \in Workers, DropTask(w) PROVE BatchRead'
    BY <1>16 DEF DropTask, BatchRead, OneWorker
  <1>17. ASSUME NEW w \in Workers, Restart(w) PROVE BatchRead'
    BY <1>17 DEF Restart, BatchRead, OneWorker
  <1>18. ASSUME NEW w \in Workers, RecordSuccessFails(w) PROVE BatchRead'
    BY <1>18 DEF RecordSuccessFails, BatchRead, OneWorker
  <1>19. ASSUME NEW w \in Workers, RecordFailureFails(w) PROVE BatchRead'
    BY <1>19 DEF RecordFailureFails, BatchRead, OneWorker
  <1>20. ASSUME NEW w \in Workers, RequeueFails(w) PROVE BatchRead'
    BY <1>20 DEF RequeueFails, BatchRead, OneWorker
  <1>21. ASSUME NEW w \in Workers, DequeueFails(w) PROVE BatchRead'
    BY <1>21, <1>t DEF DequeueFails, BatchRead, OneWorker
  <1>22. ASSUME NEW w \in Workers, PopReplyLost(w) PROVE BatchRead'
    BY <1>22 DEF PopReplyLost, BatchRead, OneWorker
  <1>23. ASSUME NEW w \in Workers, Crash(w) PROVE BatchRead'
    BY <1>23, <1>t DEF Crash, BatchRead, OneWorker
  <1> QED
    BY <1>1, <1>2, <1>3, <1>4, <1>5, <1>6, <1>7, <1>8, <1>9, <1>10, <1>11, <1>12, <1>13, <1>14,
       <1>15, <1>16, <1>17, <1>18, <1>19, <1>20, <1>21, <1>22, <1>23
    DEF Next, WorkerStep, WorkerFault

-----------------------------------------------------------------------------
(* How the steps move copies between the list, the sorted set and the hands. *)

(* No copy of j enters the list or the sorted set. *)
SamePlaces(j) == queue' = queue /\ \A u \in Pend' : u.job = j => u \in Pend

(* The steps that put nothing into the list or the sorted set; a failed     *)
(* drain revives the members it was about to remove, so from then on only   *)
(* jobs that never enter the sorted set are tracked.                        *)
QuietStep(w) ==
    \/ DrainRead(w) \/ DrainRemove(w) \/ PopTimeout(w)
    \/ HandleOk(w) \/ HandleFails(w) \/ RecordSuccess(w) \/ RecordFailure(w) \/ DropTask(w)
    \/ Restart(w) \/ RecordSuccessFails(w) \/ RecordFailureFails(w) \/ RequeueFails(w)
    \/ DequeueFails(w) \/ Crash(w)

LEMMA QuietPlaces ==
    ASSUME TypeOK, Known', NEW j \in Jobs, Tracked(j)',
           \/ \E w \in Workers : QuietStep(w)
           \/ \E k \in Jobs : EnqueueFails(k)
           \/ \E t \in waiting : Ripen(t)
    PROVE  SamePlaces(j)
  <1> USE DEF Goto, redis, workers, history
  <1>t. /\ pc \in [Workers -> Stages] /\ held \in [Workers -> Minted \cup {None}]
        /\ batch \in [Workers -> Seq(Minted)] /\ queue \in Seq(Minted)
        /\ fate \in [Jobs -> SUBSET Fates] /\ runs \in [Jobs -> Nat] /\ faults \in Nat
        /\ offered \subseteq Jobs
    BY DEF TypeOK
  <1>c. ASSUME NEW t
        PROVE  t \in Pend <=>
                 /\ t \in waiting \/ t \in due
                 /\ \A w \in Workers : pc[w] = "remove" => t \notin Elements(batch[w])
    BY PendMember
  <1>p. ASSUME NEW t
        PROVE  t \in Pend' <=>
                 /\ t \in waiting' \/ t \in due'
                 /\ \A w \in Workers : pc'[w] = "remove" => t \notin Elements(batch'[w])
    BY DEF Pend, Scheduled
  <1>1. ASSUME NEW k \in Jobs, EnqueueFails(k) PROVE SamePlaces(j)
    BY <1>1, <1>t, <1>c, <1>p DEF EnqueueFails, SamePlaces
  <1>2. ASSUME NEW t \in waiting, Ripen(t) PROVE SamePlaces(j)
    BY <1>2, <1>t, <1>c, <1>p DEF Ripen, SamePlaces
  <1>3. ASSUME NEW w \in Workers, DrainRead(w) PROVE SamePlaces(j)
    BY <1>3, <1>t, <1>c, <1>p DEF DrainRead, SamePlaces
  <1>4. ASSUME NEW w \in Workers, DrainRemove(w) PROVE SamePlaces(j)
    BY <1>4, <1>t, <1>c, <1>p DEF DrainRemove, SamePlaces
  <1>5. ASSUME NEW w \in Workers, PopTimeout(w) PROVE SamePlaces(j)
    BY <1>5, <1>t, <1>c, <1>p DEF PopTimeout, SamePlaces
  <1>6. ASSUME NEW w \in Workers, HandleOk(w) PROVE SamePlaces(j)
    BY <1>6, <1>t, <1>c, <1>p DEF HandleOk, SamePlaces
  <1>7. ASSUME NEW w \in Workers, HandleFails(w) PROVE SamePlaces(j)
    BY <1>7, <1>t, <1>c, <1>p DEF HandleFails, SamePlaces
  <1>8. ASSUME NEW w \in Workers, RecordSuccess(w) PROVE SamePlaces(j)
    BY <1>8, <1>t, <1>c, <1>p DEF RecordSuccess, SamePlaces
  <1>9. ASSUME NEW w \in Workers, RecordFailure(w) PROVE SamePlaces(j)
    BY <1>9, <1>t, <1>c, <1>p DEF RecordFailure, SamePlaces
  <1>10. ASSUME NEW w \in Workers, DropTask(w) PROVE SamePlaces(j)
    BY <1>10, <1>t, <1>c, <1>p DEF DropTask, SamePlaces
  <1>11. ASSUME NEW w \in Workers, Restart(w) PROVE SamePlaces(j)
    BY <1>11, <1>t, <1>c, <1>p DEF Restart, SamePlaces
  <1>12. ASSUME NEW w \in Workers, RecordSuccessFails(w) PROVE SamePlaces(j)
    BY <1>12, <1>t, <1>c, <1>p DEF RecordSuccessFails, SamePlaces
  <1>13. ASSUME NEW w \in Workers, RecordFailureFails(w) PROVE SamePlaces(j)
    BY <1>13, <1>t, <1>c, <1>p DEF RecordFailureFails, SamePlaces
  <1>14. ASSUME NEW w \in Workers, RequeueFails(w) PROVE SamePlaces(j)
    BY <1>14, <1>t, <1>c, <1>p DEF RequeueFails, SamePlaces
  <1>15. ASSUME NEW w \in Workers, DequeueFails(w) PROVE SamePlaces(j)
    <2>1. queue' = queue /\ ~(faults' = 0)
      BY <1>15, <1>t DEF DequeueFails, Fault
    <2>2. \A u \in Pend' : Kind[u.job] = "timed"
      BY <2>1 DEF Pend, Tracked, Known
    <2> QED BY <2>1, <2>2 DEF SamePlaces, Tracked
  <1>16. ASSUME NEW w \in Workers, Crash(w) PROVE SamePlaces(j)
    <2>1. queue' = queue /\ ~(faults' = 0)
      BY <1>16, <1>t DEF Crash, Fault
    <2>2. \A u \in Pend' : Kind[u.job] = "timed"
      BY <2>1 DEF Pend, Tracked, Known
    <2> QED BY <2>1, <2>2 DEF SamePlaces, Tracked
  <1> QED
    BY <1>1, <1>2, <1>3, <1>4, <1>5, <1>6, <1>7, <1>8, <1>9, <1>10, <1>11, <1>12, <1>13, <1>14,
       <1>15, <1>16
    DEF QuietStep

(* A step puts the envelope d into the list or the sorted set. *)
Adds(d) ==
    \/ queue' = Append(queue, d) /\ Pend' \subseteq Pend
    \/ queue' = queue /\ Pend' \subseteq Pend \cup {d}

(* A step pops the list. *)
Takes == queue # <<>> /\ queue' = Tail(queue) /\ Pend' \subseteq Pend

LEMMA LoudPlaces ==
    ASSUME TypeOK
    PROVE  /\ \A k \in Jobs : EnqueueTask(k) => Adds(NewTask(k))
           /\ \A w \in Workers : HandleDefers(w) => Adds(Deferred(held[w], stamps + 1))
           /\ \A w \in Workers : Requeue(w) => Adds(RequeueWithAttempt(held[w]))
           /\ \A w \in Workers : PopTask(w) \/ PopDiscarded(w) \/ PopReplyLost(w) => Takes
  <1> USE DEF Goto, redis, workers, history
  <1>t. /\ pc \in [Workers -> Stages] /\ held \in [Workers -> Minted \cup {None}]
        /\ batch \in [Workers -> Seq(Minted)] /\ queue \in Seq(Minted)
        /\ fate \in [Jobs -> SUBSET Fates] /\ runs \in [Jobs -> Nat] /\ faults \in Nat
        /\ offered \subseteq Jobs
    BY DEF TypeOK
  <1>c. ASSUME NEW t
        PROVE  t \in Pend <=>
                 /\ t \in waiting \/ t \in due
                 /\ \A w \in Workers : pc[w] = "remove" => t \notin Elements(batch[w])
    BY PendMember
  <1>p. ASSUME NEW t
        PROVE  t \in Pend' <=>
                 /\ t \in waiting' \/ t \in due'
                 /\ \A w \in Workers : pc'[w] = "remove" => t \notin Elements(batch'[w])
    BY DEF Pend, Scheduled
  <1>1. ASSUME NEW k \in Jobs, EnqueueTask(k) PROVE Adds(NewTask(k))
    <2>1. CASE Kind[k] = "timed"
      BY <1>1, <2>1, <1>c, <1>p DEF EnqueueTask, ScheduleForLater, Adds
    <2>2. CASE Kind[k] # "timed"
      BY <1>1, <2>2, <1>c, <1>p DEF EnqueueTask, Adds
    <2> QED BY <2>1, <2>2
  <1>2. ASSUME NEW w \in Workers, HandleDefers(w) PROVE Adds(Deferred(held[w], stamps + 1))
    BY <1>2, <1>t, <1>c, <1>p DEF HandleDefers, ScheduleForLater, Adds
  <1>3. ASSUME NEW w \in Workers, Requeue(w) PROVE Adds(RequeueWithAttempt(held[w]))
    <2>1. CASE RetryDelayed
      BY <1>3, <2>1, <1>t, <1>c, <1>p DEF Requeue, ScheduleForLater, Adds
    <2>2. CASE ~RetryDelayed
      BY <1>3, <2>2, <1>t, <1>c, <1>p DEF Requeue, Adds
    <2> QED BY <2>1, <2>2
  <1>4. ASSUME NEW w \in Workers, PopTask(w) PROVE Takes
    BY <1>4, <1>t, <1>c, <1>p DEF PopTask, Takes
  <1>5. ASSUME NEW w \in Workers, PopDiscarded(w) PROVE Takes
    BY <1>5, <1>t, <1>c, <1>p DEF PopDiscarded, Takes
  <1>6. ASSUME NEW w \in Workers, PopReplyLost(w) PROVE Takes
    BY <1>6, <1>t, <1>c, <1>p DEF PopReplyLost, Takes
  <1> QED BY <1>1, <1>2, <1>3, <1>4, <1>5, <1>6

(* The LPUSH turns the pending members of the batch into list items. *)
LEMMA PushPlaces ==
    ASSUME OneWorker, TypeOK, Known, BatchRead, NEW w \in Workers, DrainPush(w)
    PROVE  /\ queue' = queue \o batch[w]
           /\ Elements(queue') = Elements(queue) \cup Elements(batch[w])
           /\ Pend' = Pend \ Elements(batch[w])
           /\ faults = 0 => Elements(batch[w]) \subseteq Pend
  <1> USE DEF Goto, redis, workers, history
  <1>t. /\ pc \in [Workers -> Stages] /\ held \in [Workers -> Minted \cup {None}]
        /\ batch \in [Workers -> Seq(Minted)] /\ queue \in Seq(Minted)
        /\ fate \in [Jobs -> SUBSET Fates] /\ runs \in [Jobs -> Nat] /\ faults \in Nat
        /\ offered \subseteq Jobs
    BY DEF TypeOK
  <1>c. ASSUME NEW t
        PROVE  t \in Pend <=>
                 /\ t \in waiting \/ t \in due
                 /\ \A v \in Workers : pc[v] = "remove" => t \notin Elements(batch[v])
    BY PendMember
  <1>p. ASSUME NEW t
        PROVE  t \in Pend' <=>
                 /\ t \in waiting' \/ t \in due'
                 /\ \A v \in Workers : pc'[v] = "remove" => t \notin Elements(batch'[v])
    BY DEF Pend, Scheduled
  <1>1. queue' = queue \o batch[w] /\ UNCHANGED <<waiting, due, batch, faults>> /\ pc[w] = "push"
        /\ pc'[w] = "remove"
    BY <1>t DEF DrainPush
  <1>2. \A v \in Workers : v = w
    BY DEF OneWorker
  <1>3. Elements(queue') = Elements(queue) \cup Elements(batch[w])
    BY <1>1, <1>t, ElementsConcat
  <1>4. Pend' = Pend \ Elements(batch[w])
    BY <1>1, <1>2, <1>c, <1>p
  <1>5. faults = 0 => Elements(batch[w]) \subseteq Pend
    BY <1>1, <1>2, <1>c DEF BatchRead, Scheduled
  <1> QED BY <1>1, <1>3, <1>4, <1>5

(* Uniqueness carries over steps that add no copy of the job, ... *)
LEMMA UniqueQuiet ==
    ASSUME NEW j, Unique(j), SamePlaces(j), \A w \in Workers : Holds(w, j)' => Holds(w, j)
    PROVE  Unique(j)'
  BY DEF Unique, SamePlaces, AtMostOnce

(* ... over steps that add one where there was none, ... *)
LEMMA UniqueAdds ==
    ASSUME NEW j, NEW S, queue \in Seq(S), NEW d \in S, Unique(j), Adds(d),
           d.job = j => /\ \A t \in Elements(queue) : t.job # j
                        /\ \A u \in Pend : u.job # j
                        /\ \A w \in Workers : ~Holds(w, j)',
           \A w \in Workers : Holds(w, j)' => Holds(w, j)
    PROVE  Unique(j)'
  <1>1. CASE queue' = Append(queue, d) /\ Pend' \subseteq Pend
    <2>1. Elements(queue') = Elements(queue) \cup {d}
      BY <1>1, ElementsAppend
    <2>2. AtMostOnce(queue', j)
      BY <1>1, OnceAppend DEF Unique
    <2> QED BY <1>1, <2>1, <2>2 DEF Unique
  <1>2. CASE queue' = queue /\ Pend' \subseteq Pend \cup {d}
    BY <1>2 DEF Unique, AtMostOnce
  <1> QED BY <1>1, <1>2 DEF Adds

(* ... and over a pop into the worker's hands or out of the queue. *)
LEMMA UniqueTakes ==
    ASSUME NEW j, NEW S, queue \in Seq(S), Unique(j), Takes,
           \A w \in Workers : Holds(w, j)' => Holds(w, j) \/ Head(queue).job = j
    PROVE  Unique(j)'
  <1>1. Elements(queue) = {Head(queue)} \cup Elements(queue')
    BY ElementsTail DEF Takes
  <1>2. /\ AtMostOnce(queue', j)
        /\ Head(queue).job = j => \A t \in Elements(queue') : t.job # j
    BY OnceTail DEF Takes, Unique
  <1> QED BY <1>1, <1>2 DEF Takes, Unique

(* What a put leaves in the list and the sorted set. *)
LEMMA AddsMember ==
    ASSUME NEW S, queue \in Seq(S), NEW d \in S, Adds(d)
    PROVE  \A t \in Elements(queue') \cup Pend' : t \in Elements(queue) \cup Pend \/ t = d
  <1>1. CASE queue' = Append(queue, d) /\ Pend' \subseteq Pend
    BY <1>1, ElementsAppend
  <1>2. CASE queue' = queue /\ Pend' \subseteq Pend \cup {d}
    BY <1>2
  <1> QED BY <1>1, <1>2 DEF Adds

(* The count carries over steps that run no handler and add no copy. *)
LEMMA CountedQuiet ==
    ASSUME NEW j, Counted(j), SamePlaces(j), runs' = runs,
           \A v \in Workers : pc'[v] \in Busy =>
               pc[v] \in Busy /\ held'[v] = held[v] /\ (pc'[v] = "handle" => pc[v] = "handle")
    PROVE  Counted(j)'
  <1>1. \A t \in Elements(queue') \cup Pend' : t.job = j => t \in Elements(queue) \cup Pend
    BY DEF SamePlaces
  <1>2. \A v \in Workers : held'[v].job = j =>
          /\ pc'[v] = "handle" => runs'[j] <= held'[v].attempts
          /\ pc'[v] \in Busy => runs'[j] <= held'[v].attempts + 1
    BY DEF Counted, Busy
  <1> QED BY <1>1, <1>2 DEF Counted

(* One worker: every step leaves a tracked job with at most one copy. *)
LEMMA UniqueStep ==
    ASSUME OneWorker, TypeOK, TypeOK', Known, Known', BatchRead, Next,
           NEW j \in Jobs, Tracked(j)', Unique(j)
    PROVE  Unique(j)'
  <1> USE DEF Goto, redis, workers, history
  <1>t. /\ pc \in [Workers -> Stages] /\ held \in [Workers -> Minted \cup {None}]
        /\ batch \in [Workers -> Seq(Minted)] /\ queue \in Seq(Minted)
        /\ fate \in [Jobs -> SUBSET Fates] /\ runs \in [Jobs -> Nat] /\ faults \in Nat
        /\ offered \subseteq Jobs
    BY DEF TypeOK
  <1>h. ASSUME NEW w \in Workers, pc[w] \in Busy
        PROVE  held[w] \in Minted /\ held[w].job \in Jobs
    BY <1>h DEF TypeOK, Minted
  <1>q. queue # <<>> => /\ Elements(queue) = {Head(queue)} \cup Elements(Tail(queue))
                        /\ Head(queue) \in Minted
    BY <1>t, ElementsTail
  <1>j. queue # <<>> => Head(queue).job \in Jobs
    BY <1>q DEF Minted
  <1>e. Elements(<<>>) = {}
    BY DEF Elements
  <1>1. ASSUME NEW k \in Jobs, EnqueueTask(k) PROVE Unique(j)'
    <2>0. NewTask(k) \in Minted /\ NewTask(k).job = k
      BY ConstantsAssumption DEF NewTask, Minted, TypeOK, ConstantsAssumption
    <2>1. Adds(NewTask(k))
      BY <1>1, LoudPlaces
    <2>2. \A v \in Workers : Holds(v, j)' => Holds(v, j) /\ j \in offered
      BY <1>1 DEF EnqueueTask, Holds, Known, Busy
    <2>3. (\A t \in Elements(queue) : t.job # k) /\ (\A u \in Pend : u.job # k)
      BY <1>1 DEF EnqueueTask, Known, Pend
    <2>4. k \notin offered
      BY <1>1 DEF EnqueueTask
    <2> QED BY <1>t, <2>0, <2>1, <2>2, <2>3, <2>4, UniqueAdds
  <1>2. ASSUME NEW k \in Jobs, EnqueueFails(k) PROVE Unique(j)'
    <2>1. SamePlaces(j)
      BY <1>2, QuietPlaces DEF QuietStep
    <2>2. \A v \in Workers : Holds(v, j)' => Holds(v, j)
      BY <1>2, <1>t DEF EnqueueFails, Fault, Holds, Tracked
    <2> QED BY <2>1, <2>2, UniqueQuiet
  <1>3. ASSUME NEW t \in waiting, Ripen(t) PROVE Unique(j)'
    <2>1. SamePlaces(j)
      BY <1>3, QuietPlaces DEF QuietStep
    <2>2. \A v \in Workers : Holds(v, j)' => Holds(v, j)
      BY <1>3, <1>t DEF Ripen, Holds, Tracked
    <2> QED BY <2>1, <2>2, UniqueQuiet
  <1>4. ASSUME NEW w \in Workers, QuietStep(w) PROVE Unique(j)'
    <2>1. SamePlaces(j)
      BY <1>4, QuietPlaces
    <2>2. \A v \in Workers : pc'[v] \in Busy =>
             /\ pc[v] \in Busy /\ held'[v] = held[v]
             /\ pc[v] = "recording" => pc'[v] = "recording" \/ faults' # 0
      BY <1>4, <1>t
      DEF QuietStep, Busy, Fault, DrainRead, DrainRemove, PopTimeout, HandleOk, HandleFails,
          RecordSuccess, RecordFailure, DropTask, Restart, RecordSuccessFails,
          RecordFailureFails, RequeueFails, DequeueFails, Crash
    <2>3. \A v \in Workers : Holds(v, j)' => Holds(v, j)
      BY <2>2 DEF Holds, Tracked, Busy
    <2> QED BY <2>1, <2>3, UniqueQuiet
  <1>5. ASSUME NEW w \in Workers, DrainPush(w) PROVE Unique(j)'
    <2>1. /\ queue' = queue \o batch[w] /\ Pend' = Pend \ Elements(batch[w])
          /\ Elements(queue') = Elements(queue) \cup Elements(batch[w])
          /\ faults = 0 => Elements(batch[w]) \subseteq Pend
      BY <1>5, PushPlaces
    <2>2. \A v \in Workers : Holds(v, j)' => Holds(v, j)
      BY <1>5, <1>t DEF DrainPush, Holds
    <2>3. \A e \in Elements(batch[w]) : e.job = j => e \in Pend /\ faults = 0
      BY <1>5, <2>1 DEF DrainPush, Tracked, Known
    <2>4. AtMostOnce(batch[w], j)
      <3> SUFFICES ASSUME NEW i \in 1..Len(batch[w]), NEW k \in 1..Len(batch[w]),
                          batch[w][i].job = j, batch[w][k].job = j
                   PROVE  i = k
        BY DEF AtMostOnce
      <3>1. batch[w][i] \in Pend /\ batch[w][k] \in Pend /\ faults = 0
        BY <2>3 DEF Elements
      <3>2. batch[w][i] = batch[w][k]
        BY <3>1 DEF Unique
      <3> QED BY <1>5, <3>1, <3>2 DEF DrainPush, BatchRead
    <2>5. \A a \in Elements(queue), b \in Elements(batch[w]) : ~(a.job = j /\ b.job = j)
      BY <2>3 DEF Unique
    <2>6. AtMostOnce(queue', j)
      BY <1>t, <2>1, <2>4, <2>5, OnceConcat DEF Unique
    <2> QED BY <2>1, <2>2, <2>3, <2>6 DEF Unique
  <1>6. ASSUME NEW w \in Workers, PopTask(w) PROVE Unique(j)'
    <2>1. Takes
      BY <1>6, LoudPlaces
    <2>2. \A v \in Workers : Holds(v, j)' => Holds(v, j) \/ Head(queue).job = j
      BY <1>6, <1>t DEF PopTask, Holds
    <2> QED BY <1>t, <2>1, <2>2, UniqueTakes
  <1>7. ASSUME NEW w \in Workers, PopDiscarded(w) PROVE Unique(j)'
    <2>1. Takes
      BY <1>7, LoudPlaces
    <2>2. \A v \in Workers : Holds(v, j)' => Holds(v, j) \/ Head(queue).job = j
      BY <1>7, <1>t DEF PopDiscarded, Holds
    <2> QED BY <1>t, <2>1, <2>2, UniqueTakes
  <1>8. ASSUME NEW w \in Workers, HandleDefers(w) PROVE Unique(j)'
    <2> DEFINE d == Deferred(held[w], stamps + 1)
    <2>1. Adds(d) /\ d.job = held[w].job
      BY <1>8, LoudPlaces DEF Deferred
    <2>2. Minted \subseteq Minted' /\ d \in Minted'
      BY <1>8, <1>h, ConstantsAssumption
      DEF HandleDefers, Deferred, Minted, Busy, TypeOK, ConstantsAssumption
    <2>3. queue \in Seq(Minted')
      BY <1>t, <2>2
    <2>4. \A v \in Workers : Holds(v, j)' => Holds(v, j)
      BY <1>8, <1>t DEF HandleDefers, Holds
    <2>5. d.job = j => Holds(w, j) /\ \A v \in Workers : ~Holds(v, j)'
      BY <1>8, <1>t, <2>1 DEF HandleDefers, Holds, OneWorker
    <2> HIDE DEF d
    <2>6. d.job = j => /\ \A t \in Elements(queue) : t.job # j
                       /\ \A u \in Pend : u.job # j
      BY <2>5 DEF Unique
    <2> QED BY <2>1, <2>2, <2>3, <2>4, <2>5, <2>6, UniqueAdds
  <1>9. ASSUME NEW w \in Workers, Requeue(w) PROVE Unique(j)'
    <2> DEFINE d == RequeueWithAttempt(held[w])
    <2>1. Adds(d) /\ d.job = held[w].job
      BY <1>9, LoudPlaces DEF RequeueWithAttempt
    <2>2. d \in Minted
      BY <1>9, <1>h, ConstantsAssumption
      DEF Requeue, RequeueWithAttempt, Minted, Busy, ConstantsAssumption
    <2>4. \A v \in Workers : Holds(v, j)' => Holds(v, j)
      BY <1>9, <1>t DEF Requeue, Holds
    <2>5. d.job = j => Holds(w, j) /\ \A v \in Workers : ~Holds(v, j)'
      BY <1>9, <1>t, <2>1 DEF Requeue, Holds, OneWorker
    <2> HIDE DEF d
    <2>6. d.job = j => /\ \A t \in Elements(queue) : t.job # j
                       /\ \A u \in Pend : u.job # j
      BY <2>5 DEF Unique
    <2> QED BY <1>t, <2>1, <2>2, <2>4, <2>5, <2>6, UniqueAdds
  <1>10. ASSUME NEW w \in Workers, PopReplyLost(w) PROVE Unique(j)'
    <2>1. Takes
      BY <1>10, LoudPlaces
    <2>2. \A v \in Workers : Holds(v, j)' => Holds(v, j) \/ Head(queue).job = j
      BY <1>10, <1>t DEF PopReplyLost, Fault, Holds
    <2> QED BY <1>t, <2>1, <2>2, UniqueTakes
  <1> QED
    BY <1>1, <1>2, <1>3, <1>4, <1>5, <1>6, <1>7, <1>8, <1>9, <1>10
    DEF Next, WorkerStep, WorkerFault, QuietStep

(* One worker: the attempts counter of the copy keeps bounding the handler runs. *)
LEMMA CountedStep ==
    ASSUME OneWorker, TypeOK, TypeOK', Known, Known', BatchRead, Next,
           NEW j \in Jobs, Tracked(j)', Kind[j] # "timed", Tracked(j), Unique(j), Counted(j)
    PROVE  Counted(j)'
  <1> USE DEF Goto, redis, workers, history
  <1>t. /\ pc \in [Workers -> Stages] /\ held \in [Workers -> Minted \cup {None}]
        /\ batch \in [Workers -> Seq(Minted)] /\ queue \in Seq(Minted)
        /\ fate \in [Jobs -> SUBSET Fates] /\ runs \in [Jobs -> Nat] /\ faults \in Nat
        /\ offered \subseteq Jobs
    BY DEF TypeOK
  <1>h. ASSUME NEW w \in Workers, pc[w] \in Busy
        PROVE  held[w] \in Minted /\ held[w].job \in Jobs
    BY <1>h DEF TypeOK, Minted
  <1>q. queue # <<>> => /\ Elements(queue) = {Head(queue)} \cup Elements(Tail(queue))
                        /\ Head(queue) \in Minted
    BY <1>t, ElementsTail
  <1>j. queue # <<>> => Head(queue).job \in Jobs
    BY <1>q DEF Minted
  <1>e. Elements(<<>>) = {}
    BY DEF Elements
  <1>1. ASSUME NEW k \in Jobs, EnqueueTask(k) PROVE Counted(j)'
    <2>0. NewTask(k) \in Minted /\ NewTask(k).job = k /\ NewTask(k).attempts = 0
      BY ConstantsAssumption DEF NewTask, Minted, TypeOK, ConstantsAssumption
    <2>1. Adds(NewTask(k))
      BY <1>1, LoudPlaces
    <2>2. \A t \in Elements(queue') \cup Pend' : t \in Elements(queue) \cup Pend \/ t = NewTask(k)
      BY <1>t, <2>0, <2>1, AddsMember
    <2>3. k = j => runs[j] = 0
      BY <1>1 DEF EnqueueTask, Known
    <2>4. UNCHANGED <<runs, pc, held>>
      BY <1>1 DEF EnqueueTask
    <2> QED BY <2>0, <2>2, <2>3, <2>4 DEF Counted
  <1>2. ASSUME NEW k \in Jobs, EnqueueFails(k) PROVE Counted(j)'
    <2>1. SamePlaces(j)
      BY <1>2, QuietPlaces DEF QuietStep
    <2>2. runs' = runs /\ \A v \in Workers : pc'[v] \in Busy =>
             pc[v] \in Busy /\ held'[v] = held[v] /\ (pc'[v] = "handle" => pc[v] = "handle")
      BY <1>2, <1>t DEF EnqueueFails, Fault, Busy
    <2> QED BY <2>1, <2>2, CountedQuiet
  <1>3. ASSUME NEW t \in waiting, Ripen(t) PROVE Counted(j)'
    <2>1. SamePlaces(j)
      BY <1>3, QuietPlaces DEF QuietStep
    <2>2. runs' = runs /\ \A v \in Workers : pc'[v] \in Busy =>
             pc[v] \in Busy /\ held'[v] = held[v] /\ (pc'[v] = "handle" => pc[v] = "handle")
      BY <1>3, <1>t DEF Ripen, Busy
    <2> QED BY <2>1, <2>2, CountedQuiet
  <1>4. ASSUME NEW w \in Workers, QuietStep(w), ~HandleOk(w), ~HandleFails(w) PROVE Counted(j)'
    <2>1. SamePlaces(j)
      BY <1>4, QuietPlaces
    <2>2. runs' = runs /\ \A v \in Workers : pc'[v] \in Busy =>
             pc[v] \in Busy /\ held'[v] = held[v] /\ (pc'[v] = "handle" => pc[v] = "handle")
      BY <1>4, <1>t
      DEF QuietStep, Busy, Fault, DrainRead, DrainRemove, PopTimeout, RecordSuccess,
          RecordFailure, DropTask, Restart, RecordSuccessFails, RecordFailureFails,
          RequeueFails, DequeueFails, Crash
    <2> QED BY <2>1, <2>2, CountedQuiet
  <1>5. ASSUME NEW w \in Workers, DrainPush(w) PROVE Counted(j)'
    <2>1. /\ Pend' = Pend \ Elements(batch[w])
          /\ Elements(queue') = Elements(queue) \cup Elements(batch[w])
          /\ faults = 0 => Elements(batch[w]) \subseteq Pend
      BY <1>5, PushPlaces
    <2>2. runs' = runs /\ held' = held /\ pc[w] \notin Busy /\ pc'[w] \notin Busy
          /\ \A v \in Workers : v = w
      BY <1>5, <1>t DEF DrainPush, OneWorker, Busy
    <2>3. \A e \in Elements(batch[w]) : e.job = j => e \in Pend
      BY <1>5, <2>1 DEF DrainPush, Tracked, Known
    <2> QED BY <2>1, <2>2, <2>3 DEF Counted, Busy
  <1>6. ASSUME NEW w \in Workers, PopTask(w) PROVE Counted(j)'
    <2>1. Takes
      BY <1>6, LoudPlaces
    <2>2. Elements(queue) = {Head(queue)} \cup Elements(queue') /\ Pend' \subseteq Pend
      BY <2>1, <1>q DEF Takes
    <2>3. runs' = runs /\ \A v \in Workers : pc'[v] \in Busy =>
             \/ pc[v] \in Busy /\ held'[v] = held[v] /\ pc'[v] = pc[v]
             \/ pc'[v] = "handle" /\ held'[v] = Head(queue)
      BY <1>6, <1>t DEF PopTask, Busy
    <2>4. \A v \in Workers : pc'[v] \in Busy /\ held'[v].job = j =>
             /\ pc'[v] = "handle" => runs'[j] <= held'[v].attempts
             /\ runs'[j] <= held'[v].attempts + 1
      <3> SUFFICES ASSUME NEW v \in Workers, pc'[v] \in Busy, held'[v].job = j
                   PROVE  /\ pc'[v] = "handle" => runs'[j] <= held'[v].attempts
                          /\ runs'[j] <= held'[v].attempts + 1
        OBVIOUS
      <3>1. CASE pc[v] \in Busy /\ held'[v] = held[v] /\ pc'[v] = pc[v]
        BY <2>3, <3>1 DEF Counted
      <3>2. CASE pc'[v] = "handle" /\ held'[v] = Head(queue)
        <4>1. runs[j] <= Head(queue).attempts
          BY <2>2, <3>2 DEF Counted
        <4>2. Head(queue).attempts \in Nat
          BY <2>1, <1>q, ConstantsAssumption DEF Takes, Minted, ConstantsAssumption
        <4> QED BY <1>t, <2>3, <3>2, <4>1, <4>2
      <3> QED BY <2>3, <3>1, <3>2
    <2>5. /\ runs'[j] <= MaxRetries + 1
          /\ \A t \in Elements(queue') \cup Pend' : t.job = j => runs'[j] <= t.attempts
      BY <2>2, <2>3 DEF Counted
    <2> QED BY <2>4, <2>5 DEF Counted, Busy
  <1>7. ASSUME NEW w \in Workers, PopDiscarded(w) PROVE Counted(j)'
    <2>1. Takes
      BY <1>7, LoudPlaces
    <2>2. Elements(queue) = {Head(queue)} \cup Elements(queue') /\ Pend' \subseteq Pend
      BY <2>1, <1>q DEF Takes
    <2>3. runs' = runs /\ \A v \in Workers : pc'[v] \in Busy =>
             \/ pc[v] \in Busy /\ held'[v] = held[v] /\ pc'[v] = pc[v]
             \/ pc'[v] = "handle" /\ held'[v] = Head(queue)
      BY <1>7, <1>t DEF PopDiscarded, Busy
    <2>4. \A v \in Workers : pc'[v] \in Busy /\ held'[v].job = j =>
             /\ pc'[v] = "handle" => runs'[j] <= held'[v].attempts
             /\ runs'[j] <= held'[v].attempts + 1
      <3> SUFFICES ASSUME NEW v \in Workers, pc'[v] \in Busy, held'[v].job = j
                   PROVE  /\ pc'[v] = "handle" => runs'[j] <= held'[v].attempts
                          /\ runs'[j] <= held'[v].attempts + 1
        OBVIOUS
      <3>1. CASE pc[v] \in Busy /\ held'[v] = held[v] /\ pc'[v] = pc[v]
        BY <2>3, <3>1 DEF Counted
      <3>2. CASE pc'[v] = "handle" /\ held'[v] = Head(queue)
        <4>1. runs[j] <= Head(queue).attempts
          BY <2>2, <3>2 DEF Counted
        <4>2. Head(queue).attempts \in Nat
          BY <2>1, <1>q, ConstantsAssumption DEF Takes, Minted, ConstantsAssumption
        <4> QED BY <1>t, <2>3, <3>2, <4>1, <4>2
      <3> QED BY <2>3, <3>1, <3>2
    <2>5. /\ runs'[j] <= MaxRetries + 1
          /\ \A t \in Elements(queue') \cup Pend' : t.job = j => runs'[j] <= t.attempts
      BY <2>2, <2>3 DEF Counted
    <2> QED BY <2>4, <2>5 DEF Counted, Busy
  <1>8. ASSUME NEW w \in Workers, HandleOk(w) PROVE Counted(j)'
    <2>1. SamePlaces(j)
      BY <1>8, QuietPlaces DEF QuietStep
    <2>2. held[w] \in Minted /\ held[w].job \in Jobs /\ pc[w] = "handle"
      BY <1>8, <1>h DEF HandleOk, Busy
    <2>3. held[w].attempts \in 0..MaxRetries
      BY <2>2 DEF Minted
    <2>4. CASE held[w].job = j
      <3>1. Holds(w, j) /\ runs'[j] = runs[j] + 1 /\ runs[j] <= held[w].attempts
        <4>1. runs' = [runs EXCEPT ![held[w].job] = @ + 1]
          BY <1>8 DEF HandleOk, Ran
        <4> QED BY <1>t, <2>2, <2>4, <4>1 DEF Holds, Counted
      <3>2. \A t \in Elements(queue') \cup Pend' : t.job # j
        BY <2>1, <3>1 DEF SamePlaces, Unique
      <3>3. held' = held /\ pc'[w] # "handle" /\ \A v \in Workers : v = w
        BY <1>8, <1>t DEF HandleOk, OneWorker
      <3>4. runs'[j] <= MaxRetries + 1 /\ runs'[j] <= held[w].attempts + 1
        BY <1>t, <2>3, <3>1, ConstantsAssumption DEF ConstantsAssumption
      <3> QED BY <3>2, <3>3, <3>4 DEF Counted
    <2>5. CASE held[w].job # j
      <3>1. runs'[j] = runs[j] /\ held' = held /\ \A v \in Workers : v = w
        BY <1>8, <1>t, <2>2, <2>5 DEF HandleOk, Ran, OneWorker
      <3> QED BY <2>1, <2>5, <3>1 DEF Counted, SamePlaces
    <2> QED BY <2>4, <2>5
  <1>9. ASSUME NEW w \in Workers, HandleFails(w) PROVE Counted(j)'
    <2>1. SamePlaces(j)
      BY <1>9, QuietPlaces DEF QuietStep
    <2>2. held[w] \in Minted /\ held[w].job \in Jobs /\ pc[w] = "handle"
      BY <1>9, <1>h DEF HandleFails, Busy
    <2>3. held[w].attempts \in 0..MaxRetries
      BY <2>2 DEF Minted
    <2>4. CASE held[w].job = j
      <3>1. Holds(w, j) /\ runs'[j] = runs[j] + 1 /\ runs[j] <= held[w].attempts
        <4>1. runs' = [runs EXCEPT ![held[w].job] = @ + 1]
          BY <1>9 DEF HandleFails, Ran
        <4> QED BY <1>t, <2>2, <2>4, <4>1 DEF Holds, Counted
      <3>2. \A t \in Elements(queue') \cup Pend' : t.job # j
        BY <2>1, <3>1 DEF SamePlaces, Unique
      <3>3. held' = held /\ pc'[w] # "handle" /\ \A v \in Workers : v = w
        BY <1>9, <1>t DEF HandleFails, OneWorker
      <3>4. runs'[j] <= MaxRetries + 1 /\ runs'[j] <= held[w].attempts + 1
        BY <1>t, <2>3, <3>1, ConstantsAssumption DEF ConstantsAssumption
      <3> QED BY <3>2, <3>3, <3>4 DEF Counted
    <2>5. CASE held[w].job # j
      <3>1. runs'[j] = runs[j] /\ held' = held /\ \A v \in Workers : v = w
        BY <1>9, <1>t, <2>2, <2>5 DEF HandleFails, Ran, OneWorker
      <3> QED BY <2>1, <2>5, <3>1 DEF Counted, SamePlaces
    <2> QED BY <2>4, <2>5
  <1>10. ASSUME NEW w \in Workers, HandleDefers(w) PROVE Counted(j)'
    <2> DEFINE d == Deferred(held[w], stamps + 1)
    <2>1. Adds(d) /\ d.job = held[w].job
      BY <1>10, LoudPlaces DEF Deferred
    <2>2. held[w].job \in Jobs /\ held[w].job # j
      BY <1>10, <1>h DEF HandleDefers, Busy
    <2>3. queue' = queue /\ held' = held /\ \A v \in Workers : v = w
      BY <1>10 DEF HandleDefers, OneWorker
    <2> HIDE DEF d
    <2>4. \A t \in Elements(queue') \cup Pend' : t.job = j => t \in Elements(queue) \cup Pend
      BY <1>t, <2>1, <2>2, <2>3, ElementsAppend DEF Adds
    <2>5. runs'[j] = runs[j]
      BY <1>10, <1>t, <2>2 DEF HandleDefers, Ran
    <2> QED BY <2>2, <2>3, <2>4, <2>5 DEF Counted
  <1>11. ASSUME NEW w \in Workers, Requeue(w) PROVE Counted(j)'
    <2> DEFINE d == RequeueWithAttempt(held[w])
    <2>1. Adds(d) /\ d.job = held[w].job /\ d.attempts = held[w].attempts + 1
      BY <1>11, LoudPlaces DEF RequeueWithAttempt
    <2>2. d \in Minted
      BY <1>11, <1>h, ConstantsAssumption
      DEF Requeue, RequeueWithAttempt, Minted, Busy, ConstantsAssumption
    <2>3. held[w].job = j => runs[j] <= held[w].attempts + 1
      BY <1>11 DEF Requeue, Counted, Busy
    <2>4. runs' = runs /\ \A v \in Workers : pc'[v] \notin Busy
      BY <1>11, <1>t DEF Requeue, OneWorker, Busy
    <2> HIDE DEF d
    <2>5. \A t \in Elements(queue') \cup Pend' : t \in Elements(queue) \cup Pend \/ t = d
      BY <1>t, <2>1, <2>2, AddsMember
    <2> QED BY <2>1, <2>3, <2>4, <2>5 DEF Counted, Busy
  <1>12. ASSUME NEW w \in Workers, PopReplyLost(w) PROVE Counted(j)'
    <2>1. Takes
      BY <1>12, LoudPlaces
    <2>2. Elements(queue) = {Head(queue)} \cup Elements(queue') /\ Pend' \subseteq Pend
      BY <2>1, <1>q DEF Takes
    <2>3. runs' = runs /\ \A v \in Workers : pc'[v] \in Busy =>
             \/ pc[v] \in Busy /\ held'[v] = held[v] /\ pc'[v] = pc[v]
             \/ pc'[v] = "handle" /\ held'[v] = Head(queue)
      BY <1>12, <1>t DEF PopReplyLost, Fault, Busy
    <2>4. \A v \in Workers : pc'[v] \in Busy /\ held'[v].job = j =>
             /\ pc'[v] = "handle" => runs'[j] <= held'[v].attempts
             /\ runs'[j] <= held'[v].attempts + 1
      <3> SUFFICES ASSUME NEW v \in Workers, pc'[v] \in Busy, held'[v].job = j
                   PROVE  /\ pc'[v] = "handle" => runs'[j] <= held'[v].attempts
                          /\ runs'[j] <= held'[v].attempts + 1
        OBVIOUS
      <3>1. CASE pc[v] \in Busy /\ held'[v] = held[v] /\ pc'[v] = pc[v]
        BY <2>3, <3>1 DEF Counted
      <3>2. CASE pc'[v] = "handle" /\ held'[v] = Head(queue)
        <4>1. runs[j] <= Head(queue).attempts
          BY <2>2, <3>2 DEF Counted
        <4>2. Head(queue).attempts \in Nat
          BY <2>1, <1>q, ConstantsAssumption DEF Takes, Minted, ConstantsAssumption
        <4> QED BY <1>t, <2>3, <3>2, <4>1, <4>2
      <3> QED BY <2>3, <3>1, <3>2
    <2>5. /\ runs'[j] <= MaxRetries + 1
          /\ \A t \in Elements(queue') \cup Pend' : t.job = j => runs'[j] <= t.attempts
      BY <2>2, <2>3 DEF Counted
    <2> QED BY <2>4, <2>5 DEF Counted, Busy
  <1> QED
    BY <1>1, <1>2, <1>3, <1>4, <1>5, <1>6, <1>7, <1>8, <1>9, <1>10, <1>11, <1>12
    DEF Next, WorkerStep, WorkerFault, QuietStep

(* Nothing failed: the list, the sorted set and the hands hold no settled   *)
(* job after a step that moves copies around without settling one.          *)
LEMMA UnsettledMoves ==
    ASSUME Unsettled, faults = 0, fate' = fate,
           \A t \in Elements(queue') \cup Pend' : t \in Elements(queue) \cup Pend \/ fate[t.job] = {},
           \A v \in Workers : \A t \in InHand(v)' : fate[t.job] = {}
    PROVE  Unsettled'
  BY DEF Unsettled

(* One worker: a step settles a job only when it takes the last copy away. *)
LEMMA UnsettledStep ==
    ASSUME OneWorker, TypeOK, TypeOK', Known, Known', BatchRead, Unsettled, Next,
           \A j \in Jobs : Tracked(j) => Unique(j)
    PROVE  Unsettled'
  <1> USE DEF Goto, redis, workers, history
  <1>t. /\ pc \in [Workers -> Stages] /\ held \in [Workers -> Minted \cup {None}]
        /\ batch \in [Workers -> Seq(Minted)] /\ queue \in Seq(Minted)
        /\ fate \in [Jobs -> SUBSET Fates] /\ runs \in [Jobs -> Nat] /\ faults \in Nat
        /\ offered \subseteq Jobs
    BY DEF TypeOK
  <1>h. ASSUME NEW w \in Workers, pc[w] \in Busy
        PROVE  held[w] \in Minted /\ held[w].job \in Jobs
    BY <1>h DEF TypeOK, Minted
  <1>q. queue # <<>> => /\ Elements(queue) = {Head(queue)} \cup Elements(Tail(queue))
                        /\ Head(queue) \in Minted
    BY <1>t, ElementsTail
  <1>j. queue # <<>> => Head(queue).job \in Jobs
    BY <1>q DEF Minted
  <1>e. Elements(<<>>) = {}
    BY DEF Elements
  <1>1. ASSUME NEW k \in Jobs, EnqueueTask(k) PROVE Unsettled'
    <2> SUFFICES ASSUME faults' = 0 PROVE Unsettled'
      BY DEF Unsettled
    <2>f. faults = 0
      BY <1>1 DEF EnqueueTask
    <2>m. \A j \in Jobs : Tracked(j)' /\ Tracked(j)
      BY <2>f DEF Tracked
    <2>0. NewTask(k) \in Minted /\ NewTask(k).job = k
      BY ConstantsAssumption DEF NewTask, Minted, TypeOK, ConstantsAssumption
    <2>1. Adds(NewTask(k)) /\ fate[k] = {} /\ UNCHANGED <<fate, pc, held>>
      BY <1>1, LoudPlaces DEF EnqueueTask, Known
    <2>2. \A v \in Workers : InHand(v)' = InHand(v)
      BY <2>1 DEF InHand
    <2>3. \A v \in Workers : \A t \in InHand(v)' : fate[t.job] = {}
      BY <2>f, <2>2 DEF Unsettled
    <2>4. \A t \in Elements(queue') \cup Pend' : t \in Elements(queue) \cup Pend \/ t = NewTask(k)
      BY <1>t, <2>0, <2>1, AddsMember
    <2> QED BY <2>f, <2>0, <2>1, <2>3, <2>4, UnsettledMoves
  <1>2. ASSUME NEW k \in Jobs, EnqueueFails(k) PROVE Unsettled'
    BY <1>2, <1>t DEF EnqueueFails, Fault, Unsettled
  <1>3. ASSUME NEW t \in waiting, Ripen(t) PROVE Unsettled'
    <2> SUFFICES ASSUME faults' = 0 PROVE Unsettled'
      BY DEF Unsettled
    <2>f. faults = 0
      BY <1>3 DEF Ripen
    <2>m. \A j \in Jobs : Tracked(j)' /\ Tracked(j)
      BY <2>f DEF Tracked
    <2>1. \A j \in Jobs : SamePlaces(j)
      BY <1>3, <2>m, QuietPlaces DEF QuietStep
    <2>2. queue' = queue /\ \A u \in Pend' : u \in Pend
      <3>1. \A u \in Pend' : u.job \in Jobs
        BY DEF Pend, Scheduled, TypeOK, Minted
      <3> QED BY <1>3, <2>1, <3>1 DEF SamePlaces, Ripen
    <2>3. fate' = fate /\ \A v \in Workers : InHand(v)' \subseteq InHand(v)
      BY <1>3, <1>t DEF Ripen, InHand
    <2>4. \A v \in Workers : \A u \in InHand(v)' : fate[u.job] = {}
      BY <2>f, <2>3 DEF Unsettled
    <2> QED BY <2>f, <2>2, <2>3, <2>4, UnsettledMoves
  <1>4. ASSUME NEW w \in Workers, QuietStep(w), ~HandleOk(w), ~DropTask(w) PROVE Unsettled'
    <2> SUFFICES ASSUME faults' = 0 PROVE Unsettled'
      BY DEF Unsettled
    <2>1. /\ faults = 0 /\ fate' = fate
          /\ \A v \in Workers : pc'[v] \in {"handle", "failed", "requeue"} =>
                pc[v] \in {"handle", "failed", "requeue"} /\ held'[v] = held[v]
      BY <1>4, <1>t
      DEF QuietStep, Fault, DrainRead, DrainRemove, PopTimeout, HandleFails, RecordSuccess,
          RecordFailure, Restart, RecordSuccessFails, RecordFailureFails, RequeueFails,
          DequeueFails, Crash
    <2>2. \A j \in Jobs : SamePlaces(j)
      BY <1>4, <2>1, QuietPlaces DEF Tracked
    <2>3. \A t \in Pend' : t.job \in Jobs
      BY DEF Pend, Scheduled, TypeOK, Minted
    <2>4. queue' = queue /\ \A t \in Pend' : t \in Pend
      <3>1. Jobs # {} => queue' = queue
        BY <2>2 DEF SamePlaces
      <3>2. Jobs = {} => queue' = queue
        BY <1>4
        DEF QuietStep, DrainRead, DrainRemove, PopTimeout, HandleOk, HandleFails,
            RecordSuccess, RecordFailure, DropTask, Restart, RecordSuccessFails,
            RecordFailureFails, RequeueFails, DequeueFails, Crash
      <3> QED BY <2>2, <2>3, <3>1, <3>2 DEF SamePlaces
    <2>5. \A v \in Workers : \A u \in InHand(v)' : fate[u.job] = {}
      BY <2>1 DEF Unsettled, InHand
    <2> QED BY <2>1, <2>4, <2>5, UnsettledMoves
  <1>5. ASSUME NEW w \in Workers, DrainPush(w) PROVE Unsettled'
    <2> SUFFICES ASSUME faults' = 0 PROVE Unsettled'
      BY DEF Unsettled
    <2>f. faults = 0
      BY <1>5 DEF DrainPush
    <2>m. \A j \in Jobs : Tracked(j)' /\ Tracked(j)
      BY <2>f DEF Tracked
    <2>1. /\ Pend' = Pend \ Elements(batch[w])
          /\ Elements(queue') = Elements(queue) \cup Elements(batch[w])
          /\ Elements(batch[w]) \subseteq Pend
      BY <1>5, <2>f, PushPlaces
    <2>2. fate' = fate /\ \A v \in Workers : InHand(v)' \subseteq InHand(v)
      BY <1>5, <1>t DEF DrainPush, InHand
    <2>3. \A v \in Workers : \A u \in InHand(v)' : fate[u.job] = {}
      BY <2>f, <2>2 DEF Unsettled
    <2> QED BY <2>f, <2>1, <2>2, <2>3, UnsettledMoves
  <1>6. ASSUME NEW w \in Workers, PopTask(w) PROVE Unsettled'
    <2> SUFFICES ASSUME faults' = 0 PROVE Unsettled'
      BY DEF Unsettled
    <2>f. faults = 0
      BY <1>6 DEF PopTask
    <2>m. \A j \in Jobs : Tracked(j)' /\ Tracked(j)
      BY <2>f DEF Tracked
    <2>1. Takes
      BY <1>6, LoudPlaces
    <2>2. Elements(queue) = {Head(queue)} \cup Elements(queue') /\ Pend' \subseteq Pend
      BY <2>1, <1>q DEF Takes
    <2>3. fate' = fate /\ \A v \in Workers : InHand(v)' \subseteq InHand(v) \cup {Head(queue)}
      BY <1>6, <1>t DEF PopTask, InHand
    <2>4. \A v \in Workers : \A u \in InHand(v)' : fate[u.job] = {}
      BY <2>f, <2>2, <2>3 DEF Unsettled
    <2> QED BY <2>f, <2>2, <2>3, <2>4, UnsettledMoves
  <1>7. ASSUME NEW w \in Workers, PopDiscarded(w) PROVE Unsettled'
    <2> SUFFICES ASSUME faults' = 0 PROVE Unsettled'
      BY DEF Unsettled
    <2>f. faults = 0
      BY <1>7 DEF PopDiscarded
    <2>m. \A j \in Jobs : Tracked(j)' /\ Tracked(j)
      BY <2>f DEF Tracked
    <2>1. Takes
      BY <1>7, LoudPlaces
    <2>2. Elements(queue) = {Head(queue)} \cup Elements(queue') /\ Pend' \subseteq Pend
      BY <2>1, <1>q DEF Takes
    <2>3. /\ Head(queue).job \in Jobs /\ \A v \in Workers : InHand(v)' = {}
          /\ \A k \in Jobs : k # Head(queue).job => fate'[k] = fate[k]
      BY <1>7, <1>t, <1>j DEF PopDiscarded, OneWorker, InHand, Settle
    <2>4. \A t \in Elements(queue') \cup Pend' : t.job # Head(queue).job /\ t.job \in Jobs
      <3>1. \A t \in Elements(queue) \cup Pend : t.job \in Jobs
        BY <1>t DEF Known, Pend
      <3>2. Unique(Head(queue).job)
        BY <2>3, <2>m
      <3>3. \A t \in Elements(queue') : t.job # Head(queue).job
        BY <1>t, <2>1, <3>2, OnceTail DEF Takes, Unique
      <3> QED BY <2>2, <3>1, <3>2, <3>3 DEF Unique
    <2> QED BY <2>f, <2>2, <2>3, <2>4 DEF Unsettled
  <1>8. ASSUME NEW w \in Workers, HandleOk(w) PROVE Unsettled'
    <2> SUFFICES ASSUME faults' = 0 PROVE Unsettled'
      BY DEF Unsettled
    <2>f. faults = 0
      BY <1>8 DEF HandleOk
    <2>m. \A j \in Jobs : Tracked(j)' /\ Tracked(j)
      BY <2>f DEF Tracked
    <2>1. \A j \in Jobs : SamePlaces(j)
      BY <1>8, <2>m, QuietPlaces DEF QuietStep
    <2>2. queue' = queue /\ \A t \in Pend' : t \in Pend
      <3>1. \A t \in Pend' : t.job \in Jobs
        BY DEF Pend, Scheduled, TypeOK, Minted
      <3> QED BY <1>8, <2>1, <3>1 DEF SamePlaces, HandleOk
    <2>3. /\ held[w].job \in Jobs /\ \A v \in Workers : InHand(v)' = {}
          /\ \A k \in Jobs : k # held[w].job => fate'[k] = fate[k]
      BY <1>8, <1>t, <1>h DEF HandleOk, OneWorker, InHand, Settle, Busy
    <2>4. Holds(w, held[w].job)
      BY <1>8 DEF HandleOk, Holds
    <2>5. \A t \in Elements(queue) \cup Pend : t.job # held[w].job /\ t.job \in Jobs
      <3>1. \A t \in Elements(queue) \cup Pend : t.job \in Jobs
        BY <1>t DEF Known, Pend
      <3> QED BY <2>3, <2>4, <2>m, <3>1 DEF Unique
    <2> QED BY <2>f, <2>2, <2>3, <2>5 DEF Unsettled
  <1>9. ASSUME NEW w \in Workers, HandleDefers(w) PROVE Unsettled'
    <2> SUFFICES ASSUME faults' = 0 PROVE Unsettled'
      BY DEF Unsettled
    <2>f. faults = 0
      BY <1>9 DEF HandleDefers
    <2>m. \A j \in Jobs : Tracked(j)' /\ Tracked(j)
      BY <2>f DEF Tracked
    <2> DEFINE d == Deferred(held[w], stamps + 1)
    <2>1. Adds(d) /\ d.job = held[w].job
      BY <1>9, LoudPlaces DEF Deferred
    <2>2. Minted \subseteq Minted' /\ d \in Minted'
      BY <1>9, <1>h, ConstantsAssumption
      DEF HandleDefers, Deferred, Minted, Busy, TypeOK, ConstantsAssumption
    <2>3. queue \in Seq(Minted')
      BY <1>t, <2>2
    <2>4. fate' = fate /\ fate[held[w].job] = {} /\ \A v \in Workers : InHand(v)' \subseteq InHand(v)
      BY <1>9, <1>t, <2>f DEF HandleDefers, Unsettled, InHand
    <2>5. \A v \in Workers : \A u \in InHand(v)' : fate[u.job] = {}
      BY <2>f, <2>4 DEF Unsettled
    <2> HIDE DEF d
    <2>6. \A t \in Elements(queue') \cup Pend' : t \in Elements(queue) \cup Pend \/ t = d
      BY <2>1, <2>2, <2>3, AddsMember
    <2> QED BY <2>f, <2>1, <2>4, <2>5, <2>6, UnsettledMoves
  <1>10. ASSUME NEW w \in Workers, Requeue(w) PROVE Unsettled'
    <2> SUFFICES ASSUME faults' = 0 PROVE Unsettled'
      BY DEF Unsettled
    <2>f. faults = 0
      BY <1>10 DEF Requeue
    <2>m. \A j \in Jobs : Tracked(j)' /\ Tracked(j)
      BY <2>f DEF Tracked
    <2> DEFINE d == RequeueWithAttempt(held[w])
    <2>1. Adds(d) /\ d.job = held[w].job
      BY <1>10, LoudPlaces DEF RequeueWithAttempt
    <2>2. d \in Minted
      BY <1>10, <1>h, ConstantsAssumption
      DEF Requeue, RequeueWithAttempt, Minted, Busy, ConstantsAssumption
    <2>4. fate' = fate /\ fate[held[w].job] = {} /\ \A v \in Workers : InHand(v)' \subseteq InHand(v)
      BY <1>10, <1>t, <2>f DEF Requeue, Unsettled, InHand
    <2>5. \A v \in Workers : \A u \in InHand(v)' : fate[u.job] = {}
      BY <2>f, <2>4 DEF Unsettled
    <2> HIDE DEF d
    <2>6. \A t \in Elements(queue') \cup Pend' : t \in Elements(queue) \cup Pend \/ t = d
      BY <1>t, <2>1, <2>2, AddsMember
    <2> QED BY <2>f, <2>1, <2>4, <2>5, <2>6, UnsettledMoves
  <1>11. ASSUME NEW w \in Workers, DropTask(w) PROVE Unsettled'
    <2> SUFFICES ASSUME faults' = 0 PROVE Unsettled'
      BY DEF Unsettled
    <2>f. faults = 0
      BY <1>11 DEF DropTask
    <2>m. \A j \in Jobs : Tracked(j)' /\ Tracked(j)
      BY <2>f DEF Tracked
    <2>1. \A j \in Jobs : SamePlaces(j)
      BY <1>11, <2>m, QuietPlaces DEF QuietStep
    <2>2. queue' = queue /\ \A t \in Pend' : t \in Pend
      <3>1. \A t \in Pend' : t.job \in Jobs
        BY DEF Pend, Scheduled, TypeOK, Minted
      <3> QED BY <1>11, <2>1, <3>1 DEF SamePlaces, DropTask
    <2>3. /\ held[w].job \in Jobs /\ \A v \in Workers : InHand(v)' = {}
          /\ \A k \in Jobs : k # held[w].job => fate'[k] = fate[k]
      BY <1>11, <1>t, <1>h DEF DropTask, OneWorker, InHand, Settle, Busy
    <2>4. Holds(w, held[w].job)
      BY <1>11 DEF DropTask, Holds
    <2>5. \A t \in Elements(queue) \cup Pend : t.job # held[w].job /\ t.job \in Jobs
      <3>1. \A t \in Elements(queue) \cup Pend : t.job \in Jobs
        BY <1>t DEF Known, Pend
      <3> QED BY <2>3, <2>4, <2>m, <3>1 DEF Unique
    <2> QED BY <2>f, <2>2, <2>3, <2>5 DEF Unsettled
  <1>12. ASSUME NEW w \in Workers, PopReplyLost(w) PROVE Unsettled'
    BY <1>12, <1>t DEF PopReplyLost, Fault, Unsettled
  <1> QED
    BY <1>1, <1>2, <1>3, <1>4, <1>5, <1>6, <1>7, <1>8, <1>9, <1>10, <1>11, <1>12
    DEF Next, WorkerStep, WorkerFault, QuietStep

-----------------------------------------------------------------------------
(* The results. *)

(* With one worker every reachable state satisfies the inductive invariant. *)
LEMMA SingleInvariant == ASSUME OneWorker PROVE Spec => []SInv
  <1>1. Init => SInv
    <2> SUFFICES ASSUME Init PROVE SInv
      OBVIOUS
    <2>1. TypeOK
      BY InitType
    <2>2. Elements(queue) = {} /\ Pend = {} /\ Scheduled = {} /\ Len(queue) = 0
      BY DEF Init, Elements, Pend, Scheduled
    <2>3. \A w \in Workers : pc[w] = "drain" /\ Elements(batch[w]) = {}
      BY DEF Init, Elements
    <2>4. Known /\ BatchRead /\ Unsettled
      BY <2>2, <2>3 DEF Init, Known, BatchRead, Unsettled, InHand, Busy
    <2>5. \A j \in Jobs : Unique(j)
      BY <2>2, <2>3 DEF Unique, AtMostOnce, Holds
    <2>6. \A j \in Jobs : Counted(j)
      <3>1. 0 <= MaxRetries + 1
        BY ConstantsAssumption DEF ConstantsAssumption
      <3>2. \A j \in Jobs : runs[j] = 0
        BY DEF Init
      <3> QED BY <2>2, <2>3, <3>1, <3>2 DEF Counted, Busy
    <2> QED BY <2>1, <2>4, <2>5, <2>6 DEF SInv
  <1>2. SInv /\ [Next]_vars => SInv'
    <2> SUFFICES ASSUME SInv, [Next]_vars PROVE SInv'
      OBVIOUS
    <2>1. TypeOK'
      BY NextType DEF SInv
    <2>2. CASE Next
      <3>1. Known'
        BY <2>1, <2>2, KnownStep DEF SInv
      <3>2. BatchRead'
        BY <2>1, <2>2, BatchReadStep DEF SInv
      <3>3. \A j \in Jobs : Tracked(j)' => Tracked(j)
        <4>1. faults \in Nat /\ (faults' = faults \/ faults' = faults + 1)
          BY <2>2
          DEF SInv, TypeOK, Next, WorkerStep, WorkerFault, EnqueueTask, EnqueueFails, Ripen,
              DrainRead, DrainPush, DrainRemove, PopTimeout, PopTask, PopDiscarded, HandleOk,
              HandleFails, HandleDefers, RecordSuccess, RecordFailure, Requeue, DropTask,
              Restart, RecordSuccessFails, RecordFailureFails, RequeueFails, DequeueFails,
              PopReplyLost, Crash, Fault
        <4> QED BY <4>1 DEF Tracked
      <3>4. \A j \in Jobs : Tracked(j)' => Unique(j)'
        BY <2>1, <2>2, <3>1, <3>3, UniqueStep DEF SInv
      <3>5. \A j \in Jobs : Tracked(j)' /\ Kind[j] # "timed" => Counted(j)'
        BY <2>1, <2>2, <3>1, <3>3, CountedStep DEF SInv
      <3>6. Unsettled'
        BY <2>1, <2>2, <3>1, UnsettledStep DEF SInv
      <3> QED BY <2>1, <3>1, <3>2, <3>4, <3>5, <3>6 DEF SInv
    <2>3. CASE UNCHANGED vars
      BY <2>1, <2>3
      DEF vars, SInv, Known, BatchRead, Unsettled, Unique, Counted, Tracked, Holds, AtMostOnce,
          Pend, Scheduled, InHand
    <2> QED BY <2>2, <2>3
  <1> QED BY <1>1, <1>2, PTL DEF Spec

(* One worker, nothing failed: outside the LPUSH/ZREM window of a drain a   *)
(* job is never in the queue, the sorted set and the worker's hands twice,  *)
(* and is gone from all three once it is done or dropped.                   *)
THEOREM SingleCopy == ASSUME OneWorker PROVE Spec => []OneCopy
  <1>1. SInv => OneCopy
    <2> SUFFICES ASSUME SInv, faults = 0, \A w \in Workers : pc[w] # "remove",
                        NEW j \in Jobs, NEW a \in Copies(j), NEW b \in Copies(j)
                 PROVE  a = b /\ fate[j] = {}
      BY DEF OneCopy
    <2>1. Unique(j) /\ Unsettled /\ Pend = Scheduled
      BY DEF SInv, Tracked, Pend
    <2>2. \A k \in 1..Len(queue) : queue[k] \in Elements(queue)
      BY DEF Elements
    <2>3. ASSUME NEW c \in Copies(j)
          PROVE  \/ \E k \in 1..Len(queue) : c = <<"list", k>> /\ queue[k].job = j
                 \/ \E t \in Pend : c = <<"set", t>> /\ t.job = j
                 \/ \E w \in Workers : /\ c = <<"hand", w>> /\ Holds(w, j)
                                       /\ held[w] \in InHand(w)
      BY <2>1 DEF Copies, InHand, Holds
    <2>4. fate[j] = {}
      BY <2>1, <2>2, <2>3 DEF Unsettled, Holds
    <2>5. a = b
      <3>1. CASE \E k \in 1..Len(queue) : a = <<"list", k>> /\ queue[k].job = j
        <4>1. \E k \in 1..Len(queue) : b = <<"list", k>> /\ queue[k].job = j
          BY <2>1, <2>2, <2>3, <3>1 DEF Unique
        <4> QED BY <2>1, <3>1, <4>1 DEF Unique, AtMostOnce
      <3>2. CASE \E t \in Pend : a = <<"set", t>> /\ t.job = j
        <4>1. \E t \in Pend : b = <<"set", t>> /\ t.job = j
          BY <2>1, <2>2, <2>3, <3>2 DEF Unique
        <4> QED BY <2>1, <3>2, <4>1 DEF Unique
      <3>3. CASE \E w \in Workers : a = <<"hand", w>> /\ Holds(w, j)
        <4>1. \E w \in Workers : b = <<"hand", w>> /\ Holds(w, j)
          BY <2>1, <2>2, <2>3, <3>3 DEF Unique
        <4> QED BY <3>3, <4>1 DEF OneWorker
      <3> QED BY <2>3, <3>1, <3>2, <3>3
    <2> QED BY <2>4, <2>5
  <1> QED BY <1>1, SingleInvariant, PTL

(* One worker: as long as nothing failed, or whatever fails when retries go *)
(* straight to the list, a job that is not deferred runs at most            *)
(* rq_dispatch_max_retries + 1 times.                                       *)
THEOREM RetriesAreCapped == ASSUME OneWorker PROVE Spec => []RetryBudget
  <1>1. SInv => RetryBudget
    BY DEF SInv, RetryBudget, Tracked, Counted
  <1> QED BY <1>1, SingleInvariant, PTL

=============================================================================
