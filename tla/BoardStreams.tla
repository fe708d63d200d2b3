---------------------------- MODULE BoardStreams ----------------------------
(***************************************************************************)
(* The live lists of the board page and of the group page: a first read    *)
(* (snapshot or history), an event stream asked for "since" the newest     *)
(* item the page holds, reconnection with backoff, and the writes of the   *)
(* page's own user, whose answers are merged into the same list.  A        *)
(* behaviour is about one list: tasks, approvals, agents, chat, or the     *)
(* chat or notes of a group.                                               *)
(*                                                                         *)
(* An item is its version and the timestamp the stream selects it by: what *)
(* its row holds.  SSE framing, contents, and what the server computes from *)
(* other rows or the clock (a blocked task, an agent gone offline) are left *)
(* out.  A message that cannot be parsed is skipped; the server sends none. *)
(***************************************************************************)
EXTENDS Integers, Sequences, FiniteSets, FiniteSetsExt, SequencesExt

CONSTANTS Items,
          First,       \* sets of items that there may be at the start
          Lists,       \* the streams of the instance
          MaxSteps,    \* writes of others, requests of this page and faults (a read or an
                       \* answer lost, a connection broken, the page inactive; a write
                       \* that is not announced at once), together
          MaxOwn,      \* requests of this page in flight
          MaxLate,     \* how far the clock moves between a stamp and its commit
          SnapLimit    \* newest items a first read returns (200 in the code)

ASSUME BoundsAssumption ==
  IsFiniteSet(Items) /\ First \subseteq SUBSET Items /\ {MaxSteps, MaxOwn, MaxLate, SnapLimit} \subseteq Nat

VARIABLES list,             \* the stream this behaviour is about
          rows, log, now,   \* the server: items, task events, the newest stamp
          owed,             \* events of tasks already written, not yet recorded
          snap,             \* the first read: waiting, its answer, done or failed
          active,           \* the tab has the focus (and the panel is open)
          link,             \* the stream as client and server see it
          view,             \* the list on the page
          own,              \* requests of the page in flight
          missed,           \* history: why the page may have missed an item
          overlap,          \* history: a request was made while a card was moved
          steps

server == <<rows, log, now, owed>>
vars   == <<list, server, snap, active, link, view, own, missed, overlap, steps>>

(* ------------------------------ the streams ---------------------------- *)
(***************************************************************************)
(* needs:  when the effect runs ("board": once the snapshot has set board) *)
(* reads:  what the first read does ("replaces" or "merges")               *)
(* rerun:  the effect depends on board, so the snapshot restarts it        *)
(* keeps:  an item received again replaces the old one or not              *)
(* sends:  the server sends an event once ("once"), or a row whenever its  *)
(*         stamp reaches the cursor ("again")                              *)
(* by:     the order of one batch                                          *)
(* newest: the first read returns the newest items only                    *)
(* onEnd:  what a stream that ends without an error does                   *)
(***************************************************************************)
chatStream ==
  [name |-> "chat", needs |-> "board", reads |-> "replaces", rerun |-> TRUE, keeps |-> "first",
   sends |-> "again", by |-> "born", newest |-> TRUE, onEnd |-> "reconnects", ops |-> {"post"}]
approvalsStream ==
  [name |-> "approvals", needs |-> "board", reads |-> "replaces", rerun |-> TRUE, keeps |-> "last",
   sends |-> "again", by |-> "born", newest |-> TRUE, onEnd |-> "reconnects", ops |-> {"decide"}]
tasksStream ==
  [name |-> "tasks", needs |-> "board", reads |-> "replaces", rerun |-> TRUE, keeps |-> "last",
   sends |-> "once", by |-> "at", newest |-> FALSE, onEnd |-> "reconnects",
   ops |-> {"create", "save", "move", "delete"}]
agentsStreamOnce ==  \* mutant: the effect does not depend on board
  [name |-> "agents", needs |-> "nothing", reads |-> "replaces", rerun |-> FALSE, keeps |-> "last",
   sends |-> "again", by |-> "at", newest |-> FALSE, onEnd |-> "reconnects", ops |-> {}]

\* The agents' stream does not wait for the snapshot, but is restarted by it.
agentsStream ==
  [name |-> "agents", needs |-> "nothing", reads |-> "replaces", rerun |-> TRUE, keeps |-> "last",
   sends |-> "again", by |-> "at", newest |-> FALSE, onEnd |-> "reconnects", ops |-> {}]
groupChatStream ==
  [name |-> "groupChat", needs |-> "nothing", reads |-> "merges", rerun |-> FALSE, keeps |-> "last",
   sends |-> "again", by |-> "born", newest |-> TRUE, onEnd |-> "stops", ops |-> {"post"}]
groupNotesStream == [groupChatStream EXCEPT !.name = "groupNotes"]

AllLists == {chatStream, approvalsStream, tasksStream, agentsStream, groupChatStream,
             groupNotesStream}
Edited == list.name \in {"approvals", "tasks", "agents"}   \* items that change once created

(* ------------------------------ the client ----------------------------- *)
NoItem  == [v |-> 0, at |-> 0, opt |-> FALSE]
NoItems == [i \in Items |-> NoItem]
Held(v) == {i \in Items : v[i].v > 0}

\* latestTaskTimestamp, latestApprovalTimestamp, latestAgentTimestamp,
\* latestChatTimestamp, latestMemoryTimestamp: no cursor for an empty list
NoCursor == -1
Latest(v) == IF Held(v) = {} THEN NoCursor ELSE Max({v[i].at : i \in Held(v)})

Off == [st |-> "off", last |-> NoCursor, seen |-> {}, wire |-> <<>>, attempt |-> 0]
\* connect: asks from the newest item held now; attempt is the backoff's
Connect(v, n) == [Off EXCEPT !.st = "asking", !.last = Latest(v), !.attempt = n]

\* createExponentialBackoff, in units of its base delay: doubled, capped, no less
\* than the base; jitter only adds, and is capped too.
MaxAttempt == 64
MaxDelay   == 300
nextDelayMsLinear(n) == Min({MaxDelay, n})  \* mutant: no delay before the first retry

nextDelayMs(n) == IF n > 8 THEN MaxDelay ELSE Min({MaxDelay, 2 ^ n})
\* Arithmetic that the provers do not have.
ASSUME PowersAssumption == \A n \in 0..8 : 2 ^ n \in 1..256
NextAttempt(n) == Min({n + 1, MaxAttempt})

\* When the effect that owns the stream runs, and with what it starts.
Runs(on, st) == on /\ (list.needs = "board" => st = "done")
Effect(on, st, v) == IF Runs(on, st) THEN Connect(v, 0) ELSE Off

MergeAlone(v, p) ==  \* mutant: the event's item replaces the list
  [NoItems EXCEPT ![p.i] = [v |-> p.v, at |-> p.at, opt |-> FALSE]]

\* One item from the stream.
Merge(v, p) ==
  IF list.keeps = "first" /\ v[p.i].v > 0 THEN v
  ELSE [v EXCEPT ![p.i] = [v |-> p.v, at |-> p.at, opt |-> FALSE]]
\* loadBoard replaces the list; a group's history is merged into it
Load(v, s) ==
  IF list.reads = "replaces" THEN s
  ELSE [i \in Items |-> IF s[i].v > 0 THEN s[i] ELSE v[i]]

(* ---------------------------- own requests ----------------------------- *)
\* what a request's answer (row r of item w.i) does to the list
handleCreateTask(v, w, r)        == [v EXCEPT ![w.i] = r]          \* prepended unseen
handleTaskSave(v, w, r)          == IF v[w.i].v > 0 THEN [v EXCEPT ![w.i] = r] ELSE v
handleDeleteTask(v, w, r)        == [v EXCEPT ![w.i] = NoItem]
handleApprovalDecision(v, w, r)  == IF v[w.i].v > 0 THEN [v EXCEPT ![w.i] = r] ELSE v
postBoardChatMessage(v, w, r)    == IF v[w.i].v > 0 THEN v ELSE [v EXCEPT ![w.i] = r]
\* a card is moved before the request, and the whole list restored if it fails
handleTaskMove(v, i)             == [v EXCEPT ![i].opt = TRUE]
handleTaskMoveAnswer(v, w, r)    == handleTaskSave(v, w, r)
handleTaskMoveStays(v, w) == v  \* mutant: a refused move is not taken back

handleTaskMoveFails(v, w)        == w.prev

Answered(v, w) ==
  LET r == [v |-> w.v, at |-> w.at, opt |-> FALSE] IN
  CASE w.op = "create" -> handleCreateTask(v, w, r)
    [] w.op = "save"   -> handleTaskSave(v, w, r)
    [] w.op = "move"   -> handleTaskMoveAnswer(v, w, r)
    [] w.op = "delete" -> handleDeleteTask(v, w, r)
    [] w.op = "decide" -> handleApprovalDecision(v, w, r)
    [] w.op = "post"   -> postBoardChatMessage(v, w, r)
Refused(v, w) == IF w.op = "move" THEN handleTaskMoveFails(v, w) ELSE v

(* ----------------------------- the server ------------------------------ *)
NoRow == [v |-> 0, at |-> 0, born |-> 0, on |-> FALSE]
Stamped(i, t) ==
  [rows EXCEPT ![i] = [v |-> @.v + 1, at |-> t, on |-> TRUE,
                       born |-> IF @.on THEN @.born ELSE t]]
On == {i \in Items : rows[i].on}
\* What one read returns: every item, or the newest of a limit.
Snapshots ==
  LET Top == {s \in SUBSET On : /\ Cardinality(s) = Min({SnapLimit, Cardinality(On)})
                                /\ \A i \in s, j \in On \ s : rows[i].born >= rows[j].born}
      Of(s) == [i \in Items |-> IF i \in s THEN [v |-> rows[i].v, at |-> rows[i].at, opt |-> FALSE]
                                ELSE NoItem]
  IN  {Of(s) : s \in IF list.newest THEN Top ELSE {On}}

SelectedAfter ==  \* mutant: from the cursor on, the cursor's own stamp excluded
  IF list.sends = "once"
  THEN {e \in log : e.at > link.last /\ rows[e.i].on /\ <<e.i, e.n>> \notin link.seen}
  ELSE {[i |-> i, at |-> rows[i].at, n |-> 0] : i \in {j \in Items : rows[j].on /\ rows[j].at > link.last}}

\* What the next round of the generator sends from the cursor on: task events not
\* sent before, each with its task as it is now; rows otherwise.
Selected ==
  IF list.sends = "once"
  THEN {e \in log : e.at >= link.last /\ rows[e.i].on /\ <<e.i, e.n>> \notin link.seen}
  ELSE {[i |-> i, at |-> rows[i].at, n |-> 0] : i \in {j \in Items : rows[j].on /\ rows[j].at >= link.last}}
Position(e) == IF list.by = "at" THEN e.at ELSE rows[e.i].born
\* One batch, in order; what has the same position comes in any order.
Batches == {b \in [1..Cardinality(Selected) -> Selected] :
              /\ Range(b) = Selected
              /\ \A m, n \in DOMAIN b : m < n => Position(b[m]) <= Position(b[n])}
Payload(e) == [i |-> e.i, v |-> rows[e.i].v, at |-> rows[e.i].at]

\* Item i is written, its row stamped t.  A task's event is recorded with the row, or
\* by a second transaction (owed), or never (lost).
Ways == IF list.sends = "once" THEN {"told", "owed", "lost"} ELSE {"told"}
Writes(i, t, how) ==
  LET e == [i |-> i, at |-> t, n |-> rows[i].v] IN
  /\ rows' = Stamped(i, t)
  /\ log'  = IF how = "told" /\ list.sends = "once" THEN log \cup {e} ELSE log
  /\ owed' = IF how = "owed" THEN owed \cup {e} ELSE owed
\* Stamps are taken before the commit, and after the item's creation.
StampsOf(i) == {t \in (now - MaxLate)..(now + 1) : t >= IF rows[i].on THEN rows[i].born ELSE 0}
Deletes(i) ==
  /\ rows' = [rows EXCEPT ![i].on = FALSE]
  /\ log'  = {e \in log : e.i # i}
  /\ owed' = {e \in owed : e.i # i}

(* ------------------------------- history ------------------------------- *)
(***************************************************************************)
(* missed[i] says why the page may never be told of item i as it is:       *)
(*   quiet  the change left no event, or no new stamp                      *)
(*   late   it was committed after the clock had passed its event's stamp  *)
(*   limit  the first read was full                                        *)
(*   bare   the stream began without a cursor, after the item's event      *)
(*   cut    the connection went with the item on its way, and with a newer *)
(*          stamp already shown                                            *)
(*   own    an answer to this page set the item back, or took the cursor   *)
(*          past its event                                                 *)
(* The reasons go when no old version of the item is left on the page or   *)
(* on its way there, and with the next change that is announced in time.   *)
(***************************************************************************)
Causes == {"quiet", "late", "limit", "bare", "cut", "own"}
Lagging(r, v) == {i \in Items : r[i].on /\ v[i].v < r[i].v}
OnItsWay == {link.wire[n].i : n \in DOMAIN link.wire}
Outdated ==
  Lagging(rows, view)
    \cup (IF snap.st = "read" THEN Lagging(rows, snap.ans) ELSE {})
    \cup {i \in On : \E n \in DOMAIN link.wire : link.wire[n].i = i /\ link.wire[n].v < rows[i].v}
Because(m) == missed' = [i \in Items |-> IF i \in Outdated' THEN m[i] ELSE {}]
Miss(why, s) == Because([i \in Items |-> missed[i] \cup IF i \in s THEN {why} ELSE {}])

\* The event that announces item i as it is (a row announces itself).
Telling(i) == IF list.sends = "once" THEN {e \in log : e.i = i /\ e.n = rows[i].v - 1}
              ELSE {[i |-> i, at |-> rows[i].at, n |-> 0]}
Owed(i) == \E e \in owed : e.i = i /\ e.n = rows[i].v - 1
\* What a stream from t on says nothing of.
Before(t) == {i \in Outdated : ~Owed(i) /\ \A e \in Telling(i) : e.at < t}
Backwards(old, new) == {i \in Items : new[i].v < old[i].v}
Announced(i, t, how) ==
  Because([missed EXCEPT ![i] = IF how = "lost" THEN @ \cup {"quiet"}
                                ELSE IF how = "told" /\ t < now THEN @ \cup {"late"} ELSE {}])

Costs(n) == steps + n <= MaxSteps /\ steps' = steps + n
Step == Costs(1)
Untimely(t, how) == IF how = "told" /\ t >= now THEN 0 ELSE 1

(* -------------------------------- Init --------------------------------- *)
Init ==
  /\ list \in {s \in AllLists : s.name \in Lists}
  /\ \E first \in First :
       rows = [i \in Items |-> IF i \in first THEN [v |-> 1, at |-> 0, born |-> 0, on |-> TRUE]
                               ELSE NoRow]
  /\ log = {} /\ now = 0 /\ owed = {}
  /\ view = NoItems
  /\ snap = [st |-> "sent", ans |-> view] /\ active = TRUE
  /\ link = Effect(TRUE, "sent", view)
  /\ own = {} /\ missed = [i \in Items |-> {}] /\ overlap = FALSE
  /\ steps = 0

(* ------------------------------ first read ----------------------------- *)
ReadSnapshot ==
  /\ snap.st = "sent"
  /\ \E ans \in Snapshots : snap' = [st |-> "read", ans |-> ans]
  /\ UNCHANGED <<list, server, active, link, view, own, overlap, steps>>
  /\ Miss("limit", {i \in On : snap'.ans[i].v = 0})

\* loadBoard, or the history of the group: the list, then board, which reruns effects
loadBoard ==
  /\ snap.st = "read"
  /\ snap' = [st |-> "done", ans |-> NoItems]
  /\ view' = Load(view, snap.ans)
  /\ link' = IF list.rerun THEN Effect(active, "done", view') ELSE link
  /\ UNCHANGED <<list, server, active, own, overlap, steps>>
  /\ Because(missed)

\* The read fails: no board, and no stream that needs one.
loadBoardFails ==
  /\ snap.st \in {"sent", "read"} /\ Step
  /\ snap' = [st |-> "failed", ans |-> NoItems]
  /\ UNCHANGED <<list, server, active, link, view, own, overlap>>
  /\ Because(missed)

(* -------------------------- connection lifecycle ----------------------- *)
\* usePageActive, or the panel closed: the effect's cleanup aborts everything
Deactivate ==
  /\ active /\ Step
  /\ active' = FALSE /\ link' = Off
  /\ UNCHANGED <<list, server, snap, view, own, overlap>>
  /\ Miss("cut", OnItsWay \cap Before(Latest(view)))
Activate ==
  /\ ~active
  /\ active' = TRUE /\ link' = Effect(TRUE, snap.st, view)
  /\ UNCHANGED <<list, server, snap, view, own, missed, overlap, steps>>

\* The server takes the connection: from the cursor, or from now without one.
Accept ==
  /\ link.st = "asking"
  /\ LET last == IF link.last = NoCursor THEN now ELSE link.last IN
     /\ link' = [link EXCEPT !.st = "open", !.last = last]
     /\ UNCHANGED <<list, server, snap, active, view, own, overlap, steps>>
     /\ Miss("bare", IF link.last = NoCursor THEN Before(last) ELSE {})

\* One round of the event generator, once the client has taken the last.
Poll ==
  /\ link.st = "open" /\ link.wire = <<>> /\ Selected # {}
  /\ \E batch \in Batches :
     link' = [link EXCEPT
       !.wire = [n \in DOMAIN batch |-> Payload(batch[n])],
       !.last = Max({@} \cup {e.at : e \in Selected}),
       !.seen = IF list.sends = "once" THEN @ \cup {<<e.i, e.n>> : e \in Selected} ELSE @]
  /\ UNCHANGED <<list, server, snap, active, view, own, missed, overlap, steps>>

Deliver ==
  /\ link.st = "open" /\ link.wire # <<>>
  /\ view' = Merge(view, Head(link.wire))
  /\ link' = [link EXCEPT !.wire = Tail(@), !.attempt = 0]
  /\ UNCHANGED <<list, server, snap, active, own, overlap, steps>>
  /\ Because(missed)

Ping ==
  /\ link.st = "open" /\ link.attempt > 0
  /\ link' = [link EXCEPT !.attempt = 0]
  /\ UNCHANGED <<list, server, snap, active, view, own, missed, overlap, steps>>

\* The connection fails or ends; how: "error" or "end".
Reconnects(how) == how = "error" \/ list.onEnd = "reconnects"
Break(how) ==
  /\ link.st \in {"asking", "open"} /\ Step
  /\ link.st = "asking" => how = "error"
  /\ link' = [Off EXCEPT !.st = IF Reconnects(how) THEN "wait" ELSE "ended",
                         !.attempt = NextAttempt(link.attempt)]
  /\ UNCHANGED <<list, server, snap, active, view, own, overlap>>
  /\ Miss("cut", OnItsWay \cap Before(Latest(view)))
\* setTimeout(connect, nextDelayMs())
Reconnect ==
  /\ link.st = "wait"
  /\ link' = Connect(view, link.attempt)
  /\ UNCHANGED <<list, server, snap, active, view, own, missed, overlap, steps>>

(* ------------------------------- writes -------------------------------- *)
\* Others: a new item, a changed one, a deleted one.
RemoteChange(i) ==
  /\ \/ rows[i].on /\ Edited
     \/ rows[i].v = 0 /\ ~\E w \in own : w.i = i
  /\ now' = now + 1
  /\ UNCHANGED <<list, snap, active, link, view, own, overlap>>
  /\ \E t \in StampsOf(i), how \in Ways :
       Writes(i, t, how) /\ Announced(i, t, how) /\ Costs(1 + Untimely(t, how))
\* An approval reopened, or its agent deleted: resolved_at and created_at stay.
RemoteQuiet(i) ==
  /\ list.name = "approvals" /\ Step /\ rows[i].on
  /\ now' = now + 1
  /\ UNCHANGED <<list, snap, active, link, view, own, overlap>>
  /\ Writes(i, rows[i].at, "lost") /\ Announced(i, rows[i].at, "lost")
RemoteDelete(i) ==
  /\ Step /\ rows[i].on /\ list.name \in {"tasks", "approvals", "agents"}
  /\ now' = now + 1
  /\ Deletes(i)
  /\ UNCHANGED <<list, snap, active, link, view, own, overlap>>
  /\ Because(missed)

\* The second transaction of a task's change: its event, with a stamp of its own.
RecordEvent(e) ==
  /\ \E t \in e.at..(now + 1) :
       /\ now' = Max({now, t})
       /\ log' = log \cup {[e EXCEPT !.at = t]} /\ owed' = owed \ {e}
       /\ UNCHANGED <<list, rows, snap, active, link, view, own, overlap, steps>>
       /\ Miss("late", IF t < now /\ e.n = rows[e.i].v - 1 THEN {e.i} ELSE {})

\* The user, on a page that has loaded: a new item, or one on the list.
New(op) == op \in {"create", "post"}
Begin(op, i) ==
  /\ Step /\ Cardinality(own) < MaxOwn /\ op \in list.ops /\ snap.st = "done"
  /\ IF New(op) THEN rows[i].v = 0 /\ ~\E w \in own : w.i = i ELSE view[i].v > 0
  /\ view' = IF op = "move" THEN handleTaskMove(view, i) ELSE view
  /\ own' = own \cup {[op |-> op, i |-> i, st |-> "sent", v |-> 0, at |-> 0,
                      prev |-> IF op = "move" THEN view ELSE NoItems]}
  /\ overlap' = (overlap \/ \E w \in own : w.op = "move")
  /\ UNCHANGED <<list, server, snap, active, link, missed>>

\* The request is carried out; one whose event is lost has failed between its two
\* transactions.
Takes(w) ==
  /\ w.st = "sent" /\ w.op # "delete"
  /\ rows[w.i].on \/ (New(w.op) /\ rows[w.i].v = 0)
  /\ UNCHANGED <<list, snap, active, link, view, overlap>>
  /\ \E t \in StampsOf(w.i), how \in Ways :
       /\ now' = Max({now, t})
       /\ Writes(w.i, t, how) /\ Announced(w.i, t, how) /\ Costs(Untimely(t, how))
       /\ own' = (own \ {w}) \cup
                   {IF how = "lost" THEN [w EXCEPT !.st = "refused"]
                    ELSE [w EXCEPT !.st = "applied", !.v = rows[w.i].v + 1, !.at = t]}
TakesDelete(w) ==
  /\ w.st = "sent" /\ w.op = "delete" /\ rows[w.i].on
  /\ Deletes(w.i) /\ now' = now
  /\ own' = (own \ {w}) \cup {[w EXCEPT !.st = "applied"]}
  /\ UNCHANGED <<list, snap, active, link, view, overlap, steps>>
  /\ Because(missed)
\* blocked by a dependency, not valid, or about an item that has gone
Refuses(w) ==
  /\ w.st = "sent"
  /\ w.op \in {"save", "move", "decide"} \/ ~rows[w.i].on
  /\ own' = (own \ {w}) \cup {[w EXCEPT !.st = "refused"]}
  /\ UNCHANGED <<list, server, snap, active, link, view, missed, overlap, steps>>

Settle(w, new) ==
  /\ view' = new
  /\ own' = own \ {w}
  /\ UNCHANGED <<list, server, snap, active, link, overlap>>
  /\ Miss("own", Backwards(view, new) \cup (Before(Latest(new)) \ Before(Latest(view))))
\* after both transactions
Answer(w) == /\ w.st = "applied" /\ ~\E e \in owed : e.i = w.i /\ e.n = w.v - 1
             /\ Settle(w, Answered(view, w)) /\ UNCHANGED steps
Fail(w)   == /\ \/ w.st = "refused" /\ UNCHANGED steps
                \/ w.st = "applied" /\ Step
             /\ Settle(w, Refused(view, w))

Next ==
  \/ ReadSnapshot \/ loadBoard \/ loadBoardFails
  \/ Deactivate \/ Activate
  \/ Accept \/ Poll \/ Deliver \/ Ping \/ Reconnect
  \/ \E how \in {"error", "end"} : Break(how)
  \/ \E i \in Items : RemoteChange(i) \/ RemoteQuiet(i) \/ RemoteDelete(i)
  \/ \E e \in owed : RecordEvent(e)
  \/ \E i \in Items, op \in UNION {s.ops : s \in AllLists} : Begin(op, i)
  \/ \E w \in own : Takes(w) \/ TakesDelete(w) \/ Refuses(w) \/ Answer(w) \/ Fail(w)

Spec == Init /\ [][Next]_vars
\* The network answers, the generator goes on, timers fire; nothing is assumed of
\* the users, of the focus of the tab or of failures.
FairSpec ==
  Spec /\ WF_vars(ReadSnapshot) /\ WF_vars(loadBoard)
       /\ WF_vars(Accept) /\ WF_vars(Poll) /\ WF_vars(Deliver) /\ WF_vars(Reconnect)
       /\ WF_vars(\E e \in owed : RecordEvent(e))

(* ----------------------------- properties ------------------------------ *)
\* Every piece of state keeps its shape; the backoff stays within its limits.
TypeOK ==
  /\ list \in AllLists /\ active \in BOOLEAN
  /\ \A i \in Items : rows[i].v \in Nat /\ rows[i].born <= rows[i].at /\ rows[i].at <= now
  /\ snap.st \in {"sent", "read", "done", "failed"}
  /\ link.st \in {"off", "asking", "open", "wait", "ended"} /\ link.last \in NoCursor..now
  /\ link.attempt \in 0..MaxAttempt /\ nextDelayMs(link.attempt) \in 1..MaxDelay
  /\ view \in [Items -> [v : Nat, at : 0..now, opt : BOOLEAN]]
  /\ missed \in [Items -> SUBSET Causes] /\ overlap \in BOOLEAN

Quiet == snap.st = "done" /\ link.st = "open" /\ link.wire = <<>>
\* A stream that is connected and has nothing to send has left no item behind, however
\* the snapshot and the stream overlapped and whatever happened to earlier connections,
\* but for the reasons of the item's own in missed, and but for a task whose event is
\* still to be recorded: the cursor taken from the list is otherwise enough.
CaughtUp ==
  Quiet /\ (\A e \in Selected : list.sends = "again" /\ view[e.i].v = rows[e.i].v) =>
    \A i \in Lagging(rows, view) : missed[i] # {} \/ Owed(i)

\* A moved card that is no longer being moved shows what the server has, unless
\* another request was made while it was.
NoPhantomMove ==
  (\A w \in own : w.op # "move") /\ ~overlap =>
    \A i \in Items : ~view[i].opt

\* An answer has overtaken an event about the same item.
Overtaken == \E n \in DOMAIN link.wire : link.wire[n].v < view[link.wire[n].i].v
\* The list is a replica: it shows versions that exist, and steps back only when a
\* request of the page (or its first read) is answered, or has just overtaken the
\* stream.
R == INSTANCE Replica WITH
       truth  <- [i \in Items |-> rows[i].v],
       shown  <- [i \in Items |-> view[i].v],
       asking <- own # {} \/ snap.st \in {"sent", "read"} \/ Overtaken
ImplementsReplica == R!ReplicaSpec

\* The list ends up with every item there is no reason to have missed, or its stream is
\* off (tab in the background, no board) or has been ended by the server for good.
Converges ==
  <>[]( \/ link.st \in {"off", "ended"} \/ snap.st = "failed"
        \/ \A i \in Lagging(rows, view) : missed[i] # {})
=============================================================================
