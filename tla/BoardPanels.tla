---------------------------- MODULE BoardPanels -----------------------------
(***************************************************************************)
(* The board page as its user works it: three side panels (task detail,    *)
(* chat, live feed), the address that names the open one, the comments of  *)
(* the selected task, its edit form, and the requests they make.  The      *)
(* router takes its time: an address asked for with router.replace is seen *)
(* by the page in a later render, and a second request replaces the first. *)
(*                                                                         *)
(* React runs a handler and the effects it causes before the next event,   *)
(* so each is one step here.  Of a task only its version matters, of a     *)
(* comment its task and number.  Left out: the edit dialog's open flag,    *)
(* the highlight of a linked comment, toasts and error texts.  The lists   *)
(* themselves and lost connections are in BoardStreams.                    *)
(***************************************************************************)
EXTENDS Integers, FiniteSets, Bags

CONSTANTS Tasks,
          NoTask,
          Modes,       \* the filters of the live feed, one of them "all"
          MaxActs,     \* what the user does
          MaxEvents    \* what happens to it: changes and comments by others, failures

ASSUME PanelsAssumption ==
  /\ NoTask \notin Tasks /\ "all" \in Modes
  /\ {MaxActs, MaxEvents} \subseteq Nat

VARIABLES row, said,          \* the server: version of each task, its comments
          told, fed,          \* what the event stream has delivered of them
          loaded,             \* hasLoadedBoardSnapshot
          card,               \* the cards on the board
          ui,                 \* panels, selection and refs
          url, nav,           \* the address rendered, the one asked for
          comments, loading,  \* the comments shown, isCommentsLoading
          loads, reqs,        \* reads of comments, and writes, in flight
          hasty, apart, doubt,\* history: what is not promised at the moment
          acts, events

server == <<row, said>>
stream == <<told, fed>>
talk   == <<comments, loading, loads>>
counts == <<acts, events>>
vars   == <<server, stream, loaded, card, ui, url, nav, talk, reqs, hasty, apart, doubt, counts>>

(* ------------------------------- the page ------------------------------ *)
NoCard == [v |-> 0, opt |-> FALSE]
Gone   == -1   \* a task that was deleted
OnBoard(c) == {t \in Tasks : c[t].v > 0}
Address == [task : Tasks \cup {NoTask}, comment : BOOLEAN, panel : BOOLEAN, feed : Modes]
NoUrl == [task |-> NoTask, comment |-> FALSE, panel |-> FALSE, feed |-> "all"]
NoNav == NoTask
ASSUME NavAssumption == NoNav \notin Address

\* A page is [ui, url, nav, want]: want is the task whose comments to load.
Here == [ui |-> ui, url |-> url, nav |-> nav, want |-> NoTask, clear |-> FALSE]

\* buildUrlWithTaskAndComment and router.replace; the filter of the address seen stays
Replace(p, seen, t, c, panel) ==
  [p EXCEPT !.nav = [seen EXCEPT !.task = t, !.comment = c, !.panel = panel]]

\* tasksRef holds the cards; the form is filled from the card opened
openComments(p, t, keep, c) ==
  LET shut == [p EXCEPT !.ui.chat = FALSE, !.ui.feed = FALSE]
      aim  == keep /\ p.url.comment
      open == [shut EXCEPT !.ui.task = t, !.ui.detail = TRUE, !.ui.base = c[t], !.want = t]
  IN  IF t \notin OnBoard(c) THEN shut
      ELSE IF p.url.task # t \/ p.url.comment # aim THEN Replace(open, p.url, t, aim, FALSE)
      ELSE open

\* seen: the address rendered when the handler was created
closeComments(p, seen) ==
  LET q == [p EXCEPT !.ui.opened = NoTask, !.ui.task = NoTask, !.ui.detail = FALSE,
                     !.clear = TRUE]
  IN  IF seen.task # NoTask \/ seen.comment THEN Replace(q, seen, NoTask, FALSE, FALSE) ELSE q

openBoardChat(p) ==
  LET q == IF p.ui.detail THEN closeComments(p, p.url) ELSE p
      r == [q EXCEPT !.ui.feed = FALSE, !.ui.chat = TRUE]
  IN  IF ~p.url.panel \/ p.url.task # NoTask \/ p.url.comment
      THEN Replace(r, p.url, NoTask, FALSE, TRUE) ELSE r

closeBoardChatOnly(p) == [p EXCEPT !.ui.chat = FALSE]  \* mutant: the address keeps the panel

closeBoardChat(p) ==
  LET q == [p EXCEPT !.ui.chat = FALSE]
  IN  IF p.url.panel THEN Replace(q, p.url, NoTask, FALSE, FALSE) ELSE q

openLiveFeedOverChat(p) ==  \* mutant: the chat is left open
  LET q == IF p.ui.detail THEN closeComments(p, p.url) ELSE p
  IN  [q EXCEPT !.ui.feed = TRUE]

openLiveFeed(p) ==
  LET q == IF p.ui.detail THEN closeComments(p, p.url) ELSE p
      r == IF p.ui.chat THEN closeBoardChat(q) ELSE q
  IN  [r EXCEPT !.ui.feed = TRUE]

closeLiveFeed(p) == [p EXCEPT !.ui.feed = FALSE]

updateLiveFeedMode(p, m) ==
  [p EXCEPT !.ui.mode = m, !.nav = [p.url EXCEPT !.feed = m]]

\* The effect that opens the task of the address, once: run when the snapshot is
\* there, and again whenever the address or the cards change.
taskFromUrl(p, c) ==
  IF p.url.task = NoTask THEN [p EXCEPT !.ui.opened = NoTask]
  ELSE IF p.ui.opened = p.url.task THEN p
  ELSE IF p.url.task \notin OnBoard(c) THEN Replace(p, p.url, NoTask, FALSE, FALSE)
  ELSE openComments([p EXCEPT !.ui.opened = p.url.task], p.url.task, TRUE, c)

panelFromUrl(p) ==
  IF ~p.url.panel THEN [p EXCEPT !.ui.openedChat = FALSE]
  ELSE IF p.ui.openedChat THEN p
  ELSE [p EXCEPT !.ui.openedChat = TRUE, !.ui.detail = FALSE, !.ui.task = NoTask,
                 !.ui.feed = FALSE, !.ui.chat = TRUE, !.clear = TRUE]

Effects(p, c) == panelFromUrl(taskFromUrl(p, c))

(* ------------------------------ comments ------------------------------- *)
CommentsOf(t) == {<<t, n>> : n \in 1..said[t]}
\* loadComments: sends the read; the list stays until the answer
One(l) == SetToBag({l})
Loads(t) == IF t = NoTask THEN loads ELSE loads (+) One([t |-> t, st |-> "sent", ans |-> {}])

\* The address and the panels say the same.
Agrees(p) ==
  /\ p.ui.detail <=> p.url.task # NoTask
  /\ p.ui.detail => p.url.task = p.ui.task
  /\ p.ui.chat <=> p.url.panel
  /\ p.ui.mode = p.url.feed
\* The page becomes p with the cards c, and what p asks for is sent.  why: reasons
\* for which the address ("hasty"), the form ("apart") or the comments may be wrong
\* from now on, until they are right again.
Becomes(page, c, why) == \E p \in {page} :
  /\ ui' = p.ui /\ url' = p.url /\ nav' = p.nav /\ card' = c
  /\ loads' = Loads(p.want)
  /\ loading' = (p.want # NoTask \/ loading)
  /\ comments' = IF p.clear THEN {} ELSE comments
  /\ doubt' = (IF p.clear THEN {} ELSE doubt) \cup (why \cap {"late"})
  /\ hasty' = ((hasty \/ "hasty" \in why) /\ ~(p.nav = NoNav /\ Agrees(p)))
  /\ apart' = ((apart \/ "apart" \in why) /\ p.ui.task # NoTask /\ p.ui.base # c[p.ui.task])
\* acting while the router is still on its way
Hasty == IF nav # NoNav THEN {"hasty"} ELSE {}

(* -------------------------------- Init --------------------------------- *)
Init ==
  /\ row \in [Tasks -> 0..1] /\ said = row
  /\ told = row /\ fed = said
  /\ loaded = FALSE /\ card = [t \in Tasks |-> NoCard]
  /\ ui = [task |-> NoTask, detail |-> FALSE, chat |-> FALSE, feed |-> FALSE,
           mode |-> "all", base |-> NoCard, opened |-> NoTask, openedChat |-> FALSE]
  \* links elsewhere name a task, a task and a comment, or nothing; a reload the chat
  /\ url \in Address /\ url.feed = "all"
  /\ url.panel => url.task = NoTask
  /\ url.comment => url.task # NoTask
  /\ nav = NoNav
  /\ comments = {} /\ loading = FALSE /\ loads = EmptyBag /\ reqs = {}
  /\ hasty = FALSE /\ apart = FALSE /\ doubt = {}
  /\ acts = 0 /\ events = 0

(* ------------------------- the snapshot and the router ------------------ *)
Loaded(c) ==
  /\ ~loaded
  /\ loaded' = TRUE
  /\ Becomes(Effects(Here, c), c, Hasty)
  /\ UNCHANGED <<server, reqs>>
loadBoard ==
  /\ Loaded([t \in Tasks |-> [v |-> row[t], opt |-> FALSE]])
  /\ told' = row /\ UNCHANGED <<fed, counts>>
\* a failed snapshot counts as loaded, with no cards
loadBoardFails ==
  /\ events < MaxEvents /\ events' = events + 1
  /\ Loaded(card)
  /\ UNCHANGED <<stream, acts>>

Land ==
  /\ nav # NoNav
  /\ LET p == [Here EXCEPT !.url = nav, !.nav = NoNav,
                         !.ui.mode = IF nav.feed # url.feed THEN nav.feed ELSE @]
     IN  Becomes(IF loaded THEN Effects(p, card) ELSE p, card, {})
  /\ UNCHANGED <<server, stream, loaded, reqs, counts>>

(* -------------------------------- the user ----------------------------- *)
Act(p) ==
  /\ acts < MaxActs /\ acts' = acts + 1
  /\ Becomes(p, card, Hasty)
  /\ UNCHANGED <<server, stream, loaded, reqs, events>>
\* a card, a dependency, or an item of the feed, whose task may not be on the board
ClickTask(t)    == (t \in OnBoard(card) \/ ui.feed) /\ Act(openComments(Here, t, FALSE, card))
CloseDetail     == ui.detail /\ Act(closeComments(Here, url))
OpenChat        == Act(openBoardChat(Here))
CloseChat       == ui.chat /\ Act(closeBoardChat(Here))
OpenFeed        == Act(openLiveFeed(Here))
CloseFeed       == ui.feed /\ Act(closeLiveFeed(Here))
PickMode(m)     == ui.feed /\ Act(updateLiveFeedMode(Here, m))

\* handleTaskMove: the cards become c, and the panel is not told
Moved(c) == Becomes(Effects(Here, c), c, Hasty \cup {"apart"})

\* handleTaskSave, handleDeleteTask, handlePostComment, handleTaskMove: one of each
\* of the first three at a time (isSavingTask, isDeletingTask, isPostingComment)
Busy(op) == \E w \in reqs : w.op = op
May(op, t) ==
  CASE op \in {"save", "delete"} -> t = ui.task /\ ~Busy(op) /\ ~Busy("save")
    [] op = "post" -> t = ui.task /\ ui.detail /\ ~Busy(op)
    [] op = "move" -> t \in OnBoard(card) /\ ~ui.detail
Send(op, t) ==
  /\ acts < MaxActs /\ acts' = acts + 1
  /\ May(op, t)
  /\ reqs' = reqs \cup {[op |-> op, t |-> t, st |-> "sent", v |-> 0,
                         url |-> IF op = "delete" THEN url ELSE NoUrl,
                         prev |-> IF op = "move" THEN card ELSE [s \in Tasks |-> NoCard]]}
  /\ IF op = "move" THEN Moved([card EXCEPT ![t].opt = TRUE])
     ELSE UNCHANGED <<card, ui, url, nav, talk, hasty, apart, doubt>>
  /\ UNCHANGED <<server, stream, loaded, events>>

(* ------------------------------- answers ------------------------------- *)
Takes(w) ==
  /\ w.st = "sent" /\ row[w.t] > 0
  /\ IF w.op = "post" THEN said' = [said EXCEPT ![w.t] = @ + 1] /\ row' = row
     ELSE IF w.op = "delete" THEN row' = [row EXCEPT ![w.t] = Gone] /\ said' = said
     ELSE row' = [row EXCEPT ![w.t] = @ + 1] /\ said' = said
  /\ told' = IF w.op = "delete" THEN [told EXCEPT ![w.t] = Gone] ELSE told
  /\ reqs' = (reqs \ {w}) \cup {[w EXCEPT !.st = "applied",
                                 !.v = IF w.op = "post" THEN said'[w.t] ELSE row'[w.t]]}
  /\ UNCHANGED <<fed, loaded, card, ui, url, nav, talk, hasty, apart, doubt, counts>>

Shown(w) == [v |-> w.v, opt |-> FALSE]
Put(t, x) == IF t \in OnBoard(card) THEN [card EXCEPT ![t] = x] ELSE card
\* the answer selects its task, whatever is selected by now
SaveAnswered(w) ==
  LET c == Put(w.t, Shown(w))
      p == [Here EXCEPT !.ui.task = w.t, !.ui.base = Shown(w)]
  IN  Becomes(Effects(p, c), c,
              Hasty \cup IF ui.task # w.t THEN {"hasty", "apart", "late"} ELSE {})
\* closes whatever is open by now, with the address of the click
DeleteAnswered(w) ==
  LET c == [card EXCEPT ![w.t] = NoCard]
  IN  Becomes(Effects(closeComments(Here, w.url), c), c,
              Hasty \cup IF ui.task # w.t \/ url # w.url THEN {"hasty"} ELSE {})
PostAnswered(w) ==
  /\ comments' = comments \cup {<<w.t, w.v>>}
  /\ doubt' = IF ui.task # w.t THEN doubt \cup {"stray"} ELSE doubt
  /\ UNCHANGED <<card, ui, url, nav, loading, loads, hasty, apart>>
MoveAnswered(w) == Moved(Put(w.t, Shown(w)))
Answer(w) ==
  /\ w.st = "applied"
  /\ CASE w.op = "save" -> SaveAnswered(w)
       [] w.op = "delete" -> DeleteAnswered(w)
       [] w.op = "post" -> PostAnswered(w)
       [] w.op = "move" -> MoveAnswered(w)
  /\ reqs' = reqs \ {w}
  /\ UNCHANGED <<server, stream, loaded, counts>>
\* refused (the task is gone, blocked or not valid), or the answer is lost
Fail(w) ==
  /\ \/ w.st = "sent" /\ row[w.t] <= 0 /\ UNCHANGED events
     \/ events < MaxEvents /\ events' = events + 1
  /\ IF w.op = "move" THEN Moved(w.prev)
     ELSE UNCHANGED <<card, ui, url, nav, talk, hasty, apart, doubt>>
  /\ reqs' = reqs \ {w}
  /\ UNCHANGED <<server, stream, loaded, acts>>

ReadComments(l) ==
  /\ l.st = "sent"
  /\ loads' = (loads (-) One(l)) (+) One([l EXCEPT !.st = "read", !.ans = CommentsOf(l.t)])
  /\ UNCHANGED <<server, stream, loaded, card, ui, url, nav, comments, loading, reqs,
                 hasty, apart, doubt, counts>>
\* whatever task is selected by now, and whatever came since the read
loadComments(l) ==
  /\ l.st = "read"
  /\ comments' = l.ans /\ loading' = FALSE
  /\ loads' = loads (-) One(l)
  /\ doubt' = (IF l.t # ui.task THEN {"stray"} ELSE {})
              \cup (IF {<<l.t, n>> : n \in 1..fed[l.t]} \subseteq l.ans THEN {} ELSE {"overtaken"})
  /\ UNCHANGED <<server, stream, loaded, card, ui, url, nav, reqs, hasty, apart, counts>>
loadCommentsFailsLoading(l) ==  \* mutant: the spinner is not taken away after an error
  /\ events < MaxEvents /\ events' = events + 1
  /\ loads' = loads (-) One(l)
  /\ doubt' = doubt \cup {"failed"}
  /\ UNCHANGED <<server, stream, loaded, card, ui, url, nav, comments, loading, reqs, hasty,
                 apart, acts>>

loadCommentsFails(l) ==
  /\ events < MaxEvents /\ events' = events + 1
  /\ loading' = FALSE /\ loads' = loads (-) One(l)
  /\ doubt' = doubt \cup {"failed"}
  /\ UNCHANGED <<server, stream, loaded, card, ui, url, nav, comments, reqs, hasty, apart,
                 acts>>

(* ------------------------------- others -------------------------------- *)
RemoteSay(t) ==
  /\ events < MaxEvents /\ events' = events + 1 /\ row[t] > 0
  /\ said' = [said EXCEPT ![t] = @ + 1]
  /\ UNCHANGED <<row, stream, loaded, card, ui, url, nav, talk, reqs, hasty, apart, doubt,
                 acts>>
ToldCardOnly(t, v) ==  \* mutant: the selected task is not updated
  LET c == [card EXCEPT ![t] = [v |-> v, opt |-> FALSE]]
  IN  Becomes(Effects(Here, c), c, Hasty)

\* the stream's task event: card and, if selected, the form
Told(t, v) ==
  LET c == [card EXCEPT ![t] = [v |-> v, opt |-> FALSE]]
      p == IF ui.task = t THEN [Here EXCEPT !.ui.base = c[t]] ELSE Here
  IN  Becomes(Effects(p, c), c, Hasty)
TaskEvent(t) ==
  /\ loaded /\ told[t] < row[t]
  /\ told' = [told EXCEPT ![t] = row[t]]
  /\ Told(t, row[t])
  /\ UNCHANGED <<server, fed, loaded, reqs, counts>>
\* a task made or changed by others, which the page learns of
RemoteEdit(t) ==
  /\ events < MaxEvents /\ events' = events + 1 /\ row[t] # Gone /\ loaded
  /\ row' = [row EXCEPT ![t] = @ + 1] /\ told' = [told EXCEPT ![t] = row[t] + 1]
  /\ Told(t, row[t] + 1)
  /\ UNCHANGED <<said, fed, loaded, reqs, acts>>
CommentEventAny(t) ==  \* mutant: a comment of any task is appended
  /\ loaded /\ row[t] # Gone /\ fed[t] < said[t]
  /\ fed' = [fed EXCEPT ![t] = @ + 1]
  /\ comments' = comments \cup {<<t, fed'[t]>>}
  /\ UNCHANGED <<server, told, loaded, card, ui, url, nav, loading, loads, reqs, hasty, apart,
                 doubt, counts>>

CommentEvent(t) ==
  /\ loaded /\ row[t] # Gone /\ fed[t] < said[t]
  /\ fed' = [fed EXCEPT ![t] = @ + 1]
  /\ comments' = IF ui.task = t THEN comments \cup {<<t, fed'[t]>>} ELSE comments
  /\ UNCHANGED <<server, told, loaded, card, ui, url, nav, loading, loads, reqs, hasty, apart,
                 doubt, counts>>

User ==
  \/ \E t \in Tasks : ClickTask(t)
  \/ CloseDetail \/ OpenChat \/ CloseChat \/ OpenFeed \/ CloseFeed
  \/ \E m \in Modes : PickMode(m)
  \/ \E op \in {"save", "delete", "post", "move"}, t \in Tasks : Send(op, t)
Events == \E t \in Tasks : TaskEvent(t) \/ CommentEvent(t)
Settles ==
  \/ \E w \in reqs : Takes(w) \/ Answer(w) \/ Fail(w)
  \/ \E l \in BagToSet(loads) : ReadComments(l) \/ loadComments(l) \/ loadCommentsFails(l)
Others == \E t \in Tasks : RemoteEdit(t) \/ RemoteSay(t)
System == loadBoard \/ loadBoardFails \/ Land \/ Settles \/ Events
Next == System \/ User \/ Others

Spec == Init /\ [][Next]_vars
\* Requests are answered or fail, the router gets there, the stream goes on;
\* nothing is assumed of the users.
FairSpec == Spec /\ WF_vars(System)

(* ----------------------------- properties ------------------------------ *)
\* Every piece of state keeps its shape; and task detail, chat and live feed are never
\* open together, whether opened by a click, by the address or by an answer, and an
\* open detail shows a task.
PanelsOK ==
  /\ card \in [Tasks -> [v : Nat, opt : BOOLEAN]]
  /\ ui.task \in Tasks \cup {NoTask} /\ ui.mode \in Modes
  /\ url \in Address /\ nav \in Address \cup {NoNav}
  /\ comments \subseteq Tasks \X Nat
  /\ loading => loads # EmptyBag
  /\ doubt \subseteq {"late", "stray", "overtaken", "failed"}
  /\ Cardinality({x \in {"detail", "chat", "feed"} : ui[x]}) <= 1
  /\ ui.detail => ui.task # NoTask

\* Once the router has caught up, the address names the open panel, its task and the
\* filter (a reload shows what is on screen), unless the page was changed while the
\* router was on its way, or an answer came for a panel left since.
UrlAgrees == loaded /\ nav = NoNav /\ ~hasty => Agrees(Here)

\* When no read is in flight and the stream has caught up, the comments under an open
\* task are all of its comments and no others, unless an answer failed, came after a
\* later selection, or had been overtaken by the stream.
CommentsRight ==
  ui.detail /\ loads = EmptyBag /\ fed[ui.task] = said[ui.task] /\ doubt = {}
  => comments = CommentsOf(ui.task)

\* The form of the selected task was filled from the card the board shows, so that
\* saving it never brings back fields of a version the page had replaced, except
\* after a move or a late answer changed the card under it.
FormCurrent == ui.task # NoTask /\ ~apart => ui.base = card[ui.task]

\* The page comes to rest: the router is not kept busy, and no spinner stays.
ComesToRest == <>[](nav = NoNav /\ ~loading)
=============================================================================
