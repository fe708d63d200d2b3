------------------------- MODULE BoardPanelsProofs --------------------------
(***************************************************************************)
(* TLAPS proofs about BoardPanels: the shape of the page and its panels,   *)
(* the address, the edit form and the comments, for every set of tasks and *)
(* filters and every number of acts and events.                            *)
(***************************************************************************)
EXTENDS BoardPanels, FiniteSetTheorems, TLAPS

-----------------------------------------------------------------------------
(* Reads of comments in flight. *)

(* Sending a read adds it to the bag; a read that ends is taken out once. *)
LEMMA AddRead ==
    ASSUME NEW B, IsABag(B), NEW x
    PROVE  IsABag(B (+) One(x)) /\ DOMAIN (B (+) One(x)) = DOMAIN B \cup {x}
  BY DEF (+), One, SetToBag, IsABag

LEMMA DropRead ==
    ASSUME NEW B, IsABag(B), NEW x
    PROVE  /\ IsABag(B (-) One(x))
           /\ DOMAIN (B (-) One(x)) \subseteq DOMAIN B
           /\ DOMAIN B \ {x} \subseteq DOMAIN (B (-) One(x))
  BY DEF (-), One, SetToBag, IsABag

LEMMA EmptyReads ==
    ASSUME NEW B, IsABag(B)
    PROVE  B = EmptyBag <=> DOMAIN B = {}
  BY DEF EmptyBag, SetToBag, IsABag

-----------------------------------------------------------------------------
(* Pages. *)

Card  == [v : Nat, opt : BOOLEAN]
Cards == [Tasks -> Card]
Ui    == [task : Tasks \cup {NoTask}, detail : BOOLEAN, chat : BOOLEAN, feed : BOOLEAN,
          mode : Modes, base : Card, opened : Tasks \cup {NoTask}, openedChat : BOOLEAN]
Page  == [ui : Ui, url : Address, nav : Address \cup {NoNav}, want : Tasks \cup {NoTask},
          clear : BOOLEAN]

(* An address with a panel names no task. *)
Plain(a) == a.panel => a.task = NoTask /\ ~a.comment

(* At most one panel is open; a detail has a task; a selected task was on   *)
(* the board when its form was filled.                                      *)
Tidy(u) ==
    /\ u.detail => ~u.chat /\ ~u.feed
    /\ u.chat => ~u.feed
    /\ u.detail => u.task # NoTask
    /\ u.task # NoTask => u.base.v > 0

Shape(p) == /\ p \in Page /\ Tidy(p.ui) /\ Plain(p.url)
            /\ p.nav # NoNav => Plain(p.nav)

(* The fields that an operation leaves alone. *)
SameRefs(q, p) == q.ui.opened = p.ui.opened /\ q.ui.openedChat = p.ui.openedChat
SamePanels(q, p) == q.ui.detail = p.ui.detail /\ q.ui.chat = p.ui.chat /\ q.ui.feed = p.ui.feed
SameForm(q, p) == q.ui.task = p.ui.task /\ q.ui.base = p.ui.base
SameTalk(q, p) == q.want = p.want /\ q.clear = p.clear

(* What each operation makes of a page p, field by field. *)
Redirected(q, p, seen, t, c, panel) ==
    /\ q \in Page /\ q.ui = p.ui /\ q.url = p.url /\ SameTalk(q, p)
    /\ q.nav \in Address /\ q.nav # NoNav
    /\ q.nav.task = t /\ (q.nav.comment <=> c) /\ (q.nav.panel <=> panel)
    /\ q.nav.feed = seen.feed

LEMMA ReplaceFacts ==
    ASSUME NEW p \in Page, NEW seen \in Address, NEW t \in Tasks \cup {NoTask},
           NEW c \in BOOLEAN, NEW panel \in BOOLEAN
    PROVE  Redirected(Replace(p, seen, t, c, panel), p, seen, t, c, panel)
<1> DEFINE a == [seen EXCEPT !.task = t, !.comment = c, !.panel = panel]
<1>1. a \in Address /\ a.task = t /\ a.comment = c /\ a.panel = panel /\ a.feed = seen.feed
  BY DEF Address
<1> HIDE DEF a
<1>2. LET q == [p EXCEPT !.nav = a] IN
      q \in Page /\ q.ui = p.ui /\ q.url = p.url /\ SameTalk(q, p) /\ q.nav = a
  BY <1>1 DEF Page, SameTalk
<1>3. Replace(p, seen, t, c, panel) = [p EXCEPT !.nav = a]
  BY DEF Replace, a
<1> QED BY <1>1, <1>2, <1>3, NavAssumption DEF Redirected

Opened(q, p, t, keep, c) ==
    LET stays == p.url.task = t /\ (p.url.comment => keep) IN
    /\ q \in Page /\ q.url = p.url /\ q.clear = p.clear /\ SameRefs(q, p)
    /\ ~q.ui.chat /\ ~q.ui.feed /\ q.ui.mode = p.ui.mode
    /\ t \notin OnBoard(c) =>
         SameForm(q, p) /\ q.ui.detail = p.ui.detail /\ q.want = p.want /\ q.nav = p.nav
    /\ t \in OnBoard(c) =>
         /\ q.ui.task = t /\ q.ui.detail /\ q.ui.base = c[t] /\ q.want = t
         /\ stays => q.nav = p.nav
         /\ ~stays => /\ q.nav \in Address /\ q.nav # NoNav
                      /\ q.nav.task = t /\ ~q.nav.panel /\ q.nav.feed = p.url.feed

LEMMA OpenFacts ==
    ASSUME NEW p \in Page, NEW t \in Tasks, NEW keep \in BOOLEAN, NEW c \in Cards
    PROVE  Opened(openComments(p, t, keep, c), p, t, keep, c)
<1> DEFINE shut == [p EXCEPT !.ui.chat = FALSE, !.ui.feed = FALSE]
           open == [shut EXCEPT !.ui.task = t, !.ui.detail = TRUE, !.ui.base = c[t], !.want = t]
           aim == keep /\ p.url.comment
<1>1. /\ shut \in Page /\ shut.url = p.url /\ SameTalk(shut, p) /\ SameRefs(shut, p)
      /\ shut.nav = p.nav /\ ~shut.ui.chat /\ ~shut.ui.feed /\ shut.ui.mode = p.ui.mode
      /\ SameForm(shut, p) /\ shut.ui.detail = p.ui.detail
  BY DEF Page, Ui, SameTalk, SameRefs, SameForm
<1> HIDE DEF shut
<1>2. c[t] \in Card /\ aim \in BOOLEAN /\ p.url \in Address /\ p.url.comment \in BOOLEAN
  BY DEF Cards, Page, Address
<1>3. /\ open \in Page /\ open.url = p.url /\ open.clear = p.clear /\ SameRefs(open, p)
      /\ open.nav = p.nav /\ ~open.ui.chat /\ ~open.ui.feed /\ open.ui.mode = p.ui.mode
      /\ open.ui.task = t /\ open.ui.detail /\ open.ui.base = c[t] /\ open.want = t
  BY <1>1, <1>2 DEF Page, Ui, SameTalk, SameRefs, SameForm
<1>4. openComments(p, t, keep, c) =
        IF t \notin OnBoard(c) THEN shut
        ELSE IF p.url.task # t \/ p.url.comment # aim THEN Replace(open, p.url, t, aim, FALSE)
        ELSE open
  BY DEF openComments, shut
<1>5. p.url.comment = aim <=> (p.url.comment => keep)
  BY <1>2
<1> HIDE DEF open, aim
<1>6. CASE t \notin OnBoard(c)
  BY <1>1, <1>4, <1>6 DEF SameTalk, Opened
<1>7. CASE t \in OnBoard(c) /\ p.url.task = t /\ p.url.comment = aim
  BY <1>3, <1>4, <1>5, <1>7 DEF Opened
<1>8. CASE t \in OnBoard(c) /\ ~(p.url.task = t /\ p.url.comment = aim)
  <2> DEFINE q == Replace(open, p.url, t, aim, FALSE)
  <2>1. openComments(p, t, keep, c) = q
    BY <1>4, <1>8
  <2>2. Redirected(q, open, p.url, t, aim, FALSE)
    BY <1>2, <1>3, ReplaceFacts, Zenon
  <2> HIDE DEF q
  <2> QED BY <1>3, <1>5, <1>8, <2>1, <2>2 DEF SameRefs, SameTalk, Redirected, Opened
<1> QED BY <1>6, <1>7, <1>8

Closed(q, p, seen) ==
    LET stays == seen.task = NoTask /\ ~seen.comment IN
    /\ q \in Page /\ q.url = p.url /\ q.want = p.want /\ q.clear
    /\ q.ui.task = NoTask /\ ~q.ui.detail /\ q.ui.opened = NoTask
    /\ q.ui.chat = p.ui.chat /\ q.ui.feed = p.ui.feed /\ q.ui.mode = p.ui.mode
    /\ q.ui.openedChat = p.ui.openedChat
    /\ stays => q.nav = p.nav
    /\ ~stays => /\ q.nav \in Address /\ q.nav # NoNav
                 /\ q.nav.task = NoTask /\ ~q.nav.panel /\ q.nav.feed = seen.feed

LEMMA CloseFacts ==
    ASSUME NEW p \in Page, NEW seen \in Address
    PROVE  Closed(closeComments(p, seen), p, seen)
<1> DEFINE shut == [p EXCEPT !.ui.opened = NoTask, !.ui.task = NoTask, !.ui.detail = FALSE,
                             !.clear = TRUE]
           q == Replace(shut, seen, NoTask, FALSE, FALSE)
<1>1. /\ shut \in Page /\ shut.url = p.url /\ shut.nav = p.nav /\ shut.want = p.want /\ shut.clear
      /\ shut.ui.task = NoTask /\ ~shut.ui.detail /\ shut.ui.opened = NoTask
      /\ shut.ui.chat = p.ui.chat /\ shut.ui.feed = p.ui.feed /\ shut.ui.mode = p.ui.mode
      /\ shut.ui.openedChat = p.ui.openedChat
  BY DEF Page, Ui
<1>2. closeComments(p, seen) = IF seen.task # NoTask \/ seen.comment THEN q ELSE shut
  BY DEF closeComments
<1> HIDE DEF shut
<1>3. Redirected(q, shut, seen, NoTask, FALSE, FALSE)
  BY <1>1, ReplaceFacts, Zenon
<1> HIDE DEF q
<1> QED BY <1>1, <1>2, <1>3 DEF SameTalk, Redirected, Closed

ChatOpened(q, p) ==
    LET stays == p.url.panel /\ p.url.task = NoTask /\ ~p.url.comment IN
    /\ q \in Page /\ q.url = p.url /\ q.want = p.want
    /\ ~q.ui.detail /\ q.ui.chat /\ ~q.ui.feed /\ q.ui.mode = p.ui.mode
    /\ q.ui.openedChat = p.ui.openedChat
    /\ p.ui.detail => q.ui.task = NoTask /\ q.ui.opened = NoTask
    /\ ~p.ui.detail => SameForm(q, p) /\ q.ui.opened = p.ui.opened
    /\ stays => q.nav = p.nav
    /\ ~stays => /\ q.nav \in Address /\ q.nav # NoNav
                 /\ q.nav.task = NoTask /\ ~q.nav.comment /\ q.nav.panel
                 /\ q.nav.feed = p.url.feed

LEMMA ChatOpenFacts ==
    ASSUME NEW p \in Page PROVE ChatOpened(openBoardChat(p), p)
<1> DEFINE left == IF p.ui.detail THEN closeComments(p, p.url) ELSE p
           r == [left EXCEPT !.ui.feed = FALSE, !.ui.chat = TRUE]
           q == Replace(r, p.url, NoTask, FALSE, TRUE)
<1>1. p.url \in Address /\ p.ui \in Ui
  BY DEF Page
<1>2. Closed(closeComments(p, p.url), p, p.url)
  BY <1>1, CloseFacts
<1>3. /\ left \in Page /\ left.url = p.url /\ left.want = p.want /\ ~left.ui.detail
      /\ left.ui.mode = p.ui.mode /\ left.ui.openedChat = p.ui.openedChat
      /\ p.ui.detail => left.ui.task = NoTask /\ left.ui.opened = NoTask
      /\ ~p.ui.detail => SameForm(left, p) /\ left.ui.opened = p.ui.opened
      /\ p.url.task = NoTask /\ ~p.url.comment => left.nav = p.nav
  BY <1>2 DEF Closed, SameForm
<1>4. openBoardChat(p) =
        IF ~p.url.panel \/ p.url.task # NoTask \/ p.url.comment THEN q ELSE r
  BY DEF openBoardChat
<1> HIDE DEF left
<1>5. /\ r \in Page /\ r.url = p.url /\ r.want = p.want /\ ~r.ui.detail /\ r.ui.chat /\ ~r.ui.feed
      /\ r.ui.mode = p.ui.mode /\ r.ui.openedChat = p.ui.openedChat
      /\ p.ui.detail => r.ui.task = NoTask /\ r.ui.opened = NoTask
      /\ ~p.ui.detail => SameForm(r, p) /\ r.ui.opened = p.ui.opened
      /\ p.url.task = NoTask /\ ~p.url.comment => r.nav = p.nav
  BY <1>3 DEF Page, Ui, SameForm
<1> HIDE DEF r
<1>6. Redirected(q, r, p.url, NoTask, FALSE, TRUE)
  BY <1>1, <1>5, ReplaceFacts, Zenon
<1> HIDE DEF q
<1> QED BY <1>4, <1>5, <1>6 DEF Redirected, SameTalk, SameForm, ChatOpened

ChatClosed(q, p) ==
    /\ q \in Page /\ q.url = p.url /\ SameTalk(q, p) /\ SameForm(q, p) /\ SameRefs(q, p)
    /\ q.ui.detail = p.ui.detail /\ ~q.ui.chat /\ q.ui.feed = p.ui.feed /\ q.ui.mode = p.ui.mode
    /\ ~p.url.panel => q.nav = p.nav
    /\ p.url.panel => /\ q.nav \in Address /\ q.nav # NoNav
                      /\ q.nav.task = NoTask /\ ~q.nav.panel /\ q.nav.feed = p.url.feed

LEMMA ChatCloseFacts ==
    ASSUME NEW p \in Page PROVE ChatClosed(closeBoardChat(p), p)
<1> DEFINE r == [p EXCEPT !.ui.chat = FALSE]
           q == Replace(r, p.url, NoTask, FALSE, FALSE)
<1>1. /\ r \in Page /\ r.url = p.url /\ SameTalk(r, p) /\ SameForm(r, p) /\ SameRefs(r, p)
      /\ r.ui.detail = p.ui.detail /\ ~r.ui.chat /\ r.ui.feed = p.ui.feed /\ r.ui.mode = p.ui.mode
      /\ r.nav = p.nav /\ p.url \in Address
  BY DEF Page, Ui, SameTalk, SameForm, SameRefs
<1>2. closeBoardChat(p) = IF p.url.panel THEN q ELSE r
  BY DEF closeBoardChat
<1> HIDE DEF r
<1>3. Redirected(q, r, p.url, NoTask, FALSE, FALSE)
  BY <1>1, ReplaceFacts, Zenon
<1> HIDE DEF q
<1> QED BY <1>1, <1>2, <1>3 DEF Redirected, SameTalk, SameForm, SameRefs, ChatClosed

FeedOpened(q, p) ==
    LET moves == \/ p.ui.detail /\ (p.url.task # NoTask \/ p.url.comment)
                 \/ p.ui.chat /\ p.url.panel IN
    /\ q \in Page /\ q.url = p.url /\ q.want = p.want
    /\ ~q.ui.detail /\ ~q.ui.chat /\ q.ui.feed /\ q.ui.mode = p.ui.mode
    /\ q.ui.openedChat = p.ui.openedChat
    /\ p.ui.detail => q.ui.task = NoTask /\ q.ui.opened = NoTask
    /\ ~p.ui.detail => SameForm(q, p) /\ q.ui.opened = p.ui.opened
    /\ ~moves => q.nav = p.nav
    /\ moves => /\ q.nav \in Address /\ q.nav # NoNav
                /\ q.nav.task = NoTask /\ ~q.nav.panel /\ q.nav.feed = p.url.feed

LEMMA FeedOpenFacts ==
    ASSUME NEW p \in Page PROVE FeedOpened(openLiveFeed(p), p)
<1> DEFINE left == IF p.ui.detail THEN closeComments(p, p.url) ELSE p
           r == IF p.ui.chat THEN closeBoardChat(left) ELSE left
<1>1. p.url \in Address /\ p.ui \in Ui
  BY DEF Page
<1>2. Closed(closeComments(p, p.url), p, p.url)
  BY <1>1, CloseFacts
<1>3. /\ left \in Page /\ left.url = p.url /\ left.want = p.want /\ ~left.ui.detail
      /\ left.ui.mode = p.ui.mode /\ left.ui.openedChat = p.ui.openedChat
      /\ left.ui.chat = p.ui.chat
      /\ p.ui.detail => left.ui.task = NoTask /\ left.ui.opened = NoTask
      /\ ~p.ui.detail => SameForm(left, p) /\ left.ui.opened = p.ui.opened
      /\ ~(p.ui.detail /\ (p.url.task # NoTask \/ p.url.comment)) => left.nav = p.nav
      /\ p.ui.detail /\ (p.url.task # NoTask \/ p.url.comment) =>
           /\ left.nav \in Address /\ left.nav # NoNav
           /\ left.nav.task = NoTask /\ ~left.nav.panel /\ left.nav.feed = p.url.feed
  BY <1>2 DEF Closed, SameForm
<1> HIDE DEF left
<1>4. ChatClosed(closeBoardChat(left), left)
  BY <1>3, ChatCloseFacts
<1>5. /\ r \in Page /\ r.url = p.url /\ r.want = p.want /\ ~r.ui.detail /\ ~r.ui.chat
      /\ r.ui.mode = p.ui.mode /\ r.ui.openedChat = p.ui.openedChat
      /\ p.ui.detail => r.ui.task = NoTask /\ r.ui.opened = NoTask
      /\ ~p.ui.detail => SameForm(r, p) /\ r.ui.opened = p.ui.opened
      /\ ~(\/ p.ui.detail /\ (p.url.task # NoTask \/ p.url.comment)
           \/ p.ui.chat /\ p.url.panel) => r.nav = p.nav
      /\ (\/ p.ui.detail /\ (p.url.task # NoTask \/ p.url.comment)
          \/ p.ui.chat /\ p.url.panel) =>
           /\ r.nav \in Address /\ r.nav # NoNav
           /\ r.nav.task = NoTask /\ ~r.nav.panel /\ r.nav.feed = p.url.feed
  BY <1>3, <1>4 DEF ChatClosed, SameForm, SameTalk, SameRefs
<1>6. openLiveFeed(p) = [r EXCEPT !.ui.feed = TRUE]
  BY DEF openLiveFeed, left
<1> HIDE DEF r
<1>7. LET q == [r EXCEPT !.ui.feed = TRUE] IN
      /\ q \in Page /\ q.url = r.url /\ q.want = r.want /\ q.nav = r.nav /\ SameForm(q, r)
      /\ q.ui.detail = r.ui.detail /\ q.ui.chat = r.ui.chat /\ q.ui.feed
      /\ q.ui.mode = r.ui.mode /\ SameRefs(q, r)
  BY <1>5 DEF Page, Ui, SameForm, SameRefs
<1> QED BY <1>5, <1>6, <1>7 DEF SameForm, SameRefs, FeedOpened

FeedClosed(q, p) ==
    /\ q \in Page /\ q.url = p.url /\ q.nav = p.nav /\ SameTalk(q, p) /\ SameForm(q, p)
    /\ SameRefs(q, p) /\ q.ui.detail = p.ui.detail /\ q.ui.chat = p.ui.chat /\ ~q.ui.feed
    /\ q.ui.mode = p.ui.mode

LEMMA FeedCloseFacts ==
    ASSUME NEW p \in Page PROVE FeedClosed(closeLiveFeed(p), p)
  BY DEF closeLiveFeed, FeedClosed, Page, Ui, SameTalk, SameForm, SameRefs

ModePicked(q, p, m) ==
    /\ q \in Page /\ q.url = p.url /\ SameTalk(q, p) /\ SameForm(q, p) /\ SameRefs(q, p)
    /\ SamePanels(q, p) /\ q.ui.mode = m
    /\ q.nav \in Address /\ q.nav # NoNav /\ q.nav.task = p.url.task
    /\ q.nav.comment = p.url.comment /\ q.nav.panel = p.url.panel /\ q.nav.feed = m

LEMMA ModeFacts ==
    ASSUME NEW p \in Page, NEW m \in Modes PROVE ModePicked(updateLiveFeedMode(p, m), p, m)
<1> DEFINE a == [p.url EXCEPT !.feed = m]
<1>1. /\ a \in Address /\ a.task = p.url.task /\ a.comment = p.url.comment
      /\ a.panel = p.url.panel /\ a.feed = m
  BY DEF Page, Address
<1>2. updateLiveFeedMode(p, m) = [p EXCEPT !.ui.mode = m, !.nav = a]
  BY DEF updateLiveFeedMode
<1> HIDE DEF a
<1>3. LET q == [p EXCEPT !.ui.mode = m, !.nav = a] IN
      /\ q \in Page /\ q.url = p.url /\ SameTalk(q, p) /\ SameForm(q, p) /\ SameRefs(q, p)
      /\ SamePanels(q, p) /\ q.ui.mode = m /\ q.nav = a
  BY <1>1 DEF Page, Ui, SameTalk, SameForm, SameRefs, SamePanels
<1> QED BY <1>1, <1>2, <1>3, NavAssumption DEF ModePicked

TaskShown(q, p, c) ==
    LET t == p.url.task IN
    /\ q \in Page /\ q.url = p.url /\ q.clear = p.clear
    /\ q.ui.openedChat = p.ui.openedChat /\ q.ui.mode = p.ui.mode
    /\ \/ /\ t = NoTask /\ SamePanels(q, p) /\ SameForm(q, p) /\ q.want = p.want
          /\ q.nav = p.nav /\ q.ui.opened = NoTask
       \/ t # NoTask /\ p.ui.opened = t /\ q = p
       \/ /\ t # NoTask /\ p.ui.opened # t /\ t \notin OnBoard(c)
          /\ q.ui = p.ui /\ q.want = p.want
          /\ q.nav \in Address /\ q.nav # NoNav
          /\ q.nav.task = NoTask /\ ~q.nav.panel /\ q.nav.feed = p.url.feed
       \/ /\ t \in OnBoard(c) /\ p.ui.opened # t /\ q.ui.opened = t /\ q.ui.task = t
          /\ q.ui.detail /\ ~q.ui.chat /\ ~q.ui.feed /\ q.ui.base = c[t] /\ q.want = t
          /\ q.nav = p.nav

LEMMA TaskFacts ==
    ASSUME NEW p \in Page, NEW c \in Cards PROVE TaskShown(taskFromUrl(p, c), p, c)
<1> DEFINE t == p.url.task
           unset == [p EXCEPT !.ui.opened = NoTask]
           set == [p EXCEPT !.ui.opened = t]
           gone == Replace(p, p.url, NoTask, FALSE, FALSE)
           open == openComments(set, t, TRUE, c)
<1>1. p.url \in Address /\ t \in Tasks \cup {NoTask}
  BY DEF Page, Address
<1>2. taskFromUrl(p, c) = IF t = NoTask THEN unset
                          ELSE IF p.ui.opened = t THEN p
                          ELSE IF t \notin OnBoard(c) THEN gone ELSE open
  BY DEF taskFromUrl
<1>3. LET q == unset IN
      /\ q \in Page /\ q.url = p.url /\ SameTalk(q, p) /\ SameForm(q, p) /\ SamePanels(q, p)
      /\ q.ui.opened = NoTask /\ q.ui.openedChat = p.ui.openedChat
      /\ q.ui.mode = p.ui.mode /\ q.nav = p.nav
  BY DEF Page, Ui, SameTalk, SameForm, SamePanels
<1>4. LET q == set IN
      /\ q \in Page /\ q.url = p.url /\ SameTalk(q, p)
      /\ q.ui.opened = t /\ q.ui.openedChat = p.ui.openedChat
      /\ q.ui.mode = p.ui.mode /\ q.nav = p.nav
  BY <1>1 DEF Page, Ui, SameTalk
<1> HIDE DEF unset, set
<1>5. Redirected(gone, p, p.url, NoTask, FALSE, FALSE)
  BY <1>1, ReplaceFacts, Zenon
<1>6. t # NoTask => Opened(open, set, t, TRUE, c)
  BY <1>1, <1>4, OpenFacts, Zenon
<1> HIDE DEF gone, open
<1>7. CASE t = NoTask
  BY <1>2, <1>3, <1>7 DEF SameTalk, TaskShown
<1>8. CASE t # NoTask /\ p.ui.opened = t
  BY <1>2, <1>8 DEF TaskShown
<1>9. CASE t # NoTask /\ p.ui.opened # t /\ t \notin OnBoard(c)
  BY <1>2, <1>5, <1>9 DEF Redirected, SameTalk, TaskShown
<1>10. CASE t # NoTask /\ p.ui.opened # t /\ t \in OnBoard(c)
  BY <1>2, <1>4, <1>6, <1>10 DEF Opened, SameTalk, SameRefs, TaskShown
<1> QED BY <1>7, <1>8, <1>9, <1>10

PanelShown(q, p) ==
    /\ q \in Page /\ q.url = p.url /\ q.nav = p.nav /\ q.want = p.want
    /\ q.ui.opened = p.ui.opened /\ q.ui.mode = p.ui.mode /\ (q.ui.openedChat <=> p.url.panel)
    /\ \/ /\ ~p.url.panel \/ p.ui.openedChat
          /\ SamePanels(q, p) /\ SameForm(q, p) /\ q.clear = p.clear
       \/ /\ p.url.panel /\ ~p.ui.openedChat
          /\ ~q.ui.detail /\ q.ui.chat /\ ~q.ui.feed /\ q.ui.task = NoTask

LEMMA PanelFacts ==
    ASSUME NEW p \in Page PROVE PanelShown(panelFromUrl(p), p)
<1>1. CASE ~p.url.panel
  BY <1>1 DEF panelFromUrl, PanelShown, Page, Ui, SamePanels, SameForm
<1>2. CASE p.url.panel /\ p.ui.openedChat
  BY <1>2 DEF panelFromUrl, PanelShown, Page, Ui, SamePanels, SameForm
<1>3. CASE p.url.panel /\ ~p.ui.openedChat
  BY <1>3 DEF panelFromUrl, PanelShown, Page, Ui
<1> QED BY <1>1, <1>2, <1>3

-----------------------------------------------------------------------------
(* Panels, address, form and comments of a page. *)

(* The address where the page is or is going. *)
Goal(p) == IF p.nav = NoNav THEN p.url ELSE p.nav

Matches(u, a) ==
    /\ u.detail <=> a.task # NoTask
    /\ u.detail => a.task = u.task
    /\ u.chat <=> a.panel
    /\ u.mode = a.feed

(* The panels are those of that address, and nothing will close them when   *)
(* the router gets there; before the snapshot the address may be ahead.     *)
Reflected(p, c, ld) ==
    IF ld
    THEN /\ Matches(p.ui, Goal(p))
         /\ p.nav # NoNav /\ p.ui.detail => p.ui.opened = p.ui.task \/ p.ui.task \in OnBoard(c)
    ELSE p.ui.mode = Goal(p).feed /\ (p.ui.chat => Goal(p).panel)

(* The effects have run for the address rendered; before the snapshot no    *)
(* task is selected.                                                        *)
Settled(p, ld) ==
    IF ld
    THEN /\ p.nav = NoNav => p.ui.opened = p.url.task
         /\ p.ui.openedChat <=> p.url.panel
    ELSE ~p.ui.detail /\ p.ui.task = NoTask /\ p.ui.opened = NoTask /\ ~p.ui.openedChat

(* The form of the selected task is the card's. *)
Filled(p, c) == p.ui.task # NoTask => p.ui.base = c[p.ui.task]

(* A detail that was not open before for the same task reads its comments. *)
Heard(p) ==
    p.ui.detail => p.want = p.ui.task \/ (~p.clear /\ ui.detail /\ p.ui.task = ui.task)

(* What an act of the user keeps, before the router moves. *)
Keeps(q, p, c, ld) ==
    /\ Shape(q) /\ Settled(q, ld) /\ q.url = p.url
    /\ p.nav # NoNav => q.nav # NoNav
    /\ p.nav = NoNav /\ Reflected(p, c, ld) => Reflected(q, c, ld)
    /\ Filled(p, c) => Filled(q, c)
    /\ Heard(p) => Heard(q)

LEMMA UserKeeps ==
    ASSUME NEW p, Shape(p), NEW c \in Cards, NEW ld \in BOOLEAN, Settled(p, ld),
           ~ld => OnBoard(c) = {}, NEW q,
           \/ \E t \in Tasks : (t \in OnBoard(c) \/ p.ui.feed) /\ Opened(q, p, t, FALSE, c)
           \/ p.ui.detail /\ Closed(q, p, p.url)
           \/ ChatOpened(q, p)
           \/ p.ui.chat /\ ChatClosed(q, p)
           \/ FeedOpened(q, p) \/ FeedClosed(q, p)
           \/ \E m \in Modes : ModePicked(q, p, m)
    PROVE  Keeps(q, p, c, ld)
<1> USE PanelsAssumption DEF Shape, Tidy, Plain
<1>0. /\ p \in Page /\ p.url.task \in Tasks \cup {NoTask} /\ NoTask \notin Tasks
      /\ \A t \in OnBoard(c) : c[t].v > 0
  BY DEF Page, Address, OnBoard
<1>1. ASSUME NEW t \in Tasks, t \in OnBoard(c) \/ p.ui.feed, Opened(q, p, t, FALSE, c)
      PROVE  Keeps(q, p, c, ld)
  <2>1. CASE t \in OnBoard(c)
    <3>1. ld /\ t # NoTask /\ c[t].v > 0
      BY <1>0, <2>1
    <3>2. Shape(q) /\ q.url = p.url /\ (p.nav # NoNav => q.nav # NoNav)
      BY <1>0, <1>1, <2>1, <3>1 DEF Opened
    <3>3. Settled(q, ld)
      BY <1>1, <2>1, <3>1 DEF Opened, Settled, SameRefs
    <3>4. p.nav = NoNav /\ Reflected(p, c, ld) => Reflected(q, c, ld)
      BY <1>1, <2>1, <3>1 DEF Opened, Reflected, Matches, Goal
    <3>5. Filled(q, c) /\ Heard(q)
      BY <1>1, <2>1 DEF Opened, Filled, Heard
    <3> QED BY <3>2, <3>3, <3>4, <3>5 DEF Keeps
  <2>2. CASE t \notin OnBoard(c) /\ p.ui.feed
    <3>1. Shape(q) /\ q.url = p.url /\ q.nav = p.nav /\ ~p.ui.chat /\ ~p.ui.detail
      BY <1>1, <2>2 DEF Opened, SameForm
    <3>2. Settled(q, ld)
      BY <1>1, <2>2 DEF Opened, Settled, SameRefs, SameForm
    <3>3. Reflected(p, c, ld) => Reflected(q, c, ld)
      BY <1>1, <2>2, <3>1 DEF Opened, Reflected, Matches, Goal, SameRefs, SameForm
    <3>4. (Filled(p, c) => Filled(q, c)) /\ (Heard(p) => Heard(q))
      BY <1>1, <2>2 DEF Opened, Filled, Heard, SameForm
    <3> QED BY <3>1, <3>2, <3>3, <3>4 DEF Keeps
  <2> QED BY <1>1, <2>1, <2>2
<1>2. CASE p.ui.detail /\ Closed(q, p, p.url)
  <2>1. Shape(q) /\ q.url = p.url /\ (p.nav # NoNav => q.nav # NoNav)
    BY <1>2 DEF Closed
  <2>2. Settled(q, ld)
    BY <1>2 DEF Closed, Settled
  <2>3. p.nav = NoNav /\ Reflected(p, c, ld) => Reflected(q, c, ld)
    BY <1>2 DEF Closed, Reflected, Matches, Goal, Settled
  <2>4. Filled(q, c) /\ Heard(q)
    BY <1>2 DEF Closed, Filled, Heard
  <2> QED BY <2>1, <2>2, <2>3, <2>4 DEF Keeps
<1>3. CASE ChatOpened(q, p)
  <2>1. Shape(q) /\ q.url = p.url /\ (p.nav # NoNav => q.nav # NoNav)
    BY <1>3 DEF ChatOpened, SameForm
  <2>2. Settled(q, ld)
    BY <1>3 DEF ChatOpened, Settled, SameForm
  <2>3. p.nav = NoNav /\ Reflected(p, c, ld) => Reflected(q, c, ld)
    BY <1>3 DEF ChatOpened, Reflected, Matches, Goal
  <2>4. (Filled(p, c) => Filled(q, c)) /\ Heard(q)
    BY <1>3 DEF ChatOpened, Filled, Heard, SameForm
  <2> QED BY <2>1, <2>2, <2>3, <2>4 DEF Keeps
<1>4. CASE p.ui.chat /\ ChatClosed(q, p)
  <2>1. Shape(q) /\ q.url = p.url /\ (p.nav # NoNav => q.nav # NoNav)
    BY <1>4 DEF ChatClosed, SameForm
  <2>2. Settled(q, ld)
    BY <1>4 DEF ChatClosed, Settled, SameForm, SameRefs
  <2>3. p.nav = NoNav /\ Reflected(p, c, ld) => Reflected(q, c, ld)
    BY <1>4 DEF ChatClosed, Reflected, Matches, Goal, SameForm, SameRefs
  <2>4. (Filled(p, c) => Filled(q, c)) /\ (Heard(p) => Heard(q))
    BY <1>4 DEF ChatClosed, Filled, Heard, SameForm, SameTalk
  <2> QED BY <2>1, <2>2, <2>3, <2>4 DEF Keeps
<1>5. CASE FeedOpened(q, p)
  <2>1. Shape(q) /\ q.url = p.url /\ (p.nav # NoNav => q.nav # NoNav)
    BY <1>5 DEF FeedOpened, SameForm
  <2>2. Settled(q, ld)
    BY <1>5 DEF FeedOpened, Settled, SameForm
  <2>3. p.nav = NoNav /\ Reflected(p, c, ld) => Reflected(q, c, ld)
    BY <1>5 DEF FeedOpened, Reflected, Matches, Goal
  <2>4. (Filled(p, c) => Filled(q, c)) /\ Heard(q)
    BY <1>5 DEF FeedOpened, Filled, Heard, SameForm
  <2> QED BY <2>1, <2>2, <2>3, <2>4 DEF Keeps
<1>6. CASE FeedClosed(q, p)
  BY <1>6 DEF FeedClosed, Keeps, Settled, Reflected, Matches, Goal, Filled, Heard, SameForm,
      SameRefs, SameTalk
<1>7. ASSUME NEW m \in Modes, ModePicked(q, p, m) PROVE Keeps(q, p, c, ld)
  <2>1. Shape(q) /\ q.url = p.url /\ q.nav # NoNav
    BY <1>7 DEF ModePicked, SameForm, SamePanels
  <2>2. Settled(q, ld)
    BY <1>7, <2>1 DEF ModePicked, Settled, SameForm, SameRefs, SamePanels
  <2>3. p.nav = NoNav /\ Reflected(p, c, ld) => Reflected(q, c, ld)
    BY <1>7, <2>1 DEF ModePicked, Reflected, Matches, Goal, SameForm, SameRefs, SamePanels, Settled
  <2>4. (Filled(p, c) => Filled(q, c)) /\ (Heard(p) => Heard(q))
    BY <1>7 DEF ModePicked, Filled, Heard, SameForm, SameTalk, SamePanels
  <2> QED BY <2>1, <2>2, <2>3, <2>4 DEF Keeps
<1> QED BY <1>1, <1>2, <1>3, <1>4, <1>5, <1>6, <1>7

(* The two effects, run whenever the address or the cards change. *)
LEMMA EffectsKeep ==
    ASSUME NEW p, Shape(p), NEW c \in Cards
    PROVE  LET q == Effects(p, c) IN
           /\ Shape(q) /\ Settled(q, TRUE) /\ q.url = p.url
           /\ p.nav # NoNav => q.nav # NoNav
           /\ Filled(p, c) => Filled(q, c)
           /\ Heard(p) => Heard(q)
<1> DEFINE r == taskFromUrl(p, c)
           q == panelFromUrl(r)
<1>1. p \in Page /\ TaskShown(r, p, c)
  BY TaskFacts DEF Shape
<1>2. PanelShown(q, r)
  BY <1>1, PanelFacts DEF TaskShown
<1>3. q = Effects(p, c)
  BY DEF Effects
<1> HIDE DEF r, q
<1>4. /\ NoTask \notin Tasks /\ \A t \in OnBoard(c) : c[t].v > 0 /\ t # NoTask
  BY PanelsAssumption DEF OnBoard
<1>5. Shape(r) /\ r.url = p.url /\ (p.nav # NoNav => r.nav # NoNav)
  BY <1>1, <1>4 DEF TaskShown, Shape, Tidy, Plain, SamePanels, SameForm
<1>6. r.nav = NoNav => r.ui.opened = p.url.task
  BY <1>1 DEF TaskShown
<1>7. Filled(p, c) => Filled(r, c)
  BY <1>1 DEF TaskShown, Filled, SameForm
<1>8. Heard(p) => Heard(r)
  BY <1>1 DEF TaskShown, Heard, SameForm, SamePanels
<1>9. Shape(q) /\ q.url = p.url /\ q.nav = r.nav
  BY <1>2, <1>5 DEF PanelShown, Shape, Tidy, SamePanels, SameForm
<1>10. Settled(q, TRUE)
  BY <1>2, <1>5, <1>6 DEF PanelShown, Settled
<1>11. Filled(r, c) => Filled(q, c)
  BY <1>2 DEF PanelShown, Filled, SameForm
<1>12. Heard(r) => Heard(q)
  BY <1>2 DEF PanelShown, Heard, SameForm, SamePanels
<1> QED BY <1>3, <1>5, <1>7, <1>8, <1>9, <1>10, <1>11, <1>12

(* With the router at rest they change nothing. *)
LEMMA EffectsRest ==
    ASSUME NEW p, Shape(p), NEW c \in Cards, Settled(p, TRUE), p.nav = NoNav, NEW d,
           Reflected(p, d, TRUE)
    PROVE  Reflected(Effects(p, c), c, TRUE)
<1> DEFINE r == taskFromUrl(p, c)
           q == panelFromUrl(r)
<1>1. p \in Page /\ TaskShown(r, p, c)
  BY TaskFacts DEF Shape
<1>2. PanelShown(q, r)
  BY <1>1, PanelFacts DEF TaskShown
<1>3. q = Effects(p, c)
  BY DEF Effects
<1> HIDE DEF r, q
<1>4. /\ r.url = p.url /\ r.nav = NoNav /\ r.ui.mode = p.ui.mode /\ SamePanels(r, p) /\ SameForm(r, p)
      /\ r.ui.openedChat = p.ui.openedChat
  BY <1>1 DEF TaskShown, Settled, SamePanels, SameForm
<1>5. /\ q.url = p.url /\ q.nav = NoNav /\ q.ui.mode = p.ui.mode /\ SamePanels(q, p) /\ SameForm(q, p)
  BY <1>2, <1>4 DEF PanelShown, Settled, SamePanels, SameForm
<1> QED BY <1>3, <1>5 DEF Reflected, Matches, Goal, SamePanels, SameForm

(* The snapshot arrives while the router is at rest. *)
LEMMA EffectsAtLoad ==
    ASSUME NEW p, Shape(p), NEW c \in Cards, Settled(p, FALSE), p.nav = NoNav, NEW d,
           Reflected(p, d, FALSE)
    PROVE  Reflected(Effects(p, c), c, TRUE)
<1> DEFINE r == taskFromUrl(p, c)
           q == panelFromUrl(r)
<1>1. p \in Page /\ TaskShown(r, p, c)
  BY TaskFacts DEF Shape
<1>2. PanelShown(q, r)
  BY <1>1, PanelFacts DEF TaskShown
<1>3. q = Effects(p, c)
  BY DEF Effects
<1> HIDE DEF r, q
<1>4. /\ NoTask \notin Tasks /\ \A t \in OnBoard(c) : t # NoTask
  BY PanelsAssumption DEF OnBoard
<1>5. CASE p.url.panel
  <2>1. p.url.task = NoTask
    BY <1>5 DEF Shape, Plain
  <2> QED BY <1>1, <1>2, <1>3, <1>5, <2>1
      DEF TaskShown, PanelShown, Reflected, Matches, Goal, SamePanels, SameForm, Settled
<1>6. CASE ~p.url.panel
  BY <1>1, <1>2, <1>3, <1>4, <1>6
  DEF TaskShown, PanelShown, Reflected, Matches, Goal, SamePanels, SameForm, Settled
<1> QED BY <1>5, <1>6

(* The router gets to the address asked for. *)
Landed(p) == [p EXCEPT !.url = p.nav, !.nav = NoNav,
                       !.ui.mode = IF p.nav.feed # p.url.feed THEN p.nav.feed ELSE @]

LEMMA LandedFacts ==
    ASSUME NEW p, Shape(p), p.nav # NoNav
    PROVE  LET q == Landed(p) IN
           /\ Shape(q) /\ q.url = p.nav /\ q.nav = NoNav /\ SamePanels(q, p) /\ SameForm(q, p)
           /\ SameRefs(q, p) /\ SameTalk(q, p)
           /\ p.ui.mode = p.nav.feed => q.ui.mode = p.nav.feed
<1> DEFINE m == IF p.nav.feed # p.url.feed THEN p.nav.feed ELSE p.ui.mode
           a == p.nav
<1>1. /\ p \in Page /\ a \in Address /\ m \in Modes /\ Tidy(p.ui) /\ Plain(a)
      /\ p.ui.mode = a.feed => m = a.feed
  BY DEF Shape, Page, Ui, Address
<1>2. Landed(p) = [p EXCEPT !.url = a, !.nav = NoNav, !.ui.mode = m]
  BY DEF Landed
<1> HIDE DEF m, a
<1>3. LET q == [p EXCEPT !.url = a, !.nav = NoNav, !.ui.mode = m] IN
      /\ q \in Page /\ q.url = a /\ q.nav = NoNav /\ SamePanels(q, p) /\ SameForm(q, p)
      /\ SameRefs(q, p) /\ SameTalk(q, p) /\ q.ui.mode = m
  BY <1>1 DEF Page, Ui, SamePanels, SameForm, SameRefs, SameTalk
<1>4. LET q == [p EXCEPT !.url = a, !.nav = NoNav, !.ui.mode = m] IN Tidy(q.ui)
  BY <1>1, <1>3 DEF Tidy, SamePanels, SameForm
<1> QED BY <1>1, <1>2, <1>3, <1>4 DEF Shape, a

LEMMA EffectsAtLanding ==
    ASSUME NEW p, Shape(p), NEW c \in Cards, p.nav # NoNav, Reflected(p, c, TRUE),
           p.ui.openedChat <=> p.url.panel
    PROVE  Reflected(Effects(Landed(p), c), c, TRUE)
<1> DEFINE o == Landed(p)
           r == taskFromUrl(o, c)
           q == panelFromUrl(r)
<1>0. /\ Shape(o) /\ o.url = p.nav /\ o.nav = NoNav /\ SamePanels(o, p) /\ SameForm(o, p)
      /\ SameRefs(o, p) /\ (p.ui.mode = p.nav.feed => o.ui.mode = p.nav.feed)
  BY LandedFacts
<1> HIDE DEF o
<1>1. o \in Page /\ TaskShown(r, o, c)
  BY <1>0, TaskFacts DEF Shape
<1>2. PanelShown(q, r)
  BY <1>1, PanelFacts DEF TaskShown
<1>3. q = Effects(o, c)
  BY DEF Effects
<1> HIDE DEF r, q
<1>4. Matches(o.ui, o.url) /\ (o.ui.detail => o.ui.opened = o.ui.task \/ o.ui.task \in OnBoard(c))
  BY <1>0 DEF Reflected, Matches, Goal, SamePanels, SameForm, SameRefs
<1>5. r.nav = NoNav /\ r.url = o.url /\ Matches(r.ui, o.url)
  <2>1. CASE o.url.task = NoTask
    BY <1>0, <1>1, <1>4, <2>1, PanelsAssumption DEF TaskShown, Matches, SamePanels, SameForm, OnBoard
  <2>2. CASE o.url.task # NoTask /\ o.ui.opened = o.url.task
    BY <1>0, <1>1, <1>4, <2>2 DEF TaskShown
  <2>3. CASE o.url.task # NoTask /\ o.ui.opened # o.url.task
    <3>1. o.ui.detail /\ o.url.task \in OnBoard(c) /\ ~o.url.panel
      BY <1>0, <1>4, <2>3 DEF Matches, Shape, Plain
    <3> QED BY <1>0, <1>1, <1>4, <2>3, <3>1 DEF TaskShown, Matches
  <2> QED BY <2>1, <2>2, <2>3
<1>6. q.nav = NoNav /\ q.url = o.url /\ Matches(q.ui, o.url)
  BY <1>0, <1>2, <1>5 DEF PanelShown, Matches, SamePanels, SameForm, Shape, Plain
<1> QED BY <1>3, <1>6 DEF Reflected, Goal, o

-----------------------------------------------------------------------------
(* The inductive invariant. *)

(* The server only adds versions until a delete, and the stream tells no    *)
(* comment that was not said, and no delete that did not happen.            *)
ServerInv ==
    /\ row \in [Tasks -> Int] /\ told \in [Tasks -> Int]
    /\ said \in [Tasks -> Nat] /\ fed \in [Tasks -> Nat]
    /\ \A t \in Tasks :
         /\ row[t] >= Gone /\ told[t] >= Gone /\ (told[t] = Gone => row[t] = Gone)
         /\ fed[t] <= said[t]
         /\ ~loaded => row[t] >= 0
    /\ loaded \in BOOLEAN

(* A write that was applied carries what the server made of it. *)
Write ==
    [op : {"save", "delete", "post", "move"}, t : Tasks, st : {"sent", "applied"}, v : Int,
     url : Address, prev : Cards]
WriteOK(w) ==
    w.st = "applied" =>
      /\ w.op \in {"save", "move"} => w.v > 0
      /\ w.op = "post" => w.v \in 1..said[w.t]
WritesInv == /\ reqs \subseteq Write /\ \A w \in reqs : WriteOK(w)
             /\ ~loaded => reqs = {}

(* A read that was answered carries comments of its task. *)
Read == [t : Tasks, st : {"sent", "read"}, ans : SUBSET (Tasks \X Nat)]
ReadsInv ==
    /\ IsABag(loads)
    /\ \A l \in DOMAIN loads : l \in Read /\ l.ans \subseteq CommentsOf(l.t)
    /\ loading \in BOOLEAN /\ (loading => loads # EmptyBag)
    /\ comments \subseteq Tasks \X Nat
    /\ doubt \subseteq {"late", "stray", "overtaken", "failed"}

(* An open task whose comments are not in doubt has a read of them on the   *)
(* way, or shows comments of its own only, the ones the stream delivered    *)
(* among them.                                                              *)
Delivered(t) == {<<t, n>> : n \in 1..fed[t]}
TalkInv ==
    ui.detail /\ doubt = {} =>
      \/ \E l \in DOMAIN loads : l.t = ui.task
      \/ comments \subseteq CommentsOf(ui.task) /\ Delivered(ui.task) \subseteq comments

PageInv ==
    /\ Shape(Here) /\ card \in Cards /\ Settled(Here, loaded)
    /\ hasty \in BOOLEAN /\ apart \in BOOLEAN
    /\ ~hasty => Reflected(Here, card, loaded)
    /\ ~apart => Filled(Here, card)
    /\ ~loaded => OnBoard(card) = {}

Inv == ServerInv /\ WritesInv /\ ReadsInv /\ PageInv /\ TalkInv

(* What the user sees of the page is a page. *)
LEMMA HereFacts ==
    /\ Here.ui = ui /\ Here.url = url /\ Here.nav = nav /\ Here.want = NoTask /\ ~Here.clear
    /\ Heard(Here)
  BY DEF Here, Heard

LEMMA InvInit == Init => Inv
<1> SUFFICES ASSUME Init PROVE Inv
  OBVIOUS
<1>0. /\ row \in [Tasks -> 0..1] /\ said = row /\ told = row /\ fed = said
      /\ loaded = FALSE /\ card = [t \in Tasks |-> NoCard]
      /\ ui = [task |-> NoTask, detail |-> FALSE, chat |-> FALSE, feed |-> FALSE,
               mode |-> "all", base |-> NoCard, opened |-> NoTask, openedChat |-> FALSE]
      /\ nav = NoNav /\ comments = {} /\ loading = FALSE /\ loads = EmptyBag /\ reqs = {}
      /\ hasty = FALSE /\ apart = FALSE /\ doubt = {}
  BY DEF Init
<1>1. ServerInv
  <2>1. row \in [Tasks -> Int] /\ row \in [Tasks -> Nat] /\ \A t \in Tasks : row[t] >= 0
    BY <1>0
  <2>2. /\ told \in [Tasks -> Int] /\ said \in [Tasks -> Nat] /\ fed \in [Tasks -> Nat]
        /\ \A t \in Tasks : told[t] = row[t] /\ fed[t] = said[t] /\ said[t] \in Nat /\ row[t] \in Int
    BY <1>0, <2>1
  <2>3. loaded \in BOOLEAN
    BY <1>0
  <2> QED BY <2>1, <2>2, <2>3 DEF ServerInv, Gone
<1>2. WritesInv
  BY <1>0 DEF WritesInv
<1>3. ReadsInv
  <2>1. IsABag(EmptyBag) /\ DOMAIN EmptyBag = {}
    BY DEF EmptyBag, SetToBag, IsABag
  <2> QED BY <1>0, <2>1 DEF ReadsInv
<1>4. NoCard \in Card /\ NoCard.v = 0
  BY DEF NoCard, Card
<1>6. url \in Address /\ Plain(url) /\ url.feed = "all"
  BY DEF Init, Plain
<1>7. Here \in Page
  BY <1>0, <1>4, <1>6, PanelsAssumption DEF Here, Page, Ui
<1>8. card \in Cards /\ OnBoard(card) = {}
  BY <1>0, <1>4 DEF Cards, OnBoard
<1>9. PageInv
  <2>1. Shape(Here)
    BY <1>0, <1>6, <1>7, HereFacts DEF Shape, Tidy
  <2>2. Settled(Here, loaded) /\ Filled(Here, card)
    BY <1>0, HereFacts DEF Settled, Filled
  <2>3. Reflected(Here, card, loaded)
    BY <1>0, <1>6, HereFacts DEF Reflected, Goal
  <2> QED BY <1>0, <1>8, <2>1, <2>2, <2>3 DEF PageInv
<1>10. TalkInv
  BY <1>0 DEF TalkInv
<1> QED BY <1>1, <1>2, <1>3, <1>9, <1>10 DEF Inv

(* The page becomes q: the parts of the invariant about the page hold again *)
(* when they hold of q, for the reasons that are not given.                 *)
LEMMA BecomesKeeps ==
    ASSUME Inv, loaded' \in BOOLEAN, said' = said, fed' = fed,
           NEW q, NEW c \in Cards, NEW why, Becomes(q, c, why),
           Shape(q), Settled(q, loaded'), ~loaded' => OnBoard(c) = {},
           ~hasty /\ "hasty" \notin why => Reflected(q, c, loaded'),
           ~apart /\ "apart" \notin why => Filled(q, c),
           "late" \notin why => Heard(q)
    PROVE  PageInv' /\ ReadsInv' /\ TalkInv'
<1>1. /\ ui' = q.ui /\ url' = q.url /\ nav' = q.nav /\ card' = c
      /\ loads' = Loads(q.want)
      /\ loading' = (q.want # NoTask \/ loading)
      /\ comments' = IF q.clear THEN {} ELSE comments
      /\ doubt' = (IF q.clear THEN {} ELSE doubt) \cup (why \cap {"late"})
      /\ hasty' = ((hasty \/ "hasty" \in why) /\ ~(q.nav = NoNav /\ Agrees(q)))
      /\ apart' = ((apart \/ "apart" \in why) /\ q.ui.task # NoTask /\ q.ui.base # c[q.ui.task])
  BY DEF Becomes
<1>2. /\ q \in Page /\ q.ui \in Ui /\ q.url \in Address /\ q.nav \in Address \cup {NoNav}
      /\ q.want \in Tasks \cup {NoTask} /\ q.clear \in BOOLEAN
  BY DEF Shape, Page
<1>3. /\ Here'.ui = q.ui /\ Here'.url = q.url /\ Here'.nav = q.nav /\ Here' \in Page
  BY <1>1, <1>2 DEF Here, Page
<1>4. PageInv'
  <2>1. Shape(Here')
    BY <1>3 DEF Shape
  <2>2. Settled(Here', loaded')
    BY <1>3 DEF Settled
  <2>3. ~hasty' => Reflected(Here', c, loaded')
    <3>1. CASE q.nav = NoNav /\ Agrees(q)
      BY <1>3, <3>1 DEF Agrees, Reflected, Matches, Goal
    <3>2. CASE ~hasty /\ "hasty" \notin why
      BY <1>3, <3>2 DEF Reflected, Goal
    <3> QED BY <1>1, <3>1, <3>2
  <2>4. ~apart' => Filled(Here', c)
    BY <1>1, <1>3 DEF Filled
  <2> QED BY <1>1, <2>1, <2>2, <2>3, <2>4 DEF PageInv
<1>5. /\ IsABag(loads') /\ DOMAIN loads \subseteq DOMAIN loads'
      /\ q.want # NoTask => \E l \in DOMAIN loads' : l.t = q.want
      /\ \A l \in DOMAIN loads' :
           l \in DOMAIN loads \/ (q.want # NoTask /\ l = [t |-> q.want, st |-> "sent", ans |-> {}])
  <2>1. IsABag(loads)
    BY DEF Inv, ReadsInv
  <2>2. CASE q.want = NoTask
    BY <1>1, <2>1, <2>2 DEF Loads
  <2>3. CASE q.want # NoTask
    <3> DEFINE x == [t |-> q.want, st |-> "sent", ans |-> {}]
    <3>1. loads' = loads (+) One(x)
      BY <1>1, <2>3 DEF Loads
    <3>2. x.t = q.want
      OBVIOUS
    <3> HIDE DEF x
    <3>3. IsABag(loads') /\ DOMAIN loads' = DOMAIN loads \cup {x}
      BY <2>1, <3>1, AddRead
    <3>4. x = [t |-> q.want, st |-> "sent", ans |-> {}]
      BY DEF x
    <3> QED BY <2>3, <3>2, <3>3, <3>4
  <2> QED BY <2>2, <2>3
<1>6. ReadsInv'
  <2>1. \A l \in DOMAIN loads' : l \in Read /\ l.ans \subseteq CommentsOf(l.t)
    BY <1>2, <1>5 DEF Inv, ReadsInv, Read
  <2>2. loading' => loads' # EmptyBag
    <3>1. loading => DOMAIN loads # {}
      BY EmptyReads DEF Inv, ReadsInv
    <3>2. loading' => DOMAIN loads' # {}
      BY <1>1, <1>5, <3>1
    <3> QED BY <1>5, <3>2, EmptyReads
  <2>3. comments' \subseteq Tasks \X Nat /\ doubt' \subseteq {"late", "stray", "overtaken", "failed"}
    BY <1>1 DEF Inv, ReadsInv
  <2>4. loading' \in BOOLEAN
    BY <1>1 DEF Inv, ReadsInv
  <2> QED BY <1>5, <2>1, <2>2, <2>3, <2>4 DEF ReadsInv, CommentsOf
<1>7. TalkInv'
  <2> SUFFICES ASSUME q.ui.detail, doubt' = {}
               PROVE  \/ \E l \in DOMAIN loads' : l.t = q.ui.task
                      \/ /\ comments' \subseteq CommentsOf(q.ui.task)
                         /\ Delivered(q.ui.task) \subseteq comments'
    BY <1>1 DEF TalkInv, CommentsOf, Delivered
  <2>1. "late" \notin why
    BY <1>1
  <2>2. CASE q.want = q.ui.task
    <3>1. q.ui.task # NoTask
      BY DEF Shape, Tidy
    <3> QED BY <1>5, <2>2, <3>1
  <2>3. CASE ~q.clear /\ ui.detail /\ q.ui.task = ui.task
    <3>1. doubt = {} /\ comments' = comments
      BY <1>1, <2>3
    <3> QED BY <1>5, <2>3, <3>1 DEF Inv, TalkInv
  <2> QED BY <2>1, <2>2, <2>3 DEF Heard
<1> QED BY <1>4, <1>6, <1>7

LEMMA ServerStays ==
    ASSUME Inv, UNCHANGED <<server, stream, loaded>>, reqs' \subseteq reqs
    PROVE  ServerInv' /\ WritesInv'
  BY DEF Inv, ServerInv, WritesInv, WriteOK, server, stream

(* An act of the user. *)
LEMMA ActKeeps ==
    ASSUME Inv, NEW q,
           \/ \E t \in Tasks : (t \in OnBoard(card) \/ ui.feed) /\ Opened(q, Here, t, FALSE, card)
           \/ ui.detail /\ Closed(q, Here, url)
           \/ ChatOpened(q, Here)
           \/ ui.chat /\ ChatClosed(q, Here)
           \/ FeedOpened(q, Here) \/ FeedClosed(q, Here)
           \/ \E m \in Modes : ModePicked(q, Here, m),
           Act(q)
    PROVE  Inv'
<1>1. /\ Shape(Here) /\ card \in Cards /\ loaded \in BOOLEAN /\ Settled(Here, loaded)
      /\ ~loaded => OnBoard(card) = {}
      /\ ~hasty => Reflected(Here, card, loaded)
      /\ ~apart => Filled(Here, card)
  BY DEF Inv, PageInv, ServerInv
<1>2. Keeps(q, Here, card, loaded)
  BY <1>1, UserKeeps, HereFacts
<1>3. Becomes(q, card, Hasty) /\ UNCHANGED <<server, stream, loaded, reqs>>
  BY DEF Act
<1>4. PageInv' /\ ReadsInv' /\ TalkInv'
  <2>1. said' = said /\ fed' = fed /\ loaded' = loaded
    BY <1>3 DEF server, stream
  <2>2. ~hasty /\ "hasty" \notin Hasty => Reflected(q, card, loaded')
    BY <1>1, <1>2, <2>1, HereFacts DEF Hasty, Keeps
  <2>3. ~apart => Filled(q, card)
    BY <1>1, <1>2 DEF Keeps
  <2>4. Shape(q) /\ Settled(q, loaded) /\ Heard(q)
    BY <1>2, HereFacts DEF Keeps
  <2> QED BY <1>1, <1>3, <2>1, <2>2, <2>3, <2>4, BecomesKeeps
<1>5. ServerInv' /\ WritesInv'
  BY <1>3, ServerStays
<1> QED BY <1>4, <1>5 DEF Inv

(* The cards change, or the page p is left by an answer, and the effects    *)
(* run.                                                                     *)
LEMMA TurnKeeps ==
    ASSUME Inv, loaded, UNCHANGED <<loaded, said, fed>>,
           NEW p, NEW c \in Cards, NEW why, Becomes(Effects(p, c), c, why), Shape(p),
           ~hasty /\ "hasty" \notin why => Reflected(Effects(p, c), c, TRUE),
           ~apart /\ "apart" \notin why => Filled(p, c),
           "late" \notin why => Heard(p)
    PROVE  PageInv' /\ ReadsInv' /\ TalkInv'
<1> DEFINE q == Effects(p, c)
<1>1. /\ Shape(q) /\ Settled(q, TRUE)
      /\ Filled(p, c) => Filled(q, c)
      /\ Heard(p) => Heard(q)
  BY EffectsKeep
<1>2. loaded' = TRUE
  BY DEF Inv, ServerInv
<1>3. Becomes(q, c, why) /\ (~hasty /\ "hasty" \notin why => Reflected(q, c, TRUE))
  OBVIOUS
<1> HIDE DEF q
<1>4. Settled(q, loaded') /\ (~hasty /\ "hasty" \notin why => Reflected(q, c, loaded'))
  BY <1>1, <1>2, <1>3
<1> QED BY <1>1, <1>2, <1>3, <1>4, BecomesKeeps

(* The cards change and the page is as it was. *)
LEMMA MovedKeeps ==
    ASSUME Inv, loaded, UNCHANGED <<loaded, said, fed>>, NEW c \in Cards, Moved(c)
    PROVE  PageInv' /\ ReadsInv' /\ TalkInv'
<1>1. Becomes(Effects(Here, c), c, Hasty \cup {"apart"}) /\ Shape(Here) /\ Heard(Here)
  BY HereFacts DEF Moved, Inv, PageInv
<1>2. ~hasty /\ "hasty" \notin Hasty \cup {"apart"} => Reflected(Effects(Here, c), c, TRUE)
  <2> SUFFICES ASSUME ~hasty, nav = NoNav PROVE Reflected(Effects(Here, c), c, TRUE)
    BY DEF Hasty
  <2>1. Settled(Here, TRUE) /\ Here.nav = NoNav /\ Reflected(Here, card, TRUE)
    BY HereFacts DEF Inv, PageInv, ServerInv
  <2> QED BY <1>1, <2>1, EffectsRest
<1>3. "apart" \in Hasty \cup {"apart"}
  OBVIOUS
<1> QED BY <1>1, <1>2, <1>3, TurnKeeps

(* A task event: the card, and the form when its task is selected. *)
LEMMA ToldKeeps ==
    ASSUME Inv, loaded, UNCHANGED <<loaded, said, fed>>, NEW t \in Tasks, NEW v \in Nat, v > 0,
           Told(t, v)
    PROVE  PageInv' /\ ReadsInv' /\ TalkInv'
<1> DEFINE x == [v |-> v, opt |-> FALSE]
           c == [card EXCEPT ![t] = x]
           p == IF ui.task = t THEN [Here EXCEPT !.ui.base = x] ELSE Here
<1>1. Shape(Here) /\ card \in Cards /\ Here \in Page
  BY DEF Inv, PageInv, Shape
<1>2. x \in Card /\ x.v > 0
  BY DEF Card
<1>3. Becomes(Effects(p, c), c, Hasty)
  <2>1. c[t] = x
    BY <1>1 DEF Cards
  <2> QED BY <2>1 DEF Told
<1> HIDE DEF x
<1>4. c \in Cards /\ c[t] = x /\ \A s \in Tasks : s # t => c[s] = card[s]
  BY <1>1, <1>2 DEF Cards
<1> HIDE DEF c
<1>5. /\ p \in Page /\ p.url = url /\ p.nav = nav /\ SamePanels(p, Here) /\ SameRefs(p, Here)
      /\ p.ui.task = ui.task /\ p.ui.mode = ui.mode /\ SameTalk(p, Here)
      /\ p.ui.base = IF ui.task = t THEN x ELSE ui.base
  BY <1>1, <1>2, HereFacts DEF Page, Ui, SamePanels, SameRefs, SameTalk
<1> HIDE DEF p
<1>6. Shape(p) /\ Heard(p)
  <2>1. Tidy(p.ui)
    BY <1>1, <1>2, <1>5, HereFacts DEF Shape, Tidy, SamePanels
  <2> QED BY <1>1, <1>5, <2>1, HereFacts DEF Shape, Heard, SamePanels, SameTalk
<1>7. ~hasty /\ "hasty" \notin Hasty => Reflected(Effects(p, c), c, TRUE)
  <2> SUFFICES ASSUME ~hasty, nav = NoNav PROVE Reflected(Effects(p, c), c, TRUE)
    BY DEF Hasty
  <2>1. Settled(Here, TRUE) /\ Reflected(Here, card, TRUE)
    BY DEF Inv, PageInv, ServerInv
  <2>2. Settled(p, TRUE) /\ Reflected(p, card, TRUE) /\ p.nav = NoNav
    BY <1>5, <2>1, HereFacts DEF Settled, Reflected, Matches, Goal, SamePanels, SameRefs
  <2> QED BY <1>4, <1>6, <2>2, EffectsRest
<1>8. ~apart => Filled(p, c)
  <2>1. ui.task \in Tasks \cup {NoTask}
    BY <1>1, HereFacts DEF Page, Ui
  <2> QED BY <1>4, <1>5, <2>1, HereFacts DEF Inv, PageInv, Filled
<1> QED BY <1>3, <1>4, <1>6, <1>7, <1>8, TurnKeeps

(* The router gets to the address it was asked for. *)
LEMMA LandKeeps == ASSUME Inv, Land PROVE Inv'
<1> DEFINE p == Landed(Here)
           q == IF loaded THEN Effects(p, card) ELSE p
<1>1. /\ Shape(Here) /\ card \in Cards /\ loaded \in BOOLEAN /\ Settled(Here, loaded)
      /\ ~loaded => OnBoard(card) = {}
      /\ ~hasty => Reflected(Here, card, loaded)
      /\ ~apart => Filled(Here, card)
  BY DEF Inv, PageInv, ServerInv
<1>2. Here.nav # NoNav /\ Becomes(q, card, {}) /\ UNCHANGED <<server, stream, loaded, reqs>>
  BY HereFacts DEF Land, Landed, Here
<1>3. /\ Shape(p) /\ p.url = nav /\ p.nav = NoNav /\ SamePanels(p, Here) /\ SameForm(p, Here)
      /\ SameRefs(p, Here) /\ SameTalk(p, Here)
      /\ ui.mode = nav.feed => p.ui.mode = nav.feed
  BY <1>1, <1>2, LandedFacts, HereFacts
<1>4. loaded /\ ~hasty => Reflected(Effects(p, card), card, TRUE)
  BY <1>1, <1>2, EffectsAtLanding, HereFacts DEF Settled
<1> HIDE DEF p
<1>5. Filled(p, card) \/ ~Filled(Here, card)
  BY <1>3 DEF Filled, SameForm
<1>6. Heard(p)
  BY <1>3, HereFacts DEF Heard, SamePanels, SameForm, SameTalk
<1>7. /\ Shape(q) /\ Settled(q, loaded) /\ (~apart => Filled(q, card)) /\ Heard(q)
      /\ ~hasty => Reflected(q, card, loaded)
  <2>1. CASE loaded
    <3>1. LET e == Effects(p, card) IN
          Shape(e) /\ Settled(e, TRUE) /\ (Filled(p, card) => Filled(e, card)) /\ (Heard(p) => Heard(e))
      BY <1>1, <1>3, EffectsKeep
    <3>2. q = Effects(p, card) /\ loaded = TRUE
      BY <1>1, <2>1
    <3> QED BY <1>1, <1>4, <1>5, <1>6, <3>1, <3>2
  <2>2. CASE ~loaded
    <3>1. q = p
      BY <2>2
    <3> HIDE DEF q
    <3>2. Settled(p, loaded)
      BY <1>1, <1>3, <2>2 DEF Settled, SamePanels, SameForm, SameRefs
    <3>3. ~hasty => Reflected(p, card, loaded)
      BY <1>1, <1>2, <1>3, <2>2, HereFacts DEF Reflected, Goal, SamePanels
    <3> QED BY <1>1, <1>3, <1>5, <1>6, <3>1, <3>2, <3>3
  <2> QED BY <2>1, <2>2
<1> HIDE DEF q
<1>8. said' = said /\ fed' = fed /\ loaded' = loaded
  BY <1>2 DEF server, stream
<1>9. PageInv' /\ ReadsInv' /\ TalkInv'
  BY <1>1, <1>2, <1>7, <1>8, BecomesKeeps
<1>10. ServerInv' /\ WritesInv'
  BY <1>2, ServerStays
<1> QED BY <1>9, <1>10 DEF Inv

(* The snapshot arrives, or fails. *)
LEMMA LoadedKeeps ==
    ASSUME Inv, NEW c \in Cards, Loaded(c), fed' = fed
    PROVE  PageInv' /\ ReadsInv' /\ TalkInv'
<1> DEFINE q == Effects(Here, c)
<1>1. /\ Shape(Here) /\ Settled(Here, FALSE) /\ loaded' = TRUE /\ said' = said
      /\ ~hasty => Reflected(Here, card, FALSE)
  BY DEF Inv, PageInv, ServerInv, Loaded, server
<1>2. Shape(q) /\ Settled(q, TRUE) /\ Heard(q) /\ (Filled(Here, c) => Filled(q, c))
  BY <1>1, EffectsKeep, HereFacts
<1>3. Filled(Here, c)
  BY <1>1 DEF Settled, Filled
<1>4. ~hasty /\ "hasty" \notin Hasty => Reflected(q, c, TRUE)
  BY <1>1, EffectsAtLoad, HereFacts DEF Hasty
<1>5. Becomes(q, c, Hasty)
  BY DEF Loaded
<1> HIDE DEF q
<1> QED BY <1>1, <1>2, <1>3, <1>4, <1>5, BecomesKeeps

LEMMA LoadBoardKeeps == ASSUME Inv, loadBoard \/ loadBoardFails PROVE Inv'
<1>1. CASE loadBoard
  <2> DEFINE c == [t \in Tasks |-> [v |-> row[t], opt |-> FALSE]]
  <2>1. ~loaded /\ row \in [Tasks -> Int] /\ \A t \in Tasks : row[t] \in Nat
    BY <1>1 DEF Inv, ServerInv, loadBoard, Loaded
  <2>2. c \in Cards
    BY <2>1 DEF Cards, Card
  <2>3. Loaded(c) /\ told' = row /\ fed' = fed
    BY <1>1 DEF loadBoard
  <2> HIDE DEF c
  <2>4. UNCHANGED <<row, said, reqs>> /\ loaded' = TRUE
    BY <2>3 DEF Loaded, server
  <2>5. ServerInv' /\ WritesInv'
    <3>1. ServerInv'
      BY <2>1, <2>3, <2>4 DEF Inv, ServerInv
    <3>2. WritesInv'
      BY <2>1, <2>4 DEF Inv, WritesInv
    <3> QED BY <3>1, <3>2
  <2> QED BY <2>2, <2>3, <2>5, LoadedKeeps DEF Inv
<1>2. CASE loadBoardFails
  <2>1. Loaded(card) /\ UNCHANGED <<told, fed>> /\ card \in Cards
    BY <1>2 DEF loadBoardFails, stream, Inv, PageInv
  <2>2. UNCHANGED <<row, said, reqs>> /\ loaded' = TRUE /\ ~loaded
    BY <2>1 DEF Loaded, server
  <2>3. ServerInv' /\ WritesInv'
    BY <2>1, <2>2 DEF Inv, ServerInv, WritesInv
  <2> QED BY <2>1, <2>3, LoadedKeeps DEF Inv
<1> QED BY <1>1, <1>2

(* Sending a write. *)
LEMMA SendKeeps ==
    ASSUME Inv, NEW op \in {"save", "delete", "post", "move"}, NEW t \in Tasks, Send(op, t)
    PROVE  Inv'
<1> DEFINE w == [op |-> op, t |-> t, st |-> "sent", v |-> 0,
                 url |-> IF op = "delete" THEN url ELSE NoUrl,
                 prev |-> IF op = "move" THEN card ELSE [s \in Tasks |-> NoCard]]
<1>1. /\ May(op, t) /\ reqs' = reqs \cup {w} /\ UNCHANGED <<row, said, told, fed, loaded>>
      /\ IF op = "move" THEN Moved([card EXCEPT ![t].opt = TRUE])
         ELSE UNCHANGED <<card, ui, url, nav, talk, hasty, apart, doubt>>
  BY DEF Send, server, stream
<1>2. /\ card \in Cards /\ url \in Address /\ ui.task \in Tasks \cup {NoTask}
      /\ loaded \in BOOLEAN
  BY HereFacts DEF Inv, PageInv, ServerInv, Shape, Page, Ui
<1>3. NoUrl \in Address /\ [s \in Tasks |-> NoCard] \in Cards
  BY PanelsAssumption DEF NoUrl, Address, NoCard, Cards, Card
<1>4. w \in Write /\ w.st = "sent"
  BY <1>2, <1>3 DEF Write
<1> HIDE DEF w
<1>5. loaded
  <2>1. ~loaded => ui.task = NoTask /\ OnBoard(card) = {}
    BY HereFacts DEF Inv, PageInv, Settled
  <2>2. t # NoTask
    BY PanelsAssumption
  <2> QED BY <1>1, <2>1, <2>2 DEF May
<1>6. ServerInv' /\ WritesInv'
  <2>1. ServerInv'
    BY <1>1 DEF Inv, ServerInv
  <2>2. WritesInv'
    BY <1>1, <1>4, <1>5 DEF Inv, WritesInv, WriteOK
  <2> QED BY <2>1, <2>2
<1>7. PageInv' /\ ReadsInv' /\ TalkInv'
  <2>1. CASE op = "move"
    <3>1. [card EXCEPT ![t].opt = TRUE] \in Cards
      BY <1>2 DEF Cards, Card
    <3> QED BY <1>1, <1>5, <2>1, <3>1, MovedKeeps
  <2>2. CASE op # "move"
    BY <1>1, <2>2 DEF Inv, PageInv, ReadsInv, TalkInv, talk, Here, CommentsOf, Delivered
  <2> QED BY <2>1, <2>2
<1> QED BY <1>6, <1>7 DEF Inv

(* The server takes a write. *)
LEMMA TakesKeeps == ASSUME Inv, NEW w \in reqs, Takes(w) PROVE Inv'
<1>0. PICK n : n = IF w.op = "post" THEN said'[w.t] ELSE row'[w.t]
  OBVIOUS
<1> DEFINE x == [w EXCEPT !.st = "applied", !.v = n]
<1>1. /\ w.st = "sent" /\ row[w.t] > 0 /\ w \in Write /\ w.t \in Tasks /\ loaded
      /\ reqs' = (reqs \ {w}) \cup {x}
      /\ UNCHANGED <<fed, loaded, card, ui, url, nav, comments, loading, loads, hasty, apart, doubt>>
  BY <1>0 DEF Takes, talk, Inv, WritesInv, Write
<1>2. /\ row' \in [Tasks -> Int] /\ said' \in [Tasks -> Nat] /\ told' \in [Tasks -> Int]
      /\ \A t \in Tasks : said'[t] >= said[t]
      /\ w.op = "post" => said'[w.t] > 0
      /\ w.op \in {"save", "move"} => row'[w.t] > 0
      /\ \A t \in Tasks : row'[t] >= Gone /\ told'[t] >= Gone /\ (told'[t] = Gone => row'[t] = Gone)
  <2>1. CASE w.op = "post"
    BY <1>1, <2>1 DEF Takes, Inv, ServerInv, Gone
  <2>2. CASE w.op = "delete"
    BY <1>1, <2>2 DEF Takes, Inv, ServerInv, Gone
  <2>3. CASE w.op \in {"save", "move"}
    BY <1>1, <2>3 DEF Takes, Inv, ServerInv, Gone
  <2> QED BY <1>1, <2>1, <2>2, <2>3 DEF Write
<1>3. ServerInv'
  BY <1>1, <1>2 DEF Inv, ServerInv
<1>4. x \in Write /\ x.t = w.t /\ x.op = w.op /\ x.v = n
  <2>1. n \in Int
    BY <1>0, <1>1, <1>2
  <2> QED BY <1>1, <2>1 DEF Write
<1> HIDE DEF x
<1>5. WritesInv'
  <2>1. \A r \in reqs : r \in Write /\ WriteOK(r)
    BY DEF Inv, WritesInv
  <2>2. ASSUME NEW r \in reqs PROVE WriteOK(r)'
    <3>1. r.t \in Tasks /\ said'[r.t] >= said[r.t] /\ said[r.t] \in Nat /\ said'[r.t] \in Nat
      BY <1>2, <2>1 DEF Write, Inv, ServerInv
    <3> QED BY <2>1, <3>1 DEF WriteOK, Write
  <2>3. WriteOK(x)'
    <3>1. said'[w.t] \in Nat /\ row'[w.t] \in Int
      BY <1>1, <1>2
    <3> QED BY <1>0, <1>2, <1>4, <3>1 DEF WriteOK
  <2> QED BY <1>1, <1>4, <2>1, <2>2, <2>3 DEF WritesInv
<1>6. PageInv'
  BY <1>1 DEF Inv, PageInv, Here
<1>7. \A t \in Tasks : CommentsOf(t) \subseteq CommentsOf(t)'
  BY <1>2 DEF CommentsOf, Inv, ServerInv
<1>8. ReadsInv'
  <2>1. \A l \in DOMAIN loads : l \in Read /\ l.t \in Tasks /\ l.ans \subseteq CommentsOf(l.t)
    BY DEF Inv, ReadsInv, Read
  <2>2. \A l \in DOMAIN loads : l.ans \subseteq CommentsOf(l.t)'
    BY <1>7, <2>1
  <2> QED BY <1>1, <2>1, <2>2 DEF Inv, ReadsInv
<1>9. TalkInv'
  <2>1. ui.detail => ui.task \in Tasks
    BY HereFacts DEF Inv, PageInv, Shape, Tidy, Page, Ui
  <2> QED BY <1>1, <1>7, <2>1 DEF Inv, TalkInv, Delivered
<1> QED BY <1>3, <1>5, <1>6, <1>8, <1>9 DEF Inv

(* The answer of a save: the form of its task is filled from it. *)
LEMMA SaveKeeps ==
    ASSUME Inv, loaded, UNCHANGED <<loaded, said, fed>>, NEW w \in Write, w.v > 0,
           SaveAnswered(w)
    PROVE  PageInv' /\ ReadsInv' /\ TalkInv'
<1> DEFINE x == Shown(w)
           c == Put(w.t, x)
           p == [Here EXCEPT !.ui.task = w.t, !.ui.base = x]
           why == Hasty \cup IF ui.task # w.t THEN {"hasty", "apart", "late"} ELSE {}
<1>1. Shape(Here) /\ card \in Cards /\ Here \in Page /\ w.t \in Tasks
  BY DEF Inv, PageInv, Shape, Write
<1>2. x \in Card /\ x.v > 0
  BY DEF Card, Shown, Write
<1>3. Becomes(Effects(p, c), c, why)
  BY DEF SaveAnswered
<1> HIDE DEF x
<1>4. /\ c \in Cards
      /\ w.t \in OnBoard(card) => c[w.t] = x
  BY <1>1, <1>2 DEF Cards, Put
<1> HIDE DEF c
<1>5. /\ p \in Page /\ p.url = url /\ p.nav = nav /\ SamePanels(p, Here) /\ SameRefs(p, Here)
      /\ p.ui.task = w.t /\ p.ui.base = x /\ p.ui.mode = ui.mode /\ SameTalk(p, Here)
  BY <1>1, <1>2, HereFacts DEF Page, Ui, SamePanels, SameRefs, SameTalk
<1> HIDE DEF p
<1>6. Shape(p)
  <2>1. Tidy(p.ui)
    BY <1>1, <1>2, <1>5, HereFacts, PanelsAssumption DEF Shape, Tidy, SamePanels
  <2> QED BY <1>1, <1>5, <2>1, HereFacts DEF Shape
<1>7. ~hasty /\ "hasty" \notin why => Reflected(Effects(p, c), c, TRUE)
  <2> SUFFICES ASSUME ~hasty, nav = NoNav, ui.task = w.t PROVE Reflected(Effects(p, c), c, TRUE)
    BY DEF Hasty
  <2>1. Settled(Here, TRUE) /\ Reflected(Here, card, TRUE)
    BY DEF Inv, PageInv, ServerInv
  <2>2. Settled(p, TRUE) /\ Reflected(p, card, TRUE) /\ p.nav = NoNav
    BY <1>5, <2>1, HereFacts DEF Settled, Reflected, Matches, Goal, SamePanels, SameRefs
  <2> QED BY <1>4, <1>6, <2>2, EffectsRest
<1>8. ~apart /\ "apart" \notin why => Filled(p, c)
  <2> SUFFICES ASSUME ~apart, ui.task = w.t PROVE Filled(p, c)
    OBVIOUS
  <2>1. w.t # NoTask
    BY <1>1, PanelsAssumption
  <2>2. card[w.t] = ui.base /\ ui.base.v > 0
    BY <1>1, <2>1, HereFacts DEF Inv, PageInv, Filled, Shape, Tidy
  <2>3. w.t \in OnBoard(card)
    BY <1>1, <2>2 DEF OnBoard
  <2> QED BY <1>4, <1>5, <2>3 DEF Filled
<1>9. "late" \notin why => Heard(p)
  BY <1>5, HereFacts DEF Heard, SamePanels, SameTalk
<1> HIDE DEF why
<1> QED BY <1>3, <1>4, <1>6, <1>7, <1>8, <1>9, TurnKeeps

(* The answer of a delete that closes the detail it was asked from. *)
LEMMA EffectsAtDelete ==
    ASSUME NEW p, Shape(p), p.nav = NoNav, Settled(p, TRUE), NEW d, Reflected(p, d, TRUE),
           NEW c \in Cards, p.ui.task \notin OnBoard(c), NEW s, Shape(s), Closed(s, p, p.url)
    PROVE  Reflected(Effects(s, c), c, TRUE)
<1> DEFINE r == taskFromUrl(s, c)
           q == panelFromUrl(r)
<1>1. s \in Page /\ TaskShown(r, s, c)
  BY TaskFacts DEF Shape
<1>2. PanelShown(q, r)
  BY <1>1, PanelFacts DEF TaskShown
<1>3. q = Effects(s, c)
  BY DEF Effects
<1> HIDE DEF r, q
<1>4. /\ Matches(p.ui, p.url) /\ (p.ui.openedChat <=> p.url.panel) /\ Plain(p.url) /\ Tidy(p.ui)
      /\ p.ui.detail \in BOOLEAN /\ p.ui.chat \in BOOLEAN /\ p.url.panel \in BOOLEAN
  BY DEF Reflected, Goal, Settled, Shape, Page, Ui, Address
<1>5. CASE p.ui.detail
  <2>1. /\ p.url.task # NoTask /\ p.url.task \notin OnBoard(c) /\ ~p.url.panel /\ ~p.ui.chat
        /\ p.ui.mode = p.url.feed
    BY <1>4, <1>5 DEF Matches, Plain, Tidy
  <2>2. r.ui = s.ui /\ r.nav # NoNav /\ r.nav.task = NoTask /\ ~r.nav.panel
        /\ r.nav.feed = p.url.feed /\ ~r.url.panel
    BY <1>1, <2>1 DEF Closed, TaskShown
  <2>3. /\ q.nav = r.nav /\ ~q.ui.detail /\ ~q.ui.chat /\ q.ui.mode = p.ui.mode
    BY <1>2, <1>4, <2>1, <2>2 DEF PanelShown, Closed, SamePanels
  <2> QED BY <1>3, <2>1, <2>2, <2>3 DEF Reflected, Matches, Goal
<1>6. CASE ~p.ui.detail
  <2>1. p.url.task = NoTask /\ (p.ui.chat <=> p.url.panel) /\ p.ui.mode = p.url.feed
    BY <1>4, <1>6 DEF Matches
  <2>2. /\ SamePanels(r, s) /\ r.nav = s.nav /\ r.url = p.url
        /\ r.ui.openedChat = p.ui.openedChat /\ r.ui.mode = p.ui.mode
    BY <1>1, <2>1, PanelsAssumption DEF Closed, TaskShown, OnBoard
  <2>3. /\ SamePanels(q, s) /\ q.nav = s.nav /\ q.url = p.url /\ q.ui.mode = p.ui.mode
    BY <1>2, <1>4, <2>2 DEF PanelShown, SamePanels
  <2>4. ~q.ui.detail /\ (q.ui.chat <=> p.url.panel)
    BY <2>1, <2>3 DEF SamePanels, Closed
  <2>5. CASE p.url.comment
    BY <1>3, <1>4, <2>1, <2>3, <2>4, <2>5 DEF Reflected, Matches, Goal, Closed, Plain
  <2>6. CASE ~p.url.comment
    BY <1>3, <2>1, <2>3, <2>4, <2>6 DEF Reflected, Matches, Goal, Closed
  <2> QED BY <2>5, <2>6
<1> QED BY <1>4, <1>5, <1>6

LEMMA DeleteKeeps ==
    ASSUME Inv, loaded, UNCHANGED <<loaded, said, fed>>, NEW w \in Write, DeleteAnswered(w)
    PROVE  PageInv' /\ ReadsInv' /\ TalkInv'
<1> DEFINE c == [card EXCEPT ![w.t] = NoCard]
           s == closeComments(Here, w.url)
           why == Hasty \cup IF ui.task # w.t \/ url # w.url THEN {"hasty"} ELSE {}
<1>1. Shape(Here) /\ card \in Cards /\ Here \in Page /\ w.t \in Tasks /\ w.url \in Address
  BY DEF Inv, PageInv, Shape, Write
<1>2. Becomes(Effects(s, c), c, why)
  BY DEF DeleteAnswered
<1>3. NoCard \in Card /\ NoCard.v = 0
  BY DEF NoCard, Card
<1>4. c \in Cards /\ w.t \notin OnBoard(c)
  BY <1>1, <1>3 DEF Cards, OnBoard
<1>5. Closed(s, Here, w.url)
  BY <1>1, CloseFacts
<1> HIDE DEF c, s
<1>6. Shape(s) /\ Filled(s, c) /\ Heard(s)
  <2>1. Tidy(s.ui) /\ s \in Page
    BY <1>1, <1>5 DEF Closed, Shape, Tidy
  <2>2. Plain(s.url) /\ (s.nav # NoNav => Plain(s.nav))
    BY <1>1, <1>5 DEF Closed, Shape, Plain
  <2> QED BY <1>5, <2>1, <2>2 DEF Closed, Shape, Filled, Heard
<1>7. ~hasty /\ "hasty" \notin why => Reflected(Effects(s, c), c, TRUE)
  <2> SUFFICES ASSUME ~hasty, nav = NoNav, ui.task = w.t, url = w.url
               PROVE  Reflected(Effects(s, c), c, TRUE)
    BY DEF Hasty
  <2>1. Settled(Here, TRUE) /\ Reflected(Here, card, TRUE)
    BY DEF Inv, PageInv, ServerInv
  <2>2. Here.nav = NoNav /\ Here.ui.task \notin OnBoard(c) /\ Closed(s, Here, Here.url)
    BY <1>4, <1>5, HereFacts
  <2> QED BY <1>1, <1>4, <1>6, <2>1, <2>2, EffectsAtDelete
<1> HIDE DEF why
<1> QED BY <1>2, <1>4, <1>6, <1>7, TurnKeeps

LEMMA PostKeeps ==
    ASSUME Inv, UNCHANGED <<loaded, said, fed>>, NEW w \in Write, w.v \in 1..said[w.t],
           PostAnswered(w)
    PROVE  PageInv' /\ ReadsInv' /\ TalkInv'
<1>1. /\ comments' = comments \cup {<<w.t, w.v>>}
      /\ doubt' = IF ui.task # w.t THEN doubt \cup {"stray"} ELSE doubt
      /\ UNCHANGED <<card, ui, url, nav, loading, loads, hasty, apart>>
  BY DEF PostAnswered
<1>2. w.t \in Tasks /\ said[w.t] \in Nat /\ w.v \in Nat /\ <<w.t, w.v>> \in CommentsOf(w.t)
  BY DEF Write, Inv, ServerInv, CommentsOf
<1>3. PageInv'
  BY <1>1 DEF Inv, PageInv, Here
<1>4. ReadsInv'
  BY <1>1, <1>2 DEF Inv, ReadsInv, CommentsOf
<1>5. TalkInv'
  <2> SUFFICES ASSUME ui.detail, doubt' = {}
               PROVE  \/ \E l \in DOMAIN loads : l.t = ui.task
                      \/ comments' \subseteq CommentsOf(ui.task) /\ Delivered(ui.task) \subseteq comments'
    BY <1>1 DEF TalkInv, CommentsOf, Delivered
  <2>1. ui.task = w.t /\ doubt = {}
    BY <1>1
  <2> QED BY <1>1, <1>2, <2>1 DEF Inv, TalkInv
<1> QED BY <1>3, <1>4, <1>5

LEMMA AnswerKeeps == ASSUME Inv, NEW w \in reqs, Answer(w) PROVE Inv'
<1>1. /\ loaded /\ w \in Write /\ WriteOK(w) /\ w.st = "applied"
      /\ UNCHANGED <<server, stream, loaded>> /\ reqs' \subseteq reqs
  BY DEF Answer, Inv, WritesInv
<1>2. UNCHANGED <<loaded, said, fed>>
  BY <1>1 DEF server, stream
<1>3. PageInv' /\ ReadsInv' /\ TalkInv'
  <2>1. CASE w.op = "save"
    BY <1>1, <1>2, <2>1, SaveKeeps DEF Answer, WriteOK
  <2>2. CASE w.op = "delete"
    BY <1>1, <1>2, <2>2, DeleteKeeps DEF Answer
  <2>3. CASE w.op = "post"
    BY <1>1, <1>2, <2>3, PostKeeps DEF Answer, WriteOK
  <2>4. CASE w.op = "move"
    <3>1. MoveAnswered(w)
      BY <2>4 DEF Answer
    <3>2. Put(w.t, Shown(w)) \in Cards
      BY <1>1, <2>4 DEF Put, Shown, Cards, Card, Write, WriteOK, Inv, PageInv
    <3> QED BY <1>1, <1>2, <3>1, <3>2, MovedKeeps DEF MoveAnswered
  <2> QED BY <1>1, <2>1, <2>2, <2>3, <2>4 DEF Write
<1> QED BY <1>1, <1>3, ServerStays DEF Inv

LEMMA FailKeeps == ASSUME Inv, NEW w \in reqs, Fail(w) PROVE Inv'
<1>1. /\ loaded /\ w \in Write /\ UNCHANGED <<server, stream, loaded>> /\ reqs' \subseteq reqs
  BY DEF Fail, Inv, WritesInv
<1>2. UNCHANGED <<loaded, said, fed>>
  BY <1>1 DEF server, stream
<1>3. CASE w.op = "move"
  <2>1. Moved(w.prev) /\ w.prev \in Cards
    BY <1>1, <1>3 DEF Fail, Write
  <2> QED BY <1>1, <1>2, <2>1, MovedKeeps, ServerStays DEF Inv
<1>4. CASE w.op # "move"
  <2>1. UNCHANGED <<card, ui, url, nav, comments, loading, loads, hasty, apart, doubt>>
    BY <1>4 DEF Fail, talk
  <2>2. PageInv' /\ ReadsInv' /\ TalkInv'
    BY <1>2, <2>1 DEF Inv, PageInv, ReadsInv, TalkInv, Here, CommentsOf, Delivered
  <2> QED BY <1>1, <2>2, ServerStays DEF Inv
<1> QED BY <1>3, <1>4

(* A read of comments is answered by the server, arrives or fails. *)
LEMMA ReadKeeps ==
    ASSUME Inv, NEW l \in BagToSet(loads),
           ReadComments(l) \/ loadComments(l) \/ loadCommentsFails(l)
    PROVE  Inv'
<1>1. /\ l \in DOMAIN loads /\ l \in Read /\ l.ans \subseteq CommentsOf(l.t) /\ IsABag(loads)
      /\ l.t \in Tasks
  BY DEF BagToSet, Inv, ReadsInv, Read
<1>2. UNCHANGED <<row, said, told, fed, loaded, card, ui, url, nav, reqs, hasty, apart>>
  BY DEF ReadComments, loadComments, loadCommentsFails, server, stream
<1>3. ServerInv' /\ WritesInv' /\ PageInv'
  BY <1>2 DEF Inv, ServerInv, WritesInv, WriteOK, PageInv, Here
<1> DEFINE rest == loads (-) One(l)
<1>4. /\ IsABag(rest) /\ DOMAIN rest \subseteq DOMAIN loads
      /\ DOMAIN loads \ {l} \subseteq DOMAIN rest
  BY <1>1, DropRead
<1>5. \A t : CommentsOf(t)' = CommentsOf(t) /\ Delivered(t)' = Delivered(t)
  BY <1>2 DEF CommentsOf, Delivered
<1>6. CASE ReadComments(l)
  <2> DEFINE x == [l EXCEPT !.st = "read", !.ans = CommentsOf(l.t)]
  <2>1. loads' = rest (+) One(x) /\ UNCHANGED <<comments, loading, doubt>>
    BY <1>6 DEF ReadComments
  <2>2. CommentsOf(l.t) \in SUBSET (Tasks \X Nat)
    BY <1>1 DEF CommentsOf, Inv, ServerInv
  <2>3. x \in Read /\ x.t = l.t /\ x.ans = CommentsOf(l.t)
    BY <1>1, <2>2 DEF Read
  <2> HIDE DEF x, rest
  <2>4. IsABag(loads') /\ DOMAIN loads' = DOMAIN rest \cup {x}
    BY <1>4, <2>1, AddRead
  <2>5. loads' # EmptyBag
    BY <2>4, EmptyReads
  <2>6. ReadsInv'
    BY <1>4, <1>5, <2>1, <2>3, <2>4, <2>5 DEF Inv, ReadsInv
  <2>7. TalkInv'
    BY <1>2, <1>4, <1>5, <2>1, <2>3, <2>4 DEF Inv, TalkInv
  <2> QED BY <1>3, <2>6, <2>7 DEF Inv
<1>7. CASE loadComments(l)
  <2>1. /\ comments' = l.ans /\ loading' = FALSE /\ loads' = rest
        /\ doubt' = (IF l.t # ui.task THEN {"stray"} ELSE {})
                    \cup (IF Delivered(l.t) \subseteq l.ans THEN {} ELSE {"overtaken"})
    BY <1>7 DEF loadComments, Delivered
  <2> HIDE DEF rest
  <2>2. ReadsInv'
    BY <1>1, <1>4, <1>5, <2>1 DEF Inv, ReadsInv, Read
  <2>3. TalkInv'
    <3> SUFFICES ASSUME doubt' = {}
                 PROVE  comments' \subseteq CommentsOf(ui.task) /\ Delivered(ui.task) \subseteq comments'
      BY <1>2, <1>5 DEF TalkInv
    <3>1. l.t = ui.task /\ Delivered(l.t) \subseteq l.ans
      BY <2>1
    <3> QED BY <1>1, <2>1, <3>1
  <2> QED BY <1>3, <2>2, <2>3 DEF Inv
<1>8. CASE loadCommentsFails(l)
  <2>1. loading' = FALSE /\ loads' = rest /\ doubt' = doubt \cup {"failed"} /\ comments' = comments
    BY <1>8 DEF loadCommentsFails
  <2> HIDE DEF rest
  <2>2. ReadsInv'
    BY <1>4, <1>5, <2>1 DEF Inv, ReadsInv
  <2>3. TalkInv'
    BY <2>1 DEF TalkInv
  <2> QED BY <1>3, <2>2, <2>3 DEF Inv
<1> QED BY <1>6, <1>7, <1>8

(* The stream tells of a task, or of a comment; others edit and comment. *)
LEMMA TaskEventKeeps == ASSUME Inv, NEW t \in Tasks, TaskEvent(t) PROVE Inv'
<1>1. /\ loaded /\ told[t] < row[t] /\ told' = [told EXCEPT ![t] = row[t]] /\ Told(t, row[t])
      /\ UNCHANGED <<row, said, fed, loaded, reqs>>
  BY DEF TaskEvent, server
<1>2. row[t] \in Nat /\ row[t] > 0
  BY <1>1 DEF Inv, ServerInv, Gone
<1>3. PageInv' /\ ReadsInv' /\ TalkInv'
  BY <1>1, <1>2, ToldKeeps
<1>4. ServerInv'
  BY <1>1, <1>2 DEF Inv, ServerInv, Gone
<1>5. WritesInv'
  BY <1>1 DEF Inv, WritesInv, WriteOK
<1> QED BY <1>3, <1>4, <1>5 DEF Inv

LEMMA RemoteEditKeeps == ASSUME Inv, NEW t \in Tasks, RemoteEdit(t) PROVE Inv'
<1>1. /\ loaded /\ row[t] # Gone /\ row' = [row EXCEPT ![t] = @ + 1]
      /\ told' = [told EXCEPT ![t] = row[t] + 1] /\ Told(t, row[t] + 1)
      /\ UNCHANGED <<said, fed, loaded, reqs>>
  BY DEF RemoteEdit
<1>2. row[t] + 1 \in Nat /\ row[t] + 1 > 0
  BY <1>1 DEF Inv, ServerInv, Gone
<1>3. PageInv' /\ ReadsInv' /\ TalkInv'
  BY <1>1, <1>2, ToldKeeps
<1>4. ServerInv'
  BY <1>1, <1>2 DEF Inv, ServerInv, Gone
<1>5. WritesInv'
  BY <1>1 DEF Inv, WritesInv, WriteOK
<1> QED BY <1>3, <1>4, <1>5 DEF Inv

LEMMA RemoteSayKeeps == ASSUME Inv, NEW t \in Tasks, RemoteSay(t) PROVE Inv'
<1>1. /\ said' = [said EXCEPT ![t] = @ + 1]
      /\ UNCHANGED <<row, told, fed, loaded, card, ui, url, nav, comments, loading, loads, reqs,
                     hasty, apart, doubt>>
  BY DEF RemoteSay, stream, talk
<1>2. said' \in [Tasks -> Nat] /\ \A s \in Tasks : said'[s] >= said[s]
  BY <1>1 DEF Inv, ServerInv
<1>3. ServerInv'
  BY <1>1, <1>2 DEF Inv, ServerInv
<1>4. WritesInv'
  <2>1. ASSUME NEW r \in reqs PROVE WriteOK(r)'
    <3>1. r.t \in Tasks /\ said'[r.t] >= said[r.t] /\ said[r.t] \in Nat /\ said'[r.t] \in Nat
          /\ WriteOK(r) /\ r \in Write
      BY <1>2 DEF Write, Inv, ServerInv, WritesInv
    <3> QED BY <3>1 DEF WriteOK, Write
  <2> QED BY <1>1, <2>1 DEF Inv, WritesInv
<1>5. PageInv'
  BY <1>1 DEF Inv, PageInv, Here
<1>6. \A s \in Tasks : CommentsOf(s) \subseteq CommentsOf(s)'
  BY <1>2 DEF CommentsOf, Inv, ServerInv
<1>7. ReadsInv'
  <2>1. \A l \in DOMAIN loads : l \in Read /\ l.t \in Tasks /\ l.ans \subseteq CommentsOf(l.t)
    BY DEF Inv, ReadsInv, Read
  <2>2. \A l \in DOMAIN loads : l.ans \subseteq CommentsOf(l.t)'
    BY <1>6, <2>1
  <2> QED BY <1>1, <2>1, <2>2 DEF Inv, ReadsInv
<1>8. TalkInv'
  <2>1. ui.detail => ui.task \in Tasks
    BY HereFacts DEF Inv, PageInv, Shape, Tidy, Page, Ui
  <2> QED BY <1>1, <1>6, <2>1 DEF Inv, TalkInv, Delivered
<1> QED BY <1>3, <1>4, <1>5, <1>7, <1>8 DEF Inv

LEMMA CommentEventKeeps == ASSUME Inv, NEW t \in Tasks, CommentEvent(t) PROVE Inv'
<1>0. PICK n : n = fed'[t]
  OBVIOUS
<1>1. /\ fed[t] < said[t] /\ fed' = [fed EXCEPT ![t] = @ + 1]
      /\ comments' = IF ui.task = t THEN comments \cup {<<t, n>>} ELSE comments
      /\ UNCHANGED <<row, said, told, loaded, card, ui, url, nav, loading, loads, reqs, hasty,
                     apart, doubt>>
  BY <1>0 DEF CommentEvent, server
<1>2. fed[t] \in Nat /\ said[t] \in Nat /\ fed' \in [Tasks -> Nat] /\ n = fed[t] + 1
      /\ n \in 1..said[t]
  BY <1>0, <1>1 DEF Inv, ServerInv
<1>3. ServerInv' /\ WritesInv' /\ PageInv'
  <2>1. ServerInv'
    BY <1>1, <1>2 DEF Inv, ServerInv
  <2>2. WritesInv' /\ PageInv'
    BY <1>1 DEF Inv, WritesInv, WriteOK, PageInv, Here
  <2> QED BY <2>1, <2>2
<1>4. ReadsInv'
  BY <1>1, <1>2 DEF Inv, ReadsInv, CommentsOf
<1>5. TalkInv'
  <2> SUFFICES ASSUME ui.detail, doubt = {}, comments \subseteq CommentsOf(ui.task),
                      Delivered(ui.task) \subseteq comments
               PROVE  comments' \subseteq CommentsOf(ui.task) /\ Delivered(ui.task)' \subseteq comments'
    BY <1>1 DEF Inv, TalkInv, CommentsOf
  <2>1. CASE ui.task = t
    <3>1. <<t, n>> \in CommentsOf(t)
      BY <1>2 DEF CommentsOf
    <3>2. Delivered(t)' \subseteq Delivered(t) \cup {<<t, n>>}
      BY <1>1, <1>2 DEF Delivered, Inv, ServerInv
    <3> QED BY <1>1, <2>1, <3>1, <3>2 DEF Delivered
  <2>2. CASE ui.task # t
    <3>1. fed'[ui.task] = fed[ui.task]
      BY <1>1, <2>2, HereFacts DEF Inv, ServerInv, PageInv, Shape, Tidy, Page, Ui
    <3> QED BY <1>1, <2>2, <3>1 DEF Delivered
  <2> QED BY <2>1, <2>2
<1> QED BY <1>3, <1>4, <1>5 DEF Inv

LEMMA UserStep == ASSUME Inv, User PROVE Inv'
<1>0. Here \in Page /\ url \in Address /\ card \in Cards
  BY HereFacts DEF Inv, PageInv, Shape, Page
<1>1. ASSUME NEW t \in Tasks, ClickTask(t) PROVE Inv'
  <2> DEFINE q == openComments(Here, t, FALSE, card)
  <2>1. Opened(q, Here, t, FALSE, card)
    BY <1>0, OpenFacts, Zenon
  <2>2. (t \in OnBoard(card) \/ ui.feed) /\ Act(q)
    BY <1>1 DEF ClickTask
  <2> HIDE DEF q
  <2> QED BY <2>1, <2>2, ActKeeps
<1>2. CASE CloseDetail
  <2> DEFINE q == closeComments(Here, url)
  <2>1. Closed(q, Here, url)
    BY <1>0, CloseFacts
  <2>2. ui.detail /\ Act(q)
    BY <1>2 DEF CloseDetail
  <2> HIDE DEF q
  <2> QED BY <2>1, <2>2, ActKeeps
<1>3. CASE OpenChat
  BY <1>0, <1>3, ChatOpenFacts, ActKeeps DEF OpenChat
<1>4. CASE CloseChat
  BY <1>0, <1>4, ChatCloseFacts, ActKeeps DEF CloseChat
<1>5. CASE OpenFeed
  BY <1>0, <1>5, FeedOpenFacts, ActKeeps DEF OpenFeed
<1>6. CASE CloseFeed
  BY <1>0, <1>6, FeedCloseFacts, ActKeeps DEF CloseFeed
<1>7. ASSUME NEW m \in Modes, PickMode(m) PROVE Inv'
  BY <1>0, <1>7, ModeFacts, ActKeeps DEF PickMode
<1> QED BY <1>1, <1>2, <1>3, <1>4, <1>5, <1>6, <1>7, SendKeeps DEF User

LEMMA InvNext == Inv /\ [Next]_vars => Inv'
<1> SUFFICES ASSUME Inv, [Next]_vars PROVE Inv'
  OBVIOUS
<1>1. CASE System
  BY <1>1, LoadBoardKeeps, LandKeeps, TakesKeeps, AnswerKeeps, FailKeeps, ReadKeeps,
     TaskEventKeeps, CommentEventKeeps
  DEF System, Settles, Events
<1>2. CASE User
  BY <1>2, UserStep
<1>3. CASE Others
  BY <1>3, RemoteEditKeeps, RemoteSayKeeps DEF Others
<1>4. CASE UNCHANGED vars
  BY <1>4
  DEF vars, server, stream, talk, Inv, ServerInv, WritesInv, WriteOK, ReadsInv, PageInv, TalkInv,
      Here, CommentsOf, Delivered
<1> QED BY <1>1, <1>2, <1>3, <1>4 DEF Next

LEMMA Invariance == Spec => []Inv
  BY InvInit, InvNext, PTL DEF Spec

-----------------------------------------------------------------------------
(* Every piece of the page keeps its shape, whatever the order of clicks,   *)
(* addresses and answers: at most one of task detail, chat and live feed is *)
(* open, an open detail has a task, and a spinner has a read behind it.     *)
THEOREM OnePanel == Spec => []PanelsOK
<1>1. Inv => PanelsOK
  <2> SUFFICES ASSUME Inv PROVE PanelsOK
    OBVIOUS
  <2>1. /\ ui \in Ui /\ url \in Address /\ nav \in Address \cup {NoNav} /\ Tidy(ui)
        /\ card \in [Tasks -> [v : Nat, opt : BOOLEAN]]
    BY HereFacts DEF Inv, PageInv, Shape, Page, Cards, Card
  <2> DEFINE open == {x \in {"detail", "chat", "feed"} : ui[x]}
             y == IF ui.detail THEN "detail" ELSE IF ui.chat THEN "chat" ELSE "feed"
  <2>2. open \subseteq {y}
    BY <2>1 DEF Tidy, Ui
  <2> HIDE DEF open, y
  <2>3. IsFiniteSet({y}) /\ Cardinality({y}) = 1
    BY FS_Singleton
  <2>4. IsFiniteSet(open) /\ Cardinality(open) <= Cardinality({y})
    BY <2>2, <2>3, FS_Subset
  <2>5. Cardinality(open) <= 1
    BY <2>3, <2>4
  <2> QED BY <2>1, <2>5 DEF PanelsOK, Inv, ReadsInv, Ui, Tidy, open
<1> QED BY <1>1, Invariance, PTL

(* Once the router is at rest the address names the open panel, its task    *)
(* and the filter, unless the page changed while the router was on its way  *)
(* or an answer came for a panel left since.                                *)
THEOREM AddressNamesThePanel == Spec => []UrlAgrees
<1>1. Inv => UrlAgrees
  BY HereFacts DEF Inv, PageInv, ServerInv, Reflected, Matches, Goal, UrlAgrees, Agrees
<1> QED BY <1>1, Invariance, PTL

(* The edit form was filled from the card the board shows, except after a   *)
(* move or a late answer changed the card under it.                         *)
THEOREM FormIsCurrent == Spec => []FormCurrent
<1>1. Inv => FormCurrent
  BY HereFacts DEF Inv, PageInv, Filled, FormCurrent
<1> QED BY <1>1, Invariance, PTL

(* With no read in flight and the stream caught up, an open task shows all  *)
(* of its comments and no others, unless an answer failed, came after a     *)
(* later selection, or had been overtaken by the stream.                    *)
THEOREM CommentsAreRight == Spec => []CommentsRight
<1>1. Inv => CommentsRight
  <2> SUFFICES ASSUME Inv, ui.detail, loads = EmptyBag, fed[ui.task] = said[ui.task], doubt = {}
               PROVE  comments = CommentsOf(ui.task)
    BY DEF CommentsRight
  <2>1. DOMAIN loads = {}
    BY EmptyReads DEF Inv, ReadsInv
  <2>2. comments \subseteq CommentsOf(ui.task) /\ Delivered(ui.task) \subseteq comments
    BY <2>1 DEF Inv, TalkInv
  <2>3. Delivered(ui.task) = CommentsOf(ui.task)
    BY DEF Delivered, CommentsOf
  <2> QED BY <2>2, <2>3
<1> QED BY <1>1, Invariance, PTL

=============================================================================
