----------------------------- MODULE QueryCache -----------------------------
(***************************************************************************)
(* One browser tab of the console: the pages of ConsolePages mounted and   *)
(* left one after the other, the React Query cache they share, and the     *)
(* requests in flight between the tab and the API.  The cache follows      *)
(* TanStack Query 5 as components/providers/QueryProvider.tsx configures   *)
(* it (staleTime 15 s, gcTime 5 min, refetchOnWindowFocus, mutations not   *)
(* retried).                                                               *)
(*                                                                         *)
(* A behaviour is about one collection of the server (coll): view is the   *)
(* part of the site that reads or writes it, chosen once and for all.  A   *)
(* row is its version and whether it exists; every write of a row makes a  *)
(* new version.                                                            *)
(***************************************************************************)
EXTENDS ConsolePages, SequencesExt

CONSTANTS Followed,    \* the collections of the instance
          MaxVisits,   \* navigations by the user
          Roamed,      \* collections for which the user navigates once more
          MaxWrites,   \* mutations of the user and writes by others
          Busy,        \* collections for which there is one more write
          MaxFaults    \* reads that fail and answers of writes that are lost

ASSUME LimitsAssumption == MaxVisits \in Nat /\ MaxWrites \in Nat /\ MaxFaults \in Nat

VARIABLES view, admin,      \* fixed at the start: part of the site, the user's role
          route, panel,     \* the page on screen, the row its dialog names
          server,           \* the rows of the collection on the server
          cache,            \* the cache entry of each key
          muts,             \* mutations in flight
          acked,            \* newest version of each row this tab wrote and knows of
          due,              \* per key, the versions its observers must reflect
          visits, writes, faults

tab    == <<route, panel>>
limits == <<visits, writes, faults>>
vars   == <<view, admin, tab, server, cache, muts, acked, due, limits>>

(* ------------------------------ the site ------------------------------- *)
ElsewherePage == Page(Elsewhere, {}, {})
AllActs == OrgSwitcher.acts \cup UNION {p.acts : p \in Site}
AllWatches == DashboardShell(Elsewhere)
              \cup UNION {p.queries \cup {x[2] : x \in p.panel} : p \in Site}
Collections == {a.w.of : a \in AllActs}

\* Two reads that share a cache entry, anywhere in the site, read the same thing.
ASSUME KeysNameReads == \A x, y \in AllWatches : x.q.key = y.q.key => x.q = y.q

\* No two pages have one route: an id is never a word that names a page.
ASSUME RoutesNamePages == \A x, y \in Site : x.at = y.at => x = y

\* A page as the collection c sees it, inside the shell every page renders.
ViewOf(c, p) ==
  [at |-> p.at,
   queries |-> {o \in p.queries \cup DashboardShell(p.at) : o.q.of = c},
   panel |-> {x \in p.panel : x[2].q.of = c},
   acts |-> {a \in p.acts \cup OrgSwitcher.acts : a.w.of = c}]
Concerns(c, p) == \/ \E o \in p.queries : o.q.of = c
                  \/ \E x \in p.panel : x[2].q.of = c
                  \/ \E a \in p.acts : a.w.of = c
\* The part of the site that concerns c; any other page is elsewhere.
Views ==
  {[of |-> c, home |-> ViewOf(c, ElsewherePage),
    pages |-> {ViewOf(c, p) : p \in {x \in Site : Concerns(c, x)} \cup {ElsewherePage}},
    watches |-> {o.q : o \in {x \in AllWatches : x.q.of = c}}] : c \in Collections}

coll == view.of
Keys == {q.key : q \in view.watches}
PageAt(r) == LET at == {p \in view.pages : p.at = r}
             IN  IF at = {} THEN view.home ELSE CHOOSE p \in at : TRUE
Acts == PageAt(route).acts

\* Who watches while page r is on screen with its dialog on p.
Observers(r, p) ==
  LET page == PageAt(r)
  IN  {o \in page.queries \cup {x[2] : x \in {y \in page.panel : y[1] = p}} :
         "admin" \in o.how => admin}
WatchedBy(obs) == {o.q.key : o \in obs}
Watched == WatchedBy(Observers(route, panel))

(* ------------------------- cache entries (TanStack) -------------------- *)
Absent == [i \in Ids |-> [v |-> 0, on |-> FALSE]]
NoEntry == [has |-> FALSE, data |-> Absent, st |-> "idle", ans |-> Absent,
            invalid |-> FALSE, failed |-> FALSE, partial |-> FALSE, edited |-> FALSE,
            late |-> FALSE, missed |-> FALSE]

\* late: the read may have been overtaken by a write and was not restarted; missed: no
\* read followed the answer of a write made on the page; partial: the read got no
\* answer for the board of the collection
Fetch(e)  == [e EXCEPT !.st = "sent", !.ans = Absent, !.late = FALSE, !.missed = FALSE]
Cancel(e) == [e EXCEPT !.st = "idle", !.ans = Absent]
SetData(e, d) == [e EXCEPT !.has = TRUE, !.data = d, !.invalid = FALSE]

\* A read is aborted when nobody watches it if its query function takes the signal.
Aborts(k) == \E q \in view.watches : q.key = k /\ q.signal
UnmountEntry(k, e) == IF Aborts(k) THEN Cancel(e) ELSE e
\* eager: refetchOnMount "always", or older than staleTime
MountEntry(e, eager) ==
  IF e.st # "idle" THEN [e EXCEPT !.late = TRUE]
  ELSE IF eager \/ ~e.has \/ e.invalid THEN Fetch(e) ELSE e

\* invalidateQueries: a first load in flight is joined, not restarted; a read
\* nobody watches any more is marked, and its answer removes the mark.
InvalidateEntry(e, watched) ==
  IF ~e.has /\ e.st # "idle" THEN [e EXCEPT !.invalid = TRUE, !.late = TRUE]
  ELSE IF watched THEN Fetch([e EXCEPT !.invalid = TRUE])
  ELSE IF e.has THEN [e EXCEPT !.invalid = TRUE, !.late = @ \/ e.st # "idle"]
  ELSE e
Under(k, ks) == \E p \in ks : IsPrefix(p, k)
Invalidate(c, ks) ==
  [k \in Keys |-> IF Under(k, ks) THEN InvalidateEntry(c[k], k \in Watched) ELSE c[k]]

\* The cache after the tab shows page r with its dialog on p.  The clock decides
\* which entries nobody watched for gcTime are collected and which are stale.
Leaving(r, p) == IF r # route THEN Watched ELSE Watched \ WatchedBy(Observers(r, p))
Coming(r, p)  == IF r # route THEN WatchedBy(Observers(r, p))
                 ELSE WatchedBy(Observers(r, p)) \ Watched
Always(r, p)  == WatchedBy({o \in Observers(r, p) : "always" \in o.how})
Show(c, r, p, collected, eager) ==
  [k \in Keys |->
     LET e == IF k \in collected THEN NoEntry
              ELSE IF k \in Leaving(r, p) THEN UnmountEntry(k, c[k]) ELSE c[k]
     IN  IF k \in Coming(r, p) THEN MountEntry(e, k \in eager) ELSE e]
Collectable(c, r, p) == {k \in Coming(r, p) \ Watched : c[k].has /\ c[k].st = "idle"}
Shows(c, r, p) ==
  \E collected \in SUBSET Collectable(c, r, p), stale \in SUBSET (Coming(r, p) \ Always(r, p)) :
    cache' = Show(c, r, p, collected, Always(r, p) \cup stale)

\* What a mount promises: every write this tab knows of.
DueOnShow(r, ack) ==
  [k \in Keys |-> IF k \in Always(r, None) THEN ack ELSE due[k]]
\* Leaving a page unmounts its hooks: callbacks given to mutate are dropped.
Unhook(ms) == {[m EXCEPT !.live = FALSE, !.called = FALSE] : m \in ms}

Reach(c, r, ack) ==
  IF r = route
  THEN cache' = c /\ due' = due /\ UNCHANGED tab
  ELSE /\ route' = r /\ panel' = None
       /\ Shows(c, r, None)
       /\ due' = DueOnShow(r, ack)

(* ----------------------------- the user -------------------------------- *)
\* The user's role matters where a read of the view asks for it.
Roles == IF \E p \in view.pages : \E o \in p.queries \cup {x[2] : x \in p.panel} : "admin" \in o.how
         THEN BOOLEAN ELSE {TRUE}
Init ==
  /\ view \in {x \in Views : x.of[1] \in Followed} /\ admin \in Roles
  /\ route = Elsewhere /\ panel = None
  /\ server = [Absent EXCEPT ![MyId].on = TRUE]
  /\ cache = [k \in Keys |-> IF k \in Watched THEN Fetch(NoEntry) ELSE NoEntry]
  /\ muts = {}
  /\ acked = [i \in Ids |-> 0]
  /\ due = [k \in Keys |-> acked]
  /\ visits = 0 /\ writes = 0 /\ faults = 0

OneMore(n, some) == IF coll[1] \in some THEN n + 1 ELSE n
VisitsBound == OneMore(MaxVisits, Roamed)
WritesBound == OneMore(MaxWrites, Busy)
GlobalRoutes == {GlobalApprovalsPage(s).at : s \in Ids}
Go(p) ==
  /\ visits < VisitsBound /\ p.at # route /\ ~{route, p.at} \subseteq GlobalRoutes
  /\ visits' = visits + 1
  /\ Reach(cache, p.at, acked)
  /\ muts' = Unhook(muts)
  /\ UNCHANGED <<view, admin, server, acked, writes, faults>>

\* The list of boards that the global approvals page holds changes, and with it the key
\* of its read: refetchOnMount is about a mount, so a fresh entry is not read again.
BoardsChange(p) ==
  /\ coll = GlobalApprovals(MyId).of
  /\ visits <= MaxVisits /\ p.at # route /\ {route, p.at} \subseteq GlobalRoutes
  /\ visits' = visits + 1
  /\ route' = p.at
  /\ \E collected \in SUBSET Collectable(cache, p.at, panel), stale \in SUBSET Coming(p.at, panel) :
       cache' = Show(cache, p.at, panel, collected, stale)
  /\ UNCHANGED <<view, admin, panel, server, muts, acked, due, writes, faults>>

\* A row on screen: some list or detail watched by the page shows it.
Shown(i) ==
  \E o \in Observers(route, None) :
    o.q.id \in {None, i} /\ cache[o.q.key].has /\ cache[o.q.key].data[i].on

SetPanel(p) ==
  /\ panel' = p
  /\ Shows(cache, route, p)
  /\ UNCHANGED <<view, admin, route, server, muts, acked, due, limits>>
OpenPanel(i) ==
  /\ panel = None /\ Shown(i)
  /\ \E a \in Acts : a.item = i /\ "row" \in a.how
  /\ SetPanel(i)
ClosePanel == panel # None /\ SetPanel(None)

\* isPending of the hook disables its button; the hooks with callbacks per call
\* take a second call, and then forget the callbacks of the first.
Free(a) == "percall" \in a.how \/ ~\E m \in muts : m.live /\ m.a.w.method = a.w.method
                                                /\ m.a.push = a.push
Ready(a) ==
  CASE "row" \in a.how -> panel = a.item
    [] a.w.id = None   -> ~server[a.item].on    \* the id a new row will get
    [] OTHER           -> Shown(a.item)

\* mutate, with the onMutate of createOptimisticListDeleteMutation
OptimisticRemove(c, ks, i) ==
  LET still == [k \in Keys |-> IF Under(k, ks) THEN Cancel(c[k]) ELSE c[k]]
  IN  [k \in Keys |->
         IF k \in ks /\ still[k].has
         THEN [SetData(still[k], [still[k].data EXCEPT ![i].on = FALSE]) EXCEPT !.edited = TRUE]
         ELSE still[k]]
Mutate(a) ==
  /\ writes < WritesBound /\ Ready(a) /\ Free(a)
  /\ writes' = writes + 1
  /\ cache' = OptimisticRemove(cache, a.drops, a.item)
  /\ muts' = {IF "percall" \in m.a.how \cap a.how THEN [m EXCEPT !.called = FALSE] ELSE m
                : m \in muts}
             \cup {[n |-> writes, a |-> a, from |-> route, st |-> "sent", v |-> 0,
                    live |-> TRUE, called |-> TRUE,
                    prev |-> [k \in a.drops |-> cache[k]]]}
  /\ UNCHANGED <<view, admin, tab, server, acked, due, visits, faults>>

(* ---------------------------- the server ------------------------------- *)
Applied(row, w) == [v |-> row.v + 1, on |-> w.method # "DELETE"]
Accepts(row, w) == row.on <=> w.id # None
\* The request of m reaches the server, which applies or refuses it.
ServerTakes(m) ==
  /\ m.st = "sent"
  /\ LET i == m.a.item IN
     IF Accepts(server[i], m.a.w)
     THEN /\ server' = [server EXCEPT ![i] = Applied(@, m.a.w)]
          /\ muts' = (muts \ {m}) \cup {[m EXCEPT !.st = "applied", !.v = server[i].v + 1]}
     ELSE /\ muts' = (muts \ {m}) \cup {[m EXCEPT !.st = "refused"]}
          /\ UNCHANGED server
  /\ UNCHANGED <<view, admin, tab, cache, acked, due, limits>>

RemoteWrite(i) ==
  /\ writes < WritesBound /\ server[i].on
  /\ writes' = writes + 1
  /\ \E on \in BOOLEAN : server' = [server EXCEPT ![i] = [v |-> @.v + 1, on |-> on]]
  /\ UNCHANGED <<view, admin, tab, cache, muts, acked, due, visits, faults>>

(* ----------------------- the answer of a mutation ---------------------- *)
ReplaceRow(c, ks, i, row) ==
  [k \in Keys |->
     IF k \in ks /\ c[k].has
     THEN SetData(c[k], [c[k].data EXCEPT ![i] = IF @.on THEN row ELSE @]) ELSE c[k]]
Rollback(c, prev) ==
  [k \in Keys |-> IF k \in DOMAIN prev /\ prev[k].has
                 THEN [SetData(c[k], prev[k].data) EXCEPT !.edited = TRUE] ELSE c[k]]
Callbacks(m) == "percall" \notin m.a.how \/ m.called
Invalidated(a) == a.keys \cup (IF panel = a.item THEN a.panelKeys ELSE {})
Closes(a) == a.w.method \in {"DELETE", "PUT"}
Waits(m) == "awaits" \in m.a.how /\ m.a.push # NoPush

\* What the page the write was made on must show once it is answered.
DueOnAck(m, ack) ==
  [k \in Keys |-> IF m.live /\ k \in Always(route, None) THEN ack ELSE due[k]]
\* Its callbacks were dropped, or are about the key the page had when the user clicked.
Misses(m, c) ==
  [k \in Keys |-> IF /\ m.live /\ k \in Always(route, None)
                     /\ ~Callbacks(m) \/ m.from # route
                  THEN [c[k] EXCEPT !.missed = TRUE] ELSE c[k]]

Succeed(m) ==
  /\ m.st = "applied"
  /\ LET a   == m.a
         ack == [acked EXCEPT ![a.item] = IF @ < m.v THEN m.v ELSE @]
         c   == IF Callbacks(m)
                THEN Invalidate(ReplaceRow(cache, a.sets, a.item, Applied([v |-> m.v - 1], a.w)),
                                Invalidated(a))
                ELSE cache
     IN /\ acked' = ack
        /\ CASE "reload" \in a.how ->
                  /\ cache' = [k \in Keys |-> IF k \in WatchedBy(Observers(route, None))
                                              THEN Fetch(NoEntry) ELSE NoEntry]
                  /\ due' = DueOnShow(route, ack)
                  /\ panel' = None /\ muts' = {} /\ UNCHANGED route
             [] Waits(m) ->
                  /\ cache' = c /\ UNCHANGED due
                  /\ muts' = (muts \ {m}) \cup {[m EXCEPT !.st = "refetching"]}
                  /\ UNCHANGED tab
             [] a.push \notin {NoPush, route} ->
                  /\ Reach(c, a.push, ack)
                  /\ muts' = Unhook(muts \ {m})
             [] OTHER ->
                  /\ panel' = IF Closes(a) /\ m.live THEN None ELSE panel
                  /\ Shows(Misses(m, c), route, panel')
                  /\ due' = DueOnAck(m, ack)
                  /\ muts' = muts \ {m} /\ UNCHANGED route
  /\ UNCHANGED <<view, admin, server, limits>>

\* The callback waited for the refetches it asked for, and now leaves the page.
Leave(m) ==
  /\ m.st = "refetching"
  /\ \A k \in Watched : Under(k, m.a.keys) => cache[k].st = "idle"
  /\ IF m.a.push = route
     THEN muts' = muts \ {m} /\ UNCHANGED <<cache, due, tab>>
     ELSE muts' = Unhook(muts \ {m}) /\ Reach(cache, m.a.push, acked)
  /\ UNCHANGED <<view, admin, server, acked, limits>>

\* The server refused, or its answer was lost: onError, then onSettled.
Error(m) ==
  /\ m.st = "refused" \/ (m.st = "applied" /\ faults < MaxFaults)
  /\ faults' = IF m.st = "applied" THEN faults + 1 ELSE faults
  /\ cache' = IF "settled" \in m.a.how /\ Callbacks(m)
              THEN Invalidate(Rollback(cache, m.prev), Invalidated(m.a)) ELSE cache
  /\ muts' = muts \ {m}
  /\ UNCHANGED <<view, admin, tab, server, acked, due, visits, writes>>

(* ------------------------------- reads --------------------------------- *)
Entry(k, e) ==
  /\ cache' = [cache EXCEPT ![k] = e]
  /\ UNCHANGED <<view, admin, tab, server, muts, acked, due, visits, writes>>

Answer(k)  == /\ cache[k].st = "sent"
              /\ Entry(k, [cache[k] EXCEPT !.st = "answered", !.ans = server])
              /\ UNCHANGED faults
\* Promise.allSettled: boards whose request failed are left out, and nothing is thrown.
InParts(k) == \E p \in view.pages : \E o \in p.queries : o.q.key = k /\ "parts" \in o.how
AnswerInPart(k) == /\ cache[k].st = "sent" /\ InParts(k) /\ faults < MaxFaults
                   /\ Entry(k, [cache[k] EXCEPT !.st = "partial"])
                   /\ faults' = faults + 1
Deliver(k) == /\ cache[k].st \in {"answered", "partial"}
              /\ Entry(k, [SetData(Cancel(cache[k]), cache[k].ans)
                             EXCEPT !.failed = FALSE, !.edited = FALSE,
                                    !.partial = cache[k].st = "partial"])
              /\ UNCHANGED faults
FailRead(k) == /\ cache[k].st # "idle" /\ ~InParts(k) /\ faults < MaxFaults
               /\ Entry(k, [Cancel(cache[k]) EXCEPT !.failed = TRUE, !.invalid = TRUE])
               /\ faults' = faults + 1
PolledUnlessFailed(k) ==  \* mutant: polling stops at the first error
  ~cache[k].failed /\ \E o \in Observers(route, panel) : o.q.key = k /\ "poll" \in o.how

Polled(k) == \E o \in Observers(route, panel) : o.q.key = k /\ "poll" \in o.how
Poll(k)   == /\ Polled(k) /\ cache[k].st = "idle"
             /\ Entry(k, Fetch(cache[k])) /\ UNCHANGED faults
Focus(k)  == /\ k \in Watched /\ cache[k].st = "idle"      \* the window again, after staleTime
             /\ Entry(k, Fetch(cache[k])) /\ UNCHANGED faults

(* --------------------- the redirects of onboarding --------------------- *)
MeKey == getMeApiV1UsersMeGet(MyId).key
isOnboardingComplete(profile) == profile.v > 0
Profile == cache[MeKey].data[MyId]
RedirectTo(r) ==
  /\ Reach(cache, r, acked)
  /\ muts' = Unhook(muts)
  /\ UNCHANGED <<view, admin, server, acked, limits>>
RedirectToOnboarding ==
  /\ coll = <<"users">> /\ route # <<"onboarding">>
  /\ cache[MeKey].has /\ Profile.on /\ ~isOnboardingComplete(Profile)
  /\ RedirectTo(<<"onboarding">>)
RedirectToDashboard ==
  /\ coll = <<"users">> /\ route = <<"onboarding">>
  /\ cache[MeKey].has /\ Profile.on /\ isOnboardingComplete(Profile)
  /\ RedirectTo(Elsewhere)

Next ==
  \/ \E p \in view.pages : Go(p) \/ BoardsChange(p)
  \/ \E i \in Ids : OpenPanel(i) \/ RemoteWrite(i)
  \/ ClosePanel
  \/ \E a \in Acts : Mutate(a)
  \/ \E m \in muts : ServerTakes(m) \/ Succeed(m) \/ Leave(m) \/ Error(m)
  \/ \E k \in Keys : \/ Answer(k) \/ AnswerInPart(k) \/ Deliver(k) \/ FailRead(k) \/ Poll(k) \/ Focus(k)
  \/ RedirectToOnboarding
  \/ RedirectToDashboard

Spec == Init /\ [][Next]_vars

(***************************************************************************)
(* The tab stays visible, the network answers every request in the end and *)
(* effects run: reads and their timers, mutations and redirects go on.     *)
(* Nothing is assumed of the user, of the window's focus or of faults.     *)
(***************************************************************************)
FairKeys == {MeKey} \cup {o.q.key : o \in {x \in AllWatches : /\ "poll" \in x.how
                                                              /\ x.q.of[1] \in Followed}}
Reads(k)  == k \in Keys /\ (Answer(k) \/ Deliver(k) \/ Poll(k))
Settles   == \E m \in muts : ServerTakes(m) \/ Succeed(m) \/ Leave(m)
Fairness  == /\ \A k \in FairKeys : WF_vars(Reads(k))
             /\ WF_vars(Settles)
             /\ WF_vars(RedirectToOnboarding) /\ WF_vars(RedirectToDashboard)
FairSpec  == Spec /\ Fairness

(* ----------------------------- properties ------------------------------ *)
Row_ == [v : 0..WritesBound, on : BOOLEAN]

\* Every piece of state keeps its shape.
TypeOK ==
  /\ coll[1] \in Followed /\ admin \in BOOLEAN
  /\ route \in {p.at : p \in Site} \cup {Elsewhere, <<"sign-in">>}
  /\ panel \in Ids \cup {None}
  /\ server \in [Ids -> Row_]
  /\ cache \in [Keys -> [has : BOOLEAN, data : [Ids -> Row_], ans : [Ids -> Row_],
                         st : {"idle", "sent", "answered", "partial"}, invalid : BOOLEAN,
                         failed : BOOLEAN, partial : BOOLEAN, edited : BOOLEAN,
                         late : BOOLEAN, missed : BOOLEAN]]
  /\ \A m \in muts : m.a \in AllActs /\ m.st \in {"sent", "applied", "refused", "refetching"}

AtRest(k) == cache[k].has /\ cache[k].st = "idle" /\ ~cache[k].failed /\ ~cache[k].late

\* A list or detail on screen that is not being read reflects the tab's own
\* answered writes: every one the page made since it was mounted, and on a page that
\* refetches on mount all that were answered before.  Except when its last read failed
\* (failed) or joined a read already under way (late), when it was edited ahead of the
\* answer of a delete (edited, the business of NoGhostRows), and on the approvals pages
\* until the next read: when a second decision dropped the callbacks of the first, or
\* the boards and so the key changed between the click and the answer (missed), and
\* when the read left out the board of the row (partial).
ReadYourWrites ==
  \A o \in Observers(route, panel) :
    LET e == cache[o.q.key]
    IN  "always" \in o.how /\ AtRest(o.q.key) /\ ~e.edited /\ ~e.missed /\ ~e.partial =>
          \A i \in Ids : o.q.id \in {None, i} => e.data[i].v >= due[o.q.key][i]

\* Once no optimistic delete is in flight, what is on screen and at rest is what the
\* server answered: neither an optimistic removal nor a rollback is left behind.
NoGhostRows ==
  (\A m \in muts : m.a.drops = {}) =>
    \A k \in Watched : AtRest(k) => ~cache[k].edited

\* A list or detail that is polled ends up showing the server's rows, whatever
\* writes, lost answers, failed reads and optimistic edits came before.
PollsConverge ==
  <>[](\A o \in Observers(route, panel) :
         "poll" \in o.how =>
           /\ cache[o.q.key].has
           /\ \A i \in Ids : o.q.id \in {None, i} => cache[o.q.key].data[i] = server[i])

\* A user whose profile was saved does not end up on the onboarding page, although
\* the page leaves with the old profile in the cache and is sent back once; a
\* profile that could not be read leaves them there.
OnboardingSettles ==
  <>[](coll = <<"users">> /\ acked[MyId] > 0 =>
         \/ route # <<"onboarding">>
         \/ cache[MeKey].failed \/ ~server[MyId].on)
=============================================================================
