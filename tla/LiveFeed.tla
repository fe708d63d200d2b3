------------------------------ MODULE LiveFeed ------------------------------
(***************************************************************************)
(* The two activity feeds of the console.  The live feed of the board page *)
(* gathers activity events from four sources: the task stream, the history *)
(* read when the panel is opened, a poll every 20 s and the activity       *)
(* stream.  The feed of the activity page is seeded by one load over all   *)
(* boards, then fed by the task streams.  Both hold at most Cap items.     *)
(*                                                                         *)
(* An event is its place in the server's log, which is also its timestamp, *)
(* and a kind: of a task of the board, of the board itself, of its gateway *)
(* (which only the activity list returns) or foreign.  Items made from     *)
(* chat, agents and approvals take the same way as task events and are     *)
(* left out, as are the texts of events, flashes, filters and the change   *)
(* to another board.  Lost connections of the task stream of the board     *)
(* page are in BoardStreams.                                               *)
(***************************************************************************)
EXTENDS Integers, Sequences, FiniteSets, FiniteSetsExt, SequencesExt

CONSTANTS Pages,       \* the feeds of the instance
          Cap,         \* 50 items on the board page, MAX_FEED_ITEMS on the other
          PollLimit,   \* events a poll reads, over all boards (100)
          HistLimit,   \* events a load reads, over all boards (1000)
          MaxPolls,    \* polls in flight at a time
          MaxQueued,   \* state updates between two renders
          MaxEvents, MaxToggles, MaxFaults

ASSUME LimitsAssumption ==
  /\ {Cap, PollLimit, HistLimit} \subseteq Nat \ {0}
  /\ {MaxPolls, MaxQueued, MaxEvents, MaxToggles, MaxFaults} \subseteq Nat

VARIABLES page,           \* "board" or "activity"
          log,            \* the server's events, oldest first
          feed,           \* the items, in the order of the state array
          seen, queued,   \* seenIdsRef, and state updates React has not run yet
          open,           \* the panel is open; the activity page always is
          hist,           \* the history, or the initial load
          polls,          \* polls in flight
          sse,            \* the activity stream, or the task streams of the activity page
          fed,            \* the task stream of the board page: events delivered
          wiped, raced,   \* history: items a load threw away, or left marked as seen
          missed,         \* history: events of the time between load and stream
          buried,         \* history: events no source was to bring to the board's feed
          toggles, faults

past == <<wiped, raced, missed>>
vars == <<page, log, feed, seen, queued, open, hist, polls, sse, fed, past, buried,
          toggles, faults>>

(* ------------------------------ the server ----------------------------- *)
\* the kinds a feed tells apart
KindsOf(p) == IF p = "board" THEN {"task", "board", "gateway", "foreign"} ELSE {"task", "foreign"}
Now == Len(log)
Newest(n) == {e \in 1..Now : e > Now - n}
\* isBoardRelevantActivity, and the filter of the stream by board_id
isBoardRelevantActivity(e) == log[e] # "foreign"
Streamed(e) == log[e] \in IF page = "board" THEN {"task", "board"} ELSE {"task"}
ListedByBoard(n) ==  \* mutant: events of the gateway are filtered out of the list
  {e \in Newest(n) : page = "board" => Streamed(e)}

\* the activity list: everything on the activity page, what is relevant on the board's
Listed(n) == {e \in Newest(n) : page = "board" => isBoardRelevantActivity(e)}
Descending(s) ==
  [n \in 1..Cardinality(s) |-> CHOOSE e \in s : Cardinality({d \in s : d > e}) = n - 1]
Capped(s) == SubSeq(s, 1, Min({Cap, Len(s)}))

(* ------------------------------ the client ----------------------------- *)
pushLiveFeedAgain(f, e) == Capped(<<e>> \o f)  \* mutant: an item that is there is added again

pushLiveFeed(f, e) == IF e \in Range(f) THEN f ELSE Capped(<<e>> \o f)
\* the answer of a poll is pushed as it comes, newest first
pollGenericActivity(f, ans) ==
  LET items == Descending(ans)
      after[n \in 0..Len(items)] == IF n = 0 THEN f ELSE pushLiveFeed(after[n - 1], items[n])
  IN  after[Len(items)]
fetchHistoryAlone(f, ans) == Capped(Descending(ans))  \* mutant: replaces what is there

\* fetchHistory: merged with what is there, newest first
fetchHistory(f, ans) == Capped(Descending(Range(f) \cup ans))

UpdateUnseen(s, u) ==  \* mutant: the item pushed is not marked as seen
  IF u.op = "load" THEN [s EXCEPT !.feed = u.items]
  ELSE IF u.e \in s.seen THEN s
  ELSE [s EXCEPT !.feed = Capped(<<u.e>> \o s.feed)]

\* pushFeedItem and setFeedItems(next) as React runs them: s is [feed, seen]
Update(s, u) ==
  IF u.op = "load" THEN [s EXCEPT !.feed = u.items]
  ELSE IF u.e \in s.seen THEN s
  ELSE [feed |-> Capped(<<u.e>> \o s.feed), seen |-> s.seen \cup {u.e}]
pushFeedItem(e) == [op |-> "push", e |-> e, items |-> <<>>]
setFeedItems(next) == [op |-> "load", e |-> 0, items |-> next]
\* the updates in the order they were queued
Updated(s, us) ==
  LET after[n \in 0..Len(us)] == IF n = 0 THEN s ELSE Update(after[n - 1], us[n])
  IN  after[Len(us)]

Idle == [st |-> "idle", ans |-> {}]
Sent == [st |-> "sent", ans |-> {}]
SseOff == [st |-> "off", last |-> 0]
\* latestLiveFeedTimestamp, latestTimestamp: from the newest item held; without one
\* from the time the server takes the connection
Since == Max({0} \cup {e \in Range(feed) : page = "board" \/ log[e] = "task"})
Connect == [st |-> "asking", last |-> Since]

Init ==
  /\ page \in Pages
  /\ log = <<>>
  /\ feed = <<>> /\ seen = {} /\ queued = <<>>
  /\ open = (page = "activity")
  /\ hist = IF open THEN Sent ELSE Idle
  /\ polls = {} /\ sse = SseOff /\ fed = Now
  /\ wiped = {} /\ raced = FALSE /\ missed = {} /\ buried = {}
  /\ toggles = 0 /\ faults = 0

(* ------------------------------- the board ----------------------------- *)
Emit(k) ==
  /\ Now < MaxEvents
  /\ log' = Append(log, k)
  /\ UNCHANGED <<page, feed, seen, queued, open, hist, polls, sse, fed, past, toggles, faults>>

\* the three effects of the panel: history (once), a first poll, the activity stream
openLiveFeed ==
  /\ page = "board" /\ ~open /\ toggles < MaxToggles /\ toggles' = toggles + 1
  /\ open' = TRUE
  /\ hist' = IF hist.st = "done" THEN hist ELSE Sent
  /\ polls' = {Sent} /\ sse' = Connect
  /\ UNCHANGED <<page, log, feed, seen, queued, fed, past, faults>>
\* their cleanups: what is in flight is cancelled
closeLiveFeed ==
  /\ page = "board" /\ open
  /\ open' = FALSE
  /\ hist' = IF hist.st = "done" THEN hist ELSE Idle
  /\ polls' = {} /\ sse' = SseOff
  /\ UNCHANGED <<page, log, feed, seen, queued, fed, past, toggles, faults>>

\* The task stream feeds the panel open or closed; the new list of tasks starts a
\* history that is not there yet again.
TaskStreamEvent ==
  /\ page = "board" /\ \E e \in (fed + 1)..Now : log[e] = "task"
  /\ fed' = Min({e \in (fed + 1)..Now : log[e] = "task"})
  /\ feed' = pushLiveFeed(feed, fed')
  /\ hist' = IF open /\ hist.st # "done" THEN Sent ELSE hist
  /\ UNCHANGED <<page, log, seen, queued, open, polls, sse, past, toggles, faults>>

ReadHistory ==
  /\ hist.st = IF page = "board" THEN "sent" ELSE "boards"
  /\ hist' = [st |-> "read", ans |-> Listed(HistLimit)]
  /\ UNCHANGED <<page, log, feed, seen, queued, open, polls, sse, fed, past, toggles, faults>>
HistoryAnswered ==
  /\ page = "board" /\ hist.st = "read"
  /\ hist' = [st |-> "done", ans |-> {}]
  /\ feed' = fetchHistory(feed, hist.ans)
  /\ UNCHANGED <<page, log, seen, queued, open, polls, sse, fed, past, toggles, faults>>
\* an error message, until a change of the lists or the next opening
HistoryFails ==
  /\ hist.st \in {"sent", "boards", "read"} /\ faults < MaxFaults /\ faults' = faults + 1
  /\ hist' = [st |-> "failed", ans |-> {}]
  /\ UNCHANGED <<page, log, feed, seen, queued, open, polls, sse, fed, past, toggles>>

\* setInterval, 20 s: a poll may still be in flight
PollTick ==
  /\ page = "board" /\ open /\ Sent \notin polls /\ Cardinality(polls) < MaxPolls
  /\ polls' = polls \cup {Sent}
  /\ UNCHANGED <<page, log, feed, seen, queued, open, hist, sse, fed, past, toggles, faults>>
ReadPoll(p) ==
  /\ p.st = "sent"
  /\ polls' = (polls \ {p}) \cup {[st |-> "read", ans |-> Listed(PollLimit)]}
  /\ UNCHANGED <<page, log, feed, seen, queued, open, hist, sse, fed, past, toggles, faults>>
PollAnswered(p) ==
  /\ p.st = "read"
  /\ polls' = polls \ {p}
  /\ feed' = pollGenericActivity(feed, p.ans)
  /\ UNCHANGED <<page, log, seen, queued, open, hist, sse, fed, past, toggles, faults>>
PollFails(p) ==
  /\ faults < MaxFaults /\ faults' = faults + 1
  /\ polls' = polls \ {p}
  /\ UNCHANGED <<page, log, feed, seen, queued, open, hist, sse, fed, past, toggles>>

(* ------------------------------- streams ------------------------------- *)
\* The server takes the connection and starts before the cursor's own event.
Accept ==
  /\ sse.st = "asking"
  /\ sse' = [st |-> "open", last |-> IF sse.last = 0 THEN Now ELSE sse.last - 1]
  /\ missed' = IF page = "activity" /\ sse.last = 0 /\ hist.st \in {"read", "done"}
               THEN missed \cup ((1..Now) \ (Range(feed) \cup seen \cup hist.ans)) ELSE missed
  /\ UNCHANGED <<page, log, feed, seen, queued, open, hist, polls, fed, wiped, raced, toggles, faults>>
StreamEvent ==
  /\ sse.st = "open" /\ Len(queued) < MaxQueued
  /\ \E e \in (sse.last + 1)..Now : Streamed(e)
  /\ LET e == Min({d \in (sse.last + 1)..Now : Streamed(d)}) IN
     /\ sse' = [sse EXCEPT !.last = e]
     /\ feed' = IF page = "board" THEN pushLiveFeed(feed, e) ELSE feed
     /\ queued' = IF page = "activity" THEN Append(queued, pushFeedItem(e)) ELSE queued
  /\ UNCHANGED <<page, log, seen, open, hist, polls, fed, past, toggles, faults>>
\* The board's activity stream asks its backoff for a delay by a name it does not
\* have, and is not connected again; the activity page's streams are.
Reconnects == page = "activity"
StreamBreaks ==
  /\ sse.st \in {"asking", "open"} /\ faults < MaxFaults /\ faults' = faults + 1
  /\ sse' = [st |-> IF Reconnects THEN "wait" ELSE "dead", last |-> 0]
  /\ UNCHANGED <<page, log, feed, seen, queued, open, hist, polls, fed, past, toggles>>
Reconnect ==
  /\ sse.st = "wait" /\ sse' = Connect
  /\ UNCHANGED <<page, log, feed, seen, queued, open, hist, polls, fed, past, toggles, faults>>

(* ---------------------------- activity page ---------------------------- *)
\* loadInitial: once it has the boards the streams start, while it goes on reading
LoadBoards ==
  /\ page = "activity" /\ hist.st = "sent"
  /\ hist' = [hist EXCEPT !.st = "boards"]
  /\ sse' = Connect
  /\ UNCHANGED <<page, log, feed, seen, queued, open, polls, fed, past, toggles, faults>>
\* setFeedItems(next), and seenIdsRef at once
loadInitial ==
  /\ page = "activity" /\ hist.st = "read" /\ Len(queued) < MaxQueued
  /\ LET next == Capped(Descending(hist.ans))
         waiting == {queued[n].e : n \in DOMAIN queued} \ {0}
         held == Range(feed) \cup waiting
     IN  /\ queued' = Append(queued, setFeedItems(next))
         /\ seen' = Range(next)
         /\ wiped' = wiped \cup (held \ Range(next))
         /\ raced' = (raced \/ waiting \ Range(next) # {})
  /\ hist' = [st |-> "done", ans |-> {}]
  /\ UNCHANGED <<page, log, feed, open, polls, sse, fed, missed, toggles, faults>>
\* React runs the queued updates before its next paint
Render ==
  /\ queued # <<>>
  /\ LET s == Updated([feed |-> feed, seen |-> seen], queued)
     IN  feed' = s.feed /\ seen' = s.seen
  /\ queued' = <<>>
  /\ UNCHANGED <<page, log, open, hist, polls, sse, fed, past, toggles, faults>>
\* The user's name arrives: the mapping functions change, and with them both effects
\* run again.
Rename ==
  /\ page = "activity" /\ toggles < MaxToggles /\ toggles' = toggles + 1
  /\ hist' = Sent
  /\ sse' = IF sse.st = "off" THEN SseOff ELSE Connect
  /\ UNCHANGED <<page, log, feed, seen, queued, open, polls, fed, past, faults>>

(* ----------------------- what is still to be shown --------------------- *)
Relevant == {e \in 1..Now : isBoardRelevantActivity(e)}
\* in the answer of a history or a poll, or among the newest that the next will read
Listing ==
  hist.ans \cup UNION {p.ans : p \in polls} \cup Newest(PollLimit)
    \cup (IF hist.st \in {"idle", "sent"} THEN Newest(HistLimit) ELSE {})
\* ahead of the cursor of a stream
Streaming ==
  {e \in 1..Now : \/ log[e] = "task" /\ e > fed
                  \/ Streamed(e) /\ sse.st = "open" /\ e > sse.last
                  \/ Streamed(e) /\ sse.st = "asking" /\ sse.last # 0 /\ e >= sse.last}
Bury == buried' = buried \cup (Relevant \ (Range(feed) \cup Listing \cup Streaming))'

System ==
  /\ \/ TaskStreamEvent \/ ReadHistory \/ HistoryAnswered \/ Accept \/ StreamEvent \/ Reconnect
     \/ LoadBoards \/ loadInitial \/ Render
  /\ Bury
Polling == (PollTick \/ \E p \in polls : ReadPoll(p)) /\ Bury
Polled  == (\E p \in polls : PollAnswered(p)) /\ Bury
Outside ==
  /\ \/ \E k \in KindsOf(page) : Emit(k)
     \/ openLiveFeed \/ closeLiveFeed \/ Rename
     \/ HistoryFails \/ StreamBreaks \/ \E p \in polls : PollFails(p)
  /\ Bury
Next == System \/ Polling \/ Polled \/ Outside

Spec == Init /\ [][Next]_vars
\* Requests are answered, streams go on, React renders and the interval fires.
FairSpec == Spec /\ WF_vars(System) /\ WF_vars(Polling) /\ WF_vars(Polled)

(* ----------------------------- properties ------------------------------ *)
\* More events than the feed can hold: what is dropped depends on the order of arrival.
Crowded == Cardinality(Relevant) > Cap

\* Every piece of state keeps its shape; and however its sources overlap, no event is
\* on a feed twice, no more than Cap are, and the board's feed has only events that
\* are relevant to it.
FeedOK ==
  /\ page \in Pages /\ log \in BoundedSeq(KindsOf(page), MaxEvents)
  /\ seen \cup wiped \cup missed \cup buried \subseteq 1..Now
  /\ hist.st \in {"idle", "sent", "boards", "read", "done", "failed"} /\ hist.ans \subseteq 1..Now
  /\ sse.st \in {"off", "asking", "open", "wait", "dead"} /\ sse.last \in 0..Now
  /\ fed \in 0..Now /\ {open, raced} \subseteq BOOLEAN
  /\ Range(feed) \subseteq 1..Now /\ Len(feed) <= Cap /\ IsInjective(feed)
  /\ page = "board" => \A e \in Range(feed) : isBoardRelevantActivity(e)

\* An event marked as seen, which the activity page will never take again, is on its
\* feed, unless the feed was full, or a load answered before React had run the update.
SeenIsShown ==
  page = "activity" /\ queued = <<>> /\ ~raced /\ Now <= Cap => seen = Range(feed)

\* An item leaves a feed only when the feed is full, or when the activity page's load
\* replaces it.
OnlyCapDrops ==
  [][\A e \in Range(feed) \ Range(feed') : Len(feed') = Cap \/ e \in wiped]_vars

\* An open panel ends up with every event relevant to the board, as long as they all
\* fit, but for those that were buried: neither ahead of a stream nor among the newest
\* PollLimit of everything the user may see (or, while the history is not there, the
\* newest HistLimit) before an answer had them.  With the activity stream gone for good
\* that is enough events of other boards between two polls.  The activity page ends up
\* with every task event, but for those a load threw away, those between the load and a
\* stream that had no cursor, and lost connections.
EventsShown ==
  <>[](/\ page = "board" /\ open /\ ~Crowded => Relevant \subseteq Range(feed) \cup buried
       /\ page = "activity" /\ hist.st = "done" /\ Now <= Cap /\ faults = 0 =>
            \A e \in 1..Now : log[e] = "task" => e \in Range(feed) \cup wiped \cup missed)
=============================================================================
