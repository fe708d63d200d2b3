------------------------- MODULE BoardStreamsProofs -------------------------
(***************************************************************************)
(* TLAPS proofs about BoardStreams: the shape of its state, that the list  *)
(* is a replica of the server's, that a quiet stream has caught up, and    *)
(* that no card is left moved, for every list and every set of items.      *)
(***************************************************************************)
EXTENDS BoardStreams, FiniteSetTheorems, WellFoundedInduction, TLAPS

-----------------------------------------------------------------------------
(* Numbers and sets. *)

LEMMA LeastNatural ==
    ASSUME NEW T \in SUBSET Nat, T # {}
    PROVE  \E x \in T : \A y \in T : x <= y
<1> DEFINE L == OpToRel(<, Nat)
<1>1. IsWellFoundedOn(L, Nat)
  BY NatLessThanWellFounded
<1>2. PICK x \in T : \A y \in T : ~ (<<y, x>> \in L)
  <2> HIDE DEF L
  <2> QED BY <1>1, WFMin
<1>3. \A y \in T : ~(y < x)
  BY <1>2 DEF OpToRel
<1> QED BY <1>3

LEMMA MaxFacts ==
    ASSUME NEW n \in Int, NEW S \in SUBSET (-1..n), S # {}
    PROVE  Max(S) \in S /\ \A y \in S : y <= Max(S)
<1> DEFINE T == {k \in Nat : n - k \in S}
<1>1. T \in SUBSET Nat /\ T # {}
  <2>1. PICK y \in S : TRUE
    OBVIOUS
  <2>2. n - y \in Nat /\ n - (n - y) = y
    OBVIOUS
  <2> QED BY <2>1, <2>2
<1>2. PICK k \in T : \A j \in T : k <= j
  BY <1>1, LeastNatural
<1>3. n - k \in S /\ \A y \in S : n - k >= y
  <2>1. ASSUME NEW y \in S PROVE n - k >= y
    <3>1. n - y \in T
      OBVIOUS
    <3> QED BY <1>2, <3>1
  <2> QED BY <1>2, <2>1
<1>4. \E x \in S : \A y \in S : x >= y
  BY <1>3
<1> QED BY <1>4 DEF Max

LEMMA MinFacts ==
    ASSUME NEW a \in Int, NEW b \in Int
    PROVE  Min({a, b}) = IF a <= b THEN a ELSE b
<1> DEFINE m == IF a <= b THEN a ELSE b
<1>1. m \in {a, b} /\ \A y \in {a, b} : m <= y
  OBVIOUS
<1>2. \A x \in {a, b} : (\A y \in {a, b} : x <= y) => x = m
  OBVIOUS
<1> QED BY <1>1, <1>2 DEF Min

(* The delay stays between the base delay and the limit. *)
LEMMA DelayFacts ==
    ASSUME NEW n \in 0..MaxAttempt
    PROVE  nextDelayMs(n) \in 1..MaxDelay /\ NextAttempt(n) \in 0..MaxAttempt
<1>1. NextAttempt(n) \in 0..MaxAttempt
  BY MinFacts DEF NextAttempt, MaxAttempt
<1>2. CASE n > 8
  BY <1>1, <1>2 DEF nextDelayMs, MaxDelay
<1>3. CASE ~(n > 8)
  <2>1. n \in 0..8
    BY <1>3 DEF MaxAttempt
  <2>2. 2 ^ n \in 1..256
    BY <2>1, PowersAssumption, Zenon
  <2>3. PICK k \in 1..256 : k = 2 ^ n
    BY <2>2, Zenon
  <2>4. MaxDelay = 300 /\ 300 \in Int /\ k \in Int
    BY DEF MaxDelay
  <2>5. Min({MaxDelay, k}) = IF MaxDelay <= k THEN MaxDelay ELSE k
    BY <2>4, MinFacts, Zenon
  <2>6. Min({MaxDelay, k}) \in 1..MaxDelay
    BY <2>4, <2>5
  <2>7. nextDelayMs(n) = Min({MaxDelay, k})
    BY <1>3, <2>3 DEF nextDelayMs
  <2> QED BY <1>1, <2>6, <2>7
<1> QED BY <1>2, <1>3

-----------------------------------------------------------------------------
(* The inductive invariant. *)

Item    == [v : Nat, at : Nat, opt : BOOLEAN]
View    == [Items -> Item]
Row     == [v : Nat, at : Nat, born : Nat, on : BOOLEAN]
Event   == [i : Items, at : Nat, n : Nat]
Packet  == [i : Items, v : Nat, at : Nat]
Request == [op : {"create", "save", "move", "delete", "decide", "post"}, i : Items,
            st : {"sent", "applied", "refused"}, v : Nat, at : Nat, prev : View]
Link    == [st : {"off", "asking", "open", "wait", "ended"}, last : Int,
            seen : SUBSET (Items \X Nat), wire : Seq(Packet), attempt : 0..MaxAttempt]

TypeInv ==
    /\ list \in AllLists /\ active \in BOOLEAN
    /\ rows \in [Items -> Row] /\ log \in SUBSET Event /\ IsFiniteSet(log) /\ now \in Nat
    /\ owed \in SUBSET Event
    /\ snap \in [st : {"sent", "read", "done", "failed"}, ans : View]
    /\ link \in Link /\ view \in View
    /\ own \in SUBSET Request /\ \A w \in own : w.op \in list.ops
    /\ missed \in [Items -> SUBSET Causes] /\ overlap \in BOOLEAN

(* Nothing is newer than the server: versions exist, stamps have passed. *)
Within(v) == \A i \in Items : v[i].v <= rows[i].v /\ v[i].at <= now
KnownInv ==
    /\ \A i \in Items : rows[i].born <= rows[i].at /\ rows[i].at <= now /\ (rows[i].on => rows[i].v > 0)
    /\ Within(view) /\ Within(snap.ans)
    /\ NoCursor <= link.last /\ link.last <= now

(* What is on the wire, and where a stream may be. *)
WireInv ==
    /\ \A n \in DOMAIN link.wire :
         LET p == link.wire[n] IN p.v > 0 /\ p.v <= rows[p.i].v /\ p.at <= now
    /\ \A m, n \in DOMAIN link.wire : link.wire[m].i = link.wire[n].i => link.wire[m].v = link.wire[n].v
    /\ link.st # "open" => link.wire = <<>> /\ link.seen = {}
    /\ list.needs = "board" /\ snap.st # "done" => link.st = "off"
    /\ ~active => link.st = "off"

(* The task events recorded and owed: at most one for each version, none of *)
(* a version to come, and none sent before it is recorded.                  *)
Past(i, n) == n < rows[i].v
LogInv ==
    /\ \A e \in log : e.at <= now /\ Past(e.i, e.n)
    /\ \A d, e \in log : d.i = e.i /\ d.n = e.n => d = e
    /\ \A x \in link.seen : Past(x[1], x[2])
    /\ \A e \in owed : Past(e.i, e.n) /\ <<e.i, e.n>> \notin link.seen
    /\ \A d, e \in owed : d.i = e.i /\ d.n = e.n => d = e
    /\ \A d \in owed, e \in log : ~(d.i = e.i /\ d.n = e.n)
    /\ list.sends # "once" => owed = {}

(* Lists whose items do not change have one version of each. *)
ItemInv == ~Edited => \A i \in Items : rows[i].v <= 1

(* Requests carry what existed; one for a new item is alone with it. *)
Alone(w) == rows[w.i].v = 0 /\ \A u \in own : u.i = w.i => u = w
OwnInv ==
    \A w \in own : /\ Within(w.prev) /\ w.v <= rows[w.i].v /\ w.at <= now
                   /\ New(w.op) /\ w.st = "sent" => Alone(w)

Plain(v) == \A i \in Items : ~v[i].opt
OptInv ==
    /\ \A i \in Items : view[i].opt => view[i].v > 0
    /\ \A w \in own : \A i \in Items : w.prev[i].opt => w.prev[i].v > 0
    /\ Plain(snap.ans)
    /\ ~overlap =>
         /\ \A w, u \in own : w.op = "move" /\ u.op = "move" => w = u
         /\ \A w \in own : Plain(w.prev)
         /\ \A i \in Items : view[i].opt => \E w \in own : w.op = "move" /\ w.i = i

(* An old version of an item is on the page or on the wire (Lags), or in    *)
(* what the page is about to load (LagsRead).                               *)
Stale(i)    == \E n \in DOMAIN link.wire : link.wire[n].i = i /\ link.wire[n].v < rows[i].v
Lags(i)     == rows[i].on /\ (view[i].v < rows[i].v \/ Stale(i))
LagsRead(i) == rows[i].on /\ snap.st = "read" /\ snap.ans[i].v < rows[i].v

(* Then there is a reason to have missed it, or its event is owed, or it is *)
(* on the wire as it is now, or its event is ahead of the stream and of any *)
(* cursor that the list, now or with the wire taken, can give.              *)
Excused(i)   == missed[i] # {} \/ Owed(i)
OnWire(i)    == \E n \in DOMAIN link.wire : link.wire[n].i = i /\ link.wire[n].v = rows[i].v
Fits(v, t)   == \A j \in Held(v) : v[j].at <= t
WireFits(t)  == \A n \in DOMAIN link.wire : link.wire[n].at <= t
Unsent(e)    == list.sends = "once" => <<e.i, e.n>> \notin link.seen
Ahead(e)     == Unsent(e) /\ link.last <= e.at /\ Fits(view, e.at) /\ WireFits(e.at)
Coming(i)    == \E e \in Telling(i) : Ahead(e)
Live         == snap.st = "done" \/ list.sends # "once"
DueInv  == Live => \A i \in Items : Lags(i) => Excused(i) \/ OnWire(i) \/ Coming(i)
ReadInv == \A i \in Items :
             LagsRead(i) => Excused(i) \/ \E e \in Telling(i) : Fits(snap.ans, e.at)

Inv == /\ TypeInv /\ KnownInv /\ WireInv /\ LogInv /\ ItemInv /\ OwnInv /\ OptInv
       /\ DueInv /\ ReadInv

-----------------------------------------------------------------------------
(* The lists, cursors and connections. *)

LEMMA ListFacts ==
    ASSUME list \in AllLists
    PROVE  /\ list.rerun \in BOOLEAN
           /\ list.sends \in {"once", "again"} /\ list.keeps \in {"first", "last"}
           /\ list.reads \in {"replaces", "merges"} /\ list.needs \in {"board", "nothing"}
           /\ list.sends = "once" => list.name = "tasks" /\ list.needs = "board" /\ list.keeps = "last"
           /\ list.keeps = "first" => ~Edited
           /\ list.reads = "merges" => ~Edited /\ list.sends = "again" /\ ~list.rerun
           /\ list.reads = "replaces" => list.rerun
           /\ ~Edited => list.ops \subseteq {"post"}
           /\ list.name = "approvals" =>
                list.ops = {"decide"} /\ list.needs = "board" /\ list.sends = "again"
           /\ list.ops \subseteq {"create", "save", "move", "delete", "decide", "post"}
<1> USE DEF Edited
<1>1. CASE list = chatStream
  BY <1>1 DEF chatStream
<1>2. CASE list = approvalsStream
  BY <1>2 DEF approvalsStream
<1>3. CASE list = tasksStream
  BY <1>3 DEF tasksStream
<1>4. CASE list = agentsStream
  BY <1>4 DEF agentsStream
<1>5. CASE list = groupChatStream
  BY <1>5 DEF groupChatStream
<1>6. CASE list = groupNotesStream
  BY <1>6 DEF groupNotesStream, groupChatStream
<1> QED BY <1>1, <1>2, <1>3, <1>4, <1>5, <1>6 DEF AllLists

(* The cursor of a list is the stamp of the newest item held. *)
CursorOf(c, v) ==
    IF Held(v) = {} THEN c = NoCursor
    ELSE (\E j \in Held(v) : c = v[j].at) /\ \A j \in Held(v) : v[j].at <= c

LEMMA LatestFacts ==
    ASSUME NEW v \in View, NEW n \in Nat, \A i \in Items : v[i].at <= n
    PROVE  CursorOf(Latest(v), v) /\ Latest(v) \in Int /\ NoCursor <= Latest(v) /\ Latest(v) <= n
<1>1. CASE Held(v) = {}
  BY <1>1 DEF Latest, CursorOf, NoCursor
<1>2. CASE Held(v) # {}
  <2> DEFINE S == {v[i].at : i \in Held(v)}
  <2>1. \A j \in Held(v) : v[j].at \in Nat /\ v[j].at <= n
    BY DEF Held, View, Item
  <2>2. S \in SUBSET (-1..n) /\ S # {}
    BY <1>2, <2>1
  <2>3. Latest(v) = Max(S)
    BY <1>2 DEF Latest
  <2> HIDE DEF S
  <2>4. Max(S) \in S /\ \A y \in S : y <= Max(S)
    <3>1. n \in Int
      OBVIOUS
    <3> QED BY <2>2, <3>1, MaxFacts, Zenon
  <2>5. PICK j \in Held(v) : Max(S) = v[j].at
    BY <2>4 DEF S
  <2>6. \A i \in Held(v) : v[i].at <= Max(S)
    BY <2>4 DEF S
  <2> QED BY <1>2, <2>1, <2>3, <2>5, <2>6 DEF CursorOf, NoCursor
<1> QED BY <1>1, <1>2

LEMMA OffFacts ==
    /\ Off \in Link /\ Off.st = "off" /\ Off.last = NoCursor /\ Off.seen = {} /\ Off.wire = <<>>
    /\ Off.attempt = 0 /\ NoCursor \in Int
  BY DEF Off, Link, NoCursor, MaxAttempt

Asks(l, v) ==
    /\ l \in Link /\ l.st = "asking" /\ l.seen = {} /\ l.wire = <<>>
    /\ CursorOf(l.last, v) /\ NoCursor <= l.last

LEMMA ConnectFacts ==
    ASSUME NEW v \in View, NEW n \in Nat, \A i \in Items : v[i].at <= n, NEW k \in 0..MaxAttempt
    PROVE  Asks(Connect(v, k), v) /\ Connect(v, k).last <= n
<1> DEFINE c == Latest(v)
<1>1. CursorOf(c, v) /\ c \in Int /\ NoCursor <= c /\ c <= n
  BY LatestFacts
<1>2. Connect(v, k) = [Off EXCEPT !.st = "asking", !.last = c, !.attempt = k]
  BY DEF Connect
<1> HIDE DEF c
<1> QED BY <1>1, <1>2, OffFacts DEF Asks, Link

(* A connection that is started, or not: none without the board it needs. *)
LEMMA EffectFacts ==
    ASSUME NEW v \in View, NEW n \in Nat, \A i \in Items : v[i].at <= n, NEW on \in BOOLEAN, NEW st
    PROVE  LET l == Effect(on, st, v) IN
           /\ l \in Link /\ l.st # "open" /\ l.seen = {} /\ l.wire = <<>>
           /\ NoCursor <= l.last /\ l.last <= n
           /\ CursorOf(l.last, v) \/ l.last = NoCursor
           /\ list.needs = "board" /\ st # "done" => l.st = "off"
           /\ ~on => l.st = "off"
<1>1. Asks(Connect(v, 0), v) /\ Connect(v, 0).last <= n
  BY ConnectFacts DEF MaxAttempt
<1> QED BY <1>1, OffFacts DEF Effect, Runs, Asks, NoCursor

-----------------------------------------------------------------------------
(* What the server makes of an item, and what a round of it selects. *)

Stamps(r, i, t) ==
    /\ r \in [Items -> Row] /\ r[i].v = rows[i].v + 1 /\ r[i].at = t /\ r[i].on
    /\ r[i].born = IF rows[i].on THEN rows[i].born ELSE t
    /\ \A j \in Items : j # i => r[j] = rows[j]

LEMMA StampFacts ==
    ASSUME TypeInv, NEW i \in Items, NEW t \in Nat PROVE Stamps(Stamped(i, t), i, t)
<1> DEFINE x == [v |-> rows[i].v + 1, at |-> t, on |-> TRUE,
                 born |-> IF rows[i].on THEN rows[i].born ELSE t]
<1>1. x \in Row /\ x.v = rows[i].v + 1 /\ x.at = t /\ x.on
      /\ x.born = IF rows[i].on THEN rows[i].born ELSE t
  BY DEF Row, TypeInv
<1>2. Stamped(i, t) = [rows EXCEPT ![i] = x]
  BY DEF Stamped, TypeInv
<1> HIDE DEF x
<1> QED BY <1>1, <1>2 DEF TypeInv, Stamps

LEMMA SelectedFacts ==
    ASSUME TypeInv
    PROVE  /\ list.sends = "once" => Selected = {e \in log : e.at >= link.last /\ rows[e.i].on
                                                            /\ <<e.i, e.n>> \notin link.seen}
           /\ list.sends # "once" =>
                /\ \A e \in Selected : e.i \in Items /\ rows[e.i].on /\ rows[e.i].at >= link.last
                                       /\ e.at = rows[e.i].at
                /\ \A i \in Items : rows[i].on /\ rows[i].at >= link.last =>
                     \E e \in Selected : e.i = i
           /\ \A e \in Selected : e \in Event /\ rows[e.i].on /\ e.at >= link.last
           /\ IsFiniteSet(Selected)
<1>1. CASE list.sends = "once"
  <2>1. Selected = {e \in log : e.at >= link.last /\ rows[e.i].on /\ <<e.i, e.n>> \notin link.seen}
    BY <1>1 DEF Selected
  <2>2. IsFiniteSet(Selected)
    BY <2>1, FS_Subset DEF TypeInv
  <2> QED BY <1>1, <2>1, <2>2 DEF TypeInv
<1>2. CASE list.sends # "once"
  <2> DEFINE J == {j \in Items : rows[j].on /\ rows[j].at >= link.last}
             f == [i \in J |-> [i |-> i, at |-> rows[i].at, n |-> 0]]
  <2>1. Selected = {[i |-> i, at |-> rows[i].at, n |-> 0] : i \in J}
    BY <1>2 DEF Selected
  <2>2. \A e \in Selected : \E j \in J : e = [i |-> j, at |-> rows[j].at, n |-> 0]
    BY <2>1
  <2>3. \A j \in J : [i |-> j, at |-> rows[j].at, n |-> 0] \in Selected
    BY <2>1
  <2>4. IsFiniteSet(J)
    BY FS_Subset, BoundsAssumption
  <2>5. f \in Surjection(J, Selected)
    BY <2>2, <2>3 DEF Surjection
  <2>6. IsFiniteSet(Selected)
    BY <2>4, <2>5, FS_Surjection
  <2>7. \A e \in Selected : e \in Event /\ e.i \in J /\ e.at = rows[e.i].at
    BY <2>2 DEF Event, TypeInv, Row
  <2>8. \A i \in J : \E e \in Selected : e.i = i
    BY <2>3
  <2> QED BY <1>2, <2>6, <2>7, <2>8
<1> QED BY <1>1, <1>2

LEMMA BatchFacts ==
    ASSUME TypeInv, NEW b \in Batches
    PROVE  LET w == [n \in DOMAIN b |-> Payload(b[n])] IN
           /\ w \in Seq(Packet)
           /\ \A n \in DOMAIN w : \E e \in Selected : w[n] = Payload(e)
           /\ \A e \in Selected : \E n \in DOMAIN w : w[n] = Payload(e)
<1> DEFINE w == [n \in DOMAIN b |-> Payload(b[n])]
           k == Cardinality(Selected)
<1>1. k \in Nat
  BY SelectedFacts, FS_CardinalityType
<1>2. b \in [1..k -> Selected] /\ Range(b) = Selected
  BY DEF Batches
<1> HIDE DEF k
<1>3. \A e \in Selected : Payload(e) \in Packet
  BY SelectedFacts DEF Payload, Packet, Event, TypeInv, Row
<1>4. \A e \in Selected : \E n \in 1..k : b[n] = e
  BY <1>2 DEF Range
<1>5. w \in [1..k -> Packet] /\ \A n \in 1..k : w[n] = Payload(b[n])
  BY <1>2, <1>3
<1> HIDE DEF w
<1>6. w \in Seq(Packet) /\ DOMAIN w = 1..k
  BY <1>1, <1>5
<1>7. /\ \A n \in DOMAIN w : \E e \in Selected : w[n] = Payload(e)
      /\ \A e \in Selected : \E n \in DOMAIN w : w[n] = Payload(e)
  BY <1>2, <1>4, <1>5, <1>6
<1> QED BY <1>6, <1>7 DEF w

-----------------------------------------------------------------------------
(* What the marks and the events of an item say. *)

LEMMA Numbers ==
    ASSUME TypeInv
    PROVE  /\ now \in Nat /\ link.last \in Int /\ NoCursor \in Int
           /\ \A i \in Items : rows[i] \in Row /\ rows[i].v \in Nat /\ rows[i].at \in Nat /\ rows[i].born \in Nat
           /\ \A i \in Items : view[i] \in Item /\ view[i].v \in Nat /\ view[i].at \in Nat
           /\ \A i \in Items : snap.ans[i] \in Item /\ snap.ans[i].v \in Nat /\ snap.ans[i].at \in Nat
  BY DEF TypeInv, Row, View, Item, Link, NoCursor

LEMMA EmptyWire == ASSUME NEW s, s = <<>> PROVE DOMAIN s = {}
  OBVIOUS

(* What the marks are after a step, where an old version of an item is left. *)
LEMMA OutdatedFacts == \A i \in Items : i \in Outdated <=> Lags(i) \/ LagsRead(i)
  BY DEF Outdated, Lagging, On, Lags, LagsRead, Stale

LEMMA MarksFacts ==
    ASSUME NEW m \in [Items -> SUBSET Causes], Because(m)
    PROVE  /\ missed' \in [Items -> SUBSET Causes]
           /\ \A i \in Items : Lags(i)' \/ LagsRead(i)' => missed'[i] = m[i]
<1>1. \A i \in Items : i \in Outdated' <=> Lags(i)' \/ LagsRead(i)'
  BY DEF Outdated, Lagging, On, Lags, LagsRead, Stale
<1>2. missed' = [i \in Items |-> IF i \in Outdated' THEN m[i] ELSE {}]
  BY DEF Because
<1> QED BY <1>1, <1>2

LEMMA MissFacts ==
    ASSUME TypeInv, NEW why \in Causes, NEW s, Miss(why, s)
    PROVE  /\ missed' \in [Items -> SUBSET Causes]
           /\ \A i \in Items : missed'[i] = {} /\ (Lags(i)' \/ LagsRead(i)') => missed[i] = {} /\ i \notin s
<1> DEFINE m == [i \in Items |-> missed[i] \cup IF i \in s THEN {why} ELSE {}]
<1>1. m \in [Items -> SUBSET Causes] /\ Because(m)
  BY DEF TypeInv, Miss
<1>2. \A i \in Items : m[i] = missed[i] \cup IF i \in s THEN {why} ELSE {}
  OBVIOUS
<1> HIDE DEF m
<1>3. /\ missed' \in [Items -> SUBSET Causes]
      /\ \A i \in Items : Lags(i)' \/ LagsRead(i)' => missed'[i] = m[i]
  BY <1>1, MarksFacts
<1> QED BY <1>2, <1>3

(* Each item is announced by one event at most, already stamped. *)
LEMMA TellingFacts ==
    ASSUME TypeInv, KnownInv, LogInv, NEW i \in Items
    PROVE  /\ \A e \in Telling(i) : e \in Event /\ e.i = i /\ e.at \in Nat /\ e.at <= now
           /\ \A d, e \in Telling(i) : d = e
<1>1. CASE list.sends = "once"
  <2>1. Telling(i) = {e \in log : e.i = i /\ e.n = rows[i].v - 1}
    BY <1>1 DEF Telling
  <2> QED BY <2>1 DEF TypeInv, LogInv, Event
<1>2. CASE list.sends # "once"
  <2>1. Telling(i) = {[i |-> i, at |-> rows[i].at, n |-> 0]}
    BY <1>2 DEF Telling
  <2> QED BY <2>1, Numbers DEF KnownInv, Event
<1> QED BY <1>1, <1>2

LEMMA SameNews ==
    ASSUME UNCHANGED <<list, rows, log, owed>>
    PROVE  /\ \A i : Telling(i)' = Telling(i) /\ (Owed(i)' <=> Owed(i))
           /\ Live' <=> snap'.st = "done" \/ list.sends # "once"
  BY DEF Telling, Owed, Live

(* What a cursor taken from a list passes over. *)
LEMMA PassedFacts ==
    ASSUME TypeInv, KnownInv, LogInv, NEW v \in View, \A j \in Items : v[j].at <= now,
           NEW i \in Items, Lags(i), ~Owed(i)
    PROVE  i \notin Before(Latest(v)) <=> \E e \in Telling(i) : Fits(v, e.at)
<1>1. CursorOf(Latest(v), v) /\ Latest(v) \in Int /\ NoCursor <= Latest(v)
  BY LatestFacts DEF TypeInv
<1>2. i \in Outdated
  BY OutdatedFacts
<1>3. i \notin Before(Latest(v)) <=> \E e \in Telling(i) : ~(e.at < Latest(v))
  BY <1>2 DEF Before
<1>4. ASSUME NEW e \in Telling(i) PROVE ~(e.at < Latest(v)) <=> Fits(v, e.at)
  <2>1. e.at \in Nat
    BY TellingFacts
  <2>2. \A j \in Held(v) : v[j].at \in Nat
    BY DEF Held, View, Item
  <2>3. CASE Held(v) = {}
    BY <1>1, <2>1, <2>3 DEF CursorOf, Fits, NoCursor
  <2>4. CASE Held(v) # {}
    BY <1>1, <2>1, <2>2, <2>4 DEF CursorOf, Fits
  <2> QED BY <2>3, <2>4
<1> QED BY <1>3, <1>4

-----------------------------------------------------------------------------
(* Steps of the connection. *)

(* A connection that goes or begins.  What was on the wire as it is now     *)
(* stays due, unless the cursor has passed it.                              *)
Reopens ==
    /\ link' \in Link /\ link'.st # "open" /\ link'.seen = {} /\ link'.wire = <<>>
    /\ NoCursor <= link'.last /\ link'.last <= now
    /\ CursorOf(link'.last, view) \/ link'.last = NoCursor
    /\ list.needs = "board" /\ snap.st # "done" => link'.st = "off"
    /\ active' \in BOOLEAN /\ (~active' => link'.st = "off")
    /\ UNCHANGED <<list, rows, log, now, owed, snap, view, own, overlap>>
    /\ missed' \in [Items -> SUBSET Causes]
    /\ \A i \in Items : missed'[i] = {} /\ (Lags(i)' \/ LagsRead(i)') =>
         missed[i] = {} /\ ~(OnWire(i) /\ i \in Before(Latest(view)))

LEMMA ReopensStep == ASSUME Inv, Reopens PROVE Inv'
<1> USE DEF Reopens
<1>1. TypeInv'
  BY DEF Inv, TypeInv
<1>2. KnownInv'
  BY DEF Inv, KnownInv, Within, NoCursor
<1>3. WireInv'
  BY DEF Inv, WireInv
<1>4. LogInv'
  BY DEF Inv, LogInv, Past
<1>5. ItemInv'
  BY DEF Inv, ItemInv, Edited
<1>6. OwnInv'
  BY DEF Inv, OwnInv, Within, New, Alone
<1>7. OptInv'
  BY DEF Inv, OptInv, Plain
<1>8. \A i : Telling(i)' = Telling(i) /\ (Owed(i)' <=> Owed(i))
  BY SameNews
<1>9. DOMAIN link'.wire = {}
  BY EmptyWire
<1>10. DueInv'
  <2> SUFFICES ASSUME Live', NEW i \in Items, Lags(i)', ~Excused(i)'
               PROVE  Coming(i)'
    BY DEF DueInv
  <2>1. rows[i].on /\ view[i].v < rows[i].v /\ Live /\ Lags(i)
    BY <1>9 DEF Lags, Stale, Live
  <2>2. ~Owed(i) /\ missed[i] = {} /\ ~(OnWire(i) /\ i \in Before(Latest(view)))
    BY <1>8 DEF Excused
  <2>3. OnWire(i) \/ Coming(i)
    BY <2>1, <2>2 DEF Inv, DueInv, Excused
  <2>4. PICK e \in Telling(i) : Fits(view, e.at)
    <3>1. CASE Coming(i)
      BY <3>1 DEF Coming, Ahead
    <3>2. CASE OnWire(i)
      BY <2>1, <2>2, <3>2, PassedFacts DEF Inv, TypeInv, KnownInv, Within
    <3> QED BY <2>3, <3>1, <3>2
  <2>5. e.at \in Nat
    BY TellingFacts DEF Inv
  <2>6. link'.last <= e.at
    <3>1. CASE link'.last = NoCursor
      BY <2>5, <3>1 DEF NoCursor
    <3>2. CASE CursorOf(link'.last, view)
      BY <2>4, <2>5, <3>2 DEF CursorOf, Fits, NoCursor
    <3> QED BY <3>1, <3>2
  <2>7. Ahead(e)'
    BY <1>9, <2>4, <2>6 DEF Ahead, Unsent, Fits, WireFits, Held
  <2> QED BY <1>8, <2>7 DEF Coming
<1>11. ReadInv'
  <2> SUFFICES ASSUME NEW i \in Items, LagsRead(i)', ~Excused(i)'
               PROVE  \E e \in Telling(i)' : Fits(snap'.ans, e.at)
    BY DEF ReadInv, Fits, Held
  <2>1. LagsRead(i) /\ ~Owed(i) /\ missed[i] = {}
    BY <1>8 DEF LagsRead, Excused
  <2>2. PICK e \in Telling(i) : Fits(snap.ans, e.at)
    BY <2>1 DEF Inv, ReadInv, Excused
  <2> QED BY <1>8, <2>2 DEF Fits, Held
<1> QED BY <1>1, <1>2, <1>3, <1>4, <1>5, <1>6, <1>7, <1>10, <1>11 DEF Inv

(* The connection is cut: what it carried is on its way no more. *)
LEMMA CutFacts ==
    ASSUME Inv, Miss("cut", OnItsWay \cap Before(Latest(view)))
    PROVE  /\ missed' \in [Items -> SUBSET Causes]
           /\ \A i \in Items : missed'[i] = {} /\ (Lags(i)' \/ LagsRead(i)') =>
                missed[i] = {} /\ ~(OnWire(i) /\ i \in Before(Latest(view)))
<1> DEFINE s == OnItsWay \cap Before(Latest(view))
<1>1. \A i \in Items : OnWire(i) /\ i \in Before(Latest(view)) => i \in s
  BY DEF OnWire, OnItsWay
<1>2. Miss("cut", s) /\ "cut" \in Causes /\ TypeInv
  BY DEF Causes, Inv
<1> HIDE DEF s
<1> QED BY <1>1, <1>2, MissFacts

LEMMA DeactivateStep == ASSUME Inv, Deactivate PROVE Inv'
<1>1. link' = Off /\ active' = FALSE
  BY DEF Deactivate
<1>2. NoCursor <= now /\ NoCursor <= NoCursor
  BY DEF Inv, TypeInv, NoCursor
<1>3. Miss("cut", OnItsWay \cap Before(Latest(view)))
  BY DEF Deactivate
<1>4. UNCHANGED <<list, rows, log, now, owed, snap, view, own, overlap>>
  BY DEF Deactivate, server
<1>5. Reopens
  BY <1>1, <1>2, <1>3, <1>4, OffFacts, CutFacts DEF Reopens
<1> QED BY <1>5, ReopensStep

LEMMA ActivateStep == ASSUME Inv, Activate PROVE Inv'
<1> DEFINE l == Effect(TRUE, snap.st, view)
<1>1. view \in View /\ now \in Nat /\ \A i \in Items : view[i].at <= now
  BY DEF Inv, TypeInv, KnownInv, Within
<1>2. /\ l \in Link /\ l.st # "open" /\ l.seen = {} /\ l.wire = <<>>
      /\ NoCursor <= l.last /\ l.last <= now
      /\ CursorOf(l.last, view) \/ l.last = NoCursor
      /\ list.needs = "board" /\ snap.st # "done" => l.st = "off"
  <2>1. TRUE \in BOOLEAN
    OBVIOUS
  <2> QED BY <1>1, <2>1, EffectFacts, Zenon
<1>3. link' = l /\ active' = TRUE
      /\ UNCHANGED <<list, rows, log, now, owed, snap, view, own, missed, overlap>>
  BY DEF Activate, server
<1>4. link.wire = <<>> /\ DOMAIN link.wire = {}
  BY EmptyWire DEF Activate, Inv, WireInv
<1> HIDE DEF l
<1>6. \A i \in Items : missed'[i] = {} => missed[i] = {} /\ ~OnWire(i)
  BY <1>3, <1>4 DEF OnWire
<1>7. missed' \in [Items -> SUBSET Causes]
  BY <1>3 DEF Inv, TypeInv
<1>8. Reopens
  BY <1>2, <1>3, <1>6, <1>7 DEF Reopens
<1> QED BY <1>8, ReopensStep

LEMMA BreakStep == ASSUME Inv, NEW how, Break(how) PROVE Inv'
<1> DEFINE n == NextAttempt(link.attempt)
           s == IF Reconnects(how) THEN "wait" ELSE "ended"
<1>1. n \in 0..MaxAttempt
  BY DelayFacts DEF Inv, TypeInv, Link
<1>2. link' = [Off EXCEPT !.st = s, !.attempt = n]
  BY DEF Break
<1>3. s \in {"wait", "ended"}
  OBVIOUS
<1> HIDE DEF n, s
<1>4. /\ link' \in Link /\ link'.st = s /\ link'.seen = {} /\ link'.wire = <<>> /\ link'.last = NoCursor
  BY <1>1, <1>2, <1>3, OffFacts DEF Link
<1>5. Miss("cut", OnItsWay \cap Before(Latest(view)))
  BY DEF Break
<1>6. UNCHANGED <<list, rows, log, now, owed, snap, view, own, overlap, active>>
  BY DEF Break, server
<1>7. active /\ active \in BOOLEAN /\ (list.needs = "board" => snap.st = "done")
  BY DEF Inv, TypeInv, WireInv, Break
<1>8. NoCursor <= now /\ NoCursor <= NoCursor
  BY DEF Inv, TypeInv, NoCursor
<1>9. Reopens
  BY <1>3, <1>4, <1>5, <1>6, <1>7, <1>8, CutFacts DEF Reopens
<1> QED BY <1>9, ReopensStep

LEMMA ReconnectStep == ASSUME Inv, Reconnect PROVE Inv'
<1> DEFINE l == Connect(view, link.attempt)
<1>1. view \in View /\ now \in Nat /\ \A i \in Items : view[i].at <= now
  BY DEF Inv, TypeInv, KnownInv, Within
<1>2. Asks(l, view) /\ l.last <= now
  BY <1>1, ConnectFacts DEF Inv, TypeInv, Link
<1>3. link' = l /\ UNCHANGED <<list, rows, log, now, owed, snap, view, own, missed, overlap, active>>
  BY DEF Reconnect, server
<1>4. link.wire = <<>> /\ active /\ active \in BOOLEAN /\ (list.needs = "board" => snap.st = "done")
  BY DEF Inv, TypeInv, WireInv, Reconnect
<1>5. DOMAIN link.wire = {}
  BY <1>4, EmptyWire
<1> HIDE DEF l
<1>6. \A i \in Items : missed'[i] = {} => missed[i] = {} /\ ~OnWire(i)
  BY <1>3, <1>5 DEF OnWire
<1>7. missed' \in [Items -> SUBSET Causes]
  BY <1>3 DEF Inv, TypeInv
<1>8. Reopens
  BY <1>2, <1>3, <1>4, <1>6, <1>7 DEF Reopens, Asks
<1> QED BY <1>8, ReopensStep

(* What the page is about to load stays as due as it was. *)
LEMMA ReadStays ==
    ASSUME Inv, UNCHANGED <<list, rows, log, owed, snap>>,
           \A i \in Items : missed'[i] = {} /\ (Lags(i)' \/ LagsRead(i)') => missed[i] = {}
    PROVE  ReadInv'
<1>1. \A i : Telling(i)' = Telling(i) /\ (Owed(i)' <=> Owed(i))
  BY SameNews
<1> SUFFICES ASSUME NEW i \in Items, LagsRead(i)', ~Excused(i)'
             PROVE  \E e \in Telling(i)' : Fits(snap'.ans, e.at)
  BY DEF ReadInv, Fits, Held
<1>2. LagsRead(i) /\ ~Owed(i) /\ missed[i] = {}
  BY <1>1 DEF LagsRead, Excused
<1>3. PICK e \in Telling(i) : Fits(snap.ans, e.at)
  BY <1>2 DEF Inv, ReadInv, Excused
<1> QED BY <1>1, <1>3 DEF Fits, Held

(* The server takes the connection. *)
LEMMA AcceptStep == ASSUME Inv, Accept PROVE Inv'
<1> DEFINE c == IF link.last = NoCursor THEN now ELSE link.last
<1>1. /\ link.st = "asking" /\ link' = [link EXCEPT !.st = "open", !.last = c]
      /\ Miss("bare", IF link.last = NoCursor THEN Before(c) ELSE {})
      /\ UNCHANGED <<list, rows, log, now, owed, snap, active, view, own, overlap>>
  BY DEF Accept, server
<1>2. c \in Int /\ NoCursor <= c /\ c <= now
  BY Numbers DEF Inv, KnownInv, NoCursor
<1>3. link \in Link /\ link.wire = <<>> /\ link.seen = {}
  BY <1>1 DEF Inv, TypeInv, WireInv
<1>4. IF link.last = NoCursor THEN c = now ELSE c = link.last
  OBVIOUS
<1> HIDE DEF c
<1>5. /\ link' \in Link /\ link'.st = "open" /\ link'.last = c /\ link'.wire = <<>> /\ link'.seen = {}
  BY <1>1, <1>2, <1>3 DEF Link
<1>6. DOMAIN link.wire = {} /\ DOMAIN link'.wire = {}
  BY <1>3, <1>5, EmptyWire
<1>7. PICK s : s = IF link.last = NoCursor THEN Before(c) ELSE {}
  OBVIOUS
<1>8. /\ missed' \in [Items -> SUBSET Causes]
      /\ \A i \in Items : missed'[i] = {} /\ (Lags(i)' \/ LagsRead(i)') => missed[i] = {} /\ i \notin s
  <2>1. Miss("bare", s) /\ "bare" \in Causes /\ TypeInv
    BY <1>1, <1>7 DEF Causes, Inv
  <2> QED BY <2>1, MissFacts
<1>9. \A i : Telling(i)' = Telling(i) /\ (Owed(i)' <=> Owed(i))
  BY <1>1, SameNews
<1>10. TypeInv'
  BY <1>1, <1>5, <1>8 DEF Inv, TypeInv
<1>20. KnownInv'
  BY <1>1, <1>2, <1>5 DEF Inv, KnownInv, Within, NoCursor
<1>30. WireInv'
  BY <1>1, <1>5, <1>6 DEF Inv, WireInv
<1>40. LogInv'
  BY <1>1, <1>5 DEF Inv, LogInv, Past
<1>50. ItemInv'
  BY <1>1 DEF Inv, ItemInv, Edited
<1>60. OwnInv'
  BY <1>1 DEF Inv, OwnInv, Within, New, Alone
<1>70. OptInv'
  BY <1>1 DEF Inv, OptInv, Plain
<1>80. DueInv'
  <2> SUFFICES ASSUME Live', NEW i \in Items, Lags(i)', ~Excused(i)'
               PROVE  Coming(i)'
    BY DEF DueInv
  <2>1. rows[i].on /\ view[i].v < rows[i].v /\ Live /\ Lags(i)
    BY <1>1, <1>6 DEF Lags, Stale, Live
  <2>2. ~Owed(i) /\ missed[i] = {} /\ i \notin s
    BY <1>8, <1>9 DEF Excused
  <2>3. Coming(i)
    BY <1>6, <2>1, <2>2 DEF Inv, DueInv, Excused, OnWire
  <2>4. PICK e \in Telling(i) : c <= e.at /\ Fits(view, e.at)
    <3>1. CASE link.last # NoCursor
      BY <1>4, <2>3, <3>1 DEF Coming, Ahead
    <3>2. CASE link.last = NoCursor
      <4>1. i \notin Before(c) /\ i \in Outdated /\ c = now
        BY <1>4, <1>7, <2>1, <2>2, <3>2, OutdatedFacts
      <4>2. PICK e \in Telling(i) : ~(e.at < now)
        BY <2>2, <4>1 DEF Before
      <4>3. e.at = now
        BY <4>2, TellingFacts, Numbers DEF Inv
      <4>4. \A j \in Held(view) : view[j].at <= now
        BY DEF Inv, KnownInv, Within, Held
      <4> QED BY <1>2, <4>1, <4>3, <4>4, Numbers DEF Fits, Inv
    <3> QED BY <3>1, <3>2
  <2>5. Ahead(e)'
    BY <1>1, <1>5, <1>6, <2>4 DEF Ahead, Unsent, Fits, WireFits, Held
  <2> QED BY <1>9, <2>5 DEF Coming
<1>90. ReadInv'
  BY <1>1, <1>8, ReadStays
<1> QED BY <1>10, <1>20, <1>30, <1>40, <1>50, <1>60, <1>70, <1>80, <1>90 DEF Inv

LEMMA PingStep == ASSUME Inv, Ping PROVE Inv'
<1>1. /\ link' = [link EXCEPT !.attempt = 0]
      /\ UNCHANGED <<list, rows, log, now, owed, snap, active, view, own, missed, overlap>>
  BY DEF Ping, server
<1>2. link \in Link /\ 0 \in 0..MaxAttempt
  BY DEF Inv, TypeInv, MaxAttempt
<1>3. /\ link' \in Link /\ link'.st = link.st /\ link'.last = link.last /\ link'.wire = link.wire
      /\ link'.seen = link.seen
  BY <1>1, <1>2 DEF Link
<1>4. \A i : Telling(i)' = Telling(i) /\ (Owed(i)' <=> Owed(i))
  BY <1>1, SameNews
<1>10. TypeInv'
  BY <1>1, <1>3 DEF Inv, TypeInv
<1>20. KnownInv'
  BY <1>1, <1>3 DEF Inv, KnownInv, Within
<1>30. WireInv'
  BY <1>1, <1>3 DEF Inv, WireInv
<1>40. LogInv'
  BY <1>1, <1>3 DEF Inv, LogInv, Past
<1>50. ItemInv'
  BY <1>1 DEF Inv, ItemInv, Edited
<1>60. OwnInv'
  BY <1>1 DEF Inv, OwnInv, Within, New, Alone
<1>70. OptInv'
  BY <1>1 DEF Inv, OptInv, Plain
<1>80. DueInv'
  <2> SUFFICES ASSUME Live', NEW i \in Items, Lags(i)', ~Excused(i)'
               PROVE  OnWire(i)' \/ Coming(i)'
    BY DEF DueInv
  <2>1. Live /\ Lags(i) /\ ~Excused(i)
    BY <1>1, <1>3, <1>4 DEF Live, Lags, Stale, Excused
  <2>2. OnWire(i) => OnWire(i)'
    BY <1>1, <1>3 DEF OnWire
  <2>3. \A e \in Telling(i) : Ahead(e) => Ahead(e)'
    BY <1>1, <1>3 DEF Ahead, Unsent, Fits, WireFits, Held
  <2> QED BY <1>4, <2>1, <2>2, <2>3 DEF Inv, DueInv, Coming
<1>90. ReadInv'
  BY <1>1, ReadStays
<1> QED BY <1>10, <1>20, <1>30, <1>40, <1>50, <1>60, <1>70, <1>80, <1>90 DEF Inv

(* What is coming is selected. *)
LEMMA ComingFacts ==
    ASSUME TypeInv, NEW i \in Items, rows[i].on, Coming(i)
    PROVE  \E e \in Selected : e.i = i
<1>1. PICK d \in Telling(i) : Ahead(d)
  BY DEF Coming
<1>2. CASE list.sends = "once"
  <2>1. d \in log /\ d.i = i
    BY <1>1, <1>2 DEF Telling
  <2>2. d.at \in Int /\ d.at >= link.last
    BY <1>1, <2>1, Numbers DEF Ahead, TypeInv, Event
  <2>3. d \in Selected
    BY <1>1, <1>2, <2>1, <2>2, SelectedFacts DEF Ahead, Unsent
  <2> QED BY <2>1, <2>3
<1>3. CASE list.sends # "once"
  <2>1. d.at = rows[i].at
    BY <1>1, <1>3 DEF Telling
  <2>2. rows[i].at >= link.last
    BY <1>1, <2>1, Numbers DEF Ahead
  <2> QED BY <1>3, <2>2, SelectedFacts
<1> QED BY <1>2, <1>3

(* A round of the generator: every selected item goes on the wire as it is. *)
LEMMA PollStep == ASSUME Inv, Poll PROVE Inv'
<1> DEFINE S == {link.last} \cup {e.at : e \in Selected}
           c == Max(S)
           q == IF list.sends = "once" THEN link.seen \cup {<<e.i, e.n>> : e \in Selected} ELSE link.seen
<1>1. PICK b \in Batches :
        link' = [link EXCEPT !.wire = [n \in DOMAIN b |-> Payload(b[n])], !.last = c, !.seen = q]
  BY DEF Poll
<1>2. PICK w : w = [n \in DOMAIN b |-> Payload(b[n])]
  OBVIOUS
<1>3. /\ link.st = "open" /\ link.wire = <<>> /\ DOMAIN link.wire = {}
      /\ UNCHANGED <<list, rows, log, now, snap, active, view, own, missed, overlap, owed>>
  BY EmptyWire DEF Poll, server
<1>4. TypeInv /\ link \in Link
  BY DEF Inv, TypeInv
<1>5. \A e \in Selected : e \in Event /\ e.i \in Items /\ e.n \in Nat /\ e.at \in Nat /\ rows[e.i].on /\ e.at >= link.last
  BY <1>4, SelectedFacts DEF Event
<1>6. \A e \in Selected : e.at <= now
  <2>1. CASE list.sends = "once"
    BY <1>4, <2>1, SelectedFacts DEF Inv, LogInv
  <2>2. CASE list.sends # "once"
    BY <1>4, <1>5, <2>2, SelectedFacts DEF Inv, KnownInv
  <2> QED BY <2>1, <2>2
<1>7. S \in SUBSET (-1..now) /\ S # {}
  BY <1>5, <1>6, Numbers DEF Inv, KnownInv, NoCursor
<1>8. c \in S /\ \A y \in S : y <= c
  <2>1. now \in Int
    BY DEF Inv, TypeInv
  <2> HIDE DEF S
  <2> QED BY <1>7, <2>1, MaxFacts, Zenon
<1>9. c \in Int /\ link.last <= c /\ c <= now /\ NoCursor <= c /\ \A e \in Selected : e.at <= c
  BY <1>5, <1>6, <1>8, Numbers DEF Inv, KnownInv, NoCursor
<1>11. /\ w \in Seq(Packet)
       /\ \A n \in DOMAIN w : \E e \in Selected : w[n] = Payload(e)
       /\ \A e \in Selected : \E n \in DOMAIN w : w[n] = Payload(e)
  BY <1>2, <1>4, BatchFacts, Zenon
<1>12. q \in SUBSET (Items \X Nat) /\ link.seen \subseteq q
       /\ \A x \in q : x \in link.seen \/ (list.sends = "once" /\ \E e \in Selected : x = <<e.i, e.n>>)
  BY <1>4, <1>5 DEF Link
<1> HIDE DEF S, c, q
<1>13. /\ link' \in Link /\ link'.st = "open" /\ link'.last = c /\ link'.wire = w /\ link'.seen = q
  BY <1>1, <1>2, <1>3, <1>4, <1>9, <1>11, <1>12 DEF Link
<1>14. \A n \in DOMAIN w : /\ w[n] \in Packet /\ w[n].i \in Items /\ w[n].v = rows[w[n].i].v
                           /\ w[n].at = rows[w[n].i].at /\ rows[w[n].i].on
  <2> SUFFICES ASSUME NEW n \in DOMAIN w
               PROVE  /\ w[n] \in Packet /\ w[n].i \in Items /\ w[n].v = rows[w[n].i].v
                      /\ w[n].at = rows[w[n].i].at /\ rows[w[n].i].on
    OBVIOUS
  <2>1. PICK e \in Selected : w[n] = Payload(e)
    BY <1>11
  <2>2. w[n].i = e.i /\ w[n].v = rows[e.i].v /\ w[n].at = rows[e.i].at
    BY <2>1 DEF Payload
  <2>3. w[n] \in Packet
    BY <1>11
  <2> QED BY <1>5, <2>2, <2>3
<1>15. \A i \in Items : ~Stale(i)'
  BY <1>3, <1>13, <1>14, Numbers DEF Stale, Inv
<1>16. \A i : Telling(i)' = Telling(i) /\ (Owed(i)' <=> Owed(i))
  BY <1>3, SameNews
<1>10. TypeInv'
  BY <1>3, <1>13 DEF Inv, TypeInv
<1>20. KnownInv'
  BY <1>3, <1>9, <1>13 DEF Inv, KnownInv, Within, NoCursor
<1>30. WireInv'
  <2>1. \A n \in DOMAIN w : w[n].v > 0 /\ w[n].v <= rows[w[n].i].v /\ w[n].at <= now
    BY <1>14, Numbers DEF Inv, KnownInv
  <2>2. \A m, n \in DOMAIN w : w[m].i = w[n].i => w[m].v = w[n].v
    BY <1>14
  <2> QED BY <1>3, <1>13, <2>1, <2>2 DEF Inv, WireInv
<1>40. LogInv'
  <2>1. ASSUME NEW x \in q PROVE Past(x[1], x[2]) /\ \A e \in owed : <<e.i, e.n>> # x
    <3>1. CASE x \in link.seen
      BY <3>1 DEF Inv, LogInv
    <3>2. CASE x \notin link.seen
      <4>1. PICK e \in Selected : list.sends = "once" /\ x = <<e.i, e.n>>
        BY <1>12, <3>2
      <4>2. e \in log
        BY <1>4, <4>1, SelectedFacts
      <4> QED BY <4>1, <4>2 DEF Inv, LogInv
    <3> QED BY <3>1, <3>2
  <2> QED BY <1>3, <1>13, <2>1 DEF Inv, LogInv, Past
<1>50. ItemInv'
  BY <1>3 DEF Inv, ItemInv, Edited
<1>60. OwnInv'
  BY <1>3 DEF Inv, OwnInv, Within, New, Alone
<1>70. OptInv'
  BY <1>3 DEF Inv, OptInv, Plain
<1>80. DueInv'
  <2> SUFFICES ASSUME Live', NEW i \in Items, Lags(i)', ~Excused(i)'
               PROVE  OnWire(i)'
    BY DEF DueInv
  <2>1. Live /\ Lags(i) /\ ~Excused(i) /\ rows[i].on
    BY <1>3, <1>15, <1>16 DEF Live, Lags, Excused
  <2>2. Coming(i)
    BY <1>3, <2>1 DEF Inv, DueInv, OnWire
  <2>3. PICK e \in Selected : e.i = i
    BY <1>4, <2>1, <2>2, ComingFacts
  <2>4. PICK n \in DOMAIN w : w[n] = Payload(e)
    BY <1>11
  <2>5. w[n].i = i /\ w[n].v = rows[i].v
    BY <2>3, <2>4 DEF Payload
  <2> QED BY <1>3, <1>13, <2>4, <2>5 DEF OnWire
<1>90. ReadInv'
  BY <1>3, ReadStays
<1> QED BY <1>10, <1>20, <1>30, <1>40, <1>50, <1>60, <1>70, <1>80, <1>90 DEF Inv

(* One event is taken: either the list has it already and keeps it, or the  *)
(* item becomes what the event says.                                        *)
Merged(v, p, new) ==
    /\ new \in View /\ \A j \in Items : j # p.i => new[j] = v[j]
    /\ \/ new[p.i] = v[p.i] /\ v[p.i].v > 0 /\ list.keeps = "first"
       \/ new[p.i].v = p.v /\ new[p.i].at = p.at /\ ~new[p.i].opt

LEMMA MergeFacts ==
    ASSUME NEW v \in View, NEW p \in Packet PROVE Merged(v, p, Merge(v, p))
<1>1. CASE list.keeps = "first" /\ v[p.i].v > 0
  BY <1>1 DEF Merge, Merged, View
<1>2. CASE ~(list.keeps = "first" /\ v[p.i].v > 0)
  <2> DEFINE x == [v |-> p.v, at |-> p.at, opt |-> FALSE]
  <2>1. x \in Item /\ x.v = p.v /\ x.at = p.at /\ ~x.opt /\ p.i \in Items
    BY DEF Item, Packet
  <2>2. Merge(v, p) = [v EXCEPT ![p.i] = x]
    BY <1>2 DEF Merge
  <2> HIDE DEF x
  <2> QED BY <2>1, <2>2 DEF Merged, View
<1> QED BY <1>1, <1>2

(* What a delivery leaves: the rest of the wire, and the event merged. *)
Delivers(p) ==
    /\ 1 \in DOMAIN link.wire /\ link.wire[1] = p /\ Merged(view, p, view')
    /\ link' \in Link /\ link'.st = "open" /\ link'.last = link.last /\ link'.seen = link.seen
    /\ \A n \in DOMAIN link'.wire :
         \E m \in DOMAIN link.wire : link'.wire[n] = link.wire[m]
    /\ \A m \in DOMAIN link.wire :
         m = 1 \/ \E n \in DOMAIN link'.wire : link'.wire[n] = link.wire[m]

LEMMA DeliverFacts == ASSUME Inv, Deliver PROVE \E p \in Packet : Delivers(p)
<1>1. link \in Link /\ link.wire \in Seq(Packet) /\ link.wire # <<>> /\ link.st = "open"
  BY DEF Inv, TypeInv, Link, Deliver
<1>2. PICK s : s = link.wire
  OBVIOUS
<1>3. s \in Seq(Packet) /\ s # <<>>
  BY <1>1, <1>2
<1>4. /\ 1 \in DOMAIN s /\ Head(s) = s[1] /\ s[1] \in Packet /\ Tail(s) \in Seq(Packet)
      /\ \A n \in DOMAIN Tail(s) : n + 1 \in DOMAIN s /\ Tail(s)[n] = s[n + 1]
      /\ \A m \in DOMAIN s : m = 1 \/ (m - 1 \in DOMAIN Tail(s) /\ Tail(s)[m - 1] = s[m])
  BY <1>3
<1>5. PICK t \in Seq(Packet) : t = Tail(s)
  BY <1>4
<1>6. /\ link' \in Link /\ link'.st = "open" /\ link'.last = link.last /\ link'.seen = link.seen
      /\ link'.wire = t
  <2>1. link' = [link EXCEPT !.wire = t, !.attempt = 0] /\ 0 \in 0..MaxAttempt
    BY <1>2, <1>5 DEF Deliver, MaxAttempt
  <2> QED BY <1>1, <2>1 DEF Link
<1>7. view' = Merge(view, s[1])
  BY <1>2, <1>4 DEF Deliver
<1>8. Merged(view, s[1], view')
  BY <1>4, <1>7, MergeFacts DEF Inv, TypeInv
<1>9. /\ \A n \in DOMAIN t : \E m \in DOMAIN s : t[n] = s[m]
      /\ \A m \in DOMAIN s : m = 1 \/ \E n \in DOMAIN t : t[n] = s[m]
  BY <1>4, <1>5, Zenon
<1>10. PICK p \in Packet : p = s[1]
  BY <1>4
<1>11. Delivers(p)
  BY <1>2, <1>4, <1>6, <1>8, <1>9, <1>10, Zenon DEF Delivers
<1> QED BY <1>11

LEMMA DeliverStep == ASSUME Inv, Deliver PROVE Inv'
<1>1. PICK p \in Packet : Delivers(p)
  BY DeliverFacts
<1> USE DEF Delivers
<1>2. /\ link.st = "open" /\ Because(missed)
      /\ UNCHANGED <<list, rows, log, now, owed, snap, active, own, overlap>>
  BY DEF Deliver, server
<1>3. p.i \in Items /\ p.v \in Nat /\ p.at \in Nat /\ p.v > 0 /\ p.v <= rows[p.i].v /\ p.at <= now
  BY <1>1 DEF Packet, Inv, WireInv
<1>4. view' \in View /\ \A j \in Items : j # p.i => view'[j] = view[j]
  BY <1>1 DEF Merged
<1>5. \/ view'[p.i] = view[p.i] /\ view[p.i].v > 0 /\ rows[p.i].v <= 1
      \/ view'[p.i].v = p.v /\ view'[p.i].at = p.at /\ ~view'[p.i].opt
  BY <1>1, <1>3, ListFacts DEF Merged, Inv, TypeInv, ItemInv
<1>6. /\ missed' \in [Items -> SUBSET Causes]
      /\ \A i \in Items : Lags(i)' \/ LagsRead(i)' => missed'[i] = missed[i]
  BY <1>2, MarksFacts DEF Inv, TypeInv
<1>7. \A i : Telling(i)' = Telling(i) /\ (Owed(i)' <=> Owed(i))
  BY <1>2, SameNews
<1>10. TypeInv'
  BY <1>1, <1>2, <1>4, <1>6 DEF Inv, TypeInv
<1>20. KnownInv'
  <2>1. \A j \in Items : view'[j].v <= rows[j].v /\ view'[j].at <= now
    BY <1>3, <1>4, <1>5 DEF Inv, KnownInv, Within
  <2> QED BY <1>1, <1>2, <2>1 DEF Inv, KnownInv, Within
<1>30. WireInv'
  BY <1>1, <1>2 DEF Inv, WireInv
<1>40. LogInv'
  BY <1>1, <1>2 DEF Inv, LogInv, Past
<1>50. ItemInv'
  BY <1>2 DEF Inv, ItemInv, Edited
<1>60. OwnInv'
  BY <1>2 DEF Inv, OwnInv, Within, New, Alone
<1>70. OptInv'
  <2>1. \A j \in Items : view'[j].opt => view[j].opt /\ view'[j] = view[j]
    BY <1>4, <1>5
  <2> QED BY <1>2, <2>1 DEF Inv, OptInv, Plain
<1>80. DueInv'
  <2> SUFFICES ASSUME Live', NEW i \in Items, Lags(i)', ~Excused(i)'
               PROVE  OnWire(i)' \/ Coming(i)'
    BY DEF DueInv
  <2>1. Live /\ ~Excused(i) /\ rows[i].on
    BY <1>2, <1>6, <1>7 DEF Live, Lags, Excused
  <2>2. Stale(i)' => Stale(i)
    BY <1>1, <1>2 DEF Stale
  <2>3. ASSUME i = p.i PROVE Stale(i) /\ ~OnWire(i)
    <3>1. ASSUME NEW n \in DOMAIN link.wire, link.wire[n].i = i PROVE link.wire[n].v = p.v
      BY <1>1, <2>3, <3>1 DEF Inv, WireInv
    <3>2. view'[i].v < rows[i].v \/ Stale(i)
      BY <1>2, <2>2 DEF Lags
    <3>3. p.v < rows[i].v
      <4>1. CASE Stale(i)
        BY <3>1, <4>1 DEF Stale
      <4>2. CASE view'[i].v < rows[i].v
        BY <1>3, <1>5, <2>3, <4>2, Numbers DEF Inv
      <4> QED BY <3>2, <4>1, <4>2
    <3> QED BY <1>1, <1>3, <2>3, <3>1, <3>3, Numbers DEF Stale, OnWire, Inv
  <2>4. Lags(i)
    BY <1>2, <1>4, <2>1, <2>2, <2>3 DEF Lags
  <2>5. OnWire(i) \/ Coming(i)
    BY <2>1, <2>4 DEF Inv, DueInv
  <2>6. ASSUME i # p.i, OnWire(i) PROVE OnWire(i)'
    BY <1>1, <1>2, <2>6 DEF OnWire
  <2>7. ASSUME NEW e \in Telling(i), Ahead(e) PROVE Ahead(e)'
    <3>1. p.at <= e.at
      BY <1>1, <2>7 DEF Ahead, WireFits
    <3>2. Fits(view', e.at)
      BY <1>4, <1>5, <2>7, <3>1 DEF Ahead, Fits, Held
    <3>3. WireFits(e.at)'
      BY <1>1, <2>7 DEF Ahead, WireFits
    <3> QED BY <1>1, <1>2, <2>7, <3>2, <3>3 DEF Ahead, Unsent, Fits, Held
  <2> QED BY <1>7, <2>3, <2>5, <2>6, <2>7 DEF Coming
<1>90. ReadInv'
  BY <1>2, <1>6, ReadStays
<1> QED BY <1>10, <1>20, <1>30, <1>40, <1>50, <1>60, <1>70, <1>80, <1>90 DEF Inv

-----------------------------------------------------------------------------
(* Steps of the server. *)

(* Of the invariant, what is not about the requests of the page. *)
StreamInv == KnownInv /\ WireInv /\ LogInv /\ ItemInv /\ DueInv /\ ReadInv
Frame == UNCHANGED <<list, snap, active, link, view, overlap>>

(* A stamp of now or later is ahead of every cursor. *)
LEMMA NowFits ==
    ASSUME Inv, NEW t \in Int, now <= t
    PROVE  link.last <= t /\ Fits(view, t) /\ Fits(snap.ans, t) /\ WireFits(t)
<1>1. link.last <= t
  BY Numbers DEF Inv, KnownInv
<1>2. Fits(view, t) /\ Fits(snap.ans, t)
  BY Numbers DEF Inv, KnownInv, Within, Fits, Held
<1>3. WireFits(t)
  <2> SUFFICES ASSUME NEW n \in DOMAIN link.wire PROVE link.wire[n].at <= t
    BY DEF WireFits
  <2>1. link.wire[n] \in Packet
    BY DEF Inv, TypeInv, Link
  <2> QED BY <2>1, Numbers DEF Inv, WireInv, Packet
<1> QED BY <1>1, <1>2, <1>3

(* An item is created or changed. *)
Written(i, t, how) ==
    /\ how \in {"told", "lost"} \/ (how = "owed" /\ list.sends = "once")
    /\ t \in Nat /\ now' \in Nat /\ now <= now' /\ t <= now'
    /\ rows[i].on => rows[i].born <= t
    /\ (rows[i].on /\ Edited) \/ rows[i].v = 0
    /\ Writes(i, t, how) /\ Announced(i, t, how) /\ Frame

(* The news of it, and of the others. *)
LEMMA WrittenFacts ==
    ASSUME Inv, NEW i \in Items, NEW t, NEW how, Written(i, t, how)
    PROVE  /\ Stamps(rows', i, t) /\ LogInv'
           /\ log' \in SUBSET Event /\ IsFiniteSet(log') /\ owed' \in SUBSET Event
           /\ how = "owed" => Owed(i)'
           /\ how = "told" => \E e \in Telling(i)' : e.at = t /\ Unsent(e)'
           /\ \A j \in Items : j # i => Telling(j)' = Telling(j) /\ (Owed(j)' <=> Owed(j))
<1>1. /\ t \in Nat /\ now' \in Nat /\ now <= now' /\ t <= now' /\ UNCHANGED <<list, link>>
  BY DEF Written, Frame
<1>2. Stamps(rows', i, t)
  BY <1>1, StampFacts DEF Written, Writes, Inv
<1>3. PICK d : d = [i |-> i, at |-> t, n |-> rows[i].v]
  OBVIOUS
<1>4. d \in Event /\ d.i = i /\ d.at = t /\ d.n = rows[i].v /\ rows[i].v \in Nat
  BY <1>1, <1>3, Numbers DEF Event, Inv
<1>5. /\ log'  = IF how = "told" /\ list.sends = "once" THEN log \cup {d} ELSE log
      /\ owed' = IF how = "owed" THEN owed \cup {d} ELSE owed
      /\ how = "owed" => list.sends = "once"
  BY <1>3 DEF Written, Writes
<1>6. /\ \A j \in Items : j # i => rows'[j] = rows[j]
      /\ rows'[i].v = rows[i].v + 1 /\ rows'[i].at = t
  BY <1>2 DEF Stamps
<1>7. log' \in SUBSET Event /\ IsFiniteSet(log') /\ owed' \in SUBSET Event
  BY <1>4, <1>5, FS_AddElement DEF Inv, TypeInv
<1>8. \A j \in Items, n \in Nat : Past(j, n) => Past(j, n)' /\ ~(j = i /\ n = d.n)
  BY <1>4, <1>6, Numbers DEF Past, Inv
<1>9. Past(d.i, d.n)'
  BY <1>4, <1>6 DEF Past
<1>10. /\ \A e \in log \cup owed : e.i \in Items /\ e.n \in Nat /\ e.at \in Nat /\ Past(e.i, e.n)
       /\ \A e \in log : e.at <= now
       /\ \A x \in link.seen : x[1] \in Items /\ x[2] \in Nat /\ Past(x[1], x[2])
  BY DEF Inv, TypeInv, LogInv, Event, Link
<1>11. /\ \A e \in log' \cup owed' : e = d \/ (e \in log \cup owed /\ ~(e.i = i /\ e.n = d.n))
       /\ \A x \in link.seen : ~(x[1] = i /\ x[2] = d.n)
  BY <1>5, <1>8, <1>10
<1>12. LogInv'
  <2>1. \A e \in log' : e.at <= now' /\ Past(e.i, e.n)'
    <3> SUFFICES ASSUME NEW e \in log' PROVE e.at <= now' /\ Past(e.i, e.n)'
      OBVIOUS
    <3>1. CASE e = d
      BY <1>1, <1>4, <1>9, <3>1
    <3>2. CASE e \in log
      BY <1>1, <1>8, <1>10, <3>2, Numbers DEF Inv
    <3> QED BY <1>5, <3>1, <3>2
  <2>2. \A x \in link'.seen : Past(x[1], x[2])'
    BY <1>1, <1>8, <1>10
  <2>3. \A c, e \in log' : c.i = e.i /\ c.n = e.n => c = e
    BY <1>4, <1>5, <1>11 DEF Inv, LogInv
  <2>4. \A c, e \in owed' : c.i = e.i /\ c.n = e.n => c = e
    BY <1>4, <1>5, <1>11 DEF Inv, LogInv
  <2>5. \A c \in owed', e \in log' : ~(c.i = e.i /\ c.n = e.n)
    <3>1. ~(d \in owed' /\ d \in log')
      BY <1>4, <1>5, <1>8, <1>10
    <3> QED BY <1>4, <1>5, <1>11, <3>1 DEF Inv, LogInv
  <2>6. \A e \in owed' : Past(e.i, e.n)' /\ <<e.i, e.n>> \notin link'.seen
    <3> SUFFICES ASSUME NEW e \in owed' PROVE Past(e.i, e.n)' /\ <<e.i, e.n>> \notin link.seen
      BY <1>1
    <3>1. CASE e = d
      BY <1>4, <1>9, <1>11, <3>1
    <3>2. CASE e \in owed
      BY <1>8, <1>10, <3>2 DEF Inv, LogInv
    <3> QED BY <1>5, <3>1, <3>2
  <2>7. list'.sends # "once" => owed' = {}
    BY <1>1, <1>5 DEF Inv, LogInv
  <2> QED BY <2>1, <2>2, <2>3, <2>4, <2>5, <2>6, <2>7 DEF LogInv
<1>13. how = "owed" => Owed(i)'
  BY <1>4, <1>5, <1>6 DEF Owed
<1>14. ASSUME how = "told" PROVE \E e \in Telling(i)' : e.at = t /\ Unsent(e)'
  <2>1. CASE list.sends = "once"
    <3>1. Telling(i)' = {e \in log' : e.i = i /\ e.n = rows'[i].v - 1}
      BY <1>1, <2>1 DEF Telling
    <3>2. d \in Telling(i)'
      BY <1>4, <1>5, <1>6, <1>14, <2>1, <3>1
    <3> QED BY <1>1, <1>4, <1>11, <3>2 DEF Unsent
  <2>2. CASE list.sends # "once"
    <3>1. Telling(i)' = {[i |-> i, at |-> rows'[i].at, n |-> 0]}
      BY <1>1, <2>2 DEF Telling
    <3> QED BY <1>1, <1>6, <2>2, <3>1 DEF Unsent
  <2> QED BY <2>1, <2>2
<1>15. ASSUME NEW j \in Items, j # i PROVE Telling(j)' = Telling(j) /\ (Owed(j)' <=> Owed(j))
  BY <1>1, <1>4, <1>5, <1>6, <1>15 DEF Telling, Owed
<1> QED BY <1>2, <1>7, <1>12, <1>13, <1>14, <1>15

(* It is marked, or its event is owed, or is ahead of every cursor. *)
LEMMA WritesStep ==
    ASSUME Inv, NEW i \in Items, NEW t, NEW how, Written(i, t, how)
    PROVE  StreamInv' /\ missed' \in [Items -> SUBSET Causes]
<1>1. /\ t \in Nat /\ now' \in Nat /\ now <= now' /\ t <= now'
      /\ UNCHANGED <<list, snap, active, link, view, overlap>>
      /\ rows[i].on => rows[i].born <= t
      /\ (rows[i].on /\ Edited) \/ rows[i].v = 0
      /\ how \in {"told", "lost", "owed"}
  BY DEF Written, Frame
<1>2. /\ Stamps(rows', i, t) /\ LogInv'
      /\ how = "owed" => Owed(i)'
      /\ how = "told" => \E e \in Telling(i)' : e.at = t /\ Unsent(e)'
      /\ \A j \in Items : j # i => Telling(j)' = Telling(j) /\ (Owed(j)' <=> Owed(j))
  BY WrittenFacts
<1>3. /\ \A j \in Items : j # i => rows'[j] = rows[j]
      /\ rows'[i].v = rows[i].v + 1 /\ rows'[i].at = t /\ rows'[i].on /\ rows'[i].born <= t
  BY <1>1, <1>2 DEF Stamps
<1>4. PICK m \in [Items -> SUBSET Causes] :
        /\ Because(m) /\ \A j \in Items : j # i => m[j] = missed[j]
        /\ m[i] = {} => how # "lost" /\ ~(how = "told" /\ t < now)
  <2> DEFINE x == IF how = "lost" THEN missed[i] \cup {"quiet"}
                  ELSE IF how = "told" /\ t < now THEN missed[i] \cup {"late"} ELSE {}
  <2>1. missed \in [Items -> SUBSET Causes]
    BY DEF Inv, TypeInv
  <2>2. Announced(i, t, how)
    BY DEF Written
  <2>3. Because([missed EXCEPT ![i] = x])
    BY <2>1, <2>2 DEF Announced
  <2>4. x \in SUBSET Causes /\ (x = {} => how # "lost" /\ ~(how = "told" /\ t < now))
    BY <2>1 DEF Causes
  <2> HIDE DEF x
  <2>5. PICK y : y = [missed EXCEPT ![i] = x]
    OBVIOUS
  <2>6. y \in [Items -> SUBSET Causes] /\ y[i] = x /\ \A j \in Items : j # i => y[j] = missed[j]
    BY <2>1, <2>4, <2>5
  <2>7. Because(y)
    BY <2>3, <2>5
  <2> QED BY <2>4, <2>6, <2>7
<1>5. /\ missed' \in [Items -> SUBSET Causes]
      /\ \A j \in Items : Lags(j)' \/ LagsRead(j)' => missed'[j] = m[j]
  BY <1>4, MarksFacts
<1>6. \A j \in Items : rows'[j] \in Row /\ rows[j].v <= rows'[j].v
  BY <1>2, <1>3, Numbers DEF Stamps, Inv
<1>20. KnownInv'
  <2>1. ASSUME NEW j \in Items
        PROVE  rows'[j].born <= rows'[j].at /\ rows'[j].at <= now' /\ (rows'[j].on => rows'[j].v > 0)
    BY <1>1, <1>3, Numbers DEF Inv, KnownInv
  <2>2. Within(view)' /\ Within(snap.ans)'
    BY <1>1, <1>6, Numbers DEF Inv, KnownInv, Within, Row
  <2>3. NoCursor <= link'.last /\ link'.last <= now'
    BY <1>1, Numbers DEF Inv, KnownInv
  <2> QED BY <2>1, <2>2, <2>3 DEF KnownInv
<1>30. WireInv'
  <2>1. ASSUME NEW n \in DOMAIN link.wire
        PROVE  LET p == link.wire[n] IN p.v > 0 /\ p.v <= rows'[p.i].v /\ p.at <= now'
    <3>1. PICK p \in Packet : p = link.wire[n]
      BY DEF Inv, TypeInv, Link
    <3>2. p.i \in Items /\ p.v \in Nat /\ p.at \in Nat
      BY DEF Packet
    <3>3. p.v > 0 /\ p.v <= rows[p.i].v /\ p.at <= now
      BY <3>1 DEF Inv, WireInv
    <3>4. rows'[p.i].v \in Nat /\ rows[p.i].v <= rows'[p.i].v /\ rows[p.i].v \in Nat
      BY <1>6, <3>2, Numbers DEF Row, Inv
    <3> QED BY <1>1, <3>1, <3>2, <3>3, <3>4, Numbers DEF Inv
  <2> QED BY <1>1, <2>1 DEF Inv, WireInv
<1>50. ItemInv'
  BY <1>1, <1>3, Numbers DEF Inv, ItemInv, Edited
<1>60. DueInv'
  <2> SUFFICES ASSUME Live', NEW j \in Items, Lags(j)', ~Excused(j)'
               PROVE  OnWire(j)' \/ Coming(j)'
    BY DEF DueInv
  <2>1. CASE j = i
    <3>1. how = "told" /\ now <= t
      BY <1>1, <1>2, <1>4, <1>5, <2>1, Numbers DEF Excused, Inv
    <3>2. PICK e \in Telling(i)' : e.at = t /\ Unsent(e)'
      BY <1>2, <3>1
    <3>3. link.last <= t /\ Fits(view, t) /\ WireFits(t)
      BY <1>1, <3>1, NowFits
    <3>4. Ahead(e)'
      BY <1>1, <3>2, <3>3 DEF Ahead, Fits, WireFits, Held
    <3> QED BY <2>1, <3>4 DEF Coming
  <2>2. CASE j # i
    <3>1. Live /\ Lags(j) /\ ~Excused(j)
      BY <1>1, <1>2, <1>3, <1>4, <1>5, <2>2 DEF Live, Lags, Stale, Excused
    <3>2. OnWire(j) => OnWire(j)'
      BY <1>1, <1>3, <2>2 DEF OnWire
    <3>3. \A e \in Telling(j) : Ahead(e) => Ahead(e)'
      BY <1>1 DEF Ahead, Unsent, Fits, WireFits, Held
    <3> QED BY <1>2, <2>2, <3>1, <3>2, <3>3 DEF Inv, DueInv, Coming
  <2> QED BY <2>1, <2>2
<1>70. ReadInv'
  <2> SUFFICES ASSUME NEW j \in Items, LagsRead(j)', ~Excused(j)'
               PROVE  \E e \in Telling(j)' : Fits(snap.ans, e.at)
    BY <1>1 DEF ReadInv, Fits, Held
  <2>1. CASE j = i
    <3>1. how = "told" /\ now <= t
      BY <1>1, <1>2, <1>4, <1>5, <2>1, Numbers DEF Excused, Inv
    <3> QED BY <1>1, <1>2, <2>1, <3>1, NowFits
  <2>2. CASE j # i
    <3>1. LagsRead(j) /\ ~Excused(j)
      BY <1>1, <1>2, <1>3, <1>4, <1>5, <2>2 DEF LagsRead, Excused
    <3> QED BY <1>2, <2>2, <3>1 DEF Inv, ReadInv
  <2> QED BY <2>1, <2>2
<1> QED BY <1>2, <1>5, <1>20, <1>30, <1>50, <1>60, <1>70 DEF StreamInv

(* An item is deleted: its events go with it, and nobody misses it. *)
Removed(i) ==
    /\ rows[i].on /\ now' \in Nat /\ now <= now'
    /\ Deletes(i) /\ Because(missed) /\ Frame

LEMMA DeletesStep ==
    ASSUME Inv, NEW i \in Items, Removed(i)
    PROVE  /\ StreamInv' /\ missed' \in [Items -> SUBSET Causes]
           /\ log' \in SUBSET Event /\ IsFiniteSet(log') /\ owed' \in SUBSET Event
           /\ rows' \in [Items -> Row] /\ ~rows'[i].on
           /\ \A j \in Items : rows'[j].v = rows[j].v /\ (j # i => rows'[j] = rows[j])
<1>1. /\ now \in Nat /\ now' \in Nat /\ now <= now'
      /\ log' = {e \in log : e.i # i} /\ owed' = {e \in owed : e.i # i}
      /\ UNCHANGED <<list, snap, active, link, view, overlap>>
  BY Numbers DEF Removed, Deletes, Frame, Inv
<1>2. /\ rows' \in [Items -> Row] /\ rows'[i].v = rows[i].v /\ rows'[i].at = rows[i].at
      /\ rows'[i].born = rows[i].born /\ ~rows'[i].on
      /\ \A j \in Items : j # i => rows'[j] = rows[j]
  BY DEF Removed, Deletes, Inv, TypeInv, Row
<1>3. \A j \in Items : rows'[j].v = rows[j].v /\ rows'[j].at = rows[j].at /\ rows'[j].born = rows[j].born
                       /\ (rows'[j].on => rows[j].on /\ j # i)
  BY <1>2
<1>4. /\ log' \in SUBSET Event /\ IsFiniteSet(log') /\ log' \subseteq log
      /\ owed' \in SUBSET Event /\ owed' \subseteq owed
  BY <1>1, FS_Subset DEF Inv, TypeInv
<1>5. /\ missed' \in [Items -> SUBSET Causes]
      /\ \A j \in Items : Lags(j)' \/ LagsRead(j)' => missed'[j] = missed[j]
  BY MarksFacts DEF Removed, Inv, TypeInv
<1>6. \A j \in Items : j # i => Telling(j)' = Telling(j) /\ (Owed(j)' <=> Owed(j))
  BY <1>1, <1>2 DEF Telling, Owed
<1>20. KnownInv'
  <2>1. \A j \in Items : rows'[j].born <= rows'[j].at /\ rows'[j].at <= now' /\ (rows'[j].on => rows'[j].v > 0)
    BY <1>1, <1>3, Numbers DEF Inv, KnownInv
  <2>2. \A j \in Items : view[j].v <= rows'[j].v /\ view[j].at <= now'
    BY <1>1, <1>3, Numbers DEF Inv, KnownInv, Within
  <2>3. \A j \in Items : snap.ans[j].v <= rows'[j].v /\ snap.ans[j].at <= now'
    BY <1>1, <1>3, Numbers DEF Inv, KnownInv, Within
  <2>4. NoCursor <= link.last /\ link.last <= now'
    BY <1>1, Numbers DEF Inv, KnownInv
  <2> QED BY <1>1, <2>1, <2>2, <2>3, <2>4 DEF KnownInv, Within
<1>30. WireInv'
  <2>1. ASSUME NEW n \in DOMAIN link.wire
        PROVE  link.wire[n].v > 0 /\ link.wire[n].v <= rows'[link.wire[n].i].v /\ link.wire[n].at <= now'
    <3>1. link.wire[n] \in Packet
      BY DEF Inv, TypeInv, Link
    <3>2. link.wire[n].i \in Items /\ link.wire[n].v \in Nat /\ link.wire[n].at \in Nat
      BY <3>1 DEF Packet
    <3>3. link.wire[n].v > 0 /\ link.wire[n].v <= rows[link.wire[n].i].v /\ link.wire[n].at <= now
      BY DEF Inv, WireInv
    <3> QED BY <1>1, <1>3, <3>2, <3>3
  <2> QED BY <1>1, <2>1 DEF Inv, WireInv
<1>40. LogInv'
  <2>1. \A e \in log \cup owed : e.i \in Items /\ e.at \in Nat
    BY DEF Inv, TypeInv, Event
  <2>2. \A j \in Items : \A n : Past(j, n)' <=> Past(j, n)
    BY <1>3 DEF Past
  <2>3. \A e \in log' : e.at <= now' /\ Past(e.i, e.n)'
    BY <1>1, <1>4, <2>1, <2>2 DEF Inv, LogInv
  <2>4. \A x \in link'.seen : Past(x[1], x[2])'
    <3> SUFFICES ASSUME NEW x \in link.seen PROVE Past(x[1], x[2])'
      BY <1>1
    <3>1. x[1] \in Items /\ Past(x[1], x[2])
      BY DEF Inv, TypeInv, Link, LogInv
    <3> QED BY <2>2, <3>1
  <2>5. \A e \in owed' : Past(e.i, e.n)' /\ <<e.i, e.n>> \notin link'.seen
    BY <1>1, <1>4, <2>1, <2>2 DEF Inv, LogInv
  <2> QED BY <1>1, <1>4, <2>3, <2>4, <2>5 DEF Inv, LogInv
<1>50. ItemInv'
  BY <1>1, <1>3 DEF Inv, ItemInv, Edited
<1>60. DueInv'
  <2> SUFFICES ASSUME Live', NEW j \in Items, Lags(j)', ~Excused(j)'
               PROVE  OnWire(j)' \/ Coming(j)'
    BY DEF DueInv
  <2>1. j # i
    BY <1>2 DEF Lags
  <2>2. Live /\ Lags(j) /\ ~Excused(j)
    BY <1>1, <1>2, <1>5, <1>6, <2>1 DEF Live, Lags, Stale, Excused
  <2>3. OnWire(j) => OnWire(j)'
    BY <1>1, <1>2, <2>1 DEF OnWire
  <2>4. \A e \in Telling(j) : Ahead(e) => Ahead(e)'
    BY <1>1 DEF Ahead, Unsent, Fits, WireFits, Held
  <2> QED BY <1>6, <2>1, <2>2, <2>3, <2>4 DEF Inv, DueInv, Coming
<1>70. ReadInv'
  <2> SUFFICES ASSUME NEW j \in Items, LagsRead(j)', ~Excused(j)'
               PROVE  \E e \in Telling(j)' : Fits(snap.ans, e.at)
    BY <1>1 DEF ReadInv, Fits, Held
  <2>1. j # i
    BY <1>2 DEF LagsRead
  <2>2. LagsRead(j) /\ ~Excused(j)
    BY <1>1, <1>2, <1>5, <1>6, <2>1 DEF LagsRead, Excused
  <2> QED BY <1>6, <2>1, <2>2 DEF Inv, ReadInv
<1> QED BY <1>2, <1>3, <1>4, <1>5, <1>20, <1>30, <1>40, <1>50, <1>60, <1>70 DEF StreamInv

(* The requests of the page, meanwhile. *)
LEMMA KeptFacts ==
    ASSUME Inv, now' \in Nat, now <= now', rows' \in [Items -> Row],
           \A j \in Items : rows[j].v <= rows'[j].v, NEW u \in own
    PROVE  u.i \in Items /\ Within(u.prev)' /\ u.v <= rows'[u.i].v /\ u.at <= now'
<1>1. u.i \in Items /\ u.v \in Nat /\ u.at \in Nat /\ u.prev \in View
  BY DEF Inv, TypeInv, Request
<1>2. Within(u.prev) /\ u.v <= rows[u.i].v /\ u.at <= now
  BY DEF Inv, OwnInv
<1>3. \A j \in Items : rows[j].v \in Nat /\ rows'[j].v \in Nat
  BY Numbers DEF Inv, Row
<1> QED BY <1>1, <1>2, <1>3, Numbers DEF Inv, Within, View, Item

LEMMA OthersFacts ==
    ASSUME Inv, now' \in Nat, now <= now', rows' \in [Items -> Row], NEW i \in Items,
           \A j \in Items : rows[j].v <= rows'[j].v /\ (j # i => rows'[j].v = rows[j].v),
           rows'[i].v = rows[i].v \/ ~\E w \in own : New(w.op) /\ w.st = "sent" /\ w.i = i,
           UNCHANGED own
    PROVE  OwnInv'
<1> SUFFICES ASSUME NEW u \in own
             PROVE  /\ Within(u.prev)' /\ u.v <= rows'[u.i].v /\ u.at <= now'
                    /\ New(u.op) /\ u.st = "sent" => Alone(u)'
  BY DEF OwnInv
<1>1. u.i \in Items /\ Within(u.prev)' /\ u.v <= rows'[u.i].v /\ u.at <= now'
  BY KeptFacts
<1>2. ASSUME New(u.op), u.st = "sent" PROVE Alone(u)'
  BY <1>1, <1>2 DEF Alone, Inv, OwnInv
<1> QED BY <1>1, <1>2

LEMMA StampsFacts ==
    ASSUME Inv, NEW i \in Items, NEW t \in StampsOf(i)
    PROVE  t \in Nat /\ t <= now + 1 /\ (rows[i].on => rows[i].born <= t)
<1>1. now - MaxLate \in Int /\ now + 1 \in Int
  BY Numbers, BoundsAssumption DEF Inv
<1> QED BY <1>1, Numbers DEF StampsOf, Inv

LEMMA RemoteChangeStep == ASSUME Inv, NEW i \in Items, RemoteChange(i) PROVE Inv'
<1>1. PICK t \in StampsOf(i), how \in Ways : Writes(i, t, how) /\ Announced(i, t, how)
  BY DEF RemoteChange
<1>2. /\ UNCHANGED <<list, snap, active, link, view, own, overlap>> /\ now' = now + 1
      /\ (rows[i].on /\ Edited) \/ (rows[i].v = 0 /\ ~\E w \in own : w.i = i)
  BY DEF RemoteChange
<1>3. now \in Nat /\ now <= now' /\ now' \in Nat /\ t \in Nat /\ t <= now'
      /\ (rows[i].on => rows[i].born <= t)
  BY <1>2, StampsFacts, Numbers DEF Inv
<1>4. Written(i, t, how)
  BY <1>1, <1>2, <1>3 DEF Written, Frame, Ways
<1>5. StreamInv' /\ missed' \in [Items -> SUBSET Causes]
  BY <1>4, WritesStep
<1>6. Stamps(rows', i, t) /\ log' \in SUBSET Event /\ IsFiniteSet(log') /\ owed' \in SUBSET Event
  BY <1>4, WrittenFacts
<1>7. /\ rows' \in [Items -> Row] /\ rows'[i].v = rows[i].v + 1
      /\ \A j \in Items : j # i => rows'[j] = rows[j]
  BY <1>6 DEF Stamps
<1>8. \A j \in Items : rows[j].v <= rows'[j].v /\ (j # i => rows'[j].v = rows[j].v)
  BY <1>7, Numbers DEF Inv
<1>9. ~\E w \in own : New(w.op) /\ w.st = "sent" /\ w.i = i
  BY <1>2, Numbers DEF Inv, OwnInv, Alone, KnownInv
<1>10. OwnInv'
  BY <1>2, <1>3, <1>7, <1>8, <1>9, OthersFacts
<1>11. TypeInv'
  BY <1>2, <1>3, <1>5, <1>6, <1>7 DEF Inv, TypeInv
<1>12. OptInv'
  BY <1>2 DEF Inv, OptInv, Plain
<1> QED BY <1>5, <1>10, <1>11, <1>12 DEF Inv, StreamInv

(* An approval reopened, or its agent deleted: nothing announces it. *)
LEMMA RemoteQuietStep == ASSUME Inv, NEW i \in Items, RemoteQuiet(i) PROVE Inv'
<1>1. /\ UNCHANGED <<list, snap, active, link, view, own, overlap>> /\ now' = now + 1
      /\ rows[i].on /\ list.name = "approvals"
      /\ Writes(i, rows[i].at, "lost") /\ Announced(i, rows[i].at, "lost")
  BY DEF RemoteQuiet
<1>2. PICK t \in Nat : t = rows[i].at
  BY Numbers DEF Inv
<1>3. now \in Nat /\ now <= now' /\ now' \in Nat /\ t <= now' /\ rows[i].born <= t
  BY <1>1, <1>2, Numbers DEF Inv, KnownInv
<1>4. Written(i, t, "lost")
  BY <1>1, <1>2, <1>3 DEF Written, Frame, Edited
<1>5. StreamInv' /\ missed' \in [Items -> SUBSET Causes]
  BY <1>4, WritesStep
<1>6. Stamps(rows', i, t) /\ log' \in SUBSET Event /\ IsFiniteSet(log') /\ owed' \in SUBSET Event
  BY <1>4, WrittenFacts
<1>7. /\ rows' \in [Items -> Row] /\ rows'[i].v = rows[i].v + 1
      /\ \A j \in Items : j # i => rows'[j] = rows[j]
  BY <1>6 DEF Stamps
<1>8. \A j \in Items : rows[j].v <= rows'[j].v /\ (j # i => rows'[j].v = rows[j].v)
  BY <1>7, Numbers DEF Inv
<1>9. ~\E w \in own : New(w.op) /\ w.st = "sent" /\ w.i = i
  BY <1>1, Numbers DEF Inv, OwnInv, Alone, KnownInv
<1>10. OwnInv'
  BY <1>1, <1>3, <1>7, <1>8, <1>9, OthersFacts
<1>11. TypeInv'
  BY <1>1, <1>3, <1>5, <1>6, <1>7 DEF Inv, TypeInv
<1>12. OptInv'
  BY <1>1 DEF Inv, OptInv, Plain
<1> QED BY <1>5, <1>10, <1>11, <1>12 DEF Inv, StreamInv

LEMMA RemoteDeleteStep == ASSUME Inv, NEW i \in Items, RemoteDelete(i) PROVE Inv'
<1>1. Removed(i) /\ UNCHANGED <<list, snap, active, link, view, own, overlap>> /\ now \in Nat
      /\ now <= now' /\ now' \in Nat
  BY Numbers DEF RemoteDelete, Removed, Frame, Inv
<1>2. /\ StreamInv' /\ missed' \in [Items -> SUBSET Causes]
      /\ log' \in SUBSET Event /\ IsFiniteSet(log') /\ owed' \in SUBSET Event
      /\ rows' \in [Items -> Row] /\ \A j \in Items : rows'[j].v = rows[j].v
  BY <1>1, DeletesStep
<1>3. \A j \in Items : rows[j].v <= rows'[j].v /\ (j # i => rows'[j].v = rows[j].v)
  BY <1>2, Numbers DEF Inv
<1>4. OwnInv'
  BY <1>1, <1>2, <1>3, OthersFacts
<1>5. TypeInv'
  BY <1>1, <1>2 DEF Inv, TypeInv
<1>6. OptInv'
  BY <1>1 DEF Inv, OptInv, Plain
<1> QED BY <1>2, <1>4, <1>5, <1>6 DEF Inv, StreamInv

(* The second transaction of a change: its event, ahead of every cursor     *)
(* unless it was committed late.                                            *)
LEMMA RecordEventStep == ASSUME Inv, NEW e \in owed, RecordEvent(e) PROVE Inv'
<1>1. e \in Event /\ e.i \in Items /\ e.n \in Nat /\ e.at \in Nat
  BY DEF Inv, TypeInv, Event
<1>2. PICK t \in e.at..(now + 1) :
        /\ now' = Max({now, t})
        /\ log' = log \cup {[e EXCEPT !.at = t]} /\ owed' = owed \ {e}
        /\ UNCHANGED <<list, rows, snap, active, link, view, own, overlap>>
        /\ Miss("late", IF t < now /\ e.n = rows[e.i].v - 1 THEN {e.i} ELSE {})
  BY DEF RecordEvent
<1>3. t \in Nat /\ now \in Nat /\ now' \in Nat /\ now <= now' /\ t <= now'
  <2>1. t \in Nat /\ now \in Nat
    BY <1>1, <1>2, Numbers DEF Inv
  <2>2. now' \in {now, t} /\ \A y \in {now, t} : y <= now'
    <3>1. PICK n \in Int : n = now + t
      BY <2>1
    <3>2. {now, t} \in SUBSET (-1..n) /\ {now, t} # {}
      BY <2>1, <3>1
    <3> QED BY <1>2, <3>1, <3>2, MaxFacts
  <2> QED BY <2>1, <2>2
<1>4. PICK d : d = [e EXCEPT !.at = t]
  OBVIOUS
<1>5. d \in Event /\ d.i = e.i /\ d.n = e.n /\ d.at = t /\ log' = log \cup {d}
  BY <1>1, <1>2, <1>3, <1>4 DEF Event
<1>6. PICK s : s = IF t < now /\ e.n = rows[e.i].v - 1 THEN {e.i} ELSE {}
  OBVIOUS
<1>7. /\ missed' \in [Items -> SUBSET Causes]
      /\ \A i \in Items : missed'[i] = {} /\ (Lags(i)' \/ LagsRead(i)') => missed[i] = {} /\ i \notin s
  <2>1. Miss("late", s) /\ "late" \in Causes /\ TypeInv
    BY <1>2, <1>6 DEF Causes, Inv
  <2> QED BY <2>1, MissFacts
<1>8. list.sends = "once"
  BY DEF Inv, LogInv
<1>9. \A i \in Items : Telling(i) \subseteq Telling(i)' /\ (e.i = i /\ e.n = rows[i].v - 1 => d \in Telling(i)')
  BY <1>2, <1>5, <1>8 DEF Telling
<1>10. \A i \in Items : Owed(i) => Owed(i)' \/ (e.i = i /\ e.n = rows[i].v - 1)
  BY <1>2 DEF Owed
<1>11. link.last <= now' /\ \A v \in {view, snap.ans} : \A i \in Items : v[i].at <= now'
  BY <1>3, Numbers DEF Inv, KnownInv, Within
<1>20. KnownInv'
  <2>1. \A i \in Items : rows[i].at <= now'
    BY <1>3, Numbers DEF Inv, KnownInv
  <2> QED BY <1>2, <1>11, <2>1 DEF Inv, KnownInv, Within
<1>30. WireInv'
  <2>1. ASSUME NEW n \in DOMAIN link.wire PROVE link.wire[n].at <= now'
    <3>1. link.wire[n] \in Packet
      BY DEF Inv, TypeInv, Link
    <3> QED BY <1>3, <3>1 DEF Inv, WireInv, Packet
  <2> QED BY <1>2, <2>1 DEF Inv, WireInv
<1>40. LogInv'
  <2>1. \A x \in log' : x.at <= now' /\ Past(x.i, x.n)'
    <3>1. \A x \in log : x.at \in Nat /\ x.at <= now
      BY DEF Inv, LogInv, TypeInv, Event
    <3>2. Past(e.i, e.n) /\ \A x \in log : Past(x.i, x.n)
      BY DEF Inv, LogInv
    <3>3. \A i, n : Past(i, n)' <=> Past(i, n)
      BY <1>2 DEF Past
    <3> QED BY <1>3, <1>5, <3>1, <3>2, <3>3
  <2>2. \A c, x \in log' : c.i = x.i /\ c.n = x.n => c = x
    BY <1>5 DEF Inv, LogInv
  <2>3. \A c \in owed', x \in log' : ~(c.i = x.i /\ c.n = x.n)
    BY <1>2, <1>5 DEF Inv, LogInv
  <2> QED BY <1>2, <2>1, <2>2, <2>3 DEF Inv, LogInv, Past
<1>50. ItemInv'
  BY <1>2 DEF Inv, ItemInv, Edited
<1>60. OwnInv'
  <2>1. rows' \in [Items -> Row] /\ \A j \in Items : rows'[j].v = rows[j].v /\ rows[j].v <= rows'[j].v
    BY <1>2, Numbers DEF Inv, TypeInv
  <2> QED BY <1>1, <1>2, <1>3, <2>1, OthersFacts
<1>70. OptInv'
  BY <1>2 DEF Inv, OptInv, Plain
<1>80. TypeInv'
  BY <1>2, <1>3, <1>5, <1>7, FS_AddElement DEF Inv, TypeInv
<1>90. DueInv'
  <2> SUFFICES ASSUME Live', NEW i \in Items, Lags(i)', ~Excused(i)'
               PROVE  OnWire(i)' \/ Coming(i)'
    BY DEF DueInv
  <2>1. Live /\ Lags(i) /\ missed[i] = {} /\ i \notin s /\ ~Owed(i)'
    BY <1>2, <1>7 DEF Live, Lags, Stale, Excused
  <2>2. CASE Owed(i)
    <3>1. e.i = i /\ e.n = rows[i].v - 1
      BY <1>10, <2>1, <2>2
    <3>2. now <= t
      BY <1>3, <1>6, <2>1, <3>1
    <3>3. link.last <= t /\ Fits(view, t) /\ WireFits(t)
      BY <1>3, <3>2, NowFits
    <3>4. <<d.i, d.n>> \notin link.seen
      BY <1>5 DEF Inv, LogInv
    <3>5. Ahead(d)'
      BY <1>2, <1>5, <3>3, <3>4 DEF Ahead, Unsent, Fits, WireFits, Held
    <3> QED BY <1>9, <3>1, <3>5 DEF Coming
  <2>3. CASE ~Owed(i)
    <3>1. OnWire(i) \/ Coming(i)
      BY <2>1, <2>3 DEF Inv, DueInv, Excused
    <3>2. OnWire(i) => OnWire(i)'
      BY <1>2 DEF OnWire
    <3>3. \A c \in Telling(i) : Ahead(c) => Ahead(c)'
      BY <1>2 DEF Ahead, Unsent, Fits, WireFits, Held
    <3> QED BY <1>9, <3>1, <3>2, <3>3 DEF Coming
  <2> QED BY <2>2, <2>3
<1>100. ReadInv'
  <2> SUFFICES ASSUME NEW i \in Items, LagsRead(i)', ~Excused(i)'
               PROVE  \E c \in Telling(i)' : Fits(snap.ans, c.at)
    BY <1>2 DEF ReadInv, Fits, Held
  <2>1. LagsRead(i) /\ missed[i] = {} /\ i \notin s /\ ~Owed(i)'
    BY <1>2, <1>7 DEF LagsRead, Excused
  <2>2. CASE Owed(i)
    <3>1. e.i = i /\ e.n = rows[i].v - 1
      BY <1>10, <2>1, <2>2
    <3>2. now <= t
      BY <1>3, <1>6, <2>1, <3>1
    <3> QED BY <1>3, <1>5, <1>9, <3>1, <3>2, NowFits
  <2>3. CASE ~Owed(i)
    BY <1>9, <2>1, <2>3 DEF Inv, ReadInv, Excused
  <2> QED BY <2>2, <2>3
<1> QED BY <1>20, <1>30, <1>40, <1>50, <1>60, <1>70, <1>80, <1>90, <1>100 DEF Inv

-----------------------------------------------------------------------------
(* Steps of the page's requests. *)

(* Steps of the page that leave the versions on its list alone. *)
LEMMA StreamStays ==
    ASSUME Inv, UNCHANGED <<list, rows, log, now, owed, snap, active, link, missed>>,
           \A j \in Items : view'[j].v = view[j].v /\ view'[j].at = view[j].at
    PROVE  StreamInv'
<1>1. \A i : Telling(i)' = Telling(i) /\ (Owed(i)' <=> Owed(i))
  BY SameNews
<1>2. KnownInv'
  BY DEF Inv, KnownInv, Within
<1>3. WireInv'
  BY DEF Inv, WireInv
<1>4. LogInv'
  BY DEF Inv, LogInv, Past
<1>5. ItemInv'
  BY DEF Inv, ItemInv, Edited
<1>6. DueInv'
  <2> SUFFICES ASSUME Live', NEW i \in Items, Lags(i)', ~Excused(i)'
               PROVE  OnWire(i)' \/ Coming(i)'
    BY DEF DueInv
  <2>1. Live /\ Lags(i) /\ ~Excused(i)
    BY <1>1 DEF Live, Lags, Stale, Excused
  <2>2. OnWire(i) => OnWire(i)'
    BY DEF OnWire
  <2>3. \A e \in Telling(i) : Ahead(e) => Ahead(e)'
    BY DEF Ahead, Unsent, Fits, WireFits, Held
  <2> QED BY <1>1, <2>1, <2>2, <2>3 DEF Inv, DueInv, Coming
<1>7. ReadInv'
  BY ReadStays
<1> QED BY <1>2, <1>3, <1>4, <1>5, <1>6, <1>7 DEF StreamInv

(* The server has looked at a request. *)
Judged(w, x) ==
    /\ x \in Request /\ x.op = w.op /\ x.i = w.i /\ x.prev = w.prev /\ x.st # "sent"
    /\ own' = (own \ {w}) \cup {x}

LEMMA JudgedFacts ==
    ASSUME Inv, NEW w \in own, NEW x, Judged(w, x), UNCHANGED <<list, snap, view, overlap>>
    PROVE  /\ own' \in SUBSET Request /\ \A u \in own' : u.op \in list'.ops
           /\ OptInv'
           /\ x \in own' /\ \A u \in own' : u = x \/ (u \in own /\ u # w)
<1>1. /\ x \in Request /\ x.op = w.op /\ x.i = w.i /\ x.prev = w.prev
      /\ own' = (own \ {w}) \cup {x} /\ x \in own' /\ \A u \in own' : u = x \/ (u \in own /\ u # w)
      /\ UNCHANGED <<list, snap, view, overlap>>
  BY DEF Judged
<1>2. own' \in SUBSET Request /\ \A u \in own' : u.op \in list'.ops
  BY <1>1 DEF Inv, TypeInv
<1>3. \A i \in Items : view[i].opt => view[i].v > 0
  BY DEF Inv, OptInv
<1>4. \A u \in own' : \A i \in Items : u.prev[i].opt => u.prev[i].v > 0
  BY <1>1 DEF Inv, OptInv
<1>5. ASSUME ~overlap
      PROVE  /\ \A u, y \in own' : u.op = "move" /\ y.op = "move" => u = y
             /\ \A u \in own' : Plain(u.prev)
             /\ \A i \in Items : view[i].opt => \E u \in own' : u.op = "move" /\ u.i = i
  <2>1. \A u, y \in own' : u.op = "move" /\ y.op = "move" => u = y
    BY <1>1, <1>5 DEF Inv, OptInv
  <2>2. \A u \in own' : Plain(u.prev)
    BY <1>1, <1>5 DEF Inv, OptInv
  <2>3. ASSUME NEW i \in Items, view[i].opt PROVE \E u \in own' : u.op = "move" /\ u.i = i
    <3>1. PICK u \in own : u.op = "move" /\ u.i = i
      BY <1>5, <2>3 DEF Inv, OptInv
    <3> QED BY <1>1, <3>1
  <2> QED BY <2>1, <2>2, <2>3
<1>6. Plain(snap.ans)
  BY DEF Inv, OptInv
<1>7. OptInv'
  BY <1>1, <1>3, <1>4, <1>5, <1>6 DEF OptInv, Plain
<1> QED BY <1>1, <1>2, <1>7

(* A request that has been looked at claims no more than there is. *)
LEMMA ServedFacts ==
    ASSUME Inv, NEW w \in own, NEW x, Judged(w, x), x.v <= rows'[w.i].v, x.at <= now',
           now' \in Nat, now <= now', rows' \in [Items -> Row],
           \A j \in Items : rows[j].v <= rows'[j].v /\ (j # w.i => rows'[j].v = rows[j].v)
    PROVE  OwnInv'
<1>1. /\ x.i = w.i /\ x.prev = w.prev /\ x.st # "sent" /\ own' = (own \ {w}) \cup {x}
  BY DEF Judged
<1>2. \A u \in own : u.i \in Items /\ Within(u.prev)' /\ u.v <= rows'[u.i].v /\ u.at <= now'
  BY KeptFacts
<1> SUFFICES ASSUME NEW u \in own'
             PROVE  /\ Within(u.prev)' /\ u.v <= rows'[u.i].v /\ u.at <= now'
                    /\ New(u.op) /\ u.st = "sent" => Alone(u)'
  BY DEF OwnInv
<1>3. CASE u = x
  <2>1. Within(x.prev)'
    BY <1>1, <1>2 DEF Within
  <2> QED BY <1>1, <1>3, <2>1
<1>4. CASE u \in own /\ u # w
  <2>1. ASSUME New(u.op), u.st = "sent" PROVE Alone(u)'
    <3>1. Alone(u) /\ u.i \in Items
      BY <1>2, <1>4, <2>1 DEF Inv, OwnInv
    <3>2. u.i # w.i
      BY <1>4, <3>1 DEF Alone
    <3> QED BY <1>1, <1>4, <3>1, <3>2 DEF Alone
  <2> QED BY <1>2, <1>4, <2>1
<1> QED BY <1>1, <1>3, <1>4

LEMMA RefusesStep == ASSUME Inv, NEW w \in own, Refuses(w) PROVE Inv'
<1>1. PICK x : x = [w EXCEPT !.st = "refused"]
  OBVIOUS
<1>2. w \in Request /\ w.v <= rows[w.i].v /\ w.at <= now
  BY DEF Inv, TypeInv, OwnInv
<1>3. x \in Request /\ x.op = w.op /\ x.i = w.i /\ x.prev = w.prev /\ x.st = "refused" /\ x.v = w.v /\ x.at = w.at
  BY <1>1, <1>2 DEF Request
<1>4. Judged(w, x)
      /\ UNCHANGED <<list, rows, log, now, owed, snap, active, link, view, missed, overlap>>
  BY <1>1, <1>3 DEF Judged, Refuses, server
<1>5. own' \in SUBSET Request /\ (\A u \in own' : u.op \in list'.ops) /\ OptInv'
  BY <1>4, JudgedFacts
<1>6. StreamInv'
  BY <1>4, StreamStays
<1>7. OwnInv'
  <2>1. \A j \in Items : rows[j].v <= rows[j].v
    BY Numbers DEF Inv
  <2>2. now \in Nat /\ now <= now /\ rows \in [Items -> Row]
    BY DEF Inv, TypeInv
  <2> QED BY <1>2, <1>3, <1>4, <2>1, <2>2, ServedFacts
<1>8. TypeInv'
  BY <1>4, <1>5 DEF Inv, TypeInv
<1> QED BY <1>5, <1>6, <1>7, <1>8 DEF Inv, StreamInv

(* A request carried out: its item is written; or its event is lost, and    *)
(* the request fails.                                                       *)
LEMMA TakesStep == ASSUME Inv, NEW w \in own, Takes(w) PROVE Inv'
<1>1. /\ w \in Request /\ w.i \in Items /\ w.st = "sent" /\ w.v <= rows[w.i].v /\ w.at <= now
      /\ rows[w.i].on \/ (New(w.op) /\ rows[w.i].v = 0)
      /\ UNCHANGED <<list, snap, active, link, view, overlap>>
  BY DEF Inv, TypeInv, OwnInv, Request, Takes
<1>2. PICK t \in StampsOf(w.i), how \in Ways :
        /\ now' = Max({now, t})
        /\ Writes(w.i, t, how) /\ Announced(w.i, t, how)
        /\ own' = (own \ {w}) \cup
                    {IF how = "lost" THEN [w EXCEPT !.st = "refused"]
                     ELSE [w EXCEPT !.st = "applied", !.v = rows[w.i].v + 1, !.at = t]}
  BY DEF Takes
<1>3. t \in Nat /\ now \in Nat /\ (rows[w.i].on => rows[w.i].born <= t)
  BY <1>1, StampsFacts, Numbers DEF Inv
<1>4. now' \in Nat /\ now <= now' /\ t <= now'
  <2>1. now' \in {now, t} /\ \A y \in {now, t} : y <= now'
    <3>1. PICK n \in Int : n = now + t
      BY <1>3
    <3>2. {now, t} \in SUBSET (-1..n) /\ {now, t} # {}
      BY <1>3, <3>1
    <3> QED BY <1>2, <3>1, <3>2, MaxFacts
  <2> QED BY <1>3, <2>1
<1>5. (rows[w.i].on /\ Edited) \/ rows[w.i].v = 0
  <2>1. ~Edited => New(w.op)
    BY ListFacts DEF New, Inv, TypeInv
  <2> QED BY <1>1, <2>1 DEF Inv, OwnInv, Alone
<1>6. Written(w.i, t, how)
  BY <1>1, <1>2, <1>3, <1>4, <1>5 DEF Written, Frame, Ways
<1>7. StreamInv' /\ missed' \in [Items -> SUBSET Causes]
  BY <1>1, <1>6, WritesStep
<1>8. Stamps(rows', w.i, t) /\ log' \in SUBSET Event /\ IsFiniteSet(log') /\ owed' \in SUBSET Event
  BY <1>1, <1>6, WrittenFacts
<1>9. /\ rows' \in [Items -> Row] /\ rows'[w.i].v = rows[w.i].v + 1 /\ rows[w.i].v \in Nat
      /\ \A j \in Items : j # w.i => rows'[j] = rows[j]
  BY <1>1, <1>8, Numbers DEF Stamps, Inv
<1>10. \A j \in Items : rows[j].v <= rows'[j].v /\ (j # w.i => rows'[j].v = rows[j].v)
  BY <1>9, Numbers DEF Inv
<1>11. PICK k \in Nat : k = rows[w.i].v + 1
  BY <1>9
<1>12. PICK x : x = IF how = "lost" THEN [w EXCEPT !.st = "refused"]
                    ELSE [w EXCEPT !.st = "applied", !.v = k, !.at = t]
  OBVIOUS
<1>13. /\ x \in Request /\ x.op = w.op /\ x.i = w.i /\ x.prev = w.prev /\ x.st # "sent"
       /\ x.v <= rows'[w.i].v /\ x.at <= now'
  <2>1. CASE how = "lost"
    <3>1. x = [w EXCEPT !.st = "refused"]
      BY <1>12, <2>1
    <3>2. x \in Request /\ x.op = w.op /\ x.i = w.i /\ x.prev = w.prev /\ x.st # "sent" /\ x.v = w.v /\ x.at = w.at
      BY <1>1, <3>1 DEF Request
    <3>3. w.v \in Nat /\ w.at \in Nat
      BY <1>1 DEF Request
    <3> QED BY <1>1, <1>3, <1>4, <1>9, <3>2, <3>3
  <2>2. CASE how # "lost"
    <3>1. x = [w EXCEPT !.st = "applied", !.v = k, !.at = t]
      BY <1>12, <2>2
    <3>2. x \in Request /\ x.op = w.op /\ x.i = w.i /\ x.prev = w.prev /\ x.st # "sent" /\ x.v = k /\ x.at = t
      BY <1>1, <1>3, <1>11, <3>1 DEF Request
    <3> QED BY <1>4, <1>9, <1>11, <3>2
  <2> QED BY <2>1, <2>2
<1>14. Judged(w, x)
  <2>1. own' = (own \ {w}) \cup {x}
    BY <1>2, <1>11, <1>12
  <2> QED BY <1>13, <2>1 DEF Judged
<1>15. own' \in SUBSET Request /\ (\A u \in own' : u.op \in list'.ops) /\ OptInv'
  BY <1>1, <1>14, JudgedFacts
<1>16. OwnInv'
  BY <1>4, <1>9, <1>10, <1>13, <1>14, ServedFacts
<1>17. TypeInv'
  BY <1>1, <1>4, <1>7, <1>8, <1>9, <1>15 DEF Inv, TypeInv
<1> QED BY <1>7, <1>15, <1>16, <1>17 DEF Inv, StreamInv

LEMMA TakesDeleteStep == ASSUME Inv, NEW w \in own, TakesDelete(w) PROVE Inv'
<1>1. /\ w \in Request /\ w.i \in Items /\ w.v <= rows[w.i].v /\ w.at <= now
      /\ own' = (own \ {w}) \cup {[w EXCEPT !.st = "applied"]}
      /\ now' = now /\ now \in Nat /\ now' \in Nat /\ now <= now'
      /\ UNCHANGED <<list, snap, active, link, view, overlap>>
  BY Numbers DEF Inv, TypeInv, OwnInv, Request, TakesDelete
<1>2. Removed(w.i)
  BY <1>1 DEF TakesDelete, Removed, Frame
<1>3. /\ StreamInv' /\ missed' \in [Items -> SUBSET Causes]
      /\ log' \in SUBSET Event /\ IsFiniteSet(log') /\ owed' \in SUBSET Event
      /\ rows' \in [Items -> Row] /\ \A j \in Items : rows'[j].v = rows[j].v
  BY <1>1, <1>2, DeletesStep
<1>4. \A j \in Items : rows[j].v <= rows'[j].v /\ (j # w.i => rows'[j].v = rows[j].v)
  BY <1>3, Numbers DEF Inv
<1>5. PICK x : x = [w EXCEPT !.st = "applied"]
  OBVIOUS
<1>6. x \in Request /\ x.op = w.op /\ x.i = w.i /\ x.prev = w.prev /\ x.st # "sent" /\ x.v = w.v /\ x.at = w.at
  BY <1>1, <1>5 DEF Request
<1>7. Judged(w, x)
  BY <1>1, <1>5, <1>6 DEF Judged
<1>8. own' \in SUBSET Request /\ (\A u \in own' : u.op \in list'.ops) /\ OptInv'
  BY <1>1, <1>7, JudgedFacts
<1>9. x.v <= rows'[w.i].v /\ x.at <= now'
  BY <1>1, <1>3, <1>6
<1>10. OwnInv'
  BY <1>1, <1>3, <1>4, <1>7, <1>9, ServedFacts
<1>11. TypeInv'
  BY <1>1, <1>3, <1>8 DEF Inv, TypeInv
<1> QED BY <1>3, <1>8, <1>10, <1>11 DEF Inv, StreamInv

(* The user makes a request; a card is moved at once. *)
LEMMA BeginStep == ASSUME Inv, NEW op, NEW i \in Items, Begin(op, i) PROVE Inv'
<1>1. PICK w : w = [op |-> op, i |-> i, st |-> "sent", v |-> 0, at |-> 0,
                    prev |-> IF op = "move" THEN view ELSE NoItems]
  OBVIOUS
<1>2. NoItems \in View /\ \A j \in Items : NoItems[j].v = 0 /\ NoItems[j].at = 0 /\ ~NoItems[j].opt
  BY DEF NoItems, NoItem, View, Item
<1>3. op \in list.ops /\ op \in {"create", "save", "move", "delete", "decide", "post"}
  BY ListFacts DEF Begin, Inv, TypeInv
<1>4. /\ w.op = op /\ w.i = i /\ w.st = "sent" /\ w.v = 0 /\ w.at = 0
      /\ w.prev = IF op = "move" THEN view ELSE NoItems
  BY <1>1
<1>5. w \in Request
  BY <1>1, <1>2, <1>3 DEF Request, Inv, TypeInv
<1>6. /\ own' = own \cup {w} /\ snap.st = "done"
      /\ overlap' = (overlap \/ \E u \in own : u.op = "move")
      /\ UNCHANGED <<list, rows, log, now, owed, snap, active, link, missed>>
      /\ IF New(op) THEN rows[i].v = 0 /\ ~\E u \in own : u.i = i ELSE view[i].v > 0
  BY <1>1 DEF Begin, server
<1>7. /\ view' \in View /\ \A j \in Items : view'[j].v = view[j].v /\ view'[j].at = view[j].at
      /\ \A j \in Items : view'[j].opt => view[j].opt \/ (op = "move" /\ j = i /\ view[j].v > 0)
  <2>1. CASE op = "move"
    <3>1. view' = [view EXCEPT ![i].opt = TRUE] /\ ~New(op)
      BY <2>1 DEF Begin, handleTaskMove, New
    <3> QED BY <1>6, <2>1, <3>1 DEF Inv, TypeInv, View, Item
  <2>2. CASE op # "move"
    BY <2>2 DEF Begin, Inv, TypeInv
  <2> QED BY <2>1, <2>2
<1>10. TypeInv'
  <2>1. overlap' \in BOOLEAN
    BY <1>6
  <2> QED BY <1>3, <1>4, <1>5, <1>6, <1>7, <2>1 DEF Inv, TypeInv
<1>20. StreamInv'
  BY <1>6, <1>7, StreamStays
<1>60. OwnInv'
  <2> SUFFICES ASSUME NEW u \in own'
               PROVE  /\ Within(u.prev)' /\ u.v <= rows'[u.i].v /\ u.at <= now'
                      /\ New(u.op) /\ u.st = "sent" => Alone(u)'
    BY DEF OwnInv
  <2>1. CASE u = w
    <3>1. Within(w.prev)'
      BY <1>2, <1>4, <1>6, Numbers DEF Within, Inv, KnownInv
    <3>2. u.v <= rows'[u.i].v /\ u.at <= now'
      BY <1>4, <1>6, <2>1, Numbers DEF Inv
    <3>3. New(w.op) => Alone(w)'
      BY <1>4, <1>6 DEF Alone
    <3> QED BY <1>4, <2>1, <3>1, <3>2, <3>3
  <2>2. CASE u \in own
    <3>1. /\ Within(u.prev) /\ u.v <= rows[u.i].v /\ u.at <= now
          /\ New(u.op) /\ u.st = "sent" => Alone(u)
      BY <2>2 DEF Inv, OwnInv
    <3>3. ASSUME Alone(u) PROVE Alone(u)'
      <4>1. u.i # i
        <5>1. CASE New(op)
          BY <1>6, <2>2, <5>1
        <5>2. CASE ~New(op)
          <6>1. view[i].v > 0 /\ view[i].v <= rows[i].v
            BY <1>6, <5>2 DEF Inv, KnownInv, Within
          <6> QED BY <3>3, <6>1, Numbers DEF Alone, Inv
        <5> QED BY <5>1, <5>2
      <4> QED BY <1>4, <1>6, <3>3, <4>1 DEF Alone
    <3> QED BY <1>6, <3>1, <3>3 DEF Within
  <2> QED BY <1>6, <2>1, <2>2
<1>70. OptInv'
  <2>1. \A j \in Items : view'[j].opt => view'[j].v > 0
    BY <1>7 DEF Inv, OptInv
  <2>2. \A u \in own' : \A j \in Items : u.prev[j].opt => u.prev[j].v > 0
    BY <1>2, <1>4, <1>6 DEF Inv, OptInv
  <2>3. ASSUME ~overlap'
        PROVE  /\ \A u, y \in own' : u.op = "move" /\ y.op = "move" => u = y
               /\ \A u \in own' : Plain(u.prev)
               /\ \A j \in Items : view'[j].opt => \E u \in own' : u.op = "move" /\ u.i = j
    <3>1. ~overlap /\ \A u \in own : u.op # "move"
      BY <1>6, <2>3
    <3>2. Plain(view)
      BY <3>1 DEF Inv, OptInv, Plain
    <3>3. Plain(w.prev)
      BY <1>2, <1>4, <3>2 DEF Plain
    <3>4. \A j \in Items : view'[j].opt => w.op = "move" /\ w.i = j
      BY <1>4, <1>7, <3>2 DEF Plain
    <3> QED BY <1>6, <3>1, <3>3, <3>4 DEF Inv, OptInv
  <2>4. Plain(snap.ans)'
    BY <1>6 DEF Inv, OptInv, Plain
  <2>5. \A u \in own' : Plain(u.prev) <=> Plain(u.prev)'
    BY DEF Plain
  <2> QED BY <2>1, <2>2, <2>3, <2>4, <2>5 DEF OptInv
<1> QED BY <1>10, <1>20, <1>60, <1>70 DEF Inv, StreamInv

(* What an answer makes of the list: at most its own item changes. *)
Settled(w, new) ==
    /\ new \in View /\ Within(new)
    /\ \A i \in Items : new[i].opt => new[i].v > 0
    /\ ~overlap => \A i \in Items :
         new[i].opt => view[i].opt /\ ~(w.op = "move" /\ w.i = i)

LEMMA AnsweredFacts == ASSUME Inv, NEW w \in own, w.st = "applied" PROVE Settled(w, Answered(view, w))
<1>1. /\ w \in Request /\ w.i \in Items /\ w.v \in Nat /\ w.at \in Nat /\ w.op \in list.ops
      /\ w.op \in {"create", "save", "move", "delete", "decide", "post"} /\ view \in View
  BY DEF Inv, TypeInv, Request
<1>2. PICK r : r = [v |-> w.v, at |-> w.at, opt |-> FALSE]
  OBVIOUS
<1>3. r \in Item /\ r.v = w.v /\ r.at = w.at /\ ~r.opt /\ r.v <= rows[w.i].v /\ r.at <= now
  BY <1>1, <1>2 DEF Item, Inv, OwnInv
<1>4. NoItem \in Item /\ NoItem.v = 0 /\ NoItem.at = 0 /\ ~NoItem.opt
  BY DEF NoItem, Item
<1>6. \/ Answered(view, w) = [view EXCEPT ![w.i] = r]
      \/ Answered(view, w) = view /\ (w.op = "move" => view[w.i].v = 0)
      \/ Answered(view, w) = [view EXCEPT ![w.i] = NoItem] /\ w.op = "delete"
  <2> USE DEF Answered
  <2>1. CASE w.op = "create"
    BY <1>2, <2>1 DEF handleCreateTask
  <2>2. CASE w.op = "save"
    BY <1>2, <2>2 DEF handleTaskSave
  <2>3. CASE w.op = "move"
    BY <1>1, <1>2, <2>3, Numbers DEF handleTaskMoveAnswer, handleTaskSave, Inv
  <2>4. CASE w.op = "delete"
    BY <1>2, <2>4 DEF handleDeleteTask
  <2>5. CASE w.op = "decide"
    BY <1>2, <2>5 DEF handleApprovalDecision
  <2>6. CASE w.op = "post"
    BY <1>2, <2>6 DEF postBoardChatMessage
  <2> QED BY <1>1, <2>1, <2>2, <2>3, <2>4, <2>5, <2>6
<1>7. PICK n : n = Answered(view, w)
  OBVIOUS
<1>9. Within(view) /\ (\A i \in Items : view[i].opt => view[i].v > 0)
  BY DEF Inv, KnownInv, OptInv
<1>10. CASE n = [view EXCEPT ![w.i] = r]
  <2>1. n \in View /\ n[w.i] = r /\ \A i \in Items : i # w.i => n[i] = view[i]
    BY <1>1, <1>3, <1>10 DEF View
  <2>2. Within(n)
    BY <1>3, <1>9, <2>1 DEF Within
  <2>3. \A i \in Items : n[i].opt => i # w.i /\ n[i] = view[i]
    BY <1>3, <2>1
  <2>4. Settled(w, n)
    BY <1>3, <1>9, <2>1, <2>2, <2>3 DEF Settled
  <2> QED BY <1>7, <2>4
<1>11. CASE n = view /\ (w.op = "move" => view[w.i].v = 0)
  <2>1. Settled(w, n)
    BY <1>1, <1>9, <1>11, Numbers DEF Settled, Inv
  <2> QED BY <1>7, <2>1
<1>12. CASE n = [view EXCEPT ![w.i] = NoItem] /\ w.op = "delete"
  <2>1. n \in View /\ n[w.i] = NoItem /\ \A i \in Items : i # w.i => n[i] = view[i]
    BY <1>1, <1>4, <1>12 DEF View
  <2>2. Within(n)
    BY <1>4, <1>9, <2>1, Numbers DEF Within, Inv
  <2>3. \A i \in Items : n[i].opt => i # w.i /\ n[i] = view[i]
    BY <1>4, <2>1
  <2>4. Settled(w, n)
    BY <1>9, <1>12, <2>1, <2>2, <2>3 DEF Settled
  <2> QED BY <1>7, <2>4
<1> QED BY <1>6, <1>7, <1>10, <1>11, <1>12

LEMMA FailedFacts == ASSUME Inv, NEW w \in own PROVE Settled(w, Refused(view, w))
<1>1. w.prev \in View /\ w.i \in Items /\ w.op \in list.ops /\ view \in View
  BY DEF Inv, TypeInv, Request
<1>3. CASE w.op = "move"
  <2>1. Refused(view, w) = w.prev
    BY <1>3 DEF Refused, handleTaskMoveFails
  <2>2. Within(w.prev) /\ (\A i \in Items : w.prev[i].opt => w.prev[i].v > 0)
        /\ (~overlap => Plain(w.prev))
    BY DEF Inv, OwnInv, OptInv
  <2> QED BY <1>1, <1>3, <2>1, <2>2 DEF Settled, Plain
<1>4. CASE w.op # "move"
  <2>1. Refused(view, w) = view
    BY <1>4 DEF Refused
  <2>2. Within(view) /\ (\A i \in Items : view[i].opt => view[i].v > 0)
    BY DEF Inv, KnownInv, OptInv
  <2> QED BY <1>1, <1>4, <2>1, <2>2 DEF Settled
<1> QED BY <1>3, <1>4

LEMMA SettleStep == ASSUME Inv, NEW w \in own, NEW new, Settled(w, new), Settle(w, new) PROVE Inv'
<1>1. /\ view' = new /\ own' = own \ {w}
      /\ Miss("own", Backwards(view, new) \cup (Before(Latest(new)) \ Before(Latest(view))))
      /\ UNCHANGED <<list, rows, log, now, owed, snap, active, link, overlap>>
  BY DEF Settle, server
<1>2. new \in View /\ Within(new) /\ \A j \in Items : new[j].v \in Nat /\ new[j].at <= now
  BY DEF Settled, View, Item, Within
<1>3. PICK s : s = Backwards(view, new) \cup (Before(Latest(new)) \ Before(Latest(view)))
  OBVIOUS
<1>4. /\ missed' \in [Items -> SUBSET Causes]
      /\ \A i \in Items : missed'[i] = {} /\ (Lags(i)' \/ LagsRead(i)') => missed[i] = {} /\ i \notin s
  <2>1. Miss("own", s) /\ "own" \in Causes /\ TypeInv
    BY <1>1, <1>3 DEF Causes, Inv
  <2> QED BY <2>1, MissFacts
<1>5. \A i : Telling(i)' = Telling(i) /\ (Owed(i)' <=> Owed(i))
  BY <1>1, SameNews
<1>10. TypeInv'
  BY <1>1, <1>2, <1>4 DEF Inv, TypeInv
<1>20. KnownInv'
  BY <1>1, <1>2 DEF Inv, KnownInv, Within
<1>30. WireInv'
  BY <1>1 DEF Inv, WireInv
<1>40. LogInv'
  BY <1>1 DEF Inv, LogInv, Past
<1>50. ItemInv'
  BY <1>1 DEF Inv, ItemInv, Edited
<1>60. OwnInv'
  BY <1>1 DEF Inv, OwnInv, Within, Alone
<1>70. OptInv'
  <2>1. ASSUME ~overlap
        PROVE  \A j \in Items : new[j].opt => \E u \in own' : u.op = "move" /\ u.i = j
    BY <1>1, <2>1 DEF Inv, OptInv, Settled
  <2>2. \A j \in Items : new[j].opt => new[j].v > 0
    BY DEF Settled
  <2>3. ~overlap =>
         /\ \A x, u \in own' : x.op = "move" /\ u.op = "move" => x = u
         /\ \A x \in own' : Plain(x.prev)
    BY <1>1 DEF Inv, OptInv
  <2>4. (\A x \in own' : \A i \in Items : x.prev[i].opt => x.prev[i].v > 0) /\ Plain(snap.ans)
    BY <1>1 DEF Inv, OptInv
  <2> QED BY <1>1, <2>1, <2>2, <2>3, <2>4 DEF OptInv, Plain
<1>80. DueInv'
  <2> SUFFICES ASSUME Live', NEW i \in Items, Lags(i)', ~Excused(i)'
               PROVE  OnWire(i)' \/ Coming(i)'
    BY DEF DueInv
  <2>1. missed[i] = {} /\ ~Owed(i) /\ i \notin s /\ Live /\ (Stale(i)' => Stale(i))
    BY <1>1, <1>4, <1>5 DEF Excused, Live, Stale
  <2>2. Lags(i)
    BY <1>1, <1>2, <1>3, <2>1, Numbers DEF Lags, Backwards, Inv
  <2>3. OnWire(i) \/ Coming(i)
    BY <2>1, <2>2 DEF Inv, DueInv, Excused
  <2>4. CASE OnWire(i)
    BY <1>1, <2>4 DEF OnWire
  <2>5. CASE Coming(i)
    <3>1. PICK e \in Telling(i) : Ahead(e)
      BY <2>5 DEF Coming
    <3>2. TypeInv /\ KnownInv /\ LogInv /\ view \in View /\ \A j \in Items : view[j].at <= now
      BY DEF Inv, TypeInv, KnownInv, Within
    <3>3. i \notin Before(Latest(view))
      BY <2>1, <2>2, <3>1, <3>2, PassedFacts DEF Ahead
    <3>4. i \notin Before(Latest(new))
      BY <1>3, <2>1, <3>3
    <3>5. PICK d \in Telling(i) : Fits(new, d.at)
      BY <1>2, <2>1, <2>2, <3>2, <3>4, PassedFacts
    <3>6. d = e
      BY <3>2, TellingFacts
    <3>7. Ahead(e)'
      BY <1>1, <3>1, <3>5, <3>6 DEF Ahead, Unsent, Fits, WireFits, Held
    <3> QED BY <1>5, <3>7 DEF Coming
  <2> QED BY <2>3, <2>4, <2>5
<1>90. ReadInv'
  BY <1>1, <1>4, ReadStays
<1> QED BY <1>10, <1>20, <1>30, <1>40, <1>50, <1>60, <1>70, <1>80, <1>90 DEF Inv

LEMMA AnswerStep == ASSUME Inv, NEW w \in own, Answer(w) \/ Fail(w) PROVE Inv'
<1>1. CASE Answer(w)
  <2>1. w.st = "applied" /\ Settle(w, Answered(view, w))
    BY <1>1 DEF Answer
  <2> QED BY <2>1, AnsweredFacts, SettleStep
<1>2. CASE Fail(w)
  <2>1. Settle(w, Refused(view, w))
    BY <1>2 DEF Fail
  <2> QED BY <2>1, FailedFacts, SettleStep
<1> QED BY <1>1, <1>2

-----------------------------------------------------------------------------
(* The first read. *)

LEMMA SnapshotsFacts ==
    ASSUME Inv, NEW ans \in Snapshots
    PROVE  /\ ans \in View /\ Plain(ans) /\ Within(ans)
           /\ \A i \in Items : ans[i].v = 0 \/ ans[i].v = rows[i].v
<1>1. PICK s : ans = [i \in Items |-> IF i \in s THEN [v |-> rows[i].v, at |-> rows[i].at, opt |-> FALSE]
                                      ELSE NoItem]
  BY DEF Snapshots
<1>2. ASSUME NEW i \in Items
      PROVE  /\ ans[i] \in Item /\ ans[i].v <= rows[i].v /\ ans[i].at <= now /\ ~ans[i].opt
             /\ ans[i].v = 0 \/ ans[i].v = rows[i].v
  <2>1. CASE i \in s
    <3>1. PICK x : x = [v |-> rows[i].v, at |-> rows[i].at, opt |-> FALSE]
      OBVIOUS
    <3>2. x \in Item /\ x.v = rows[i].v /\ x.at = rows[i].at /\ ~x.opt
      BY <3>1, Numbers DEF Item, Inv
    <3>3. ans[i] = x
      BY <1>1, <2>1, <3>1
    <3> QED BY <3>2, <3>3, Numbers DEF Inv, KnownInv
  <2>2. CASE i \notin s
    <3>1. NoItem \in Item /\ NoItem.v = 0 /\ NoItem.at = 0 /\ ~NoItem.opt
      BY DEF NoItem, Item
    <3>2. ans[i] = NoItem
      BY <1>1, <2>2
    <3> QED BY <3>1, <3>2, Numbers DEF Inv
  <2> QED BY <2>1, <2>2
<1> QED BY <1>1, <1>2 DEF View, Plain, Within

LEMMA ReadSnapshotStep == ASSUME Inv, ReadSnapshot PROVE Inv'
<1>1. /\ snap.st = "sent" /\ \E ans \in Snapshots : snap' = [st |-> "read", ans |-> ans]
      /\ UNCHANGED <<list, rows, log, now, owed, active, link, view, own, overlap>>
      /\ Miss("limit", {i \in On : snap'.ans[i].v = 0})
  BY DEF ReadSnapshot, server
<1>2. PICK ans \in Snapshots : snap' = [st |-> "read", ans |-> ans]
  BY <1>1
<1>3. /\ ans \in View /\ Plain(ans) /\ Within(ans)
      /\ \A i \in Items : ans[i].v = 0 \/ ans[i].v = rows[i].v
  BY SnapshotsFacts
<1>4. snap' \in [st : {"sent", "read", "done", "failed"}, ans : View] /\ snap'.st = "read" /\ snap'.ans = ans
  BY <1>2, <1>3
<1>5. PICK s : s = {i \in On : snap'.ans[i].v = 0}
  OBVIOUS
<1>6. /\ missed' \in [Items -> SUBSET Causes]
      /\ \A i \in Items : missed'[i] = {} /\ (Lags(i)' \/ LagsRead(i)') => missed[i] = {} /\ i \notin s
  <2>1. Miss("limit", s) /\ "limit" \in Causes /\ TypeInv
    BY <1>1, <1>5 DEF Causes, Inv
  <2> QED BY <2>1, MissFacts
<1>7. \A i : Telling(i)' = Telling(i) /\ (Owed(i)' <=> Owed(i))
  BY <1>1, SameNews
<1>10. TypeInv'
  BY <1>1, <1>4, <1>6 DEF Inv, TypeInv
<1>20. KnownInv'
  BY <1>1, <1>3, <1>4 DEF Inv, KnownInv, Within
<1>30. WireInv'
  BY <1>1, <1>4 DEF Inv, WireInv
<1>40. LogInv'
  BY <1>1 DEF Inv, LogInv, Past
<1>50. ItemInv'
  BY <1>1 DEF Inv, ItemInv, Edited
<1>60. OwnInv'
  BY <1>1 DEF Inv, OwnInv, Within, New, Alone
<1>70. OptInv'
  BY <1>1, <1>3, <1>4 DEF Inv, OptInv, Plain
<1>80. DueInv'
  <2> SUFFICES ASSUME Live', NEW i \in Items, Lags(i)', ~Excused(i)'
               PROVE  OnWire(i)' \/ Coming(i)'
    BY DEF DueInv
  <2>1. Live /\ Lags(i) /\ ~Excused(i)
    BY <1>1, <1>4, <1>6, <1>7 DEF Live, Lags, Stale, Excused
  <2>2. OnWire(i) => OnWire(i)'
    BY <1>1 DEF OnWire
  <2>3. \A e \in Telling(i) : Ahead(e) => Ahead(e)'
    BY <1>1 DEF Ahead, Unsent, Fits, WireFits, Held
  <2> QED BY <1>7, <2>1, <2>2, <2>3 DEF Inv, DueInv, Coming
<1>90. ReadInv'
  <2> SUFFICES ASSUME NEW i \in Items, LagsRead(i)', missed'[i] = {}
               PROVE  FALSE
    BY DEF ReadInv, Excused
  <2>1. rows[i].on /\ ans[i].v < rows[i].v
    BY <1>1, <1>4 DEF LagsRead
  <2>2. ans[i].v = 0
    BY <1>3, <2>1, Numbers DEF Inv
  <2>3. i \in s
    BY <1>4, <1>5, <2>1, <2>2 DEF On
  <2> QED BY <1>6, <2>3
<1> QED BY <1>10, <1>20, <1>30, <1>40, <1>50, <1>60, <1>70, <1>80, <1>90 DEF Inv

LEMMA NothingFacts == NoItems \in View /\ \A j \in Items : NoItems[j].v = 0 /\ NoItems[j].at = 0 /\ ~NoItems[j].opt
  BY DEF NoItems, NoItem, View, Item

LEMMA loadBoardFailsStep == ASSUME Inv, loadBoardFails PROVE Inv'
<1>1. /\ snap.st \in {"sent", "read"} /\ snap' = [st |-> "failed", ans |-> NoItems] /\ Because(missed)
      /\ UNCHANGED <<list, rows, log, now, owed, active, link, view, own, overlap>>
  BY DEF loadBoardFails, server
<1>2. PICK s \in View : s = NoItems /\ \A j \in Items : s[j].v = 0 /\ s[j].at = 0 /\ ~s[j].opt
  BY NothingFacts
<1>3. snap' \in [st : {"sent", "read", "done", "failed"}, ans : View] /\ snap'.st = "failed" /\ snap'.ans = s
  BY <1>1, <1>2
<1>4. /\ missed' \in [Items -> SUBSET Causes]
      /\ \A i \in Items : Lags(i)' \/ LagsRead(i)' => missed'[i] = missed[i]
  BY <1>1, MarksFacts DEF Inv, TypeInv
<1>5. \A i : Telling(i)' = Telling(i) /\ (Owed(i)' <=> Owed(i))
  BY <1>1, SameNews
<1>10. TypeInv'
  BY <1>1, <1>3, <1>4 DEF Inv, TypeInv
<1>20. KnownInv'
  BY <1>1, <1>2, <1>3, Numbers DEF Inv, KnownInv, Within
<1>30. WireInv'
  BY <1>1, <1>3 DEF Inv, WireInv
<1>40. LogInv'
  BY <1>1 DEF Inv, LogInv, Past
<1>50. ItemInv'
  BY <1>1 DEF Inv, ItemInv, Edited
<1>60. OwnInv'
  BY <1>1 DEF Inv, OwnInv, Within, New, Alone
<1>70. OptInv'
  BY <1>1, <1>2, <1>3 DEF Inv, OptInv, Plain
<1>80. DueInv'
  <2> SUFFICES ASSUME Live', NEW i \in Items, Lags(i)', ~Excused(i)'
               PROVE  OnWire(i)' \/ Coming(i)'
    BY DEF DueInv
  <2>1. Live /\ Lags(i) /\ ~Excused(i)
    BY <1>1, <1>3, <1>4, <1>5 DEF Live, Lags, Stale, Excused
  <2>2. OnWire(i) => OnWire(i)'
    BY <1>1 DEF OnWire
  <2>3. \A e \in Telling(i) : Ahead(e) => Ahead(e)'
    BY <1>1 DEF Ahead, Unsent, Fits, WireFits, Held
  <2> QED BY <1>5, <2>1, <2>2, <2>3 DEF Inv, DueInv, Coming
<1>90. ReadInv'
  BY <1>3 DEF ReadInv, LagsRead
<1> QED BY <1>10, <1>20, <1>30, <1>40, <1>50, <1>60, <1>70, <1>80, <1>90 DEF Inv

(* The list is what was read, and the connection starts again; or what was  *)
(* read is added to a list of items that never change.                      *)
LEMMA loadBoardStep == ASSUME Inv, loadBoard PROVE Inv'
<1>1. /\ snap.st = "read" /\ snap' = [st |-> "done", ans |-> NoItems]
      /\ view' = Load(view, snap.ans)
      /\ link' = IF list.rerun THEN Effect(active, "done", view') ELSE link
      /\ Because(missed)
      /\ UNCHANGED <<list, rows, log, now, owed, active, own, overlap>>
  BY DEF loadBoard, server
<1>2. snap' \in [st : {"sent", "read", "done", "failed"}, ans : View] /\ snap'.st = "done" /\ snap'.ans = NoItems
  BY <1>1, NothingFacts
<1>3. \A j \in Items : NoItems[j].v = 0 /\ NoItems[j].at = 0 /\ ~NoItems[j].opt
  BY NothingFacts
<1>4. /\ view \in View /\ snap.ans \in View /\ Within(view) /\ Within(snap.ans) /\ Plain(snap.ans)
      /\ active \in BOOLEAN /\ now \in Nat /\ list.rerun \in BOOLEAN
  BY ListFacts DEF Inv, TypeInv, KnownInv, OptInv
<1>5. /\ view' \in View
      /\ \A j \in Items : \/ view'[j] = snap.ans[j]
                          \/ view'[j] = view[j] /\ snap.ans[j].v <= 0 /\ list.reads # "replaces"
      /\ list.reads = "replaces" => view' = snap.ans
  BY <1>1, <1>4 DEF Load, View, Item
<1>6. /\ \A j \in Items : view'[j].at <= now /\ view'[j].v <= rows[j].v
      /\ \A j \in Items : view'[j].opt => view'[j] = view[j]
  BY <1>4, <1>5 DEF Within, Plain
<1>7. list.rerun <=> list.reads = "replaces"
  BY ListFacts DEF Inv, TypeInv
<1>8. /\ link' \in Link /\ NoCursor <= link'.last /\ link'.last <= now
      /\ ~active => link'.st = "off"
      /\ list.rerun => /\ link'.st # "open" /\ link'.seen = {} /\ link'.wire = <<>>
                       /\ CursorOf(link'.last, view') \/ link'.last = NoCursor
      /\ ~list.rerun => link' = link
  <2>1. CASE list.rerun
    <3>1. /\ Effect(active, "done", view') \in Link /\ Effect(active, "done", view').st # "open"
          /\ Effect(active, "done", view').seen = {} /\ Effect(active, "done", view').wire = <<>>
          /\ NoCursor <= Effect(active, "done", view').last /\ Effect(active, "done", view').last <= now
          /\ CursorOf(Effect(active, "done", view').last, view') \/ Effect(active, "done", view').last = NoCursor
          /\ ~active => Effect(active, "done", view').st = "off"
      <4>1. view' \in View /\ (\A i \in Items : view'[i].at <= now) /\ now \in Nat /\ active \in BOOLEAN
        BY <1>4, <1>5, <1>6
      <4> QED BY <4>1, EffectFacts, Zenon
    <3>2. link' = Effect(active, "done", view')
      BY <1>1, <2>1
    <3> QED BY <2>1, <3>1, <3>2
  <2>2. CASE ~list.rerun
    BY <1>1, <2>2 DEF Inv, TypeInv, KnownInv, WireInv
  <2> QED BY <2>1, <2>2
<1>9. /\ missed' \in [Items -> SUBSET Causes]
      /\ \A i \in Items : Lags(i)' \/ LagsRead(i)' => missed'[i] = missed[i]
  BY <1>1, MarksFacts DEF Inv, TypeInv
<1>11. \A i : Telling(i)' = Telling(i) /\ (Owed(i)' <=> Owed(i))
  BY <1>1, SameNews
<1>10. TypeInv'
  BY <1>1, <1>2, <1>5, <1>8, <1>9 DEF Inv, TypeInv
<1>20. KnownInv'
  <2>1. \A j \in Items : NoItems[j].v <= rows[j].v /\ NoItems[j].at <= now
    BY <1>3, Numbers DEF Inv
  <2> QED BY <1>1, <1>2, <1>6, <1>8, <2>1 DEF Inv, KnownInv, Within
<1>30. WireInv'
  <2>1. CASE list.rerun
    <3>1. DOMAIN link'.wire = {}
      BY <1>8, <2>1, EmptyWire
    <3> QED BY <1>1, <1>2, <1>8, <2>1, <3>1 DEF WireInv
  <2>2. CASE ~list.rerun
    BY <1>1, <1>2, <1>8, <2>2 DEF Inv, WireInv
  <2> QED BY <2>1, <2>2
<1>40. LogInv'
  <2>1. CASE list.rerun
    BY <1>1, <1>8, <2>1 DEF Inv, LogInv, Past
  <2>2. CASE ~list.rerun
    BY <1>1, <1>8, <2>2 DEF Inv, LogInv, Past
  <2> QED BY <2>1, <2>2
<1>50. ItemInv'
  BY <1>1 DEF Inv, ItemInv, Edited
<1>60. OwnInv'
  BY <1>1 DEF Inv, OwnInv, Within, New, Alone
<1>70. OptInv'
  <2>1. \A j \in Items : view'[j].opt => view[j].opt /\ view'[j].v > 0
    BY <1>6 DEF Inv, OptInv
  <2> QED BY <1>1, <1>2, <1>3, <2>1 DEF Inv, OptInv, Plain
<1>80. DueInv'
  <2> SUFFICES ASSUME Live', NEW i \in Items, Lags(i)', ~Excused(i)'
               PROVE  OnWire(i)' \/ Coming(i)'
    BY DEF DueInv
  <2>1. ~Excused(i) /\ rows[i].on
    BY <1>1, <1>9, <1>11 DEF Lags, Excused
  <2>2. CASE list.rerun
    <3>1. DOMAIN link'.wire = {} /\ link'.seen = {}
      BY <1>8, <2>2, EmptyWire
    <3>2. view' = snap.ans /\ LagsRead(i)
      BY <1>1, <1>5, <1>7, <2>1, <2>2, <3>1 DEF Lags, Stale, LagsRead
    <3>3. PICK e \in Telling(i) : Fits(snap.ans, e.at)
      BY <2>1, <3>2 DEF Inv, ReadInv
    <3>4. e.at \in Nat
      BY TellingFacts DEF Inv
    <3>5. link'.last <= e.at
      <4>1. CASE link'.last = NoCursor
        BY <3>4, <4>1 DEF NoCursor
      <4>2. CASE CursorOf(link'.last, view')
        BY <3>2, <3>3, <3>4, <4>2 DEF CursorOf, Fits, NoCursor
      <4> QED BY <1>8, <2>2, <4>1, <4>2
    <3>6. Ahead(e)'
      BY <3>1, <3>2, <3>3, <3>5 DEF Ahead, Unsent, Fits, WireFits, Held
    <3> QED BY <1>11, <3>6 DEF Coming
  <2>3. CASE ~list.rerun
    <3>1. list.reads = "merges" /\ ~Edited /\ list.sends = "again" /\ link' = link /\ Live
      BY <1>7, <1>8, <2>3, ListFacts DEF Inv, TypeInv, Live
    <3>2. rows[i].v <= 1
      BY <3>1 DEF Inv, ItemInv
    <3>3. ~Stale(i)'
      <4> SUFFICES ASSUME NEW n \in DOMAIN link.wire, link.wire[n].i = i, link.wire[n].v < rows[i].v
                   PROVE  FALSE
        BY <1>1, <3>1 DEF Stale
      <4>1. link.wire[n] \in Packet /\ link.wire[n].v > 0
        BY DEF Inv, TypeInv, Link, WireInv
      <4> QED BY <3>2, <4>1, Numbers DEF Packet, Inv
    <3>4. view'[i].v = 0 /\ rows[i].v > 0
      <4>1. view'[i].v \in Nat /\ view'[i].v < rows[i].v
        BY <1>1, <1>5, <3>3 DEF Lags, View, Item
      <4> QED BY <3>2, <4>1, Numbers DEF Inv
    <3>5. view'[i] = IF snap.ans[i].v > 0 THEN snap.ans[i] ELSE view[i]
      BY <1>1, <3>1 DEF Load
    <3>6. view[i].v = 0 /\ snap.ans[i].v = 0
      BY <3>4, <3>5, Numbers DEF Inv
    <3>7. Lags(i) /\ LagsRead(i)
      BY <1>1, <2>1, <3>4, <3>6 DEF Lags, LagsRead
    <3>8. CASE OnWire(i)
      BY <1>1, <3>1, <3>8 DEF OnWire
    <3>9. CASE ~OnWire(i)
      <4>1. PICK e \in Telling(i) : Ahead(e)
        BY <2>1, <3>1, <3>7, <3>9 DEF Inv, DueInv, Coming
      <4>2. PICK d \in Telling(i) : Fits(snap.ans, d.at)
        BY <2>1, <3>7 DEF Inv, ReadInv
      <4>3. d = e
        BY TellingFacts DEF Inv
      <4>4. Fits(view', e.at)
        BY <1>5, <4>1, <4>2, <4>3 DEF Ahead, Fits, Held
      <4>5. Ahead(e)'
        BY <1>1, <3>1, <4>1, <4>4 DEF Ahead, Unsent, Fits, WireFits, Held
      <4> QED BY <1>11, <4>5 DEF Coming
    <3> QED BY <3>8, <3>9
  <2> QED BY <1>4, <2>2, <2>3
<1>90. ReadInv'
  BY <1>2 DEF ReadInv, LagsRead
<1> QED BY <1>10, <1>20, <1>30, <1>40, <1>50, <1>60, <1>70, <1>80, <1>90 DEF Inv

-----------------------------------------------------------------------------
(* The invariant holds initially and is kept. *)

LEMMA InitInv == Init => Inv
<1> SUFFICES ASSUME Init PROVE Inv
  OBVIOUS
<1>1. /\ list \in AllLists /\ log = {} /\ now = 0 /\ view = NoItems /\ active = TRUE
      /\ snap = [st |-> "sent", ans |-> NoItems] /\ link = Effect(TRUE, "sent", NoItems)
      /\ own = {} /\ owed = {} /\ missed = [i \in Items |-> {}] /\ overlap = FALSE
  BY DEF Init
<1>2. PICK first \in First :
        rows = [i \in Items |-> IF i \in first THEN [v |-> 1, at |-> 0, born |-> 0, on |-> TRUE] ELSE NoRow]
  BY DEF Init
<1>3. /\ rows \in [Items -> Row]
      /\ \A i \in Items : /\ rows[i].v \in {0, 1} /\ rows[i].at = 0 /\ rows[i].born = 0
                          /\ rows[i].on => rows[i].v > 0
  <2>1. ASSUME NEW i \in Items
        PROVE  rows[i] \in Row /\ rows[i].v \in {0, 1} /\ rows[i].at = 0 /\ rows[i].born = 0
               /\ (rows[i].on => rows[i].v > 0)
    <3>1. CASE i \in first
      BY <1>2, <3>1 DEF Row
    <3>2. CASE i \notin first
      BY <1>2, <3>2 DEF Row, NoRow
    <3> QED BY <3>1, <3>2
  <2> QED BY <1>2, <2>1
<1>4. NoItems \in View /\ \A j \in Items : NoItems[j].v = 0 /\ NoItems[j].at = 0 /\ ~NoItems[j].opt
  BY NothingFacts
<1>5. /\ link \in Link /\ link.st # "open" /\ link.seen = {} /\ link.wire = <<>>
      /\ NoCursor <= link.last /\ link.last <= 0
      /\ list.needs = "board" => link.st = "off"
  <2>1. (\A i \in Items : NoItems[i].at <= 0) /\ 0 \in Nat /\ TRUE \in BOOLEAN
    BY <1>4
  <2>2. /\ Effect(TRUE, "sent", NoItems) \in Link /\ Effect(TRUE, "sent", NoItems).st # "open"
        /\ Effect(TRUE, "sent", NoItems).seen = {} /\ Effect(TRUE, "sent", NoItems).wire = <<>>
        /\ NoCursor <= Effect(TRUE, "sent", NoItems).last /\ Effect(TRUE, "sent", NoItems).last <= 0
        /\ list.needs = "board" /\ "sent" # "done" => Effect(TRUE, "sent", NoItems).st = "off"
    BY <1>4, <2>1, EffectFacts, Zenon
  <2> QED BY <1>1, <2>2
<1>6. DOMAIN link.wire = {}
  BY <1>5, EmptyWire
<1>7. snap \in [st : {"sent", "read", "done", "failed"}, ans : View] /\ snap.st = "sent" /\ snap.ans = NoItems
  BY <1>1, <1>4
<1>10. TypeInv
  BY <1>1, <1>3, <1>4, <1>5, <1>7, FS_EmptySet DEF TypeInv
<1>20. KnownInv
  <2>1. \A i \in Items : rows[i].born <= rows[i].at /\ rows[i].at <= now /\ (rows[i].on => rows[i].v > 0)
    BY <1>1, <1>3
  <2>2. \A i \in Items : NoItems[i].v <= rows[i].v /\ NoItems[i].at <= now
    BY <1>1, <1>3, <1>4
  <2>3. NoCursor <= link.last /\ link.last <= now
    BY <1>1, <1>5
  <2> QED BY <1>1, <1>7, <2>1, <2>2, <2>3 DEF KnownInv, Within
<1>30. WireInv
  BY <1>1, <1>5, <1>6, <1>7 DEF WireInv
<1>40. LogInv
  BY <1>1, <1>5 DEF LogInv
<1>50. ItemInv
  BY <1>3 DEF ItemInv
<1>60. OwnInv
  BY <1>1 DEF OwnInv
<1>70. OptInv
  BY <1>1, <1>4, <1>7 DEF OptInv, Plain
<1>80. DueInv
  <2> SUFFICES ASSUME Live, NEW i \in Items PROVE Coming(i)
    BY DEF DueInv
  <2>1. list.sends # "once"
    BY <1>7 DEF Live
  <2>2. PICK e : e = [i |-> i, at |-> rows[i].at, n |-> 0]
    OBVIOUS
  <2>3. e \in Telling(i) /\ e.at = 0
    BY <1>3, <2>1, <2>2 DEF Telling
  <2>4. Unsent(e)
    BY <2>1 DEF Unsent
  <2>5. link.last <= e.at
    BY <1>5, <2>3
  <2>6. view = NoItems
    BY <1>1
  <2>7. Held(view) = {}
    <3>1. \A j \in Items : ~(view[j].v > 0)
      BY <1>4, <2>6
    <3> QED BY <3>1, Zenon DEF Held
  <2>8. Fits(view, e.at)
    BY <2>7, Zenon DEF Fits
  <2>9. WireFits(e.at)
    BY <1>6, Zenon DEF WireFits
  <2>10. Ahead(e)
    BY <2>4, <2>5, <2>8, <2>9, Zenon DEF Ahead
  <2> QED BY <2>3, <2>10 DEF Coming
<1>90. ReadInv
  BY <1>7 DEF ReadInv, LagsRead
<1> QED BY <1>10, <1>20, <1>30, <1>40, <1>50, <1>60, <1>70, <1>80, <1>90 DEF Inv

LEMMA StutterStep == ASSUME Inv, UNCHANGED vars PROVE Inv'
<1>1. UNCHANGED <<list, rows, log, now, owed, snap, active, link, view, own, missed, overlap>>
  BY DEF vars, server
<1>2. TypeInv'
  BY <1>1 DEF Inv, TypeInv
<1>3. StreamInv'
  BY <1>1, StreamStays
<1>4. OwnInv' /\ OptInv'
  BY <1>1 DEF Inv, OwnInv, Within, New, Alone, OptInv, Plain
<1> QED BY <1>2, <1>3, <1>4 DEF Inv, StreamInv

LEMMA NextInv == Inv /\ [Next]_vars => Inv'
<1> SUFFICES ASSUME Inv, [Next]_vars PROVE Inv'
  OBVIOUS
<1>1. CASE ReadSnapshot \/ loadBoard \/ loadBoardFails
  BY <1>1, ReadSnapshotStep, loadBoardStep, loadBoardFailsStep
<1>2. CASE Deactivate \/ Activate
  BY <1>2, DeactivateStep, ActivateStep
<1>3. CASE Accept \/ Poll \/ Deliver \/ Ping \/ Reconnect
  BY <1>3, AcceptStep, PollStep, DeliverStep, PingStep, ReconnectStep
<1>4. CASE \E how \in {"error", "end"} : Break(how)
  BY <1>4, BreakStep
<1>5. CASE \E i \in Items : RemoteChange(i) \/ RemoteQuiet(i) \/ RemoteDelete(i)
  BY <1>5, RemoteChangeStep, RemoteQuietStep, RemoteDeleteStep
<1>6. CASE \E i \in Items, op \in UNION {s.ops : s \in AllLists} : Begin(op, i)
  BY <1>6, BeginStep
<1>7. CASE \E w \in own : Takes(w) \/ TakesDelete(w) \/ Refuses(w) \/ Answer(w) \/ Fail(w)
  BY <1>7, TakesStep, TakesDeleteStep, RefusesStep, AnswerStep
<1>8. CASE \E e \in owed : RecordEvent(e)
  BY <1>8, RecordEventStep
<1>9. CASE UNCHANGED vars
  BY <1>9, StutterStep
<1> QED BY <1>1, <1>2, <1>3, <1>4, <1>5, <1>6, <1>7, <1>8, <1>9 DEF Next

(* The invariant holds of the page in every behaviour. *)
LEMMA Invariance == Spec => []Inv
  BY InitInv, NextInv, PTL DEF Spec

-----------------------------------------------------------------------------
(* The theorems. *)

(* TypeOK: every piece of the state of a live list keeps its shape, and the *)
(* reconnection delay stays between the base delay and its limit.           *)
THEOREM Types == Spec => []TypeOK
<1>1. Inv => TypeOK
  <2> SUFFICES ASSUME Inv PROVE TypeOK
    OBVIOUS
  <2>1. /\ list \in AllLists /\ active \in BOOLEAN /\ snap.st \in {"sent", "read", "done", "failed"}
        /\ missed \in [Items -> SUBSET Causes] /\ overlap \in BOOLEAN
    BY DEF Inv, TypeInv
  <2>2. \A i \in Items : rows[i].v \in Nat /\ rows[i].born <= rows[i].at /\ rows[i].at <= now
    BY Numbers DEF Inv, KnownInv
  <2>3. /\ link.st \in {"off", "asking", "open", "wait", "ended"} /\ link.attempt \in 0..MaxAttempt
        /\ link.last \in NoCursor..now
    BY Numbers DEF Inv, TypeInv, Link, KnownInv
  <2>4. nextDelayMs(link.attempt) \in 1..MaxDelay
    BY <2>3, DelayFacts
  <2>5. view \in [Items -> [v : Nat, at : 0..now, opt : BOOLEAN]]
    <3>1. view \in [Items -> Item] /\ now \in Nat /\ \A i \in Items : view[i].at <= now
      BY DEF Inv, TypeInv, View, KnownInv, Within
    <3>2. \A i \in Items : view[i] \in [v : Nat, at : 0..now, opt : BOOLEAN]
      BY <3>1 DEF Item
    <3> QED BY <3>1, <3>2
  <2> QED BY <2>1, <2>2, <2>3, <2>4, <2>5 DEF TypeOK
<1> QED BY <1>1, Invariance, PTL

(* CaughtUp: a stream that is connected and idle, with nothing new to send, *)
(* has left no item of the server's behind, but one marked since its last   *)
(* announced change (an unannounced or a late change, a full first read, a  *)
(* connection without a cursor or cut on the item's way, an own answer), or *)
(* a task whose event is still to be recorded.                              *)
THEOREM StreamCatchesUp == Spec => []CaughtUp
<1>1. Inv => CaughtUp
  <2> SUFFICES ASSUME Inv, Quiet, \A e \in Selected : list.sends = "again" /\ view[e.i].v = rows[e.i].v,
                      NEW i \in Lagging(rows, view), ~Excused(i)
               PROVE  FALSE
    BY DEF CaughtUp, Excused
  <2>1. i \in Items /\ rows[i].on /\ view[i].v < rows[i].v
    BY DEF Lagging
  <2>2. ~OnWire(i)
    BY EmptyWire DEF Quiet, OnWire
  <2>3. Coming(i)
    BY <2>1, <2>2 DEF Inv, DueInv, Live, Quiet, Lags
  <2>4. \E e \in Selected : e.i = i
    BY <2>1, <2>3, ComingFacts DEF Inv
  <2> QED BY <2>1, <2>4, Numbers DEF Inv
<1> QED BY <1>1, Invariance, PTL

(* NoPhantomMove: once no move is in flight every card is where the server  *)
(* has it, unless another request was made during the move.                 *)
THEOREM MovedCardsSettle == Spec => []NoPhantomMove
<1>1. Inv => NoPhantomMove
  BY DEF Inv, OptInv, NoPhantomMove
<1> QED BY <1>1, Invariance, PTL

-----------------------------------------------------------------------------
(* The list is a replica. *)

Truth  == [i \in Items |-> rows[i].v]
Shown  == [i \in Items |-> view[i].v]
Asking == own # {} \/ snap.st \in {"sent", "read"} \/ Overtaken

LEMMA ReplicaVars ==
    /\ R!ReplicaInit <=> /\ Truth \in [Items -> Nat] /\ Shown = [i \in Items |-> 0] /\ Asking \in BOOLEAN
    /\ R!replica = <<Truth, Shown, Asking>>
    /\ R!Change <=> /\ Shown' = Shown /\ Asking' = Asking
                    /\ Truth' \in [Items -> Nat] /\ \A i \in Items : Truth'[i] >= Truth[i]
    /\ R!Learn <=> /\ Truth' = Truth /\ Asking' = Asking
                   /\ Shown' \in [Items -> Nat] /\ (\A i \in Items : Shown'[i] <= Truth[i])
                   /\ \A i \in Items : Shown'[i] >= Shown[i]
    /\ R!Ask <=> Asking' = TRUE /\ Truth' = Truth /\ Shown' = Shown
    /\ R!Reply <=> /\ Asking /\ Asking' \in BOOLEAN /\ Truth' = Truth
                   /\ Shown' \in [Items -> Nat] /\ \A i \in Items : Shown'[i] <= Truth[i]
  BY DEF R!ReplicaInit, R!replica, R!Change, R!Learn, R!Ask, R!Reply, R!Shows, Truth, Shown, Asking

Shapes ==
    /\ Truth \in [Items -> Nat] /\ Shown \in [Items -> Nat]
    /\ \A i \in Items : Truth[i] = rows[i].v /\ Shown[i] = view[i].v /\ Shown[i] <= Truth[i]
LEMMA ReplicaTypes == Inv => Shapes
  BY Numbers DEF Shapes, Truth, Shown, Inv, KnownInv, Within

(* Who changes the truth, or what is shown, and when. *)
Rests   == Truth' = Truth /\ Shown' = Shown
Changes == /\ Shown' = Shown /\ (Asking' <=> Asking)
           /\ \A i \in Items : rows'[i].v >= rows[i].v
Replies == Asking /\ Truth' = Truth
Learns  == /\ Truth' = Truth /\ (Asking' <=> Asking)
           /\ \A i \in Items : view'[i].v >= view[i].v

LEMMA ReplicaStep ==
    ASSUME Inv, Inv', Rests \/ Changes \/ Replies \/ Learns
    PROVE  [R!ReplicaNext]_(R!replica)
<1>1. /\ Truth \in [Items -> Nat] /\ Shown \in [Items -> Nat]
      /\ \A i \in Items : Truth[i] = rows[i].v /\ Shown[i] = view[i].v
  BY ReplicaTypes DEF Shapes
<1>2. /\ Truth' \in [Items -> Nat] /\ Shown' \in [Items -> Nat]
      /\ \A i \in Items : Truth'[i] = rows'[i].v /\ Shown'[i] = view'[i].v /\ Shown'[i] <= Truth'[i]
  <2>1. Shapes'
    BY ReplicaTypes, PTL
  <2> QED BY <2>1 DEF Shapes
<1>3. Asking' \in BOOLEAN
  BY DEF Asking
<1>4. ASSUME Asking' <=> Asking PROVE Asking' = Asking
  BY <1>4 DEF Asking
<1>5. CASE Changes
  BY <1>1, <1>2, <1>4, <1>5, ReplicaVars DEF Changes, R!ReplicaNext
<1>6. CASE Replies
  BY <1>2, <1>3, <1>6, ReplicaVars DEF Replies, R!ReplicaNext
<1>7. CASE Learns
  BY <1>1, <1>2, <1>4, <1>7, ReplicaVars DEF Learns, R!ReplicaNext
<1>8. CASE Rests
  <2>1. CASE Asking
    BY <1>6, <1>8, <2>1 DEF Rests, Replies
  <2>2. CASE ~Asking /\ Asking'
    <3>1. Asking' = TRUE
      BY <2>2 DEF Asking
    <3> QED BY <1>8, <3>1, ReplicaVars DEF Rests, R!ReplicaNext
  <2>3. CASE ~Asking /\ ~Asking'
    BY <1>4, <1>8, <2>3 DEF Rests, Truth, Shown, Asking, R!replica
  <2> QED BY <2>1, <2>2, <2>3
<1> QED BY <1>5, <1>6, <1>7, <1>8

(* An event is never older than what a page that asks for nothing shows: it *)
(* learns, and no event left on the wire is older either.                   *)
LEMMA DeliverLearns == ASSUME Inv, Deliver, ~Asking PROVE Learns
<1>1. PICK p \in Packet : Delivers(p)
  BY DeliverFacts
<1> USE DEF Delivers
<1>2. UNCHANGED <<rows, own, snap>>
  BY DEF Deliver, server
<1>3. ASSUME NEW m \in DOMAIN link.wire
      PROVE  link.wire[m].i \in Items /\ link.wire[m].v \in Nat /\ link.wire[m].v >= view[link.wire[m].i].v
  <2>1. link.wire[m] \in Packet
    BY DEF Inv, TypeInv, Link
  <2>2. ~(link.wire[m].v < view[link.wire[m].i].v)
    BY DEF Asking, Overtaken
  <2> QED BY <2>1, <2>2, Numbers DEF Packet, Inv
<1>4. \A i \in Items : i # p.i => view'[i] = view[i]
  BY <1>1 DEF Merged
<1>5. p.i \in Items /\ p.v \in Nat /\ p.v >= view[p.i].v /\ (view'[p.i] = view[p.i] \/ view'[p.i].v = p.v)
  BY <1>1, <1>3 DEF Merged
<1>6. \A i \in Items : view'[i].v >= view[i].v
  BY <1>4, <1>5, Numbers DEF Inv
<1>7. ASSUME NEW n \in DOMAIN link'.wire PROVE ~(link'.wire[n].v < view'[link'.wire[n].i].v)
  <2>1. PICK m \in DOMAIN link.wire : link'.wire[n] = link.wire[m]
    BY <1>1
  <2>2. CASE link.wire[m].i # p.i
    BY <1>3, <1>4, <2>1, <2>2, Numbers DEF Inv
  <2>3. CASE link.wire[m].i = p.i
    <3>1. link.wire[m].v = p.v
      BY <1>1, <2>3 DEF Inv, WireInv
    <3> QED BY <1>5, <2>1, <2>3, <3>1, Numbers DEF Inv
  <2> QED BY <2>2, <2>3
<1>8. ~Asking'
  BY <1>2, <1>7 DEF Asking, Overtaken
<1> QED BY <1>2, <1>6, <1>8 DEF Learns, Truth

(* The server changes its items, and the page has not heard of it. *)
LEMMA ServerChanges ==
    ASSUME UNCHANGED <<snap, link, view>>, own' # {} <=> own # {},
           \A i \in Items : rows'[i].v >= rows[i].v
    PROVE  Changes
  BY DEF Changes, Shown, Asking, Overtaken

LEMMA WritesGrow ==
    ASSUME Inv, NEW i \in Items, NEW t \in StampsOf(i), NEW how, Writes(i, t, how)
    PROVE  \A j \in Items : rows'[j].v >= rows[j].v
<1>1. Stamps(rows', i, t)
  BY StampsFacts, StampFacts DEF Writes, Inv
<1> QED BY <1>1, Numbers DEF Stamps, Inv

LEMMA DeletesKeep ==
    ASSUME Inv, NEW i \in Items, Deletes(i)
    PROVE  \A j \in Items : rows'[j].v >= rows[j].v
<1>1. \A j \in Items : rows'[j].v = rows[j].v
  BY DEF Deletes, Inv, TypeInv, Row
<1> QED BY <1>1, Numbers DEF Inv

LEMMA NextRefines ==
    ASSUME Inv, [Next]_vars PROVE Rests \/ Changes \/ Replies \/ Learns
<1>1. CASE ReadSnapshot \/ loadBoardFails \/ Deactivate \/ Activate \/ Accept \/ Poll \/ Ping \/ Reconnect
  BY <1>1 DEF ReadSnapshot, loadBoardFails, Deactivate, Activate, Accept, Poll, Ping, Reconnect, server,
              Rests, Truth, Shown
<1>2. CASE loadBoard
  BY <1>2 DEF loadBoard, server, Replies, Asking, Truth
<1>3. CASE Deliver
  <2>1. CASE Asking
    BY <1>3, <2>1 DEF Deliver, server, Replies, Truth
  <2>2. CASE ~Asking
    BY <1>3, <2>2, DeliverLearns
  <2> QED BY <2>1, <2>2
<1>4. CASE \E how \in {"error", "end"} : Break(how)
  BY <1>4 DEF Break, server, Rests, Truth, Shown
<1>5. ASSUME NEW i \in Items, RemoteChange(i) PROVE Changes
  <2>1. PICK t \in StampsOf(i), how \in Ways : Writes(i, t, how)
    BY <1>5 DEF RemoteChange
  <2>2. UNCHANGED <<snap, link, view, own>>
    BY <1>5 DEF RemoteChange
  <2> QED BY <2>1, <2>2, WritesGrow, ServerChanges
<1>6. ASSUME NEW i \in Items, RemoteQuiet(i) PROVE Changes
  <2>1. /\ UNCHANGED <<snap, link, view, own>> /\ rows[i].on /\ now' = now + 1
        /\ rows' = Stamped(i, rows[i].at)
    BY <1>6 DEF RemoteQuiet, Writes
  <2>2. Stamps(rows', i, rows[i].at)
    BY <2>1, StampFacts, Numbers DEF Inv
  <2>3. \A j \in Items : rows'[j].v >= rows[j].v
    BY <2>2, Numbers DEF Stamps, Inv
  <2> QED BY <2>1, <2>3, ServerChanges
<1>7. ASSUME NEW i \in Items, RemoteDelete(i) PROVE Changes
  <2>1. Deletes(i) /\ UNCHANGED <<snap, link, view, own>>
    BY <1>7 DEF RemoteDelete
  <2> QED BY <2>1, DeletesKeep, ServerChanges
<1>8. ASSUME NEW i \in Items, NEW op, Begin(op, i) PROVE Rests
  <2>1. \A j \in Items : view'[j].v = view[j].v
    <3>1. CASE op = "move"
      <4>1. view' = [view EXCEPT ![i].opt = TRUE]
        BY <1>8, <3>1 DEF Begin, handleTaskMove
      <4> QED BY <4>1 DEF Inv, TypeInv, View, Item
    <3>2. CASE op # "move"
      BY <1>8, <3>2 DEF Begin
    <3> QED BY <3>1, <3>2
  <2> QED BY <1>8, <2>1 DEF Begin, server, Rests, Truth, Shown
<1>9. ASSUME NEW w \in own, Refuses(w) PROVE Rests
  BY <1>9 DEF Refuses, server, Rests, Truth, Shown
<1>10. ASSUME NEW w \in own, Answer(w) \/ Fail(w) PROVE Replies
  BY <1>10 DEF Answer, Fail, Settle, server, Replies, Asking, Truth
<1>11. CASE UNCHANGED vars
  BY <1>11 DEF vars, server, Rests, Truth, Shown
<1>12. ASSUME NEW e \in owed, RecordEvent(e) PROVE Rests
  BY <1>12 DEF RecordEvent, Rests, Truth, Shown
<1>13. ASSUME NEW w \in own, Takes(w) \/ TakesDelete(w) PROVE Changes
  <2>1. w.i \in Items
    BY DEF Inv, TypeInv, Request
  <2>2. UNCHANGED <<snap, link, view>> /\ own # {} /\ own' # {}
    BY <1>13 DEF Takes, TakesDelete
  <2>3. CASE Takes(w)
    <3>1. PICK t \in StampsOf(w.i), how \in Ways : Writes(w.i, t, how)
      BY <2>3 DEF Takes
    <3> QED BY <2>1, <2>2, <3>1, WritesGrow, ServerChanges
  <2>4. CASE TakesDelete(w)
    <3>1. Deletes(w.i)
      BY <2>4 DEF TakesDelete
    <3> QED BY <2>1, <2>2, <3>1, DeletesKeep, ServerChanges
  <2> QED BY <1>13, <2>3, <2>4
<1> QED BY <1>1, <1>2, <1>3, <1>4, <1>5, <1>6, <1>7, <1>8, <1>9, <1>10, <1>11, <1>12, <1>13 DEF Next

(* ImplementsReplica: the list shows only versions that exist, and steps    *)
(* back only when something the page asked for is answered, or has just     *)
(* overtaken the stream.                                                    *)
THEOREM ListIsAReplica == Spec => ImplementsReplica
<1>1. ASSUME Init PROVE R!ReplicaInit
  <2>1. Inv
    BY <1>1, InitInv
  <2>2. Truth \in [Items -> Nat]
    BY <2>1, ReplicaTypes DEF Shapes
  <2>3. Shown = [i \in Items |-> 0] /\ Asking \in BOOLEAN
    BY <1>1, NothingFacts DEF Init, Shown, Asking
  <2> QED BY <2>2, <2>3, ReplicaVars
<1>2. ASSUME Inv, Inv', [Next]_vars PROVE [R!ReplicaNext]_(R!replica)
  BY <1>2, NextRefines, ReplicaStep
<1> QED BY <1>1, <1>2, Invariance, PTL DEF Spec, ImplementsReplica, R!ReplicaSpec

=============================================================================
