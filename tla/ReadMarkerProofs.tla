-------------------------- MODULE ReadMarkerProofs --------------------------
(***************************************************************************)
(* Only what was on screen is published as read, for every number of       *)
(* messages, clients, faults and reconnections.                            *)
(*                                                                         *)
(* The pacing ledger is a function of a session and its commands, so the   *)
(* argument is about those functions: none of them makes a time.  Whatever *)
(* they are given stays below the newest line that was seen, and the only  *)
(* time that is given to them is that of a line on screen.                 *)
(***************************************************************************)
EXTENDS ReadMarker, SequenceTheorems, TLAPS

\* A session, and a command, whose times were all seen when b was the newest line seen.
Ledgers(b) == [reg : BOOLEAN, cap : BOOLEAN, pending : 0 .. b, inFlight : 0 .. b, known : Times]
Commands(b) == [what : {"set", "get"}, at : 0 .. b]
Items == [what : {"message", "marker", "unreadable", "fail", "del", "ack", "dropped", "welcome"},
          at : Times]
Views == [selected : {"none", "this", "other"}, viewing : BOOLEAN, getSent : BOOLEAN,
          awaiting : BOOLEAN, marker : Times, latest : Times]

\* A marker waits only behind an older one that is in flight.
Paced(l) == l.pending # 0 => l.inFlight # 0 /\ l.pending > l.inFlight

\* What a ledger operator returns.
Fits(x, b) == x[1] \in Ledgers(b) /\ Paced(x[1]) /\ x[2] \in Seq(Commands(b))

IInv ==
    /\ seen \in Times /\ stored \in Times /\ lines \in Times
    /\ Fits(<<s, out>>, seen)
    /\ c \in Views /\ (c.awaiting => c.getSent)
    /\ OnScreen(c) => c.latest <= seen
    /\ wire \in Seq(Items) /\ events \in Seq(Items)

-----------------------------------------------------------------------------
(* The ledger's operators *)

LEMMA LaterFacts ==
    ASSUME NEW a \in Times, NEW b \in Times
    PROVE  Later(a, b) \in Times /\ Later(a, b) >= a /\ Later(a, b) >= b /\ Later(a, b) \in {a, b}
BY ReadMarkerBounds DEF Later, Times

\* A later line seen allows whatever an earlier one did.
LEMMA FitsMore ==
    ASSUME NEW l, NEW o, NEW b \in Times, NEW d \in Times, b <= d, Fits(<<l, o>>, b)
    PROVE  Fits(<<l, o>>, d)
<1>1. l \in Ledgers(b) /\ Paced(l) /\ o \in Seq(Commands(b))
  BY DEF Fits
<1>2. l \in Ledgers(d)
  BY <1>1, ReadMarkerBounds DEF Ledgers, Times
<1>3. Commands(b) \subseteq Commands(d)
  BY ReadMarkerBounds DEF Commands, Times
<1>4. o \in Seq(Commands(d))
  BY <1>1, <1>3, SeqMonotonic
<1> QED
  BY <1>1, <1>2, <1>4 DEF Fits

LEMMA FlushFits ==
    ASSUME NEW b \in Times, NEW l \in Ledgers(b), NEW o \in Seq(Commands(b)),
           l.inFlight # 0 => Paced(l)
    PROVE  Fits(Flush(<<l, o>>), b)
<1>1. CASE l.inFlight # 0 \/ l.pending = 0
  <2>1. Flush(<<l, o>>) = <<l, o>>
    BY <1>1 DEF Flush
  <2>2. Paced(l)
    BY <1>1 DEF Paced
  <2> QED
    BY <2>1, <2>2 DEF Fits
<1>2. CASE ~ (l.inFlight # 0 \/ l.pending = 0)
  <2> DEFINE sends == l.pending > l.known /\ l.cap /\ l.reg
             z == IF sends THEN l.pending ELSE 0
             m == [l EXCEPT !.pending = 0, !.inFlight = z]
             p == IF sends THEN Append(o, Set(l.pending)) ELSE o
  <2>1. Flush(<<l, o>>) = <<m, p>>
    BY <1>2 DEF Flush
  <2>2. m \in Ledgers(b) /\ m.pending = 0
    <3>1. z \in 0 .. b /\ 0 \in 0 .. b
      BY ReadMarkerBounds DEF Ledgers, Times
    <3> HIDE DEF z
    <3> QED
      BY <3>1 DEF Ledgers
  <2>3. Set(l.pending) \in Commands(b)
    BY DEF Set, Commands, Ledgers
  <2>4. p \in Seq(Commands(b))
    BY <2>3
  <2>5. Paced(m)
    BY <2>2 DEF Paced
  <2> HIDE DEF m, p
  <2> QED
    BY <2>1, <2>2, <2>4, <2>5 DEF Fits
<1> QED
  BY <1>1, <1>2

\* queue_read_marker_set publishes a time that was seen.
LEMMA QueueFits ==
    ASSUME NEW b \in Times, NEW l, NEW o, Fits(<<l, o>>, b), NEW t \in 0 .. b
    PROVE  Fits(Queue(<<l, o>>, t), b)
<1>1. l \in Ledgers(b) /\ Paced(l) /\ o \in Seq(Commands(b)) /\ b \in Nat
  BY ReadMarkerBounds DEF Fits, Times
<1>2. CASE l.cap /\ News(l, t)
  <2> DEFINE m == [l EXCEPT !.pending = t]
  <2>1. Queue(<<l, o>>, t) = Flush(<<m, o>>)
    BY <1>2 DEF Queue
  <2>2. m \in Ledgers(b) /\ m.pending = t /\ m.inFlight = l.inFlight
    BY <1>1 DEF Ledgers
  <2>3. t > l.inFlight
    BY <1>2 DEF News
  <2> HIDE DEF m
  <2>4. m.inFlight # 0 => Paced(m)
    BY <2>2, <2>3 DEF Paced
  <2> QED
    BY <1>1, <2>1, <2>2, <2>4, FlushFits
<1>3. CASE ~ (l.cap /\ News(l, t))
  BY <1>3 DEF Queue
<1> QED
  BY <1>2, <1>3

\* deliver_read_marker: a marker frees the ledger and makes no time.
LEMMA MarkedFits ==
    ASSUME NEW b \in Times, NEW l, NEW o, Fits(<<l, o>>, b), NEW t \in Times
    PROVE  Fits(Marked(<<l, o>>, t), b)
<1>1. /\ l \in Ledgers(b) /\ Paced(l) /\ o \in Seq(Commands(b)) /\ b \in Nat /\ l.known \in Times
  BY ReadMarkerBounds DEF Fits, Times, Ledgers
<1> DEFINE m == [l EXCEPT !.known = Known(l, t)]
           z == IF m.pending > t THEN m.pending ELSE 0
           n == [m EXCEPT !.inFlight = 0, !.pending = z]
<1>2. Known(l, t) \in Times
  BY <1>1, LaterFacts DEF Known
<1>3. m \in Ledgers(b) /\ m.pending = l.pending /\ m.inFlight = l.inFlight
  BY <1>1, <1>2 DEF Ledgers
<1>4. Marked(<<l, o>>, t) = IF ~ Releases(m, t) THEN <<m, o>> ELSE Flush(<<n, o>>)
  BY DEF Marked
<1> HIDE DEF m
<1>5. n \in Ledgers(b) /\ n.inFlight = 0
  <2>1. z \in 0 .. b /\ 0 \in 0 .. b
    BY <1>1, <1>3 DEF Ledgers
  <2> HIDE DEF z
  <2> QED
    BY <1>3, <2>1 DEF Ledgers
<1>6. Paced(m)
  BY <1>1, <1>3 DEF Paced
<1> HIDE DEF n
<1>7. Fits(<<m, o>>, b)
  BY <1>1, <1>3, <1>6 DEF Fits
<1>8. Fits(Flush(<<n, o>>), b)
  BY <1>1, <1>5, FlushFits
<1> QED
  BY <1>4, <1>7, <1>8

LEMMA ReleasedFits ==
    ASSUME NEW b \in Times, NEW l, NEW o, Fits(<<l, o>>, b)
    PROVE  Fits(Released(<<l, o>>), b)
<1> DEFINE m == [l EXCEPT !.inFlight = 0]
<1>1. l \in Ledgers(b) /\ o \in Seq(Commands(b)) /\ b \in Nat
  BY ReadMarkerBounds DEF Fits, Times
<1>2. m \in Ledgers(b) /\ m.inFlight = 0
  BY <1>1 DEF Ledgers
<1>3. Released(<<l, o>>) = Flush(<<m, o>>)
  BY DEF Released
<1> HIDE DEF m
<1> QED
  BY <1>1, <1>2, <1>3, FlushFits

\* sync_read_marker_for_selection gives the ledger a line that is on screen, or nothing.
LEMMA SyncFits ==
    ASSUME NEW b \in Times, NEW l, NEW o, Fits(<<l, o>>, b), NEW v \in Views,
           OnScreen(v) => v.latest <= b
    PROVE  Fits(Sync(<<l, o>>, v), b)
<1>1. OnScreen(v) => v.latest \in 0 .. b
  BY ReadMarkerBounds DEF Views, Times
<1> QED
  BY <1>1, QueueFits DEF Sync

\* request_read_marker_get sends no time, and looks at no other line.
LEMMA AskFits ==
    ASSUME NEW b \in Times, NEW l, NEW o, Fits(<<l, o>>, b), NEW v \in Views,
           v.awaiting => v.getSent, NEW w
    PROVE  /\ Asked(l, v) \in Views /\ (Asked(l, v).awaiting => Asked(l, v).getSent)
           /\ Asked(l, v).selected = v.selected /\ Asked(l, v).viewing = v.viewing
           /\ Asked(l, v).latest = v.latest
           /\ Fits(<<l, AskedOut(l, w, o)>>, b)
<1>1. o \in Seq(Commands(b)) /\ Get \in Commands(b)
  BY ReadMarkerBounds DEF Fits, Get, Commands, Times
<1>2. AskedOut(l, w, o) \in Seq(Commands(b))
  BY <1>1 DEF AskedOut
<1>3. Fits(<<l, AskedOut(l, w, o)>>, b)
  BY <1>2 DEF Fits
<1>4. /\ Asked(l, v) \in Views /\ (Asked(l, v).awaiting => Asked(l, v).getSent)
      /\ Asked(l, v).selected = v.selected /\ Asked(l, v).viewing = v.viewing
      /\ Asked(l, v).latest = v.latest
  BY DEF Asked, Views
<1> QED
  BY <1>3, <1>4

-----------------------------------------------------------------------------
(* The steps *)

LEMMA BecomesFits ==
    ASSUME NEW b, NEW x, Fits(x, b), Becomes(x)
    PROVE  Fits(<<s, out>>', b)
BY DEF Fits, Becomes

\* An event is taken from the front of its queue.
LEMMA TakeFacts ==
    ASSUME IInv, NEW what, Takes(what)
    PROVE  events' \in Seq(Items) /\ Head(events) \in Items /\ Head(events).at \in Times
<1>1. events \in Seq(Items) /\ events # <<>> /\ events' = Tail(events)
  BY DEF IInv, Takes
<1>2. Head(events) \in Items /\ Tail(events) \in Seq(Items)
  BY <1>1
<1> QED
  BY <1>1, <1>2 DEF Items

\* The lines on screen have been seen once Sees has noted them.
LEMMA SeesFacts ==
    ASSUME IInv, NEW v \in Views, Sees(v)
    PROVE  seen' \in Times /\ seen <= seen' /\ (OnScreen(v) => v.latest <= seen')
<1>1. seen \in Times /\ v.latest \in Times /\ seen \in Nat /\ v.latest \in Nat
  BY ReadMarkerBounds DEF IInv, Views, Times
<1>2. CASE OnScreen(v)
  <2>1. seen' = Later(seen, v.latest)
    BY <1>2 DEF Sees, OnScreen
  <2> QED
    BY <1>1, <2>1, LaterFacts DEF Times
<1>3. CASE ~ OnScreen(v)
  <2>1. seen' = seen
    BY <1>3 DEF Sees, OnScreen
  <2> QED
    BY <1>1, <1>3, <2>1
<1> QED
  BY <1>2, <1>3

\* What the shell reports changes no more than whether the end is viewed.
LEMMA ReportsFacts ==
    ASSUME NEW w \in Views, NEW v \in Reports(w)
    PROVE  /\ v \in Views /\ v.awaiting = w.awaiting /\ v.getSent = w.getSent
           /\ v.selected = w.selected /\ v.latest = w.latest
<1>1. PICK b \in BOOLEAN : v = [w EXCEPT !.viewing = b]
  BY DEF Reports
<1> QED
  BY <1>1 DEF Views

LEMMA LeaveKeeps == IInv /\ (SelectOther \/ Close) => IInv'
<1> SUFFICES ASSUME IInv, SelectOther \/ Close PROVE IInv'
  OBVIOUS
<1>1. UNCHANGED <<s, out, wire, events, stored, lines, seen>>
  BY DEF SelectOther, Close
<1>2. Fits(<<s, out>>', seen')
  BY <1>1 DEF IInv
<1>3. c' \in Views /\ (c'.awaiting => c'.getSent) /\ ~ OnScreen(c')
  <2>0. c \in Views /\ (c.awaiting => c.getSent) /\ 0 \in Times
    BY ReadMarkerBounds DEF IInv, Times
  <2>1. CASE SelectOther
    <3> DEFINE w == [c EXCEPT !.selected = "other"]
    <3>1. w \in Views /\ w.selected = "other" /\ w.awaiting = c.awaiting /\ w.getSent = c.getSent
      BY <2>0 DEF Views
    <3>2. c' \in Reports(w)
      BY <2>1 DEF SelectOther
    <3> HIDE DEF w
    <3> QED
      BY <2>0, <3>1, <3>2, ReportsFacts DEF OnScreen
  <2>2. CASE Close
    <3> DEFINE w == [c EXCEPT !.getSent = FALSE, !.awaiting = FALSE, !.marker = 0, !.latest = 0]
    <3>1. w \in Views /\ ~ w.awaiting /\ w.selected = c.selected
      BY <2>0 DEF Views
    <3>2. \/ c.selected # "this" /\ c' = w
          \/ \E next \in {"none", "other"} : c' \in Reports([w EXCEPT !.selected = next])
      BY <2>2 DEF Close
    <3> HIDE DEF w
    <3>3. CASE c.selected # "this" /\ c' = w
      BY <3>1, <3>3 DEF OnScreen
    <3>4. ASSUME NEW next \in {"none", "other"}, c' \in Reports([w EXCEPT !.selected = next])
          PROVE  c' \in Views /\ ~ c'.awaiting /\ ~ OnScreen(c')
      <4> DEFINE u == [w EXCEPT !.selected = next]
      <4>1. u \in Views /\ u.selected = next /\ ~ u.awaiting
        BY <3>1 DEF Views
      <4> HIDE DEF u
      <4>2. c' \in Reports(u)
        BY <3>4 DEF u
      <4> QED
        BY <4>1, <4>2, ReportsFacts DEF OnScreen
    <3> QED
      BY <3>2, <3>3, <3>4
  <2> QED
    BY <2>1, <2>2
<1>4. seen' \in Times /\ stored' \in Times /\ lines' \in Times /\ wire' \in Seq(Items)
      /\ events' \in Seq(Items)
  BY <1>1 DEF IInv
<1> QED
  BY <1>2, <1>3, <1>4 DEF IInv, OnScreen

\* A step of the controller that publishes what is on screen in its new view v.
LEMMA SyncStep ==
    ASSUME IInv, NEW v \in Views, v.awaiting => v.getSent, NEW o, NEW b \in Times, seen <= b,
           Fits(<<s, o>>, seen), OnScreen(v) => v.latest <= b,
           c' = v, seen' = b,
           Becomes(Sync(<<s, o>>, v)) \/ Becomes(<<s, o>>),
           UNCHANGED <<wire, stored, lines>>, events' \in Seq(Items)
    PROVE  IInv'
<1>1. Fits(<<s, o>>, b)
  BY FitsMore DEF IInv
<1>2. Fits(Sync(<<s, o>>, v), b)
  BY <1>1, SyncFits
<1>3. Fits(<<s, out>>', b)
  BY <1>1, <1>2, BecomesFits
<1>4. OnScreen(c)' => v.latest <= b
  BY DEF OnScreen
<1> QED
  BY <1>3, <1>4 DEF IInv

LEMMA SelectKeeps == IInv /\ Select => IInv'
<1> SUFFICES ASSUME IInv, Select PROVE IInv'
  OBVIOUS
<1> DEFINE asked == IF c.latest # 0 THEN Asked(s, c) ELSE c
           o == IF c.latest # 0 THEN AskedOut(s, c, out) ELSE out
           w == [asked EXCEPT !.selected = "this"]
<1>1. UNCHANGED <<wire, events, stored, lines>>
  BY DEF Select
<1>2. PICK v \in Reports(w) : c' = v /\ Becomes(Sync(<<s, o>>, v)) /\ Sees(v)
  BY DEF Select
<1>3. /\ c \in Views /\ (c.awaiting => c.getSent) /\ seen \in Times /\ Fits(<<s, out>>, seen)
      /\ events' \in Seq(Items)
  BY <1>1 DEF IInv
<1>4. /\ Asked(s, c) \in Views /\ (Asked(s, c).awaiting => Asked(s, c).getSent)
      /\ Fits(<<s, AskedOut(s, c, out)>>, seen)
  BY <1>3, AskFits
<1>5. asked \in Views /\ (asked.awaiting => asked.getSent) /\ Fits(<<s, o>>, seen)
  BY <1>3, <1>4
<1> HIDE DEF asked, o
<1>6. w \in Views /\ (w.awaiting => w.getSent)
  BY <1>5 DEF Views
<1> HIDE DEF w
<1>7. v \in Views /\ (v.awaiting => v.getSent)
  BY <1>2, <1>6, ReportsFacts
<1>8. seen' \in Times /\ seen <= seen' /\ (OnScreen(v) => v.latest <= seen')
  BY <1>2, <1>7, SeesFacts
<1> QED
  BY <1>1, <1>2, <1>3, <1>5, <1>7, <1>8, SyncStep

LEMMA ViewKeeps == IInv /\ View => IInv'
<1> SUFFICES ASSUME IInv, View PROVE IInv'
  OBVIOUS
<1> DEFINE v == [c EXCEPT !.viewing = ~ @]
<1>1. v \in Views /\ (v.awaiting => v.getSent)
  BY DEF IInv, Views
<1>2. /\ c' = v /\ Becomes(Sync(<<s, out>>, v)) /\ Sees(v)
      /\ UNCHANGED <<wire, events, stored, lines>>
  BY DEF View
<1> HIDE DEF v
<1>3. seen' \in Times /\ seen <= seen' /\ (OnScreen(v) => v.latest <= seen')
  BY <1>1, <1>2, SeesFacts
<1>4. Fits(<<s, out>>, seen) /\ events' \in Seq(Items)
  BY <1>2 DEF IInv
<1> QED
  BY <1>1, <1>2, <1>3, <1>4, SyncStep

LEMMA TakeMessageKeeps == IInv /\ TakeMessage => IInv'
<1> SUFFICES ASSUME IInv, TakeMessage PROVE IInv'
  OBVIOUS
<1> DEFINE heard == [c EXCEPT !.latest = Later(@, Head(events).at)]
           here == [heard EXCEPT !.selected = "this"]
           choice == IF c.selected = "none" THEN Reports(Asked(s, here)) ELSE {heard}
           o == IF c.selected = "none" THEN AskedOut(s, heard, out) ELSE out
<1>1. events' \in Seq(Items) /\ Head(events).at \in Times
  BY TakeFacts DEF TakeMessage
<1>2. UNCHANGED <<wire, stored, lines>>
  BY DEF TakeMessage
<1>2a. PICK v \in choice : c' = v /\ Becomes(Sync(<<s, o>>, v)) /\ Sees(v)
  BY DEF TakeMessage
<1>3. c \in Views /\ (c.awaiting => c.getSent) /\ c.latest \in Times /\ seen \in Times
      /\ Fits(<<s, out>>, seen)
  BY DEF IInv, Views
<1>4. Later(c.latest, Head(events).at) \in Times
  BY <1>1, <1>3, LaterFacts
<1>5. heard \in Views /\ (heard.awaiting => heard.getSent)
  BY <1>3, <1>4 DEF Views
<1> HIDE DEF heard
<1>6. here \in Views /\ (here.awaiting => here.getSent)
  BY <1>5 DEF Views
<1> HIDE DEF here
<1>7. /\ Asked(s, here) \in Views /\ (Asked(s, here).awaiting => Asked(s, here).getSent)
      /\ Fits(<<s, AskedOut(s, heard, out)>>, seen)
  BY <1>3, <1>6, AskFits
<1>8. v \in Views /\ (v.awaiting => v.getSent)
  <2>1. CASE c.selected = "none"
    BY <1>2a, <1>7, <2>1, ReportsFacts
  <2>2. CASE c.selected # "none"
    BY <1>2a, <1>5, <2>2
  <2> QED
    BY <2>1, <2>2
<1>8a. Fits(<<s, o>>, seen)
  BY <1>3, <1>7
<1> HIDE DEF choice, o
<1>9. seen' \in Times /\ seen <= seen' /\ (OnScreen(v) => v.latest <= seen')
  BY <1>2a, <1>8, SeesFacts
<1> QED
  BY <1>1, <1>2, <1>2a, <1>8, <1>8a, <1>9, SyncStep

\* The other events change neither what is on screen nor its newest line.
LEMMA TakeMarkerKeeps == IInv /\ TakeMarker => IInv'
<1> SUFFICES ASSUME IInv, TakeMarker PROVE IInv'
  OBVIOUS
<1> DEFINE t == Head(events).at
           free == HoldEnded(c, t)
           v == IF c.latest = 0 THEN free ELSE [free EXCEPT !.marker = Later(@, t)]
<1>1. events' \in Seq(Items) /\ t \in Times
  BY TakeFacts DEF TakeMarker
<1>2. /\ c' = v /\ (Becomes(Sync(<<s, out>>, v)) \/ Becomes(<<s, out>>))
      /\ UNCHANGED <<wire, stored, lines, seen>>
  BY DEF TakeMarker
<1> HIDE DEF t
<1>3. /\ c \in Views /\ seen \in Times /\ Fits(<<s, out>>, seen)
      /\ OnScreen(c) => c.latest <= seen
  BY DEF IInv
<1>4. /\ free \in Views /\ ~ free.awaiting /\ free.selected = c.selected
      /\ free.viewing = c.viewing /\ free.latest = c.latest /\ free.marker \in Times
  BY <1>3 DEF HoldEnded, Views
<1> HIDE DEF free
<1>5. Later(free.marker, t) \in Times
  BY <1>1, <1>4, LaterFacts
<1>6. /\ v \in Views /\ ~ v.awaiting /\ v.selected = c.selected
      /\ v.viewing = c.viewing /\ v.latest = c.latest
  BY <1>4, <1>5 DEF Views
<1> HIDE DEF v
<1>7. (OnScreen(v) => v.latest <= seen) /\ seen <= seen
  BY <1>3, <1>6, ReadMarkerBounds DEF OnScreen, Times
<1> QED
  BY <1>1, <1>2, <1>3, <1>6, <1>7, SyncStep

LEMMA TakeDroppedKeeps == IInv /\ TakeDropped => IInv'
<1> SUFFICES ASSUME IInv, TakeDropped PROVE IInv'
  OBVIOUS
<1> DEFINE v == [c EXCEPT !.awaiting = FALSE]
<1>1. events' \in Seq(Items)
  BY TakeFacts DEF TakeDropped
<1>2. /\ c' = v /\ (Becomes(Sync(<<s, out>>, v)) \/ Becomes(<<s, out>>))
      /\ UNCHANGED <<wire, stored, lines, seen>>
  BY DEF TakeDropped
<1>3. /\ c \in Views /\ seen \in Times /\ Fits(<<s, out>>, seen)
      /\ OnScreen(c) => c.latest <= seen
  BY DEF IInv
<1>4. /\ v \in Views /\ ~ v.awaiting /\ v.selected = c.selected
      /\ v.viewing = c.viewing /\ v.latest = c.latest
  BY <1>3 DEF Views
<1> HIDE DEF v
<1>5. (OnScreen(v) => v.latest <= seen) /\ seen <= seen
  BY <1>3, <1>4, ReadMarkerBounds DEF OnScreen, Times
<1> QED
  BY <1>1, <1>2, <1>3, <1>4, <1>5, SyncStep

LEMMA TakeWelcomeKeeps == IInv /\ TakeWelcome => IInv'
<1> SUFFICES ASSUME IInv, TakeWelcome PROVE IInv'
  OBVIOUS
<1> DEFINE clear == Forgotten(c)
           asks == c.selected = "this" /\ c.latest # 0
           v == IF asks THEN Asked(s, clear) ELSE clear
           o == IF asks THEN AskedOut(s, clear, out) ELSE out
<1>1. events' \in Seq(Items)
  BY TakeFacts DEF TakeWelcome
<1>2. /\ c' = v /\ Becomes(Sync(<<s, o>>, v)) /\ UNCHANGED <<wire, stored, lines, seen>>
  BY DEF TakeWelcome
<1>3. /\ c \in Views /\ seen \in Times /\ Fits(<<s, out>>, seen)
      /\ OnScreen(c) => c.latest <= seen
  BY DEF IInv
<1>4. /\ clear \in Views /\ ~ clear.awaiting /\ clear.selected = c.selected
      /\ clear.viewing = c.viewing /\ clear.latest = c.latest
  BY <1>3 DEF Forgotten, Views
<1> HIDE DEF clear
<1>5. /\ Asked(s, clear) \in Views /\ (Asked(s, clear).awaiting => Asked(s, clear).getSent)
      /\ Asked(s, clear).selected = clear.selected /\ Asked(s, clear).viewing = clear.viewing
      /\ Asked(s, clear).latest = clear.latest
      /\ Fits(<<s, AskedOut(s, clear, out)>>, seen)
  BY <1>3, <1>4, AskFits
<1>6. /\ v \in Views /\ (v.awaiting => v.getSent) /\ v.selected = c.selected
      /\ v.viewing = c.viewing /\ v.latest = c.latest
      /\ Fits(<<s, o>>, seen)
  BY <1>3, <1>4, <1>5
<1> HIDE DEF v, o
<1>7. (OnScreen(v) => v.latest <= seen) /\ seen <= seen
  BY <1>3, <1>6, ReadMarkerBounds DEF OnScreen, Times
<1> QED
  BY <1>1, <1>2, <1>3, <1>6, <1>7, SyncStep

-----------------------------------------------------------------------------
(* The session and the server *)

Kinds == {"message", "marker", "unreadable", "fail", "del", "ack", "dropped", "welcome"}

LEMMA ItemFacts ==
    ASSUME NEW q \in Seq(Items), NEW what \in Kinds, NEW t \in Times
    PROVE  /\ Item(what, t) \in Items /\ Append(q, Item(what, t)) \in Seq(Items)
           /\ q \o <<Item(what, t)>> \in Seq(Items)
<1>1. Item(what, t) \in Items
  BY DEF Item, Items, Kinds
<1> QED
  BY <1>1

\* A step that leaves the controller alone: the ledger fits what was seen as before.
LEMMA SessionStep ==
    ASSUME IInv, UNCHANGED <<c, seen>>, Fits(<<s, out>>', seen),
           stored' \in Times, lines' \in Times, wire' \in Seq(Items), events' \in Seq(Items)
    PROVE  IInv'
<1>1. Fits(<<s, out>>', seen')
  OBVIOUS
<1>2. OnScreen(c)' => c'.latest <= seen'
  BY DEF IInv, OnScreen
<1>3. c' \in Views /\ (c'.awaiting => c'.getSent) /\ seen' \in Times
  BY DEF IInv
<1> QED
  BY <1>1, <1>2, <1>3 DEF IInv

LEMMA ReadKeeps == IInv /\ Read => IInv'
<1> SUFFICES ASSUME IInv, Read PROVE IInv'
  OBVIOUS
<1>1. /\ wire \in Seq(Items) /\ wire # <<>> /\ wire' = Tail(wire) /\ events \in Seq(Items)
      /\ Fits(<<s, out>>, seen) /\ seen \in Times /\ 0 \in Times
      /\ UNCHANGED <<c, stored, lines, seen>>
  BY ReadMarkerBounds DEF IInv, Read, Times
<1>2. PICK line \in Items : line = Head(wire) /\ line.at \in Times
  <2>1. Head(wire) \in Items
    BY <1>1
  <2> QED
    BY <2>1 DEF Items
<1>3. wire' \in Seq(Items)
  BY <1>1
<1>4. /\ events' = events \/ \E what \in Kinds : \E t \in Times : Emits(what, t)
      /\ Fits(<<s, out>>', seen)
  <2>1. CASE line.what = "message" /\ Emits("message", line.at) /\ UNCHANGED <<s, out>>
    BY <1>1, <1>2, <2>1 DEF Kinds
  <2>2. CASE line.what = "marker" /\ Emits("marker", line.at) /\ UNCHANGED <<s, out>>
    BY <1>1, <1>2, <2>2 DEF Kinds
  <2>3. CASE line.what = "marker" /\ Emits("marker", line.at)
             /\ Becomes(Marked(<<s, out>>, line.at))
    <3>1. Fits(Marked(<<s, out>>, line.at), seen)
      BY <1>1, <1>2, MarkedFits
    <3>2. Fits(<<s, out>>', seen)
      BY <2>3, <3>1, BecomesFits
    <3> QED
      BY <1>2, <2>3, <3>2 DEF Kinds
  <2>4. CASE Emits("marker", 0) /\ Becomes(Released(<<s, out>>))
    <3>1. Fits(Released(<<s, out>>), seen)
      BY <1>1, ReleasedFits
    <3>2. Fits(<<s, out>>', seen)
      BY <2>4, <3>1, BecomesFits
    <3> QED
      BY <1>1, <2>4, <3>2 DEF Kinds
  <2>5. CASE UNCHANGED <<s, out, events>>
    BY <1>1, <2>5
  <2>6. CASE /\ s' \in {[s EXCEPT !.cap = FALSE], [s EXCEPT !.cap = TRUE]} /\ out' = out
             /\ events' = events \/ Emits("dropped", 0)
    <3>1. s \in Ledgers(seen) /\ Paced(s) /\ out \in Seq(Commands(seen))
      BY <1>1 DEF Fits
    <3>2. s' \in Ledgers(seen) /\ s'.pending = s.pending /\ s'.inFlight = s.inFlight
      BY <2>6, <3>1 DEF Ledgers
    <3>3. Paced(s')
      BY <3>1, <3>2 DEF Paced
    <3>4. Fits(<<s, out>>', seen)
      BY <2>6, <3>1, <3>2, <3>3 DEF Fits
    <3> QED
      BY <1>1, <2>6, <3>4 DEF Kinds
  <2> QED
    BY <1>2, <2>1, <2>2, <2>3, <2>4, <2>5, <2>6 DEF Read
<1>5. events' \in Seq(Items)
  BY <1>1, <1>4, ItemFacts DEF Emits
<1>6. stored' \in Times /\ lines' \in Times
  BY <1>1 DEF IInv
<1> QED
  BY <1>1, <1>3, <1>4, <1>5, <1>6, SessionStep

\* reset_for_connection leaves nothing to publish.
LEMMA LedgerFits ==
    ASSUME NEW b \in Nat, NEW l \in Ledgers(b)
    PROVE  Ledger(l) \in Ledgers(b) /\ Ledger(l).pending = 0
<1>1. 0 \in 0 .. b
  OBVIOUS
<1> QED
  BY <1>1 DEF Ledger, Ledgers

LEMMA ConnectionKeeps == IInv /\ (Disconnected \/ Registered) => IInv'
<1> SUFFICES ASSUME IInv, Disconnected \/ Registered PROVE IInv'
  OBVIOUS
<1>1. /\ s \in Ledgers(seen) /\ Paced(s) /\ out \in Seq(Commands(seen)) /\ seen \in Nat
      /\ 0 \in Times /\ events \in Seq(Items) /\ wire \in Seq(Items)
      /\ UNCHANGED <<c, stored, lines, seen>>
  BY ReadMarkerBounds DEF IInv, Fits, Times, Disconnected, Registered
<1>2. /\ s' \in Ledgers(seen)
      /\ (s'.pending = 0 \/ (s'.pending = s.pending /\ s'.inFlight = s.inFlight))
  <2>1. CASE Disconnected
    BY <1>1, <2>1 DEF Disconnected, Ledgers
  <2>2. CASE Registered
    <3> DEFINE l == Ledger(s)
    <3>1. PICK on \in BOOLEAN : s' = [l EXCEPT !.cap = on]
      BY <2>2 DEF Registered
    <3>2. l \in Ledgers(seen) /\ l.pending = 0
      BY <1>1, LedgerFits
    <3> HIDE DEF l
    <3>3. s' \in Ledgers(seen) /\ s'.pending = 0
      BY <3>1, <3>2 DEF Ledgers
    <3> QED
      BY <3>3
  <2> QED
    BY <2>1, <2>2
<1>3. Paced(s')
  BY <1>1, <1>2 DEF Paced
<1>4. out' \in Seq(Commands(seen)) /\ wire' \in Seq(Items)
  <2>1. CASE Disconnected
    BY <2>1 DEF Disconnected
  <2>2. CASE Registered
    BY <1>1, <2>2 DEF Registered
  <2> QED
    BY <2>1, <2>2
<1>5. Fits(<<s, out>>', seen)
  BY <1>2, <1>3, <1>4 DEF Fits
<1>6. events' \in Seq(Items)
  <2>1. CASE Disconnected
    BY <1>1, <2>1 DEF Disconnected
  <2>2. CASE Registered
    <3>1. <<Item("dropped", 0)>> \in Seq(Items) /\ <<Item("welcome", 0)>> \in Seq(Items)
      BY <1>1 DEF Item, Items
    <3>2. events' = events \o (IF s.cap THEN <<Item("dropped", 0)>> ELSE <<>>)
                           \o <<Item("welcome", 0)>>
      BY <2>2 DEF Registered
    <3> QED
      BY <1>1, <3>1, <3>2
  <2> QED
    BY <2>1, <2>2
<1>7. stored' \in Times /\ lines' \in Times
  BY <1>1 DEF IInv
<1> QED
  BY <1>1, <1>4, <1>5, <1>6, <1>7, SessionStep

LEMMA ServerKeeps ==
    IInv /\ (PeerSpeaks \/ OtherReads \/ Serve \/ ServeBadly \/ ServerCap) => IInv'
<1> SUFFICES ASSUME IInv, PeerSpeaks \/ OtherReads \/ Serve \/ ServeBadly \/ ServerCap
             PROVE  IInv'
  OBVIOUS
<1>1. /\ Fits(<<s, out>>, seen) /\ out \in Seq(Commands(seen)) /\ seen \in Times /\ 0 \in Times
      /\ events \in Seq(Items) /\ wire \in Seq(Items) /\ stored \in Times /\ lines \in Times
      /\ MaxLines \in Nat
  BY ReadMarkerBounds DEF IInv, Fits, Times
<1>2. UNCHANGED <<s, c, events, seen>>
  BY DEF PeerSpeaks, OtherReads, Serve, ServeBadly, ServerCap
<1>3. out # <<>> => Tail(out) \in Seq(Commands(seen)) /\ Head(out).at \in Times
  <2>1. ASSUME out # <<>>
        PROVE  Tail(out) \in Seq(Commands(seen)) /\ Head(out) \in Commands(seen)
    BY <1>1, <2>1
  <2> QED
    BY <1>1, <2>1 DEF Commands, Times
<1>4. out' \in Seq(Commands(seen))
  BY <1>1, <1>3 DEF PeerSpeaks, OtherReads, Serve, ServeBadly, ServerCap
<1>5. Fits(<<s, out>>', seen)
  BY <1>1, <1>2, <1>4 DEF Fits
<1>6. /\ stored' \in Times /\ lines' \in Times
      /\ \E what \in Kinds : \E t \in Times : Tells(<<Item(what, t)>>)
  <2>1. CASE PeerSpeaks
    <3>1. lines' \in Times /\ stored' = stored /\ Tells(<<Item("message", lines')>>)
      BY <1>1, <2>1 DEF PeerSpeaks, Times
    <3>2. "message" \in Kinds
      BY DEF Kinds
    <3> QED
      BY <1>1, <3>1, <3>2
  <2>2. CASE OtherReads
    <3>1. PICK t \in stored + 1 .. lines : stored' = t /\ Tells(<<Item("marker", t)>>)
      BY <2>2 DEF OtherReads
    <3>2. t \in Times
      BY <1>1, <3>1 DEF Times
    <3> QED
      BY <1>1, <2>2, <3>1, <3>2 DEF OtherReads, Kinds
  <2>3. CASE Serve
    <3>1. stored' = Later(stored, Head(out).at) /\ Head(out).at \in Times
      BY <1>3, <2>3 DEF Serve
    <3>2. stored' \in Times
      BY <1>1, <3>1, LaterFacts
    <3> QED
      BY <1>1, <2>3, <3>2 DEF Serve, Kinds
  <2>4. CASE ServeBadly \/ ServerCap
    BY <1>1, <2>4 DEF ServeBadly, ServerCap, Kinds
  <2> QED
    BY <2>1, <2>2, <2>3, <2>4
<1>7. wire' \in Seq(Items)
  BY <1>1, <1>6, ItemFacts DEF Tells
<1>8. events' \in Seq(Items)
  BY <1>1, <1>2
<1> QED
  BY <1>2, <1>5, <1>6, <1>7, <1>8, SessionStep

-----------------------------------------------------------------------------
(* The theorems *)

LEMMA Invariance == Spec => []IInv
<1>1. Init => IInv
  <2> SUFFICES ASSUME Init PROVE IInv
    OBVIOUS
  <2>1. 0 \in Times /\ seen = 0 /\ 0 \in 0 .. 0
    BY ReadMarkerBounds DEF Init, Times
  <2>2. s \in Ledgers(seen) /\ Paced(s) /\ out \in Seq(Commands(seen))
    BY <2>1 DEF Init, Ledgers, Paced
  <2>3. c \in Views /\ ~ c.awaiting /\ ~ OnScreen(c)
    BY <2>1 DEF Init, Views, OnScreen
  <2>4. Fits(<<s, out>>, seen)
    BY <2>2 DEF Fits
  <2>5. stored \in Times /\ lines \in Times /\ wire \in Seq(Items) /\ events \in Seq(Items)
    BY <2>1 DEF Init
  <2> QED
    BY <2>1, <2>3, <2>4, <2>5 DEF IInv
<1>2. IInv /\ [Next]_vars => IInv'
  <2> SUFFICES ASSUME IInv, [Next]_vars PROVE IInv'
    OBVIOUS
  <2>1. CASE UNCHANGED vars
    <3>1. UNCHANGED <<s, c, out, wire, events, stored, lines, seen>>
      BY <2>1 DEF vars
    <3>2. /\ Fits(<<s, out>>', seen) /\ stored' \in Times /\ lines' \in Times
          /\ wire' \in Seq(Items) /\ events' \in Seq(Items)
      BY <3>1 DEF IInv
    <3> QED
      BY <3>1, <3>2, SessionStep
  <2>2. CASE Select \/ SelectOther \/ Close \/ View
    BY <2>2, SelectKeeps, LeaveKeeps, ViewKeeps
  <2>3. CASE Drain
    BY <2>3, TakeMessageKeeps, TakeMarkerKeeps, TakeDroppedKeeps, TakeWelcomeKeeps DEF Drain
  <2>4. CASE Read \/ Disconnected \/ Registered
    BY <2>4, ReadKeeps, ConnectionKeeps
  <2>5. CASE PeerSpeaks \/ OtherReads \/ Serve \/ ServeBadly \/ ServerCap
    BY <2>5, ServerKeeps
  <2> QED
    BY <2>1, <2>2, <2>3, <2>4, <2>5 DEF Next
<1> QED
  BY <1>1, <1>2, PTL DEF Spec

\* The types, that a GET is awaited only when one was sent, and that a marker waits only
\* behind an older one in flight (session/readmarker.rs).
THEOREM TypeCorrect == Spec => []TypeOK
<1>1. IInv => TypeOK
  <2> SUFFICES ASSUME IInv PROVE TypeOK
    OBVIOUS
  <2>1. s \in Ledgers(seen) /\ Paced(s) /\ seen \in Times
    BY DEF IInv, Fits
  <2>2. s \in [reg : BOOLEAN, cap : BOOLEAN, pending : Times, inFlight : Times, known : Times]
    BY <2>1, ReadMarkerBounds DEF Ledgers, Times
  <2> QED
    BY <2>1, <2>2 DEF IInv, TypeOK, Views, Paced
<1> QED
  BY <1>1, Invariance, PTL

\* Whatever the order of selections, arrivals, echoes, refusals and reconnections, and however
\* many lines there are, no time beyond the newest line that was on screen is queued, in flight
\* or on its way to the server.
THEOREM OnlySeenIsReadHolds == Spec => []OnlySeenIsRead
<1>1. IInv => OnlySeenIsRead
  <2> SUFFICES ASSUME IInv PROVE OnlySeenIsRead
    OBVIOUS
  <2>1. s \in Ledgers(seen) /\ out \in Seq(Commands(seen)) /\ seen \in Nat
    BY ReadMarkerBounds DEF IInv, Fits, Times
  <2>2. s.pending <= seen /\ s.inFlight <= seen
    BY <2>1 DEF Ledgers
  <2>3. ASSUME NEW i \in 1 .. Len(out) PROVE out[i].at <= seen
    <3>1. out[i] \in Commands(seen)
      BY <2>1
    <3> QED
      BY <2>1, <3>1 DEF Commands
  <2> QED
    BY <2>2, <2>3 DEF OnlySeenIsRead
<1> QED
  BY <1>1, Invariance, PTL

=============================================================================
