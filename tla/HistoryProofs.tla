---------------------------- MODULE HistoryProofs ----------------------------
(***************************************************************************)
(* An answer is taken for the request it answers, and the lines of a       *)
(* replay never surface as live traffic: for every number of requests,     *)
(* batches and kicks, and every page cap and ceiling.                      *)
(***************************************************************************)
EXTENDS History, FiniteSetTheorems, SequenceTheorems, TLAPS

Pairs == [kind : Kinds \cup {None, "JOIN", "PART"}, generation : Nat]
Moves == {"no", "same", "yes"}
Frames == [root : 0 .. MaxBatches, generation : Nat, request : Kinds \cup {None}, of : Pairs,
           lines : 0 .. 1, moves : Moves]
Cores == [generation : Nat, asked : BOOLEAN, pending : [kind : Kinds \cup {None}, generation : Nat],
          before : BOOLEAN, exhausted : BOOLEAN, pages : Nat, enabled : BOOLEAN,
          open : [Refs -> Frames], ignored : SUBSET Refs, out : Seq(Pairs)]
Lines == [what : {"JOIN", "LEAVE", "DEL", "FAIL", "OPEN", "LINE", "CLOSE"},
          ref : 0 .. MaxBatches, parent : 0 .. MaxBatches, of : Pairs]
Answerings == [ref : 0 .. MaxBatches, child : 0 .. MaxBatches, of : Pairs, lines : 0 .. 1]

\* The lines that answer a request.
IsAnswer(line) == line.what = "FAIL" \/ (line.what = "OPEN" /\ line.parent = 0)

\* A request of this generation; ts is what is on its way to the server, tc to the client.
AsksNow(g, r) == r.kind \in Kinds /\ r.generation = g
AnswersNow(g, line) == IsAnswer(line) /\ AsksNow(g, line.of)

\* Requests were made under this generation or an earlier one, and not before the first.
RequestFits(g, r) == r.kind \in Kinds => r.generation \in 1 .. g
LineFits(g, line) ==
    /\ IsAnswer(line) => line.of.kind \in Kinds /\ line.of.generation \in 1 .. g
    /\ line.what \in {"OPEN", "LINE", "CLOSE"} => line.ref \in Refs
    /\ line.what = "OPEN" /\ line.parent # 0 => line.of.generation = 0
QueuesFit(g, ts, tc) ==
    /\ \A i \in 1 .. Len(ts) : RequestFits(g, ts[i])
    /\ \A i \in 1 .. Len(tc) : LineFits(g, tc[i])

\* Nothing of this generation is unanswered.
Settled(g, ts, tc) ==
    /\ \A i \in 1 .. Len(ts) : ~ AsksNow(g, ts[i])
    /\ \A i \in 1 .. Len(tc) : ~ AnswersNow(g, tc[i])

\* At most one request of this generation is unanswered, and it is p.
Alone(g, p, ts, tc) ==
    /\ \A i \in 1 .. Len(ts) : AsksNow(g, ts[i]) =>
          /\ ts[i] = p
          /\ \A j \in 1 .. Len(ts) : AsksNow(g, ts[j]) => i = j
          /\ \A j \in 1 .. Len(tc) : ~ AnswersNow(g, tc[j])
    /\ \A i \in 1 .. Len(tc) : AnswersNow(g, tc[i]) =>
          /\ tc[i].of = p
          /\ \A j \in 1 .. Len(tc) : AnswersNow(g, tc[j]) => i = j

\* The batch that answers the request of this generation.
RootNow(c, r) == c.open[r].root = r /\ c.open[r].generation = c.generation /\ c.generation # 0

\* What is open was opened under this generation or an earlier one, and for a request only
\* after the first; nothing is open once the capability is gone.
CoreFits(c) ==
    /\ c \in Cores
    /\ c.asked => c.generation # 0
    /\ \A r \in Refs : /\ c.open[r].generation <= c.generation
                       /\ c.open[r].request # None => c.open[r].generation # 0
    /\ c.pending.kind # None => c.pending.generation # 0
    /\ ~ c.enabled => \A r \in Refs : c.open[r].root = 0

\* The request of this generation that is pending is the only one that is unanswered, or its
\* batch is the only one that is open.
Matched(c, ts, tc) ==
    /\ Alone(c.generation, c.pending, ts, tc)
    /\ \A r \in Refs : RootNow(c, r) =>
          /\ c.open[r].of = c.pending /\ c.open[r].request = c.pending.kind
          /\ c.pending.kind # None /\ c.pending.generation = c.generation
          /\ Settled(c.generation, ts, tc)
          /\ \A q \in Refs : RootNow(c, q) => q = r

\* The inductive invariant of AnswerIsMatched.
MatchInv ==
    /\ CoreFits(core) /\ core.out = <<>>
    /\ toServer \in Seq(Pairs) /\ toClient \in Seq(Lines)
    /\ QueuesFit(core.generation, toServer, toClient)
    /\ answer \in Answerings
    /\ answer # NoAnswer => answer.ref # 0
    /\ batches \in 0 .. MaxBatches /\ crossed \in BOOLEAN
    /\ core.enabled /\ ~ crossed => Matched(core, toServer, toClient)
    /\ AnswerIsMatched

-----------------------------------------------------------------------------
(* The stream of batches.  Between two lines the server is inside a batch, *)
(* and maybe inside its child: at[i] is where it is before line i.         *)

Places == [ref : 0 .. MaxBatches, child : 0 .. MaxBatches]

\* A line takes the stream from place a to place b.
Goes(line, a, b) ==
    /\ line.what = "OPEN" /\ line.parent = 0 =>
          a.ref = 0 /\ a.child = 0 /\ b.ref = line.ref /\ b.child = 0
    /\ line.what = "OPEN" /\ line.parent # 0 =>
          /\ a.ref = line.parent /\ a.child = 0 /\ line.ref # line.parent
          /\ b.ref = line.parent /\ b.child = line.ref
    /\ line.what = "CLOSE" =>
          \/ a.ref = line.ref /\ a.child = 0 /\ b.ref = 0 /\ b.child = 0
          \/ a.child = line.ref /\ b.ref = a.ref /\ b.child = 0
    /\ line.what = "LINE" => line.ref \in {a.ref, a.child}
    /\ line.what \notin {"OPEN", "CLOSE"} => a = b

\* What the session knows of the place: its batches are open or ignored, and no others.
Knows(c, a) ==
    /\ a.child # 0 => a.ref # 0 /\ a.child # a.ref
    /\ \A r \in Refs : r \in c.ignored \/ c.open[r].root # 0 => r \in {a.ref, a.child}
    /\ \A r \in c.ignored : c.open[r].root = 0
    /\ a.ref # 0 => a.ref \in c.ignored \/ c.open[a.ref].root = a.ref
    /\ a.child # 0 => \/ a.child \in c.ignored
                      \/ c.open[a.child].root = a.ref /\ c.open[a.ref].root = a.ref

\* The places before each line that is on its way, and after the last.
At(tc) == [1 .. Len(tc) + 1 -> Places]
Streams(tc, at, end) ==
    /\ \A i \in 1 .. Len(tc) : Goes(tc[i], at[i], at[i + 1])
    /\ at[Len(tc) + 1] = end

\* The inductive invariant of NothingLeaks.
Place == [ref |-> answer.ref, child |-> answer.child]
StreamInv ==
    /\ answer.ref <= batches
    /\ answer.child # 0 => answer.ref # 0 /\ answer.child # answer.ref
    /\ \E at \in At(toClient) : Streams(toClient, at, Place) /\ Knows(core, at[1])
    /\ ~ leaked

-----------------------------------------------------------------------------
(* The queues *)

LEMMA TailFacts ==
    ASSUME NEW S, NEW s \in Seq(S), s # <<>>
    PROVE  /\ Len(s) \in Nat /\ 1 \in 1 .. Len(s) /\ Head(s) = s[1] /\ Head(s) \in S
           /\ Tail(s) \in Seq(S) /\ Len(Tail(s)) \in Nat /\ Len(s) = Len(Tail(s)) + 1
           /\ \A i \in 1 .. Len(Tail(s)) : /\ i + 1 \in 1 .. Len(s) /\ i + 1 # 1
                                           /\ Tail(s)[i] = s[i + 1]
OBVIOUS

LEMMA AppendFacts ==
    ASSUME NEW S, NEW s \in Seq(S), NEW x \in S, NEW t, t = Append(s, x)
    PROVE  /\ t \in Seq(S) /\ Len(s) \in Nat /\ Len(t) = Len(s) + 1
           /\ \A i \in 1 .. Len(t) : (i \in 1 .. Len(s) /\ t[i] = s[i]) \/ (i = Len(s) + 1 /\ t[i] = x)
OBVIOUS

LEMMA ConcatFacts ==
    ASSUME NEW S, NEW s \in Seq(S)
    PROVE  s \o <<>> = s /\ \A x \in S : s \o <<x>> = Append(s, x)
OBVIOUS

\* The session reads a line.
LEMMA LineTaken ==
    ASSUME NEW g, NEW p, NEW ts, NEW tc \in Seq(Lines), tc # <<>>
    PROVE  /\ QueuesFit(g, ts, tc) => QueuesFit(g, ts, Tail(tc)) /\ LineFits(g, Head(tc))
           /\ Settled(g, ts, tc) => Settled(g, ts, Tail(tc)) /\ ~ AnswersNow(g, Head(tc))
           /\ Alone(g, p, ts, tc) => Alone(g, p, ts, Tail(tc))
           /\ Alone(g, p, ts, tc) /\ AnswersNow(g, Head(tc)) =>
                 Settled(g, ts, Tail(tc)) /\ Head(tc).of = p
<1>1. PICK t : t = Tail(tc)
  OBVIOUS
<1>2. /\ 1 \in 1 .. Len(tc) /\ Head(tc) = tc[1]
      /\ \A i \in 1 .. Len(t) : i \in Int /\ i + 1 \in 1 .. Len(tc) /\ i + 1 # 1 /\ t[i] = tc[i + 1]
  BY <1>1, TailFacts
<1>3. QueuesFit(g, ts, tc) => QueuesFit(g, ts, t) /\ LineFits(g, Head(tc))
  BY <1>2 DEF QueuesFit
<1>4. Settled(g, ts, tc) => Settled(g, ts, t) /\ ~ AnswersNow(g, Head(tc))
  BY <1>2 DEF Settled
<1>5. ASSUME Alone(g, p, ts, tc)
      PROVE  Alone(g, p, ts, t)
  <2>1. \A i \in 1 .. Len(ts) : AsksNow(g, ts[i]) =>
          /\ ts[i] = p
          /\ \A j \in 1 .. Len(ts) : AsksNow(g, ts[j]) => i = j
          /\ \A j \in 1 .. Len(t) : ~ AnswersNow(g, t[j])
    BY <1>2, <1>5 DEF Alone
  <2>2. ASSUME NEW i \in 1 .. Len(t), AnswersNow(g, t[i])
        PROVE  t[i].of = p /\ \A j \in 1 .. Len(t) : AnswersNow(g, t[j]) => i = j
    <3>1. t[i].of = p
      BY <1>2, <1>5, <2>2 DEF Alone
    <3>2. ASSUME NEW j \in 1 .. Len(t), AnswersNow(g, t[j])
          PROVE  i = j
      <4>1. i + 1 = j + 1
        BY <1>2, <1>5, <2>2, <3>2 DEF Alone
      <4> QED
        BY <4>1, <1>2
    <3> QED
      BY <3>1, <3>2
  <2> QED
    BY <2>1, <2>2 DEF Alone
<1>6. ASSUME Alone(g, p, ts, tc), AnswersNow(g, Head(tc))
      PROVE  Settled(g, ts, t) /\ Head(tc).of = p
  <2>1. Head(tc).of = p /\ \A i \in 1 .. Len(ts) : ~ AsksNow(g, ts[i])
    BY <1>2, <1>6 DEF Alone
  <2>2. ASSUME NEW i \in 1 .. Len(t)
        PROVE  ~ AnswersNow(g, t[i])
    BY <1>2, <1>6 DEF Alone
  <2> QED
    BY <2>1, <2>2 DEF Settled
<1> QED
  BY <1>1, <1>3, <1>4, <1>5, <1>6

\* The server takes a request.
LEMMA RequestTaken ==
    ASSUME NEW g, NEW p, NEW ts \in Seq(Pairs), NEW tc, ts # <<>>
    PROVE  /\ QueuesFit(g, ts, tc) => QueuesFit(g, Tail(ts), tc) /\ RequestFits(g, Head(ts))
           /\ Settled(g, ts, tc) => Settled(g, Tail(ts), tc) /\ ~ AsksNow(g, Head(ts))
           /\ Alone(g, p, ts, tc) => Alone(g, p, Tail(ts), tc)
           /\ Alone(g, p, ts, tc) /\ AsksNow(g, Head(ts)) =>
                 Settled(g, Tail(ts), tc) /\ Head(ts) = p
<1>1. PICK t : t = Tail(ts)
  OBVIOUS
<1>2. /\ 1 \in 1 .. Len(ts) /\ Head(ts) = ts[1]
      /\ \A i \in 1 .. Len(t) : i \in Int /\ i + 1 \in 1 .. Len(ts) /\ i + 1 # 1 /\ t[i] = ts[i + 1]
  BY <1>1, TailFacts
<1>3. QueuesFit(g, ts, tc) => QueuesFit(g, t, tc) /\ RequestFits(g, Head(ts))
  BY <1>2 DEF QueuesFit
<1>4. Settled(g, ts, tc) => Settled(g, t, tc) /\ ~ AsksNow(g, Head(ts))
  BY <1>2 DEF Settled
<1>5. ASSUME Alone(g, p, ts, tc)
      PROVE  Alone(g, p, t, tc)
  <2>1. \A i \in 1 .. Len(tc) : AnswersNow(g, tc[i]) =>
          tc[i].of = p /\ \A j \in 1 .. Len(tc) : AnswersNow(g, tc[j]) => i = j
    BY <1>5 DEF Alone
  <2>2. ASSUME NEW i \in 1 .. Len(t), AsksNow(g, t[i])
        PROVE  /\ t[i] = p /\ \A j \in 1 .. Len(t) : AsksNow(g, t[j]) => i = j
               /\ \A j \in 1 .. Len(tc) : ~ AnswersNow(g, tc[j])
    <3>1. t[i] = p /\ \A j \in 1 .. Len(tc) : ~ AnswersNow(g, tc[j])
      BY <1>2, <1>5, <2>2 DEF Alone
    <3>2. ASSUME NEW j \in 1 .. Len(t), AsksNow(g, t[j])
          PROVE  i = j
      <4>1. i + 1 = j + 1
        BY <1>2, <1>5, <2>2, <3>2 DEF Alone
      <4> QED
        BY <4>1, <1>2
    <3> QED
      BY <3>1, <3>2
  <2> QED
    BY <2>1, <2>2 DEF Alone
<1>6. ASSUME Alone(g, p, ts, tc), AsksNow(g, Head(ts))
      PROVE  Settled(g, t, tc) /\ Head(ts) = p
  <2>1. Head(ts) = p /\ \A i \in 1 .. Len(tc) : ~ AnswersNow(g, tc[i])
    BY <1>2, <1>6 DEF Alone
  <2>2. ASSUME NEW i \in 1 .. Len(t)
        PROVE  ~ AsksNow(g, t[i])
    BY <1>2, <1>6 DEF Alone
  <2> QED
    BY <2>1, <2>2 DEF Settled
<1> QED
  BY <1>1, <1>3, <1>4, <1>5, <1>6

\* The server writes a line.
LEMMA LineAdded ==
    ASSUME NEW g, NEW p, NEW ts, NEW tc \in Seq(Lines), NEW x \in Lines, NEW t, t = Append(tc, x)
    PROVE  /\ QueuesFit(g, ts, tc) /\ LineFits(g, x) => QueuesFit(g, ts, t)
           /\ Settled(g, ts, tc) /\ ~ AnswersNow(g, x) => Settled(g, ts, t)
           /\ Alone(g, p, ts, tc) /\ ~ AnswersNow(g, x) => Alone(g, p, ts, t)
           /\ Settled(g, ts, tc) /\ x.of = p => Alone(g, p, ts, t)
<1>1. \A i \in 1 .. Len(t) :
        (i \in 1 .. Len(tc) /\ t[i] = tc[i]) \/ (i = Len(tc) + 1 /\ t[i] = x)
  BY AppendFacts
<1>2. QueuesFit(g, ts, tc) /\ LineFits(g, x) => QueuesFit(g, ts, t)
  BY <1>1 DEF QueuesFit
<1>3. Settled(g, ts, tc) /\ ~ AnswersNow(g, x) => Settled(g, ts, t)
  BY <1>1 DEF Settled
<1>4. Alone(g, p, ts, tc) /\ ~ AnswersNow(g, x) => Alone(g, p, ts, t)
  BY <1>1 DEF Alone
<1>5. Settled(g, ts, tc) /\ x.of = p => Alone(g, p, ts, t)
  BY <1>1 DEF Settled, Alone
<1> QED
  BY <1>2, <1>3, <1>4, <1>5

\* The session writes a request.
LEMMA RequestAdded ==
    ASSUME NEW g, NEW p, NEW ts \in Seq(Pairs), NEW tc, NEW x \in Pairs, NEW t, t = Append(ts, x)
    PROVE  /\ QueuesFit(g, ts, tc) /\ RequestFits(g, x) => QueuesFit(g, t, tc)
           /\ Settled(g, ts, tc) /\ ~ AsksNow(g, x) => Settled(g, t, tc)
           /\ Alone(g, p, ts, tc) /\ ~ AsksNow(g, x) => Alone(g, p, t, tc)
           /\ Settled(g, ts, tc) => Alone(g, x, t, tc)
<1>1. \A i \in 1 .. Len(t) :
        (i \in 1 .. Len(ts) /\ t[i] = ts[i]) \/ (i = Len(ts) + 1 /\ t[i] = x)
  BY AppendFacts
<1>2. QueuesFit(g, ts, tc) /\ RequestFits(g, x) => QueuesFit(g, t, tc)
  BY <1>1 DEF QueuesFit
<1>3. Settled(g, ts, tc) /\ ~ AsksNow(g, x) => Settled(g, t, tc)
  BY <1>1 DEF Settled
<1>4. Alone(g, p, ts, tc) /\ ~ AsksNow(g, x) => Alone(g, p, t, tc)
  BY <1>1 DEF Alone
<1>5. Settled(g, ts, tc) => Alone(g, x, t, tc)
  BY <1>1 DEF Settled, Alone
<1> QED
  BY <1>2, <1>3, <1>4, <1>5

\* A new generation starts with nothing unanswered.
LEMMA QueuesAge ==
    ASSUME NEW g \in Nat, NEW ts, NEW tc, QueuesFit(g, ts, tc)
    PROVE  Settled(g + 1, ts, tc) /\ QueuesFit(g + 1, ts, tc)
<1>1. \A r : RequestFits(g, r) => RequestFits(g + 1, r) /\ ~ AsksNow(g + 1, r)
  BY DEF RequestFits, AsksNow
<1>2. \A line : LineFits(g, line) => LineFits(g + 1, line) /\ ~ AnswersNow(g + 1, line)
  BY DEF LineFits, AnswersNow, AsksNow
<1> QED
  BY <1>1, <1>2 DEF QueuesFit, Settled

LEMMA SettledIsAlone ==
    ASSUME NEW g, NEW p, NEW ts, NEW tc, Settled(g, ts, tc)
    PROVE  Alone(g, p, ts, tc)
BY DEF Settled, Alone

-----------------------------------------------------------------------------
(* The ledgers *)

\* What an operator may have sent: nothing, or the request that is pending now.
SendsPending(d) ==
    \/ d.out = <<>>
    \/ d.out = <<d.pending>> /\ d.pending.kind \in Kinds /\ d.pending.generation = d.generation

\* d is c with other pages, bounds and requests: the same batches of the same generation.
SameBatches(c, d) ==
    /\ d.generation = c.generation /\ d.open = c.open /\ d.ignored = c.ignored
    /\ d.enabled = c.enabled

LEMMA NoneIsNoKind == None \notin Kinds
BY DEF None, Kinds

LEMMA CoreTypes ==
    ASSUME NEW c, CoreFits(c)
    PROVE  /\ c \in Cores /\ c.generation \in Nat /\ c.open \in [Refs -> Frames]
           /\ c.ignored \in SUBSET Refs /\ c.enabled \in BOOLEAN /\ c.asked \in BOOLEAN
           /\ c.pending \in [kind : Kinds \cup {None}, generation : Nat] /\ c.pages \in Nat
           /\ c.out \in Seq(Pairs)
BY DEF CoreFits, Cores

LEMMA FrameTypes ==
    ASSUME NEW f \in Frames
    PROVE  /\ f.root \in 0 .. MaxBatches /\ f.generation \in Nat /\ f.request \in Kinds \cup {None}
           /\ f.of \in Pairs /\ f.lines \in 0 .. 1 /\ f.moves \in Moves
BY DEF Frames

LEMMA ClosedIsFrame ==
    /\ Closed \in Frames /\ Closed.root = 0 /\ Closed.generation = 0 /\ Closed.request = None
<1>1. NoRequest \in Pairs /\ NoRequest.generation = 0
  BY DEF NoRequest, Request, Pairs
<1>2. 0 \in 0 .. MaxBatches
  BY BoundsAssumption
<1> QED
  BY <1>1, <1>2 DEF Closed, Batch, Frames, Moves

\* A core with the same batches fits when its requests do.
LEMMA SameBatchesFit ==
    ASSUME NEW c, CoreFits(c), NEW d \in Cores, SameBatches(c, d),
           d.asked => d.generation # 0,
           d.pending.kind # None => d.pending.generation # 0
    PROVE  CoreFits(d)
BY DEF CoreFits, SameBatches

LEMMA ClearPendingFits ==
    ASSUME NEW c, CoreFits(c)
    PROVE  /\ CoreFits(ClearPending(c)) /\ SameBatches(c, ClearPending(c))
           /\ ClearPending(c).pending = NoPending /\ ClearPending(c).out = c.out
           /\ ClearPending(c).asked = c.asked
<1>1. PICK d : d = ClearPending(c)
  OBVIOUS
<1>2. d = [c EXCEPT !.pending = NoPending, !.before = FALSE]
  BY <1>1 DEF ClearPending
<1>3. NoPending \in [kind : Kinds \cup {None}, generation : Nat] /\ NoPending.kind = None
  BY DEF NoPending
<1>4. c \in Cores /\ (c.asked => c.generation # 0)
  BY DEF CoreFits
<1>5. d \in Cores /\ d.pending = NoPending /\ d.out = c.out /\ d.asked = c.asked /\ SameBatches(c, d)
  BY <1>2, <1>3, <1>4 DEF Cores, SameBatches
<1>6. d.asked => d.generation # 0
  BY <1>4, <1>5 DEF SameBatches
<1> QED
  BY <1>1, <1>3, <1>5, <1>6, SameBatchesFit

LEMMA BumpFits ==
    ASSUME NEW c, CoreFits(c)
    PROVE  /\ CoreFits(Bump(c)) /\ Bump(c).generation = c.generation + 1 /\ Bump(c).out = c.out
           /\ Bump(c).pending = NoPending /\ Bump(c).open = c.open /\ Bump(c).enabled = c.enabled
           /\ Bump(c).ignored = c.ignored
<1>1. PICK b, d : b = ClearPending(c) /\ d = Bump(c)
  OBVIOUS
<1>2. CoreFits(b) /\ SameBatches(c, b) /\ b.pending = NoPending /\ b.out = c.out
  BY <1>1, ClearPendingFits
<1>3. d = [b EXCEPT !.generation = b.generation + 1]
  BY <1>1 DEF Bump
<1>4. b \in Cores /\ b.generation \in Nat /\ b.open \in [Refs -> Frames]
  BY <1>2, CoreTypes
<1>5. /\ d \in Cores /\ d.generation = b.generation + 1 /\ d.open = b.open /\ d.enabled = b.enabled
      /\ d.ignored = b.ignored /\ d.pending = b.pending /\ d.out = b.out /\ d.asked = b.asked
  <2>1. PICK n : n = b.generation + 1
    OBVIOUS
  <2>2. b \in Cores /\ n \in Nat /\ d = [b EXCEPT !.generation = n]
    BY <1>3, <1>4, <2>1
  <2>3. /\ d \in Cores /\ d.generation = n /\ d.open = b.open /\ d.enabled = b.enabled
        /\ d.ignored = b.ignored /\ d.pending = b.pending /\ d.out = b.out /\ d.asked = b.asked
    BY <2>2 DEF Cores
  <2> QED
    BY <2>1, <2>3
<1>6. \A r \in Refs : d.open[r].generation <= d.generation
  <2>1. \A r \in Refs : b.open[r].generation <= b.generation /\ b.open[r].generation \in Nat
    BY <1>2, <1>4, FrameTypes DEF CoreFits
  <2> QED
    BY <2>1, <1>4, <1>5
<1>7. d.generation # 0
  BY <1>4, <1>5
<1>8. CoreFits(d)
  BY <1>2, <1>5, <1>6, <1>7 DEF CoreFits
<1> QED
  BY <1>1, <1>2, <1>5, <1>8 DEF SameBatches

\* A request that is sent is pending.
LEMMA SendsFits ==
    ASSUME NEW c, CoreFits(c), c.generation # 0, c.out = <<>>, NEW kind \in Kinds
    PROVE  /\ CoreFits(Sends(c, kind)) /\ SameBatches(c, Sends(c, kind))
           /\ Sends(c, kind).pending = Request(kind, c.generation)
           /\ Sends(c, kind).out = <<Sends(c, kind).pending>>
           /\ SendsPending(Sends(c, kind))
<1>1. PICK d, r : d = Sends(c, kind) /\ r = Request(kind, c.generation)
  OBVIOUS
<1>2. c \in Cores /\ c.generation \in Nat
  BY CoreTypes
<1>3. /\ r = [kind |-> kind, generation |-> c.generation] /\ r \in Pairs
      /\ r \in [kind : Kinds \cup {None}, generation : Nat]
  BY <1>1, <1>2 DEF Request, Pairs
<1>4. d = [c EXCEPT !.out = Append(c.out, r), !.pending = r]
  BY <1>1, <1>3 DEF Sends
<1>5. Append(c.out, r) = <<r>> /\ <<r>> \in Seq(Pairs)
  BY <1>3
<1>6. /\ d \in Cores /\ d.out = <<r>> /\ d.pending = r /\ SameBatches(c, d) /\ d.asked = c.asked
  BY <1>2, <1>3, <1>4, <1>5 DEF Cores, SameBatches
<1>7. CoreFits(d)
  BY <1>3, <1>6, SameBatchesFit DEF SameBatches
<1> QED
  BY <1>1, <1>3, <1>6, <1>7 DEF SendsPending, SameBatches

\* What an operator of the request half leaves: the batches, and at most one request sent.
Requested(c, d) == CoreFits(d) /\ SameBatches(c, d) /\ SendsPending(d)

\* Other fields of such a core do not matter.
LEMMA RequestedMore ==
    ASSUME NEW c, NEW d, Requested(c, d), NEW e \in Cores, SameBatches(d, e), e.pending = d.pending,
           e.out = d.out, e.asked => e.generation # 0
    PROVE  Requested(c, e)
<1>1. CoreFits(e)
  BY SameBatchesFit DEF Requested, CoreFits
<1> QED
  BY <1>1 DEF Requested, SameBatches, SendsPending

LEMMA AfterRefusedFits ==
    ASSUME NEW c, CoreFits(c), c.out = <<>>
    PROVE  Requested(c, AfterRefused(c)) /\ AfterRefused(c).out = <<>>
<1>1. PICK d : d = AfterRefused(c)
  OBVIOUS
<1>2. d = [c EXCEPT !.pending = NoPending, !.asked = FALSE, !.pages = 0]
  BY <1>1 DEF AfterRefused
<1>3. NoPending \in [kind : Kinds \cup {None}, generation : Nat] /\ NoPending.kind = None
  BY DEF NoPending
<1>4. c \in Cores
  BY DEF CoreFits
<1>5. d \in Cores /\ d.pending = NoPending /\ d.out = <<>> /\ ~ d.asked /\ SameBatches(c, d)
  BY <1>2, <1>3, <1>4 DEF Cores, SameBatches
<1>6. CoreFits(d)
  BY <1>3, <1>5, SameBatchesFit
<1> QED
  BY <1>1, <1>5, <1>6 DEF Requested, SendsPending

LEMMA LatestFits ==
    ASSUME NEW c, CoreFits(c), c.generation # 0, c.out = <<>>, NEW sent \in BOOLEAN
    PROVE  Requested(c, Latest(c, sent))
<1>1. CASE Latest(c, sent) = c
  BY <1>1 DEF Requested, SameBatches, SendsPending
<1>2. CASE Latest(c, sent) # c
  <2>1. PICK b, d : b = Sends(c, "LATEST") /\ d = Latest(c, sent)
    OBVIOUS
  <2>2. d = [b EXCEPT !.asked = TRUE]
    BY <1>2, <2>1 DEF Latest
  <2>3. Requested(c, b) /\ b \in Cores /\ b.generation = c.generation
    BY <2>1, SendsFits DEF Requested, CoreFits, Kinds, SameBatches
  <2>4. d \in Cores /\ SameBatches(b, d) /\ d.pending = b.pending /\ d.out = b.out /\ d.generation # 0
    BY <2>2, <2>3 DEF Cores, SameBatches
  <2> QED
    BY <2>1, <2>3, <2>4, RequestedMore
<1> QED
  BY <1>1, <1>2

LEMMA AfterFits ==
    ASSUME NEW c, CoreFits(c), c.generation # 0, c.out = <<>>, NEW sent \in BOOLEAN
    PROVE  Requested(c, After(c, sent)) /\ (~ After(c, sent).asked => After(c, sent).out = <<>>)
<1>1. CASE ~ c.enabled \/ Inflight(c)
  BY <1>1 DEF After, Requested, SameBatches, SendsPending
<1>2. CASE ~ (~ c.enabled \/ Inflight(c)) /\ sent
  <2>1. PICK b, d : b = Sends(c, "AFTER") /\ d = After(c, sent)
    OBVIOUS
  <2>2. d = [b EXCEPT !.asked = TRUE, !.pages = 1]
    BY <1>2, <2>1 DEF After
  <2>3. Requested(c, b) /\ b \in Cores /\ b.generation = c.generation
    BY <2>1, SendsFits DEF Requested, CoreFits, Kinds, SameBatches
  <2>4. /\ d \in Cores /\ SameBatches(b, d) /\ d.pending = b.pending /\ d.out = b.out
        /\ d.generation # 0 /\ d.asked
    BY <2>2, <2>3 DEF Cores, SameBatches
  <2> QED
    BY <2>1, <2>3, <2>4, RequestedMore
<1>3. CASE ~ (~ c.enabled \/ Inflight(c)) /\ ~ sent
  <2>1. After(c, sent) = AfterRefused(c)
    BY <1>3 DEF After
  <2> QED
    BY <2>1, AfterRefusedFits
<1> QED
  BY <1>1, <1>2, <1>3

LEMMA ChannelHistoryFits ==
    ASSUME NEW c, CoreFits(c), c.generation # 0, c.out = <<>>,
           NEW resumed \in BOOLEAN, NEW sentAfter \in BOOLEAN, NEW sentLatest \in BOOLEAN
    PROVE  Requested(c, ChannelHistory(c, resumed, sentAfter, sentLatest))
<1>1. PICK a, d : a = After(c, sentAfter) /\ d = ChannelHistory(c, resumed, sentAfter, sentLatest)
  OBVIOUS
<1>2. Requested(c, a) /\ (~ a.asked => a.out = <<>>)
  BY <1>1, AfterFits
<1>3. CoreFits(a) /\ a.generation # 0
  BY <1>2 DEF Requested, SameBatches
<1>4. CASE d = c
  BY <1>1, <1>4 DEF Requested, SameBatches, SendsPending
<1>5. CASE d = a
  BY <1>1, <1>2, <1>5
<1>6. CASE d = Latest(c, sentLatest)
  BY <1>1, <1>6, LatestFits
<1>7. CASE d = Latest(a, sentLatest) /\ ~ a.asked
  <2>1. Requested(a, d)
    BY <1>2, <1>3, <1>7, LatestFits
  <2> QED
    BY <1>1, <1>2, <2>1 DEF Requested, SameBatches
<1>8. d = c \/ d = a \/ d = Latest(c, sentLatest) \/ (d = Latest(a, sentLatest) /\ ~ a.asked)
  BY <1>1 DEF ChannelHistory
<1> QED
  BY <1>4, <1>5, <1>6, <1>7, <1>8

LEMMA ChainFits ==
    ASSUME NEW c, CoreFits(c), c.generation # 0, c.out = <<>>, NEW frame, NEW sent \in BOOLEAN
    PROVE  Requested(c, Chain(c, frame, sent))
<1>1. PICK d, a, t : d = Chain(c, frame, sent) /\ a = Sends(c, "AFTER") /\ t = Sends(c, "TAIL")
  OBVIOUS
<1>2. Requested(c, a) /\ Requested(c, t) /\ a \in Cores /\ a.generation = c.generation
      /\ (a.asked => a.generation # 0)
  BY <1>1, SendsFits DEF Requested, CoreFits, Kinds, SameBatches
<1>3. CASE d = c
  BY <1>1, <1>3 DEF Requested, SameBatches, SendsPending
<1>4. CASE d = AfterRefused(c)
  BY <1>1, <1>4, AfterRefusedFits
<1>5. CASE d = t
  BY <1>1, <1>2, <1>5
<1>6. CASE d = [a EXCEPT !.pages = a.pages + 1]
  <2>1. PICK n : n = a.pages + 1
    OBVIOUS
  <2>2. n \in Nat
    BY <1>2, <2>1 DEF Cores
  <2>3. /\ d \in Cores /\ SameBatches(a, d) /\ d.pending = a.pending /\ d.out = a.out
        /\ d.asked = a.asked /\ d.generation = a.generation
    <3>1. a \in Cores /\ d = [a EXCEPT !.pages = n]
      BY <1>2, <1>6, <2>1
    <3> QED
      BY <2>2, <3>1 DEF Cores, SameBatches
  <2> QED
    BY <1>1, <1>2, <2>3, RequestedMore
<1>7. d = c \/ d = AfterRefused(c) \/ d = t \/ d = [a EXCEPT !.pages = a.pages + 1]
  BY <1>1 DEF Chain
<1> QED
  BY <1>3, <1>4, <1>5, <1>6, <1>7

\* Fewer batches: those that stay are what they were, and at most one is new.
FewerBatches(c, d) ==
    /\ d.generation = c.generation /\ d.pending = c.pending /\ d.asked = c.asked /\ d.out = c.out
    /\ d.enabled = c.enabled
    /\ \A r \in Refs : d.open[r] = c.open[r] \/ d.open[r] = Closed

LEMMA FewerBatchesFit ==
    ASSUME NEW c, CoreFits(c), NEW d \in Cores, FewerBatches(c, d)
    PROVE  CoreFits(d)
<1>1. c.generation \in Nat
  BY CoreTypes
<1>2. ASSUME NEW r \in Refs
      PROVE  /\ d.open[r].generation <= d.generation
             /\ d.open[r].request # None => d.open[r].generation # 0
             /\ ~ d.enabled => d.open[r].root = 0
  <2>1. CASE d.open[r] = c.open[r]
    BY <2>1 DEF FewerBatches, CoreFits
  <2>2. CASE d.open[r] = Closed
    BY <1>1, <2>2, ClosedIsFrame DEF FewerBatches
  <2> QED
    BY <2>1, <2>2 DEF FewerBatches
<1> QED
  BY <1>2 DEF CoreFits, FewerBatches

\* The references that the ceiling lets ignore_batch keep.
Kept(c, refs) == {r \in refs : Cardinality(c.ignored \cup {q \in refs : q <= r}) <= MaxIgnored}

LEMMA IgnoreIs ==
    ASSUME NEW c, NEW refs
    PROVE  Ignore(c, refs) = [c EXCEPT !.open = [r \in Refs |-> IF r \in refs THEN Closed ELSE c.open[r]],
                                       !.ignored = c.ignored \cup Kept(c, refs)]
BY DEF Ignore, Kept

LEMMA KeptIsSome ==
    ASSUME NEW c, NEW refs
    PROVE  Kept(c, refs) \subseteq refs
BY DEF Kept

\* Whatever the ceiling, the batches that are ignored are closed.
LEMMA IgnoreFits ==
    ASSUME NEW c, CoreFits(c), NEW refs \in SUBSET Refs
    PROVE  /\ CoreFits(Ignore(c, refs)) /\ FewerBatches(c, Ignore(c, refs))
           /\ \A r \in refs : Ignore(c, refs).open[r] = Closed
           /\ \A r \in Refs \ refs : Ignore(c, refs).open[r] = c.open[r]
<1>1. PICK d, o, more :
        /\ d = Ignore(c, refs)
        /\ o = [r \in Refs |-> IF r \in refs THEN Closed ELSE c.open[r]]
        /\ more = c.ignored \cup Kept(c, refs)
  OBVIOUS
<1>2. c \in Cores /\ c.open \in [Refs -> Frames] /\ c.ignored \in SUBSET Refs
  BY CoreTypes
<1>3. o \in [Refs -> Frames] /\ more \in SUBSET Refs
  BY <1>1, <1>2, ClosedIsFrame, KeptIsSome
<1>4. d = [c EXCEPT !.open = o, !.ignored = more]
  BY <1>1, IgnoreIs
<1>5. /\ d \in Cores /\ d.generation = c.generation /\ d.pending = c.pending /\ d.asked = c.asked
      /\ d.out = c.out /\ d.enabled = c.enabled /\ d.open = o
  BY <1>2, <1>3, <1>4 DEF Cores
<1>6. /\ \A r \in refs : d.open[r] = Closed
      /\ \A r \in Refs \ refs : d.open[r] = c.open[r]
  BY <1>1, <1>5
<1>7. FewerBatches(c, d)
  BY <1>5, <1>6 DEF FewerBatches
<1> QED
  BY <1>1, <1>5, <1>6, <1>7, FewerBatchesFit

\* A KICK, a PART or a CAP DEL closes every batch.
LEMMA DropBatchesFits ==
    ASSUME NEW c, CoreFits(c)
    PROVE  /\ CoreFits(DropBatches(c)) /\ FewerBatches(c, DropBatches(c))
           /\ \A r \in Refs : DropBatches(c).open[r].root = 0
<1>1. PICK refs, d : refs = {r \in Refs : c.open[r].root # 0} /\ d = Ignore(c, refs)
  OBVIOUS
<1>2. d = Ignore(c, refs) /\ refs \in SUBSET Refs
  BY <1>1
<1>3. /\ CoreFits(d) /\ FewerBatches(c, d) /\ \A r \in refs : d.open[r] = Closed
      /\ \A r \in Refs \ refs : d.open[r] = c.open[r]
  BY <1>2, IgnoreFits
<1>4. \A r \in Refs : d.open[r].root = 0
  BY <1>1, <1>3, ClosedIsFrame
<1>5. d = DropBatches(c)
  BY <1>1 DEF DropBatches
<1> QED
  BY <1>3, <1>4, <1>5

\* d has dropped the batches that c has.
Dropped(c, d) ==
    \E b : /\ CoreFits(b) /\ b.open = c.open /\ b.ignored = c.ignored
           /\ d.open = DropBatches(b).open /\ d.ignored = DropBatches(b).ignored

LEMMA ForgetFits ==
    ASSUME NEW c, CoreFits(c)
    PROVE  /\ CoreFits(Forget(c)) /\ Forget(c).generation = c.generation /\ Forget(c).out = c.out
           /\ Forget(c).enabled = c.enabled /\ Dropped(c, Forget(c)) /\ Forget(c) \in Cores
           /\ \A r \in Refs : Forget(c).open[r].root = 0
<1>1. PICK a, b, d : /\ a = ClearPending(c) /\ d = Forget(c)
                     /\ b = [a EXCEPT !.asked = FALSE, !.exhausted = FALSE, !.pages = 0]
  OBVIOUS
<1>2. CoreFits(a) /\ SameBatches(c, a) /\ a.out = c.out /\ a \in Cores
  BY <1>1, ClearPendingFits DEF CoreFits
<1>3. b \in Cores /\ SameBatches(a, b) /\ ~ b.asked /\ b.pending = a.pending /\ b.out = a.out
  BY <1>1, <1>2 DEF Cores, SameBatches
<1>4. CoreFits(b)
  BY <1>2, <1>3, SameBatchesFit DEF CoreFits
<1>5. d = DropBatches(b)
  BY <1>1 DEF Forget
<1>6. CoreFits(d) /\ FewerBatches(b, d) /\ \A r \in Refs : d.open[r].root = 0
  BY <1>4, <1>5, DropBatchesFits
<1>7. Dropped(c, d)
  BY <1>2, <1>3, <1>4, <1>5 DEF Dropped, SameBatches
<1> QED
  BY <1>1, <1>2, <1>3, <1>6, <1>7, CoreTypes DEF SameBatches, FewerBatches

LEMMA AbandonFits ==
    ASSUME NEW c, CoreFits(c)
    PROVE  /\ CoreFits(Abandon(c)) /\ Abandon(c).generation = c.generation /\ Abandon(c).out = c.out
           /\ ~ Abandon(c).enabled /\ Dropped(c, Abandon(c)) /\ Abandon(c) \in Cores
<1>1. PICK a, b, d : /\ a = ClearPending(c) /\ b = DropBatches(a) /\ d = Abandon(c)
  OBVIOUS
<1>2. CoreFits(a) /\ SameBatches(c, a) /\ a.out = c.out
  BY <1>1, ClearPendingFits
<1>3. CoreFits(b) /\ FewerBatches(a, b) /\ (\A r \in Refs : b.open[r].root = 0) /\ b \in Cores
  BY <1>1, <1>2, DropBatchesFits DEF CoreFits
<1>4. d = [b EXCEPT !.pages = 0, !.enabled = FALSE]
  BY <1>1 DEF Abandon
<1>5. /\ d \in Cores /\ ~ d.enabled /\ d.generation = b.generation /\ d.out = b.out
      /\ d.open = b.open /\ d.asked = b.asked /\ d.pending = b.pending /\ d.ignored = b.ignored
  BY <1>3, <1>4 DEF Cores
<1>6. CoreFits(d)
  BY <1>3, <1>5 DEF CoreFits
<1>7. Dropped(c, d)
  BY <1>1, <1>2, <1>5 DEF Dropped, SameBatches
<1> QED
  BY <1>1, <1>2, <1>3, <1>5, <1>6, <1>7 DEF SameBatches, FewerBatches

\* The table with another batch under r.
WithFrame(c, r, f) == [c EXCEPT !.open[r] = f]

LEMMA OpenFits ==
    ASSUME NEW c, CoreFits(c), NEW r \in Refs, NEW f \in Frames, NEW d, d = WithFrame(c, r, f),
           f.generation <= c.generation, f.request # None => f.generation # 0,
           ~ c.enabled => f.root = 0
    PROVE  /\ CoreFits(d) /\ d.generation = c.generation /\ d.pending = c.pending /\ d.out = c.out
           /\ d.enabled = c.enabled /\ d.ignored = c.ignored /\ d.asked = c.asked /\ d.open[r] = f
           /\ \A q \in Refs \ {r} : d.open[q] = c.open[q]
<1>1. c \in Cores /\ c.open \in [Refs -> Frames]
  BY CoreTypes
<1>2. PICK o : o = [c.open EXCEPT ![r] = f]
  OBVIOUS
<1>3. o \in [Refs -> Frames] /\ o[r] = f /\ \A q \in Refs \ {r} : o[q] = c.open[q]
  BY <1>1, <1>2
<1>4. d = [c EXCEPT !.open = o]
  BY <1>2 DEF WithFrame
<1>5. /\ d \in Cores /\ d.generation = c.generation /\ d.pending = c.pending /\ d.out = c.out
      /\ d.enabled = c.enabled /\ d.asked = c.asked /\ d.open = o /\ d.ignored = c.ignored
  BY <1>1, <1>3, <1>4 DEF Cores
<1>6. ASSUME NEW q \in Refs
      PROVE  /\ o[q].generation <= c.generation
             /\ o[q].request # None => o[q].generation # 0
             /\ ~ c.enabled => o[q].root = 0
  <2>1. CASE q = r
    BY <1>3, <2>1
  <2>2. CASE q # r
    BY <1>3, <2>2 DEF CoreFits
  <2> QED
    BY <2>1, <2>2
<1>7. CoreFits(d)
  BY <1>5, <1>6 DEF CoreFits
<1> QED
  BY <1>3, <1>5, <1>7

-----------------------------------------------------------------------------
(* The match *)

\* The match lasts as long as nothing of this generation is added to the queues.
LEMMA MatchLasts ==
    ASSUME NEW c, NEW ts, NEW tc, NEW ts2, NEW tc2, Matched(c, ts, tc),
           Settled(c.generation, ts, tc) => Settled(c.generation, ts2, tc2),
           Alone(c.generation, c.pending, ts, tc) => Alone(c.generation, c.pending, ts2, tc2)
    PROVE  Matched(c, ts2, tc2)
BY DEF Matched

\* And as long as the batch of this generation is what it was.
LEMMA MatchCarries ==
    ASSUME NEW c, NEW d, NEW ts, NEW tc, Matched(c, ts, tc),
           d.generation = c.generation, d.pending = c.pending,
           \A r \in Refs : RootNow(d, r) => /\ RootNow(c, r) /\ d.open[r].of = c.open[r].of
                                            /\ d.open[r].request = c.open[r].request
    PROVE  Matched(d, ts, tc)
BY DEF Matched

\* Fewer batches do not disturb it.
LEMMA MatchFewer ==
    ASSUME NEW c, NEW d, NEW ts, NEW tc, Matched(c, ts, tc), FewerBatches(c, d)
    PROVE  Matched(d, ts, tc)
<1>1. ASSUME NEW r \in Refs, RootNow(d, r)
      PROVE  /\ RootNow(c, r) /\ d.open[r].of = c.open[r].of
             /\ d.open[r].request = c.open[r].request
  <2>1. d.open[r].generation # 0
    BY <1>1 DEF RootNow
  <2>2. d.open[r] = c.open[r]
    BY <2>1, ClosedIsFrame DEF FewerBatches
  <2> QED
    BY <1>1, <2>2 DEF RootNow, FewerBatches
<1> QED
  BY <1>1, MatchCarries DEF FewerBatches

\* Where nothing is unanswered and no batch is open, one request may be sent.
LEMMA MatchStarts ==
    ASSUME NEW d, NEW ts \in Seq(Pairs), NEW tc, NEW ts2, Settled(d.generation, ts, tc),
           \A r \in Refs : ~ RootNow(d, r),
           ts2 = ts \/ (d.pending \in Pairs /\ ts2 = Append(ts, d.pending))
    PROVE  Matched(d, ts2, tc)
<1>1. Alone(d.generation, d.pending, ts2, tc)
  <2>1. CASE ts2 = ts
    BY <2>1, SettledIsAlone
  <2>2. CASE d.pending \in Pairs /\ ts2 = Append(ts, d.pending)
    BY <2>2, RequestAdded
  <2> QED
    BY <2>1, <2>2
<1> QED
  BY <1>1 DEF Matched

\* What was sent is in the queue.
LEMMA Emptied ==
    ASSUME NEW d, CoreFits(d), NEW e, e = [d EXCEPT !.out = <<>>]
    PROVE  /\ CoreFits(e) /\ e.out = <<>> /\ e.generation = d.generation /\ e.pending = d.pending
           /\ e.open = d.open /\ e.enabled = d.enabled /\ e.ignored = d.ignored
<1>1. d \in Cores /\ <<>> \in Seq(Pairs)
  BY DEF CoreFits
<1>2. /\ e \in Cores /\ e.out = <<>> /\ e.generation = d.generation /\ e.pending = d.pending
      /\ e.open = d.open /\ e.enabled = d.enabled /\ e.ignored = d.ignored /\ e.asked = d.asked
  BY <1>1 DEF Cores
<1> QED
  BY <1>2 DEF CoreFits

\* A handler leaves the core d and reads a line; what is left to show is the match.
LEMMA Receives ==
    ASSUME MatchInv, toClient # <<>>, toClient' = Tail(toClient), UNCHANGED <<answer, batches>>,
           NEW d, CoreFits(d), SendsPending(d), Becomes(d, <<>>),
           d.generation = core.generation \/ d.generation = core.generation + 1,
           d.out # <<>> => d.generation # 0,
           crossed' \in BOOLEAN, AnswerIsMatched',
           d.enabled /\ ~ crossed' =>
              IF d.out = <<>> THEN Matched(d, toServer, Tail(toClient))
              ELSE /\ Settled(d.generation, toServer, Tail(toClient))
                   /\ \A r \in Refs : ~ RootNow(d, r)
    PROVE  MatchInv'
<1>1. /\ core.generation \in Nat /\ toServer \in Seq(Pairs) /\ toClient \in Seq(Lines)
      /\ QueuesFit(core.generation, toServer, toClient)
  BY CoreTypes DEF MatchInv
<1>2. d \in Cores /\ d.generation \in Nat
  BY CoreTypes
<1>3. core' = [d EXCEPT !.out = <<>>] /\ toServer' = toServer \o d.out \o <<>>
  BY DEF Becomes
<1>4. /\ core'.out = <<>> /\ core'.generation = d.generation
      /\ core'.pending = d.pending /\ core'.open = d.open /\ core'.enabled = d.enabled
  BY <1>3, Emptied
<1>5. CoreFits(core')
  BY <1>3, Emptied
<1>6. Tail(toClient) \in Seq(Lines)
  BY <1>1, TailFacts
<1>7. QueuesFit(d.generation, toServer, Tail(toClient))
  <2>1. QueuesFit(core.generation, toServer, Tail(toClient))
    BY <1>1, LineTaken
  <2> QED
    BY <1>1, <2>1, QueuesAge
<1>8. \A r \in Refs : RootNow(core', r) => RootNow(d, r)
  BY <1>4 DEF RootNow
<1>9. CASE d.out = <<>>
  <2>1. toServer' = toServer
    BY <1>1, <1>3, <1>9, ConcatFacts
  <2>2. core'.enabled /\ ~ crossed' => Matched(core', toServer', toClient')
    BY <1>4, <1>8, <1>9, <2>1, MatchCarries
  <2> QED
    BY <1>1, <1>4, <1>5, <1>6, <1>7, <2>1, <2>2 DEF MatchInv
<1>10. CASE d.out # <<>>
  <2>1. d.out = <<d.pending>> /\ d.pending.kind \in Kinds /\ d.pending.generation = d.generation
    BY <1>10 DEF SendsPending
  <2>2. d.pending \in Pairs
    BY <2>1, CoreTypes DEF Pairs
  <2>3. toServer' = Append(toServer, d.pending)
    <3>1. Append(toServer, d.pending) \in Seq(Pairs) /\ toServer \o <<d.pending>> = Append(toServer, d.pending)
      BY <1>1, <2>2, AppendFacts, ConcatFacts
    <3> QED
      BY <1>3, <2>1, <3>1, ConcatFacts
  <2>4. RequestFits(d.generation, d.pending)
    BY <1>2, <1>10, <2>1 DEF RequestFits
  <2>5. toServer' \in Seq(Pairs) /\ QueuesFit(d.generation, toServer', toClient')
    BY <1>1, <1>7, <2>2, <2>3, <2>4, RequestAdded, AppendFacts
  <2>6. core'.enabled /\ ~ crossed' => Matched(core', toServer', toClient')
    BY <1>1, <1>4, <1>8, <1>10, <2>2, <2>3, MatchStarts
  <2> QED
    BY <1>4, <1>5, <1>6, <2>5, <2>6 DEF MatchInv
<1> QED
  BY <1>9, <1>10

-----------------------------------------------------------------------------
(* Each line the session reads keeps the match *)

LEMMA NothingDelivered ==
    ASSUME delivered' = NoDelivery
    PROVE  AnswerIsMatched'
BY DEF AnswerIsMatched, NoDelivery

\* The types that the steps below start from.
LEMMA InvTypes ==
    ASSUME MatchInv
    PROVE  /\ CoreFits(core) /\ core.out = <<>> /\ core.generation \in Nat /\ core.enabled \in BOOLEAN
           /\ toServer \in Seq(Pairs) /\ toClient \in Seq(Lines)
           /\ QueuesFit(core.generation, toServer, toClient) /\ crossed \in BOOLEAN
           /\ core.enabled /\ ~ crossed => Matched(core, toServer, toClient)
BY CoreTypes DEF MatchInv

\* A new membership: whatever was asked before is of an earlier generation.
LEMMA NewGeneration ==
    ASSUME MatchInv, toClient # <<>>, NEW d, CoreFits(d), d.generation = core.generation + 1,
           \A r \in Refs : d.open[r].root = 0 \/ d.open[r] = core.open[r]
    PROVE  /\ Settled(d.generation, toServer, Tail(toClient))
           /\ \A r \in Refs : ~ RootNow(d, r)
           /\ Matched(d, toServer, Tail(toClient))
<1>1. /\ core.generation \in Nat /\ toServer \in Seq(Pairs) /\ toClient \in Seq(Lines)
      /\ QueuesFit(core.generation, toServer, toClient)
  BY InvTypes
<1>2. Settled(d.generation, toServer, Tail(toClient))
  <2>1. QueuesFit(core.generation, toServer, Tail(toClient))
    BY <1>1, LineTaken
  <2> QED
    BY <1>1, <2>1, QueuesAge
<1>3. ASSUME NEW r \in Refs
      PROVE  ~ RootNow(d, r)
  <2>1. r # 0 /\ core.open[r].generation \in Nat /\ core.open[r].generation <= core.generation
    BY InvTypes, CoreTypes, FrameTypes, BoundsAssumption DEF Refs, CoreFits
  <2> QED
    BY <1>1, <2>1 DEF RootNow
<1> QED
  BY <1>1, <1>2, <1>3, MatchStarts

LEMMA JoinKeeps ==
    ASSUME MatchInv, NEW resumed \in BOOLEAN, NEW sentAfter \in BOOLEAN, NEW sentLatest \in BOOLEAN,
           Join(resumed, sentAfter, sentLatest)
    PROVE  MatchInv'
<1>1. PICK b, d : b = Bump(core) /\ d = ChannelHistory(b, resumed, sentAfter, sentLatest)
  OBVIOUS
<1>2. /\ toClient # <<>> /\ toClient' = Tail(toClient) /\ Becomes(d, <<>>)
      /\ UNCHANGED <<answer, batches, crossed>> /\ delivered' = NoDelivery
  BY <1>1 DEF Join, Takes, Handled
<1>3. /\ CoreFits(core) /\ core.out = <<>> /\ core.generation \in Nat /\ crossed \in BOOLEAN
  BY InvTypes
<1>4. /\ CoreFits(b) /\ b.generation = core.generation + 1 /\ b.out = <<>> /\ b.open = core.open
  BY <1>1, <1>3, BumpFits
<1>5. b.generation # 0
  BY <1>3, <1>4
<1>6. Requested(b, d)
  BY <1>1, <1>4, <1>5, ChannelHistoryFits
<1>7. CoreFits(d) /\ SendsPending(d) /\ d.generation = core.generation + 1 /\ d.open = core.open
  BY <1>4, <1>6 DEF Requested, SameBatches
<1>8. /\ Settled(d.generation, toServer, Tail(toClient)) /\ \A r \in Refs : ~ RootNow(d, r)
  BY <1>2, <1>7, NewGeneration
<1>9. Matched(d, toServer, Tail(toClient))
  BY <1>2, <1>7, NewGeneration
<1>10. AnswerIsMatched'
  BY <1>2, NothingDelivered
<1>11. d.generation # 0
  BY <1>3, <1>7
<1> QED
  BY <1>2, <1>3, <1>7, <1>8, <1>9, <1>10, <1>11, Receives

LEMMA LeaveKeeps ==
    ASSUME MatchInv, Leave
    PROVE  MatchInv'
<1>1. PICK b, d : b = Bump(core) /\ d = Forget(b)
  OBVIOUS
<1>2. /\ toClient # <<>> /\ toClient' = Tail(toClient) /\ Becomes(d, <<>>)
      /\ UNCHANGED <<answer, batches, crossed>> /\ delivered' = NoDelivery
  BY <1>1 DEF Leave, Takes, Handled
<1>3. /\ CoreFits(core) /\ core.out = <<>> /\ core.generation \in Nat /\ crossed \in BOOLEAN
  BY InvTypes
<1>4. /\ CoreFits(b) /\ b.generation = core.generation + 1 /\ b.out = <<>>
  BY <1>1, <1>3, BumpFits
<1>5. /\ CoreFits(d) /\ d.generation = core.generation + 1 /\ d.out = <<>>
      /\ \A r \in Refs : d.open[r].root = 0
  BY <1>1, <1>4, ForgetFits
<1>6. Matched(d, toServer, Tail(toClient))
  BY <1>2, <1>5, NewGeneration
<1>7. AnswerIsMatched' /\ SendsPending(d)
  BY <1>2, <1>5, NothingDelivered DEF SendsPending
<1> QED
  BY <1>2, <1>3, <1>5, <1>6, <1>7, Receives

LEMMA CapDelKeeps ==
    ASSUME MatchInv, CapDel
    PROVE  MatchInv'
<1>1. PICK d : d = Abandon(core)
  OBVIOUS
<1>2. /\ toClient # <<>> /\ toClient' = Tail(toClient) /\ Becomes(d, <<>>)
      /\ UNCHANGED <<answer, batches, crossed>> /\ delivered' = NoDelivery
  BY <1>1 DEF CapDel, Takes, Handled
<1>3. /\ CoreFits(core) /\ core.out = <<>> /\ crossed \in BOOLEAN
  BY InvTypes
<1>4. CoreFits(d) /\ d.generation = core.generation /\ d.out = <<>> /\ ~ d.enabled
  BY <1>1, <1>3, AbandonFits
<1>5. AnswerIsMatched' /\ SendsPending(d)
  BY <1>2, <1>4, NothingDelivered DEF SendsPending
<1> QED
  BY <1>2, <1>3, <1>4, <1>5, Receives

\* The answer that is read, if nothing crossed, is that of the request that is pending.
LEMMA AnswerIsPending ==
    ASSUME MatchInv, toClient # <<>>, IsAnswer(Head(toClient)), core.enabled, ~ crossed,
           Head(toClient).of.generation \in {core.generation, 0}
    PROVE  /\ AnswersPending(core) /\ Head(toClient).of = core.pending
           /\ core.pending.kind \in Kinds /\ core.pending.generation = core.generation
           /\ core.generation # 0
           /\ Settled(core.generation, toServer, Tail(toClient))
           /\ \A r \in Refs : ~ RootNow(core, r)
<1>1. PICK line, g : line = Head(toClient) /\ g = core.generation
  OBVIOUS
<1>2. /\ g \in Nat /\ toServer \in Seq(Pairs) /\ toClient \in Seq(Lines)
      /\ QueuesFit(g, toServer, toClient) /\ Matched(core, toServer, toClient)
  BY <1>1, InvTypes
<1>3. LineFits(g, line)
  BY <1>1, <1>2, LineTaken
<1>4. AnswersNow(g, line) /\ g # 0
  BY <1>1, <1>2, <1>3 DEF LineFits, AnswersNow, AsksNow
<1>5. Alone(g, core.pending, toServer, toClient)
  BY <1>1, <1>2 DEF Matched
<1>6. Settled(g, toServer, Tail(toClient)) /\ line.of = core.pending
  BY <1>1, <1>2, <1>4, <1>5, LineTaken
<1>7. ~ Settled(g, toServer, toClient)
  BY <1>1, <1>2, <1>4, LineTaken
<1>8. \A r \in Refs : ~ RootNow(core, r)
  BY <1>1, <1>2, <1>7 DEF Matched
<1>9. core.pending.kind \in Kinds /\ core.pending.generation = g
  BY <1>4, <1>6 DEF AnswersNow, AsksNow
<1>10. AnswersPending(core)
  BY <1>1, <1>4, <1>8, <1>9, NoneIsNoKind DEF AnswersPending, Inflight, IsRoot, RootNow
<1> QED
  BY <1>1, <1>4, <1>6, <1>8, <1>9, <1>10

LEMMA FailKeeps ==
    ASSUME MatchInv, Fail
    PROVE  MatchInv'
<1>1. PICK line, d : line = Head(toClient) /\ d = Failed(core)
  OBVIOUS
<1>2. /\ toClient # <<>> /\ line.what = "FAIL" /\ toClient' = Tail(toClient) /\ Becomes(d, <<>>)
      /\ crossed' = (crossed \/ line.of.generation \notin {core.generation, 0})
      /\ UNCHANGED <<answer, batches>> /\ delivered' = NoDelivery
  BY <1>1 DEF Fail, Takes, Answers
<1>3. /\ CoreFits(core) /\ core.out = <<>> /\ crossed \in BOOLEAN /\ toServer \in Seq(Pairs)
  BY InvTypes
<1>4. PICK e, x : e = ClearPending(core) /\ x = (e.exhausted \/ core.pending.kind \notin {"AFTER", "TAIL"})
  OBVIOUS
<1>5. /\ CoreFits(e) /\ SameBatches(core, e) /\ e.pending = NoPending /\ e.out = <<>>
      /\ e \in Cores
  BY <1>3, <1>4, ClearPendingFits DEF CoreFits
<1>6. d = core \/ d = [e EXCEPT !.exhausted = x]
  BY <1>1, <1>4 DEF Failed
<1>7. AnswersPending(core) => d = [e EXCEPT !.exhausted = x]
  BY <1>1, <1>4 DEF Failed
<1>8. x \in BOOLEAN
  BY <1>4
<1>9. CASE d = [e EXCEPT !.exhausted = x]
  <2>1. /\ d \in Cores /\ SameBatches(e, d) /\ d.pending = e.pending /\ d.out = e.out
        /\ d.asked = e.asked
    BY <1>5, <1>8, <1>9 DEF Cores, SameBatches
  <2>2. CoreFits(d)
    BY <1>5, <2>1, SameBatchesFit DEF CoreFits, SameBatches
  <2>3. /\ d.out = <<>> /\ d.open = core.open /\ d.generation = core.generation
        /\ d.enabled = core.enabled
    BY <1>5, <2>1 DEF SameBatches
  <2>4. ASSUME d.enabled, ~ crossed' PROVE Matched(d, toServer, Tail(toClient))
    <3>1. /\ Settled(core.generation, toServer, Tail(toClient))
          /\ \A r \in Refs : ~ RootNow(core, r)
      BY <1>1, <1>2, <2>3, <2>4, AnswerIsPending DEF IsAnswer
    <3>2. \A r \in Refs : ~ RootNow(d, r)
      BY <3>1, <2>3 DEF RootNow
    <3> QED
      BY <1>3, <2>3, <3>1, <3>2, MatchStarts
  <2>5. AnswerIsMatched' /\ SendsPending(d) /\ crossed' \in BOOLEAN
    BY <1>2, <1>3, <2>3, NothingDelivered DEF SendsPending
  <2> QED
    BY <1>2, <2>2, <2>3, <2>4, <2>5, Receives
<1>10. CASE d = core /\ ~ AnswersPending(core)
  <2>1. ~ (d.enabled /\ ~ crossed')
    BY <1>1, <1>2, <1>10, AnswerIsPending DEF IsAnswer
  <2>2. AnswerIsMatched' /\ SendsPending(d) /\ crossed' \in BOOLEAN
    BY <1>2, <1>3, <1>10, NothingDelivered DEF SendsPending
  <2> QED
    BY <1>2, <1>3, <1>10, <2>1, <2>2, Receives
<1> QED
  BY <1>6, <1>7, <1>9, <1>10

\* handle_batch with a chathistory batch.
LEMMA OpenRootKeeps ==
    ASSUME MatchInv, BatchOpens, Head(toClient).parent = 0
    PROVE  MatchInv'
<1>1. PICK line, r, d :
        line = Head(toClient) /\ r = line.ref /\ d = OpenRoot(core, r, line.of)
  OBVIOUS
<1>2. /\ toClient # <<>> /\ line.what = "OPEN" /\ line.parent = 0 /\ toClient' = Tail(toClient)
      /\ Becomes(d, <<>>)
      /\ crossed' = (crossed \/ line.of.generation \notin {core.generation, 0})
      /\ UNCHANGED <<answer, batches>> /\ delivered' = NoDelivery
  BY <1>1 DEF BatchOpens, Takes, Answers
<1>3. /\ CoreFits(core) /\ core.out = <<>> /\ crossed \in BOOLEAN /\ toServer \in Seq(Pairs)
      /\ toClient \in Seq(Lines) /\ core.generation \in Nat
      /\ QueuesFit(core.generation, toServer, toClient)
  BY InvTypes
<1>4. line \in Lines /\ LineFits(core.generation, line)
  BY <1>1, <1>2, <1>3, LineTaken, TailFacts
<1>5. r \in Refs /\ line.of \in Pairs
  BY <1>1, <1>2, <1>4 DEF LineFits, Lines
<1>6. AnswerIsMatched' /\ crossed' \in BOOLEAN
  BY <1>2, <1>3, NothingDelivered
<1>7. PICK i, kind, f : /\ i = Ignore(core, {r})
                        /\ kind = IF AnswersPending(core) THEN core.pending.kind ELSE None
                        /\ f = Batch(r, core.generation, kind, line.of)
  OBVIOUS
<1>8. CoreFits(i) /\ FewerBatches(core, i)
  BY <1>3, <1>5, <1>7, IgnoreFits
<1>9. \/ ~ core.enabled /\ d = i
      \/ ~ AnswersPending(core) /\ d = ClearPending(i)
      \/ core.enabled /\ d = WithFrame(core, r, f)
  BY <1>1, <1>7 DEF OpenRoot, WithFrame
<1>10. CASE ~ core.enabled /\ d = i
  <2>1. d.out = <<>> /\ d.generation = core.generation /\ ~ d.enabled /\ SendsPending(d)
    BY <1>3, <1>8, <1>10 DEF FewerBatches, SendsPending
  <2> QED
    BY <1>2, <1>6, <1>8, <1>10, <2>1, Receives
<1>11. CASE ~ AnswersPending(core) /\ d = ClearPending(i)
  <2>1. CoreFits(d) /\ SameBatches(i, d) /\ d.out = i.out
    BY <1>8, <1>11, ClearPendingFits
  <2>2. /\ d.out = <<>> /\ d.generation = core.generation /\ d.enabled = core.enabled
        /\ SendsPending(d)
    BY <1>3, <1>8, <2>1 DEF FewerBatches, SameBatches, SendsPending
  <2>3. ~ (d.enabled /\ ~ crossed')
    BY <1>1, <1>2, <1>11, <2>2, AnswerIsPending DEF IsAnswer
  <2> QED
    BY <1>2, <1>6, <2>1, <2>2, <2>3, Receives
<1>12. CASE core.enabled /\ d = WithFrame(core, r, f)
  <2>1. core.pending.kind \in Kinds \cup {None} /\ core.pending.generation \in Nat
    BY <1>3, CoreTypes
  <2>2. f \in Frames /\ f.generation = core.generation /\ f.request = kind /\ f.of = line.of
        /\ f.root = r
    <3>1. kind \in Kinds \cup {None} /\ r \in 0 .. MaxBatches
      BY <1>5, <1>7, <2>1 DEF Refs
    <3> QED
      BY <1>3, <1>5, <1>7, <3>1 DEF Batch, Frames, Moves
  <2>3. f.request # None => f.generation # 0
    BY <1>3, <1>7, <2>2 DEF CoreFits, AnswersPending, Inflight
  <2>4. /\ CoreFits(d) /\ d.generation = core.generation /\ d.pending = core.pending
        /\ d.out = <<>> /\ d.open[r] = f /\ \A q \in Refs \ {r} : d.open[q] = core.open[q]
    <3>1. f.generation <= core.generation
      BY <1>3, <2>2
    <3> QED
      BY <1>3, <1>5, <1>12, <2>2, <2>3, <3>1, OpenFits
  <2>5. ASSUME ~ crossed' PROVE Matched(d, toServer, Tail(toClient))
    <3>1. /\ AnswersPending(core) /\ line.of = core.pending
          /\ core.pending.kind \in Kinds /\ core.pending.generation = core.generation
          /\ Settled(core.generation, toServer, Tail(toClient))
          /\ \A q \in Refs : ~ RootNow(core, q)
      BY <1>1, <1>2, <1>12, <2>5, AnswerIsPending DEF IsAnswer
    <3>2. \A q \in Refs : RootNow(d, q) => q = r
      BY <2>4, <3>1 DEF RootNow
    <3>3. f.of = d.pending /\ f.request = d.pending.kind
      BY <1>7, <2>2, <2>4, <3>1
    <3>4. Alone(d.generation, d.pending, toServer, Tail(toClient))
      BY <2>4, <3>1, SettledIsAlone
    <3>5. d.pending.kind # None /\ d.pending.generation = d.generation
      BY <2>4, <3>1, NoneIsNoKind
    <3> QED
      BY <2>4, <3>1, <3>2, <3>3, <3>4, <3>5 DEF Matched
  <2>6. SendsPending(d)
    BY <2>4 DEF SendsPending
  <2> QED
    BY <1>2, <1>6, <2>4, <2>5, <2>6, Receives
<1> QED
  BY <1>9, <1>10, <1>11, <1>12

\* handle_batch with a batch inside another one.
LEMMA OpenChildKeeps ==
    ASSUME MatchInv, BatchOpens, Head(toClient).parent # 0
    PROVE  MatchInv'
<1>1. PICK line, r, p, d :
        /\ line = Head(toClient) /\ r = line.ref /\ p = line.parent
        /\ d = OpenChild(core, r, p)
  OBVIOUS
<1>2. /\ toClient # <<>> /\ line.what = "OPEN" /\ p # 0 /\ toClient' = Tail(toClient)
      /\ Becomes(d, <<>>)
      /\ crossed' = (crossed \/ line.of.generation \notin {core.generation, 0})
      /\ UNCHANGED <<answer, batches>> /\ delivered' = NoDelivery
  BY <1>1 DEF BatchOpens, Takes, Answers
<1>3. /\ CoreFits(core) /\ core.out = <<>> /\ crossed \in BOOLEAN /\ toServer \in Seq(Pairs)
      /\ toClient \in Seq(Lines) /\ core.generation \in Nat
      /\ QueuesFit(core.generation, toServer, toClient)
      /\ core.enabled /\ ~ crossed => Matched(core, toServer, toClient)
  BY InvTypes
<1>4. line \in Lines /\ LineFits(core.generation, line)
  BY <1>1, <1>2, <1>3, LineTaken, TailFacts
<1>5. r \in Refs /\ p \in Refs
  BY <1>1, <1>2, <1>4, BoundsAssumption DEF LineFits, Lines, Refs
<1>6. AnswerIsMatched' /\ crossed' \in BOOLEAN /\ (~ crossed' => ~ crossed)
  BY <1>2, <1>3, NothingDelivered
<1>7. core.enabled /\ ~ crossed' => Matched(core, toServer, Tail(toClient))
  BY <1>2, <1>3, <1>6, LineTaken, MatchLasts
<1>8. PICK i, f : i = Ignore(core, {r}) /\ f = Batch(core.open[p].root, 0, None, NoRequest)
  OBVIOUS
<1>9. d = i \/ d = core \/ d = WithFrame(core, r, f)
  BY <1>1, <1>8 DEF OpenChild, WithFrame
<1>10. CASE d = i
  <2>1. CoreFits(d) /\ FewerBatches(core, d)
    BY <1>3, <1>5, <1>8, <1>10, IgnoreFits
  <2>2. /\ d.out = <<>> /\ d.generation = core.generation /\ d.enabled = core.enabled
        /\ SendsPending(d)
    BY <1>3, <2>1 DEF FewerBatches, SendsPending
  <2>3. d.enabled /\ ~ crossed' => Matched(d, toServer, Tail(toClient))
    BY <1>7, <2>1, <2>2, MatchFewer
  <2> QED
    BY <1>2, <1>6, <2>1, <2>2, <2>3, Receives
<1>11. CASE d = core
  <2>1. SendsPending(d)
    BY <1>3, <1>11 DEF SendsPending
  <2> QED
    BY <1>2, <1>3, <1>6, <1>7, <1>11, <2>1, Receives
<1>12. CASE d = WithFrame(core, r, f)
  <2>1. core.open[p] \in Frames
    BY <1>3, <1>5, CoreTypes
  <2>2. f \in Frames /\ f.generation = 0 /\ f.request = None /\ f.root = core.open[p].root
    <3>1. core.open[p].root \in 0 .. MaxBatches
      BY <2>1, FrameTypes
    <3>2. NoRequest \in Pairs
      BY DEF NoRequest, Request, Pairs
    <3> QED
      BY <1>8, <3>1, <3>2 DEF Batch, Frames, Moves
  <2>3. ~ core.enabled => f.root = 0
    BY <1>3, <1>5, <2>2 DEF CoreFits
  <2>4. /\ CoreFits(d) /\ d.generation = core.generation /\ d.pending = core.pending
        /\ d.out = <<>> /\ d.enabled = core.enabled /\ d.open[r] = f
        /\ \A q \in Refs \ {r} : d.open[q] = core.open[q]
    <3>1. f.generation <= core.generation /\ (f.request # None => f.generation # 0)
      BY <1>3, <2>2
    <3> QED
      BY <1>3, <1>5, <1>12, <2>2, <2>3, <3>1, OpenFits
  <2>5. \A q \in Refs : RootNow(d, q) => RootNow(core, q) /\ d.open[q] = core.open[q]
    BY <2>2, <2>4 DEF RootNow
  <2>6. d.enabled /\ ~ crossed' => Matched(d, toServer, Tail(toClient))
    BY <1>7, <2>4, <2>5, MatchCarries
  <2>7. SendsPending(d)
    BY <2>4 DEF SendsPending
  <2> QED
    BY <1>2, <1>6, <2>4, <2>6, <2>7, Receives
<1> QED
  BY <1>9, <1>10, <1>11, <1>12

\* capture_in_batch.
LEMMA ReplayedKeeps ==
    ASSUME MatchInv, NEW moves \in Moves, Replayed(moves)
    PROVE  MatchInv'
<1>1. PICK r, root, e :
        /\ r = Head(toClient).ref /\ root = core.open[r].root
        /\ e = [core EXCEPT !.open[root].lines = 1, !.open[root].moves = moves]
  OBVIOUS
<1>2. /\ toClient # <<>> /\ Head(toClient).what = "LINE" /\ toClient' = Tail(toClient)
      /\ UNCHANGED <<answer, batches, crossed>> /\ delivered' = NoDelivery
  BY DEF Replayed, Takes, Handled
<1>3. Becomes(core, <<>>) \/ (Becomes(e, <<>>) /\ root # 0)
  BY <1>1 DEF Replayed
<1>4. /\ CoreFits(core) /\ core.out = <<>> /\ crossed \in BOOLEAN /\ toServer \in Seq(Pairs)
      /\ toClient \in Seq(Lines) /\ core.generation \in Nat
      /\ QueuesFit(core.generation, toServer, toClient)
      /\ core.enabled /\ ~ crossed => Matched(core, toServer, toClient)
  BY InvTypes
<1>5. core.enabled /\ ~ crossed' => Matched(core, toServer, Tail(toClient))
  BY <1>2, <1>4, LineTaken, MatchLasts
<1>6. AnswerIsMatched' /\ crossed' \in BOOLEAN
  BY <1>2, <1>4, NothingDelivered
<1>7. CASE Becomes(core, <<>>)
  <2>1. SendsPending(core)
    BY <1>4 DEF SendsPending
  <2> QED
    BY <1>2, <1>4, <1>5, <1>6, <1>7, <2>1, Receives
<1>8. CASE Becomes(e, <<>>) /\ root # 0
  <2>1. LineFits(core.generation, Head(toClient))
    BY <1>2, <1>4, LineTaken
  <2>2. r \in Refs /\ core \in Cores /\ core.open \in [Refs -> Frames]
    BY <1>1, <1>2, <1>4, <2>1, CoreTypes DEF LineFits
  <2>3. root \in Refs /\ core.open[root] \in Frames
    <3>1. core.open[r] \in Frames
      BY <2>2
    <3>2. root \in 0 .. MaxBatches
      BY <1>1, <3>1, FrameTypes
    <3>3. root \in Refs
      BY <1>8, <3>2, BoundsAssumption DEF Refs
    <3> QED
      BY <2>2, <3>3
  <2>4. PICK w, f : w = core.open[root] /\ f = [w EXCEPT !.lines = 1, !.moves = moves]
    OBVIOUS
  <2>5. /\ f \in Frames /\ f.root = core.open[root].root /\ f.of = core.open[root].of
        /\ f.generation = core.open[root].generation /\ f.request = core.open[root].request
    <3>1. w \in Frames /\ f = [w EXCEPT !.lines = 1, !.moves = moves] /\ 1 \in 0 .. 1
      BY <2>3, <2>4
    <3>2. /\ f \in Frames /\ f.root = w.root /\ f.of = w.of /\ f.generation = w.generation
          /\ f.request = w.request
      BY <3>1 DEF Frames
    <3> QED
      BY <2>4, <3>2
  <2>6. e = WithFrame(core, root, f)
    BY <1>1, <2>2, <2>3, <2>4 DEF WithFrame
  <2>7. /\ f.generation <= core.generation /\ (f.request # None => f.generation # 0)
        /\ (~ core.enabled => f.root = 0)
    BY <1>4, <2>3, <2>5 DEF CoreFits
  <2>8. /\ CoreFits(e) /\ e.generation = core.generation /\ e.pending = core.pending
        /\ e.out = <<>> /\ e.enabled = core.enabled /\ e.open[root] = f
        /\ \A q \in Refs \ {root} : e.open[q] = core.open[q]
    BY <1>4, <2>3, <2>5, <2>6, <2>7, OpenFits
  <2>9. \A q \in Refs : RootNow(e, q) => /\ RootNow(core, q) /\ e.open[q].of = core.open[q].of
                                         /\ e.open[q].request = core.open[q].request
    BY <2>5, <2>8 DEF RootNow
  <2>10. e.enabled /\ ~ crossed' => Matched(e, toServer, Tail(toClient))
    BY <1>5, <2>8, <2>9, MatchCarries
  <2>11. SendsPending(e)
    BY <2>8 DEF SendsPending
  <2> QED
    BY <1>2, <1>6, <1>8, <2>8, <2>10, <2>11, Receives
<1> QED
  BY <1>3, <1>7, <1>8

\* Before the first membership nothing is asked.
LEMMA SettledAtZero ==
    ASSUME NEW ts, NEW tc, QueuesFit(0, ts, tc)
    PROVE  Settled(0, ts, tc)
<1>1. \A r : RequestFits(0, r) => ~ AsksNow(0, r)
  BY DEF RequestFits, AsksNow
<1>2. \A line : LineFits(0, line) => ~ AnswersNow(0, line)
  BY DEF LineFits, AnswersNow, AsksNow
<1> QED
  BY <1>1, <1>2 DEF QueuesFit, Settled

\* close_batch on what it settles: c is the core without the batch.
LEMMA SettleFits ==
    ASSUME NEW c, CoreFits(c), c.out = <<>>, NEW frame \in Frames, NEW sent \in BOOLEAN,
           frame.request # None => frame.generation # 0
    PROVE  Requested(c, Settle(c, frame, sent))
<1>1. CASE frame.generation # c.generation
  BY <1>1 DEF Settle, Requested, SameBatches, SendsPending
<1>2. CASE frame.generation = c.generation
  <2>1. PICK x, b, p, d :
          /\ x = (c.exhausted \/ (frame.lines = 0 /\ frame.request \notin {"AFTER", "TAIL"}))
          /\ b = IF frame.request = None THEN c
                 ELSE [c EXCEPT !.pending = NoPending, !.exhausted = x]
          /\ p = [b EXCEPT !.before = FALSE] /\ d = Settle(c, frame, sent)
    OBVIOUS
  <2>2. d = IF frame.request = "AFTER" THEN Chain(p, frame, sent) ELSE p
    BY <1>2, <2>1 DEF Settle
  <2>3. c \in Cores /\ x \in BOOLEAN
    BY <2>1 DEF CoreFits, Cores
  <2>4. NoPending \in [kind : Kinds \cup {None}, generation : Nat] /\ NoPending.kind = None
    BY DEF NoPending
  <2>5. /\ b \in Cores /\ SameBatches(c, b) /\ b.out = <<>> /\ b.asked = c.asked
        /\ b.pending = c.pending \/ b.pending = NoPending
    BY <2>1, <2>3, <2>4 DEF Cores, SameBatches
  <2>6. /\ p \in Cores /\ SameBatches(b, p) /\ p.out = <<>> /\ p.asked = b.asked
        /\ p.pending = b.pending
    <3>1. p = [b EXCEPT !.before = FALSE] /\ b \in Cores /\ b.out = <<>>
      BY <2>1, <2>5
    <3> QED
      BY <3>1 DEF Cores, SameBatches
  <2>7. CoreFits(p) /\ SameBatches(c, p)
    <3>1. SameBatches(c, p)
      BY <2>5, <2>6 DEF SameBatches
    <3>2. (p.asked => p.generation # 0) /\ (p.pending.kind # None => p.pending.generation # 0)
      BY <2>4, <2>5, <2>6, <3>1 DEF CoreFits, SameBatches
    <3> QED
      BY <2>6, <3>1, <3>2, SameBatchesFit
  <2>8. CASE frame.request = "AFTER"
    <3>1. p.generation # 0
      BY <1>2, <2>7, <2>8 DEF SameBatches, None
    <3>2. Requested(p, d)
      BY <2>2, <2>6, <2>7, <2>8, <3>1, ChainFits
    <3> QED
      BY <2>1, <2>7, <3>2 DEF Requested, SameBatches
  <2>9. CASE frame.request # "AFTER"
    BY <2>1, <2>2, <2>6, <2>7, <2>9 DEF Requested, SendsPending
  <2> QED
    BY <2>8, <2>9
<1> QED
  BY <1>1, <1>2

LEMMA FewerAndFewer ==
    ASSUME NEW b, NEW c, NEW d, FewerBatches(b, c), FewerBatches(c, d)
    PROVE  FewerBatches(b, d)
BY DEF FewerBatches

\* The table after a close: the batch and its children are gone.
LEMMA CloseFits ==
    ASSUME NEW c, CoreFits(c), NEW r \in Refs, NEW children \in SUBSET Refs,
           NEW d, d = Ignore(WithFrame(c, r, Closed), children)
    PROVE  CoreFits(d) /\ FewerBatches(c, d) /\ d.open[r] = Closed
<1>1. PICK e : e = WithFrame(c, r, Closed)
  OBVIOUS
<1>2. c.generation \in Nat
  BY CoreTypes
<1>3. /\ CoreFits(e) /\ e.generation = c.generation /\ e.pending = c.pending /\ e.out = c.out
      /\ e.enabled = c.enabled /\ e.asked = c.asked /\ e.open[r] = Closed
      /\ \A q \in Refs \ {r} : e.open[q] = c.open[q]
  BY <1>1, <1>2, ClosedIsFrame, OpenFits
<1>4. FewerBatches(c, e)
  BY <1>3 DEF FewerBatches
<1>5. d = Ignore(e, children)
  BY <1>1
<1>6. /\ CoreFits(d) /\ FewerBatches(e, d) /\ (\A q \in children : d.open[q] = Closed)
      /\ \A q \in Refs \ children : d.open[q] = e.open[q]
  BY <1>3, <1>5, IgnoreFits
<1> QED
  BY <1>3, <1>4, <1>6, FewerAndFewer

LEMMA BatchClosesKeeps ==
    ASSUME MatchInv, NEW sent \in BOOLEAN, BatchCloses(sent)
    PROVE  MatchInv'
<1>1. PICK r, frame, children, i, c, s :
        /\ r = Head(toClient).ref /\ frame = core.open[r]
        /\ children = {q \in Refs \ {r} : core.open[q].root = r}
        /\ i = [core EXCEPT !.ignored = core.ignored \ {r}]
        /\ c = Ignore(WithFrame(core, r, Closed), children) /\ s = Settle(c, frame, sent)
  OBVIOUS
<1>2. /\ toClient # <<>> /\ Head(toClient).what = "CLOSE" /\ toClient' = Tail(toClient)
      /\ UNCHANGED <<answer, batches, crossed>>
  BY DEF BatchCloses, Takes, Handled
<1>3. \/ Becomes(i, <<>>) /\ delivered' = NoDelivery
      \/ Becomes(c, <<>>) /\ delivered' = NoDelivery
      \/ /\ Becomes(s, <<>>) /\ frame.root = r
         /\ \/ delivered' = NoDelivery
            \/ /\ frame.generation = c.generation
               /\ delivered' = [of |-> frame.of, request |-> frame.request, generation |-> c.generation]
  BY <1>1 DEF BatchCloses, WithFrame
<1>4. /\ CoreFits(core) /\ core.out = <<>> /\ crossed \in BOOLEAN /\ toServer \in Seq(Pairs)
      /\ toClient \in Seq(Lines) /\ core.generation \in Nat
      /\ QueuesFit(core.generation, toServer, toClient)
      /\ core.enabled /\ ~ crossed => Matched(core, toServer, toClient)
  BY InvTypes
<1>5. core.enabled /\ ~ crossed' => Matched(core, toServer, Tail(toClient))
  BY <1>2, <1>4, LineTaken, MatchLasts
<1>6. LineFits(core.generation, Head(toClient))
  BY <1>2, <1>4, LineTaken
<1>7. r \in Refs /\ core \in Cores /\ frame \in Frames /\ core.ignored \in SUBSET Refs
  <2>1. r \in Refs
    BY <1>1, <1>2, <1>6 DEF LineFits
  <2> QED
    BY <1>1, <1>4, <2>1, CoreTypes
<1>8. CoreFits(c) /\ FewerBatches(core, c) /\ c.open[r] = Closed
  <2>1. children \in SUBSET Refs
    BY <1>1
  <2>2. c = Ignore(WithFrame(core, r, Closed), children)
    BY <1>1
  <2> QED
    BY <1>4, <1>7, <2>1, <2>2, CloseFits
<1>9. /\ c.out = <<>> /\ c.generation = core.generation /\ c.enabled = core.enabled
      /\ SendsPending(c)
  BY <1>4, <1>8 DEF FewerBatches, SendsPending
<1>10. CASE Becomes(i, <<>>) /\ delivered' = NoDelivery
  <2>1. i \in Cores /\ FewerBatches(core, i) /\ i.out = <<>>
    <3>1. PICK less : less = core.ignored \ {r}
      OBVIOUS
    <3>2. less \in SUBSET Refs /\ i = [core EXCEPT !.ignored = less]
      BY <1>1, <1>7, <3>1
    <3> QED
      BY <1>4, <1>7, <3>2 DEF Cores, FewerBatches
  <2>2. CoreFits(i)
    BY <1>4, <2>1, FewerBatchesFit
  <2>3. i.enabled /\ ~ crossed' => Matched(i, toServer, Tail(toClient))
    BY <1>5, <2>1, MatchFewer DEF FewerBatches
  <2>4. i.generation = core.generation /\ SendsPending(i)
    BY <2>1 DEF FewerBatches, SendsPending
  <2>5. AnswerIsMatched' /\ crossed' \in BOOLEAN
    BY <1>2, <1>4, <1>10, NothingDelivered
  <2> QED
    BY <1>2, <1>10, <2>1, <2>2, <2>3, <2>4, <2>5, Receives
<1>11. CASE Becomes(c, <<>>) /\ delivered' = NoDelivery
  <2>1. c.enabled /\ ~ crossed' => Matched(c, toServer, Tail(toClient))
    BY <1>5, <1>8, <1>9, MatchFewer
  <2>2. AnswerIsMatched' /\ crossed' \in BOOLEAN
    BY <1>2, <1>4, <1>11, NothingDelivered
  <2> QED
    BY <1>2, <1>8, <1>9, <1>11, <2>1, <2>2, Receives
<1>12. CASE /\ Becomes(s, <<>>) /\ frame.root = r
            /\ \/ delivered' = NoDelivery
               \/ /\ frame.generation = c.generation
                  /\ delivered' = [of |-> frame.of, request |-> frame.request,
                                   generation |-> c.generation]
  <2>1. frame.request # None => frame.generation # 0
    BY <1>1, <1>4, <1>7 DEF CoreFits
  <2>2. r # 0
    BY <1>7, BoundsAssumption DEF Refs
  <2>3. core.enabled
    BY <1>1, <1>4, <1>7, <1>12, <2>2 DEF CoreFits
  <2>4. Requested(c, s)
    BY <1>1, <1>7, <1>8, <1>9, <2>1, SettleFits
  <2>5. CoreFits(s) /\ SendsPending(s) /\ s.generation = core.generation /\ s.open = c.open
    BY <1>9, <2>4 DEF Requested, SameBatches
  <2>6. AnswerIsMatched' /\ crossed' \in BOOLEAN
    <3>1. CASE delivered' = NoDelivery \/ crossed \/ frame.request = None
      BY <1>2, <1>4, <1>12, <3>1, NothingDelivered DEF AnswerIsMatched
    <3>2. CASE delivered' # NoDelivery /\ ~ crossed /\ frame.request # None
      <4>1. RootNow(core, r)
        BY <1>1, <1>9, <1>12, <2>1, <3>2 DEF RootNow
      <4>2. /\ frame.of = core.pending /\ frame.request = core.pending.kind
            /\ core.pending.generation = core.generation
        BY <1>1, <1>4, <1>7, <2>3, <3>2, <4>1 DEF Matched
      <4>3. core.pending \in [kind : Kinds \cup {None}, generation : Nat]
        BY <1>4, CoreTypes
      <4>4. core.pending = Request(frame.request, core.generation)
        BY <4>2, <4>3 DEF Request
      <4>5. /\ delivered'.of = frame.of /\ delivered'.request = frame.request
            /\ delivered'.generation = core.generation
        BY <1>9, <1>12, <3>2
      <4> QED
        BY <1>2, <1>4, <4>2, <4>4, <4>5 DEF AnswerIsMatched
    <3> QED
      BY <3>1, <3>2
  <2>7. ASSUME ~ crossed, frame.generation = core.generation
        PROVE  /\ Settled(s.generation, toServer, Tail(toClient))
               /\ \A q \in Refs : ~ RootNow(s, q)
    <3>1. QueuesFit(core.generation, toServer, Tail(toClient))
      BY <1>2, <1>4, LineTaken
    <3>2. CASE core.generation = 0
      BY <2>5, <3>1, <3>2, SettledAtZero DEF RootNow
    <3>3. CASE core.generation # 0
      <4>1. RootNow(core, r)
        BY <1>1, <1>12, <2>7, <3>3 DEF RootNow
      <4>2. /\ Settled(core.generation, toServer, toClient)
            /\ \A q \in Refs : RootNow(core, q) => q = r
        BY <1>4, <1>7, <2>3, <2>7, <4>1 DEF Matched
      <4>3. Settled(core.generation, toServer, Tail(toClient))
        BY <1>2, <1>4, <4>2, LineTaken
      <4>4. ASSUME NEW q \in Refs, RootNow(s, q)
            PROVE  FALSE
        <5>1. s.open[q].generation # 0
          BY <4>4 DEF RootNow
        <5>2. s.open[q] = core.open[q] /\ q # r
          BY <1>8, <2>5, <5>1, ClosedIsFrame DEF FewerBatches
        <5>3. RootNow(core, q)
          BY <2>5, <4>4, <5>2 DEF RootNow
        <5> QED
          BY <4>2, <5>2, <5>3
      <4> QED
        BY <2>5, <4>3, <4>4
    <3> QED
      BY <3>2, <3>3
  <2>8. s.out # <<>> => s.generation # 0
    BY <2>5, NoneIsNoKind DEF SendsPending, CoreFits
  <2>9. CASE frame.generation # core.generation
    <3>1. s = c
      BY <1>1, <1>9, <2>9 DEF Settle
    <3>2. c.enabled /\ ~ crossed' => Matched(c, toServer, Tail(toClient))
      BY <1>5, <1>8, <1>9, MatchFewer
    <3> QED
      BY <1>2, <1>8, <1>9, <1>12, <2>6, <3>1, <3>2, Receives
  <2>10. CASE frame.generation = core.generation
    <3>1. ~ crossed' => /\ Settled(s.generation, toServer, Tail(toClient))
                       /\ \A q \in Refs : ~ RootNow(s, q)
      BY <1>2, <2>7, <2>10
    <3>2. ~ crossed' => Matched(s, toServer, Tail(toClient))
      BY <1>4, <3>1, MatchStarts
    <3> QED
      BY <1>2, <1>12, <2>5, <2>6, <2>8, <3>1, <3>2, Receives
  <2> QED
    BY <2>9, <2>10
<1> QED
  BY <1>3, <1>10, <1>11, <1>12

-----------------------------------------------------------------------------
(* The user and the server *)

\* The user writes a line: a request when nothing is in flight, or a JOIN or a PART.
LEMMA Writes ==
    ASSUME MatchInv, UNCHANGED <<toClient, answer, batches, crossed>>, delivered' = NoDelivery,
           NEW d, CoreFits(d), NEW x \in Pairs, core' = [d EXCEPT !.out = <<>>],
           toServer' = Append(toServer, x), RequestFits(core.generation, x),
           d.generation = core.generation, d.enabled = core.enabled, d.open = core.open,
           \/ d.pending = core.pending /\ ~ AsksNow(core.generation, x)
           \/ d.pending = x /\ ~ Inflight(core) /\ core.generation # 0
    PROVE  MatchInv'
<1>1. /\ CoreFits(core) /\ core.out = <<>> /\ crossed \in BOOLEAN /\ toServer \in Seq(Pairs)
      /\ toClient \in Seq(Lines) /\ core.generation \in Nat
      /\ QueuesFit(core.generation, toServer, toClient)
      /\ core.enabled /\ ~ crossed => Matched(core, toServer, toClient)
  BY InvTypes
<1>2. /\ CoreFits(core') /\ core'.out = <<>> /\ core'.generation = core.generation
      /\ core'.pending = d.pending /\ core'.open = core.open /\ core'.enabled = core.enabled
  BY Emptied
<1>3. toServer' \in Seq(Pairs) /\ QueuesFit(core.generation, toServer', toClient)
  BY <1>1, AppendFacts, RequestAdded
<1>4. ASSUME core.enabled, ~ crossed PROVE Matched(core', toServer', toClient)
  <2>1. Matched(core, toServer, toClient)
    BY <1>1, <1>4
  <2>2. CASE d.pending = core.pending /\ ~ AsksNow(core.generation, x)
    <3>1. Matched(core, toServer', toClient)
      BY <1>1, <2>1, <2>2, RequestAdded, MatchLasts
    <3> QED
      BY <1>2, <2>2, <3>1, MatchCarries DEF RootNow
  <2>3. CASE d.pending = x /\ ~ Inflight(core) /\ core.generation # 0
    <3>1. \A r \in Refs : ~ RootNow(core, r)
      BY <2>1, <2>3 DEF Matched, Inflight
    <3>2. ~ AsksNow(core.generation, core.pending)
      BY <2>3, NoneIsNoKind DEF Inflight, AsksNow
    <3>3. Settled(core.generation, toServer, toClient)
      <4>1. Alone(core.generation, core.pending, toServer, toClient)
        BY <2>1 DEF Matched
      <4> QED
        BY <3>2, <4>1 DEF Alone, Settled, AnswersNow
    <3>4. \A r \in Refs : ~ RootNow(core', r)
      BY <1>2, <3>1 DEF RootNow
    <3> QED
      BY <1>1, <1>2, <2>3, <3>3, <3>4, MatchStarts
  <2> QED
    BY <2>2, <2>3
<1>5. AnswerIsMatched'
  BY NothingDelivered
<1> QED
  BY <1>1, <1>2, <1>3, <1>4, <1>5 DEF MatchInv

LEMMA UserKeeps ==
    ASSUME MatchInv, User
    PROVE  MatchInv'
<1>1. /\ CoreFits(core) /\ core.out = <<>> /\ toServer \in Seq(Pairs) /\ core.generation \in Nat
  BY InvTypes
<1>2. CASE RequestOlder
  <2>1. PICK b, d : b = Sends(core, "BEFORE") /\ d = Older(core)
    OBVIOUS
  <2>2. /\ core.asked /\ ~ Inflight(core) /\ core.generation # 0 /\ Becomes(d, <<>>)
        /\ delivered' = NoDelivery /\ UNCHANGED <<toClient, answer, batches, crossed>>
    BY <1>1, <1>2, <2>1 DEF RequestOlder, Asks, CoreFits
  <2>3. /\ CoreFits(b) /\ SameBatches(core, b) /\ b.out = <<b.pending>> /\ b \in Cores
        /\ b.pending = Request("BEFORE", core.generation)
    BY <1>1, <2>1, <2>2, SendsFits DEF Kinds, CoreFits
  <2>4. d = [b EXCEPT !.before = TRUE]
    BY <2>1 DEF Older
  <2>5. /\ d \in Cores /\ SameBatches(b, d) /\ d.pending = b.pending /\ d.out = b.out
        /\ d.asked = b.asked
    BY <2>3, <2>4 DEF Cores, SameBatches
  <2>6. CoreFits(d)
    BY <2>3, <2>5, SameBatchesFit DEF CoreFits, SameBatches
  <2>7. d.generation = core.generation /\ d.enabled = core.enabled /\ d.open = core.open
    BY <2>3, <2>5 DEF SameBatches
  <2>8. /\ d.pending \in Pairs /\ RequestFits(core.generation, d.pending)
        /\ d.out = <<d.pending>>
    BY <1>1, <2>2, <2>3, <2>5 DEF Request, Pairs, RequestFits, Kinds
  <2>9. toServer' = Append(toServer, d.pending)
    <3>1. Append(toServer, d.pending) \in Seq(Pairs)
      BY <1>1, <2>8, AppendFacts
    <3>2. toServer \o <<d.pending>> = Append(toServer, d.pending)
      BY <1>1, <2>8, ConcatFacts
    <3> QED
      BY <2>2, <2>8, <3>1, <3>2, ConcatFacts DEF Becomes
  <2>10. core' = [d EXCEPT !.out = <<>>]
    BY <2>2 DEF Becomes
  <2> QED
    BY <2>2, <2>6, <2>7, <2>8, <2>9, <2>10, Writes
<1>3. ASSUME NEW kind \in {"JOIN", "PART"}, Asks(core, <<Request(kind, 0)>>)
      PROVE  MatchInv'
  <2>1. PICK x : x = Request(kind, 0)
    OBVIOUS
  <2>2. x \in Pairs /\ x.kind \notin Kinds
    BY <2>1 DEF Request, Pairs, Kinds
  <2>3. RequestFits(core.generation, x) /\ ~ AsksNow(core.generation, x)
    BY <2>2 DEF RequestFits, AsksNow
  <2>4. /\ delivered' = NoDelivery /\ UNCHANGED <<toClient, answer, batches, crossed>>
        /\ core' = [core EXCEPT !.out = <<>>] /\ toServer' = toServer \o core.out \o <<x>>
    BY <1>3, <2>1 DEF Asks, Becomes
  <2>5. toServer' = Append(toServer, x)
    <3>1. toServer \o <<>> = toServer /\ toServer \o <<x>> = Append(toServer, x)
      BY <1>1, <2>2, ConcatFacts
    <3> QED
      BY <1>1, <2>4, <3>1
  <2> QED
    BY <1>1, <2>2, <2>3, <2>4, <2>5, Writes
<1> QED
  BY <1>2, <1>3 DEF User, SendJoin, SendPart

\* The server takes a line or none, and writes one or none.
LEMMA Speaks ==
    ASSUME MatchInv, UNCHANGED <<core, crossed>>, delivered' = NoDelivery,
           toServer' = toServer \/ (toServer # <<>> /\ toServer' = Tail(toServer)),
           NEW x \in Lines, toClient' = toClient \/ toClient' = Append(toClient, x),
           LineFits(core.generation, x),
           IsAnswer(x) => toServer # <<>> /\ toServer' = Tail(toServer) /\ x.of = Head(toServer),
           answer' \in Answerings, answer' # NoAnswer => answer'.ref # 0,
           batches' \in 0 .. MaxBatches
    PROVE  MatchInv'
<1>1. /\ CoreFits(core) /\ core.out = <<>> /\ crossed \in BOOLEAN /\ toServer \in Seq(Pairs)
      /\ toClient \in Seq(Lines) /\ core.generation \in Nat
      /\ QueuesFit(core.generation, toServer, toClient)
      /\ core.enabled /\ ~ crossed => Matched(core, toServer, toClient)
  BY InvTypes
<1>2. PICK g : g = core.generation
  OBVIOUS
<1>3. toServer' \in Seq(Pairs) /\ toClient' \in Seq(Lines)
  <2>1. toServer' \in Seq(Pairs)
    BY <1>1, TailFacts
  <2>2. toClient' \in Seq(Lines)
    BY <1>1, AppendFacts
  <2> QED
    BY <2>1, <2>2
<1>4. QueuesFit(g, toServer', toClient) /\ QueuesFit(g, toServer', toClient')
  <2>1. QueuesFit(g, toServer', toClient)
    BY <1>1, <1>2, RequestTaken
  <2> QED
    BY <1>1, <1>2, <2>1, LineAdded
<1>5. ASSUME core.enabled, ~ crossed PROVE Matched(core, toServer', toClient')
  <2>1. Matched(core, toServer, toClient)
    BY <1>1, <1>5
  <2>2. Matched(core, toServer', toClient)
    BY <1>1, <2>1, RequestTaken, MatchLasts
  <2>3. CASE toClient' = toClient
    BY <2>2, <2>3
  <2>4. CASE toClient' = Append(toClient, x) /\ ~ AnswersNow(g, x)
    BY <1>1, <1>2, <2>2, <2>4, LineAdded, MatchLasts
  <2>5. CASE toClient' = Append(toClient, x) /\ AnswersNow(g, x)
    <3>1. toServer # <<>> /\ toServer' = Tail(toServer) /\ AsksNow(g, Head(toServer))
      BY <2>5 DEF AnswersNow
    <3>2. Alone(g, core.pending, toServer, toClient)
      BY <1>2, <2>1 DEF Matched
    <3>3. Settled(g, toServer', toClient) /\ Head(toServer) = core.pending
      BY <1>1, <3>1, <3>2, RequestTaken
    <3>4. ~ Settled(g, toServer, toClient)
      BY <1>1, <3>1, RequestTaken
    <3>5. \A r \in Refs : ~ RootNow(core, r)
      BY <1>2, <2>1, <3>4 DEF Matched
    <3>6. x.of = core.pending
      BY <2>5, <3>3 DEF AnswersNow
    <3>7. Alone(g, core.pending, toServer', toClient')
      BY <1>1, <2>5, <3>3, <3>6, LineAdded
    <3> QED
      BY <1>2, <3>5, <3>7 DEF Matched
  <2> QED
    BY <2>3, <2>4, <2>5
<1>6. AnswerIsMatched'
  BY NothingDelivered
<1> QED
  BY <1>1, <1>2, <1>3, <1>4, <1>5, <1>6 DEF MatchInv, Answerings

LEMMA LineIsTyped ==
    ASSUME NEW what \in {"JOIN", "LEAVE", "DEL", "FAIL", "OPEN", "LINE", "CLOSE"},
           NEW ref \in 0 .. MaxBatches, NEW parent \in 0 .. MaxBatches, NEW of \in Pairs,
           NEW x, x = Line(what, ref, parent, of)
    PROVE  x \in Lines /\ x.what = what /\ x.ref = ref /\ x.parent = parent /\ x.of = of
BY DEF Line, Lines

\* A line that answers nothing.
LEMMA PlainLine ==
    ASSUME NEW what \in {"JOIN", "LEAVE", "DEL", "LINE", "CLOSE"},
           NEW ref \in 0 .. MaxBatches, what \in {"LINE", "CLOSE"} => ref # 0,
           NEW x, x = Line(what, ref, 0, NoRequest), NEW g
    PROVE  x \in Lines /\ LineFits(g, x) /\ ~ IsAnswer(x)
<1>1. NoRequest \in Pairs /\ 0 \in 0 .. MaxBatches
  BY BoundsAssumption DEF NoRequest, Request, Pairs
<1>2. x \in Lines /\ x.what = what /\ x.ref = ref
  BY <1>1, LineIsTyped
<1>3. ~ IsAnswer(x)
  BY <1>2 DEF IsAnswer
<1>4. ref # 0 => ref \in Refs
  BY BoundsAssumption DEF Refs
<1> QED
  BY <1>2, <1>3, <1>4 DEF LineFits

LEMMA AnswerTypes ==
    ASSUME MatchInv
    PROVE  /\ answer \in Answerings /\ (answer # NoAnswer => answer.ref # 0)
           /\ batches \in 0 .. MaxBatches /\ batches \in Nat
           /\ NoAnswer \in Answerings /\ toClient \in Seq(Lines)
           /\ toClient \o <<>> = toClient
           /\ \A x \in Lines : toClient \o <<x>> = Append(toClient, x)
<1>1. NoAnswer \in Answerings
  BY BoundsAssumption DEF NoAnswer, NoRequest, Request, Pairs, Answerings
<1>2. toClient \in Seq(Lines)
  BY DEF MatchInv
<1>3. toClient \o <<>> = toClient /\ \A x \in Lines : toClient \o <<x>> = Append(toClient, x)
  BY <1>2, ConcatFacts
<1> QED
  BY <1>1, <1>2, <1>3, BoundsAssumption DEF MatchInv, Answerings

\* A step that writes a plain line, and leaves the batches what they are.
LEMMA SpeaksPlainly ==
    ASSUME MatchInv, UNCHANGED <<core, crossed, answer, batches>>, delivered' = NoDelivery,
           toServer' = toServer \/ (toServer # <<>> /\ toServer' = Tail(toServer)),
           NEW what \in {"JOIN", "LEAVE", "DEL"},
           toClient' = toClient \/ toClient' = toClient \o <<Line(what, 0, 0, NoRequest)>>
    PROVE  MatchInv'
<1>1. PICK x : x = Line(what, 0, 0, NoRequest)
  OBVIOUS
<1>2. 0 \in 0 .. MaxBatches
  BY BoundsAssumption
<1>3. x \in Lines /\ LineFits(core.generation, x) /\ ~ IsAnswer(x)
  BY <1>1, <1>2, PlainLine
<1>4. toClient' = toClient \/ toClient' = Append(toClient, x)
  BY <1>1, <1>3, AnswerTypes
<1> QED
  BY <1>3, <1>4, AnswerTypes, Speaks

LEMMA ServeJoinPartKeeps ==
    ASSUME MatchInv, ServeJoin \/ ServePart \/ ServeKick \/ ServeDel
    PROVE  MatchInv'
<1>1. toClient \o <<>> = toClient
  BY AnswerTypes
<1>2. CASE ServeJoin
  <2>1. /\ UNCHANGED <<core, crossed, answer, batches>> /\ delivered' = NoDelivery
        /\ toServer # <<>> /\ toServer' = Tail(toServer)
        /\ toClient' = toClient \/ toClient' = toClient \o <<Line("JOIN", 0, 0, NoRequest)>>
    BY <1>1, <1>2 DEF ServeJoin, Gets, Replies, Quiet
  <2> QED
    BY <2>1, SpeaksPlainly
<1>3. CASE ServePart
  <2>1. /\ UNCHANGED <<core, crossed, answer, batches>> /\ delivered' = NoDelivery
        /\ toServer # <<>> /\ toServer' = Tail(toServer)
        /\ toClient' = toClient \/ toClient' = toClient \o <<Line("LEAVE", 0, 0, NoRequest)>>
    BY <1>1, <1>3 DEF ServePart, Gets, Replies, Quiet
  <2> QED
    BY <2>1, SpeaksPlainly
<1>4. CASE ServeKick
  <2>1. /\ UNCHANGED <<core, crossed, answer, batches, toServer>> /\ delivered' = NoDelivery
        /\ toClient' = toClient \o <<Line("LEAVE", 0, 0, NoRequest)>>
    BY <1>4 DEF ServeKick, Strikes, Replies, Quiet
  <2> QED
    BY <2>1, SpeaksPlainly
<1>5. CASE ServeDel
  <2>1. /\ UNCHANGED <<core, crossed, answer, batches, toServer>> /\ delivered' = NoDelivery
        /\ toClient' = toClient \o <<Line("DEL", 0, 0, NoRequest)>>
    BY <1>5 DEF ServeDel, Strikes, Replies, Quiet
  <2> QED
    BY <2>1, SpeaksPlainly
<1> QED
  BY <1>2, <1>3, <1>4, <1>5

\* What the server says to a request fits, and answers it.
LEMMA ReplyFits ==
    ASSUME MatchInv, toServer # <<>>, Head(toServer).kind \in Kinds, NEW ref \in 0 .. MaxBatches,
           NEW what \in {"FAIL", "OPEN"}, what = "OPEN" => ref # 0,
           NEW x, x = Line(what, ref, 0, Head(toServer))
    PROVE  /\ Head(toServer) \in Pairs /\ x \in Lines /\ LineFits(core.generation, x)
           /\ x.of = Head(toServer)
<1>1. toServer \in Seq(Pairs) /\ QueuesFit(core.generation, toServer, toClient)
  BY InvTypes
<1>2. Head(toServer) \in Pairs /\ RequestFits(core.generation, Head(toServer))
  BY <1>1, TailFacts, RequestTaken
<1>3. 0 \in 0 .. MaxBatches
  BY BoundsAssumption
<1>4. x \in Lines /\ x.what = what /\ x.ref = ref /\ x.parent = 0 /\ x.of = Head(toServer)
  BY <1>2, <1>3, LineIsTyped
<1>5. ref # 0 => ref \in Refs
  BY BoundsAssumption DEF Refs
<1> QED
  BY <1>2, <1>4, <1>5 DEF LineFits, RequestFits

LEMMA ServeFailKeeps ==
    ASSUME MatchInv, ServeFail
    PROVE  MatchInv'
<1>1. PICK x : x = Line("FAIL", 0, 0, Head(toServer))
  OBVIOUS
<1>2. /\ UNCHANGED <<core, crossed, answer, batches>> /\ delivered' = NoDelivery
      /\ toServer # <<>> /\ toServer' = Tail(toServer) /\ Head(toServer).kind \in Kinds
      /\ toClient' = toClient \o <<x>>
  BY <1>1 DEF ServeFail, Gets, Replies, Quiet
<1>3. 0 \in 0 .. MaxBatches
  BY BoundsAssumption
<1>4. x \in Lines /\ LineFits(core.generation, x) /\ x.of = Head(toServer)
  BY <1>1, <1>2, <1>3, ReplyFits
<1> QED
  BY <1>2, <1>4, AnswerTypes, Speaks

LEMMA ServeBatchKeeps ==
    ASSUME MatchInv, ServeBatch
    PROVE  MatchInv'
<1>1. PICK x, n : x = Line("OPEN", batches + 1, 0, Head(toServer)) /\ n = batches + 1
  OBVIOUS
<1>2. /\ UNCHANGED <<core, crossed>> /\ delivered' = NoDelivery /\ batches < MaxBatches
      /\ toServer # <<>> /\ toServer' = Tail(toServer) /\ Head(toServer).kind \in Kinds
      /\ toClient' = toClient \o <<x>> /\ batches' = n
      /\ answer' = [NoAnswer EXCEPT !.ref = n, !.of = Head(toServer)]
  BY <1>1 DEF ServeBatch, Gets, Replies, Quiet
<1>3. n \in 0 .. MaxBatches /\ n # 0
  BY <1>1, <1>2, AnswerTypes, BoundsAssumption
<1>4. Head(toServer) \in Pairs /\ x \in Lines /\ LineFits(core.generation, x) /\ x.of = Head(toServer)
  BY <1>1, <1>2, <1>3, ReplyFits
<1>5. NoAnswer \in Answerings
  BY AnswerTypes
<1>6. answer' \in Answerings /\ answer'.ref # 0
  BY <1>2, <1>3, <1>4, <1>5 DEF Answerings
<1> QED
  BY <1>2, <1>3, <1>4, <1>6, AnswerTypes, Speaks

LEMMA AnsweringKeeps ==
    ASSUME MatchInv, Answering, NEW x \in Lines, LineFits(core.generation, x), ~ IsAnswer(x),
           Replies(<<x>>), answer' \in Answerings, answer' # NoAnswer => answer'.ref # 0,
           batches' \in 0 .. MaxBatches
    PROVE  MatchInv'
<1>1. UNCHANGED <<core, crossed, toServer>> /\ delivered' = NoDelivery
  BY DEF Answering, Quiet
<1>2. toClient' = Append(toClient, x)
  BY AnswerTypes DEF Replies
<1> QED
  BY <1>1, <1>2, Speaks

LEMMA ServeChildKeeps ==
    ASSUME MatchInv, ServeChild
    PROVE  MatchInv'
<1>1. PICK x, n : x = Line("OPEN", batches + 1, answer.ref, NoRequest) /\ n = batches + 1
  OBVIOUS
<1>2. /\ answer \in Answerings /\ answer.ref # 0 /\ answer.ref \in 0 .. MaxBatches
      /\ batches \in Nat
  BY AnswerTypes DEF ServeChild, Answering, Answerings
<1>3. n \in 0 .. MaxBatches /\ n # 0 /\ batches' = n /\ answer' = [answer EXCEPT !.child = n]
  BY <1>1, <1>2, BoundsAssumption DEF ServeChild
<1>4. NoRequest \in Pairs /\ NoRequest.generation = 0
  BY DEF NoRequest, Request, Pairs
<1>5. x \in Lines /\ x.what = "OPEN" /\ x.ref = n /\ x.parent # 0 /\ x.of = NoRequest
  BY <1>1, <1>2, <1>3, <1>4, LineIsTyped
<1>6. n \in Refs
  BY <1>3, BoundsAssumption DEF Refs
<1>7. LineFits(core.generation, x) /\ ~ IsAnswer(x)
  BY <1>4, <1>5, <1>6 DEF LineFits, IsAnswer
<1>8. answer' \in Answerings /\ answer'.ref # 0
  BY <1>2, <1>3 DEF Answerings
<1>9. Answering /\ Replies(<<x>>)
  BY <1>1 DEF ServeChild
<1> QED
  BY <1>3, <1>5, <1>7, <1>8, <1>9, AnsweringKeeps

LEMMA ServeRestKeeps ==
    ASSUME MatchInv,
           ServeClose \/ ServeCloseChild \/ \E ref \in {answer.ref, answer.child} : ServeLine(ref)
    PROVE  MatchInv'
<1>1. /\ answer \in Answerings /\ answer.ref \in 0 .. MaxBatches /\ answer.child \in 0 .. MaxBatches
      /\ batches \in 0 .. MaxBatches /\ NoAnswer \in Answerings
  BY AnswerTypes DEF Answerings
<1>2. ASSUME NEW what \in {"LINE", "CLOSE"}, NEW ref \in 0 .. MaxBatches, ref # 0, Answering,
             Replies(<<Line(what, ref, 0, NoRequest)>>), UNCHANGED batches,
             answer' \in Answerings, answer' # NoAnswer => answer'.ref # 0
      PROVE  MatchInv'
  <2>1. PICK x : x = Line(what, ref, 0, NoRequest)
    OBVIOUS
  <2>2. x \in Lines /\ LineFits(core.generation, x) /\ ~ IsAnswer(x)
    BY <1>2, <2>1, PlainLine
  <2> QED
    BY <1>1, <1>2, <2>1, <2>2, AnsweringKeeps
<1>3. CASE ServeClose
  <2>1. answer.ref # 0 /\ answer' = NoAnswer
    BY <1>3, AnswerTypes DEF ServeClose, Answering
  <2> QED
    BY <1>1, <1>2, <1>3, <2>1 DEF ServeClose
<1>4. CASE ServeCloseChild
  <2>1. answer.ref # 0 /\ answer' = [answer EXCEPT !.child = 0] /\ 0 \in 0 .. MaxBatches
    BY <1>4, AnswerTypes, BoundsAssumption DEF ServeCloseChild, Answering
  <2>2. answer' \in Answerings /\ answer'.ref # 0
    BY <1>1, <2>1 DEF Answerings
  <2> QED
    BY <1>1, <1>2, <1>4, <2>2 DEF ServeCloseChild
<1>5. ASSUME NEW ref \in {answer.ref, answer.child}, ServeLine(ref)
      PROVE  MatchInv'
  <2>1. answer.ref # 0 /\ answer' = [answer EXCEPT !.lines = 1]
    BY <1>5, AnswerTypes DEF ServeLine, Answering
  <2>2. answer' \in Answerings /\ answer'.ref # 0
    BY <1>1, <2>1 DEF Answerings
  <2> QED
    BY <1>1, <1>2, <1>5, <2>2 DEF ServeLine
<1> QED
  BY <1>3, <1>4, <1>5

-----------------------------------------------------------------------------
(* The theorem *)

LEMMA MatchStartsOut == Init => MatchInv
<1> SUFFICES ASSUME Init PROVE MatchInv
  OBVIOUS
<1>1. PICK o : o = [r \in Refs |-> Closed]
  OBVIOUS
<1>2. o \in [Refs -> Frames] /\ \A r \in Refs : o[r] = Closed
  BY <1>1, ClosedIsFrame
<1>3. /\ NoPending \in [kind : Kinds \cup {None}, generation : Nat] /\ NoPending.kind = None
  BY DEF NoPending
<1>4. core = [generation |-> 0, asked |-> FALSE, pending |-> NoPending, before |-> FALSE,
              exhausted |-> FALSE, pages |-> 0, enabled |-> TRUE,
              open |-> o, ignored |-> {}, out |-> <<>>]
  BY <1>1 DEF Init, Core
<1>5. /\ core \in Cores /\ core.generation = 0 /\ ~ core.asked /\ core.pending = NoPending
      /\ core.enabled /\ core.open = o /\ core.out = <<>>
  BY <1>2, <1>3, <1>4 DEF Cores
<1>6. CoreFits(core)
  BY <1>2, <1>3, <1>5, ClosedIsFrame DEF CoreFits
<1>7. toServer = <<>> /\ toClient = <<>> /\ answer = NoAnswer /\ batches = 0 /\ crossed = FALSE
      /\ delivered = NoDelivery
  BY DEF Init
<1>8. /\ toServer \in Seq(Pairs) /\ toClient \in Seq(Lines) /\ Len(toServer) = 0 /\ Len(toClient) = 0
  BY <1>7
<1>9. QueuesFit(core.generation, toServer, toClient) /\ Settled(core.generation, toServer, toClient)
  BY <1>8 DEF QueuesFit, Settled
<1>10. \A r \in Refs : ~ RootNow(core, r)
  BY <1>5 DEF RootNow
<1>11. Matched(core, toServer, toClient)
  BY <1>8, <1>9, <1>10, MatchStarts
<1>12. answer \in Answerings /\ batches \in 0 .. MaxBatches /\ AnswerIsMatched
  BY <1>7, BoundsAssumption
     DEF NoAnswer, NoRequest, Request, Pairs, Answerings, AnswerIsMatched, NoDelivery
<1> QED
  BY <1>5, <1>6, <1>7, <1>8, <1>9, <1>11, <1>12 DEF MatchInv, Answerings

LEMMA MatchStutters ==
    ASSUME MatchInv, UNCHANGED vars
    PROVE  MatchInv'
BY DEF MatchInv, vars, AnswerIsMatched

LEMMA MatchIsKept == MatchInv /\ [Next]_vars => MatchInv'
<1> SUFFICES ASSUME MatchInv, [Next]_vars PROVE MatchInv'
  OBVIOUS
<1>1. CASE User
  BY <1>1, UserKeeps
<1>2. CASE Receive
  <2>1. ASSUME NEW resumed \in BOOLEAN, NEW sentAfter \in BOOLEAN, NEW sentLatest \in BOOLEAN,
               Join(resumed, sentAfter, sentLatest)
        PROVE  MatchInv'
    BY <2>1, JoinKeeps
  <2>2. CASE Leave
    BY <2>2, LeaveKeeps
  <2>3. CASE CapDel
    BY <2>3, CapDelKeeps
  <2>4. CASE Fail
    BY <2>4, FailKeeps
  <2>5. CASE BatchOpens
    BY <2>5, OpenRootKeeps, OpenChildKeeps
  <2>6. ASSUME NEW moves \in {"no", "same", "yes"}, Replayed(moves)
        PROVE  MatchInv'
    BY <2>6, ReplayedKeeps DEF Moves
  <2>7. ASSUME NEW sent \in BOOLEAN, BatchCloses(sent)
        PROVE  MatchInv'
    BY <2>7, BatchClosesKeeps
  <2> QED
    BY <1>2, <2>1, <2>2, <2>3, <2>4, <2>5, <2>6, <2>7 DEF Receive
<1>3. CASE Serve \/ Strike
  BY <1>3, ServeJoinPartKeeps, ServeFailKeeps, ServeBatchKeeps, ServeRestKeeps DEF Serve, Strike
<1>4. CASE ServeChild
  BY <1>4, ServeChildKeeps
<1>5. CASE \E ref \in {answer.ref, answer.child} : ServeLine(ref)
  BY <1>5, ServeRestKeeps
<1>6. CASE UNCHANGED vars
  BY <1>6, MatchStutters
<1> QED
  BY <1>1, <1>2, <1>3, <1>4, <1>5, <1>6 DEF Next

\* OpenBatch::history_request is the request the batch answers (batch.rs, history.rs): whatever
\* the kicks, refusals and chains of pages, an answer that is delivered answers the request it
\* is taken for, unless it came in under a later membership.
THEOREM AnswerIsMatchedHolds == Spec => []AnswerIsMatched
<1>1. MatchInv => AnswerIsMatched
  BY DEF MatchInv
<1> QED
  BY <1>1, MatchStartsOut, MatchIsKept, PTL DEF Spec

-----------------------------------------------------------------------------
(* The stream *)

LEMMA StreamRead ==
    ASSUME NEW tc \in Seq(Lines), tc # <<>>, NEW end, NEW at \in At(tc), Streams(tc, at, end)
    PROVE  /\ at[1] \in Places /\ at[2] \in Places /\ Goes(Head(tc), at[1], at[2])
           /\ \E b \in At(Tail(tc)) : Streams(Tail(tc), b, end) /\ b[1] = at[2]
<1>1. PICK t, n, b : t = Tail(tc) /\ n = Len(t) /\ b = [i \in 1 .. n + 1 |-> at[i + 1]]
  OBVIOUS
<1>2. /\ n \in Nat /\ Len(tc) = n + 1 /\ Head(tc) = tc[1]
      /\ \A i \in 1 .. n : t[i] = tc[i + 1]
  BY <1>1, TailFacts
<1>3. \A i \in 1 .. n + 2 : at[i] \in Places
  BY <1>2 DEF At
<1>4. b \in [1 .. n + 1 -> Places] /\ \A i \in 1 .. n + 1 : b[i] = at[i + 1]
  BY <1>1, <1>2, <1>3
<1>5. \A i \in 1 .. n + 1 : Goes(tc[i], at[i], at[i + 1])
  BY <1>2 DEF Streams
<1>6. at[n + 2] = end
  BY <1>2 DEF Streams
<1>7. ASSUME NEW i \in 1 .. n
      PROVE  Goes(t[i], b[i], b[i + 1])
  <2>1. /\ i \in 1 .. n + 1 /\ i + 1 \in 1 .. n + 1
    BY <1>2
  <2>2. t[i] = tc[i + 1] /\ b[i] = at[i + 1] /\ b[i + 1] = at[(i + 1) + 1]
    BY <1>2, <1>4, <2>1
  <2> QED
    BY <1>5, <2>1, <2>2
<1>8. b[n + 1] = end /\ b[1] = at[2]
  BY <1>2, <1>4, <1>6
<1>9. b \in At(t) /\ Streams(t, b, end)
  BY <1>1, <1>4, <1>7, <1>8 DEF At, Streams
<1>10. Goes(Head(tc), at[1], at[2]) /\ at[1] \in Places /\ at[2] \in Places
  BY <1>2, <1>3, <1>5
<1> QED
  BY <1>1, <1>8, <1>9, <1>10

\* The stream t starts where at does, and ends at next.
Continues(t, at, next) == \E b \in At(t) : Streams(t, b, next) /\ b[1] = at[1]

LEMMA StreamWritten ==
    ASSUME NEW tc \in Seq(Lines), NEW x \in Lines, NEW end,
           NEW at \in At(tc), Streams(tc, at, end), NEW next \in Places, Goes(x, end, next)
    PROVE  Continues(Append(tc, x), at, next)
<1>0. PICK t : t = Append(tc, x)
  OBVIOUS
<1>1. PICK n, b : n = Len(tc) /\ b = [i \in 1 .. n + 2 |-> IF i = n + 2 THEN next ELSE at[i]]
  OBVIOUS
<1>2. /\ n \in Nat /\ Len(t) = n + 1 /\ t[n + 1] = x /\ \A i \in 1 .. n : t[i] = tc[i]
  BY <1>0, <1>1
<1>3. \A i \in 1 .. n + 1 : at[i] \in Places
  BY <1>1 DEF At
<1>4. /\ b \in [1 .. (n + 1) + 1 -> Places] /\ b[n + 2] = next
      /\ \A i \in 1 .. n + 1 : b[i] = at[i]
  BY <1>1, <1>2, <1>3
<1>5. /\ at[n + 1] = end /\ \A i \in 1 .. n : Goes(tc[i], at[i], at[i + 1])
  BY <1>1 DEF Streams
<1>6. ASSUME NEW i \in 1 .. n + 1
      PROVE  Goes(t[i], b[i], b[i + 1])
  <2>1. CASE i \in 1 .. n
    <3>1. i \in 1 .. n + 1 /\ i + 1 \in 1 .. n + 1
      BY <1>2, <2>1
    <3> QED
      BY <1>2, <1>4, <1>5, <2>1, <3>1
  <2>2. CASE i = n + 1
    <3>1. b[i] = end /\ b[i + 1] = next /\ t[i] = x
      BY <1>2, <1>4, <1>5, <2>2
    <3> QED
      BY <3>1
  <2> QED
    BY <1>2, <2>1, <2>2
<1>7. b \in At(t) /\ Streams(t, b, next)
  BY <1>2, <1>4, <1>6 DEF At, Streams
<1>8. b[1] = at[1]
  BY <1>2, <1>4
<1> QED
  BY <1>0, <1>7, <1>8 DEF Continues

\* The session reads a line; what is left to show is that it knows the next place.
LEMMA Follows ==
    ASSUME MatchInv, StreamInv, toClient # <<>>, toClient' = Tail(toClient),
           UNCHANGED <<answer, batches, leaked>>,
           \A a, b \in Places : Knows(core, a) /\ Goes(Head(toClient), a, b) => Knows(core', b)
    PROVE  StreamInv'
<1>1. PICK at \in At(toClient) : Streams(toClient, at, Place) /\ Knows(core, at[1])
  BY DEF StreamInv
<1>2. toClient \in Seq(Lines)
  BY InvTypes
<1>3. /\ at[1] \in Places /\ at[2] \in Places /\ Goes(Head(toClient), at[1], at[2])
      /\ \E b \in At(Tail(toClient)) : Streams(Tail(toClient), b, Place) /\ b[1] = at[2]
  BY <1>1, <1>2, StreamRead
<1>4. Knows(core', at[2])
  BY <1>1, <1>3
<1>5. PICK b \in At(toClient') : Streams(toClient', b, Place) /\ Knows(core', b[1])
  BY <1>3, <1>4
<1>6. Place' = Place
  BY DEF Place
<1> QED
  BY <1>5, <1>6 DEF StreamInv

LEMMA KnowsSame ==
    ASSUME NEW c, NEW d, d.open = c.open, d.ignored = c.ignored, NEW a, Knows(c, a)
    PROVE  Knows(d, a)
BY DEF Knows

LEMMA EmptiedKnows ==
    ASSUME NEW d \in Cores, NEW tail, Becomes(d, tail)
    PROVE  core'.open = d.open /\ core'.ignored = d.ignored
BY DEF Cores, Becomes

\* A line that is no batch's leaves the place, and the handler what is known of it.
LEMMA StaysPut ==
    ASSUME MatchInv, StreamInv, toClient # <<>>, toClient' = Tail(toClient),
           Head(toClient).what \notin {"OPEN", "CLOSE"}, UNCHANGED <<answer, batches, leaked>>,
           core'.open = core.open, core'.ignored = core.ignored
    PROVE  StreamInv'
<1>1. ASSUME NEW a \in Places, NEW b \in Places, Knows(core, a), Goes(Head(toClient), a, b)
      PROVE  Knows(core', b)
  <2>1. a = b
    BY <1>1 DEF Goes
  <2> QED
    BY <1>1, <2>1, KnowsSame
<1> QED
  BY <1>1, Follows

LEMMA AtMostTwo ==
    ASSUME NEW x, NEW y, NEW S, S \subseteq {x, y}
    PROVE  Cardinality(S) \in Nat /\ Cardinality(S) <= 2
<1>1. IsFiniteSet({}) /\ Cardinality({}) = 0
  BY FS_EmptySet
<1>2. IsFiniteSet({x}) /\ Cardinality({x}) = 1
  BY FS_Singleton
<1>3. IsFiniteSet({x} \cup {y}) /\ Cardinality({x} \cup {y}) \in {1, 2}
  BY <1>2, FS_AddElement
<1>4. {x, y} = {x} \cup {y}
  OBVIOUS
<1>5. IsFiniteSet(S) /\ Cardinality(S) <= Cardinality({x, y})
  BY <1>3, <1>4, FS_Subset
<1>6. Cardinality(S) \in Nat
  BY <1>5, FS_CardinalityType
<1> QED
  BY <1>3, <1>4, <1>5, <1>6

\* At a ceiling of two or more no reference is forgotten.
LEMMA IgnoreRemembers ==
    ASSUME MaxIgnored >= 2, NEW c, CoreFits(c), NEW refs \in SUBSET Refs,
           NEW x, NEW y, c.ignored \cup refs \subseteq {x, y}
    PROVE  Ignore(c, refs).ignored = c.ignored \cup refs
<1>1. PICK s, o, d : /\ s = c.ignored \cup Kept(c, refs) /\ d = Ignore(c, refs)
                     /\ o = [r \in Refs |-> IF r \in refs THEN Closed ELSE c.open[r]]
  OBVIOUS
<1>2. ASSUME NEW r \in refs
      PROVE  Cardinality(c.ignored \cup {q \in refs : q <= r}) <= MaxIgnored
  <2>1. PICK S : S = c.ignored \cup {q \in refs : q <= r}
    OBVIOUS
  <2>2. S \subseteq {x, y}
    BY <2>1
  <2>3. Cardinality(S) \in Nat /\ Cardinality(S) <= 2
    BY <2>2, AtMostTwo
  <2> QED
    BY <2>1, <2>3, BoundsAssumption
<1>3. Kept(c, refs) = refs
  BY <1>2 DEF Kept
<1>4. d = [c EXCEPT !.open = o, !.ignored = s]
  BY <1>1, IgnoreIs
<1>5. c \in Cores
  BY CoreTypes
<1>6. d.ignored = s
  BY <1>4, <1>5 DEF Cores
<1> QED
  BY <1>1, <1>3, <1>6

LEMMA PlaceRefs ==
    ASSUME NEW a \in Places
    PROVE  (a.ref # 0 => a.ref \in Refs) /\ (a.child # 0 => a.child \in Refs)
BY BoundsAssumption DEF Places, Refs

LEMMA DropRemembers ==
    ASSUME MaxIgnored >= 2, NEW c, CoreFits(c), NEW a \in Places, Knows(c, a)
    PROVE  Knows(DropBatches(c), a)
<1>1. PICK refs, d : refs = {r \in Refs : c.open[r].root # 0} /\ d = Ignore(c, refs)
  OBVIOUS
<1>2. refs \in SUBSET Refs /\ d = Ignore(c, refs) /\ c.ignored \in SUBSET Refs
  BY <1>1, CoreTypes
<1>3. c.ignored \cup refs \subseteq {a.ref, a.child}
  BY <1>1, <1>2 DEF Knows
<1>4. d.ignored = c.ignored \cup refs
  BY <1>2, <1>3, IgnoreRemembers
<1>5. \A r \in refs : d.open[r] = Closed
  BY <1>2, IgnoreFits
<1>6. \A r \in Refs \ refs : d.open[r] = c.open[r]
  BY <1>2, IgnoreFits
<1>7. \A r \in Refs : d.open[r].root = 0
  BY <1>1, <1>5, <1>6, ClosedIsFrame
<1>8. \A r \in Refs : r \in d.ignored <=> r \in c.ignored \/ c.open[r].root # 0
  BY <1>1, <1>4
<1>9. d = DropBatches(c)
  BY <1>1 DEF DropBatches
<1>10. \A r \in d.ignored : r \in Refs
  BY <1>2, <1>4
<1> QED
  BY <1>7, <1>8, <1>9, <1>10, PlaceRefs DEF Knows

LEMMA JoinFollows ==
    ASSUME MatchInv, StreamInv, NEW resumed \in BOOLEAN, NEW sentAfter \in BOOLEAN,
           NEW sentLatest \in BOOLEAN, Join(resumed, sentAfter, sentLatest)
    PROVE  StreamInv'
<1>1. PICK b, d : b = Bump(core) /\ d = ChannelHistory(b, resumed, sentAfter, sentLatest)
  OBVIOUS
<1>2. /\ toClient # <<>> /\ Head(toClient).what = "JOIN" /\ toClient' = Tail(toClient)
      /\ UNCHANGED <<answer, batches, leaked>> /\ Becomes(d, <<>>)
  BY <1>1 DEF Join, Takes, Handled
<1>3. CoreFits(core) /\ core.out = <<>> /\ core.generation \in Nat
  BY InvTypes
<1>4. /\ CoreFits(b) /\ b.generation # 0 /\ b.out = <<>> /\ b.open = core.open
      /\ b.ignored = core.ignored
  BY <1>1, <1>3, BumpFits
<1>5. Requested(b, d)
  BY <1>1, <1>4, ChannelHistoryFits
<1>6. d \in Cores /\ d.open = core.open /\ d.ignored = core.ignored
  BY <1>4, <1>5, CoreTypes DEF Requested, SameBatches
<1>7. core'.open = core.open /\ core'.ignored = core.ignored
  BY <1>2, <1>6, EmptiedKnows
<1> QED
  BY <1>2, <1>7, StaysPut

\* A KICK, a PART or a CAP DEL in the middle of a replay.
LEMMA DropFollows ==
    ASSUME MaxIgnored >= 2, MatchInv, StreamInv, Leave \/ CapDel
    PROVE  StreamInv'
<1>1. CoreFits(core)
  BY InvTypes
<1>2. PICK c, d : /\ CoreFits(c) /\ c.open = core.open /\ c.ignored = core.ignored
                  /\ Becomes(d, <<>>) /\ Dropped(c, d) /\ d \in Cores
  <2>1. CASE Leave
    <3>1. PICK b : b = Bump(core)
      OBVIOUS
    <3>2. CoreFits(b) /\ b.open = core.open /\ b.ignored = core.ignored
      BY <1>1, <3>1, BumpFits
    <3>3. Becomes(Forget(b), <<>>)
      BY <2>1, <3>1 DEF Leave
    <3>4. Dropped(b, Forget(b)) /\ Forget(b) \in Cores
      BY <3>2, ForgetFits
    <3> QED
      BY <3>2, <3>3, <3>4
  <2>2. CASE CapDel
    <3>1. Becomes(Abandon(core), <<>>)
      BY <2>2 DEF CapDel
    <3>2. Dropped(core, Abandon(core)) /\ Abandon(core) \in Cores
      BY <1>1, AbandonFits
    <3> QED
      BY <1>1, <3>1, <3>2
  <2> QED
    BY <2>1, <2>2
<1>3. /\ toClient # <<>> /\ Head(toClient).what \in {"LEAVE", "DEL"} /\ toClient' = Tail(toClient)
      /\ UNCHANGED <<answer, batches, leaked>>
  BY DEF Leave, CapDel, Takes, Handled
<1>4. PICK b : /\ CoreFits(b) /\ b.open = core.open /\ b.ignored = core.ignored
               /\ d.open = DropBatches(b).open /\ d.ignored = DropBatches(b).ignored
  BY <1>2 DEF Dropped
<1>5. core'.open = d.open /\ core'.ignored = d.ignored
  BY <1>2, EmptiedKnows
<1>6. ASSUME NEW a \in Places, NEW e \in Places, Knows(core, a), Goes(Head(toClient), a, e)
      PROVE  Knows(core', e)
  <2>1. a = e
    BY <1>3, <1>6 DEF Goes
  <2>2. Knows(b, e)
    BY <1>4, <1>6, <2>1, KnowsSame
  <2>3. Knows(DropBatches(b), e)
    BY <1>4, <2>2, DropRemembers
  <2> QED
    BY <1>4, <1>5, <2>3, KnowsSame
<1> QED
  BY <1>3, <1>6, Follows

LEMMA FailFollows ==
    ASSUME MatchInv, StreamInv, Fail
    PROVE  StreamInv'
<1>1. PICK d, e, x : /\ d = Failed(core) /\ e = ClearPending(core)
                     /\ x = (e.exhausted \/ core.pending.kind \notin {"AFTER", "TAIL"})
  OBVIOUS
<1>2. /\ toClient # <<>> /\ Head(toClient).what = "FAIL" /\ toClient' = Tail(toClient)
      /\ UNCHANGED <<answer, batches, leaked>> /\ Becomes(d, <<>>)
  BY <1>1 DEF Fail, Takes, Answers
<1>3. CoreFits(core) /\ core \in Cores
  BY InvTypes, CoreTypes
<1>4. e \in Cores /\ e.open = core.open /\ e.ignored = core.ignored
  BY <1>1, <1>3, ClearPendingFits, CoreTypes DEF SameBatches
<1>5. d = core \/ d = [e EXCEPT !.exhausted = x]
  BY <1>1 DEF Failed
<1>6. x \in BOOLEAN
  BY <1>1
<1>7. d \in Cores /\ d.open = core.open /\ d.ignored = core.ignored
  <2>1. CASE d = [e EXCEPT !.exhausted = x]
    BY <1>4, <1>6, <2>1 DEF Cores
  <2> QED
    BY <1>3, <1>5, <2>1
<1>8. core'.open = core.open /\ core'.ignored = core.ignored
  BY <1>2, <1>7, EmptiedKnows
<1> QED
  BY <1>2, <1>8, StaysPut

\* A table with another batch under r, once a handler leaves it.
LEMMA FrameSet ==
    ASSUME NEW c \in Cores, NEW r \in Refs, NEW f, NEW d, d = WithFrame(c, r, f), Becomes(d, <<>>)
    PROVE  /\ core'.ignored = c.ignored /\ core'.open[r] = f
           /\ \A q \in Refs \ {r} : core'.open[q] = c.open[q]
<1>1. PICK o : o = [c.open EXCEPT ![r] = f]
  OBVIOUS
<1>2. c.open \in [Refs -> Frames]
  BY DEF Cores
<1>3. o[r] = f /\ \A q \in Refs \ {r} : o[q] = c.open[q]
  BY <1>1, <1>2
<1>4. core' = [[c EXCEPT !.open = o] EXCEPT !.out = <<>>]
  BY <1>1 DEF WithFrame, Becomes
<1>5. core'.open = o /\ core'.ignored = c.ignored
  BY <1>4 DEF Cores
<1> QED
  BY <1>3, <1>5

LEMMA OpenRootFollows ==
    ASSUME MaxIgnored >= 2, MatchInv, StreamInv, BatchOpens, Head(toClient).parent = 0
    PROVE  StreamInv'
<1>1. PICK line, r, d :
        line = Head(toClient) /\ r = line.ref /\ d = OpenRoot(core, r, line.of)
  OBVIOUS
<1>2. /\ toClient # <<>> /\ line.what = "OPEN" /\ line.parent = 0 /\ toClient' = Tail(toClient)
      /\ Becomes(d, <<>>) /\ UNCHANGED <<answer, batches, leaked>>
  BY <1>1 DEF BatchOpens, Takes, Answers
<1>3. /\ CoreFits(core) /\ core \in Cores /\ toClient \in Seq(Lines)
      /\ QueuesFit(core.generation, toServer, toClient)
  BY InvTypes, CoreTypes
<1>4. LineFits(core.generation, line)
  BY <1>1, <1>2, <1>3, LineTaken
<1>5. r \in Refs /\ r # 0
  BY <1>1, <1>2, <1>4, BoundsAssumption DEF LineFits, Refs
<1>6. PICK i, kind, f : /\ i = Ignore(core, {r})
                        /\ kind = IF AnswersPending(core) THEN core.pending.kind ELSE None
                        /\ f = Batch(r, core.generation, kind, line.of)
  OBVIOUS
<1>7. d = i \/ d = ClearPending(i) \/ d = WithFrame(core, r, f)
  BY <1>1, <1>6 DEF OpenRoot, WithFrame
<1>8. ASSUME NEW a \in Places, NEW b \in Places, Knows(core, a), Goes(Head(toClient), a, b)
      PROVE  Knows(core', b)
  <2>1. a.ref = 0 /\ a.child = 0 /\ b.ref = r /\ b.child = 0
    BY <1>1, <1>2, <1>8 DEF Goes
  <2>2. core.ignored \in SUBSET Refs
    BY <1>3, CoreTypes
  <2>3. core.ignored = {} /\ \A q \in Refs : core.open[q].root = 0
    <3>1. \A q \in Refs : q # 0
      BY BoundsAssumption DEF Refs
    <3>2. \A q \in Refs : q \notin core.ignored /\ core.open[q].root = 0
      BY <1>8, <2>1, <3>1 DEF Knows
    <3> QED
      BY <2>2, <3>2
  <2>4. CASE d = i \/ d = ClearPending(i)
    <3>1. {r} \in SUBSET Refs /\ core.ignored \cup {r} \subseteq {r, r}
      BY <1>5, <2>3
    <3>2. i.ignored = {r}
      BY <1>3, <1>6, <2>3, <3>1, IgnoreRemembers
    <3>3. CoreFits(i) /\ i.open[r] = Closed /\ \A q \in Refs \ {r} : i.open[q] = core.open[q]
      BY <1>3, <1>6, <3>1, IgnoreFits
    <3>4. d \in Cores /\ d.open = i.open /\ d.ignored = i.ignored
      BY <2>4, <3>3, ClearPendingFits, CoreTypes DEF SameBatches
    <3>5. core'.open = i.open /\ core'.ignored = i.ignored
      BY <1>2, <3>4, EmptiedKnows
    <3>6. \A q \in Refs : core'.open[q].root = 0
      BY <2>3, <3>3, <3>5, ClosedIsFrame
    <3> QED
      BY <1>5, <2>1, <3>2, <3>5, <3>6 DEF Knows
  <2>5. CASE d = WithFrame(core, r, f)
    <3>1. /\ core'.ignored = {} /\ core'.open[r] = f
          /\ \A q \in Refs \ {r} : core'.open[q] = core.open[q]
      BY <1>2, <1>3, <1>5, <2>3, <2>5, FrameSet
    <3>2. f.root = r
      BY <1>6 DEF Batch
    <3> QED
      BY <1>5, <2>1, <2>3, <3>1, <3>2 DEF Knows
  <2> QED
    BY <1>7, <2>4, <2>5
<1> QED
  BY <1>2, <1>8, Follows

LEMMA OpenChildFollows ==
    ASSUME MaxIgnored >= 2, MatchInv, StreamInv, BatchOpens, Head(toClient).parent # 0
    PROVE  StreamInv'
<1>1. PICK line, r, p, d :
        /\ line = Head(toClient) /\ r = line.ref /\ p = line.parent
        /\ d = OpenChild(core, r, p)
  OBVIOUS
<1>2. /\ toClient # <<>> /\ line.what = "OPEN" /\ p # 0 /\ toClient' = Tail(toClient)
      /\ Becomes(d, <<>>) /\ UNCHANGED <<answer, batches, leaked>>
  BY <1>1 DEF BatchOpens, Takes, Answers
<1>3. /\ CoreFits(core) /\ core \in Cores /\ toClient \in Seq(Lines)
      /\ QueuesFit(core.generation, toServer, toClient)
  BY InvTypes, CoreTypes
<1>4. line \in Lines /\ LineFits(core.generation, line)
  BY <1>1, <1>2, <1>3, LineTaken, TailFacts
<1>5. r \in Refs /\ p \in Refs /\ r # 0
  BY <1>1, <1>2, <1>4, BoundsAssumption DEF LineFits, Lines, Refs
<1>6. PICK i, f : i = Ignore(core, {r}) /\ f = Batch(core.open[p].root, 0, None, NoRequest)
  OBVIOUS
<1>7. \/ d = i
      \/ d = core /\ p \notin core.ignored /\ core.open[p].root = 0
      \/ d = WithFrame(core, r, f) /\ p \notin core.ignored
  BY <1>1, <1>6 DEF OpenChild, WithFrame
<1>8. ASSUME NEW a \in Places, NEW b \in Places, Knows(core, a), Goes(Head(toClient), a, b)
      PROVE  Knows(core', b)
  <2>1. a.ref = p /\ a.child = 0 /\ b.ref = p /\ b.child = r /\ r # p
    BY <1>1, <1>2, <1>8 DEF Goes
  <2>2. core.ignored \in SUBSET Refs
    BY <1>3, CoreTypes
  <2>3. \A q \in Refs : q \in core.ignored \/ core.open[q].root # 0 => q = p
    <3>1. \A q \in Refs : q # 0
      BY BoundsAssumption DEF Refs
    <3> QED
      BY <1>8, <2>1, <3>1 DEF Knows
  <2>4. /\ p \in core.ignored \/ core.open[p].root = p
        /\ p \in core.ignored => core.open[p].root = 0
    BY <1>2, <1>8, <2>1 DEF Knows
  <2>5. CASE d = i
    <3>1. {r} \in SUBSET Refs /\ core.ignored \cup {r} \subseteq {p, r}
      BY <1>5, <2>2, <2>3
    <3>2. i.ignored = core.ignored \cup {r}
      BY <1>3, <1>6, <3>1, IgnoreRemembers
    <3>3. CoreFits(i) /\ i.open[r] = Closed /\ \A q \in Refs \ {r} : i.open[q] = core.open[q]
      BY <1>3, <1>6, <3>1, IgnoreFits
    <3>4. core'.open = i.open /\ core'.ignored = i.ignored
      BY <1>2, <2>5, <3>3, EmptiedKnows, CoreTypes
    <3>5. core'.open[r].root = 0
      BY <3>3, <3>4, ClosedIsFrame
    <3>6. \A q \in Refs \ {r} : core'.open[q].root = core.open[q].root
      BY <3>3, <3>4
    <3>7. \A q \in core'.ignored : core'.open[q].root = 0
      BY <1>5, <1>8, <2>2, <3>2, <3>4, <3>5, <3>6 DEF Knows
    <3> QED
      BY <1>2, <1>5, <2>1, <2>3, <2>4, <3>2, <3>4, <3>5, <3>6, <3>7 DEF Knows
  <2>6. CASE d = WithFrame(core, r, f) /\ p \notin core.ignored
    <3>1. /\ core'.ignored = core.ignored /\ core'.open[r] = f
          /\ \A q \in Refs \ {r} : core'.open[q] = core.open[q]
      BY <1>2, <1>3, <1>5, <2>6, FrameSet
    <3>2. f.root = p
      BY <1>6, <2>4, <2>6 DEF Batch
    <3>3. core.ignored = {}
      BY <2>2, <2>3, <2>6
    <3> QED
      BY <1>2, <1>5, <2>1, <2>3, <2>4, <2>6, <3>1, <3>2, <3>3 DEF Knows
  <2> QED
    BY <1>2, <1>7, <2>4, <2>5, <2>6
<1> QED
  BY <1>2, <1>8, Follows

LEMMA KnowsRoots ==
    ASSUME NEW c, NEW d, d.ignored = c.ignored, c.ignored \in SUBSET Refs,
           \A q \in Refs : d.open[q].root = c.open[q].root, NEW a \in Places, Knows(c, a)
    PROVE  Knows(d, a)
BY PlaceRefs DEF Knows

\* capture_in_batch: the session knows the batch of every line that it replays.
LEMMA ReplayedFollows ==
    ASSUME MatchInv, StreamInv, NEW moves \in Moves, Replayed(moves)
    PROVE  StreamInv'
<1>1. PICK r, root, e :
        /\ r = Head(toClient).ref /\ root = core.open[r].root
        /\ e = [core EXCEPT !.open[root].lines = 1, !.open[root].moves = moves]
  OBVIOUS
<1>2. /\ toClient # <<>> /\ Head(toClient).what = "LINE" /\ toClient' = Tail(toClient)
      /\ UNCHANGED <<answer, batches>>
  BY DEF Replayed, Takes, Handled
<1>3. /\ CoreFits(core) /\ core \in Cores /\ toClient \in Seq(Lines)
      /\ QueuesFit(core.generation, toServer, toClient) /\ core.open \in [Refs -> Frames]
      /\ core.ignored \in SUBSET Refs
  BY InvTypes, CoreTypes
<1>4. LineFits(core.generation, Head(toClient))
  BY <1>2, <1>3, LineTaken
<1>5. r \in Refs /\ r # 0
  <2>1. Head(toClient).ref \in Refs
    BY <1>2, <1>4 DEF LineFits
  <2>2. \A q \in Refs : q # 0
    BY BoundsAssumption DEF Refs
  <2> QED
    BY <1>1, <2>1, <2>2
<1>6. r \in core.ignored \/ (root # 0 /\ core.open[root].root = root)
  <2>1. PICK at \in At(toClient) : Streams(toClient, at, Place) /\ Knows(core, at[1])
    BY DEF StreamInv
  <2>2. Goes(Head(toClient), at[1], at[2])
    BY <1>2, <1>3, <2>1, StreamRead
  <2>3. PICK a : a = at[1]
    OBVIOUS
  <2>4. Knows(core, a) /\ (r = a.ref \/ r = a.child)
    BY <1>1, <1>2, <2>1, <2>2, <2>3 DEF Goes
  <2>5. root = core.open[r].root
    BY <1>1
  <2> QED
    BY <1>5, <2>4, <2>5 DEF Knows
<1>7. UNCHANGED leaked /\ (Becomes(core, <<>>) \/ (Becomes(e, <<>>) /\ root # 0))
  BY <1>1, <1>6 DEF Replayed
<1>8. core'.ignored = core.ignored /\ \A q \in Refs : core'.open[q].root = core.open[q].root
  <2>1. CASE Becomes(core, <<>>)
    BY <1>3, <2>1, EmptiedKnows
  <2>2. CASE Becomes(e, <<>>) /\ root # 0
    <3>1. root \in Refs
      <4>1. core.open[r] \in Frames
        BY <1>3, <1>5
      <4>2. root \in 0 .. MaxBatches
        BY <1>1, <4>1, FrameTypes
      <4> QED
        BY <2>2, <4>2, BoundsAssumption DEF Refs
    <3>2. PICK w, f : w = core.open[root] /\ f = [w EXCEPT !.lines = 1, !.moves = moves]
      OBVIOUS
    <3>3. f.root = w.root
      <4>1. w \in Frames /\ f = [w EXCEPT !.lines = 1, !.moves = moves]
        BY <1>3, <3>1, <3>2
      <4> QED
        BY <4>1 DEF Frames
    <3>4. e = WithFrame(core, root, f)
      BY <1>1, <1>3, <3>1, <3>2 DEF WithFrame
    <3>5. /\ core'.ignored = core.ignored /\ core'.open[root] = f
          /\ \A q \in Refs \ {root} : core'.open[q] = core.open[q]
      BY <1>3, <2>2, <3>1, <3>4, FrameSet
    <3> QED
      BY <3>2, <3>3, <3>5
  <2> QED
    BY <1>7, <2>1, <2>2
<1>9. ASSUME NEW a \in Places, NEW b \in Places, Knows(core, a), Goes(Head(toClient), a, b)
      PROVE  Knows(core', b)
  <2>1. a = b
    BY <1>2, <1>9 DEF Goes
  <2> QED
    BY <1>3, <1>8, <1>9, <2>1, KnowsRoots
<1> QED
  BY <1>2, <1>7, <1>9, Follows

\* Ignoring nothing changes nothing.
LEMMA IgnoreNone ==
    ASSUME NEW c, CoreFits(c)
    PROVE  /\ Ignore(c, {}) \in Cores /\ Ignore(c, {}).ignored = c.ignored
           /\ \A q \in Refs : Ignore(c, {}).open[q] = c.open[q]
<1>1. PICK o, m, d : /\ d = Ignore(c, {}) /\ o = [r \in Refs |-> IF r \in {} THEN Closed ELSE c.open[r]]
                     /\ m = c.ignored \cup Kept(c, {})
  OBVIOUS
<1>2. d = [c EXCEPT !.open = o, !.ignored = m] /\ m = c.ignored
  BY <1>1, IgnoreIs, KeptIsSome
<1>3. c \in Cores
  BY CoreTypes
<1>4. d.ignored = c.ignored
  BY <1>2, <1>3 DEF Cores
<1> QED
  BY <1>1, <1>4, IgnoreFits, CoreTypes

LEMMA BatchClosesFollows ==
    ASSUME MatchInv, StreamInv, NEW sent \in BOOLEAN, BatchCloses(sent)
    PROVE  StreamInv'
<1>1. PICK r, frame, children, i, e, c, s :
        /\ r = Head(toClient).ref /\ frame = core.open[r]
        /\ children = {q \in Refs \ {r} : core.open[q].root = r}
        /\ i = [core EXCEPT !.ignored = core.ignored \ {r}]
        /\ e = WithFrame(core, r, Closed)
        /\ c = Ignore(e, children) /\ s = Settle(c, frame, sent)
  OBVIOUS
<1>2. /\ toClient # <<>> /\ Head(toClient).what = "CLOSE" /\ toClient' = Tail(toClient)
      /\ UNCHANGED <<answer, batches, leaked>>
  BY DEF BatchCloses, Takes, Handled
<1>3. \/ r \in core.ignored /\ Becomes(i, <<>>)
      \/ r \notin core.ignored /\ (Becomes(c, <<>>) \/ Becomes(s, <<>>))
  BY <1>1 DEF BatchCloses, WithFrame
<1>4. /\ CoreFits(core) /\ core \in Cores /\ toClient \in Seq(Lines) /\ core.out = <<>>
      /\ QueuesFit(core.generation, toServer, toClient) /\ core.ignored \in SUBSET Refs
      /\ core.open \in [Refs -> Frames] /\ core.generation \in Nat
  BY InvTypes, CoreTypes
<1>5. LineFits(core.generation, Head(toClient))
  BY <1>2, <1>4, LineTaken
<1>6. r \in Refs /\ r # 0 /\ \A q \in Refs : q # 0
  BY <1>1, <1>2, <1>5, BoundsAssumption DEF LineFits, Refs
<1>7. ASSUME NEW a \in Places, NEW b \in Places, Knows(core, a), Goes(Head(toClient), a, b)
      PROVE  Knows(core', b)
  <2>1. \/ a.ref = r /\ a.child = 0 /\ b.ref = 0 /\ b.child = 0
        \/ a.child = r /\ a.ref # r /\ b.ref = a.ref /\ b.child = 0
    BY <1>1, <1>2, <1>6, <1>7 DEF Goes, Knows
  <2>2. \A q \in Refs : q \in core.ignored \/ core.open[q].root # 0 => q = r \/ q = b.ref
    BY <1>6, <1>7, <2>1 DEF Knows
  <2>3. b.ref # 0 => /\ b.ref # r /\ b.ref \in Refs
                     /\ b.ref \in core.ignored \/ core.open[b.ref].root = b.ref
    BY <1>7, <2>1, PlaceRefs DEF Knows
  <2>4. \A q \in core.ignored : core.open[q].root = 0
    BY <1>7 DEF Knows
  <2>5. ASSUME core'.ignored = core.ignored \ {r}, core'.open[r].root = 0,
               \A q \in Refs \ {r} : core'.open[q] = core.open[q]
        PROVE  Knows(core', b)
    <3>1. \A q \in Refs : q \in core'.ignored \/ core'.open[q].root # 0 => q = b.ref
      BY <2>2, <2>5
    <3>2. \A q \in core'.ignored : core'.open[q].root = 0
      BY <1>4, <2>4, <2>5
    <3>3. b.ref # 0 => b.ref \in core'.ignored \/ core'.open[b.ref].root = b.ref
      BY <2>3, <2>5
    <3> QED
      BY <2>1, <3>1, <3>2, <3>3 DEF Knows
  <2>6. CASE r \in core.ignored /\ Becomes(i, <<>>)
    <3>1. PICK less : less = core.ignored \ {r}
      OBVIOUS
    <3>2. less \in SUBSET Refs /\ i = [core EXCEPT !.ignored = less]
      BY <1>1, <1>4, <3>1
    <3>3. i \in Cores /\ i.open = core.open /\ i.ignored = less
      BY <1>4, <3>2 DEF Cores
    <3>4. core'.open = core.open /\ core'.ignored = less
      BY <2>6, <3>3, EmptiedKnows
    <3> QED
      BY <1>6, <2>4, <2>5, <2>6, <3>1, <3>4
  <2>7. CASE r \notin core.ignored /\ (Becomes(c, <<>>) \/ Becomes(s, <<>>))
    <3>1. children = {}
      <4>1. ASSUME NEW q \in Refs \ {r}, core.open[q].root = r
            PROVE  FALSE
        <5>1. q = b.ref /\ q # 0
          BY <1>6, <2>2, <4>1
        <5>2. q \in core.ignored \/ core.open[q].root = q
          BY <2>3, <5>1
        <5> QED
          BY <1>6, <2>4, <4>1, <5>2
      <4> QED
        BY <1>1, <4>1
    <3>2. /\ CoreFits(e) /\ e.ignored = core.ignored /\ e.open[r] = Closed /\ e.out = core.out
          /\ \A q \in Refs \ {r} : e.open[q] = core.open[q]
      BY <1>1, <1>4, <1>6, ClosedIsFrame, OpenFits
    <3>3. c \in Cores /\ c.ignored = core.ignored /\ \A q \in Refs : c.open[q] = e.open[q]
      <4>1. c = Ignore(e, {})
        BY <1>1, <3>1
      <4> QED
        BY <3>2, <4>1, IgnoreNone
    <3>4. CoreFits(c) /\ c.out = <<>>
      BY <1>1, <1>4, <3>1, <3>2, IgnoreFits DEF FewerBatches
    <3>5. s \in Cores /\ s.open = c.open /\ s.ignored = c.ignored
      <4>1. frame \in Frames /\ (frame.request # None => frame.generation # 0)
        BY <1>1, <1>4, <1>6 DEF CoreFits
      <4>2. Requested(c, s)
        BY <1>1, <3>4, <4>1, SettleFits
      <4> QED
        BY <4>2, CoreTypes DEF Requested, SameBatches
    <3>6. core'.open = c.open /\ core'.ignored = c.ignored
      <4>1. CASE Becomes(c, <<>>)
        BY <3>3, <4>1, EmptiedKnows
      <4>2. CASE Becomes(s, <<>>)
        BY <3>5, <4>2, EmptiedKnows
      <4> QED
        BY <2>7, <4>1, <4>2
    <3>7. /\ core'.ignored = core.ignored \ {r} /\ core'.open[r].root = 0
          /\ \A q \in Refs \ {r} : core'.open[q] = core.open[q]
      BY <1>6, <2>7, <3>2, <3>3, <3>6, ClosedIsFrame
    <3> QED
      BY <2>5, <3>7
  <2> QED
    BY <1>3, <2>6, <2>7
<1> QED
  BY <1>2, <1>7, Follows

\* The server writes a line, or nothing.
LEMMA WritesOn ==
    ASSUME MatchInv, StreamInv, UNCHANGED <<core, leaked>>, NEW x \in Lines,
           \/ toClient' = toClient /\ UNCHANGED answer
           \/ toClient' = Append(toClient, x) /\ Goes(x, Place, Place'),
           answer'.ref \in 0 .. MaxBatches, answer'.child \in 0 .. MaxBatches,
           answer'.ref <= batches',
           answer'.child # 0 => answer'.ref # 0 /\ answer'.child # answer'.ref
    PROVE  StreamInv'
<1>1. PICK at \in At(toClient) : Streams(toClient, at, Place) /\ Knows(core, at[1])
  BY DEF StreamInv
<1>2. toClient \in Seq(Lines)
  BY InvTypes
<1>3. Place' \in Places
  BY DEF Place, Places
<1>4. PICK b \in At(toClient') : Streams(toClient', b, Place') /\ b[1] = at[1]
  <2>1. CASE toClient' = toClient /\ UNCHANGED answer
    <3>1. Place' = Place
      BY <2>1 DEF Place
    <3> QED
      BY <1>1, <2>1, <3>1
  <2>2. CASE toClient' = Append(toClient, x) /\ Goes(x, Place, Place')
    <3>1. Continues(Append(toClient, x), at, Place')
      BY <1>1, <1>2, <1>3, <2>2, StreamWritten
    <3> QED
      BY <2>2, <3>1 DEF Continues
  <2> QED
    BY <2>1, <2>2
<1>5. Knows(core', b[1])
  BY <1>1, <1>4
<1>6. ~ leaked'
  BY DEF StreamInv
<1> QED
  BY <1>4, <1>5, <1>6 DEF StreamInv

\* A line that is no batch's.
LEMMA WritesAside ==
    ASSUME MatchInv, StreamInv, UNCHANGED <<core, leaked, answer, batches>>, NEW x \in Lines,
           x.what \notin {"OPEN", "CLOSE", "LINE"},
           toClient' = toClient \/ toClient' = Append(toClient, x)
    PROVE  StreamInv'
<1>1. Place' = Place
  BY DEF Place
<1>2. Goes(x, Place, Place')
  BY <1>1 DEF Goes
<1>3. /\ answer'.ref \in 0 .. MaxBatches /\ answer'.child \in 0 .. MaxBatches
  BY AnswerTypes DEF Answerings
<1>4. /\ answer'.ref <= batches'
      /\ answer'.child # 0 => answer'.ref # 0 /\ answer'.child # answer'.ref
  BY DEF StreamInv
<1> QED
  BY <1>2, <1>3, <1>4, WritesOn

LEMMA ServeAside ==
    ASSUME MatchInv, StreamInv, ServeJoin \/ ServePart \/ ServeFail \/ ServeKick \/ ServeDel
    PROVE  StreamInv'
<1>1. toClient \o <<>> = toClient
  BY AnswerTypes
<1>2. UNCHANGED <<core, leaked, answer, batches>>
  BY DEF ServeJoin, ServePart, ServeFail, ServeKick, ServeDel, Quiet, Strikes
<1>3. ASSUME NEW what \in {"JOIN", "LEAVE", "DEL"},
             toClient' = toClient \/ toClient' = toClient \o <<Line(what, 0, 0, NoRequest)>>
      PROVE  StreamInv'
  <2>1. PICK x : x = Line(what, 0, 0, NoRequest)
    OBVIOUS
  <2>2. NoRequest \in Pairs /\ 0 \in 0 .. MaxBatches
    BY BoundsAssumption DEF NoRequest, Request, Pairs
  <2>3. x \in Lines /\ x.what = what
    BY <2>1, <2>2, LineIsTyped
  <2>4. toClient' = toClient \/ toClient' = Append(toClient, x)
    BY <1>3, <2>1, <2>3, AnswerTypes
  <2>5. x.what \notin {"OPEN", "CLOSE", "LINE"}
    BY <2>3
  <2> QED
    BY <1>2, <2>3, <2>4, <2>5, WritesAside
<1>4. CASE ServeJoin
  BY <1>1, <1>3, <1>4 DEF ServeJoin, Replies
<1>5. CASE ServePart
  BY <1>1, <1>3, <1>5 DEF ServePart, Replies
<1>6. CASE ServeKick
  BY <1>3, <1>6 DEF ServeKick, Strikes, Replies
<1>7. CASE ServeDel
  BY <1>3, <1>7 DEF ServeDel, Strikes, Replies
<1>8. CASE ServeFail
  <2>1. PICK x : x = Line("FAIL", 0, 0, Head(toServer))
    OBVIOUS
  <2>2. /\ toServer # <<>> /\ toClient' = toClient \o <<x>> /\ toServer \in Seq(Pairs)
    BY <1>8, <2>1, InvTypes DEF ServeFail, Gets, Replies
  <2>3. Head(toServer) \in Pairs /\ 0 \in 0 .. MaxBatches
    BY <2>2, TailFacts, BoundsAssumption
  <2>4. x \in Lines /\ x.what = "FAIL"
    BY <2>1, <2>3, LineIsTyped
  <2>5. toClient' = Append(toClient, x) /\ x.what \notin {"OPEN", "CLOSE", "LINE"}
    BY <2>2, <2>4, AnswerTypes
  <2> QED
    BY <1>2, <2>4, <2>5, WritesAside
<1> QED
  BY <1>4, <1>5, <1>6, <1>7, <1>8

LEMMA AnswerFits ==
    ASSUME MatchInv
    PROVE  /\ answer \in Answerings /\ answer.ref \in 0 .. MaxBatches /\ answer.child \in 0 .. MaxBatches
           /\ answer.ref \in Nat /\ batches \in Nat /\ 0 \in 0 .. MaxBatches
           /\ NoAnswer \in Answerings /\ NoAnswer.ref = 0 /\ NoAnswer.child = 0
           /\ NoRequest \in Pairs
<1>1. answer \in Answerings /\ NoAnswer \in Answerings
  BY AnswerTypes
<1>2. answer.ref \in 0 .. MaxBatches /\ answer.child \in 0 .. MaxBatches
  BY <1>1 DEF Answerings
<1>3. NoAnswer.ref = 0 /\ NoAnswer.child = 0 /\ NoRequest \in Pairs
  BY DEF NoAnswer, NoRequest, Request, Pairs
<1> QED
  BY <1>1, <1>2, <1>3, AnswerTypes, BoundsAssumption

LEMMA ServeBatchFollows ==
    ASSUME MatchInv, StreamInv, ServeBatch
    PROVE  StreamInv'
<1>1. PICK x, n : x = Line("OPEN", batches + 1, 0, Head(toServer)) /\ n = batches + 1
  OBVIOUS
<1>2. /\ UNCHANGED <<core, leaked>> /\ batches < MaxBatches /\ toServer # <<>>
      /\ toClient' = toClient \o <<x>> /\ batches' = n /\ answer = NoAnswer
      /\ answer' = [NoAnswer EXCEPT !.ref = n, !.of = Head(toServer)]
  BY <1>1 DEF ServeBatch, Gets, Replies, Quiet
<1>3. n \in 0 .. MaxBatches /\ n # 0 /\ n \in Nat
  BY <1>1, <1>2, AnswerFits, BoundsAssumption
<1>4. Head(toServer) \in Pairs
  BY <1>2, InvTypes, TailFacts
<1>5. x \in Lines /\ x.what = "OPEN" /\ x.ref = n /\ x.parent = 0
  <2>1. 0 \in 0 .. MaxBatches /\ x = Line("OPEN", n, 0, Head(toServer))
    BY <1>1, AnswerFits
  <2> QED
    BY <1>3, <1>4, <2>1, LineIsTyped
<1>6. answer'.ref = n /\ answer'.child = 0
  BY <1>2, AnswerFits DEF Answerings
<1>7. toClient' = Append(toClient, x)
  BY <1>2, <1>5, AnswerTypes
<1>8. Goes(x, Place, Place')
  BY <1>2, <1>5, <1>6, AnswerFits DEF Goes, Place
<1> QED
  BY <1>2, <1>3, <1>5, <1>6, <1>7, <1>8, AnswerFits, WritesOn

LEMMA ServeChildFollows ==
    ASSUME MatchInv, StreamInv, ServeChild
    PROVE  StreamInv'
<1>1. PICK x, n : x = Line("OPEN", batches + 1, answer.ref, NoRequest) /\ n = batches + 1
  OBVIOUS
<1>2. /\ UNCHANGED <<core, leaked>> /\ batches < MaxBatches /\ answer # NoAnswer
      /\ toClient' = toClient \o <<x>> /\ batches' = n /\ answer.child = 0
      /\ answer' = [answer EXCEPT !.child = n]
  BY <1>1 DEF ServeChild, Answering, Replies, Quiet
<1>3. n \in 0 .. MaxBatches /\ n # 0 /\ n \in Nat
  BY <1>1, <1>2, AnswerFits, BoundsAssumption
<1>4. answer.ref # 0 /\ answer.ref <= batches
  BY <1>2, AnswerTypes DEF StreamInv
<1>5. answer.ref # n /\ answer.ref <= n
  BY <1>1, <1>4, AnswerFits
<1>6. x \in Lines /\ x.what = "OPEN" /\ x.ref = n /\ x.parent = answer.ref
  BY <1>1, <1>3, AnswerFits, LineIsTyped
<1>7. answer'.ref = answer.ref /\ answer'.child = n
  BY <1>2, AnswerFits DEF Answerings
<1>8. toClient' = Append(toClient, x)
  BY <1>2, <1>6, AnswerTypes
<1>9. Goes(x, Place, Place')
  BY <1>2, <1>4, <1>5, <1>6, <1>7 DEF Goes, Place
<1> QED
  BY <1>2, <1>3, <1>4, <1>5, <1>6, <1>7, <1>8, <1>9, AnswerFits, WritesOn

\* A line inside a batch, and the end of one.
LEMMA ServeInside ==
    ASSUME MatchInv, StreamInv,
           ServeClose \/ ServeCloseChild \/ \E ref \in {answer.ref, answer.child} : ServeLine(ref)
    PROVE  StreamInv'
<1>1. UNCHANGED <<core, leaked, batches>>
  BY DEF ServeClose, ServeCloseChild, ServeLine, Answering, Quiet
<1>2. /\ answer.ref <= batches
      /\ answer.child # 0 => answer.ref # 0 /\ answer.child # answer.ref
  BY DEF StreamInv
<1>3. ASSUME NEW what \in {"LINE", "CLOSE"}, NEW ref \in 0 .. MaxBatches,
             Replies(<<Line(what, ref, 0, NoRequest)>>),
             answer'.ref \in 0 .. MaxBatches, answer'.child \in 0 .. MaxBatches,
             answer'.ref <= batches,
             answer'.child # 0 => answer'.ref # 0 /\ answer'.child # answer'.ref,
             \A x : x.what = what /\ x.ref = ref => Goes(x, Place, Place')
      PROVE  StreamInv'
  <2>1. PICK x : x = Line(what, ref, 0, NoRequest)
    OBVIOUS
  <2>2. x \in Lines /\ x.what = what /\ x.ref = ref
    <3>1. 0 \in 0 .. MaxBatches /\ NoRequest \in Pairs
      BY AnswerFits
    <3> QED
      BY <1>3, <2>1, <3>1, LineIsTyped
  <2>3. toClient' = Append(toClient, x)
    BY <1>3, <2>1, <2>2, AnswerTypes DEF Replies
  <2>4. Goes(x, Place, Place')
    BY <1>3, <2>2
  <2> QED
    BY <1>1, <1>3, <2>2, <2>3, <2>4, WritesOn
<1>4. CASE ServeClose
  <2>1. /\ answer' = NoAnswer /\ answer.child = 0
        /\ Replies(<<Line("CLOSE", answer.ref, 0, NoRequest)>>)
    BY <1>4 DEF ServeClose
  <2>2. answer'.ref = 0 /\ answer'.child = 0 /\ 0 <= batches
    BY <2>1, AnswerFits
  <2>3. \A x : x.what = "CLOSE" /\ x.ref = answer.ref => Goes(x, Place, Place')
    BY <2>1, <2>2 DEF Goes, Place
  <2> QED
    BY <1>3, <2>1, <2>2, <2>3, AnswerFits
<1>5. CASE ServeCloseChild
  <2>1. /\ answer' = [answer EXCEPT !.child = 0] /\ answer.child # 0
        /\ Replies(<<Line("CLOSE", answer.child, 0, NoRequest)>>)
    BY <1>5 DEF ServeCloseChild
  <2>2. answer'.ref = answer.ref /\ answer'.child = 0
    BY <2>1, AnswerFits DEF Answerings
  <2>3. \A x : x.what = "CLOSE" /\ x.ref = answer.child => Goes(x, Place, Place')
    BY <2>1, <2>2 DEF Goes, Place
  <2> QED
    BY <1>2, <1>3, <2>1, <2>2, <2>3, AnswerFits
<1>6. ASSUME NEW ref \in {answer.ref, answer.child}, ServeLine(ref)
      PROVE  StreamInv'
  <2>1. /\ answer' = [answer EXCEPT !.lines = 1] /\ Replies(<<Line("LINE", ref, 0, NoRequest)>>)
    BY <1>6 DEF ServeLine
  <2>2. answer'.ref = answer.ref /\ answer'.child = answer.child
    BY <2>1, AnswerFits DEF Answerings
  <2>3. \A x : x.what = "LINE" /\ x.ref = ref => Goes(x, Place, Place')
    BY <1>6, <2>1, <2>2 DEF Goes, Place
  <2> QED
    BY <1>2, <1>3, <1>6, <2>1, <2>2, <2>3, AnswerFits
<1> QED
  BY <1>4, <1>5, <1>6

\* The user's lines go the other way.
LEMMA UserAside ==
    ASSUME MatchInv, StreamInv, User
    PROVE  StreamInv'
<1>1. /\ UNCHANGED <<toClient, answer, batches, leaked>>
      /\ \E d, tail : Becomes(d, tail) /\ (d = core \/ d = Older(core))
  BY DEF User, RequestOlder, SendJoin, SendPart, Asks
<1>2. PICK d, tail : Becomes(d, tail) /\ (d = core \/ d = Older(core))
  BY <1>1
<1>3. core \in Cores
  BY InvTypes, CoreTypes
<1>4. core'.open = core.open /\ core'.ignored = core.ignored
  <2>1. CASE d = core
    BY <1>2, <1>3, <2>1, EmptiedKnows
  <2>2. CASE d = Older(core)
    <3>1. PICK o, p : /\ o = Append(core.out, Request("BEFORE", core.generation))
                      /\ p = [kind |-> "BEFORE", generation |-> core.generation]
      OBVIOUS
    <3>2. core' = [[[core EXCEPT !.out = o, !.pending = p] EXCEPT !.before = TRUE] EXCEPT !.out = <<>>]
      BY <1>2, <2>2, <3>1 DEF Becomes, Older, Sends
    <3> QED
      BY <1>3, <3>2 DEF Cores
  <2> QED
    BY <1>2, <2>1, <2>2
<1>5. PICK at \in At(toClient) : Streams(toClient, at, Place) /\ Knows(core, at[1])
  BY DEF StreamInv
<1>6. Knows(core', at[1])
  BY <1>4, <1>5, KnowsSame
<1>7. Place' = Place
  BY <1>1 DEF Place
<1> QED
  BY <1>1, <1>5, <1>6, <1>7 DEF StreamInv

LEMMA StreamStarts == Init => StreamInv
<1> SUFFICES ASSUME Init PROVE StreamInv
  OBVIOUS
<1>1. MatchInv
  BY MatchStartsOut
<1>2. /\ toClient = <<>> /\ answer = NoAnswer /\ batches = 0 /\ leaked = FALSE
      /\ core.ignored = {} /\ core.open = [r \in Refs |-> Closed]
  BY DEF Init, Core
<1>3. answer.ref = 0 /\ answer.child = 0
  BY <1>1, <1>2, AnswerFits
<1>4. \A r \in Refs : core.open[r].root = 0
  BY <1>2, ClosedIsFrame
<1>5. Knows(core, Place)
  BY <1>2, <1>3, <1>4 DEF Knows, Place
<1>6. PICK at : at = [i \in 1 .. 1 |-> Place]
  OBVIOUS
<1>7. Place \in Places
  BY <1>1, AnswerFits DEF Place, Places
<1>8. Len(toClient) = 0
  BY <1>2
<1>9. at \in At(toClient) /\ Streams(toClient, at, Place) /\ at[1] = Place
  BY <1>6, <1>7, <1>8 DEF At, Streams
<1> QED
  BY <1>2, <1>3, <1>5, <1>9 DEF StreamInv

LEMMA StreamStutters ==
    ASSUME StreamInv, UNCHANGED vars
    PROVE  StreamInv'
BY DEF StreamInv, vars, Place

LEMMA StreamIsKept ==
    ASSUME MaxIgnored >= 2, MatchInv, StreamInv, [Next]_vars
    PROVE  StreamInv'
<1>1. CASE User
  BY <1>1, UserAside
<1>2. CASE Receive
  <2>1. ASSUME NEW resumed \in BOOLEAN, NEW sentAfter \in BOOLEAN, NEW sentLatest \in BOOLEAN,
               Join(resumed, sentAfter, sentLatest)
        PROVE  StreamInv'
    BY <2>1, JoinFollows
  <2>2. CASE Leave \/ CapDel
    BY <2>2, DropFollows
  <2>3. CASE Fail
    BY <2>3, FailFollows
  <2>4. CASE BatchOpens
    BY <2>4, OpenRootFollows, OpenChildFollows
  <2>5. ASSUME NEW moves \in {"no", "same", "yes"}, Replayed(moves)
        PROVE  StreamInv'
    BY <2>5, ReplayedFollows DEF Moves
  <2>6. ASSUME NEW sent \in BOOLEAN, BatchCloses(sent)
        PROVE  StreamInv'
    BY <2>6, BatchClosesFollows
  <2> QED
    BY <1>2, <2>1, <2>2, <2>3, <2>4, <2>5, <2>6 DEF Receive
<1>3. CASE Serve \/ Strike
  BY <1>3, ServeAside, ServeBatchFollows, ServeInside DEF Serve, Strike
<1>4. CASE ServeChild
  BY <1>4, ServeChildFollows
<1>5. CASE \E ref \in {answer.ref, answer.child} : ServeLine(ref)
  BY <1>5, ServeInside
<1>6. CASE UNCHANGED vars
  BY <1>6, StreamStutters
<1> QED
  BY <1>1, <1>2, <1>3, <1>4, <1>5, <1>6 DEF Next

\* Lines of a replay never surface as live traffic (capture_in_batch and drop_history_batches):
\* whatever KICK, PART or CAP DEL drops their batch, the session still knows its reference, as
\* long as it may remember two of them (MAX_IGNORED_BATCHES is 32), a batch and its child.
THEOREM NothingLeaksHolds ==
    ASSUME MaxIgnored >= 2
    PROVE  Spec => []NothingLeaks
<1>1. Init => MatchInv /\ StreamInv
  BY MatchStartsOut, StreamStarts
<1>2. MatchInv /\ StreamInv /\ [Next]_vars => (MatchInv /\ StreamInv)'
  BY MatchIsKept, StreamIsKept
<1>3. StreamInv => NothingLeaks
  BY DEF StreamInv, NothingLeaks
<1> QED
  BY <1>1, <1>2, <1>3, PTL DEF Spec
=============================================================================
