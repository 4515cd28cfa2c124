---------------------------- MODULE LabelsProofs ----------------------------
(***************************************************************************)
(* A labeled reply goes home, for every number of commands, conversations, *)
(* lost connections and expired requests.                                  *)
(*                                                                         *)
(* A label is given out once, so it has one home, the conversation its     *)
(* request was typed in, for the life of the session.  Requests, lines and *)
(* events that carry the label, and the watch that is kept for it, all     *)
(* agree with this home: a late reply finds the watch of its own request   *)
(* or none.                                                                *)
(***************************************************************************)
EXTENDS Labels, FiniteSetTheorems, SequenceTheorems, TLAPS

LineKinds == {"open", "detail", "end", "close", "fail", "ack", "nosuchnick", "reply"}

\* The conversations a request or an answer may come from, and what is said of the others.
Origins == Destinations \cup {"message", None}

Requests == [kind : {"whois", "ctcp", "message"}, label : Labels, of : Origins]
Lines == [what : LineKinds, label : Labels, of : Origins]

\* The labels an event may carry: those of a table that is emptied in label order are labels,
\* too, but that needs no proof here.
EventLabels ==
    Labels \cup UNION {{InOrder(gone)[i] : i \in 1 .. Cardinality(gone)} : gone \in SUBSET Labels}

Events == [what : LineKinds \cup {"finished", "welcome"}, label : EventLabels, of : Origins,
           labeledAs : EventLabels]

\* With n labels given out and the homes they have: what carries label l comes from its home.
FromHome(home, n, l, of) == l # 0 => l \in 1 .. n /\ of = home[l]

RequestsFrom(home, n) == {r \in Requests : FromHome(home, n, r.label, r.of)}
LinesFrom(home, n) ==
    {line \in Lines : /\ FromHome(home, n, line.label, line.of)
                      /\ line.what = "reply" => line.label = 0}
EventsFrom(home, n) ==
    {e \in Events : \/ e.what \in {"finished", "welcome"}
                    \/ /\ FromHome(home, n, e.labeledAs, e.of)
                       /\ e.what = "reply" => e.labeledAs = 0}

Watches == [kind : {"whois", "ctcp", None}, to : Destinations \cup {None}, ambiguous : BOOLEAN]
WatchesFrom(home, n) ==
    {w \in [Labels -> Watches] :
        \A l \in Labels : w[l].kind # None => l # 0 /\ FromHome(home, n, l, w[l].to)}

Homes == [Labels -> Origins]

AllFromHome(home, n) ==
    /\ server \in Seq(RequestsFrom(home, n))
    /\ wire \in Seq(LinesFrom(home, n))
    /\ events \in Seq(EventsFrom(home, n))
    /\ labeled \in WatchesFrom(home, n)

\* The inductive invariant: labels count commands, and there are homes everything agrees with.
IInv ==
    /\ next \in Nat /\ commands \in Nat /\ next <= commands /\ commands <= MaxCommands
    /\ queries \in Seq(Origins)
    /\ \E home \in Homes : AllFromHome(home, next)
    /\ ReplyGoesHome

-----------------------------------------------------------------------------
(* Lemmas *)

LEMMA Tuples ==
    ASSUME NEW S
    PROVE  /\ <<>> \in Seq(S) /\ \A a \in S : <<a>> \in Seq(S)
           /\ \A a, b \in S : <<a, b>> \in Seq(S)
           /\ \A a, b, c, d \in S : <<a, b, c, d>> \in Seq(S)
OBVIOUS

LEMMA LabelIsEventLabel == Labels \subseteq EventLabels
BY DEF EventLabels

LEMMA NoWatchIsWatch == NoWatch \in Watches
BY DEF NoWatch, Watches

LEMMA FinishedIsEvent ==
    ASSUME NEW home, NEW n, NEW l \in EventLabels
    PROVE  Finished(l) \in EventsFrom(home, n)
<1>1. Finished(l) \in Events
  BY DEF Finished, Events, Origins
<1>2. Finished(l).what = "finished"
  BY DEF Finished
<1> QED
  BY <1>1, <1>2 DEF EventsFrom

\* Emptying the table, or a part of it, queues finish events only.
LEMMA ExpireEventsFit ==
    ASSUME NEW home, NEW n, NEW gone \in SUBSET Labels
    PROVE  ExpireEvents(gone) \in Seq(EventsFrom(home, n))
<1>1. IsFiniteSet(gone) /\ Cardinality(gone) \in Nat
  <2>1. IsFiniteSet(0 .. MaxCommands)
    BY FS_Interval, LabelBounds
  <2> QED
    BY <2>1, FS_Subset, FS_CardinalityType DEF Labels
<1>2. ASSUME NEW i \in 1 .. Cardinality(gone)
      PROVE  Finished(InOrder(gone)[i]) \in EventsFrom(home, n)
  <2>1. InOrder(gone)[i] \in EventLabels
    BY DEF EventLabels
  <2> QED
    BY <2>1, FinishedIsEvent
<1> QED
  BY <1>1, <1>2 DEF ExpireEvents

\* A label given out later does not move the others.
LEMMA HomesGrow ==
    ASSUME NEW home \in Homes, NEW n \in Nat, NEW d, n + 1 \in Labels,
           NEW more, more = [home EXCEPT ![n + 1] = d]
    PROVE  /\ \A l, of : FromHome(home, n, l, of) => FromHome(more, n + 1, l, of)
           /\ RequestsFrom(home, n) \subseteq RequestsFrom(more, n + 1)
           /\ LinesFrom(home, n) \subseteq LinesFrom(more, n + 1)
           /\ EventsFrom(home, n) \subseteq EventsFrom(more, n + 1)
           /\ WatchesFrom(home, n) \subseteq WatchesFrom(more, n + 1)
<1>1. ASSUME NEW l, NEW of, FromHome(home, n, l, of)
      PROVE  FromHome(more, n + 1, l, of)
  <2>1. CASE l = 0
    BY <2>1 DEF FromHome
  <2>2. CASE l # 0
    <3>1. l \in 1 .. n /\ of = home[l]
      BY <1>1, <2>2 DEF FromHome
    <3>2. l \in 1 .. n + 1 /\ l # n + 1 /\ l \in Labels
      BY <3>1, LabelBounds DEF Labels
    <3>3. more[l] = home[l]
      BY <3>2 DEF Homes
    <3> QED
      BY <3>1, <3>2, <3>3 DEF FromHome
  <2> QED
    BY <2>1, <2>2
<1>2. RequestsFrom(home, n) \subseteq RequestsFrom(more, n + 1)
  BY <1>1 DEF RequestsFrom
<1>3. LinesFrom(home, n) \subseteq LinesFrom(more, n + 1)
  BY <1>1 DEF LinesFrom
<1>4. EventsFrom(home, n) \subseteq EventsFrom(more, n + 1)
  BY <1>1 DEF EventsFrom
<1>5. WatchesFrom(home, n) \subseteq WatchesFrom(more, n + 1)
  BY <1>1 DEF WatchesFrom
<1> QED
  BY <1>1, <1>2, <1>3, <1>4, <1>5

\* A watch less is fine.
LEMMA Unwatched ==
    ASSUME NEW home, NEW n, NEW w \in WatchesFrom(home, n), NEW l
    PROVE  [w EXCEPT ![l] = NoWatch] \in WatchesFrom(home, n)
<1>1. PICK v : v = [w EXCEPT ![l] = NoWatch]
  OBVIOUS
<1>2. /\ w \in [Labels -> Watches]
      /\ \A k \in Labels : w[k].kind # None => k # 0 /\ FromHome(home, n, k, w[k].to)
  BY DEF WatchesFrom
<1>3. v \in [Labels -> Watches]
  BY <1>1, <1>2, NoWatchIsWatch
<1>4. ASSUME NEW k \in Labels, v[k].kind # None
      PROVE  k # 0 /\ FromHome(home, n, k, v[k].to)
  <2>1. CASE k = l
    BY <1>1, <1>2, <1>4, <2>1 DEF NoWatch
  <2>2. CASE k # l
    BY <1>1, <1>2, <1>4, <2>2
  <2> QED
    BY <2>1, <2>2
<1> QED
  BY <1>1, <1>3, <1>4 DEF WatchesFrom

\* Every line the server answers a request with is from its home.
LEMMA AnswersFit ==
    ASSUME NEW home, NEW n, NEW r \in RequestsFrom(home, n), NEW lines \in Answers(r)
    PROVE  lines \in Seq(LinesFrom(home, n))
<1>1. r \in Requests /\ FromHome(home, n, r.label, r.of)
  BY DEF RequestsFrom
<1>2. /\ r.label \in Labels /\ r.kind \in {"whois", "ctcp", "message"} /\ r.of \in Origins
      /\ 0 \in Labels /\ "message" \in Origins
  BY <1>1, LabelBounds DEF Requests, Labels, Origins
<1>3. PICK S : S = LinesFrom(home, n)
  OBVIOUS
<1>4. ASSUME NEW what \in LineKinds \ {"reply"}
      PROVE  Line(what, r.label, r.of) \in S
  BY <1>1, <1>2, <1>3 DEF Line, LinesFrom, Lines
<1>5. /\ Line("open", r.label, r.of) \in S /\ Line("close", r.label, r.of) \in S
      /\ Line("detail", r.label, r.of) \in S /\ Line("end", r.label, r.of) \in S
      /\ Line("fail", r.label, r.of) \in S /\ Line("ack", r.label, r.of) \in S
      /\ Line("nosuchnick", r.label, r.of) \in S
  BY <1>4 DEF LineKinds
<1>6. Line("nosuchnick", 0, "message") \in S
  BY <1>2, <1>3 DEF Line, LinesFrom, Lines, LineKinds, FromHome
<1>7. \/ lines = <<Line("open", r.label, r.of), Line("detail", r.label, r.of),
                   Line("end", r.label, r.of), Line("close", r.label, r.of)>>
      \/ lines = <<Line("fail", r.label, r.of)>> \/ lines = <<Line("ack", r.label, r.of)>>
      \/ lines = <<Line("detail", r.label, r.of), Line("end", r.label, r.of)>>
      \/ lines = <<Line("nosuchnick", r.label, r.of), Line("end", r.label, r.of)>>
      \/ lines = <<Line("nosuchnick", 0, "message")>> \/ lines = <<>>
  BY <1>2 DEF Answers
<1>8. lines \in Seq(S)
  <2>1. <<Line("open", r.label, r.of), Line("detail", r.label, r.of),
          Line("end", r.label, r.of), Line("close", r.label, r.of)>> \in Seq(S)
    BY <1>5, Tuples
  <2>2. /\ <<Line("detail", r.label, r.of), Line("end", r.label, r.of)>> \in Seq(S)
        /\ <<Line("nosuchnick", r.label, r.of), Line("end", r.label, r.of)>> \in Seq(S)
    BY <1>5, Tuples
  <2>3. /\ <<Line("fail", r.label, r.of)>> \in Seq(S) /\ <<Line("ack", r.label, r.of)>> \in Seq(S)
        /\ <<Line("nosuchnick", 0, "message")>> \in Seq(S) /\ <<>> \in Seq(S)
    BY <1>5, <1>6, Tuples
  <2> QED
    BY <1>7, <2>1, <2>2, <2>3, ZenonT(30)
<1> QED
  BY <1>3, <1>8

\* A line is shown as what it is.
LEMMA EntryFits ==
    ASSUME NEW home, NEW n, NEW line \in LinesFrom(home, n)
    PROVE  Entry(line) \in EventsFrom(home, n)
<1>1. line \in Lines /\ FromHome(home, n, line.label, line.of)
      /\ (line.what = "reply" => line.label = 0)
  BY DEF LinesFrom
<1>2. line.what \in LineKinds /\ line.of \in Origins /\ line.label \in EventLabels /\ 0 \in EventLabels
  BY <1>1, LabelIsEventLabel, LabelBounds DEF Lines, Labels
<1>3. PICK e, seen : /\ e = Entry(line) /\ seen \in {0, line.label}
                    /\ e = [what |-> line.what, label |-> line.label, of |-> line.of,
                            labeledAs |-> seen]
  BY DEF Entry
<1>4. /\ e.what = line.what /\ e.label = line.label /\ e.of = line.of /\ e.labeledAs = seen
      /\ seen \in EventLabels
  BY <1>2, <1>3
<1>5. e \in Events
  BY <1>2, <1>3, <1>4 DEF Events
<1>6. FromHome(home, n, e.labeledAs, e.of) /\ (e.what = "reply" => e.labeledAs = 0)
  BY <1>1, <1>3, <1>4 DEF FromHome
<1> QED
  BY <1>3, <1>5, <1>6 DEF EventsFrom

-----------------------------------------------------------------------------
(* Each step keeps the invariant *)

\* What a step leaves to show that gives no label out.
LEMMA SameHomes ==
    ASSUME IInv, UNCHANGED <<next, commands>>, NEW home \in Homes, AllFromHome(home, next)',
           queries' \in Seq(Origins), ReplyGoesHome'
    PROVE  IInv'
BY DEF IInv

LEMMA NothingCopied ==
    ASSUME copied' = NoCopy
    PROVE  ReplyGoesHome'
BY DEF ReplyGoesHome, NoCopy

LEMMA BeginKeeps ==
    ASSUME IInv, NEW kind \in {"whois", "ctcp"}, NEW d \in Destinations, NEW sent \in BOOLEAN,
           Begin(kind, d, sent)
    PROVE  IInv'
<1>1. PICK home \in Homes : AllFromHome(home, next)
  BY DEF IInv
<1>2. /\ commands < MaxCommands /\ commands' = commands + 1
      /\ next' = IF on THEN next + 1 ELSE next
      /\ copied' = NoCopy /\ UNCHANGED <<events, wire, queries>>
  BY DEF Begin
<1>3. /\ next \in Nat /\ commands \in Nat /\ next <= commands /\ MaxCommands \in Nat
      /\ queries \in Seq(Origins)
  BY LabelBounds DEF IInv
<1>4. /\ next' \in Nat /\ commands' \in Nat /\ next' <= commands' /\ commands' <= MaxCommands
      /\ next + 1 \in Labels /\ 0 \in Labels
  BY <1>2, <1>3 DEF Labels
<1>5. d \in Origins
  BY DEF Origins
<1>6. CASE on
  <2>1. PICK more : more = [home EXCEPT ![next + 1] = d]
    OBVIOUS
  <2>2. more \in Homes /\ more[next + 1] = d
    BY <2>1, <1>4, <1>5 DEF Homes
  <2>3. next' = next + 1
    BY <1>2, <1>6
  <2>4. FromHome(more, next + 1, next + 1, d)
    BY <2>2, <1>3 DEF FromHome
  <2>5. /\ RequestsFrom(home, next) \subseteq RequestsFrom(more, next + 1)
        /\ LinesFrom(home, next) \subseteq LinesFrom(more, next + 1)
        /\ EventsFrom(home, next) \subseteq EventsFrom(more, next + 1)
        /\ WatchesFrom(home, next) \subseteq WatchesFrom(more, next + 1)
    BY <1>3, <1>4, <2>1, HomesGrow
  <2>6. /\ server \in Seq(RequestsFrom(more, next + 1)) /\ wire \in Seq(LinesFrom(more, next + 1))
        /\ events \in Seq(EventsFrom(more, next + 1)) /\ labeled \in WatchesFrom(more, next + 1)
    BY <1>1, <2>5, SeqMonotonic DEF AllFromHome
  <2>7. Request(kind, next + 1, d) \in RequestsFrom(more, next + 1)
    BY <2>4, <1>4, <1>5 DEF Request, RequestsFrom, Requests
  <2>8. /\ server' = IF sent THEN Append(server, Request(kind, next + 1, d)) ELSE server
        /\ labeled' = IF sent THEN [labeled EXCEPT ![next + 1] = Watch(kind, d)] ELSE labeled
    BY <1>6 DEF Begin, FreshLabel
  <2>9. server' \in Seq(RequestsFrom(more, next + 1))
    BY <2>6, <2>7, <2>8, AppendProperties
  <2>10. [labeled EXCEPT ![next + 1] = Watch(kind, d)] \in WatchesFrom(more, next + 1)
    <3>1. PICK v : v = [labeled EXCEPT ![next + 1] = Watch(kind, d)]
      OBVIOUS
    <3>2. Watch(kind, d) \in Watches /\ Watch(kind, d).to = d
      BY DEF Watch, Watches
    <3>3. /\ labeled \in [Labels -> Watches]
          /\ \A k \in Labels : labeled[k].kind # None =>
                k # 0 /\ FromHome(more, next + 1, k, labeled[k].to)
      BY <2>6 DEF WatchesFrom
    <3>4. v \in [Labels -> Watches] /\ v[next + 1] = Watch(kind, d)
          /\ \A k \in Labels \ {next + 1} : v[k] = labeled[k]
      BY <3>1, <3>2, <3>3, <1>4
    <3>5. next + 1 # 0
      BY <1>3
    <3>6. \A k \in Labels : v[k].kind # None => k # 0 /\ FromHome(more, next + 1, k, v[k].to)
      BY <3>2, <3>3, <3>4, <3>5, <2>4
    <3> QED
      BY <3>1, <3>4, <3>6 DEF WatchesFrom
  <2>11. AllFromHome(more, next)'
    BY <1>2, <2>3, <2>6, <2>8, <2>9, <2>10 DEF AllFromHome
  <2> QED
    BY <1>2, <1>3, <1>4, <2>2, <2>11, NothingCopied DEF IInv
<1>7. CASE ~ on
  <2>1. /\ server' = IF sent THEN Append(server, Request(kind, 0, d)) ELSE server
        /\ labeled' = labeled /\ next' = next
    BY <1>2, <1>7 DEF Begin
  <2>2. Request(kind, 0, d) \in RequestsFrom(home, next)
    BY <1>4, <1>5 DEF Request, RequestsFrom, Requests, FromHome
  <2>3. AllFromHome(home, next)'
    BY <1>1, <1>2, <2>1, <2>2, AppendProperties DEF AllFromHome
  <2> QED
    BY <1>2, <1>3, <1>4, <2>3, NothingCopied DEF IInv
<1> QED
  BY <1>6, <1>7

\* A step that only adds events, and what is left of the lines.
LEMMA EventsAdded ==
    ASSUME IInv, NEW home \in Homes, AllFromHome(home, next),
           UNCHANGED <<next, commands, labeled>>, copied' = NoCopy,
           server' \in Seq(RequestsFrom(home, next)), wire' \in Seq(LinesFrom(home, next)),
           queries' \in Seq(Origins),
           NEW new \in Seq(EventsFrom(home, next)), events' = events \o new
    PROVE  IInv'
<1>1. events' \in Seq(EventsFrom(home, next))
  BY ConcatProperties DEF AllFromHome
<1>2. AllFromHome(home, next)'
  BY <1>1 DEF AllFromHome
<1> QED
  BY <1>2, SameHomes, NothingCopied

LEMMA MessageKeeps ==
    ASSUME IInv, Message
    PROVE  IInv'
<1>1. PICK home \in Homes : AllFromHome(home, next)
  BY DEF IInv
<1>2. /\ commands < MaxCommands /\ commands' = commands + 1
      /\ server' = Append(server, Request("message", 0, None))
      /\ copied' = NoCopy /\ UNCHANGED <<next, events, wire, queries, labeled>>
  BY DEF Message, session
<1>3. Request("message", 0, None) \in RequestsFrom(home, next)
  <2>1. 0 \in Labels /\ None \in Origins
    BY LabelBounds DEF Labels, Origins
  <2> QED
    BY <2>1 DEF Request, RequestsFrom, Requests, FromHome
<1>4. server' \in Seq(RequestsFrom(home, next))
  BY <1>1, <1>2, <1>3, AppendProperties DEF AllFromHome
<1>5. AllFromHome(home, next)'
  BY <1>1, <1>2, <1>4 DEF AllFromHome
<1>6. /\ next' \in Nat /\ commands' \in Nat /\ next' <= commands' /\ commands' <= MaxCommands
      /\ queries' \in Seq(Origins)
  BY <1>2, LabelBounds DEF IInv
<1> QED
  BY <1>2, <1>5, <1>6, NothingCopied DEF IInv

LEMMA LabelTimerKeeps ==
    ASSUME IInv, LabelTimerFires
    PROVE  IInv'
<1>1. PICK home \in Homes : AllFromHome(home, next)
  BY DEF IInv
<1>2. PICK expired \in SUBSET Labels : events' = events \o ExpireEvents(expired)
  BY DEF LabelTimerFires, Outstanding
<1>3. copied' = NoCopy /\ UNCHANGED <<next, commands, labeled, server, wire, queries>>
  BY DEF LabelTimerFires, watches, network
<1>4. ExpireEvents(expired) \in Seq(EventsFrom(home, next))
  BY ExpireEventsFit
<1>5. queries' \in Seq(Origins)
  BY <1>3 DEF IInv
<1>6. server' \in Seq(RequestsFrom(home, next)) /\ wire' \in Seq(LinesFrom(home, next))
  BY <1>1, <1>3 DEF AllFromHome
<1> QED
  BY <1>1, <1>2, <1>3, <1>4, <1>5, <1>6, EventsAdded

LEMMA ServeKeeps ==
    ASSUME IInv, Serve
    PROVE  IInv'
<1>1. PICK home \in Homes : AllFromHome(home, next)
  BY DEF IInv
<1>2. PICK S, r : S = RequestsFrom(home, next) /\ r = Head(server)
  OBVIOUS
<1>3. server # <<>> /\ server \in Seq(S)
  BY <1>1, <1>2 DEF AllFromHome, Serve
<1>4. r \in S /\ Tail(server) \in Seq(S)
  BY <1>2, <1>3
<1>5. PICK lines \in Answers(r) : wire' = wire \o lines
  BY <1>2 DEF Serve
<1>6. lines \in Seq(LinesFrom(home, next))
  BY <1>2, <1>4, AnswersFit
<1>7. wire' \in Seq(LinesFrom(home, next))
  BY <1>1, <1>5, <1>6, ConcatProperties DEF AllFromHome
<1>8. /\ server' = Tail(server) /\ copied' = NoCopy /\ UNCHANGED <<next, commands, labeled, events>>
      /\ queries' = IF r.kind = "ctcp" THEN Append(queries, r.of) ELSE queries
  BY <1>2 DEF Serve, session, watches
<1>9. r.of \in Origins /\ queries \in Seq(Origins)
  BY <1>2, <1>4 DEF RequestsFrom, Requests, IInv
<1>10. queries' \in Seq(Origins)
  BY <1>8, <1>9, AppendProperties
<1>11. server' \in Seq(RequestsFrom(home, next))
  BY <1>2, <1>4, <1>8
<1>12. AllFromHome(home, next)'
  BY <1>1, <1>7, <1>8, <1>11 DEF AllFromHome
<1> QED
  BY <1>8, <1>10, <1>12, SameHomes, NothingCopied

LEMMA PeerRepliesKeeps ==
    ASSUME IInv, PeerReplies
    PROVE  IInv'
<1>1. PICK home \in Homes : AllFromHome(home, next)
  BY DEF IInv
<1>2. /\ queries # <<>> /\ wire' = Append(wire, Line("reply", 0, Head(queries)))
      /\ queries' = Tail(queries) /\ copied' = NoCopy
      /\ UNCHANGED <<next, commands, labeled, events, server>>
  BY DEF PeerReplies, session, watches
<1>3. Head(queries) \in Origins /\ queries' \in Seq(Origins)
  BY <1>2 DEF IInv
<1>4. Line("reply", 0, Head(queries)) \in LinesFrom(home, next)
  <2>1. 0 \in Labels
    BY LabelBounds DEF Labels
  <2> QED
    BY <2>1, <1>3 DEF Line, LinesFrom, Lines, LineKinds, FromHome
<1>5. wire' \in Seq(LinesFrom(home, next))
  BY <1>1, <1>2, <1>4, AppendProperties DEF AllFromHome
<1>6. AllFromHome(home, next)'
  BY <1>1, <1>2, <1>5 DEF AllFromHome
<1> QED
  BY <1>2, <1>3, <1>6, SameHomes, NothingCopied

LEMMA ReadKeeps ==
    ASSUME IInv, Read
    PROVE  IInv'
<1>1. PICK home \in Homes : AllFromHome(home, next)
  BY DEF IInv
<1>2. PICK S, line : S = LinesFrom(home, next) /\ line = Head(wire)
  OBVIOUS
<1>3. wire # <<>> /\ wire \in Seq(S)
  BY <1>1, <1>2 DEF AllFromHome, Read
<1>4. line \in S /\ Tail(wire) \in Seq(S)
  BY <1>2, <1>3
<1>5. line \in LinesFrom(home, next) /\ line.label \in EventLabels
  BY <1>2, <1>4, LabelIsEventLabel DEF LinesFrom, Lines
<1>6. PICK T : T = EventsFrom(home, next)
  OBVIOUS
<1>7. Entry(line) \in T /\ Finished(line.label) \in T
  BY <1>5, <1>6, EntryFits, FinishedIsEvent
<1>8. PICK shown, ended :
        /\ shown = IF line.what \in {"open", "close", "ack"} THEN <<>> ELSE <<Entry(line)>>
        /\ ended = IF line.what \in {"close", "ack", "fail"} THEN FinishEvents(line.label) ELSE <<>>
  OBVIOUS
<1>9. events' = events \o shown \o ended
  BY <1>2, <1>8 DEF Read
<1>10. shown \in Seq(T) /\ ended \in Seq(T) /\ events \in Seq(T)
  <2>1. ended = <<>> \/ ended = <<Finished(line.label)>>
    BY <1>8 DEF FinishEvents
  <2> QED
    BY <2>1, <1>1, <1>6, <1>7, <1>8, Tuples DEF AllFromHome
<1>11. events' \in Seq(T)
  <2>1. events \o shown \in Seq(T)
    BY <1>10, ConcatProperties
  <2> QED
    BY <1>9, <1>10, <2>1, ConcatProperties
<1>12. wire' = Tail(wire) /\ copied' = NoCopy /\ UNCHANGED <<next, commands, labeled, server, queries>>
  BY DEF Read, watches
<1>13. AllFromHome(home, next)'
  BY <1>1, <1>2, <1>4, <1>6, <1>11, <1>12 DEF AllFromHome
<1>14. queries' \in Seq(Origins)
  BY <1>12 DEF IInv
<1> QED
  BY <1>12, <1>13, <1>14, SameHomes, NothingCopied

LEMMA ReconnectsKeeps ==
    ASSUME IInv, Reconnects
    PROVE  IInv'
<1>1. PICK home \in Homes : AllFromHome(home, next)
  BY DEF IInv
<1>2. PICK T, gone, welcome : /\ T = EventsFrom(home, next) /\ gone = Outstanding(pending)
                              /\ welcome = [Finished(0) EXCEPT !.what = "welcome"]
  OBVIOUS
<1>3. welcome \in T
  <2>1. 0 \in EventLabels /\ None \in Origins
    BY LabelIsEventLabel, LabelBounds DEF Labels, Origins
  <2>2. welcome = [what |-> "welcome", label |-> 0, of |-> None, labeledAs |-> 0]
    BY <1>2 DEF Finished
  <2>3. welcome \in Events /\ welcome.what = "welcome"
    BY <2>1, <2>2 DEF Events
  <2> QED
    BY <1>2, <2>3 DEF EventsFrom
<1>4. events' = events \o ExpireEvents(gone) \o <<welcome>>
  BY <1>2 DEF Reconnects
<1>5. /\ events \in Seq(T) /\ ExpireEvents(gone) \in Seq(T) /\ <<welcome>> \in Seq(T)
  <2>1. gone \in SUBSET Labels
    BY <1>2 DEF Outstanding
  <2> QED
    BY <1>1, <1>2, <1>3, <2>1, ExpireEventsFit, Tuples DEF AllFromHome
<1>6. events' \in Seq(T)
  <2>1. events \o ExpireEvents(gone) \in Seq(T)
    BY <1>5, ConcatProperties
  <2> QED
    BY <1>4, <1>5, <2>1, ConcatProperties
<1>7. /\ server' = <<>> /\ wire' = <<>> /\ queries' = <<>> /\ copied' = NoCopy
      /\ UNCHANGED <<next, commands, labeled>>
  BY DEF Reconnects, watches
<1>8. /\ server' \in Seq(RequestsFrom(home, next)) /\ wire' \in Seq(LinesFrom(home, next))
      /\ queries' \in Seq(Origins)
  BY <1>7, Tuples
<1>9. AllFromHome(home, next)'
  BY <1>1, <1>2, <1>6, <1>7, <1>8 DEF AllFromHome
<1> QED
  BY <1>7, <1>8, <1>9, SameHomes, NothingCopied

-----------------------------------------------------------------------------
(* The controller drains an event *)

\* Whatever the controller forgets: it takes the first event and changes nothing else but
\* the watches.
LEMMA PumpKeeps ==
    ASSUME IInv, NEW home \in Homes, AllFromHome(home, next), events # <<>>, events' = Tail(events),
           UNCHANGED <<session, network>>, labeled' \in WatchesFrom(home, next), ReplyGoesHome'
    PROVE  IInv'
<1>1. UNCHANGED <<next, commands, server, wire, queries>>
  BY DEF session, network
<1>2. events' \in Seq(EventsFrom(home, next))
  <2>1. PICK T : T = EventsFrom(home, next)
    OBVIOUS
  <2>2. events \in Seq(T)
    BY <2>1 DEF AllFromHome
  <2>3. Tail(events) \in Seq(T)
    BY <2>2
  <2> QED
    BY <2>1, <2>3
<1>3. AllFromHome(home, next)'
  BY <1>1, <1>2 DEF AllFromHome
<1>4. queries' \in Seq(Origins)
  BY <1>1 DEF IInv
<1> QED
  BY <1>1, <1>3, <1>4, SameHomes

LEMMA HeadFits ==
    ASSUME NEW home, AllFromHome(home, next), events # <<>>
    PROVE  Head(events) \in EventsFrom(home, next)
<1>1. PICK T : T = EventsFrom(home, next)
  OBVIOUS
<1>2. events \in Seq(T)
  BY <1>1 DEF AllFromHome
<1>3. Head(events) \in T
  BY <1>2
<1> QED
  BY <1>1, <1>3

\* The copy of a labeled line: its watch, if there is one, is at its home.
LEMMA RouteLabeledKeeps ==
    ASSUME IInv, RouteLabeled
    PROVE  IInv'
<1>1. PICK home \in Homes : AllFromHome(home, next)
  BY DEF IInv
<1>2. PICK e, watch : e = Head(events) /\ watch = labeled[e.labeledAs]
  OBVIOUS
<1>3. /\ events # <<>> /\ events' = Tail(events) /\ UNCHANGED <<session, network>>
      /\ e.what \in {"detail", "end", "fail"} /\ e.labeledAs # 0
      /\ IF watch.kind = None THEN copied' = NoCopy /\ UNCHANGED labeled
         ELSE /\ copied' = [of |-> e.of, what |-> e.what, to |-> watch.to, label |-> e.labeledAs]
              /\ labeled' = IF e.what = "detail" THEN labeled
                            ELSE [labeled EXCEPT ![e.labeledAs] = NoWatch]
  BY <1>2 DEF RouteLabeled, Takes, Shown, Copies
<1>4. labeled \in WatchesFrom(home, next)
  BY <1>1 DEF AllFromHome
<1>5. labeled' \in WatchesFrom(home, next)
  <2>1. labeled' = labeled \/ labeled' = [labeled EXCEPT ![e.labeledAs] = NoWatch]
    BY <1>3
  <2>2. [labeled EXCEPT ![e.labeledAs] = NoWatch] \in WatchesFrom(home, next)
    BY <1>4, Unwatched
  <2> QED
    BY <2>1, <2>2, <1>4
<1>6. FromHome(home, next, e.labeledAs, e.of)
  <2>1. e \in EventsFrom(home, next)
    BY <1>1, <1>2, <1>3, HeadFits
  <2> QED
    BY <2>1, <1>3 DEF EventsFrom
<1>7. ReplyGoesHome'
  <2>1. CASE watch.kind = None
    BY <2>1, <1>3, NothingCopied
  <2>2. CASE watch.kind # None
    <3>1. e.labeledAs \in 1 .. next /\ e.of = home[e.labeledAs]
      BY <1>3, <1>6 DEF FromHome
    <3>2. e.labeledAs \in Labels
      BY <3>1, LabelBounds DEF IInv, Labels
    <3>3. FromHome(home, next, e.labeledAs, watch.to)
      BY <1>2, <1>4, <2>2, <3>2 DEF WatchesFrom
    <3>4. watch.to = home[e.labeledAs]
      BY <1>3, <3>3 DEF FromHome
    <3>5. copied'.of = e.of /\ copied'.to = watch.to
      BY <1>3, <2>2
    <3> QED
      BY <3>1, <3>4, <3>5 DEF ReplyGoesHome
  <2> QED
    BY <2>1, <2>2
<1> QED
  BY <1>1, <1>3, <1>5, <1>7, PumpKeeps

\* The other copies are of lines without a label.
LEMMA OtherPumpsKeep ==
    ASSUME IInv, LabelFinished \/ RouteWhois \/ RouteCtcp \/ Welcome
    PROVE  IInv'
<1>1. PICK home \in Homes : AllFromHome(home, next)
  BY DEF IInv
<1>2. PICK e : e = Head(events)
  OBVIOUS
<1>3. events # <<>> /\ events' = Tail(events) /\ UNCHANGED <<session, network>>
  BY DEF LabelFinished, RouteWhois, RouteCtcp, Welcome, Takes, Shown
<1>4. labeled \in WatchesFrom(home, next)
  BY <1>1 DEF AllFromHome
<1>5. CASE LabelFinished
  <2>1. labeled' = [labeled EXCEPT ![e.label] = NoWatch] /\ copied' = NoCopy
    BY <1>2, <1>5 DEF LabelFinished
  <2>2. labeled' \in WatchesFrom(home, next)
    BY <2>1, <1>4, Unwatched
  <2> QED
    BY <1>1, <1>3, <2>1, <2>2, PumpKeeps, NothingCopied
<1>6. CASE RouteWhois
  <2>1. labeled' = labeled /\ e.labeledAs = 0
        /\ \/ copied' = NoCopy
           \/ copied' = [of |-> e.of, what |-> e.what, to |-> whois.to, label |-> e.labeledAs]
    BY <1>2, <1>6 DEF RouteWhois, Copies
  <2>2. ReplyGoesHome'
    BY <2>1 DEF ReplyGoesHome, NoCopy
  <2> QED
    BY <1>1, <1>3, <1>4, <2>1, <2>2, PumpKeeps
<1>7. CASE RouteCtcp
  <2>1. /\ labeled' = labeled /\ e.what = "reply"
        /\ \/ copied' = NoCopy
           \/ copied' = [of |-> e.of, what |-> e.what, to |-> ctcp.to, label |-> e.labeledAs]
    BY <1>2, <1>7 DEF RouteCtcp, Copies, Takes
  <2>2. e.labeledAs = 0
    <3>1. e \in EventsFrom(home, next)
      BY <1>1, <1>2, <1>3, HeadFits
    <3> QED
      BY <2>1, <3>1 DEF EventsFrom
  <2>3. ReplyGoesHome'
    BY <2>1, <2>2 DEF ReplyGoesHome, NoCopy
  <2> QED
    BY <1>1, <1>3, <1>4, <2>1, <2>3, PumpKeeps
<1>8. CASE Welcome
  <2>1. labeled' = [l \in Labels |-> NoWatch] /\ copied' = NoCopy
    BY <1>8 DEF Welcome
  <2>2. labeled' \in WatchesFrom(home, next)
    BY <2>1, NoWatchIsWatch DEF WatchesFrom, NoWatch
  <2> QED
    BY <1>1, <1>3, <2>1, <2>2, PumpKeeps, NothingCopied
<1> QED
  BY <1>5, <1>6, <1>7, <1>8

LEMMA Stays ==
    ASSUME IInv, UNCHANGED <<next, commands, labeled, server, wire, queries, events>>,
           copied' = NoCopy \/ UNCHANGED copied
    PROVE  IInv'
<1>1. PICK home \in Homes : AllFromHome(home, next)
  BY DEF IInv
<1>2. AllFromHome(home, next)'
  BY <1>1 DEF AllFromHome
<1>3. ReplyGoesHome'
  BY NothingCopied DEF IInv, ReplyGoesHome
<1>4. queries' \in Seq(Origins)
  BY DEF IInv
<1> QED
  BY <1>2, <1>3, <1>4, SameHomes

LEMMA Starts == Init => IInv
<1> SUFFICES ASSUME Init PROVE IInv
  OBVIOUS
<1>1. PICK home : home = [l \in Labels |-> None]
  OBVIOUS
<1>2. home \in Homes
  BY <1>1 DEF Homes, Origins
<1>3. labeled \in WatchesFrom(home, next)
  BY NoWatchIsWatch DEF Init, WatchesFrom, NoWatch
<1>4. server = <<>> /\ wire = <<>> /\ events = <<>> /\ queries = <<>>
  BY DEF Init
<1>5. /\ server \in Seq(RequestsFrom(home, next)) /\ wire \in Seq(LinesFrom(home, next))
      /\ events \in Seq(EventsFrom(home, next)) /\ queries \in Seq(Origins)
  BY <1>4, Tuples
<1>6. AllFromHome(home, next)
  BY <1>3, <1>5 DEF AllFromHome
<1>7. ReplyGoesHome
  BY DEF Init, ReplyGoesHome, NoCopy
<1>8. next \in Nat /\ commands \in Nat /\ next <= commands /\ commands <= MaxCommands
  BY LabelBounds DEF Init
<1> QED
  BY <1>2, <1>5, <1>6, <1>7, <1>8 DEF IInv

LEMMA Steps == IInv /\ [Next]_vars => IInv'
<1> SUFFICES ASSUME IInv, [Next]_vars PROVE IInv'
  OBVIOUS
<1>1. CASE UNCHANGED vars
  <2>1. UNCHANGED <<next, commands, labeled, server, wire, queries, events, copied>>
    BY <1>1 DEF vars, session, watches, network
  <2> QED
    BY <2>1, Stays
<1>2. ASSUME NEW d \in Destinations, NEW sent \in BOOLEAN, Whois(d, sent) \/ Ctcp(d, sent)
      PROVE  IInv'
  <2>1. Begin("whois", d, sent) \/ Begin("ctcp", d, sent)
    BY <1>2 DEF Whois, Ctcp
  <2> QED
    BY <2>1, BeginKeeps
<1>3. CASE CapChanges \/ Tick
  <2>1. /\ UNCHANGED <<next, commands, labeled, server, wire, queries, events>>
        /\ copied' = NoCopy
    BY <1>3 DEF CapChanges, Tick, watches, network
  <2> QED
    BY <2>1, Stays
<1>4. CASE Pump
  BY <1>4, RouteLabeledKeeps, OtherPumpsKeep DEF Pump
<1> QED
  BY <1>1, <1>2, <1>3, <1>4, MessageKeeps, LabelTimerKeeps, ReadKeeps, ServeKeeps,
     PeerRepliesKeeps, ReconnectsKeeps DEF Next

\* However late the server answers, whatever was asked, expired, lost or withdrawn meanwhile:
\* a labeled reply is copied to the conversation its request was typed in, or to none
\* (route_status_entry of replyrouter.rs).
THEOREM ReplyGoesHomeHolds == Spec => []ReplyGoesHome
<1>1. IInv => ReplyGoesHome
  BY DEF IInv
<1> QED
  BY <1>1, Starts, Steps, PTL DEF Spec

=============================================================================
