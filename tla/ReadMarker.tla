----------------------------- MODULE ReadMarker -----------------------------
(***************************************************************************)
(* The read marker of one direct conversation: the pacing ledger of the    *)
(* session (client/src/session/readmarker.rs), the controller's GET and    *)
(* its hold on publishing (client/src/controller/readmarker.rs), and the   *)
(* conversation's own marker (client/src/irc/reducer/readmarker.rs).       *)
(*                                                                         *)
(* The session puts events in a queue the controller drains later.  The    *)
(* server keeps the newest marker of all the account's clients, answers    *)
(* what it was sent in order, and tells this client of the others' markers.*)
(***************************************************************************)
EXTENDS Naturals, Sequences, FiniteSetsExt

CONSTANTS MaxLines,     \* bound: messages; a message's number is its server time
          MaxOther,     \* bound: markers set by other clients
          MaxFaults,    \* bound: refused or unreadable answers and capability changes
          MaxDrops,     \* bound: lost connections
          MaxMoves,     \* bound: selections and closings
          MaxTurns      \* bound: all of the last four together

ASSUME ReadMarkerBounds ==
    \A b \in {MaxLines, MaxOther, MaxFaults, MaxDrops, MaxMoves, MaxTurns} : b \in Nat

VARIABLES s,        \* the session: registered, verb known, pending, in flight, last known
          c,        \* the controller: selection, viewport, GET sent and awaited, marker, newest line
          out,      \* commands on their way to the server
          wire,     \* lines on their way to the session
          events,   \* from the session to the controller
          stored,   \* the server's marker
          lines, used,
          seen      \* the newest line that was ever on screen

vars == <<s, c, out, wire, events, stored, lines, used, seen>>

Times == 0 .. MaxLines         \* 0 stands for no time
Later(a, b) == IF a >= b THEN a ELSE b
Set(t) == [what |-> "set", at |-> t]
Get == [what |-> "get", at |-> 0]
Item(what, t) == [what |-> what, at |-> t]

TypeOK ==
    /\ s \in [reg : BOOLEAN, cap : BOOLEAN, pending : Times, inFlight : Times, known : Times]
    /\ c \in [selected : {"none", "this", "other"}, viewing : BOOLEAN, getSent : BOOLEAN,
              awaiting : BOOLEAN, marker : Times, latest : Times]
    /\ stored \in Times /\ lines \in Times /\ seen \in Times
    /\ c.awaiting => c.getSent
    /\ s.pending # 0 => s.inFlight # 0 /\ s.pending > s.inFlight

Init ==
    /\ s = [reg |-> TRUE, cap |-> TRUE, pending |-> 0, inFlight |-> 0, known |-> 0]
    /\ c = [selected |-> "none", viewing |-> FALSE, getSent |-> FALSE, awaiting |-> FALSE,
            marker |-> 0, latest |-> 0]
    /\ out = <<>> /\ wire = <<>> /\ events = <<>>
    /\ stored = 0 /\ lines = 0 /\ seen = 0
    /\ used = [other |-> 0, faults |-> 0, drops |-> 0, moves |-> 0]

Turns == used.other + used.faults + used.drops + used.moves
Uses(what, bound) ==
    used[what] < bound /\ Turns < MaxTurns /\ used' = [used EXCEPT ![what] = @ + 1]

-----------------------------------------------------------------------------
(* The session's ledger.  Each operator maps <<session, commands>> to its successor. *)

\* flush_read_marker_set: nothing while one is in flight; what is not news is dropped, and so
\* is what cannot be written.
Flush(x) ==
    LET l == x[1]
        sends == l.pending > l.known /\ l.cap /\ l.reg
    IN IF l.inFlight # 0 \/ l.pending = 0 THEN x
       ELSE << [l EXCEPT !.pending = 0, !.inFlight = IF sends THEN l.pending ELSE 0],
               IF sends THEN Append(x[2], Set(l.pending)) ELSE x[2] >>

News(l, t) == t > l.known /\ t > l.inFlight /\ t > l.pending

\* queue_read_marker_set.
Queue(x, t) ==
    LET l == x[1]
    IN IF l.cap /\ News(l, t)
       THEN Flush(<<[l EXCEPT !.pending = t], x[2]>>) ELSE x

\* A marker at least as new as the one in flight answers it.
Releases(l, t) == l.inFlight # 0 /\ t >= l.inFlight

\* advance_last_known.
Known(l, t) == Later(l.known, t)

\* deliver_read_marker, a line with a time.
Marked(x, t) ==
    LET l == [x[1] EXCEPT !.known = Known(x[1], t)]
    IN IF ~ Releases(l, t) THEN <<l, x[2]>>
       ELSE Flush(<<[l EXCEPT !.inFlight = 0,
                              !.pending = IF @ > t THEN @ ELSE 0], x[2]>>)

\* A refused marker, or an answer that cannot be read, is given up and the next one sent.
Released(x) == Flush(<<[x[1] EXCEPT !.inFlight = 0], x[2]>>)

-----------------------------------------------------------------------------
(* The controller *)

\* Variant: publish what arrives in a conversation that is not on screen.
OnScreenAlways(v) == v.selected = "this"

\* The selected transcript is focused and follows its end.
OnScreen(v) == v.selected = "this" /\ v.viewing

\* sync_read_marker_for_selection: publish the newest line on screen, unless a GET is awaited.
Sync(x, v) ==
    IF OnScreen(v) /\ ~ v.awaiting /\ v.latest > v.marker THEN Queue(x, v.latest) ELSE x

\* request_read_marker_get: one GET per conversation and connection.
Asks(l, v) == ~ v.getSent /\ l.cap /\ l.reg
Asked(l, v) == IF Asks(l, v) THEN [v EXCEPT !.getSent = TRUE, !.awaiting = TRUE] ELSE v
AskedOut(l, v, o) == IF Asks(l, v) THEN Append(o, Get) ELSE o

Becomes(x) == s' = x[1] /\ out' = x[2]

\* Lines on screen have been seen.
Sees(v) == seen' = IF v.selected = "this" /\ v.viewing THEN Later(seen, v.latest) ELSE seen

\* show_shown_view: once another view is on screen the shell reports whether it is focused
\* and where the saved place or the unread mark has put it.
Reports(v) == {[v EXCEPT !.viewing = b] : b \in BOOLEAN}

\* select: ask for the stored marker of a conversation that exists; the shell shows it, and
\* its report publishes what is on screen.
Select ==
    /\ Uses("moves", MaxMoves)
    /\ c.selected # "this"
    /\ LET exists == c.latest # 0
           asked == IF exists THEN Asked(s, c) ELSE c
           o == IF exists THEN AskedOut(s, c, out) ELSE out
       IN \E v \in Reports([asked EXCEPT !.selected = "this"]) :
             /\ c' = v
             /\ Becomes(Sync(<<s, o>>, v))
             /\ Sees(v)
    /\ UNCHANGED <<wire, events, stored, lines>>

SelectOther ==
    /\ Uses("moves", MaxMoves)
    /\ c.selected # "other"
    /\ c' \in Reports([c EXCEPT !.selected = "other"])
    /\ UNCHANGED <<s, out, wire, events, stored, lines, seen>>

\* The conversation is closed and forgotten (drop_direct_message).
Close ==
    /\ Uses("moves", MaxMoves)
    /\ c.latest # 0
    /\ LET v == [c EXCEPT !.getSent = FALSE, !.awaiting = FALSE, !.marker = 0, !.latest = 0]
       IN IF c.selected # "this" THEN c' = v
          ELSE \E next \in {"none", "other"} : c' \in Reports([v EXCEPT !.selected = next])
    /\ UNCHANGED <<s, out, wire, events, stored, lines, seen>>

\* note_transcript_viewport.
View ==
    LET v == [c EXCEPT !.viewing = ~ @]
    IN /\ c' = v
       /\ Becomes(Sync(<<s, out>>, v))
       /\ Sees(v)
       /\ UNCHANGED <<wire, events, stored, lines, used>>

Takes(what) == events # <<>> /\ Head(events).what = what /\ events' = Tail(events)

\* A message: it makes the conversation when there is none and, when nothing is selected,
\* selects it (claim_first_conversation), and the shell shows it.
TakeMessage ==
    /\ Takes("message")
    /\ LET heard == [c EXCEPT !.latest = Later(@, Head(events).at)]
           claims == c.selected = "none"
           o == IF claims THEN AskedOut(s, heard, out) ELSE out
       IN \E v \in IF claims THEN Reports(Asked(s, [heard EXCEPT !.selected = "this"])) ELSE {heard} :
             /\ c' = v
             /\ Becomes(Sync(<<s, o>>, v))
             /\ Sees(v)
    /\ UNCHANGED <<wire, stored, lines, used>>

\* Variant: the hold outlives an answer that carries no marker.
HoldEndedByMarker(v, t) == IF t = 0 THEN v ELSE [v EXCEPT !.awaiting = FALSE]

\* Any answer for the target ends the hold.
HoldEnded(v, t) == [v EXCEPT !.awaiting = FALSE]

\* read_marker_received: end the hold, keep a newer marker, and publish if the hold was on.
TakeMarker ==
    /\ Takes("marker")
    /\ LET t == Head(events).at
           free == HoldEnded(c, t)
           v == IF c.latest = 0 THEN free ELSE [free EXCEPT !.marker = Later(@, t)]
       IN /\ c' = v
          /\ Becomes(IF c.awaiting THEN Sync(<<s, out>>, v) ELSE <<s, out>>)
    /\ UNCHANGED <<wire, stored, lines, used, seen>>

\* handle_capabilities: the capability is gone and with it the answer that was awaited.
TakeDropped ==
    /\ Takes("dropped")
    /\ LET v == [c EXCEPT !.awaiting = FALSE]
       IN c' = v /\ Becomes(IF c.awaiting THEN Sync(<<s, out>>, v) ELSE <<s, out>>)
    /\ UNCHANGED <<wire, stored, lines, used, seen>>

\* read_marker_forget_network.
Forgotten(v) == [v EXCEPT !.getSent = FALSE, !.awaiting = FALSE]

\* The welcome: ask again for the selected conversation, then publish.
TakeWelcome ==
    /\ Takes("welcome")
    /\ LET clear == Forgotten(c)
           asks == c.selected = "this" /\ c.latest # 0
           v == IF asks THEN Asked(s, clear) ELSE clear
           o == IF asks THEN AskedOut(s, clear, out) ELSE out
       IN c' = v /\ Becomes(Sync(<<s, o>>, v))
    /\ UNCHANGED <<wire, stored, lines, used, seen>>

-----------------------------------------------------------------------------
(* The session reads a line *)

Emits(what, t) == events' = Append(events, Item(what, t))

Read ==
    /\ s.reg /\ wire # <<>>
    /\ wire' = Tail(wire)
    /\ LET line == Head(wire)
       IN \/ /\ line.what = "message"
             /\ Emits("message", line.at)
             /\ UNCHANGED <<s, out>>
          \/ /\ line.what = "marker"                  \* a time, or * and nothing changes
             /\ Emits("marker", line.at)
             /\ IF line.at = 0 THEN UNCHANGED <<s, out>> ELSE Becomes(Marked(<<s, out>>, line.at))
          \/ /\ line.what \in {"unreadable", "fail"}
             /\ Emits("marker", 0)
             /\ Becomes(Released(<<s, out>>))
          \/ /\ line.what = "del" /\ ~ s.cap
             /\ UNCHANGED <<s, out, events>>
          \/ /\ line.what = "del" /\ s.cap
             /\ s' = [s EXCEPT !.cap = FALSE]
             /\ Emits("dropped", 0)
             /\ UNCHANGED out
          \/ /\ line.what = "ack"
             /\ s' = [s EXCEPT !.cap = TRUE]
             /\ UNCHANGED <<out, events>>
    /\ UNCHANGED <<c, stored, lines, used, seen>>

Disconnected ==
    /\ s.reg
    /\ Uses("drops", MaxDrops)
    /\ s' = [s EXCEPT !.reg = FALSE]
    /\ out' = <<>> /\ wire' = <<>>
    /\ UNCHANGED <<c, events, stored, lines, seen>>

\* reset_for_connection forgets what was queued and in flight but not the high-water mark.
Ledger(l) == [l EXCEPT !.reg = TRUE, !.pending = 0, !.inFlight = 0]

\* The next connection has registered, with or without the capability.
Registered ==
    /\ ~ s.reg
    /\ \E on \in BOOLEAN : s' = [Ledger(s) EXCEPT !.cap = on]
    /\ events' = events \o (IF s.cap THEN <<Item("dropped", 0)>> ELSE <<>>) \o <<Item("welcome", 0)>>
    /\ UNCHANGED <<c, out, wire, stored, lines, used, seen>>

-----------------------------------------------------------------------------
(* The server, the peer and the account's other clients *)

Tells(items) == wire' = wire \o items
Online == s.reg

PeerSpeaks ==
    /\ Online /\ lines < MaxLines
    /\ lines' = lines + 1
    /\ Tells(<<Item("message", lines')>>)
    /\ UNCHANGED <<s, c, out, events, stored, used, seen>>

OtherReads ==
    /\ Online /\ lines > stored
    /\ Uses("other", MaxOther)
    /\ \E t \in stored + 1 .. lines :
          stored' = t /\ Tells(<<Item("marker", t)>>)
    /\ UNCHANGED <<s, c, out, events, lines, seen>>

\* A set moves the marker forward only, and either command is answered with the marker.
Serve ==
    /\ out # <<>>
    /\ out' = Tail(out)
    /\ stored' = Later(stored, Head(out).at)
    /\ Tells(<<Item("marker", stored')>>)
    /\ UNCHANGED <<s, c, events, lines, used, seen>>

ServeBadly ==
    /\ out # <<>>
    /\ Uses("faults", MaxFaults)
    /\ out' = Tail(out)
    /\ \E what \in {"fail", "unreadable"} : Tells(<<Item(what, 0)>>)
    /\ UNCHANGED <<s, c, events, stored, lines, seen>>

\* The capability is withdrawn or given back.  The server answers what it was sent before.
ServerCap ==
    /\ Online
    /\ Uses("faults", MaxFaults)
    /\ \E what \in {"del", "ack"} : Tells(<<Item(what, 0)>>)
    /\ UNCHANGED <<s, c, out, events, stored, lines, seen>>

-----------------------------------------------------------------------------

Drain == TakeMessage \/ TakeMarker \/ TakeDropped \/ TakeWelcome

Next ==
    \/ Select \/ SelectOther \/ Close \/ View
    \/ Drain \/ Read \/ Disconnected \/ Registered
    \/ PeerSpeaks \/ OtherReads \/ Serve \/ ServeBadly \/ ServerCap

\* The controller drains its events, the session reads its lines, and the server answers.
Fairness == WF_vars(Drain) /\ WF_vars(Read) /\ WF_vars(Serve \/ ServeBadly)

Spec == Init /\ [][Next]_vars /\ Fairness

-----------------------------------------------------------------------------
(* Properties *)

\* What this client publishes as read was on screen: no order of selections, arrivals,
\* echoes and refusals sends a time beyond the newest line that was seen.
OnlySeenIsRead ==
    /\ s.pending <= seen /\ s.inFlight <= seen
    /\ \A i \in 1 .. Len(out) : out[i].at <= seen

\* "One marker per target is in flight at a time": the server is never sent a second set
\* while the first is unanswered.  It does not hold: the marker of another device releases
\* the one in flight.
OneInFlight == Cardinality({i \in 1 .. Len(out) : out[i].what = "set"}) <= 1

\* A line that stays on screen is reported as read: once the server can answer, its marker
\* reaches the newest line, unless it is refused, the capability changes, or the connection
\* or the view goes away.
ReadIsPublished ==
    \A t \in Times \ {0} :
        (OnScreen(c) /\ c.latest = t /\ s.reg /\ s.cap) ~>
            (stored >= t \/ ~ OnScreen(c) \/ ~ s.reg \/ ~ s.cap \/ used.faults > 0
             \/ c.latest # t)

=============================================================================
