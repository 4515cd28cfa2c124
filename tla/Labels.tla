------------------------------- MODULE Labels -------------------------------
(***************************************************************************)
(* Labeled requests and the routing of their replies: the label table of a *)
(* session (client/src/session/labels.rs, with its uses in batch.rs and    *)
(* dispatch.rs) and the WHOIS and CTCP watches of the controller           *)
(* (client/src/controller/replyrouter.rs), about one nick.                 *)
(*                                                                         *)
(* The session queues events and the controller drains the queue before    *)
(* every command.  The server answers in order but as late as it likes, so *)
(* a deadline may pass first.                                              *)
(***************************************************************************)
EXTENDS Naturals, Sequences, FiniteSets, SequencesExt

CONSTANTS Destinations,   \* the conversations a command is typed in
          Timeout,        \* labeled_response_timeout_ms
          MaxCommands,    \* bound: commands typed
          MaxTime,        \* bound: the clock; a request is typed while its deadline is within it
          MaxDrops        \* bound: lost connections

ASSUME LabelBounds ==
    /\ Timeout \in Nat \ {0}
    /\ MaxCommands \in Nat /\ MaxTime \in Nat /\ MaxDrops \in Nat

VARIABLES now,
          on,        \* whether labeled-response is enabled
          next,      \* next_request_label
          pending,   \* the deadline of each outstanding label, 0 for none
          timer,     \* when the label timer is due, 0 when disarmed
          batches,   \* the labels whose labeled-response batch is open
          events,    \* from the session to the controller
          labeled, whois, ctcp,   \* the controller's watches
          server,    \* requests on their way to the server
          wire,      \* lines on their way to the session
          queries,   \* CTCP queries the peer may still answer
          commands, drops,
          copied     \* the reply the last step copied, and where to

session == <<now, on, next, pending, timer, batches>>
watches == <<labeled, whois, ctcp>>
network == <<server, wire, queries, commands, drops>>
vars == <<session, events, watches, network, copied>>

Labels == 0 .. MaxCommands         \* 0 stands for no label
None == "none"
NoWatch == [kind |-> None, to |-> None, ambiguous |-> FALSE]
Watch(kind, to) == [kind |-> kind, to |-> to, ambiguous |-> FALSE]
NoCopy == [of |-> None, what |-> None, to |-> None, label |-> 0]

TypeOK ==
    /\ on \in BOOLEAN
    /\ now \in 0 .. MaxTime /\ next \in Labels /\ drops \in 0 .. MaxDrops /\ commands \in 0 .. MaxCommands
    /\ pending \in [Labels -> 0 .. MaxTime + Timeout] /\ pending[0] = 0
    /\ timer \in 0 .. MaxTime + Timeout
    /\ batches \subseteq Labels
    /\ labeled \in [Labels -> [kind : {"whois", "ctcp", None}, to : Destinations \cup {None},
                               ambiguous : {FALSE}]]
    /\ whois \in [kind : {"whois", None}, to : Destinations \cup {None}, ambiguous : BOOLEAN]
    /\ ctcp \in [kind : {"ctcp", None}, to : Destinations \cup {None}, ambiguous : {FALSE}]

Init ==
    /\ on \in BOOLEAN
    /\ now = 0 /\ next = 0 /\ timer = 0 /\ drops = 0 /\ commands = 0
    /\ pending = [l \in Labels |-> 0]
    /\ batches = {}
    /\ events = <<>> /\ server = <<>> /\ wire = <<>> /\ queries = <<>>
    /\ labeled = [l \in Labels |-> NoWatch] /\ whois = NoWatch /\ ctcp = NoWatch
    /\ copied = NoCopy

-----------------------------------------------------------------------------
(* The label table *)

Outstanding(deadlines) == {l \in Labels : deadlines[l] # 0}

\* arm_label_timer: the earliest deadline, or disarmed when nothing is outstanding.
Armed(deadlines) ==
    IF Outstanding(deadlines) = {} THEN 0
    ELSE CHOOSE d \in {deadlines[l] : l \in Outstanding(deadlines)} :
            \A l \in Outstanding(deadlines) : d <= deadlines[l]

Table(deadlines) == pending' = deadlines /\ timer' = Armed(deadlines)

Finished(l) == [what |-> "finished", label |-> l, of |-> None, labeledAs |-> l]

\* finish_request_label: one event, and none for a label that is not outstanding.
Finish(l) == Table([pending EXCEPT ![l] = 0])
FinishEvents(l) == IF pending[l] = 0 THEN <<>> ELSE <<Finished(l)>>

\* Variant: an expired label is removed without telling the controller.
ExpireEventsSilent(gone) == <<>>

\* One event per label, in label order.
InOrder(gone) == SetToSortSeq(gone, LAMBDA a, b : a < b)
ExpireEvents(gone) == [i \in 1 .. Cardinality(gone) |-> Finished(InOrder(gone)[i])]

\* on_label_timer_fired.
LabelTimerFires ==
    /\ timer # 0 /\ now >= timer
    /\ LET expired == {l \in Outstanding(pending) : pending[l] <= now}
       IN /\ Table([l \in Labels |-> IF l \in expired THEN 0 ELSE pending[l]])
          /\ events' = events \o ExpireEvents(expired)
    /\ copied' = NoCopy
    /\ UNCHANGED <<now, on, next, batches, watches, network>>

-----------------------------------------------------------------------------
(* Commands.  The controller has drained the session's events first. *)

Request(kind, label, of) == [kind |-> kind, label |-> label, of |-> of]

\* Variant: the label of a request that is over is used again.
FreshLabelReused == IF next = 0 \/ pending[1] # 0 THEN next + 1 ELSE 1

\* begin_labeled_request: labels count up over the life of the session.
FreshLabel == next + 1

\* Arm the watch, then write the line; a refused write takes the watch and the label back.
Begin(kind, d, sent) ==
    /\ events = <<>>
    /\ commands < MaxCommands /\ now + Timeout <= MaxTime
    /\ commands' = commands + 1
    /\ next' = IF on THEN next + 1 ELSE next
    /\ LET l == IF on THEN FreshLabel ELSE 0
       IN /\ IF on /\ sent
             THEN /\ Table([pending EXCEPT ![l] = now + Timeout])
                  /\ labeled' = [labeled EXCEPT ![l] = Watch(kind, d)]
             ELSE UNCHANGED <<pending, timer, labeled>>
          /\ server' = IF sent THEN Append(server, Request(kind, l, d)) ELSE server
    /\ copied' = NoCopy
    /\ UNCHANGED <<now, on, batches, events, wire, queries, drops>>

\* send_whois.
Whois(d, sent) ==
    /\ Begin("whois", d, sent)
    /\ whois' = IF on THEN whois ELSE IF sent THEN Watch("whois", d) ELSE NoWatch
    /\ UNCHANGED ctcp

\* send_ctcp_query: a plain watch beside the labeled one, for the peer's own reply.
Ctcp(d, sent) ==
    /\ Begin("ctcp", d, sent)
    /\ ctcp' = IF sent THEN Watch("ctcp", d) ELSE NoWatch
    /\ UNCHANGED whois

\* A message to the nick: the 401 it may cause is not the WHOIS's (note_nick_delivery).
Message ==
    /\ events = <<>>
    /\ commands < MaxCommands
    /\ commands' = commands + 1
    /\ server' = Append(server, Request("message", 0, None))
    /\ whois' = IF whois.kind = None THEN whois ELSE [whois EXCEPT !.ambiguous = TRUE]
    /\ copied' = NoCopy
    /\ UNCHANGED <<session, events, labeled, ctcp, wire, queries, drops>>

-----------------------------------------------------------------------------
(* The server and the peer *)

Line(what, l, of) == [what |-> what, label |-> l, of |-> of]

\* A labeled WHOIS is answered by a batch; an unlabeled one by loose lines.
Answers(r) ==
    CASE r.kind = "whois" /\ r.label # 0 ->
            {<<Line("open", r.label, r.of), Line("detail", r.label, r.of),
               Line("end", r.label, r.of), Line("close", r.label, r.of)>>,
             <<Line("fail", r.label, r.of)>>}
      [] r.kind = "whois" /\ r.label = 0 ->
            {<<Line("detail", 0, r.of), Line("end", 0, r.of)>>,
             <<Line("nosuchnick", 0, r.of), Line("end", 0, r.of)>>}
      [] r.kind = "ctcp" /\ r.label # 0 ->
            {<<Line("ack", r.label, r.of)>>, <<Line("fail", r.label, r.of)>>}
      [] r.kind = "ctcp" /\ r.label = 0 -> {<<>>}
      [] r.kind = "message" -> {<<>>, <<Line("nosuchnick", 0, "message")>>}

Serve ==
    /\ server # <<>>
    /\ \E lines \in Answers(Head(server)) : wire' = wire \o lines
    /\ server' = Tail(server)
    /\ queries' = IF Head(server).kind = "ctcp" THEN Append(queries, Head(server).of) ELSE queries
    /\ copied' = NoCopy
    /\ UNCHANGED <<session, events, watches, commands, drops>>

PeerReplies ==
    /\ queries # <<>>
    /\ wire' = Append(wire, Line("reply", 0, Head(queries)))
    /\ queries' = Tail(queries)
    /\ copied' = NoCopy
    /\ UNCHANGED <<session, events, watches, server, commands, drops>>

-----------------------------------------------------------------------------
(* The session reads a line *)

\* The Status entry of a line carries its own label, or the label of its open batch.
Entry(line) ==
    [what |-> line.what, label |-> line.label, of |-> line.of,
     labeledAs |-> IF line.what \in {"detail", "end"} /\ line.label \notin batches
                   THEN 0 ELSE line.label]

Read ==
    /\ wire # <<>>
    /\ LET line == Head(wire)
       IN /\ batches' = CASE line.what = "open" -> batches \cup {line.label}
                          [] line.what = "close" -> batches \ {line.label}
                          [] OTHER -> batches
          /\ events' = events
                \o (IF line.what \in {"open", "close", "ack"} THEN <<>> ELSE <<Entry(line)>>)
                \o (IF line.what \in {"close", "ack", "fail"} THEN FinishEvents(line.label)
                    ELSE <<>>)
          /\ IF line.what \in {"close", "ack", "fail"} THEN Finish(line.label)
             ELSE UNCHANGED <<pending, timer>>
    /\ wire' = Tail(wire)
    /\ copied' = NoCopy
    /\ UNCHANGED <<now, on, next, watches, server, queries, commands, drops>>

\* The connection is lost and made again: labels are cleared with one event each, and the
\* welcome follows.
Reconnects ==
    /\ drops < MaxDrops
    /\ drops' = drops + 1
    /\ on' \in BOOLEAN
    /\ events' = events \o ExpireEvents(Outstanding(pending))
                        \o <<[Finished(0) EXCEPT !.what = "welcome"]>>
    /\ Table([l \in Labels |-> 0])
    /\ batches' = {}
    /\ server' = <<>> /\ wire' = <<>> /\ queries' = <<>>
    /\ copied' = NoCopy
    /\ UNCHANGED <<now, next, watches, commands>>

-----------------------------------------------------------------------------
(* The controller drains one event: route_status_entry and request_label_finished *)

Takes(what) == events # <<>> /\ Head(events).what \in what /\ events' = Tail(events)
Copies(watch, e) == copied' = [of |-> e.of, what |-> e.what, to |-> watch.to, label |-> e.labeledAs]
Shown == UNCHANGED <<session, network>>

LabelFinished ==
    /\ Takes({"finished"})
    /\ labeled' = [labeled EXCEPT ![Head(events).label] = NoWatch]
    /\ copied' = NoCopy
    /\ UNCHANGED <<whois, ctcp>> /\ Shown

\* A labeled line goes to its watch or nowhere.
RouteLabeled ==
    /\ Takes({"detail", "end", "fail"})
    /\ Head(events).labeledAs # 0
    /\ LET e == Head(events)
           watch == labeled[e.labeledAs]
       IN IF watch.kind = None THEN copied' = NoCopy /\ UNCHANGED labeled
          ELSE /\ Copies(watch, e)
               /\ labeled' = IF e.what = "detail" THEN labeled
                             ELSE [labeled EXCEPT ![e.labeledAs] = NoWatch]
    /\ UNCHANGED <<whois, ctcp>> /\ Shown

\* route_whois_line passes over a 401 that may be a message's.
IsAmbiguous(e) == e.what = "nosuchnick" /\ whois.ambiguous

RouteWhois ==
    /\ Takes({"detail", "end", "nosuchnick"})
    /\ Head(events).labeledAs = 0
    /\ LET e == Head(events)
       IN IF whois.kind = None \/ IsAmbiguous(e) THEN copied' = NoCopy /\ UNCHANGED whois
          ELSE /\ Copies(whois, e)
               /\ whois' = IF e.what = "detail" THEN whois ELSE NoWatch
    /\ UNCHANGED <<labeled, ctcp>> /\ Shown

RouteCtcp ==
    /\ Takes({"reply"})
    /\ IF ctcp.kind = None THEN copied' = NoCopy ELSE Copies(ctcp, Head(events))
    /\ ctcp' = NoWatch
    /\ UNCHANGED <<labeled, whois>> /\ Shown

\* forget_replies, on the welcome.
Welcome ==
    /\ Takes({"welcome"})
    /\ labeled' = [l \in Labels |-> NoWatch] /\ whois' = NoWatch /\ ctcp' = NoWatch
    /\ copied' = NoCopy
    /\ Shown

\* The server enables or withdraws labeled-response: what is outstanding stays so.
CapChanges ==
    /\ on' = ~ on
    /\ copied' = NoCopy
    /\ UNCHANGED <<now, next, pending, timer, batches, events, watches, network>>

Tick ==
    /\ now < MaxTime
    /\ now' = now + 1
    /\ copied' = NoCopy
    /\ UNCHANGED <<on, next, pending, timer, batches, events, watches, network>>

-----------------------------------------------------------------------------

Pump == LabelFinished \/ RouteLabeled \/ RouteWhois \/ RouteCtcp \/ Welcome

Next ==
    \/ \E d \in Destinations, sent \in BOOLEAN : Whois(d, sent) \/ Ctcp(d, sent)
    \/ Message \/ LabelTimerFires \/ Read \/ Serve \/ PeerReplies \/ Reconnects
    \/ CapChanges \/ Pump \/ Tick

\* The clock runs, the timer fires when it is due, and the controller drains its events.
Fairness == WF_vars(Tick) /\ WF_vars(LabelTimerFires) /\ WF_vars(Pump)

Spec == Init /\ [][Next]_vars /\ Fairness

-----------------------------------------------------------------------------
(* Properties *)

\* A labeled reply of the server is copied to the conversation that asked, however late it
\* comes, whatever was asked meanwhile, with and without labels.
ReplyGoesHome == copied.label # 0 => copied.to = copied.of

\* The 401 of a message is not shown as the answer to a WHOIS.  It does not hold: only a watch
\* that exists when the message is sent is marked.
MessageErrorIsNotWhois == copied.of # "message"

\* The user of every labeled request hears of its end.
LabelFinishes == \A l \in Labels : labeled[l].kind # None ~> labeled[l].kind = None

=============================================================================
