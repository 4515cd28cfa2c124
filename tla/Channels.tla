------------------------------ MODULE Channels ------------------------------
(***************************************************************************)
(* Channel membership on one network: joining, leaving and closing         *)
(* channels while the server's answers are on their way, who is in them,   *)
(* and what is known of the members.                                       *)
(*                                                                         *)
(* It composes the session (client/src/session/dispatch.rs, autojoin.rs,   *)
(* registration.rs), the controller (controller/commanddispatcher.rs,      *)
(* selection.rs, controller.rs) and the event reducer                      *)
(* (irc/reducer/handlers.rs, conversations.rs, irc/presence.rs), which run *)
(* on the UI thread: one action reads a line and does all that follows     *)
(* from it.  The server, the user and one other person act around them;    *)
(* the wire keeps the order of lines in each direction.                    *)
(***************************************************************************)
EXTENDS Naturals, Sequences, FiniteSets

CONSTANTS Channels, Nicks,
          MyNick, PeerNick,   \* the nicks the two start with
          Budgets             \* bounds: which channels and nicks take part, and how often
                              \* the others move, the user gives a command, the connection
                              \* is lost, and a line takes 30 seconds

ASSUME ChannelsAssumption ==
    /\ {MyNick, PeerNick} \subseteq Nicks /\ MyNick # PeerNick
    /\ Budgets \subseteq [channels : SUBSET Channels, nicks : SUBSET Nicks,
                          moves : Nat, commands : Nat, drops : Nat, stalls : Nat]

VARIABLES row,         \* channels with a conversation
          joined, syncing,
          members,     \* the nicks listed, per channel
          facts,       \* presence: what is known of a nick
          closed, closedStore,   \* closed channels, in memory and on disk
          cancelled,   \* channels whose next own JOIN is to be undone
          autojoin,
          current,     \* the user's nick as the client knows it
          out, wire,   \* lines to and from the server
          nick, in, peer,        \* the server: nicks, membership, the other person
          up,          \* the connection is registered
          wish,        \* what the user last asked for: "in", "out" or "any"
          dismissed,   \* channels the user closed and has not asked for since
          stalled,     \* channels with a NAMES reply that took too long
          hidden,      \* closed channels that somebody else put the user into: no row shows it
          budget       \* what may still happen

rows == <<row, joined, syncing, members>>
marks == <<closed, closedStore, cancelled, autojoin>>
client == <<rows, facts, marks, current>>
server == <<nick, in, peer, up>>
ghosts == <<wish, dismissed, stalled, hidden>>
vars == <<client, out, wire, server, ghosts, budget>>

Users == {"me", "peer"}
Unknown == "unknown"
Nothing == [away |-> FALSE, account |-> Unknown]

Spend(what) == budget[what] > 0 /\ budget' = [budget EXCEPT ![what] = @ - 1]

\* The types; the user is not listed as joined to a channel that has no conversation, and a
\* NAMES reply is under way only there.
TypeOK ==
    /\ row \subseteq Channels /\ joined \subseteq row /\ syncing \subseteq row
    /\ members \in [Channels -> SUBSET Nicks]
    /\ facts \in [Nicks -> [away : BOOLEAN, account : {Unknown, "yes", "no"}]]
    /\ closed \subseteq Channels /\ closedStore \subseteq Channels
    /\ cancelled \subseteq Channels /\ autojoin \subseteq Channels
    /\ current \in Nicks
    /\ nick \in [Users -> Nicks] /\ in \in [Channels -> SUBSET Users]
    /\ peer \in [on : BOOLEAN, away : BOOLEAN, account : {"yes", "no"}]
    /\ up \in BOOLEAN
    /\ wish \in [Channels -> {"in", "out", "any"}]
    /\ dismissed \subseteq Channels /\ stalled \subseteq Channels /\ hidden \subseteq Channels

Init ==
    /\ row = {} /\ joined = {} /\ syncing = {}
    /\ members = [c \in Channels |-> {}]
    /\ facts = [n \in Nicks |-> Nothing]
    /\ closed = {} /\ closedStore = {} /\ cancelled = {} /\ autojoin = {}
    /\ current = MyNick
    /\ out = <<>> /\ wire = <<>>
    /\ nick = [u \in Users |-> IF u = "me" THEN MyNick ELSE PeerNick]
    /\ in \in [Channels -> SUBSET {"peer"}]
    /\ peer \in [on : {TRUE}, away : BOOLEAN, account : {"yes", "no"}]
    /\ up = TRUE
    /\ wish = [c \in Channels |-> "any"] /\ dismissed = {} /\ stalled = {} /\ hidden = {}
    /\ budget \in Budgets
    /\ \A c \in Channels \ budget.channels : in[c] = {}

-----------------------------------------------------------------------------
(* The reducer *)

\* ensure_key for a line about a channel: an existing row wins, a closed channel gets none.
Ensured(c) == c \in row \/ c \notin closed \cup closedStore

Visible(ms) == UNION {ms[c] : c \in Channels}

\* forget_unseen: what is known of a nick that is in no channel any more is dropped.
Forgotten(ms, departed) ==
    [n \in Nicks |-> IF n \in departed \ Visible(ms) THEN Nothing ELSE facts[n]]

\* Variant: the members who stay behind are not counted as departed.
LeavingAlone(c, n) == {n}

\* Who is out of sight once n has left c: with the user goes everybody.
Leaving(c, n) == IF n = current THEN {n} \cup members[c] ELSE {n}

\* reduce_part and reduce_kick.
Departs(c, n) ==
    IF c \in row
    THEN /\ members' = [members EXCEPT ![c] = @ \ Leaving(c, n)]
         /\ facts' = Forgotten(members', Leaving(c, n))
         /\ IF n = current THEN joined' = joined \ {c} /\ syncing' = syncing \ {c}
                           ELSE UNCHANGED <<joined, syncing>>
    ELSE UNCHANGED <<members, facts, joined, syncing>>

\* mark_channel_left: the row stays, the members are cleared, what is known of them is kept.
MarkLeft(c) ==
    /\ joined' = joined \ {c} /\ syncing' = syncing \ {c}
    /\ members' = [members EXCEPT ![c] = {}]

-----------------------------------------------------------------------------
(* What the user does *)

\* /join, with open_joined_channel: the cancellation and the closed marks are taken back and
\* the row is there before the server answers.
Join(c) ==
    /\ up /\ Spend("commands")
    /\ out' = Append(out, [cmd |-> "JOIN", c |-> c])
    /\ cancelled' = cancelled \ {c}
    /\ closed' = closed \ {c} /\ closedStore' = closedStore \ {c}
    /\ row' = row \cup {c}
    /\ wish' = [wish EXCEPT ![c] = "in"] /\ dismissed' = dismissed \ {c}
    /\ UNCHANGED <<joined, syncing, members, facts, autojoin, current, wire, server, stalled, hidden>>

\* /join that the session does not send, being offline or the line too long: the marks are
\* put back, from what the controller has in memory.
JoinRefused(c) ==
    /\ Spend("commands")
    /\ closedStore' = IF c \in closed THEN closedStore ELSE closedStore \ {c}
    /\ dismissed' = dismissed \ {c}
    /\ UNCHANGED <<rows, facts, closed, cancelled, autojoin, current, out, wire, server,
                    wish, stalled, hidden>>

\* Variant: the JOIN on its way is forgotten.
CancelsNothing(c) == cancelled
\* dispatch_part of a channel that is not joined cancels the JOIN on its way.
Cancels(c) == cancelled \cup {c}

\* /part.
Part(c) ==
    /\ up /\ Spend("commands")
    /\ wish' = [wish EXCEPT ![c] = "out"]
    /\ IF c \in row \ joined
       THEN cancelled' = Cancels(c) /\ UNCHANGED <<out, joined, syncing, members>>
       ELSE /\ out' = Append(out, [cmd |-> "PART", c |-> c])
            /\ IF c \in row THEN MarkLeft(c) ELSE UNCHANGED <<joined, syncing, members>>
            /\ UNCHANGED cancelled
    /\ UNCHANGED <<row, facts, closed, closedStore, autojoin, current, wire, server, dismissed, stalled, hidden>>

\* Closing a channel cancels the JOIN on its way too: it must not bring the channel back.
CancelsClosed(c) == cancelled \cup {c}

\* note_closed.
NotesClosed(c) == closed' = closed \cup {c} /\ closedStore' = closedStore \cup {c}

\* A channel closes only once it is left.
Closable == row \ joined

\* Closing the row of a channel.
Close(c) ==
    /\ c \in Closable /\ Spend("commands")
    /\ cancelled' = CancelsClosed(c)
    /\ NotesClosed(c)
    /\ row' = row \ {c} /\ syncing' = syncing \ {c}
    /\ members' = [members EXCEPT ![c] = {}]
    /\ wish' = [wish EXCEPT ![c] = "out"] /\ dismissed' = dismissed \cup {c}
    /\ UNCHANGED <<joined, facts, autojoin, current, out, wire, server, stalled, hidden>>

\* /nick.
Nick(n) ==
    /\ up /\ Spend("commands")
    /\ out' = Append(out, [cmd |-> "NICK", n |-> n])
    /\ UNCHANGED <<client, wire, server, ghosts>>

-----------------------------------------------------------------------------
(* A line from the server *)

Line(kind) == up /\ wire # <<>> /\ Head(wire).line = kind
Read == wire' = Tail(wire) /\ UNCHANGED <<server, wish, dismissed>>
Quietly == Read /\ UNCHANGED <<out, stalled, hidden, budget>>

\* The own JOIN of a channel that was cancelled is undone at once.
ReadOwnJoin ==
    /\ Line("JOIN") /\ Head(wire).n = current
    /\ LET c == Head(wire).c
           there == Ensured(c)
       IN /\ autojoin' = autojoin \cup {c}
          /\ facts' = [facts EXCEPT ![current].account = Head(wire).account]
          /\ IF c \in cancelled
             THEN /\ out' = Append(out, [cmd |-> "PART", c |-> c])
                  /\ cancelled' = cancelled \ {c}
                  /\ row' = IF c \in closed \/ ~ there THEN row \ {c} ELSE row \cup {c}
                  /\ MarkLeft(c)
             ELSE /\ row' = IF there THEN row \cup {c} ELSE row
                  /\ joined' = IF there THEN joined \cup {c} ELSE joined
                  /\ members' = IF there THEN [members EXCEPT ![c] = @ \cup {current}] ELSE members
                  /\ UNCHANGED <<out, cancelled, syncing>>
          \* Unseen only if neither the cancellation nor the user's last word is against it.
          /\ hidden' = IF there \/ c \in cancelled \/ wish[c] = "out" THEN hidden \ {c}
                                                                   ELSE hidden \cup {c}
    /\ Read
    /\ UNCHANGED <<closed, closedStore, current, stalled, budget>>

ReadJoin ==
    /\ Line("JOIN") /\ Head(wire).n # current
    /\ LET c == Head(wire).c
       IN /\ facts' = [facts EXCEPT ![Head(wire).n].account = Head(wire).account]
          /\ row' = IF Ensured(c) THEN row \cup {c} ELSE row
          /\ members' = IF Ensured(c) THEN [members EXCEPT ![c] = @ \cup {Head(wire).n}] ELSE members
    /\ Quietly
    /\ UNCHANGED <<joined, syncing, marks, current>>

\* PART and KICK: the user's own take the channel off the autojoin list.
ReadDeparture ==
    /\ \/ Line("PART")
       \/ Line("KICK")
    /\ Departs(Head(wire).c, Head(wire).n)
    /\ autojoin' = IF Head(wire).n = current THEN autojoin \ {Head(wire).c} ELSE autojoin
    /\ Quietly
    /\ UNCHANGED <<row, closed, closedStore, cancelled, current>>

ReadQuit ==
    /\ Line("QUIT")
    /\ members' = [c \in Channels |-> members[c] \ {Head(wire).n}]
    /\ facts' = Forgotten(members', {Head(wire).n})
    /\ Quietly
    /\ UNCHANGED <<row, joined, syncing, marks, current>>

\* Variant: a nick taken over keeps what was known of its last owner.
RekeyedOver(from, to) == [facts EXCEPT ![from] = Nothing]
\* NetworkPresence::rekey.
Rekeyed(from, to) == [facts EXCEPT ![to] = facts[from], ![from] = Nothing]

ReadNick ==
    /\ Line("NICK")
    /\ LET from == Head(wire).n
           to == Head(wire).to
       IN /\ current' = IF from = current THEN to ELSE current
          /\ facts' = Rekeyed(from, to)
          /\ members' = [c \in Channels |-> IF from \in members[c]
                                            THEN (members[c] \ {from}) \cup {to} ELSE members[c]]
    /\ Quietly
    /\ UNCHANGED <<row, joined, syncing, marks>>

\* start_names_sync: the first line of a reply empties the list.
Synced(c) == IF c \in syncing THEN members[c] ELSE {}

\* 353 and 366.  The list of names may be 30 seconds old by now, and is released then.
ReadNames(late) ==
    /\ \/ Line("353")
       \/ Line("366")
    /\ LET c == Head(wire).c
           last == Head(wire).line = "366"
       IN /\ IF Ensured(c)
             THEN /\ row' = row \cup {c}
                  /\ members' = [members EXCEPT ![c] = Synced(c) \cup Head(wire).names]
                  /\ syncing' = IF last \/ late THEN syncing \ {c} ELSE syncing \cup {c}
             ELSE UNCHANGED <<row, members, syncing>>
          /\ stalled' = IF late THEN stalled \cup {c} ELSE stalled
          /\ late => ~ last /\ c \in syncing
          /\ out' = IF last THEN Append(out, [cmd |-> "WHO", c |-> c]) ELSE out
    /\ IF late THEN Spend("stalls") ELSE UNCHANGED budget
    /\ Read
    /\ UNCHANGED <<joined, facts, marks, current, hidden>>

\* 352 and AWAY; ACCOUNT.
ReadPresence ==
    /\ \/ Line("AWAY") /\ facts' = [facts EXCEPT ![Head(wire).n].away = Head(wire).away]
       \/ Line("ACCOUNT") /\ facts' = [facts EXCEPT ![Head(wire).n].account = Head(wire).account]
    /\ Quietly
    /\ UNCHANGED <<rows, marks, current>>

-----------------------------------------------------------------------------
(* The connection *)

Drop ==
    /\ up /\ Spend("drops")
    /\ up' = FALSE
    /\ out' = <<>> /\ wire' = <<>>
    /\ in' = [c \in Channels |-> in[c] \ {"me"}]
    \* What was on its way is lost, and with it the word of the user on those channels.
    /\ wish' = [c \in Channels |-> IF out = <<>> /\ wire = <<>> THEN wish[c] ELSE "any"]
    /\ hidden' = {}
    /\ UNCHANGED <<client, nick, peer, dismissed, stalled>>

\* A sequence of the members of a set.
SomeOrder(s) == CHOOSE q \in [1 .. Cardinality(s) -> s] : \A x \in s : \E i \in DOMAIN q : q[i] = x

\* 001: reduce_welcome and the autojoin of handle_welcome.
Welcome ==
    /\ ~ up
    /\ up' = TRUE
    /\ closed' = {} /\ joined' = {} /\ syncing' = {}
    /\ members' = [c \in Channels |-> {}]
    /\ facts' = [n \in Nicks |-> Nothing]
    /\ current' = nick["me"]
    /\ out' = [i \in 1 .. Cardinality(autojoin) |-> [cmd |-> "JOIN", c |-> SomeOrder(autojoin)[i]]]
    /\ stalled' = {}
    /\ UNCHANGED <<row, closedStore, cancelled, autojoin, wire, nick, in, peer, wish, dismissed, hidden, budget>>

-----------------------------------------------------------------------------
(* The server and the other person *)

Shared == {c \in Channels : Users \subseteq in[c]}
IsIn(c) == "me" \in in[c]
Tell(lines) == wire' = wire \o lines

Names(c) == {nick[u] : u \in in[c]}

Account(u) == IF u = "me" THEN "no" ELSE peer.account

\* A channel the user is in already says nothing.  The reply to NAMES has one nick per line.
ServeJoin(c) ==
    LET q == SomeOrder(Names(c) \cup {nick["me"]})
    IN IF IsIn(c) THEN UNCHANGED <<in, wire>>
       ELSE /\ in' = [in EXCEPT ![c] = @ \cup {"me"}]
            /\ Tell(<<[line |-> "JOIN", c |-> c, n |-> nick["me"], account |-> "no"]>>
                    \o [i \in 1 .. Len(q) |-> [line |-> "353", c |-> c, names |-> {q[i]}]]
                    \o <<[line |-> "366", c |-> c, names |-> {}]>>)

WhoReply(c) ==
    [i \in 1 .. Cardinality(in[c]) |->
        LET u == SomeOrder(in[c])[i]
        IN [line |-> "AWAY", n |-> nick[u], away |-> u = "peer" /\ peer.away]]

Serve ==
    /\ up /\ out # <<>>
    /\ out' = Tail(out)
    /\ LET command == Head(out)
       IN CASE command.cmd = "JOIN" -> ServeJoin(command.c) /\ UNCHANGED nick
            [] command.cmd = "PART" ->
                 /\ in' = [in EXCEPT ![command.c] = @ \ {"me"}]
                 /\ IF IsIn(command.c) THEN Tell(<<[line |-> "PART", c |-> command.c, n |-> nick["me"]]>>)
                                       ELSE UNCHANGED wire
                 /\ UNCHANGED nick
            [] command.cmd = "WHO" ->
                 /\ IF IsIn(command.c) THEN Tell(WhoReply(command.c)) ELSE UNCHANGED wire
                 /\ UNCHANGED <<in, nick>>
            [] command.cmd = "NICK" ->
                 /\ IF \E u \in Users : nick[u] = command.n THEN UNCHANGED <<nick, wire>>
                    ELSE /\ nick' = [nick EXCEPT !["me"] = command.n]
                         /\ Tell(<<[line |-> "NICK", n |-> nick["me"], to |-> command.n]>>)
                 /\ UNCHANGED in
    /\ UNCHANGED <<client, peer, up, ghosts, budget>>

\* The user is put into a channel, or thrown out of one, by somebody else.
Forced(c) ==
    /\ up /\ Spend("moves")
    /\ IF IsIn(c)
       THEN /\ in' = [in EXCEPT ![c] = @ \ {"me"}]
            /\ Tell(<<[line |-> "KICK", c |-> c, n |-> nick["me"]]>>)
       ELSE ServeJoin(c)
    /\ wish' = [wish EXCEPT ![c] = "any"]
    /\ UNCHANGED <<client, out, nick, peer, up, dismissed, stalled, hidden>>

PeerMoves(c) ==
    /\ peer.on /\ Spend("moves")
    /\ IF "peer" \in in[c]
       THEN /\ in' = [in EXCEPT ![c] = @ \ {"peer"}]
            /\ IF IsIn(c) THEN Tell(<<[line |-> "PART", c |-> c, n |-> nick["peer"]]>>) ELSE UNCHANGED wire
       ELSE /\ in' = [in EXCEPT ![c] = @ \cup {"peer"}]
            /\ IF IsIn(c)
               THEN Tell(<<[line |-> "JOIN", c |-> c, n |-> nick["peer"], account |-> peer.account]>>
                         \o (IF peer.away THEN <<[line |-> "AWAY", n |-> nick["peer"], away |-> TRUE]>> ELSE <<>>))
               ELSE UNCHANGED wire
    /\ UNCHANGED <<client, out, nick, peer, up, ghosts>>

\* The other person logs in or out, goes away or comes back, quits or changes the nick:
\* whoever shares a channel is told.
Told(line) == IF Shared # {} THEN Tell(<<line>>) ELSE UNCHANGED wire

PeerChanges ==
    /\ peer.on /\ Spend("moves")
    /\ \/ /\ peer' = [peer EXCEPT !.away = ~ @]
          /\ Told([line |-> "AWAY", n |-> nick["peer"], away |-> ~ peer.away])
          /\ UNCHANGED <<nick, in>>
       \/ /\ peer' = [peer EXCEPT !.account = IF @ = "yes" THEN "no" ELSE "yes"]
          /\ Told([line |-> "ACCOUNT", n |-> nick["peer"], account |-> peer'.account])
          /\ UNCHANGED <<nick, in>>
       \/ /\ peer' = [on |-> FALSE, away |-> FALSE, account |-> "no"]
          /\ Told([line |-> "QUIT", n |-> nick["peer"]])
          /\ in' = [c \in Channels |-> in[c] \ {"peer"}]
          /\ UNCHANGED nick
       \/ \E n \in budget.nicks \ {nick["me"], nick["peer"]} :
             /\ nick' = [nick EXCEPT !["peer"] = n]
             /\ Told([line |-> "NICK", n |-> nick["peer"], to |-> n])
             /\ UNCHANGED <<peer, in>>
    /\ UNCHANGED <<client, out, up, ghosts>>

PeerReturns ==
    /\ ~ peer.on /\ Spend("moves")
    /\ peer' = [peer EXCEPT !.on = TRUE]
    /\ UNCHANGED <<client, out, wire, nick, in, up, ghosts>>

-----------------------------------------------------------------------------

Next ==
    \/ ReadOwnJoin \/ ReadJoin \/ ReadDeparture \/ ReadQuit \/ ReadNick \/ ReadPresence
    \/ \E late \in BOOLEAN : ReadNames(late)
    \/ Drop \/ Welcome \/ Serve \/ PeerChanges \/ PeerReturns
    \/ \E c \in budget.channels : Join(c) \/ JoinRefused(c) \/ Part(c) \/ Close(c) \/ Forced(c) \/ PeerMoves(c)
    \/ \E n \in budget.nicks : Nick(n)

Spec == Init /\ [][Next]_vars

-----------------------------------------------------------------------------
(* Properties *)

\* Nothing is on its way in either direction.
Quiet == up /\ out = <<>> /\ wire = <<>>

\* Once every line is read, a channel says it is joined exactly when it is, and lists exactly
\* the people in it: through cancelled joins, nick changes, kicks and reconnections.  A reply
\* that took 30 seconds may leave people out, never put anybody in.
RosterIsTrue ==
    Quiet => \A c \in row :
        /\ c \in joined => IsIn(c)
        /\ IsIn(c) => c \in joined \cup hidden
        /\ members[c] \subseteq Names(c)
        /\ c \in joined \ stalled => members[c] = Names(c)

\* A channel the user left or closed is left: the JOIN that was on its way is undone, and a
\* reconnection does not bring it back.  The exception is a closed channel that somebody else
\* put the user into, of which the client shows nothing: asked for by name, it gets a row that
\* is not joined, and leaving or closing that row sends nothing.
\* One that was closed shows no row again until the user joins it, whatever the server
\* sends about it and however often the connection is lost.
LeftIsLeft ==
    /\ Quiet => \A c \in Channels \ hidden : wish[c] = "out" => ~ IsIn(c)
    /\ row \cap dismissed = {}

\* Once every line is read, whoever is listed and away is shown away: through a person who
\* came while the list was on its way, a change of nick and a nick that was another's.  The
\* user, who is not, is never shown away under a nick somebody away had before.
AwayIsTrue ==
    Quiet => \A c \in joined :
        /\ nick["peer"] \in members[c] /\ peer.away => facts[nick["peer"]].away
        /\ ~ facts[nick["me"]].away

\* The converse: whoever is shown away is away.  It does not hold: /part empties the list
\* first, and the PART that comes back finds nobody to forget; when the person is met again
\* by a JOIN, no AWAY line takes the old mark back.
BackIsTrue ==
    Quiet => \A c \in joined :
        nick["peer"] \in members[c] /\ facts[nick["peer"]].away => peer.away

\* "An explicit join brings a closed channel back": a channel the user asked to join is joined.
\* It does not hold: the server answers a JOIN of a joined channel with nothing.
JoinedIsJoined == Quiet => \A c \in Channels : wish[c] = "in" => c \in joined

\* "The departing nick's presence is forgotten when no shared channel remains": a login
\* that is shown is one the person has.  It does not hold: /part empties the list first, and
\* the PART that comes back finds nobody to forget.
AccountIsTrue ==
    Quiet => \A c \in joined : \A u \in in[c] :
        nick[u] \in members[c] => facts[nick[u]].account \in {Unknown, Account(u)}

=============================================================================
