-------------------------- MODULE MCConversations --------------------------
(***************************************************************************)
(* Small instances of what a channel shows: who is in it (Channels) and    *)
(* what was said (Transcript).  A behaviour is one of the first, with a    *)
(* nick to change to, a lost connection and a slow reply or with two       *)
(* channels side by side, or one of the second.                            *)
(***************************************************************************)
EXTENDS Channels

CONSTANT Instances   \* limits and bounds of the transcripts

VARIABLES open, shown, trimmed, ids, inside, anchor, held, capTail, log, request, said, since,
          cleared, clock, snap, owed, disturbed, used, bounds,
          part   \* which of the two moves

Text == INSTANCE Transcript WITH rows <- shown, joined <- inside

ASSUME InstancesAssumption ==
    Instances \subseteq Text!BoundRecords /\ \A i \in Instances : \A l \in Text!Limits : i[l] > 0

textVars == <<open, shown, trimmed, ids, inside, anchor, held, capTail, log, request, said, since,
              cleared, clock, snap, owed, disturbed, used, bounds>>

OneChannel(moves, commands) ==
    [channels |-> {"c"}, nicks |-> {"a", "b", "x"},
     moves |-> moves, commands |-> commands, drops |-> 1, stalls |-> 1]
TwoChannels ==
    [channels |-> {"c", "d"}, nicks |-> {"a", "b"},
     moves |-> 1, commands |-> 2, drops |-> 1, stalls |-> 0]
MCBudgets == {OneChannel(2, 2), OneChannel(1, 3), TwoChannels}

\* Transcripts that overflow at once, with playback or a refused request; two that have room
\* for every row, so that nothing is trimmed, with pages of one line beyond the cap on chained
\* pages and with pages of two lines over three stays; and one with room in which playback and
\* closing cross the pages.
Full(playbacks, refusals) ==
    [messages |-> 3, page |-> 2, pages |-> 2, lines |-> 4, stored |-> 1, stays |-> 2, closes |-> 1,
     clears |-> 1, playbacks |-> playbacks, asks |-> 1, refusals |-> refusals]
Roomy(page, lines, stays, refusals) ==
    [messages |-> 12, page |-> page, pages |-> 2, lines |-> lines, stored |-> 1, stays |-> stays,
     closes |-> 0, clears |-> 0, playbacks |-> 0, asks |-> 1, refusals |-> refusals]
Crossed == [Roomy(1, 4, 2, 0) EXCEPT !.closes = 1, !.playbacks = 1]
MCInstances == {Full(1, 0), Full(0, 1), Roomy(1, 6, 2, 1), Roomy(2, 6, 3, 0), Crossed}

\* The part that stands still starts in one state only.
MCInit ==
    /\ Init /\ Text!Init
    /\ \/ part = "members" /\ said = 0 /\ bounds = CHOOSE i \in Instances : TRUE
       \/ /\ part = "text" /\ budget = CHOOSE b \in Budgets : TRUE
          /\ in = [c \in Channels |-> {}] /\ ~ peer.away /\ peer.account = "no"

MCNext ==
    /\ UNCHANGED part
    /\ \/ part = "members" /\ Next /\ UNCHANGED textVars
       \/ part = "text" /\ Text!Next /\ UNCHANGED vars

MCSpec == MCInit /\ [][MCNext]_<<vars, textVars, part>>

\* The rows of a transcript are in the order the lines were said, none twice
\* (irc/reducer/splice.rs).
RowsInOrder == Text!RowsInOrder

\* A line the user cleared away does not come back (irc/reducer/conversations.rs).
ClearedStaysCleared == Text!ClearedStaysCleared

\* What was said during an absence is shown (controller/playback.rs).
CaughtUp == Text!CaughtUp

=============================================================================
