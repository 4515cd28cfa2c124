----------------------------- MODULE Transcript -----------------------------
(***************************************************************************)
(* The transcript of one channel and its stored copy: live lines, pages of *)
(* chat history spliced in before the join line, older pages put in front, *)
(* bouncer playback held until the join, the cap on the number of rows,    *)
(* /clear, and reading the stored tail back when the conversation is       *)
(* opened again (client/src/irc/reducer/splice.rs, transcript.rs,          *)
(* conversations.rs, handlers.rs; controller/history.rs, playback.rs;      *)
(* storage/conversationlog.rs, playbacktime.rs).                           *)
(*                                                                         *)
(* The lines of the channel are 1, 2, 3 ... in the order they were said,   *)
(* each with a msgid, and Joined stands for the user's own join line.  Of  *)
(* the session only what it guarantees is kept (module History): one       *)
(* request at a time, and an answer of an earlier stay is dropped.         *)
(***************************************************************************)
EXTENDS Integers, Sequences, SequencesExt, FiniteSets, FiniteSetsExt

CONSTANT Instances   \* the limits of the program and the bounds that a behaviour may have

Limits == {"messages",   \* rows a transcript keeps (MAX_MESSAGES, 2000)
           "page",       \* lines in a page of history (history_limit)
           "pages"}      \* full pages after the stored time (HISTORY_AFTER_PAGE_CAP, 10)
Spent == {"stays", "closes", "clears", "playbacks", "asks", "refusals"}
BoundRecords == [Limits \cup Spent \cup {"lines", "stored"} -> Nat]

VARIABLES open,      \* the conversation exists
          rows,      \* its messages
          trimmed,   \* rows that were dropped from the front
          ids,       \* message_ids
          joined,
          anchor,    \* where the next page lands, counted with the trimmed rows
          held,      \* pending_playback: lines that wait for the join
          capTail,   \* history_page_cap_tail
          log,       \* the stored lines
          request,   \* the history request in flight
          said,      \* lines said in the channel
          since,     \* lines said when the user joined
          cleared,   \* lines the user cleared away
          clock,     \* the stored time: the newest line seen or kept
          snap,      \* the stored time when the connection was registered
          owed,      \* lines said while the user was away and to be caught up on
          disturbed, \* what happened that the promises below make an exception of
          used,      \* how much of each bound is used up
          bounds     \* the instance: its limits, and how often each thing may happen

conv == <<open, rows, trimmed, ids, joined, anchor, capTail, disturbed>>
times == <<clock, snap>>
world == <<said, since, cleared, owed, used, bounds>>
vars == <<conv, held, log, request, times, world>>

Joined == 0
Nowhere == -1
MaxMessages == bounds.messages
Page == bounds.page
Asking(kind, at, pages) == [kind |-> kind, at |-> at, pages |-> pages]
Idle == Asking("none", 0, 0)
Lines == 1 .. bounds.lines
Rows == Lines \cup {Joined}
Chat(s) == SelectSeq(s, LAMBDA r : r # Joined)
Interval(a, b) == [i \in 1 .. (b - a + 1) |-> a + i - 1]

Spend(what) ==
    used[what] < bounds[what] /\ used' = [used EXCEPT ![what] = @ + 1] /\ UNCHANGED bounds

(***************************************************************************)
(* The conversation as a value, so that the steps of a handler compose.    *)
(***************************************************************************)
Conv == [open |-> open, rows |-> rows, trimmed |-> trimmed, ids |-> ids,
         joined |-> joined, anchor |-> anchor, capTail |-> capTail, log |-> log,
         disturbed |-> disturbed]
Becomes(c) == /\ open' = c.open /\ rows' = c.rows /\ trimmed' = c.trimmed
              /\ ids' = c.ids /\ joined' = c.joined /\ anchor' = c.anchor
              /\ capTail' = c.capTail /\ log' = c.log /\ disturbed' = c.disturbed
Fresh == [open |-> FALSE, rows |-> <<>>, trimmed |-> 0, ids |-> {},
          joined |-> FALSE, anchor |-> Nowhere, capTail |-> FALSE, log |-> log,
          disturbed |-> disturbed]

Init ==
    /\ open = FALSE /\ rows = <<>> /\ trimmed = 0 /\ ids = {} /\ joined = FALSE
    /\ anchor = Nowhere /\ capTail = FALSE /\ disturbed = {}
    /\ held = <<>> /\ request = Idle /\ since = 0 /\ cleared = {} /\ owed = {}
    /\ bounds \in Instances
    /\ said \in 0 .. bounds.stored /\ log = Interval(1, said) /\ clock = said /\ snap = said
    /\ used = [b \in Spent |-> 0]

(***************************************************************************)
(* The cap.  Rows leave from the front with their msgids, and an anchor    *)
(* that names one of them goes too; when the reader is paging back they    *)
(* leave from the end instead.                                             *)
(***************************************************************************)
Extra(c) == Len(c.rows) - MaxMessages
CapHead(c) ==
    IF Extra(c) <= 0 THEN c ELSE
    LET gone == SubSeq(c.rows, 1, Extra(c))
        t == c.trimmed + Extra(c)
    IN [c EXCEPT !.rows = SubSeq(c.rows, Extra(c) + 1, Len(c.rows)),
                 !.trimmed = t,
                 !.ids = @ \ ToSet(gone),
                 !.anchor = IF @ < t THEN Nowhere ELSE @,
                 !.disturbed = @ \cup {"trim"}]
CapTail(c) ==
    IF Extra(c) <= 0 THEN c ELSE
    [c EXCEPT !.rows = SubSeq(c.rows, 1, MaxMessages),
              !.ids = @ \ ToSet(SubSeq(c.rows, MaxMessages + 1, Len(c.rows))),
              !.disturbed = @ \cup {"tail"}]

(***************************************************************************)
(* Opening the conversation reads the last stored lines, skipping msgids   *)
(* that are already there.                                                 *)
(***************************************************************************)
ReadTail(n) == SubSeq(log, IF Len(log) > n THEN Len(log) - n + 1 ELSE 1, Len(log))
Admits(s, r) == r = Joined \/ ~Contains(s, r)
Hydrated ==
    LET stored == FoldLeft(LAMBDA s, r : IF Admits(s, r) THEN Append(s, r) ELSE s,
                           <<>>, ReadTail(MaxMessages))
    IN [Fresh EXCEPT !.open = TRUE, !.rows = stored, !.ids = ToSet(stored) \ {Joined}]
Ensured == IF open THEN Conv ELSE Hydrated

(***************************************************************************)
(* A row at the end: a live line or the join line.                         *)
(***************************************************************************)
Admitted(c, r) == CapHead([c EXCEPT !.rows = Append(@, r), !.log = Append(@, r)])

(***************************************************************************)
(* splice_history: the lines that are new go in at an index, and to the    *)
(* front of the log if that is the first row, to its end otherwise.        *)
(***************************************************************************)
NewIn(c, lines) ==
    FoldLeft(LAMBDA run, l : IF l \in c.ids \/ Contains(run, l) THEN run ELSE Append(run, l),
             <<>>, lines)
Stored(at, run, l) == IF at = 0 THEN run \o l ELSE l \o run
\* Variant: the anchor stays where the first page went in
ShiftedNever(c, run) == c.anchor
Shifted(c, run) == IF c.anchor = Nowhere THEN Nowhere ELSE c.anchor + Len(run)
Spliced(c, at, lines, chat) ==
    LET run == NewIn(c, lines)
        put == [c EXCEPT !.rows = SubSeq(@, 1, at) \o run \o SubSeq(@, at + 1, Len(@)),
                         !.ids = @ \cup ToSet(run),
                         !.anchor = Shifted(c, run),
                         !.log = Stored(at, run, @),
                         !.capTail = @ /\ ~chat]
    IN CASE run = <<>> -> [c EXCEPT !.capTail = @ /\ ~chat]
         [] run # <<>> /\ c.capTail /\ chat -> CapTail(put)
         [] OTHER -> CapHead(put)

\* peek_splice_index and take_splice_index: the place of the anchor, if it has one.
Place(c) == c.anchor - c.trimmed
Fits(c) == c.anchor - c.trimmed \in 0 .. Len(c.rows)
SplicedKeeping(c, lines) ==
    CASE c.anchor = Nowhere -> IF c.joined THEN Spliced(c, Len(c.rows), lines, FALSE) ELSE c
      [] c.anchor # Nowhere /\ Fits(c) -> Spliced(c, Place(c), lines, FALSE)
      [] OTHER -> c
SplicedConsuming(c, lines) ==
    CASE c.anchor = Nowhere -> c
      [] c.anchor # Nowhere /\ Fits(c) -> Spliced(c, Place(c), lines, TRUE)
      [] OTHER -> [c EXCEPT !.anchor = Nowhere]

Disturb(c, what) == [c EXCEPT !.disturbed = @ \cup {what}]

\* The stored time moves to the newest of the lines that are still there.
Noted(lines) == clock' = Max({clock} \cup (ToSet(lines) \cap ToSet(rows')))

(***************************************************************************)
(* Someone says something.  A user who is in the channel sees it at once.  *)
(***************************************************************************)
Say ==
    /\ said < bounds.lines /\ said' = said + 1
    /\ Becomes(IF joined /\ said' \notin ids
               THEN Admitted([Conv EXCEPT !.ids = @ \cup {said'}], said') ELSE Conv)
    /\ clock' = IF joined THEN said' ELSE clock
    /\ owed' = IF ~joined /\ snap > 0 THEN owed \cup {said'} ELSE owed
    /\ UNCHANGED <<held, request, snap, since, cleared, used, bounds>>

(***************************************************************************)
(* The user's JOIN: the anchor is set to where the join line goes, held    *)
(* playback is put before it, and history is asked for: what came after    *)
(* the time stored at registration, or the latest page when there is none. *)
(***************************************************************************)
JoinAnchor(c) == c.trimmed + Len(c.rows)
Resume == IF snap > 0 THEN Asking("after", snap + 1, 1) ELSE Asking("latest", 0, 0)
Join ==
    /\ ~joined /\ Spend("stays")
    /\ LET c == [Ensured EXCEPT !.joined = TRUE, !.anchor = JoinAnchor(Ensured)]
           r == Admitted(c, Joined)
       IN Becomes(IF held = <<>> THEN r ELSE Disturb(SplicedKeeping(r, held), "playback"))
    /\ Noted(held)
    /\ held' = <<>> /\ since' = said /\ request' = Resume
    /\ UNCHANGED <<snap, said, cleared, owed>>

(***************************************************************************)
(* A page of lines after the stored time.  When it is full the next one is *)
(* asked for, but after so many pages only the newest lines: those between *)
(* are never fetched.                                                      *)
(***************************************************************************)
\* Variant: a page is taken for the last one unless it has more lines than were asked for.
ChainedBeyond(page, next) ==
    CASE Len(page) <= Page -> Idle
      [] Len(page) > Page /\ request.pages >= bounds.pages -> Asking("tail", next, 0)
      [] OTHER -> Asking("after", next, request.pages + 1)
Chained(page, next) ==
    CASE Len(page) < Page -> Idle
      [] Len(page) = Page /\ request.pages >= bounds.pages -> Asking("tail", next, 0)
      [] OTHER -> Asking("after", next, request.pages + 1)
AfterPage ==
    /\ request.kind = "after"
    /\ LET last == Min({said, request.at + Page - 1})
           page == Interval(request.at, last)
       IN /\ Becomes(SplicedConsuming(Conv, page))
          /\ Noted(page)
          /\ request' = Chained(page, last + 1)
    /\ UNCHANGED <<held, snap, world>>

TailPage ==
    /\ request.kind = "tail"
    /\ LET page == Interval(Max({request.at, said - Page + 1}), said)
       IN Becomes(SplicedConsuming(Conv, page)) /\ Noted(page)
    /\ request' = Idle
    /\ owed' = owed \ (request.at .. said - Page)
    /\ UNCHANGED <<held, snap, said, since, cleared, used, bounds>>

LatestPage ==
    /\ request.kind = "latest"
    /\ LET page == Interval(Max({1, said - Page + 1}), said)
       IN Becomes(SplicedConsuming(Conv, page)) /\ Noted(page)
    /\ request' = Idle
    /\ UNCHANGED <<held, snap, world>>

(***************************************************************************)
(* The user pages to the top: one page older than the first line is asked  *)
(* for, and goes in front.  Trimming is from the end from now on, also if  *)
(* another request is in flight and nothing is asked for.                  *)
(***************************************************************************)
\* oldest_history_cursor: a line, or the time of the join line when there is none.
Oldest == IF Chat(rows) = <<>> THEN since + 1 ELSE Head(Chat(rows))
AskOlder ==
    /\ joined /\ rows # <<>> /\ Spend("asks")
    /\ capTail' = TRUE
    /\ request' = IF request = Idle THEN Asking("before", Oldest, 0) ELSE request
    /\ UNCHANGED <<open, rows, trimmed, ids, joined, anchor, disturbed, held, log, times, said,
                   since, cleared, owed>>

OlderPage ==
    /\ request.kind = "before"
    /\ LET page == Interval(Max({1, request.at - Page}), request.at - 1)
       IN Becomes(Spliced(Conv, 0, page, TRUE)) /\ Noted(page)
    /\ request' = Idle
    /\ UNCHANGED <<held, snap, world>>

\* The server refuses a request.  What was asked for on joining is not asked for again in this stay.
Refused ==
    /\ request # Idle /\ request' = Idle /\ Spend("refusals")
    /\ LET older == request.kind = "before"
       IN /\ capTail' = (capTail /\ ~older)
          /\ disturbed' = IF older THEN disturbed ELSE disturbed \cup {"refused"}
    /\ UNCHANGED <<open, rows, trimmed, ids, joined, anchor, held, log, times, said, since, cleared,
                   owed>>

\* The reader is back at the end: no more trimming from the end.
Ended ==
    /\ capTail /\ capTail' = FALSE
    /\ UNCHANGED <<open, rows, trimmed, ids, joined, anchor, disturbed, held, log, request, times,
                   world>>

(***************************************************************************)
(* A batch of bouncer playback: lines from before the join.                *)
(***************************************************************************)
Playback ==
    /\ Spend("playbacks")
    /\ \E a \in 1 .. said : \E b \in a .. (IF joined THEN since ELSE said) :
          IF joined
          THEN /\ Becomes(Disturb(SplicedKeeping(Conv, Interval(a, b)), "playback"))
               /\ Noted(Interval(a, b))
               /\ UNCHANGED held
          ELSE /\ held' = held \o Interval(a, b) /\ UNCHANGED <<conv, log, clock>>
    /\ UNCHANGED <<request, snap, said, since, cleared, owed>>

(***************************************************************************)
(* /clear empties the transcript and keeps its msgids.                     *)
(***************************************************************************)
\* Variant: the msgids are cleared too
ClearIds ==
    /\ open /\ rows # <<>> /\ Spend("clears")
    /\ trimmed' = trimmed + Len(rows) /\ rows' = <<>> /\ anchor' = Nowhere /\ ids' = {}
    /\ disturbed' = disturbed \cup {"clear"}
    /\ cleared' = cleared \cup ToSet(Chat(rows))
    /\ UNCHANGED <<open, joined, capTail, held, log, request, times, said, since, owed>>

Clear ==
    /\ open /\ rows # <<>> /\ Spend("clears")
    /\ trimmed' = trimmed + Len(rows) /\ rows' = <<>> /\ anchor' = Nowhere
    /\ disturbed' = disturbed \cup {"clear"}
    /\ cleared' = cleared \cup ToSet(Chat(rows))
    /\ UNCHANGED <<open, ids, joined, capTail, held, log, request, times, said, since, owed>>

(***************************************************************************)
(* The user leaves, closes the conversation, or the connection is lost and *)
(* the next welcome starts over: it resumes after the stored time, and a   *)
(* line that is not fetched by then and is older is no longer owed.        *)
(***************************************************************************)
Away(c) == IF request = Idle THEN c ELSE Disturb(c, "left")
Left == Away([Conv EXCEPT !.joined = FALSE, !.anchor = Nowhere, !.capTail = FALSE])
Leave ==
    /\ joined
    /\ Becomes(Left) /\ request' = Idle
    /\ UNCHANGED <<held, times, world>>

Welcome ==
    /\ open \/ held # <<>>
    /\ Becomes(Left) /\ request' = Idle /\ held' = <<>>
    /\ snap' = clock
    /\ owed' = {l \in owed : l > clock \/ Contains(log, l)}
    /\ UNCHANGED <<clock, said, since, cleared, used, bounds>>

Close ==
    /\ open /\ Spend("closes")
    /\ Becomes(Disturb(Away(Fresh), "close")) /\ request' = Idle /\ cleared' = {}
    /\ UNCHANGED <<held, times, said, since, owed>>

Next == Say \/ Join \/ AfterPage \/ TailPage \/ LatestPage \/ AskOlder \/ OlderPage \/ Refused \/ Ended \/ Playback
          \/ Clear \/ Leave \/ Welcome \/ Close
Spec == Init /\ [][Next]_vars

-----------------------------------------------------------------------------
(* The types of the variables, and the cap: a transcript never holds more  *)
(* than MaxMessages rows whatever is spliced into it (cap_with_policy).    *)
TypeOK ==
    /\ {open, joined, capTail} \subseteq BOOLEAN
    /\ rows \in Seq(Rows) /\ Len(rows) <= MaxMessages
    /\ log \in Seq(Rows) /\ held \in Seq(Lines)
    /\ ids \subseteq Lines /\ cleared \subseteq Lines
    /\ trimmed \in Nat /\ anchor \in Nat \cup {Nowhere}
    /\ request \in [kind : {"none", "after", "tail", "latest", "before"}, at : 0 .. bounds.lines + 1,
                    pages : 0 .. bounds.pages]
    /\ {clock, snap} \subseteq 0 .. bounds.lines /\ owed \subseteq Lines
    /\ disturbed \subseteq {"trim", "tail", "playback", "clear", "left", "close", "refused"}
    /\ said \in 0 .. bounds.lines /\ since \in 0 .. said
    /\ used \in [Spent -> Nat] /\ bounds \in Instances

(* A line the user cleared away is not put back by history or playback       *)
(* (clear_messages keeps the msgids); only opening the conversation again    *)
(* reads it back.                                                            *)
ClearedStaysCleared == cleared \cap ToSet(rows) = {}

(* However live lines, pages, playback, the cap and the stored copy overlap, *)
(* no line is shown twice (the msgid test of splice_history and append_chat  *)
(* against ids that the cap forgets), and the rows are in the order in which *)
(* the lines were said: chained pages, older pages and live lines land in    *)
(* their places over several stays.  The exceptions of the order: playback   *)
(* lands where the anchor is whatever the pages have brought, a stay that    *)
(* ends before its pages are answered leaves a gap that is filled below      *)
(* newer lines, trimming makes old lines new again, and a conversation that  *)
(* is opened again has the order of the log.                                 *)
IsAscending(s) == \A i, j \in DOMAIN s : i < j => s[i] <= s[j]
RowsInOrder ==
    /\ IsInjective(Chat(rows))
    /\ disturbed = {} => IsAscending(Chat(rows))

(* "The desktop client catches up on lines that arrived while it was away"   *)
(* (CHANGELOG.md): once the user is back in the channel and nothing more is  *)
(* asked for, every line said while away has been received, over several     *)
(* pages, stays, connections and requests cut short.  The pages are lost     *)
(* with the anchor (/clear, trimming) and when they are refused.  No longer  *)
(* owed are the lines between the last of the chained pages and the tail,    *)
(* and at a welcome those that the stored time has passed while they were    *)
(* being fetched.                                                            *)
CaughtUp ==
    joined /\ request = Idle /\ disturbed \cap {"trim", "tail", "clear", "refused"} = {}
        => owed \subseteq ToSet(log)

(* "Returns up to `max_lines` of the most recent lines, oldest first"        *)
(* (irc/reducer/log.rs).  It does not hold: a page that lands before a live  *)
(* line is appended to the log after it.                                     *)
LogIsInOrder == disturbed = {} => IsAscending(Chat(log))
=============================================================================
