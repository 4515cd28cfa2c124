---------------------------- MODULE ChannelList ----------------------------
(***************************************************************************)
(* /list (client/src/controller/channellist.rs) on one network: the        *)
(* request with its rows and its pending mask, the overlay that shows it,  *)
(* and a server that answers each LIST with rows and an end, with a        *)
(* refusal, or not at all.                                                 *)
(*                                                                         *)
(* Nothing in a 322, 323 or 263 says which LIST it answers.  A LIST is     *)
(* numbered here, and a row stands for the number it answers, so that what *)
(* the code cannot tell apart can be told apart.  The idle timer runs      *)
(* whenever a load does, and may fire between any two lines; a 321 only    *)
(* starts it over.                                                         *)
(***************************************************************************)
EXTENDS Naturals, Sequences, FiniteSets, Functions

CONSTANTS Masks,
          MaxLists,    \* bound: LISTs ever sent
          MaxTrouble   \* bound: refused writes, lost connections, removals, dismissals

VARIABLES list,      \* the request: ChannelListState
          view,      \* the overlay: ChannelListView
          online,    \* the session is Registered
          asked,     \* LISTs on their way to the server
          lines,     \* lines on their way back
          lists,     \* how many LISTs were sent
          trouble,
          late,      \* history: another LIST was unanswered when the load began
          mixed      \* history: more were than the one whose end is drained

vars == <<list, view, online, asked, lines, lists, trouble, late, mixed>>

NoMask == "none"
\* known: the network has an entry; number: the LIST it sent; ended: the LIST whose end
\* completed it.
NoList == [known |-> FALSE, mask |-> NoMask, rows |-> {}, complete |-> FALSE, loading |-> FALSE,
           pending |-> NoMask, drain |-> FALSE, number |-> 0, ended |-> 0]
NoView == [open |-> FALSE, mask |-> NoMask, rows |-> {}, loading |-> FALSE, complete |-> FALSE]

Numbers == 1 .. MaxLists
Line(what, number) == [what |-> what, number |-> number]
Lines == [what : {"row", "end", "refusal"}, number : Numbers]
ListStates == [known : BOOLEAN, mask : Masks \cup {NoMask}, rows : SUBSET Numbers,
               complete : BOOLEAN, loading : BOOLEAN, pending : Masks \cup {NoMask},
               drain : BOOLEAN, number : 0 .. MaxLists, ended : 0 .. MaxLists]
Views == [open : BOOLEAN, mask : Masks \cup {NoMask}, rows : SUBSET Numbers,
          loading : BOOLEAN, complete : BOOLEAN]

TypeOK ==
    /\ list \in ListStates /\ view \in Views
    /\ online \in BOOLEAN /\ late \in BOOLEAN /\ mixed \in BOOLEAN
    /\ asked \in Seq(Numbers) /\ lines \in Seq(Lines)
    /\ lists \in 0 .. MaxLists /\ trouble \in 0 .. MaxTrouble

Init ==
    /\ list = NoList /\ view = NoView
    /\ online = TRUE /\ asked = <<>> /\ lines = <<>>
    /\ lists = 0 /\ trouble = 0
    /\ late = FALSE /\ mixed = FALSE

-----------------------------------------------------------------------------
(* The request and the overlay *)

\* show, with what the request has.
Shows(v, l) ==
    [v EXCEPT !.open = TRUE, !.mask = l.mask, !.rows = l.rows,
              !.loading = l.loading, !.complete = l.complete]

\* request while a load runs: the mask waits, unless it is the one that is loading.
Waits(l, mask) == [l EXCEPT !.pending = IF mask = l.mask THEN NoMask ELSE mask]

\* Variant: a fresh load forgets that a stale end is still to come.
StartsClean(l, mask) ==
    [NoList EXCEPT !.known = TRUE, !.mask = mask, !.loading = TRUE, !.number = lists + 1]

\* request: a fresh load.  A stale end is still to be drained.
Starts(l, mask) ==
    [NoList EXCEPT !.known = TRUE, !.mask = mask, !.loading = TRUE, !.drain = l.drain,
                   !.number = lists + 1]

Spends == trouble < MaxTrouble /\ trouble' = trouble + 1

\* The LISTs that may still be answered.
Unanswered == Range(asked) \cup {line.number : line \in Range(lines)}

\* begin_channel_list_load of a request whose write goes out, and of one that is refused,
\* which unwinds the request and the overlay.
Begins(l, mask, unanswered) ==
    /\ lists < MaxLists
    /\ list' = Starts(l, mask) /\ view' = Shows(view, Starts(l, mask))
    /\ lists' = lists + 1 /\ asked' = Append(asked, lists + 1)
    /\ late' = (unanswered # {})
    /\ mixed' = (Cardinality(unanswered) > IF l.drain THEN 1 ELSE 0)
    /\ UNCHANGED trouble

Unwinds == list' = NoList /\ view' = NoView /\ Spends /\ UNCHANGED <<lists, asked, late, mixed>>

-----------------------------------------------------------------------------
(* The user *)

\* The answer is shown from the cache, unless the overlay already shows it.
Cached(mask) == list.complete /\ mask = list.mask /\ ~ view.open

\* start_channel_list.
List(mask) ==
    /\ online
    /\ \/ /\ list.loading
          /\ list' = Waits(list, mask) /\ view' = Shows(view, Waits(list, mask))
          /\ UNCHANGED <<lists, asked, trouble, late, mixed>>
       \/ /\ ~ list.loading /\ Cached(mask)
          /\ view' = Shows(view, list)
          /\ UNCHANGED <<list, lists, asked, trouble, late, mixed>>
       \/ ~ list.loading /\ ~ Cached(mask) /\ (Begins(list, mask, Unanswered) \/ Unwinds)
    /\ UNCHANGED <<online, lines>>

Dismiss ==
    /\ view.open /\ Spends
    /\ view' = [view EXCEPT !.open = FALSE]
    /\ UNCHANGED <<list, online, asked, lines, lists, late, mixed>>

\* forget_channel_list, when the network is removed.
Remove ==
    /\ list.known /\ Spends
    /\ list' = NoList /\ view' = NoView
    /\ online' = FALSE /\ asked' = <<>> /\ lines' = <<>>
    /\ UNCHANGED <<lists, late, mixed>>

-----------------------------------------------------------------------------
(* What comes in *)

Receives(what) == lines # <<>> /\ Head(lines).what = what /\ lines' = Tail(lines)

\* 322: rows outside a load are ignored.
Row ==
    /\ Receives("row")
    /\ list' = IF list.loading THEN [list EXCEPT !.rows = @ \cup {Head(lines).number}] ELSE list
    /\ view' = IF view.open /\ view.loading
               THEN [view EXCEPT !.rows = @ \cup {Head(lines).number}] ELSE view
    /\ UNCHANGED <<online, asked, lists, trouble, late, mixed>>

Completed(l, number) ==
    [l EXCEPT !.loading = FALSE, !.complete = TRUE, !.pending = NoMask, !.ended = number]

\* finish: the mask to load next.
MaskToLoad(l) == IF l.pending # NoMask /\ l.pending # l.mask THEN l.pending ELSE NoMask

\* 323: a stale end is drained; the end of the load completes it and starts what is pending.
End ==
    /\ Receives("end")
    /\ IF ~ list.loading \/ list.drain
       THEN list' = [list EXCEPT !.drain = FALSE] /\ UNCHANGED <<view, lists, asked, trouble, late, mixed>>
       ELSE LET l == Completed(list, Head(lines).number)
            IN IF MaskToLoad(list) # NoMask /\ online
               THEN Begins(l, MaskToLoad(list), Unanswered \ {Head(lines).number}) \/ Unwinds
               ELSE /\ list' = l
                    /\ view' = [Shows(view, l) EXCEPT !.open = view.open]
                    /\ UNCHANGED <<lists, asked, trouble, late, mixed>>
    /\ UNCHANGED online

FailedList(l, timedOut) ==
    [l EXCEPT !.loading = FALSE, !.complete = FALSE, !.pending = NoMask,
              !.drain = timedOut \/ @]
FailedView(v) == [v EXCEPT !.loading = FALSE, !.complete = FALSE]

\* 263, 416 or an error that names LIST.
Refusal ==
    /\ Receives("refusal")
    /\ IF list.loading THEN list' = FailedList(list, FALSE) /\ view' = FailedView(view)
                       ELSE UNCHANGED <<list, view>>
    /\ UNCHANGED <<online, asked, lists, trouble, late, mixed>>

\* run_channel_list_expiry.
Expire ==
    /\ list.loading
    /\ list' = FailedList(list, TRUE) /\ view' = FailedView(view)
    /\ UNCHANGED <<online, asked, lines, lists, trouble, late, mixed>>

-----------------------------------------------------------------------------
(* The server and the connection *)

Answer ==
    /\ online /\ asked # <<>>
    /\ asked' = Tail(asked)
    /\ LET n == Head(asked)
       IN \E reply \in {<<Line("row", n), Line("end", n)>>, <<Line("end", n)>>,
                        <<Line("refusal", n)>>, <<>>} : lines' = lines \o reply
    /\ UNCHANGED <<list, view, online, lists, trouble, late, mixed>>

\* The connection is lost, with what is on its way.  Neither this nor the next welcome
\* touches the request.
Disconnect ==
    /\ online /\ Spends
    /\ online' = FALSE /\ asked' = <<>> /\ lines' = <<>>
    /\ UNCHANGED <<list, view, lists, late, mixed>>

Register ==
    /\ ~ online /\ online' = TRUE
    /\ UNCHANGED <<list, view, asked, lines, lists, trouble, late, mixed>>

-----------------------------------------------------------------------------

Next ==
    \/ \E mask \in Masks : List(mask)
    \/ Dismiss \/ Remove \/ Row \/ End \/ Refusal \/ Expire \/ Answer \/ Disconnect \/ Register

Spec == Init /\ [][Next]_vars

-----------------------------------------------------------------------------
(* Properties *)

\* A finished list is the answer to its own LIST: masks that wait, refusals, timeouts and one
\* stale end later, the end that completed it and its rows belong to the LIST it names, and
\* an open overlay shows exactly that.  Rows of a LIST that timed out are taken for the next
\* one's, and more stale ends than one cannot be told from the load's own, nor can one whose
\* timeout a refused write has made the request forget.
ListIsOwn ==
    /\ list.complete /\ ~ mixed => list.ended = list.number
    /\ list.complete /\ ~ late => list.rows \subseteq {list.number}
    /\ view.open /\ list.known =>
         /\ view.mask = list.mask /\ view.rows = list.rows
         /\ view.loading = list.loading /\ view.complete = list.complete

=============================================================================
