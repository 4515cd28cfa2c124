------------------------------ MODULE History ------------------------------
(***************************************************************************)
(* CHATHISTORY of one channel (client/src/session/history.rs, batch.rs and *)
(* the membership half of dispatch.rs): the requests a session makes, the  *)
(* batches that answer them, and the membership changes that make an       *)
(* answer stale.                                                           *)
(*                                                                         *)
(* The server takes lines in order and answers one request at a time, with *)
(* a batch of at most one line (a full page) or a FAIL; a KICK or a CAP    *)
(* DEL may come between any two lines.                                     *)
(* Every request carries the membership it was made under, which the real  *)
(* protocol does not.                                                      *)
(***************************************************************************)
EXTENDS Naturals, Sequences, FiniteSets

CONSTANTS PageCap,       \* AFTER pages of one chain (HISTORY_AFTER_PAGE_CAP)
          MaxOpen,       \* MAX_OPEN_BATCHES
          MaxIgnored,    \* MAX_IGNORED_BATCHES
          MaxBatches,    \* bound: batches the server ever opens
          MaxRequests,   \* bound: requests the user or a JOIN makes
          MaxKicks       \* bound: kicks and withdrawals of the capability

ASSUME BoundsAssumption ==
    /\ PageCap \in Nat \ {0} /\ MaxOpen \in Nat \ {0} /\ MaxIgnored \in Nat /\ MaxBatches \in Nat
    /\ MaxRequests \in Nat /\ MaxKicks \in Nat

VARIABLES core,       \* the session's half: HistoryLedger and BatchLedger
          toServer,   \* lines on their way to the server
          toClient,   \* lines on their way to the session
          member,     \* whether the server has the user in the channel
          answer,     \* the batch the server is sending, and the child inside it
          batches,    \* how many batches the server opened
          requests, kicks,
          delivered,  \* the answer the last step handed to the controller
          crossed,    \* whether an answer came in under a later membership than its request
          leaked      \* whether a replayed line was handled as live traffic

vars == <<core, toServer, toClient, member, answer, batches, requests, kicks, delivered, crossed, leaked>>

Kinds == {"LATEST", "BEFORE", "AFTER", "TAIL"}
None == "none"
NoPending == [kind |-> None, generation |-> 0]
Refs == 1 .. MaxBatches
Request(kind, generation) == [kind |-> kind, generation |-> generation]
NoRequest == Request(None, 0)
NoAnswer == [ref |-> 0, child |-> 0, of |-> NoRequest, lines |-> 0]
NoDelivery == [of |-> NoRequest, request |-> None, generation |-> 0]
Line(what, ref, parent, of) == [what |-> what, ref |-> ref, parent |-> parent, of |-> of]

\* OpenBatch: a replay root, or the child of one.
Batch(root, generation, request, of) ==
    [root |-> root, generation |-> generation, request |-> request, of |-> of, lines |-> 0,
     moves |-> "no"]
Closed == Batch(0, 0, None, NoRequest)

TypeOK ==
    /\ core.generation \in Nat
    /\ core.asked \in BOOLEAN /\ core.exhausted \in BOOLEAN /\ core.before \in BOOLEAN
    /\ core.enabled \in BOOLEAN
    /\ core.pending \in [kind : Kinds \cup {None}, generation : Nat]
    /\ core.pages \in 0 .. PageCap
    /\ \A r \in Refs : /\ core.open[r].root \in 0 .. MaxBatches
                       /\ core.open[r].request \in Kinds \cup {None}
                       /\ core.open[r].lines \in 0 .. 1
    /\ core.ignored \subseteq Refs /\ Cardinality(core.ignored) <= MaxIgnored
    /\ member \in BOOLEAN /\ crossed \in BOOLEAN /\ leaked \in BOOLEAN
    /\ batches \in 0 .. MaxBatches /\ requests \in 0 .. MaxRequests /\ kicks \in 0 .. MaxKicks

-----------------------------------------------------------------------------
(* The ledgers: operators from a core to a core; .out collects what it sends *)

\* clear_history_pending.
ClearPending(c) == [c EXCEPT !.pending = NoPending, !.before = FALSE]

\* bump_history_generation: the answers still in flight are now stale.
Bump(c) == [ClearPending(c) EXCEPT !.generation = @ + 1]

\* Variant: only an older page counts as one in flight.
InflightOlder(c) == c.before /\ c.pending.generation = c.generation

Inflight(c) == c.pending.kind # None /\ c.pending.generation = c.generation

IsRoot(c, r) == c.open[r].root = r

\* answers_pending_history: a live request whose batch is not open yet.
AnswersPending(c) ==
    Inflight(c) /\ \A r \in Refs : IsRoot(c, r) => c.open[r].generation # c.generation

\* ignore_batch, in the order of the references: at the ceiling the rest is forgotten.
Ignore(c, refs) ==
    [c EXCEPT !.open = [r \in Refs |-> IF r \in refs THEN Closed ELSE @[r]],
              !.ignored = @ \cup {r \in refs : Cardinality(@ \cup {q \in refs : q <= r}) <= MaxIgnored}]

\* Variant: the batches are dropped and their references forgotten.
DropForgotten(c) == [c EXCEPT !.open = [r \in Refs |-> Closed]]

\* drop_history_batches: every root and its children.
DropBatches(c) == Ignore(c, {r \in Refs : c.open[r].root # 0})

\* forget_channel_history, after a PART or a KICK.
Forget(c) ==
    DropBatches([ClearPending(c) EXCEPT !.asked = FALSE, !.exhausted = FALSE, !.pages = 0])

\* abandon_history_requests, after CAP DEL.
Abandon(c) == [DropBatches(ClearPending(c)) EXCEPT !.pages = 0, !.enabled = FALSE]

Sends(c, kind) == [c EXCEPT !.out = Append(@, Request(kind, c.generation)),
                            !.pending = [kind |-> kind, generation |-> c.generation]]

\* request_history_latest; sent is what send_command answers.
Latest(c, sent) ==
    IF ~ c.enabled \/ c.asked \/ Inflight(c) \/ ~ sent THEN c
    ELSE [Sends(c, "LATEST") EXCEPT !.asked = TRUE]

\* clear_history_after_attempt: a refused send leaves nothing behind.
AfterRefused(c) == [c EXCEPT !.pending = NoPending, !.asked = FALSE, !.pages = 0]

\* request_history_after and its first page.
After(c, sent) ==
    IF ~ c.enabled \/ Inflight(c) THEN c
    ELSE IF sent THEN [Sends(c, "AFTER") EXCEPT !.asked = TRUE, !.pages = 1]
    ELSE AfterRefused(c)

\* request_channel_history: AFTER the snapshot of a resumed channel, else LATEST.
ChannelHistory(c, resumed, sentAfter, sentLatest) ==
    IF ~ c.enabled \/ c.asked THEN c
    ELSE IF resumed /\ After(c, sentAfter).asked THEN After(c, sentAfter)
    ELSE Latest(IF resumed THEN After(c, sentAfter) ELSE c, sentLatest)

\* request_older_history.
Older(c) == [Sends(c, "BEFORE") EXCEPT !.before = TRUE]

\* maybe_chain_history_after: a full page asks for the next, and at the cap one LATEST
\* closes the gap.  moves is "no" when the page has no bound or is marked as the last, and
\* "same" for a timestamp that did not move, which ends the chain below the cap.
Chain(c, frame, sent) ==
    IF frame.lines = 0 \/ frame.moves = "no" \/ (c.pages < PageCap /\ frame.moves = "same")
    THEN c
    ELSE IF ~ sent THEN AfterRefused(c)
    ELSE IF c.pages >= PageCap THEN Sends(c, "TAIL")
    ELSE [Sends(c, "AFTER") EXCEPT !.pages = @ + 1]

-----------------------------------------------------------------------------

Core == [generation |-> 0, asked |-> FALSE, pending |-> NoPending, before |-> FALSE,
         exhausted |-> FALSE, pages |-> 0, enabled |-> TRUE,
         open |-> [r \in Refs |-> Closed], ignored |-> {}, out |-> <<>>]

Init ==
    /\ core = Core
    /\ toServer = <<>> /\ toClient = <<>>
    /\ member = FALSE
    /\ answer = NoAnswer
    /\ batches = 0 /\ requests = 0 /\ kicks = 0
    /\ delivered = NoDelivery
    /\ crossed = FALSE /\ leaked = FALSE

\* A handler leaves the core c and writes what c sends, and then tail.
Becomes(c, tail) ==
    /\ core' = [c EXCEPT !.out = <<>>]
    /\ toServer' = toServer \o c.out \o tail

-----------------------------------------------------------------------------
(* The user.  The controller asks for LATEST and AFTER pages only of direct *)
(* conversations, which have no membership.                                *)

Asks(c, tail) ==
    /\ requests < MaxRequests
    /\ requests' = requests + 1
    /\ Becomes(c, tail)
    /\ delivered' = NoDelivery
    /\ UNCHANGED <<toClient, member, answer, batches, kicks, crossed, leaked>>

RequestOlder ==
    /\ core.enabled /\ core.asked /\ ~ core.exhausted /\ ~ Inflight(core)
    /\ Asks(Older(core), <<>>)

SendJoin == Asks(core, <<Request("JOIN", 0)>>)

SendPart == Asks(core, <<Request("PART", 0)>>)

-----------------------------------------------------------------------------
(* Lines from the server *)

Takes(what) == toClient # <<>> /\ Head(toClient).what = what /\ toClient' = Tail(toClient)
Handled == UNCHANGED <<member, answer, batches, requests, kicks, crossed>>

\* The line answers a request (a child batch does not).
Answers(line) ==
    /\ crossed' = (crossed \/ line.of.generation \notin {core.generation, 0})
    /\ UNCHANGED <<member, answer, batches, requests, kicks>>

\* Our own JOIN.
Join(resumed, sentAfter, sentLatest) ==
    /\ Takes("JOIN")
    /\ Becomes(ChannelHistory(Bump(core), resumed, sentAfter, sentLatest), <<>>)
    /\ delivered' = NoDelivery
    /\ UNCHANGED leaked /\ Handled

\* Our own PART, or a KICK of us.
Leave ==
    /\ Takes("LEAVE")
    /\ Becomes(Forget(Bump(core)), <<>>)
    /\ delivered' = NoDelivery
    /\ UNCHANGED leaked /\ Handled

CapDel ==
    /\ Takes("DEL")
    /\ Becomes(Abandon(core), <<>>)
    /\ delivered' = NoDelivery
    /\ UNCHANGED leaked /\ Handled

\* Variant: a FAIL is noted and the request kept.
FailedKept(c) == [c EXCEPT !.before = FALSE]

\* handle_chat_history_fail, for a FAIL that names the channel.
Failed(c) ==
    IF ~ AnswersPending(c) THEN c
    ELSE [ClearPending(c) EXCEPT
             !.exhausted = @ \/ c.pending.kind \notin {"AFTER", "TAIL"}]

Fail ==
    /\ Takes("FAIL")
    /\ Becomes(Failed(core), <<>>)
    /\ Answers(Head(toClient))
    /\ delivered' = NoDelivery
    /\ UNCHANGED leaked

\* handle_batch, opening a chathistory batch.
OpenRoot(c, r, of) ==
    LET crowded == ~ AnswersPending(c) /\ Cardinality({q \in Refs : c.open[q].root # 0}) >= MaxOpen
    IN IF ~ c.enabled THEN Ignore(c, {r})
       ELSE IF crowded THEN ClearPending(Ignore(c, {r}))
       ELSE [c EXCEPT !.open[r] =
                Batch(r, c.generation, IF AnswersPending(c) THEN c.pending.kind ELSE None, of)]

\* handle_batch, opening a batch inside another one.
OpenChild(c, r, parent) ==
    LET crowded == Cardinality({q \in Refs : c.open[q].root # 0}) >= MaxOpen
        replay == parent \in c.ignored \/ c.open[parent].root # 0
    IN IF parent \in c.ignored \/ (crowded /\ replay) THEN Ignore(c, {r})
       ELSE IF crowded THEN c
       ELSE [c EXCEPT !.open[r] = Batch(c.open[parent].root, 0, None, NoRequest)]

BatchOpens ==
    /\ Takes("OPEN")
    /\ LET line == Head(toClient)
       IN /\ Becomes(IF line.parent = 0 THEN OpenRoot(core, line.ref, line.of)
                     ELSE OpenChild(core, line.ref, line.parent), <<>>)
          /\ Answers(line)
    /\ delivered' = NoDelivery
    /\ UNCHANGED leaked

\* capture_in_batch: a line of a replay goes to its root, and one of an ignored batch nowhere.
Replayed(moves) ==
    /\ Takes("LINE")
    /\ LET r == Head(toClient).ref
           root == core.open[r].root
       IN IF r \in core.ignored THEN Becomes(core, <<>>) /\ UNCHANGED leaked
          ELSE IF root # 0 /\ core.open[root].root = root
          THEN Becomes([core EXCEPT !.open[root].lines = 1, !.open[root].moves = moves], <<>>)
               /\ UNCHANGED leaked
          ELSE Becomes(core, <<>>) /\ leaked' = TRUE
    /\ delivered' = NoDelivery
    /\ Handled

\* close_batch: c is the core with the root and its children gone.
Settle(c, frame, sent) ==
    IF frame.generation # c.generation THEN c
    ELSE LET cleared == IF frame.request = None THEN c
                        ELSE [c EXCEPT !.pending = NoPending,
                                       !.exhausted = @ \/ (frame.lines = 0 /\ frame.request \notin {"AFTER", "TAIL"})]
             paged == [cleared EXCEPT !.before = FALSE]
         IN IF frame.request = "AFTER" THEN Chain(paged, frame, sent) ELSE paged

BatchCloses(sent) ==
    /\ Takes("CLOSE")
    /\ LET r == Head(toClient).ref
           frame == core.open[r]
           children == {q \in Refs \ {r} : core.open[q].root = r}
           c == Ignore([core EXCEPT !.open[r] = Closed], children)
       IN IF r \in core.ignored
          THEN Becomes([core EXCEPT !.ignored = @ \ {r}], <<>>) /\ delivered' = NoDelivery
          ELSE IF frame.root # r THEN Becomes(c, <<>>) /\ delivered' = NoDelivery
          ELSE /\ Becomes(Settle(c, frame, sent), <<>>)
               /\ delivered' = IF frame.generation # c.generation THEN NoDelivery
                               ELSE [of |-> frame.of, request |-> frame.request,
                                     generation |-> c.generation]
    /\ UNCHANGED leaked /\ Handled

-----------------------------------------------------------------------------
(* The server *)

Replies(lines) == toClient' = toClient \o lines
Quiet == UNCHANGED <<core, requests, crossed, leaked>> /\ delivered' = NoDelivery
Gets(kinds) == toServer # <<>> /\ Head(toServer).kind \in kinds /\ toServer' = Tail(toServer)

ServeJoin ==
    /\ answer = NoAnswer /\ Gets({"JOIN"})
    /\ member' = TRUE
    /\ Replies(IF member THEN <<>> ELSE <<Line("JOIN", 0, 0, NoRequest)>>)
    /\ Quiet /\ UNCHANGED <<answer, batches, kicks>>

ServePart ==
    /\ answer = NoAnswer /\ Gets({"PART"})
    /\ member' = FALSE
    /\ Replies(IF member THEN <<Line("LEAVE", 0, 0, NoRequest)>> ELSE <<>>)
    /\ Quiet /\ UNCHANGED <<answer, batches, kicks>>

ServeFail ==
    /\ answer = NoAnswer /\ Gets(Kinds)
    /\ Replies(<<Line("FAIL", 0, 0, Head(toServer))>>)
    /\ Quiet /\ UNCHANGED <<member, answer, batches, kicks>>

ServeBatch ==
    /\ answer = NoAnswer /\ batches < MaxBatches /\ Gets(Kinds)
    /\ batches' = batches + 1
    /\ answer' = [NoAnswer EXCEPT !.ref = batches + 1, !.of = Head(toServer)]
    /\ Replies(<<Line("OPEN", batches + 1, 0, Head(toServer))>>)
    /\ Quiet /\ UNCHANGED <<member, kicks>>

Answering == answer # NoAnswer /\ Quiet /\ UNCHANGED <<toServer, member, kicks>>

ServeChild ==
    /\ Answering
    /\ answer.child = 0 /\ batches < MaxBatches
    /\ batches' = batches + 1
    /\ answer' = [answer EXCEPT !.child = batches + 1]
    /\ Replies(<<Line("OPEN", batches + 1, answer.ref, NoRequest)>>)

ServeLine(ref) ==
    /\ Answering
    /\ answer.lines = 0 /\ ref # 0
    /\ answer' = [answer EXCEPT !.lines = 1]
    /\ Replies(<<Line("LINE", ref, 0, NoRequest)>>)
    /\ UNCHANGED batches

ServeCloseChild ==
    /\ Answering
    /\ answer.child # 0
    /\ answer' = [answer EXCEPT !.child = 0]
    /\ Replies(<<Line("CLOSE", answer.child, 0, NoRequest)>>)
    /\ UNCHANGED batches

ServeClose ==
    /\ Answering
    /\ answer.child = 0
    /\ answer' = NoAnswer
    /\ Replies(<<Line("CLOSE", answer.ref, 0, NoRequest)>>)
    /\ UNCHANGED batches

Strikes(lines) ==
    /\ kicks < MaxKicks
    /\ kicks' = kicks + 1
    /\ Replies(lines)
    /\ Quiet /\ UNCHANGED <<toServer, answer, batches>>

ServeKick == member /\ member' = FALSE /\ Strikes(<<Line("LEAVE", 0, 0, NoRequest)>>)
ServeDel == core.enabled /\ Strikes(<<Line("DEL", 0, 0, NoRequest)>>) /\ UNCHANGED member

-----------------------------------------------------------------------------

User == RequestOlder \/ SendJoin \/ SendPart

Receive ==
    \/ \E resumed, sentAfter, sentLatest \in BOOLEAN : Join(resumed, sentAfter, sentLatest)
    \/ Leave \/ CapDel \/ Fail \/ BatchOpens
    \/ \E moves \in {"no", "same", "yes"} : Replayed(moves)
    \/ \E sent \in BOOLEAN : BatchCloses(sent)

Serve == ServeJoin \/ ServePart \/ ServeFail \/ ServeBatch \/ ServeClose \/ ServeCloseChild

Strike == ServeKick \/ ServeDel

Next == User \/ Receive \/ Serve \/ Strike \/ ServeChild
        \/ \E ref \in {answer.ref, answer.child} : ServeLine(ref)

\* The server goes on taking lines and finishes its batches, and the session goes on reading.
Fairness == WF_vars(Receive) /\ WF_vars(Serve)

Spec == Init /\ [][Next]_vars /\ Fairness

-----------------------------------------------------------------------------
(* Properties *)

\* OpenBatch::history_request is "the CHATHISTORY request this batch answers": an answer
\* that is delivered answers the request it is taken for, of the same kind and the same
\* membership.  The exception is an answer that comes in after the user left and joined
\* again: nothing in it tells the session that its request was an earlier one.
AnswerIsMatched ==
    delivered.request # None /\ ~ crossed =>
        delivered.of = Request(delivered.request, delivered.generation)

\* Lines of a replay never surface as live traffic, although the KICK, PART or CAP DEL in the
\* middle of it dropped their batch.
NothingLeaks == ~ leaked

\* Every request is settled in the end: chains of pages, refusals and kicks included.
PendingResolves == core.pending.kind # None ~> core.pending.kind = None

=============================================================================
