-------------------------------- MODULE Ipc --------------------------------
(***************************************************************************)
(* The single-instance guard and the control socket on Unix                *)
(* (client/src/desktop: singleinstance.rs, endpoint.rs, ipchandler.rs and  *)
(* send_request of cli.rs).  A launch that gets the lock file removes what *)
(* an earlier window left at the socket's path, binds it and serves it;    *)
(* one that does not sends the raise ping and ends.  `omairc send` writes  *)
(* its request and waits.  In the window an accept thread starts a thread  *)
(* per client, which hands the request to the UI thread and waits too.     *)
(*                                                                         *)
(* Both waits are bounded, and the request stays queued when its waiter    *)
(* gives up.  A second is one Tick; the window may be late at everything,  *)
(* the command line program is never a full second late at its own         *)
(* deadline.  A process may be killed between any two steps.               *)
(***************************************************************************)
EXTENDS Naturals, Sequences, FiniteSets

CONSTANTS Launches,    \* starts of the window
          Sends,       \* runs of `omairc send`
          MaxClients,  \* MAX_CLIENTS (32)
          MaxTime      \* bound: the clock

VARIABLES launch,   \* per launch, how far acquire has come, and the pings it has tried
          lock,     \* who holds the lock file
          path,     \* whose socket the path names
          accepts,  \* the launches whose accept thread runs
          jobs,     \* per launch, the requests queued for its UI thread
          conn,     \* per request, its connection, seen from the window
          status,   \* per send, where the command line program is
          done,     \* the requests a UI thread has carried out
          now

vars == <<launch, lock, path, accepts, jobs, conn, status, done, now>>

IDLE_TIMEOUT == 1
REPLY_TIMEOUT == 4
RESPONSE_TIMEOUT == 3
CLAIM_ATTEMPTS == 3

Nobody == "nobody"
Requests == Launches \cup Sends    \* a launch asks to be raised, a send to send

Phases == {"new", "locked", "unlinked", "window", "closing", "notify", "secondary", "error",
           "gone"}
\* backlog: not accepted; reading: its thread waits for the line; waiting: for the UI thread;
\* replied: the UI thread's answer is in; shut: the connection is over.
Stages == {"none", "backlog", "reading", "waiting", "replied", "shut"}
Answers == {"none", "ok", "error"}
Statuses == {"new", "connected", "waiting", "ok", "failed", "uncertain"}

NoConn == [to |-> Nobody, at |-> "none", sent |-> FALSE, due |-> 0, answer |-> "none"]

TypeOK ==
    /\ launch \in [Launches -> [at : Phases, tries : 0 .. CLAIM_ATTEMPTS]]
    /\ {lock, path} \subseteq Launches \cup {Nobody}
    /\ accepts \subseteq Launches
    /\ jobs \in [Launches -> Seq(Requests)]
    /\ conn \in [Requests -> [to : Launches \cup {Nobody}, at : Stages, sent : BOOLEAN,
                              due : Nat, answer : Answers]]
    /\ status \in [Sends -> [at : Statuses, due : Nat]]
    /\ done \subseteq Requests
    /\ now \in 0 .. MaxTime

Init ==
    /\ launch = [p \in Launches |-> [at |-> "new", tries |-> 0]]
    /\ lock = Nobody /\ path = Nobody /\ accepts = {}
    /\ jobs = [p \in Launches |-> <<>>]
    /\ conn = [r \in Requests |-> NoConn]
    /\ status = [k \in Sends |-> [at |-> "new", due |-> 0]]
    /\ done = {} /\ now = 0

-----------------------------------------------------------------------------
(* acquire *)

Moves(p, from, to) ==
    launch[p].at = from /\ launch' = [launch EXCEPT ![p].at = to]

\* Variant: the lock of a window whose socket does not answer is taken over.
LockIsFreeOrSilent == lock = Nobody \/ lock \notin accepts

LockIsFree == lock = Nobody

TryLock(p) ==
    /\ IF LockIsFree THEN lock' = p /\ Moves(p, "new", "locked")
                     ELSE Moves(p, "new", "notify") /\ UNCHANGED lock
    /\ UNCHANGED <<path, accepts, jobs, conn, status, done, now>>

\* Listener::bind: whatever has the path is stale, since the caller holds the lock.
RemoveStale(p) ==
    /\ Moves(p, "locked", "unlinked")
    /\ path' = Nobody
    /\ UNCHANGED <<lock, accepts, jobs, conn, status, done, now>>

Bind(p) ==
    /\ path = Nobody
    /\ Moves(p, "unlinked", "window")
    /\ path' = p /\ accepts' = accepts \cup {p}
    /\ UNCHANGED <<lock, jobs, conn, status, done, now>>

\* The bind or the thread fails: the launch ends and the lock is released with its file.
BindFails(p) ==
    /\ Moves(p, "unlinked", "error")
    /\ lock' = Nobody
    /\ UNCHANGED <<path, accepts, jobs, conn, status, done, now>>

\* endpoint::connect finds a socket that listens.
Listening == path \in accepts
Connects(r, sent) == [NoConn EXCEPT !.to = path, !.at = "backlog", !.sent = sent]

\* notify_primary: the ping is written into the connection.  The answer is awaited for a
\* second and not looked at.
Notify(p) ==
    /\ Listening
    /\ Moves(p, "notify", "secondary")
    /\ conn' = [conn EXCEPT ![p] = Connects(p, TRUE)]
    /\ UNCHANGED <<lock, path, accepts, jobs, status, done, now>>

NotifyFails(p) ==
    /\ launch[p].at = "notify" /\ ~ Listening
    /\ launch' = [launch EXCEPT
         ![p] = [at |-> IF @.tries + 1 = CLAIM_ATTEMPTS THEN "error" ELSE "notify",
                 tries |-> @.tries + 1]]
    /\ UNCHANGED <<lock, path, accepts, jobs, conn, status, done, now>>

-----------------------------------------------------------------------------
(* The window: the accept thread, a thread per client, the UI thread *)

Served(p) == {r \in Requests : conn[r].to = p /\ conn[r].at \in {"reading", "waiting", "replied"}}
Shut(c) == [c EXCEPT !.at = "shut", !.due = 0]

Accept(r) ==
    LET p == conn[r].to
    IN /\ conn[r].at = "backlog" /\ p \in accepts
       /\ conn' = [conn EXCEPT ![r] =
            IF Cardinality(Served(p)) >= MaxClients THEN Shut(@)
            ELSE [@ EXCEPT !.at = "reading", !.due = now + IDLE_TIMEOUT]]
       /\ UNCHANGED <<launch, lock, path, accepts, jobs, status, done, now>>

\* accept has failed more than 50 times in a row: its thread ends and the socket is closed.
AcceptEnds(p) ==
    /\ p \in accepts
    /\ accepts' = accepts \ {p}
    /\ conn' = [r \in Requests |->
         IF conn[r].to = p /\ conn[r].at = "backlog" THEN Shut(conn[r]) ELSE conn[r]]
    /\ UNCHANGED <<launch, lock, path, jobs, status, done, now>>

\* Variant: the window gives up before the command line program does.
ReplyDueEarly == now + RESPONSE_TIMEOUT - 1

ReplyDue == now + REPLY_TIMEOUT

\* serve_client has read the line and queues the request.
Queue(r) ==
    /\ conn[r].at = "reading" /\ conn[r].sent
    /\ conn' = [conn EXCEPT ![r].at = "waiting", ![r].due = ReplyDue]
    /\ jobs' = [jobs EXCEPT ![conn[r].to] = Append(@, r)]
    /\ UNCHANGED <<launch, lock, path, accepts, status, done, now>>

\* read_request: the client stays silent.
IdleClient(r) ==
    /\ conn[r].at = "reading" /\ ~ conn[r].sent /\ now >= conn[r].due
    /\ conn' = [conn EXCEPT ![r] = Shut(@)]
    /\ UNCHANGED <<launch, lock, path, accepts, jobs, status, done, now>>

\* The answer reaches the thread that waits for it, if one still does.
Responds(c, answer) ==
    IF c.at = "waiting" THEN [c EXCEPT !.at = "replied", !.due = 0, !.answer = answer] ELSE c

\* ipchandler::serve: the UI thread takes the next request.  send_to_target sends or refuses;
\* a raise brings the window up.
Serve(p) ==
    LET r == Head(jobs[p])
    IN /\ launch[p].at = "window" /\ jobs[p] # <<>>
       /\ jobs' = [jobs EXCEPT ![p] = Tail(@)]
       /\ \/ done' = done \cup {r} /\ conn' = [conn EXCEPT ![r] = Responds(@, "ok")]
          \/ r \in Sends /\ UNCHANGED done /\ conn' = [conn EXCEPT ![r] = Responds(@, "error")]
       /\ UNCHANGED <<launch, lock, path, accepts, status, now>>

\* The window is gone and the process is not: the request is dropped, and the thread that
\* waits for it is told so at once and answers with an error.
Refuse(p) ==
    LET r == Head(jobs[p])
    IN /\ launch[p].at = "closing" /\ jobs[p] # <<>>
       /\ jobs' = [jobs EXCEPT ![p] = Tail(@)]
       /\ conn' = [conn EXCEPT ![r] = Responds(@, "error")]
       /\ UNCHANGED <<launch, lock, path, accepts, status, done, now>>

\* recv_timeout: the request stays queued.
ReplyTimesOut(r) ==
    /\ conn[r].at = "waiting" /\ now >= conn[r].due
    /\ conn' = [conn EXCEPT ![r] = Responds(@, "error")]
    /\ UNCHANGED <<launch, lock, path, accepts, jobs, status, done, now>>

\* The answer is written; one that cannot be is lost with the connection.
WriteReply(r) ==
    /\ conn[r].at = "replied"
    /\ conn' = [conn EXCEPT ![r] = Shut(@)]
    /\ UNCHANGED <<launch, lock, path, accepts, jobs, status, done, now>>

Close(p) ==
    /\ Moves(p, "window", "closing")
    /\ UNCHANGED <<lock, path, accepts, jobs, conn, status, done, now>>

\* The process ends, killed or on its own: its lock and its connections go, the path stays.
Ends(p) ==
    /\ launch[p].at \in {"locked", "unlinked", "window", "closing"}
    /\ launch' = [launch EXCEPT ![p].at = "gone"]
    /\ lock' = IF lock = p THEN Nobody ELSE lock
    /\ accepts' = accepts \ {p}
    /\ jobs' = [jobs EXCEPT ![p] = <<>>]
    /\ conn' = [r \in Requests |->
         IF conn[r].to = p /\ conn[r].at # "shut"
         THEN [Shut(conn[r]) EXCEPT !.answer = "none"] ELSE conn[r]]
    /\ UNCHANGED <<path, status, done, now>>

-----------------------------------------------------------------------------
(* omairc send: send_request of cli.rs *)

Exits(k, from, how) ==
    status[k].at = from /\ status' = [status EXCEPT ![k] = [at |-> how, due |-> 0]]

Connect(k) ==
    /\ IF Listening
       THEN Exits(k, "new", "connected") /\ conn' = [conn EXCEPT ![k] = Connects(k, FALSE)]
       ELSE Exits(k, "new", "failed") /\ UNCHANGED conn
    /\ UNCHANGED <<launch, lock, path, accepts, jobs, done, now>>

\* A connection the window has closed refuses the line.
WriteRequest(k) ==
    /\ status[k].at = "connected"
    /\ IF conn[k].at = "shut"
       THEN Exits(k, "connected", "failed") /\ UNCHANGED conn
       ELSE /\ status' = [status EXCEPT ![k] = [at |-> "waiting", due |-> now + RESPONSE_TIMEOUT]]
            /\ conn' = [conn EXCEPT ![k].sent = TRUE]
    /\ UNCHANGED <<launch, lock, path, accepts, jobs, done, now>>

ReadReply(k) ==
    /\ conn[k].at = "shut" /\ conn[k].answer # "none"
    /\ Exits(k, "waiting", IF conn[k].answer = "ok" THEN "ok" ELSE "failed")
    /\ UNCHANGED <<launch, lock, path, accepts, jobs, conn, done, now>>

\* No answer in time, or a connection that ended without one.
NoReply(k) ==
    /\ now >= status[k].due \/ (conn[k].at = "shut" /\ conn[k].answer = "none")
    /\ Exits(k, "waiting", "uncertain")
    /\ UNCHANGED <<launch, lock, path, accepts, jobs, conn, done, now>>

\* A second passes; no program has been waiting beyond its deadline.
Tick ==
    /\ now < MaxTime
    /\ \A k \in Sends : status[k].at = "waiting" => now < status[k].due
    /\ now' = now + 1
    /\ UNCHANGED <<launch, lock, path, accepts, jobs, conn, status, done>>

-----------------------------------------------------------------------------

Next ==
    \/ \E p \in Launches :
         \/ TryLock(p) \/ RemoveStale(p) \/ Bind(p) \/ BindFails(p) \/ Notify(p) \/ NotifyFails(p)
         \/ AcceptEnds(p) \/ Serve(p) \/ Refuse(p) \/ Close(p) \/ Ends(p)
    \/ \E r \in Requests :
         Accept(r) \/ Queue(r) \/ IdleClient(r) \/ ReplyTimesOut(r) \/ WriteReply(r)
    \/ \E k \in Sends : Connect(k) \/ WriteRequest(k) \/ ReadReply(k) \/ NoReply(k)
    \/ Tick

Spec == Init /\ [][Next]_vars

-----------------------------------------------------------------------------
(* Properties *)

\* There is one window: whatever launches race, are killed and start again, at most one
\* process serves the endpoint, and the path leads to it as long as it runs.
OneWindow ==
    \A p \in Launches : launch[p].at \in {"window", "closing"} =>
        /\ path = p
        /\ \A q \in Launches \ {p} : launch[q].at \notin {"locked", "unlinked", "window", "closing"}

\* What `omairc send` reports can be relied on: after exit 0 the message was sent, after
\* exit 1 it was not and never will be, so it may be repeated, however slow the window is, whenever
\* it closes and whoever gives up first.  Exit 2 says "the message may already have been
\* delivered".
ExitIsHonest ==
    \A k \in Sends : /\ status[k].at = "ok" => k \in done
                     /\ status[k].at = "failed" => k \notin done

\* Startup::Secondary, "A running window was raised": a launch that gave way has raised the
\* window, or will.  It does not hold: a window that is closing takes the ping and drops it,
\* and one that has its fill of clients closes the connection.
SecondaryIsRaised ==
    \A p \in Launches : launch[p].at = "secondary" => p \in done \/ conn[p].at # "shut"

=============================================================================
