---------------------------- MODULE NetTransport ----------------------------
(***************************************************************************)
(* The network layer under one session (client/src/net): the transport on  *)
(* the UI thread, the hub that serves its commands on the net thread, and  *)
(* the worker of each connection with its reader and its writer.           *)
(*                                                                         *)
(* The two threads share nothing but two queues: commands to the hub and   *)
(* events back.  Each connect and each shutdown moves the transport to a   *)
(* new epoch; commands, events and workers carry the epoch they belong to, *)
(* all but Close, which relies on the order of the queue.                  *)
(*                                                                         *)
(* The net thread runs its tasks one at a time and switches at awaits, so  *)
(* an action here is what a task does between two of them.  A frame is its *)
(* place among all the frames the session handed over.                     *)
(***************************************************************************)
EXTENDS Naturals, Sequences, Functions

CONSTANTS MaxEpoch,    \* bound: connects and shutdowns
          MaxWrites,   \* bound: frames written
          MaxWork      \* bound: all of these together

ASSUME BoundsAssumption == MaxEpoch \in Nat /\ MaxWrites \in Nat /\ MaxWork \in Nat

VARIABLES ui,        \* the NetTransport: state, epoch, tls
          written,   \* the epoch of each frame the session handed over
          commands,  \* UI thread (and workers) to the hub
          events,    \* workers to the UI thread
          hub,       \* the net thread's loop
          task,      \* the epoch of the task the hub holds, 0 for none
          workers,   \* the worker of each epoch
          wire       \* frames that reached the socket, per epoch

vars == <<ui, written, commands, events, hub, task, workers, wire>>

Epochs == 0 .. MaxEpoch
Frames == 1 .. MaxWrites

Command(op, epoch) == [op |-> op, epoch |-> epoch]

WriteCommand(epoch, frame) == [op |-> "Write", epoch |-> epoch, frame |-> frame]
ConnectCommand(epoch, tls) == [op |-> "Connect", epoch |-> epoch, tls |-> tls]

Commands == [op : {"Close", "Finished", "Stop"}, epoch : Epochs]
            \cup [op : {"Write"}, epoch : Epochs, frame : Frames]
            \cup [op : {"Connect"}, epoch : Epochs, tls : BOOLEAN]

IoEvent == {"Connected", "Encrypted", "Bytes", "Closed", "Failed"}
Deliveries == [epoch : Epochs, event : IoEvent]

\* A worker: where its task is, whether it handshakes, the frames queued to it, how far
\* its close has come (asked for, then draining: the queue's sender is gone), and its
\* two halves.
Workers == [phase : {"none", "dialling", "handshaking", "open", "aborting", "ended"},
            tls : BOOLEAN, queue : Seq(Frames), closing : {"no", "asked", "draining"},
            reading : BOOLEAN, writer : {"idle", "running", "failed", "goodbye"}]

NoWorker == [phase |-> "none", tls |-> FALSE, queue |-> <<>>, closing |-> "no",
             reading |-> FALSE, writer |-> "idle"]

TypeOK ==
    /\ ui \in [state : {"Idle", "Connecting", "Connected", "Encrypted", "Disconnected", "Failed"},
               epoch : Epochs, tls : BOOLEAN]
    /\ written \in Seq(Epochs) /\ Len(written) <= MaxWrites
    /\ commands \in Seq(Commands)
    /\ events \in Seq(Deliveries)
    /\ hub \in {"serving", "stopping", "stopped"}
    /\ task \in Epochs
    /\ workers \in [Epochs -> Workers]
    /\ wire \in [Epochs -> Seq(Frames)]

Init ==
    /\ ui = [state |-> "Idle", epoch |-> 0, tls |-> FALSE]
    /\ written = <<>>
    /\ commands = <<>>
    /\ events = <<>>
    /\ hub = "serving"
    /\ task = 0
    /\ workers = [e \in Epochs |-> NoWorker]
    /\ wire = [e \in Epochs |-> <<>>]

InFlight(state) == state \in {"Connecting", "Connected", "Encrypted"}
IsOpen(state) == state \in {"Connected", "Encrypted"}

Running(e) == workers[e].phase \in {"dialling", "handshaking", "open", "aborting"}

-----------------------------------------------------------------------------
(* The UI thread: NetTransport and the hub's handle *)

Request(command) == commands' = Append(commands, command)

\* The window still holds the hub: dropping it sends Stop and joins the thread.
HubHeld == \A k \in DOMAIN commands : commands[k].op # "Stop"
UiRuns == hub = "serving" /\ HubHeld

HasWork == ui.epoch + Len(written) < MaxWork

UiConnect(tls) ==
    /\ UiRuns /\ ~ InFlight(ui.state) /\ ui.epoch < MaxEpoch /\ HasWork
    /\ ui' = [state |-> "Connecting", epoch |-> ui.epoch + 1, tls |-> tls]
    /\ Request(ConnectCommand(ui.epoch + 1, tls))
    /\ UNCHANGED <<written, events, hub, task, workers, wire>>

UiWrite ==
    /\ UiRuns /\ Len(written) < MaxWrites /\ HasWork
    /\ written' = Append(written, ui.epoch)
    /\ Request(WriteCommand(ui.epoch, Len(written) + 1))
    /\ UNCHANGED <<ui, events, hub, task, workers, wire>>

UiShutdown ==
    /\ UiRuns /\ InFlight(ui.state) /\ ui.epoch < MaxEpoch /\ HasWork
    /\ ui' = [ui EXCEPT !.state = "Disconnected", !.epoch = @ + 1]
    /\ Request(Command("Close", 0))
    /\ UNCHANGED <<written, events, hub, task, workers, wire>>

\* From here on nobody reads the events.
UiDropHub ==
    /\ UiRuns
    /\ Request(Command("Stop", 0))
    /\ events' = <<>>
    /\ UNCHANGED <<ui, written, hub, task, workers, wire>>

\* Variant: a failure is reported after the connection has ended.
TransitionFailingTwice(state, tls, event) ==
    CASE event = "Connected" /\ state = "Connecting" -> "Connected"
      [] event = "Encrypted" /\ state = "Connected" /\ tls -> "Encrypted"
      [] event = "Closed" /\ IsOpen(state) -> "Disconnected"
      [] event = "Failed" -> "Failed"
      [] OTHER -> state

\* transition: the state an event leads to, the same state if it does not apply.
Transition(state, tls, event) ==
    CASE event = "Connected" /\ state = "Connecting" -> "Connected"
      [] event = "Encrypted" /\ state = "Connected" /\ tls -> "Encrypted"
      [] event = "Closed" /\ IsOpen(state) -> "Disconnected"
      [] event = "Failed" /\ InFlight(state) -> "Failed"
      [] OTHER -> state

\* Variant: an event of an earlier connection is applied too.
ApplyAnyEpoch(delivery) == Transition(ui.state, ui.tls, delivery.event)

\* apply: an event of an earlier epoch is dropped.
Apply(delivery) ==
    IF delivery.epoch = ui.epoch THEN Transition(ui.state, ui.tls, delivery.event) ELSE ui.state

Deliver ==
    /\ UiRuns /\ events # <<>>
    /\ ui' = [ui EXCEPT !.state = Apply(Head(events))]
    /\ events' = Tail(events)
    /\ UNCHANGED <<written, commands, hub, task, workers, wire>>

-----------------------------------------------------------------------------
(* The hub: one command at a time *)

Serving(op) == hub = "serving" /\ commands # <<>> /\ Head(commands).op = op
Served == commands' = Tail(commands)

\* A task that is over has dropped its queue and its halves; only whether it said
\* goodbye is remembered.
Ended(w) == [NoWorker EXCEPT !.phase = "ended", !.tls = w.tls,
                             !.writer = IF w.writer = "goodbye" THEN "goodbye" ELSE "idle"]

\* An abort reaches a task at its next await; the halves of an open one may run until
\* the task is dropped.
Abort(w) ==
    CASE w.phase \in {"dialling", "handshaking"} -> Ended(w)
      [] w.phase = "open" -> [w EXCEPT !.phase = "aborting"]
      [] OTHER -> w

\* Variant: a closed connection is forgotten and left to end on its own.
WindDownDetached(w) == w

\* wind_down: before the pipe is open there is nothing to drain.
WindDown(w) == IF w.phase = "open" THEN [w EXCEPT !.closing = "draining"] ELSE Abort(w)

\* Variant: the connection keeps its write queue when its worker is replaced.
WorkerWithOldQueue(tls) ==
    [NoWorker EXCEPT !.phase = "dialling", !.tls = tls,
                     !.queue = IF task = 0 THEN <<>> ELSE workers[task].queue]

NewWorker(tls) == [NoWorker EXCEPT !.phase = "dialling", !.tls = tls]

\* A connect replaces whatever task is still in the table.
HubConnect ==
    /\ Serving("Connect") /\ Served
    /\ LET e == Head(commands).epoch
           old == IF task = 0 THEN workers ELSE [workers EXCEPT ![task] = Abort(@)]
       IN /\ workers' = [old EXCEPT ![e] = NewWorker(Head(commands).tls)]
          /\ task' = e
    /\ UNCHANGED <<ui, written, events, hub, wire>>

\* A frame of another epoch has no task, and an ended one no longer takes any.
TakesFrame(epoch) == task = epoch /\ task # 0 /\ workers[task].phase # "ended"

HubWrite ==
    /\ Serving("Write") /\ Served
    /\ LET c == Head(commands)
       IN workers' = IF TakesFrame(c.epoch)
                     THEN [workers EXCEPT ![task].queue = Append(@, c.frame)]
                     ELSE workers
    /\ UNCHANGED <<ui, written, events, hub, task, wire>>

\* A close spawns wind_down, which runs in its turn: the worker may open first.
AsksToClose(w) == IF w.phase = "ended" THEN w ELSE [w EXCEPT !.closing = "asked"]

HubClose ==
    /\ Serving("Close") /\ Served
    /\ workers' = IF task = 0 THEN workers ELSE [workers EXCEPT ![task] = AsksToClose(@)]
    /\ task' = 0
    /\ UNCHANGED <<ui, written, events, hub, wire>>

\* Variant: a finish notice forgets the task the connection has now.
ForgetsAny(epoch) == TRUE

Forgets(epoch) == task = epoch

HubFinished ==
    /\ Serving("Finished") /\ Served
    /\ task' = IF Forgets(Head(commands).epoch) THEN 0 ELSE task
    /\ UNCHANGED <<ui, written, events, hub, workers, wire>>

\* Stop winds the task in the table down and waits for it.
HubStop ==
    /\ Serving("Stop") /\ Served
    /\ hub' = "stopping"
    /\ workers' = IF task = 0 THEN workers ELSE [workers EXCEPT ![task] = WindDown(@)]
    /\ UNCHANGED <<ui, written, events, task, wire>>

\* The runtime goes with its loop, and with it every task that is still running.
HubExits ==
    /\ hub = "stopping"
    /\ task # 0 => workers[task].phase # "open"
    /\ hub' = "stopped"
    /\ task' = 0
    /\ workers' = [e \in Epochs |-> IF Running(e) THEN Ended(workers[e]) ELSE workers[e]]
    /\ UNCHANGED <<ui, written, commands, events, wire>>

-----------------------------------------------------------------------------
(* A worker: run, pump and its two halves *)

\* An event nobody will read any more is left out.
Report(e, event) ==
    events' = IF UiRuns THEN Append(events, [epoch |-> e, event |-> event]) ELSE events

Finish(e) == commands' = Append(commands, Command("Finished", e))
Becomes(e, w) == workers' = [workers EXCEPT ![e] = w]
Opened(w) == [w EXCEPT !.phase = "open", !.reading = TRUE, !.writer = "running"]

AfterDial(w) == IF w.tls THEN [w EXCEPT !.phase = "handshaking"] ELSE Opened(w)

Dialled(e) ==
    /\ workers[e].phase = "dialling"
    /\ Report(e, "Connected")
    /\ Becomes(e, AfterDial(workers[e]))
    /\ UNCHANGED <<ui, written, commands, hub, task, wire>>

Handshaken(e) ==
    /\ workers[e].phase = "handshaking"
    /\ Report(e, "Encrypted")
    /\ Becomes(e, Opened(workers[e]))
    /\ UNCHANGED <<ui, written, commands, hub, task, wire>>

\* The dial or the handshake failed, or its deadline passed.
NeverOpened(e) ==
    /\ workers[e].phase \in {"dialling", "handshaking"}
    /\ Report(e, "Failed")
    /\ Becomes(e, Ended(workers[e]))
    /\ Finish(e)
    /\ UNCHANGED <<ui, written, hub, task, wire>>

\* Bound: one delivery of bytes of a connection waits at a time.
ReadBytes(e) ==
    /\ Running(e) /\ workers[e].reading
    /\ \A k \in DOMAIN events : events[k] # [epoch |-> e, event |-> "Bytes"]
    /\ Report(e, "Bytes")
    /\ UNCHANGED <<ui, written, commands, hub, task, workers, wire>>

ReadEnds(e, event) ==
    /\ Running(e) /\ workers[e].reading
    /\ Report(e, event)
    /\ Becomes(e, [workers[e] EXCEPT !.reading = FALSE])
    /\ UNCHANGED <<ui, written, commands, hub, task, wire>>

Writing(e) == Running(e) /\ workers[e].writer = "running"

WriteFrame(e) ==
    /\ Writing(e) /\ workers[e].queue # <<>>
    /\ wire' = [wire EXCEPT ![e] = Append(@, Head(workers[e].queue))]
    /\ Becomes(e, [workers[e] EXCEPT !.queue = Tail(@)])
    /\ UNCHANGED <<ui, written, commands, events, hub, task>>

WriteFails(e) ==
    /\ Writing(e) /\ workers[e].queue # <<>>
    /\ Report(e, "Failed")
    /\ Becomes(e, [workers[e] EXCEPT !.writer = "failed", !.reading = FALSE])
    /\ UNCHANGED <<ui, written, commands, hub, task, wire>>

\* Variant: a close does not wait for the queue.
SaysGoodbyeEarly(w) == w.closing = "draining"

\* The queue has ended: its sender is gone and every frame was written.
QueueEnded(w) == w.closing = "draining" /\ w.queue = <<>>

Goodbye(e) ==
    /\ Writing(e) /\ QueueEnded(workers[e])
    /\ Becomes(e, [workers[e] EXCEPT !.writer = "goodbye", !.reading = FALSE])
    /\ UNCHANGED <<ui, written, commands, events, hub, task, wire>>

\* The reader is over: the worker ends, its writer with it, and the hub is told.
WorkerEnds(e) ==
    /\ workers[e].phase = "open" /\ ~ workers[e].reading
    /\ Becomes(e, Ended(workers[e]))
    /\ Finish(e)
    /\ UNCHANGED <<ui, written, events, hub, task, wire>>

WorkerDropped(e) ==
    /\ workers[e].phase = "aborting"
    /\ Becomes(e, Ended(workers[e]))
    /\ UNCHANGED <<ui, written, commands, events, hub, task, wire>>

WindsDown(e) ==
    /\ workers[e].closing = "asked"
    /\ Becomes(e, WindDown(workers[e]))
    /\ UNCHANGED <<ui, written, commands, events, hub, task, wire>>

\* CLOSE_GRACE is over.
GraceExpires(e) ==
    /\ workers[e].phase = "open" /\ workers[e].closing = "draining"
    /\ Becomes(e, Abort(workers[e]))
    /\ UNCHANGED <<ui, written, commands, events, hub, task, wire>>

-----------------------------------------------------------------------------

Ui == (\E tls \in BOOLEAN : UiConnect(tls)) \/ UiWrite \/ UiShutdown \/ UiDropHub \/ Deliver
Hub == HubConnect \/ HubWrite \/ HubClose \/ HubFinished \/ HubStop \/ HubExits
Worker(e) ==
    \/ Dialled(e) \/ Handshaken(e) \/ NeverOpened(e)
    \/ ReadBytes(e) \/ ReadEnds(e, "Closed") \/ ReadEnds(e, "Failed")
    \/ WriteFrame(e) \/ WriteFails(e) \/ Goodbye(e)
    \/ WorkerEnds(e) \/ WorkerDropped(e) \/ WindsDown(e) \/ GraceExpires(e)

Next == Ui \/ Hub \/ \E e \in Epochs : Worker(e)

Spec == Init /\ [][Next]_vars

\* The net thread serves its queue, ends dials and handshakes by their deadlines, drops
\* what it aborted and enforces the grace period; the UI thread drains its events.
Fairness ==
    /\ WF_vars(Hub) /\ WF_vars(Deliver)
    /\ \A e \in Epochs :
          /\ WF_vars(Dialled(e) \/ NeverOpened(e))
          /\ WF_vars(Handshaken(e) \/ NeverOpened(e))
          /\ WF_vars(WorkerEnds(e)) /\ WF_vars(WorkerDropped(e))
          /\ WF_vars(WindsDown(e)) /\ WF_vars(GraceExpires(e))

FairSpec == Spec /\ Fairness

-----------------------------------------------------------------------------
(* Properties *)

\* What the session sees of NetTransport is a Transport.
Contract == INSTANCE Transport WITH state <- ui.state, tls <- ui.tls
ImplementsTransport == Contract!Spec

\* The frames written in an epoch.
FramesOf(e) == {f \in DOMAIN written : written[f] = e}

\* A connection's socket carries the frames written while it was the current one, in
\* order and without a gap: a frame written between two connections, or queued for an
\* old one, never surfaces on the next.
WireCarriesItsOwnFrames ==
    \A e \in Epochs :
        /\ \A i, j \in DOMAIN wire[e] : i < j => wire[e][i] < wire[e][j]
        /\ \E last \in 0 .. Len(written) : Range(wire[e]) = {f \in FramesOf(e) : f <= last}

\* What the transport shows is about the current connection's own socket: it is open
\* only if that worker opened it, and ended by the peer only if that worker's reading
\* is over.  A late event of an earlier connection cannot speak for this one.
StateIsOwn ==
    LET w == workers[ui.epoch]
    IN /\ ui.state = "Connected" => w.phase \notin {"none", "dialling"}
       /\ ui.state = "Encrypted" => w.tls /\ w.phase \notin {"none", "dialling", "handshaking"}
       /\ ui.state \in {"Failed", "Disconnected"} => ~ w.reading

\* An event of the current connection fits when it is delivered, unless the connection
\* has ended: nothing is lost to reordering, and bytes never precede the handshake.
CurrentEventFits ==
    (events # <<>> /\ Head(events).epoch = ui.epoch /\ InFlight(ui.state)) =>
        CASE Head(events).event = "Connected" -> ui.state = "Connecting"
          [] Head(events).event = "Encrypted" -> ui.state = "Connected" /\ ui.tls
          [] Head(events).event \in {"Bytes", "Closed"} ->
                ui.state = "Encrypted" \/ (ui.state = "Connected" /\ ~ ui.tls)
          [] OTHER -> TRUE

\* What the UI half shows is what its own connection did, and the next event of that
\* connection fits it: no event of an earlier connection moves the state.
OwnEventsFit == StateIsOwn /\ CurrentEventFits

\* A worker that runs on is the one in the hub's table or on its way out: no socket is
\* left open that nothing can close.
NoOrphan ==
    \A e \in Epochs : Running(e) => task = e \/ workers[e].closing # "no" \/ workers[e].phase = "aborting"

\* A connection that said goodbye wrote every frame of its epoch first (a QUIT before a
\* shutdown is sent, however long it waited in the two queues).
GoodbyeMeansDrained ==
    \A e \in Epochs : workers[e].writer = "goodbye" => Range(wire[e]) = FramesOf(e)

\* Nothing hangs: a connect is answered, through both queues and past the workers of earlier
\* ones, and the worker of an earlier epoch ends, as a shutdown releases the socket even if
\* the peer keeps it busy.
NothingHangs ==
    /\ (ui.state = "Connecting") ~> (ui.state # "Connecting" \/ ~ UiRuns)
    /\ \A e \in Epochs : (e < ui.epoch /\ Running(e)) ~> ~ Running(e)

\* "An open pipe drains the frames already queued before it closes" (wire.rs, Close):
\* a close that found the pipe open is not cut short with frames still queued, while the
\* reader and the writer are at work; the grace period aborts it first.  It does not hold.
CloseDrains ==
    [][\A e \in Epochs :
          (/\ workers[e].closing # "no" /\ workers[e].phase = "open" /\ workers[e].queue # <<>>
           /\ workers[e].reading /\ workers[e].writer = "running")
          => workers'[e].phase # "ended"]_vars

=============================================================================
