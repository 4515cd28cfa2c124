------------------------- MODULE NetTransportProofs -------------------------
(***************************************************************************)
(* For every number of connections and frames: the network layer is well   *)
(* typed, what the session sees of it is a Transport, each connection      *)
(* carries its own frames and shows its own events, none is orphaned, and  *)
(* one that said goodbye has sent everything.                              *)
(***************************************************************************)
EXTENDS NetTransport, SequenceTheorems, TLAPS

UiStates == {"Idle", "Connecting", "Connected", "Encrypted", "Disconnected", "Failed"}

LEMMA CommandTypes ==
    /\ \A op \in {"Close", "Finished", "Stop"}, e \in Epochs : Command(op, e) \in Commands
    /\ \A e \in Epochs, f \in Frames : WriteCommand(e, f) \in Commands
    /\ \A e \in Epochs, tls \in BOOLEAN : ConnectCommand(e, tls) \in Commands
BY DEF Commands, Command, WriteCommand, ConnectCommand

LEMMA TransitionType ==
    ASSUME NEW s \in UiStates, NEW tls \in BOOLEAN, NEW event
    PROVE  Transition(s, tls, event) \in UiStates
BY DEF Transition, UiStates

LEMMA WorkerTypes ==
    ASSUME NEW w \in Workers
    PROVE  /\ Ended(w) \in Workers /\ Abort(w) \in Workers /\ WindDown(w) \in Workers
           /\ AsksToClose(w) \in Workers /\ Opened(w) \in Workers /\ AfterDial(w) \in Workers
           /\ [w EXCEPT !.reading = FALSE] \in Workers
           /\ \A q \in Seq(Frames) : [w EXCEPT !.queue = q] \in Workers
           /\ \A v \in {"failed", "goodbye"} :
                 [w EXCEPT !.writer = v, !.reading = FALSE] \in Workers
<1>1. <<>> \in Seq(Frames)  OBVIOUS
<1>2. Ended(w) \in Workers  BY <1>1 DEF Ended, NoWorker, Workers
<1>3. [w EXCEPT !.phase = "aborting"] \in Workers  BY DEF Workers
<1>4. Abort(w) \in Workers  BY <1>2, <1>3 DEF Abort
<1>5. [w EXCEPT !.closing = "draining"] \in Workers /\ [w EXCEPT !.closing = "asked"] \in Workers
  BY DEF Workers
<1>6. WindDown(w) \in Workers /\ AsksToClose(w) \in Workers  BY <1>4, <1>5 DEF WindDown, AsksToClose
<1>7. Opened(w) \in Workers  BY DEF Opened, Workers
<1>8. [w EXCEPT !.phase = "handshaking"] \in Workers  BY DEF Workers
<1>9. AfterDial(w) \in Workers  BY <1>7, <1>8 DEF AfterDial
<1>10. [w EXCEPT !.reading = FALSE] \in Workers  BY DEF Workers
<1>11. \A q \in Seq(Frames) : [w EXCEPT !.queue = q] \in Workers  BY DEF Workers
<1>12. \A v \in {"failed", "goodbye"} : [w EXCEPT !.writer = v, !.reading = FALSE] \in Workers
  BY DEF Workers
<1> QED BY <1>2, <1>4, <1>6, <1>7, <1>9, <1>10, <1>11, <1>12

LEMMA NewWorkerTypes == NoWorker \in Workers /\ \A tls \in BOOLEAN : NewWorker(tls) \in Workers
<1>1. <<>> \in Seq(Frames)  OBVIOUS
<1> QED BY <1>1 DEF NoWorker, NewWorker, Workers

LEMMA QueueTypes ==
    ASSUME NEW S, NEW q \in Seq(S)
    PROVE  /\ \A x \in S : Append(q, x) \in Seq(S)
           /\ q # <<>> => Head(q) \in S /\ Tail(q) \in Seq(S)
OBVIOUS

LEMMA InitType == Init => TypeOK
<1> SUFFICES ASSUME Init PROVE TypeOK  OBVIOUS
<1>1. 0 \in Epochs  BY BoundsAssumption DEF Epochs
<1>2. /\ <<>> \in Seq(Epochs) /\ <<>> \in Seq(Commands) /\ <<>> \in Seq(Deliveries)
      /\ <<>> \in Seq(Frames) /\ Len(<<>>) <= MaxWrites
  BY BoundsAssumption
<1>3. workers \in [Epochs -> Workers] /\ wire \in [Epochs -> Seq(Frames)]
  BY <1>2, NewWorkerTypes DEF Init
<1> QED BY <1>1, <1>2, <1>3 DEF Init, TypeOK

-----------------------------------------------------------------------------
(* One lemma per thread *)

LEMMA UiType == ASSUME TypeOK, Ui PROVE TypeOK'
<1> USE DEF TypeOK
<1>0. /\ ui.state \in UiStates /\ ui.epoch \in Epochs /\ ui.tls \in BOOLEAN
      /\ commands \in Seq(Commands) /\ written \in Seq(Epochs) /\ events \in Seq(Deliveries)
  BY DEF UiStates
<1>1. ASSUME NEW c \in Commands, Request(c) PROVE commands' \in Seq(Commands)
  BY <1>0, <1>1, QueueTypes DEF Request
<1>2. ui.epoch < MaxEpoch => ui.epoch + 1 \in Epochs  BY <1>0, BoundsAssumption DEF Epochs
<1>3. ASSUME NEW tls \in BOOLEAN, UiConnect(tls) PROVE TypeOK'
  <2>1. commands' \in Seq(Commands)  BY <1>1, <1>2, <1>3, CommandTypes DEF UiConnect
  <2> QED BY <1>2, <1>3, <2>1 DEF UiConnect
<1>4. CASE UiWrite
  <2>1. Len(written) + 1 \in Frames  BY <1>0, <1>4, BoundsAssumption DEF UiWrite, Frames
  <2>2. commands' \in Seq(Commands)  BY <1>0, <1>1, <1>4, <2>1, CommandTypes DEF UiWrite
  <2>3. written' \in Seq(Epochs) /\ Len(written') <= MaxWrites
    BY <1>0, <1>4, BoundsAssumption DEF UiWrite
  <2> QED BY <1>4, <2>2, <2>3 DEF UiWrite
<1>5. CASE UiShutdown
  <2>1. 0 \in Epochs  BY BoundsAssumption DEF Epochs
  <2>2. commands' \in Seq(Commands)  BY <1>1, <1>5, <2>1, CommandTypes DEF UiShutdown
  <2> QED BY <1>2, <1>5, <2>2 DEF UiShutdown
<1>6. CASE UiDropHub
  <2>1. 0 \in Epochs  BY BoundsAssumption DEF Epochs
  <2>2. commands' \in Seq(Commands)  BY <1>1, <1>6, <2>1, CommandTypes DEF UiDropHub
  <2> QED BY <1>6, <2>2 DEF UiDropHub
<1>7. CASE Deliver
  <2>1. Apply(Head(events)) \in UiStates  BY <1>0, TransitionType DEF Apply
  <2>2. events' \in Seq(Deliveries)  BY <1>0, <1>7, QueueTypes DEF Deliver
  <2>3. ui' = [ui EXCEPT !.state = Apply(Head(events))]  BY <1>7 DEF Deliver
  <2> QED BY <1>7, <2>1, <2>2, <2>3 DEF Deliver, UiStates
<1> QED BY <1>3, <1>4, <1>5, <1>6, <1>7 DEF Ui

LEMMA HubType == ASSUME TypeOK, Hub PROVE TypeOK'
<1> USE DEF TypeOK
<1>0. 0 \in Epochs  BY BoundsAssumption DEF Epochs
<1>1. commands # <<>> => Head(commands) \in Commands /\ Tail(commands) \in Seq(Commands)
  BY QueueTypes
<1>2. ASSUME NEW e \in Epochs, NEW w \in Workers
      PROVE  [workers EXCEPT ![e] = w] \in [Epochs -> Workers]
  OBVIOUS
<1>3. \A e \in Epochs : workers[e] \in Workers  OBVIOUS
<1>4. CASE HubConnect
  <2> DEFINE c == Head(commands)
             old == IF task = 0 THEN workers ELSE [workers EXCEPT ![task] = Abort(@)]
  <2>1. c.epoch \in Epochs /\ c.tls \in BOOLEAN
    BY <1>1, <1>4 DEF HubConnect, Serving, Commands
  <2>2. old \in [Epochs -> Workers]  BY <1>3, WorkerTypes
  <2>3. workers' = [old EXCEPT ![c.epoch] = NewWorker(c.tls)] /\ task' = c.epoch
    BY <1>4 DEF HubConnect
  <2> HIDE DEF old, c
  <2>4. workers' \in [Epochs -> Workers]  BY <2>1, <2>2, <2>3, NewWorkerTypes
  <2> QED BY <1>1, <1>4, <2>1, <2>3, <2>4 DEF HubConnect, Serving, Served
<1>5. CASE HubWrite
  <2> DEFINE c == Head(commands)
             q == Append(workers[task].queue, c.frame)
  <2>1. c.frame \in Frames  BY <1>1, <1>5 DEF HubWrite, Serving, Commands
  <2>2. workers[task].queue \in Seq(Frames)  BY <1>3 DEF Workers
  <2>3. q \in Seq(Frames)  BY <2>1, <2>2, QueueTypes
  <2>4. workers' \in {workers, [workers EXCEPT ![task] = [workers[task] EXCEPT !.queue = q]]}
    BY <1>5 DEF HubWrite
  <2> HIDE DEF q
  <2>5. [workers[task] EXCEPT !.queue = q] \in Workers  BY <1>3, <2>3, WorkerTypes
  <2>6. workers' \in [Epochs -> Workers]  BY <2>4, <2>5
  <2> QED BY <1>1, <1>5, <2>6 DEF HubWrite, Serving, Served
<1>6. CASE HubClose
  <2>1. workers' \in [Epochs -> Workers]  BY <1>3, <1>6, WorkerTypes DEF HubClose
  <2> QED BY <1>0, <1>1, <1>6, <2>1 DEF HubClose, Serving, Served
<1>7. CASE HubFinished
  BY <1>0, <1>1, <1>7 DEF HubFinished, Serving, Served
<1>8. CASE HubStop
  <2>1. workers' \in [Epochs -> Workers]  BY <1>3, <1>8, WorkerTypes DEF HubStop
  <2> QED BY <1>1, <1>8, <2>1 DEF HubStop, Serving, Served
<1>9. CASE HubExits
  <2>1. workers' \in [Epochs -> Workers]  BY <1>3, <1>9, WorkerTypes DEF HubExits
  <2> QED BY <1>0, <1>9, <2>1 DEF HubExits
<1> QED BY <1>4, <1>5, <1>6, <1>7, <1>8, <1>9 DEF Hub

LEMMA WorkerType == ASSUME TypeOK, NEW e \in Epochs, Worker(e) PROVE TypeOK'
<1> USE DEF TypeOK
<1> DEFINE w == workers[e]
<1>0. w \in Workers /\ w.queue \in Seq(Frames)  BY DEF Workers
<1>1. ASSUME NEW v \in Workers, Becomes(e, v) PROVE workers' \in [Epochs -> Workers]
  BY <1>1 DEF Becomes
<1>2. ASSUME NEW event \in IoEvent, Report(e, event) PROVE events' \in Seq(Deliveries)
  <2>1. [epoch |-> e, event |-> event] \in Deliveries  BY DEF Deliveries
  <2> QED BY <1>2, <2>1, QueueTypes DEF Report
<1>3. Finish(e) => commands' \in Seq(Commands)  BY CommandTypes, QueueTypes DEF Finish
<1>4. CASE Dialled(e)
  BY <1>0, <1>1, <1>2, <1>4, WorkerTypes DEF Dialled, IoEvent
<1>5. CASE Handshaken(e)
  BY <1>0, <1>1, <1>2, <1>5, WorkerTypes DEF Handshaken, IoEvent
<1>6. CASE NeverOpened(e)
  BY <1>0, <1>1, <1>2, <1>3, <1>6, WorkerTypes DEF NeverOpened, IoEvent
<1>7. CASE ReadBytes(e)
  BY <1>2, <1>7 DEF ReadBytes, IoEvent
<1>8. ASSUME NEW event \in {"Closed", "Failed"}, ReadEnds(e, event) PROVE TypeOK'
  BY <1>0, <1>1, <1>2, <1>8, WorkerTypes DEF ReadEnds, IoEvent
<1>9. CASE WriteFrame(e)
  <2>1. w.queue # <<>>  BY <1>9 DEF WriteFrame
  <2>2. Head(w.queue) \in Frames /\ Tail(w.queue) \in Seq(Frames)  BY <1>0, <2>1, QueueTypes
  <2>3. Append(wire[e], Head(w.queue)) \in Seq(Frames)  BY <2>2, QueueTypes
  <2>4. wire' \in [Epochs -> Seq(Frames)]  BY <1>9, <2>3 DEF WriteFrame
  <2>5. [w EXCEPT !.queue = Tail(w.queue)] \in Workers  BY <1>0, <2>2, WorkerTypes
  <2>6. workers' \in [Epochs -> Workers]  BY <1>9, <2>5 DEF WriteFrame, Becomes
  <2> QED BY <1>9, <2>4, <2>6 DEF WriteFrame
<1>10. CASE WriteFails(e)
  BY <1>0, <1>1, <1>2, <1>10, WorkerTypes DEF WriteFails, IoEvent
<1>11. CASE Goodbye(e)
  BY <1>0, <1>1, <1>11, WorkerTypes DEF Goodbye
<1>12. CASE WorkerEnds(e)
  BY <1>0, <1>1, <1>3, <1>12, WorkerTypes DEF WorkerEnds
<1>13. CASE WorkerDropped(e)
  BY <1>0, <1>1, <1>13, WorkerTypes DEF WorkerDropped
<1>14. CASE WindsDown(e)
  BY <1>0, <1>1, <1>14, WorkerTypes DEF WindsDown
<1>15. CASE GraceExpires(e)
  BY <1>0, <1>1, <1>15, WorkerTypes DEF GraceExpires
<1> QED BY <1>4, <1>5, <1>6, <1>7, <1>8, <1>9, <1>10, <1>11, <1>12, <1>13, <1>14, <1>15
        DEF Worker

-----------------------------------------------------------------------------

LEMMA NextType == ASSUME TypeOK, [Next]_vars PROVE TypeOK'
<1>1. CASE UNCHANGED vars  BY <1>1 DEF vars, TypeOK
<1> QED BY <1>1, UiType, HubType, WorkerType DEF Next

\* Every reachable state of the two queues, the hub and the workers is well typed.
THEOREM TypeCorrect == Spec => []TypeOK
<1>1. TypeOK /\ [Next]_vars => TypeOK'
  BY NextType
<1> QED BY <1>1, InitType, PTL DEF Spec

\* The lifecycle a session sees of NetTransport is the one the Transport trait
\* promises, however the events of the net thread interleave with its own calls.
THEOREM Refinement == Spec => ImplementsTransport
<1>1. Init => Contract!Init
  BY DEF Init, Contract!Init
<1>2. TypeOK /\ [Next]_vars => [Contract!Next]_(Contract!vars)
  <2> SUFFICES ASSUME TypeOK, [Next]_vars PROVE [Contract!Next]_(Contract!vars)  OBVIOUS
  <2>0. ui.state \in UiStates /\ ui.tls \in BOOLEAN  BY DEF TypeOK, UiStates
  <2> USE DEF Contract!vars, Contract!Next, Contract!InFlight
  <2>1. ui' = ui => UNCHANGED Contract!vars  OBVIOUS
  <2>2. ASSUME NEW tls \in BOOLEAN, UiConnect(tls) PROVE Contract!Connect
    BY <2>2 DEF UiConnect, InFlight, Contract!Connect
  <2>3. CASE UiShutdown
    <3>1. Contract!Disconnected
      BY <2>3 DEF UiShutdown, InFlight, TypeOK, Contract!Disconnected
    <3> QED BY <3>1
  <2>4. CASE Deliver
    <3>1. ui'.state = Apply(Head(events)) /\ ui'.tls = ui.tls  BY <2>4 DEF Deliver, TypeOK
    <3> QED BY <2>0, <3>1 DEF Apply, Transition, IsOpen, InFlight, Contract!Connected,
               Contract!Encrypted, Contract!Disconnected, Contract!Failed
  <2>5. CASE UiWrite \/ UiDropHub \/ Hub \/ (\E e \in Epochs : Worker(e)) \/ UNCHANGED vars
    <3>1. ui' = ui
      BY <2>5 DEF UiWrite, UiDropHub, Hub, HubConnect, HubWrite, HubClose, HubFinished, HubStop,
                  HubExits, Worker, Dialled, Handshaken, NeverOpened, ReadBytes, ReadEnds,
                  WriteFrame, WriteFails, Goodbye, WorkerEnds, WorkerDropped, WindsDown,
                  GraceExpires, vars
    <3> QED BY <2>1, <3>1
  <2> QED BY <2>2, <2>3, <2>4, <2>5 DEF Next, Ui
<1> QED BY <1>1, <1>2, TypeCorrect, PTL DEF Spec, ImplementsTransport, Contract!Spec

-----------------------------------------------------------------------------
(* The inductive invariant of the two queues, the hub's table and the workers *)

Op(k) == commands[k].op
Queued(f) == \E k \in 1 .. Len(commands) : Op(k) = "Write" /\ commands[k].frame = f

\* A connect that is still queued has no worker and no event yet, and connects queue in order.
ConnectsFit ==
    \A k \in 1 .. Len(commands) : Op(k) = "Connect" =>
        LET e == commands[k].epoch
        IN /\ 0 < e /\ e <= ui.epoch
           /\ workers[e].phase = "none"
           /\ e = ui.epoch => ui.state = "Connecting" /\ ui.tls = commands[k].tls
           /\ \A j \in 1 .. k - 1 : Op(j) = "Connect" => commands[j].epoch < e

\* A worker that told the hub it is over is over.
FinishesFit ==
    \A k \in 1 .. Len(commands) : Op(k) = "Finished" => workers[commands[k].epoch].phase = "ended"

\* A worker that is not open yet neither reads nor writes, and handshakes only for TLS.
Unopened(w) ==
    /\ w.phase \in {"dialling", "handshaking"} => ~ w.reading /\ w.writer = "idle"
    /\ w.phase = "handshaking" => w.tls

\* The hub's table names a worker that was started; epoch 0 and the epochs to come have none.
TableFits ==
    /\ task # 0 => workers[task].phase # "none"
    /\ workers[0].phase = "none"
    /\ \A e \in Epochs : Unopened(workers[e])
    /\ task <= ui.epoch
    /\ \A e \in Epochs : ui.epoch < e => workers[e].phase = "none"
    /\ \A e \in Epochs : workers[e].phase = "none" => workers[e] = NoWorker /\ wire[e] = <<>>

\* Nothing but finish notices follows a stop, and nothing else is left once it was served.
StopFits ==
    /\ \A k \in 1 .. Len(commands) : Op(k) = "Stop" =>
          \A l \in k + 1 .. Len(commands) : Op(l) = "Finished"
    /\ hub # "serving" => \A k \in 1 .. Len(commands) : Op(k) = "Finished"

\* Each event on its way was true of its worker when it was sent and has stayed so.
EventsAreTrue ==
    \A k \in 1 .. Len(events) :
        LET w == workers[events[k].epoch]
        IN /\ w.phase \notin {"none", "dialling"}
           /\ events[k].event = "Encrypted" => w.tls /\ w.phase # "handshaking"
           /\ events[k].event \in {"Closed", "Failed"} => w.phase # "handshaking" /\ ~ w.reading

\* What the transport shows is true of its worker.
UiFits ==
    LET w == workers[ui.epoch]
    IN /\ StateIsOwn
       /\ w.phase # "none" => w.tls = ui.tls
       /\ ~ InFlight(ui.state) => w.phase \notin {"dialling", "handshaking"} /\ ~ w.reading

\* An event of epoch e in place k of queue q comes in its turn for a transport in state s.
Connects(q, k, e, s) == s = "Connecting" /\ \A j \in 1 .. k - 1 : q[j].epoch # e
Shows(q, k, e, s, state, event) ==
    s = state \/ \E j \in 1 .. k - 1 : q[j].epoch = e /\ q[j].event = event
Encrypts(q, k, e, tls, s) ==
    /\ tls /\ s # "Encrypted" /\ Shows(q, k, e, s, "Connected", "Connected")
    /\ \A j \in 1 .. k - 1 : q[j].epoch = e => q[j].event = "Connected"
Opens(q, k, e, tls, s) ==
    /\ tls => Shows(q, k, e, s, "Encrypted", "Encrypted")
    /\ ~ tls => Shows(q, k, e, s, "Connected", "Connected")

InTurn(q, k, e, tls, s, event) ==
    /\ event = "Connected" => Connects(q, k, e, s)
    /\ event = "Encrypted" => Encrypts(q, k, e, tls, s)
    /\ event \in {"Bytes", "Closed"} => Opens(q, k, e, tls, s)

\* The events of worker w's epoch come in turn, and so would the next one it may send.
Turns(w, q, e, tls, s) ==
    /\ \A k \in 1 .. Len(q) : q[k].epoch = e => InTurn(q, k, e, tls, s, q[k].event)
    /\ w.phase \in {"none", "dialling"} => InTurn(q, Len(q) + 1, e, tls, s, "Connected")
    /\ w.phase = "handshaking" => InTurn(q, Len(q) + 1, e, tls, s, "Encrypted")
    /\ w.reading => InTurn(q, Len(q) + 1, e, tls, s, "Bytes")

EventsInTurn ==
    UiRuns /\ InFlight(ui.state) => Turns(workers[ui.epoch], events, ui.epoch, ui.tls, ui.state)

\* Once the hub is dropped its events go nowhere.
NobodyListens == ~ UiRuns => events = <<>>

\* The frames still queued to the hub are the last ones written, in order, each behind the
\* connect of its epoch.
WritesFit ==
    /\ \A f \in 1 .. Len(written) : written[f] <= ui.epoch
    /\ \A k \in 1 .. Len(commands) : Op(k) = "Write" =>
          LET f == commands[k].frame
          IN /\ f <= Len(written) /\ written[f] = commands[k].epoch
             /\ \A j \in 1 .. k - 1 : Op(j) = "Write" => commands[j].frame < f
             /\ \A g \in f .. Len(written) : Queued(g)
    /\ \A k \in 1 .. Len(commands) : Op(k) = "Connect" =>
          /\ \A j \in 1 .. k - 1 : Op(j) = "Write" => commands[j].epoch # commands[k].epoch
          /\ \A f \in 1 .. Len(written) : written[f] = commands[k].epoch => Queued(f)

\* A close in the queue parts the epochs: no frame behind it belongs to a connection before it.
ClosesFit ==
    \A k \in 1 .. Len(commands) : Op(k) = "Close" =>
        LET Parts(e) == /\ e < ui.epoch
                        /\ \A l \in k + 1 .. Len(commands) : Op(l) = "Write" => e < commands[l].epoch
        IN /\ task # 0 => Parts(task)
           /\ \A j \in 1 .. k - 1 : Op(j) = "Connect" => Parts(commands[j].epoch)

\* What a worker has written and still has to write, in order.
Taken(e) == wire[e] \o workers[e].queue
Has(s, f) == \E i \in 1 .. Len(s) : s[i] = f

\* s is the first frames of epoch e, in order and without a gap.
Follows(s, e) ==
    \A i \in 1 .. Len(s) :
        /\ s[i] \in FramesOf(e)
        /\ \A j \in 1 .. i - 1 : s[j] < s[i]
        /\ \A f \in FramesOf(e) : f < s[i] => \E j \in 1 .. i - 1 : s[j] = f

\* No frame of epoch e is written any more.
Sealed(e) == e < ui.epoch \/ ~ UiRuns

\* The frames of an epoch: the worker in the table has all that left the queue, one that
\* closes has all there will ever be, and one that said goodbye wrote them.
EpochFits(e) ==
    /\ Follows(Taken(e), e)
    /\ \A f : Has(Taken(e), f) => ~ Queued(f)
    /\ task = e /\ e # 0 /\ workers[e].phase # "ended" =>
          \A f \in FramesOf(e) : Queued(f) \/ Has(Taken(e), f)
    /\ workers[e].closing # "no" => Sealed(e) /\ \A f \in FramesOf(e) : Has(Taken(e), f)
    /\ workers[e].writer = "goodbye" => Sealed(e) /\ \A f \in FramesOf(e) : Has(wire[e], f)

FramesFit == \A e \in Epochs : EpochFits(e)

\* What the network layer keeps between any two steps.
IInv ==
    /\ TypeOK
    /\ ConnectsFit /\ FinishesFit /\ TableFits /\ NoOrphan /\ StopFits
    /\ EventsAreTrue /\ UiFits /\ EventsInTurn /\ NobodyListens
    /\ WritesFit /\ ClosesFit /\ FramesFit

-----------------------------------------------------------------------------
(* How a worker and the two queues move *)

\* A worker only moves on: it does not start over, and what is over stays over.
Advance(w, v) ==
    /\ w.phase = "none" => v = w
    /\ w.phase # "none" => v.phase # "none"
    /\ v.tls = w.tls
    /\ w.phase # "dialling" => v.phase # "dialling"
    /\ Unopened(w) => Unopened(v)
    /\ w.phase \notin {"dialling", "handshaking"} =>
          v.phase \notin {"dialling", "handshaking"} /\ (v.reading => w.reading)
    /\ w.phase = "ended" => v.phase = "ended"
    /\ w.phase = "aborting" => v.phase \in {"aborting", "ended"}
    /\ w.closing # "no" => v.phase = "ended" \/ v.closing # "no"

Grown == \A e \in Epochs : Advance(workers[e], workers'[e])

LEMMA Advances ==
    ASSUME NEW w \in Workers
    PROVE  /\ Advance(w, w)
           /\ w.phase # "none" =>
                 /\ Advance(w, Ended(w)) /\ Advance(w, Abort(w)) /\ Advance(w, WindDown(w))
                 /\ Advance(w, AsksToClose(w))
                 /\ \A q : Advance(w, [w EXCEPT !.queue = q])
           /\ w.phase \notin {"none", "dialling", "handshaking"} =>
                 /\ Advance(w, [w EXCEPT !.reading = FALSE])
                 /\ \A x : Advance(w, [w EXCEPT !.writer = x, !.reading = FALSE])
           /\ w.phase \in {"dialling", "handshaking"} => Advance(w, Opened(w))
           /\ w.phase = "dialling" => Advance(w, AfterDial(w))
<1> USE DEF Advance, Workers, Unopened
<1>1. Advance(w, w)
  OBVIOUS
<1>2. w.phase # "none" => Advance(w, Ended(w))
  BY DEF Ended, NoWorker
<1>3. w.phase # "none" => Advance(w, Abort(w))
  BY <1>1, <1>2 DEF Abort
<1>4. w.phase # "none" => Advance(w, WindDown(w))
  BY <1>3 DEF WindDown
<1>5. w.phase # "none" => Advance(w, AsksToClose(w))
  BY <1>1 DEF AsksToClose
<1>6. w.phase # "none" => \A q : Advance(w, [w EXCEPT !.queue = q])
  OBVIOUS
<1>9. w.phase \notin {"none", "dialling", "handshaking"} =>
         /\ Advance(w, [w EXCEPT !.reading = FALSE])
         /\ \A x : Advance(w, [w EXCEPT !.writer = x, !.reading = FALSE])
  OBVIOUS
<1>7. w.phase \in {"dialling", "handshaking"} => Advance(w, Opened(w))
  BY DEF Opened
<1>8. w.phase = "dialling" => Advance(w, AfterDial(w))
  BY <1>7 DEF AfterDial
<1> QED
  BY <1>1, <1>2, <1>3, <1>4, <1>5, <1>6, <1>7, <1>8, <1>9

LEMMA BecomesGrown ==
    ASSUME TypeOK, NEW e \in Epochs, NEW v, Becomes(e, v), Advance(workers[e], v)
    PROVE  Grown
<1>1. \A d \in Epochs : workers[d] \in Workers /\ Advance(workers[d], workers[d])
  BY Advances DEF TypeOK
<1>2. workers'[e] = v /\ \A d \in Epochs \ {e} : workers'[d] = workers[d]
  BY DEF TypeOK, Becomes
<1> QED
  BY <1>1, <1>2 DEF Grown

\* Every step but a connect of the hub lets the workers move on.
LEMMA UnchangedGrown == ASSUME TypeOK, workers' = workers PROVE Grown
<1>1. \A d \in Epochs : workers[d] \in Workers
  BY DEF TypeOK
<1> QED
  BY <1>1, Advances DEF Grown

LEMMA WorkerGrown ==
    ASSUME TypeOK, TableFits, NEW e \in Epochs, Worker(e)
    PROVE  Grown
<1> DEFINE w == workers[e]
<1>1. /\ w \in Workers /\ (w.closing # "no" => w.phase # "none")
      /\ w.writer = "running" \/ w.reading => w.phase \notin {"none", "dialling", "handshaking"}
  BY DEF TypeOK, TableFits, NoWorker, Unopened
<1>2. CASE ReadBytes(e)
  BY <1>2, UnchangedGrown DEF ReadBytes
<1>3. ReadBytes(e) \/ \E v : Becomes(e, v) /\ Advance(w, v)
  <2>1. CASE Dialled(e)
    BY <1>1, <2>1, Advances DEF Dialled
  <2>2. CASE Handshaken(e)
    BY <1>1, <2>2, Advances DEF Handshaken
  <2>3. CASE NeverOpened(e)
    BY <1>1, <2>3, Advances DEF NeverOpened
  <2>4. CASE ReadEnds(e, "Closed") \/ ReadEnds(e, "Failed")
    BY <1>1, <2>4, Advances DEF ReadEnds
  <2>5. CASE WriteFrame(e)
    BY <1>1, <2>5, Advances DEF WriteFrame, Writing
  <2>6. CASE WriteFails(e)
    BY <1>1, <2>6, Advances DEF WriteFails, Writing
  <2>7. CASE Goodbye(e)
    BY <1>1, <2>7, Advances DEF Goodbye, Writing
  <2>8. CASE WorkerEnds(e)
    BY <1>1, <2>8, Advances DEF WorkerEnds
  <2>9. CASE WorkerDropped(e)
    BY <1>1, <2>9, Advances DEF WorkerDropped
  <2>10. CASE WindsDown(e)
    BY <1>1, <2>10, Advances DEF WindsDown
  <2>11. CASE GraceExpires(e)
    BY <1>1, <2>11, Advances DEF GraceExpires
  <2> QED
    BY <2>1, <2>2, <2>3, <2>4, <2>5, <2>6, <2>7, <2>8, <2>9, <2>10, <2>11 DEF Worker
<1> QED
  BY <1>2, <1>3, BecomesGrown

LEMMA HubGrown ==
    ASSUME TypeOK, TableFits, Hub, ~ HubConnect
    PROVE  Grown
<1>1. \A e \in Epochs : workers[e] \in Workers /\ Advance(workers[e], workers[e])
  BY Advances DEF TypeOK
<1>2. task \in Epochs /\ (task # 0 => workers[task].phase # "none")
  BY DEF TypeOK, TableFits
<1>3. ASSUME NEW v, workers' = [workers EXCEPT ![task] = v], Advance(workers[task], v) PROVE Grown
  BY <1>2, <1>3, BecomesGrown DEF Becomes
<1>4. CASE HubWrite
  <2> DEFINE v == [workers[task] EXCEPT !.queue = Append(workers[task].queue, Head(commands).frame)]
  <2>1. CASE TakesFrame(Head(commands).epoch)
    <3>1. workers' = [workers EXCEPT ![task] = v]
      BY <1>4, <2>1 DEF HubWrite
    <3>2. Advance(workers[task], v)
      BY <1>1, <1>2, <2>1, Advances DEF TakesFrame
    <3> QED
      BY <1>3, <3>1, <3>2
  <2>2. CASE ~ TakesFrame(Head(commands).epoch)
    BY <1>4, <2>2, UnchangedGrown DEF HubWrite
  <2> QED
    BY <2>1, <2>2
<1>5. CASE HubClose
  BY <1>1, <1>2, <1>3, <1>5, Advances, UnchangedGrown DEF HubClose
<1>6. CASE HubFinished
  BY <1>6, UnchangedGrown DEF HubFinished
<1>7. CASE HubStop
  BY <1>1, <1>2, <1>3, <1>7, Advances, UnchangedGrown DEF HubStop
<1>8. CASE HubExits
  <2>1. \A e \in Epochs : workers'[e] = workers[e] \/ (Running(e) /\ workers'[e] = Ended(workers[e]))
    BY <1>8 DEF HubExits
  <2>2. \A e \in Epochs : Running(e) => workers[e].phase # "none"
    BY DEF Running
  <2> QED
    BY <1>1, <2>1, <2>2, Advances DEF Grown
<1> QED
  BY <1>4, <1>5, <1>6, <1>7, <1>8 DEF Hub

\* The command queue: a command is put behind the others, or the first one is taken.
LEMMA Pushed ==
    ASSUME TypeOK, NEW c, commands' = Append(commands, c)
    PROVE  /\ Len(commands) \in Nat /\ Len(commands') = Len(commands) + 1
           /\ commands'[Len(commands) + 1] = c
           /\ \A k \in 1 .. Len(commands) : commands'[k] = commands[k]
BY DEF TypeOK

LEMMA Popped ==
    ASSUME TypeOK, commands # <<>>, commands' = Tail(commands)
    PROVE  /\ Len(commands) \in Nat /\ Len(commands) > 0 /\ Len(commands') = Len(commands) - 1
           /\ Head(commands) = commands[1] /\ commands[1] \in Commands
           /\ \A k \in 1 .. Len(commands) - 1 : commands'[k] = commands[k + 1]
BY DEF TypeOK

Taking == commands # <<>> /\ commands' = Tail(commands)
Putting(op) == \E c \in Commands : c.op = op /\ commands' = Append(commands, c)

\* What each thread does to the queue, the hub's table and the transport.
LEMMA UiPuts ==
    ASSUME TypeOK
    PROVE  /\ \A tls \in BOOLEAN : UiConnect(tls) => Putting("Connect")
           /\ UiWrite => Putting("Write")
           /\ UiShutdown => Putting("Close")
           /\ UiDropHub => Putting("Stop")
<1>1. /\ ui.epoch \in Epochs /\ (ui.epoch < MaxEpoch => ui.epoch + 1 \in Epochs) /\ 0 \in Epochs
      /\ (Len(written) < MaxWrites => Len(written) + 1 \in Frames)
  BY BoundsAssumption DEF TypeOK, Epochs, Frames
<1>2. ASSUME NEW tls \in BOOLEAN, UiConnect(tls) PROVE Putting("Connect")
  <2>1. ConnectCommand(ui.epoch + 1, tls) \in Commands /\ ConnectCommand(ui.epoch + 1, tls).op = "Connect"
    BY <1>1, <1>2, CommandTypes DEF UiConnect, ConnectCommand
  <2> QED
    BY <1>2, <2>1 DEF UiConnect, Request, Putting
<1>3. UiWrite => Putting("Write")
  <2>1. SUFFICES ASSUME UiWrite PROVE Putting("Write")
    OBVIOUS
  <2>2. /\ WriteCommand(ui.epoch, Len(written) + 1) \in Commands
        /\ WriteCommand(ui.epoch, Len(written) + 1).op = "Write"
    BY <1>1, <2>1, CommandTypes DEF UiWrite, WriteCommand
  <2> QED
    BY <2>1, <2>2 DEF UiWrite, Request, Putting
<1>4. \A op \in {"Close", "Stop"} : Command(op, 0) \in Commands /\ Command(op, 0).op = op
  BY <1>1, CommandTypes DEF Command
<1>5. (UiShutdown => Putting("Close")) /\ (UiDropHub => Putting("Stop"))
  BY <1>4 DEF UiShutdown, UiDropHub, Request, Putting
<1> QED
  BY <1>2, <1>3, <1>5

LEMMA UiQueues ==
    ASSUME TypeOK, Ui
    PROVE  /\ workers' = workers /\ wire' = wire /\ task' = task /\ hub' = hub /\ UiRuns
           /\ \/ \E tls \in BOOLEAN : UiConnect(tls) /\ Putting("Connect") /\ events' = events
              \/ UiWrite /\ Putting("Write") /\ ui' = ui /\ events' = events
              \/ UiShutdown /\ Putting("Close") /\ events' = events
              \/ UiDropHub /\ Putting("Stop") /\ ui' = ui
              \/ Deliver /\ commands' = commands
BY UiPuts DEF Ui, UiConnect, UiWrite, UiShutdown, UiDropHub, Deliver

LEMMA HubQueues ==
    ASSUME TypeOK, Hub
    PROVE  /\ ui' = ui /\ written' = written /\ events' = events /\ wire' = wire
           /\ \/ HubExits /\ commands' = commands /\ hub' = "stopped"
              \/ /\ Taking /\ hub = "serving"
                 /\ \/ HubConnect /\ commands[1].op = "Connect" /\ hub' = hub
                    \/ HubWrite /\ commands[1].op = "Write" /\ hub' = hub /\ task' = task
                    \/ HubClose /\ commands[1].op = "Close" /\ hub' = hub /\ task' = 0
                    \/ HubFinished /\ commands[1].op = "Finished" /\ hub' = hub
                    \/ HubStop /\ commands[1].op = "Stop" /\ hub' = "stopping" /\ task' = task
<1>1. commands # <<>> => Head(commands) = commands[1]
  BY DEF TypeOK
<1> QED
  BY <1>1 DEF Hub, HubConnect, HubWrite, HubClose, HubFinished, HubStop, HubExits, Serving, Served,
              Taking

LEMMA WorkerQueues ==
    ASSUME TypeOK, NEW e \in Epochs, Worker(e)
    PROVE  /\ ui' = ui /\ written' = written /\ task' = task /\ hub' = hub
           /\ \/ commands' = commands
              \/ /\ commands' = Append(commands, Command("Finished", e))
                 /\ Command("Finished", e) \in Commands
                 /\ workers'[e].phase = "ended"
<1>1. Command("Finished", e) \in Commands
  BY CommandTypes
<1>2. Becomes(e, Ended(workers[e])) => workers'[e].phase = "ended"
  BY DEF TypeOK, Becomes, Ended, NoWorker
<1> QED
  BY <1>1, <1>2 DEF Worker, Dialled, Handshaken, NeverOpened, ReadBytes, ReadEnds, WriteFrame,
              WriteFails, Goodbye, WorkerEnds, WorkerDropped, WindsDown, GraceExpires, Finish

\* The hub is dropped once: a transport that runs after a step ran before it.
LEMMA RunsBefore == ASSUME TypeOK, [Next]_vars, UiRuns' PROVE UiRuns
<1>1. TypeOK'
  BY NextType
<1>2. DOMAIN commands = 1 .. Len(commands) /\ DOMAIN commands' = 1 .. Len(commands')
  BY <1>1 DEF TypeOK
<1>3. \A k \in 1 .. Len(commands') : commands'[k].op # "Stop"
  BY <1>2 DEF UiRuns, HubHeld
<1>4. hub' = "serving"
  BY DEF UiRuns
<1>5. CASE Hub
  <2>1. Taking /\ hub = "serving" /\ commands[1].op # "Stop"
    BY <1>4, <1>5, HubQueues
  <2>2. \A k \in 1 .. Len(commands) : commands[k].op # "Stop"
    <3> TAKE k \in 1 .. Len(commands)
    <3>1. CASE k = 1
      BY <2>1, <3>1
    <3>2. CASE k # 1
      <4>1. k - 1 \in 1 .. Len(commands') /\ commands'[k - 1] = commands[k]
        BY <2>1, <3>2, Popped DEF Taking
      <4> QED
        BY <1>3, <4>1
    <3> QED
      BY <3>1, <3>2
  <2> QED
    BY <1>2, <2>1, <2>2 DEF UiRuns, HubHeld
<1>6. ASSUME NEW e \in Epochs, Worker(e) PROVE UiRuns
  <2>1. commands' = commands \/ \E c : commands' = Append(commands, c)
    BY <1>6, WorkerQueues
  <2>2. \A k \in 1 .. Len(commands) : k \in 1 .. Len(commands') /\ commands'[k] = commands[k]
    BY <2>1, Pushed
  <2>3. hub = "serving"
    BY <1>4, <1>6, WorkerQueues
  <2> QED
    BY <1>2, <1>3, <2>2, <2>3 DEF UiRuns, HubHeld
<1>7. CASE UNCHANGED vars
  BY <1>3, <1>4, <1>2, <1>7 DEF vars, UiRuns, HubHeld
<1> QED
  BY <1>5, <1>6, <1>7, UiQueues DEF Next

-----------------------------------------------------------------------------
(* The hub's table: connects, finish notices, stop *)

\* A step that queues no connect and leaves the transport in its epoch and state.
LEMMA ConnectsKept ==
    ASSUME TypeOK, TypeOK', ConnectsFit, Grown,
           \/ ui' = ui
           \/ ui'.epoch > ui.epoch
           \/ /\ ui'.epoch = ui.epoch /\ ui'.tls = ui.tls
              /\ workers[ui.epoch].phase = "none" => ui'.state = ui.state,
           commands' = commands \/ Taking \/ \E op : op # "Connect" /\ Putting(op)
    PROVE  ConnectsFit'
<1>1. ui.epoch \in Nat /\ ui'.epoch \in Nat
  BY BoundsAssumption DEF TypeOK, Epochs
<1>2. ASSUME NEW k \in 1 .. Len(commands), Op(k) = "Connect"
      PROVE  LET e == commands[k].epoch
             IN /\ 0 < e /\ e <= ui'.epoch
                /\ workers'[e].phase = "none"
                /\ e = ui'.epoch => ui'.state = "Connecting" /\ ui'.tls = commands[k].tls
                /\ \A j \in 1 .. k - 1 : Op(j) = "Connect" => commands[j].epoch < e
  <2>1. commands[k] \in Commands
    BY DEF TypeOK
  <2>2. commands[k].epoch \in Epochs
    BY <1>2, <2>1 DEF Commands, Op
  <2>3. workers[commands[k].epoch].phase = "none" /\ commands[k].epoch \in Nat
    BY <1>2, <2>2 DEF ConnectsFit, Epochs
  <2>4. workers'[commands[k].epoch].phase = "none"
    BY <2>2, <2>3 DEF Grown, Advance
  <2> QED
    BY <1>1, <1>2, <2>3, <2>4 DEF ConnectsFit
<1>3. CASE commands' = commands
  BY <1>2, <1>3 DEF ConnectsFit, Op
<1>4. CASE Taking
  <2>1. /\ Len(commands) \in Nat /\ Len(commands') = Len(commands) - 1
        /\ \A k \in 1 .. Len(commands) - 1 : commands'[k] = commands[k + 1]
    BY <1>4, Popped DEF Taking
  <2> SUFFICES ASSUME NEW k \in 1 .. Len(commands'), Op(k)' = "Connect"
               PROVE  LET e == commands'[k].epoch
                      IN /\ 0 < e /\ e <= ui'.epoch
                         /\ workers'[e].phase = "none"
                         /\ e = ui'.epoch => ui'.state = "Connecting" /\ ui'.tls = commands'[k].tls
                         /\ \A j \in 1 .. k - 1 : Op(j)' = "Connect" => commands'[j].epoch < e
    BY DEF ConnectsFit
  <2>2. k + 1 \in 1 .. Len(commands) /\ commands'[k] = commands[k + 1] /\ Op(k + 1) = "Connect"
    BY <2>1 DEF Op
  <2>3. \A j \in 1 .. k - 1 : j + 1 \in 1 .. k + 1 - 1 /\ commands'[j] = commands[j + 1]
    BY <2>1
  <2> QED
    BY <1>2, <2>2, <2>3 DEF Op
<1>5. CASE \E op : op # "Connect" /\ Putting(op)
  <2>1. PICK c : c.op # "Connect" /\ commands' = Append(commands, c)
    BY <1>5 DEF Putting
  <2>2. /\ Len(commands) \in Nat /\ Len(commands') = Len(commands) + 1
        /\ commands'[Len(commands) + 1] = c
        /\ \A k \in 1 .. Len(commands) : commands'[k] = commands[k]
    BY <2>1, Pushed
  <2> SUFFICES ASSUME NEW k \in 1 .. Len(commands'), Op(k)' = "Connect"
               PROVE  LET e == commands'[k].epoch
                      IN /\ 0 < e /\ e <= ui'.epoch
                         /\ workers'[e].phase = "none"
                         /\ e = ui'.epoch => ui'.state = "Connecting" /\ ui'.tls = commands'[k].tls
                         /\ \A j \in 1 .. k - 1 : Op(j)' = "Connect" => commands'[j].epoch < e
    BY DEF ConnectsFit
  <2>3. k \in 1 .. Len(commands) /\ commands'[k] = commands[k] /\ Op(k) = "Connect"
    BY <2>1, <2>2 DEF Op
  <2>4. \A j \in 1 .. k - 1 : commands'[j] = commands[j]
    BY <2>2, <2>3
  <2> QED
    BY <1>2, <2>3, <2>4 DEF Op
<1> QED
  BY <1>3, <1>4, <1>5

\* The hub's connect starts the worker of an epoch that had none, and only that one.
LEMMA ConnectStarts ==
    ASSUME TypeOK, ConnectsFit, TableFits, HubConnect
    PROVE  LET e == commands[1].epoch
           IN /\ Taking /\ e \in Epochs /\ e # 0 /\ e <= ui.epoch /\ commands[1].tls \in BOOLEAN
              /\ workers[e] = NoWorker /\ wire[e] = <<>> /\ task # e /\ task' = e
              /\ workers'[e] = NewWorker(commands[1].tls)
              /\ \A d \in Epochs : d # e /\ d # task => workers'[d] = workers[d]
              /\ task # 0 => workers'[task] = Abort(workers[task])
              /\ task = 0 => workers'[0] = workers[0]
<1> DEFINE e == commands[1].epoch
           old == IF task = 0 THEN workers ELSE [workers EXCEPT ![task] = Abort(@)]
<1>1. /\ Taking /\ Head(commands) = commands[1] /\ 1 \in 1 .. Len(commands)
      /\ Op(1) = "Connect" /\ commands[1] \in Commands
  <2>1. Taking /\ Head(commands).op = "Connect"
    BY DEF HubConnect, Serving, Served, Taking
  <2>2. /\ Len(commands) \in Nat /\ Len(commands) > 0
        /\ Head(commands) = commands[1] /\ commands[1] \in Commands
    BY <2>1, Popped DEF Taking
  <2> QED
    BY <2>1, <2>2 DEF Op
<1>2. e \in Epochs /\ commands[1].tls \in BOOLEAN
  BY <1>1 DEF Commands, Op
<1>3. 0 < e /\ e <= ui.epoch /\ workers[e].phase = "none"
  BY <1>1 DEF ConnectsFit
<1>4. workers[e] = NoWorker /\ wire[e] = <<>> /\ task # e /\ e # 0 /\ task \in Epochs
  BY <1>2, <1>3 DEF TableFits, Epochs, TypeOK
<1>5. workers' = [old EXCEPT ![e] = NewWorker(commands[1].tls)] /\ task' = e
  BY <1>1 DEF HubConnect
<1>6. /\ old \in [Epochs -> Workers]
      /\ \A d \in Epochs : d # task => old[d] = workers[d]
      /\ task # 0 => old[task] = Abort(workers[task])
      /\ task = 0 => old[0] = workers[0]
  BY <1>4, WorkerTypes DEF TypeOK
<1> HIDE DEF old, e
<1>7. /\ workers'[e] = NewWorker(commands[1].tls)
      /\ \A d \in Epochs : d # e => workers'[d] = old[d]
  BY <1>2, <1>5, <1>6
<1> QED
  BY <1>1, <1>2, <1>3, <1>4, <1>5, <1>6, <1>7 DEF e

LEMMA ConnectsNext ==
    ASSUME TypeOK, ConnectsFit, TableFits, EventsAreTrue, Next
    PROVE  ConnectsFit'
<1>1. TypeOK' /\ ui.epoch \in Nat
  <2>1. TypeOK'
    BY NextType
  <2>2. ui.epoch \in Nat
    BY BoundsAssumption DEF TypeOK, Epochs
  <2> QED
    BY <2>1, <2>2
<1>2. CASE Ui
  <2>1. Grown
    BY <1>2, UiQueues, UnchangedGrown
  <2>2. ASSUME NEW tls \in BOOLEAN, UiConnect(tls) PROVE ConnectsFit'
    <3> DEFINE e == ui.epoch + 1
    <3>1. /\ ui' = [state |-> "Connecting", epoch |-> e, tls |-> tls]
          /\ commands' = Append(commands, ConnectCommand(e, tls)) /\ workers' = workers
      BY <2>2 DEF UiConnect, Request
    <3>2. /\ Len(commands) \in Nat /\ Len(commands') = Len(commands) + 1
          /\ commands'[Len(commands) + 1] = ConnectCommand(e, tls)
          /\ \A k \in 1 .. Len(commands) : commands'[k] = commands[k]
      BY <3>1, Pushed
    <3>3. ASSUME NEW k \in 1 .. Len(commands), Op(k) = "Connect"
          PROVE  /\ 0 < commands[k].epoch /\ commands[k].epoch < e
                 /\ commands[k].epoch \in Nat
                 /\ workers[commands[k].epoch].phase = "none"
                 /\ \A j \in 1 .. k - 1 : Op(j) = "Connect" => commands[j].epoch < commands[k].epoch
      <4>1. commands[k].epoch \in Nat
        BY <3>3, BoundsAssumption DEF TypeOK, Commands, Epochs, Op
      <4> QED
        BY <1>1, <3>3, <4>1 DEF ConnectsFit
    <3>4. workers[e].phase = "none"
      <4>1. e \in Epochs /\ ui.epoch < e
        BY <1>1, <2>2, BoundsAssumption DEF UiConnect, Epochs
      <4> QED
        BY <4>1 DEF TableFits
    <3> SUFFICES ASSUME NEW k \in 1 .. Len(commands'), Op(k)' = "Connect"
                 PROVE  LET d == commands'[k].epoch
                        IN /\ 0 < d /\ d <= ui'.epoch
                           /\ workers'[d].phase = "none"
                           /\ d = ui'.epoch => ui'.state = "Connecting" /\ ui'.tls = commands'[k].tls
                           /\ \A j \in 1 .. k - 1 : Op(j)' = "Connect" => commands'[j].epoch < d
      BY DEF ConnectsFit
    <3>5. CASE k = Len(commands) + 1
      <4>1. commands'[k].epoch = e /\ commands'[k].tls = tls
        BY <3>2, <3>5 DEF ConnectCommand
      <4>2. \A j \in 1 .. k - 1 : j \in 1 .. Len(commands) /\ commands'[j] = commands[j]
        BY <3>2, <3>5
      <4>3. ui'.epoch = e /\ ui'.state = "Connecting" /\ ui'.tls = tls
        BY <3>1
      <4> QED
        BY <1>1, <3>1, <3>3, <3>4, <4>1, <4>2, <4>3 DEF Op
    <3>6. CASE k # Len(commands) + 1
      <4>1. k \in 1 .. Len(commands) /\ commands'[k] = commands[k] /\ Op(k) = "Connect"
        BY <3>2, <3>6 DEF Op
      <4>2. \A j \in 1 .. k - 1 : commands'[j] = commands[j]
        BY <3>2, <4>1
      <4>3. ui'.epoch = e
        BY <3>1
      <4> QED
        BY <1>1, <3>1, <3>3, <4>1, <4>2, <4>3 DEF Op
    <3> QED
      BY <3>5, <3>6
  <2>3. CASE UiWrite \/ UiDropHub
    <3>1. ui' = ui /\ \E op : op # "Connect" /\ Putting(op)
      BY <2>3, UiPuts DEF UiWrite, UiDropHub
    <3> QED
      BY <1>1, <2>1, <3>1, ConnectsKept
  <2>4. CASE UiShutdown
    <3>1. ui'.epoch > ui.epoch
      BY <1>1, <2>4 DEF UiShutdown, TypeOK
    <3>2. Putting("Close")
      BY <2>4, UiPuts
    <3> QED
      BY <1>1, <2>1, <3>1, <3>2, ConnectsKept
  <2>5. CASE Deliver
    <3>1. ui'.epoch = ui.epoch /\ ui'.tls = ui.tls /\ ui'.state = Apply(Head(events))
      BY <2>5 DEF Deliver, TypeOK
    <3>2. Len(events) \in Nat /\ 1 \in 1 .. Len(events) /\ Head(events) = events[1]
      BY <2>5 DEF Deliver, TypeOK
    <3>3. workers[events[1].epoch].phase # "none"
      BY <3>2 DEF EventsAreTrue
    <3>4. workers[ui.epoch].phase = "none" => ui'.state = ui.state
      BY <3>1, <3>2, <3>3 DEF Apply
    <3> QED
      BY <1>1, <2>1, <2>5, <3>1, <3>4, ConnectsKept DEF Deliver
  <2> QED
    BY <1>2, <2>2, <2>3, <2>4, <2>5 DEF Ui
<1>3. CASE Hub /\ ~ HubConnect
  <2>1. Grown /\ ui' = ui /\ (commands' = commands \/ Taking)
    BY <1>3, HubGrown, HubQueues
  <2> QED
    BY <1>1, <2>1, ConnectsKept
<1>4. CASE HubConnect
  <2> DEFINE e == commands[1].epoch
  <2>1. /\ Taking /\ e \in Epochs /\ task # e /\ ui' = ui
        /\ \A d \in Epochs : d # e /\ d # task => workers'[d] = workers[d]
        /\ task = 0 => workers'[0] = workers[0]
    BY <1>4, ConnectStarts DEF HubConnect
  <2>2. /\ Len(commands) \in Nat /\ Len(commands) > 0 /\ Len(commands') = Len(commands) - 1
        /\ \A k \in 1 .. Len(commands) - 1 : commands'[k] = commands[k + 1]
        /\ Op(1) = "Connect"
    BY <1>4, <2>1, Popped DEF Taking, HubConnect, Serving, Op
  <2> SUFFICES ASSUME NEW k \in 1 .. Len(commands'), Op(k)' = "Connect"
               PROVE  LET d == commands'[k].epoch
                      IN /\ 0 < d /\ d <= ui'.epoch
                         /\ workers'[d].phase = "none"
                         /\ d = ui'.epoch => ui'.state = "Connecting" /\ ui'.tls = commands'[k].tls
                         /\ \A j \in 1 .. k - 1 : Op(j)' = "Connect" => commands'[j].epoch < d
    BY DEF ConnectsFit
  <2>3. k + 1 \in 1 .. Len(commands) /\ commands'[k] = commands[k + 1] /\ Op(k + 1) = "Connect"
    BY <2>2 DEF Op
  <2>4. \A j \in 1 .. k - 1 : j + 1 \in 1 .. k + 1 - 1 /\ commands'[j] = commands[j + 1]
    BY <2>2
  <2> DEFINE d == commands[k + 1].epoch
  <2>5. /\ 0 < d /\ d <= ui.epoch /\ workers[d].phase = "none"
        /\ d = ui.epoch => ui.state = "Connecting" /\ ui.tls = commands[k + 1].tls
        /\ \A j \in 1 .. k + 1 - 1 : Op(j) = "Connect" => commands[j].epoch < d
    BY <2>3 DEF ConnectsFit
  <2>6. d \in Epochs
    BY <2>3 DEF TypeOK, Commands, Op
  <2>7. e < d
    BY <2>2, <2>5
  <2>8. d # task \/ task = 0
    BY <2>5 DEF TableFits
  <2>9. workers'[d].phase = "none"
    BY <2>1, <2>5, <2>6, <2>7, <2>8, BoundsAssumption DEF Epochs
  <2> QED
    BY <2>1, <2>3, <2>4, <2>5, <2>9 DEF Op
<1>5. ASSUME NEW e \in Epochs, Worker(e) PROVE ConnectsFit'
  <2>1. Command("Finished", e).op = "Finished"
    BY DEF Command
  <2>2. ui' = ui /\ (commands' = commands \/ Putting("Finished"))
    BY <1>5, <2>1, WorkerQueues DEF Putting
  <2>3. Grown
    BY <1>5, WorkerGrown
  <2> QED
    BY <1>1, <2>2, <2>3, ConnectsKept
<1> QED
  BY <1>2, <1>3, <1>4, <1>5 DEF Next, Hub

\* A finish notice outlives its worker, and no later connect revives that epoch.
LEMMA FinishesNext ==
    ASSUME TypeOK, ConnectsFit, TableFits, FinishesFit, Next
    PROVE  FinishesFit'
<1>1. ASSUME NEW k \in 1 .. Len(commands), Op(k) = "Finished"
      PROVE  workers'[commands[k].epoch].phase = "ended"
  <2>1. commands[k].epoch \in Epochs
    BY <1>1 DEF TypeOK, Commands, Op
  <2>2. workers[commands[k].epoch].phase = "ended"
    BY <1>1 DEF FinishesFit
  <2>3. CASE Grown
    BY <2>1, <2>2, <2>3 DEF Grown, Advance
  <2>4. CASE HubConnect
    <3>1. Abort(workers[commands[k].epoch]) = workers[commands[k].epoch]
      BY <2>2 DEF Abort
    <3>2. workers[commands[1].epoch].phase = "none"
      BY <2>4, ConnectStarts DEF NoWorker
    <3> QED
      BY <2>1, <2>2, <2>4, <3>1, <3>2, ConnectStarts
  <2> QED
    BY <2>3, <2>4, UiQueues, UnchangedGrown, HubGrown, WorkerGrown DEF Next
<1>2. CASE \E op : op # "Finished" /\ Putting(op)
  <2>1. PICK c : c.op # "Finished" /\ commands' = Append(commands, c)
    BY <1>2 DEF Putting
  <2> QED
    BY <1>1, <2>1, Pushed DEF FinishesFit, Op
<1>3. CASE commands' = commands
  BY <1>1, <1>3 DEF FinishesFit, Op
<1>4. CASE Taking
  BY <1>1, <1>4, Popped DEF FinishesFit, Op, Taking
<1>5. ASSUME NEW e \in Epochs, commands' = Append(commands, Command("Finished", e)),
             workers'[e].phase = "ended"
      PROVE  FinishesFit'
  <2>1. Command("Finished", e).epoch = e
    BY DEF Command
  <2> QED
    BY <1>1, <1>5, <2>1, Pushed DEF FinishesFit, Op
<1>6. CASE Ui
  BY <1>2, <1>3, <1>6, UiQueues
<1>7. CASE Hub
  BY <1>3, <1>4, <1>7, HubQueues
<1>8. ASSUME NEW e \in Epochs, Worker(e) PROVE FinishesFit'
  BY <1>3, <1>5, <1>8, WorkerQueues
<1> QED
  BY <1>6, <1>7, <1>8 DEF Next

LEMMA TableNext ==
    ASSUME TypeOK, ConnectsFit, TableFits, Next
    PROVE  TableFits'
<1>1. /\ ui.epoch \in Epochs /\ task \in Epochs /\ ui.epoch \in Nat /\ task \in Nat
      /\ \A e \in Epochs : e \in Nat
  BY BoundsAssumption DEF TypeOK, Epochs
<1>2. ASSUME Grown, ui'.epoch \in Nat, ui.epoch <= ui'.epoch, task' \in {0, task},
             \A e \in Epochs : workers[e].phase = "none" => wire'[e] = wire[e]
      PROVE  TableFits'
  <2>1. task' # 0 => workers'[task'].phase # "none"
    BY <1>1, <1>2 DEF TableFits, Grown, Advance
  <2>2. task' <= ui'.epoch
    BY <1>1, <1>2 DEF TableFits
  <2>3. ASSUME NEW e \in Epochs, ui'.epoch < e PROVE workers'[e].phase = "none"
    <3>1. ui.epoch < e
      BY <1>1, <1>2, <2>3
    <3> QED
      BY <1>2, <3>1 DEF TableFits, Grown, Advance
  <2>4. ASSUME NEW e \in Epochs, workers'[e].phase = "none"
        PROVE  workers'[e] = NoWorker /\ wire'[e] = <<>>
    <3>1. workers[e].phase = "none" /\ workers'[e] = workers[e]
      BY <1>2, <2>4 DEF Grown, Advance
    <3> QED
      BY <1>2, <3>1 DEF TableFits
  <2>5. workers'[0].phase = "none"
    BY <1>2, BoundsAssumption DEF TableFits, Grown, Advance, Epochs
  <2>6. \A e \in Epochs : Unopened(workers'[e])
    BY <1>2 DEF TableFits, Grown, Advance
  <2> QED
    BY <2>1, <2>2, <2>3, <2>4, <2>5, <2>6 DEF TableFits
<1>3. CASE Ui
  <2>1. ui'.epoch \in Nat /\ ui.epoch <= ui'.epoch
    <3>1. ASSUME NEW tls \in BOOLEAN, UiConnect(tls) PROVE ui'.epoch = ui.epoch + 1
      BY <3>1 DEF UiConnect
    <3>2. UiShutdown => ui'.epoch = ui.epoch + 1
      BY DEF UiShutdown, TypeOK
    <3>3. Deliver => ui'.epoch = ui.epoch
      BY DEF Deliver, TypeOK
    <3> QED
      BY <1>1, <1>3, <3>1, <3>2, <3>3, UiQueues
  <2> QED
    BY <1>2, <1>3, <2>1, UiQueues, UnchangedGrown
<1>4. CASE Hub /\ ~ HubConnect
  <2>1. Grown /\ ui' = ui /\ wire' = wire
    BY <1>4, HubGrown, HubQueues
  <2>2. task' \in {0, task}
    BY <1>4 DEF Hub, HubWrite, HubClose, HubFinished, HubStop, HubExits
  <2> QED
    BY <1>1, <1>2, <2>1, <2>2
<1>5. CASE HubConnect
  <2> DEFINE e == commands[1].epoch
  <2>1. /\ e \in Epochs /\ e # 0 /\ e <= ui.epoch /\ commands[1].tls \in BOOLEAN
        /\ task # e /\ task' = e
        /\ workers'[e] = NewWorker(commands[1].tls)
        /\ \A d \in Epochs : d # e /\ d # task => workers'[d] = workers[d]
        /\ task # 0 => workers'[task] = Abort(workers[task])
        /\ task = 0 => workers'[0] = workers[0]
    BY <1>5, ConnectStarts
  <2>2. ui' = ui /\ wire' = wire
    BY <1>5 DEF HubConnect
  <2>3. workers'[e].phase = "dialling"
    BY <2>1 DEF NewWorker, NoWorker
  <2>4. task # 0 => workers'[task].phase # "none" /\ workers[task].phase # "none" /\ task <= ui.epoch
    <3>1. \A w \in Workers : w.phase # "none" => Abort(w).phase # "none"
      BY Advances DEF Advance
    <3> QED
      BY <2>1, <3>1 DEF TableFits, TypeOK
  <2> HIDE DEF e
  <2>5. \A d \in Epochs : ui.epoch < d => workers'[d].phase = "none"
    BY <1>1, <2>1, <2>4 DEF TableFits
  <2>6. \A d \in Epochs : workers'[d].phase = "none" => workers'[d] = NoWorker /\ wire[d] = <<>>
    BY <1>1, <2>1, <2>3, <2>4 DEF TableFits
  <2>7. workers'[0].phase = "none"
    BY <2>1, BoundsAssumption DEF TableFits, Epochs
  <2>8. \A d \in Epochs : Unopened(workers'[d])
    <3> TAKE d \in Epochs
    <3>1. Unopened(workers[d]) /\ workers[d] \in Workers
      BY DEF TableFits, TypeOK
    <3>2. CASE d = e
      BY <2>1, <3>2 DEF NewWorker, NoWorker, Unopened
    <3>3. CASE d # e
      <4>1. workers'[d] = workers[d] \/ (workers'[d] = Abort(workers[d]) /\ workers[d].phase # "none")
        BY <2>1, <2>4, <3>3
      <4>2. workers[d].phase # "none" => Advance(workers[d], Abort(workers[d]))
        BY <3>1, Advances
      <4> QED
        BY <3>1, <4>1, <4>2 DEF Advance
    <3> QED
      BY <3>2, <3>3
  <2> QED
    BY <1>1, <2>1, <2>2, <2>3, <2>5, <2>6, <2>7, <2>8 DEF TableFits
<1>6. ASSUME NEW e \in Epochs, Worker(e) PROVE TableFits'
  <2>1. ui' = ui /\ task' = task
    BY <1>6, WorkerQueues
  <2>2. \A d \in Epochs : workers[d].phase = "none" => wire'[d] = wire[d]
    <3>1. wire' = wire \/ (Running(e) /\ \E s : wire' = [wire EXCEPT ![e] = s])
      BY <1>6 DEF Worker, Dialled, Handshaken, NeverOpened, ReadBytes, ReadEnds, WriteFrame, Writing,
                  WriteFails, Goodbye, WorkerEnds, WorkerDropped, WindsDown, GraceExpires
    <3> QED
      BY <3>1 DEF Running, TypeOK
  <2> QED
    BY <1>1, <1>2, <1>6, <2>1, <2>2, WorkerGrown
<1> QED
  BY <1>3, <1>4, <1>5, <1>6 DEF Next, Hub

LEMMA StopNext ==
    ASSUME TypeOK, StopFits, Next
    PROVE  StopFits'
<1>1. CASE commands' = commands /\ (hub' = hub \/ hub # "serving")
  BY <1>1 DEF StopFits, Op
<1>2. ASSUME Taking, hub = "serving", commands[1].op = "Stop" \/ hub' = hub
      PROVE  StopFits'
  <2>1. /\ Len(commands) \in Nat /\ Len(commands) > 0 /\ Len(commands') = Len(commands) - 1
        /\ \A k \in 1 .. Len(commands) - 1 : commands'[k] = commands[k + 1]
    BY <1>2, Popped DEF Taking
  <2>2. ASSUME NEW k \in 1 .. Len(commands'), Op(k)' = "Stop", NEW l \in k + 1 .. Len(commands')
        PROVE  Op(l)' = "Finished"
    <3>1. /\ k + 1 \in 1 .. Len(commands) /\ commands'[k] = commands[k + 1]
          /\ l + 1 \in (k + 1) + 1 .. Len(commands) /\ commands'[l] = commands[l + 1]
      BY <2>1
    <3> QED
      BY <2>2, <3>1 DEF StopFits, Op
  <2>3. ASSUME hub' # "serving", NEW k \in 1 .. Len(commands') PROVE Op(k)' = "Finished"
    <3>1. /\ 1 \in 1 .. Len(commands) /\ Op(1) = "Stop"
          /\ k + 1 \in 1 + 1 .. Len(commands) /\ commands'[k] = commands[k + 1]
      BY <1>2, <2>1, <2>3 DEF Op
    <3> QED
      BY <3>1 DEF StopFits, Op
  <2> QED
    BY <2>2, <2>3 DEF StopFits
<1>3. ASSUME NEW c, commands' = Append(commands, c), hub' = hub, UiRuns \/ c.op = "Finished"
      PROVE  StopFits'
  <2>1. /\ Len(commands) \in Nat /\ Len(commands') = Len(commands) + 1
        /\ commands'[Len(commands) + 1] = c
        /\ \A k \in 1 .. Len(commands) : commands'[k] = commands[k]
    BY <1>3, Pushed
  <2>2. UiRuns => hub = "serving" /\ \A k \in 1 .. Len(commands) : Op(k) # "Stop"
    BY DEF UiRuns, HubHeld, Op, TypeOK
  <2>3. ASSUME NEW k \in 1 .. Len(commands'), Op(k)' = "Stop", NEW l \in k + 1 .. Len(commands')
        PROVE  Op(l)' = "Finished"
    <3>1. k \in 1 .. Len(commands) /\ commands'[k] = commands[k] /\ Op(k) = "Stop"
      BY <2>1, <2>3 DEF Op
    <3>2. c.op = "Finished"
      BY <1>3, <2>2, <3>1
    <3> QED
      BY <2>1, <3>1, <3>2 DEF StopFits, Op
  <2>4. ASSUME hub' # "serving", NEW k \in 1 .. Len(commands') PROVE Op(k)' = "Finished"
    BY <1>3, <2>1, <2>2, <2>4 DEF StopFits, Op
  <2> QED
    BY <2>3, <2>4 DEF StopFits
<1>4. CASE Ui
  BY <1>1, <1>3, <1>4, UiQueues DEF Putting
<1>5. CASE Hub
  BY <1>1, <1>2, <1>5, HubQueues DEF HubExits
<1>6. ASSUME NEW e \in Epochs, Worker(e) PROVE StopFits'
  <2>1. Command("Finished", e).op = "Finished"
    BY DEF Command
  <2> QED
    BY <1>1, <1>3, <1>6, <2>1, WorkerQueues
<1> QED
  BY <1>4, <1>5, <1>6 DEF Next

\* The hub lets go of a worker only when it aborts it, asks it to close or it is over.
LEMMA NoOrphanNext ==
    ASSUME TypeOK, ConnectsFit, TableFits, FinishesFit, NoOrphan, Next
    PROVE  NoOrphan'
<1>1. \A e \in Epochs : workers[e] \in Workers
  BY DEF TypeOK
<1>2. ASSUME Grown,
             NEW e \in Epochs, Running(e)',
             task = e => task' = e \/ workers'[e].closing # "no" \/ ~ Running(e)
      PROVE  task' = e \/ workers'[e].closing # "no" \/ workers'[e].phase = "aborting"
  <2>1. Advance(workers[e], workers'[e])
    BY <1>2 DEF Grown
  <2>2. Running(e)
    BY <1>1, <1>2, <2>1 DEF Running, Advance, Workers
  <2> QED
    BY <1>1, <1>2, <2>1, <2>2 DEF NoOrphan, Advance, Running
<1>3. CASE Grown /\ task' = task
  BY <1>2, <1>3 DEF NoOrphan
<1>4. CASE HubConnect
  <2> DEFINE e == commands[1].epoch
  <2>1. /\ task' = e
        /\ \A d \in Epochs : d # e /\ d # task => workers'[d] = workers[d]
        /\ task # 0 => workers'[task] = Abort(workers[task])
        /\ task = 0 => workers'[0] = workers[0]
    BY <1>4, ConnectStarts
  <2>2. \A w \in Workers :
           Abort(w).phase \in {"dialling", "handshaking", "open", "aborting"} =>
               Abort(w).phase = "aborting"
    BY DEF Abort, Ended, NoWorker, Workers
  <2> HIDE DEF e
  <2> SUFFICES ASSUME NEW d \in Epochs, Running(d)'
               PROVE  task' = d \/ workers'[d].closing # "no" \/ workers'[d].phase = "aborting"
    BY DEF NoOrphan
  <2>3. CASE d = task /\ task # 0
    BY <1>1, <2>1, <2>2, <2>3 DEF Running
  <2>4. CASE d # e /\ (d # task \/ task = 0)
    <3>1. workers'[d] = workers[d]
      BY <2>1, <2>4
    <3>2. Running(d) /\ d # 0
      BY <3>1 DEF Running, TableFits
    <3> QED
      BY <2>4, <3>1, <3>2 DEF NoOrphan
  <2> QED
    BY <2>1, <2>3, <2>4
<1>5. CASE HubClose
  <2>1. task # 0 => workers'[task] = AsksToClose(workers[task])
    BY <1>5 DEF HubClose, TypeOK
  <2>2. \A w \in Workers :
           AsksToClose(w).phase \in {"dialling", "handshaking", "open", "aborting"} =>
               AsksToClose(w).closing # "no"
    BY DEF AsksToClose, Workers
  <2>3. Grown
    BY <1>5, HubGrown DEF Hub, HubClose, HubConnect, Serving
  <2>4. \A e \in Epochs : Running(e) => e # 0
    BY DEF Running, TableFits
  <2> SUFFICES ASSUME NEW e \in Epochs, Running(e)'
               PROVE  task' = e \/ workers'[e].closing # "no" \/ workers'[e].phase = "aborting"
    BY DEF NoOrphan
  <2>5. task = e => workers'[e].closing # "no" \/ ~ Running(e)
    BY <1>1, <2>1, <2>2, <2>4 DEF Running
  <2> QED
    BY <1>2, <2>3, <2>5
<1>6. CASE HubFinished
  <2>1. Taking /\ commands[1].op = "Finished" /\ Head(commands) = commands[1]
    BY <1>6, Popped DEF HubFinished, Serving, Served, Taking
  <2>2. 1 \in 1 .. Len(commands)
    BY <2>1, Popped DEF Taking
  <2>3. workers[commands[1].epoch].phase = "ended"
    BY <2>1, <2>2 DEF FinishesFit, Op
  <2>4. Grown /\ \A e \in Epochs : task = e => task' = e \/ ~ Running(e)
    BY <1>6, <2>1, <2>3, UnchangedGrown DEF HubFinished, Forgets, Running
  <2> QED
    BY <1>2, <2>4 DEF NoOrphan
<1>7. CASE HubExits
  <2>1. \A e \in Epochs : ~ Running(e)'
    BY <1>7 DEF HubExits, Running, Ended, NoWorker
  <2> QED
    BY <2>1 DEF NoOrphan
<1>8. CASE Ui
  BY <1>3, <1>8, UiQueues, UnchangedGrown
<1>9. CASE HubWrite \/ HubStop
  <2>1. Hub /\ ~ HubConnect /\ task' = task
    BY <1>9 DEF Hub, HubWrite, HubStop, HubConnect, Serving
  <2> QED
    BY <1>3, <2>1, HubGrown
<1>10. ASSUME NEW e \in Epochs, Worker(e) PROVE NoOrphan'
  BY <1>3, <1>10, WorkerGrown, WorkerQueues
<1> QED
  BY <1>4, <1>5, <1>6, <1>7, <1>8, <1>9, <1>10 DEF Next, Hub

-----------------------------------------------------------------------------
(* The events and the transport's state *)

LEMMA LiveGrown ==
    ASSUME TypeOK, ConnectsFit, TableFits, Next
    PROVE  \A e \in Epochs : workers[e].phase # "none" => Advance(workers[e], workers'[e])
<1>1. Grown \/ HubConnect
  BY UiQueues, UnchangedGrown, HubGrown, WorkerGrown DEF Next
<1>2. CASE HubConnect
  <2> SUFFICES ASSUME NEW e \in Epochs, workers[e].phase # "none"
               PROVE  Advance(workers[e], workers'[e])
    OBVIOUS
  <2>1. workers[e] \in Workers /\ e # 0
    BY DEF TypeOK, TableFits
  <2>2. e # commands[1].epoch
    BY <1>2, ConnectStarts DEF NoWorker
  <2>3. workers'[e] = workers[e] \/ workers'[e] = Abort(workers[e])
    BY <1>2, <2>1, <2>2, ConnectStarts
  <2> QED
    BY <2>1, <2>3, Advances
<1> QED
  BY <1>1, <1>2 DEF Grown

Sends(e, event) == events' = Append(events, [epoch |-> e, event |-> event])

\* What a worker sends, and how it moves as it does.
LEMMA WorkerSends ==
    ASSUME TypeOK, TableFits, NEW e \in Epochs, Worker(e)
    PROVE  /\ \A d \in Epochs : d # e => workers'[d] = workers[d]
           /\ \/ events' = events
              \/ UiRuns /\ Sends(e, "Connected") /\ workers[e].phase = "dialling"
                   /\ workers'[e] = AfterDial(workers[e])
              \/ UiRuns /\ Sends(e, "Encrypted") /\ workers[e].phase = "handshaking"
                   /\ workers'[e] = Opened(workers[e])
              \/ UiRuns /\ Sends(e, "Bytes") /\ workers[e].reading /\ workers' = workers
              \/ /\ UiRuns /\ Sends(e, "Closed") /\ workers[e].reading
                 /\ workers'[e].phase \notin {"none", "dialling", "handshaking"}
                 /\ ~ workers'[e].reading
              \/ /\ UiRuns /\ Sends(e, "Failed")
                 /\ workers'[e].phase \notin {"none", "dialling", "handshaking"}
                 /\ ~ workers'[e].reading
<1> DEFINE w == workers[e]
<1>1. /\ w \in Workers
      /\ w.writer = "running" \/ w.reading => w.phase \notin {"none", "dialling", "handshaking"}
  BY DEF TypeOK, TableFits, NoWorker, Unopened
<1>2. ASSUME NEW v, Becomes(e, v)
      PROVE  workers'[e] = v /\ \A d \in Epochs : d # e => workers'[d] = workers[d]
  BY <1>2 DEF Becomes, TypeOK
<1>3. \A event : Report(e, event) => events' = events \/ (UiRuns /\ Sends(e, event))
  BY DEF Report, Sends
<1>4. CASE Dialled(e)
  BY <1>2, <1>3, <1>4 DEF Dialled
<1>5. CASE Handshaken(e)
  BY <1>2, <1>3, <1>5 DEF Handshaken
<1>6. CASE NeverOpened(e)
  <2>1. Ended(w).phase = "ended" /\ ~ Ended(w).reading
    BY DEF Ended, NoWorker
  <2> QED
    BY <1>2, <1>3, <1>6, <2>1 DEF NeverOpened
<1>7. CASE ReadBytes(e)
  BY <1>3, <1>7 DEF ReadBytes
<1>8. CASE ReadEnds(e, "Closed") \/ ReadEnds(e, "Failed")
  <2>1. [w EXCEPT !.reading = FALSE].phase = w.phase /\ ~ [w EXCEPT !.reading = FALSE].reading
    BY <1>1 DEF Workers
  <2> QED
    BY <1>1, <1>2, <1>3, <1>8, <2>1 DEF ReadEnds
<1>9. CASE WriteFails(e)
  <2> DEFINE v == [w EXCEPT !.writer = "failed", !.reading = FALSE]
  <2>1. v.phase = w.phase /\ ~ v.reading
    BY <1>1 DEF Workers
  <2>2. Becomes(e, v) /\ Report(e, "Failed") /\ w.writer = "running"
    BY <1>9 DEF WriteFails, Writing
  <2> HIDE DEF v
  <2> QED
    BY <1>1, <1>2, <1>3, <2>1, <2>2
<1>10. CASE \/ WriteFrame(e) \/ Goodbye(e) \/ WorkerEnds(e) \/ WorkerDropped(e) \/ WindsDown(e)
            \/ GraceExpires(e)
  <2>1. events' = events /\ \E v : Becomes(e, v)
    BY <1>10 DEF WriteFrame, Goodbye, WorkerEnds, WorkerDropped, WindsDown, GraceExpires
  <2> QED
    BY <1>2, <2>1
<1> QED
  BY <1>4, <1>5, <1>6, <1>7, <1>8, <1>9, <1>10 DEF Worker

\* A true event of a worker is still true when the worker has moved on.
TrueOf(event, w) ==
    /\ w.phase \notin {"none", "dialling"}
    /\ event = "Encrypted" => w.tls /\ w.phase # "handshaking"
    /\ event \in {"Closed", "Failed"} => w.phase # "handshaking" /\ ~ w.reading

LEMMA EventsNext ==
    ASSUME TypeOK, ConnectsFit, TableFits, EventsAreTrue, Next
    PROVE  EventsAreTrue'
<1>1. /\ events \in Seq(Deliveries) /\ Len(events) \in Nat
      /\ \A k \in 1 .. Len(events) : events[k].epoch \in Epochs
  <2>1. events \in Seq(Deliveries)
    BY DEF TypeOK
  <2>2. \A k \in 1 .. Len(events) : events[k] \in Deliveries
    BY <2>1
  <2> QED
    BY <2>1, <2>2 DEF Deliveries
<1>2. ASSUME NEW k \in 1 .. Len(events)
      PROVE  TrueOf(events[k].event, workers'[events[k].epoch])
  <2>1. TrueOf(events[k].event, workers[events[k].epoch])
    BY DEF EventsAreTrue, TrueOf
  <2>2. Advance(workers[events[k].epoch], workers'[events[k].epoch])
    BY <1>1, <2>1, LiveGrown DEF TrueOf
  <2> QED
    BY <2>1, <2>2 DEF TrueOf, Advance
<1>3. SUFFICES \A k \in 1 .. Len(events') : TrueOf(events'[k].event, workers'[events'[k].epoch])
  BY DEF EventsAreTrue, TrueOf
<1>4. CASE events' = events
  BY <1>2, <1>4
<1>5. CASE Deliver
  <2>1. Len(events') = Len(events) - 1 /\ \A k \in 1 .. Len(events) - 1 : events'[k] = events[k + 1]
    BY <1>1, <1>5 DEF Deliver
  <2> QED
    BY <1>1, <1>2, <2>1
<1>6. CASE UiDropHub
  BY <1>6 DEF UiDropHub
<1>7. ASSUME NEW e \in Epochs, NEW event, Sends(e, event), TrueOf(event, workers'[e])
      PROVE  \A k \in 1 .. Len(events') : TrueOf(events'[k].event, workers'[events'[k].epoch])
  <2> DEFINE x == [epoch |-> e, event |-> event]
  <2>1. x.epoch = e /\ x.event = event /\ events' = Append(events, x)
    BY <1>7 DEF Sends
  <2> HIDE DEF x
  <2>2. /\ Len(events') = Len(events) + 1 /\ events'[Len(events) + 1] = x
        /\ \A k \in 1 .. Len(events) : events'[k] = events[k]
    BY <1>1, <2>1
  <2> QED
    BY <1>1, <1>2, <1>7, <2>1, <2>2
<1>8. ASSUME NEW e \in Epochs, Worker(e), events' # events
      PROVE  \E event : Sends(e, event) /\ TrueOf(event, workers'[e])
  <2>1. workers[e] \in Workers /\ Unopened(workers[e])
    BY DEF TypeOK, TableFits
  <2>2. /\ workers[e].phase = "dialling" => TrueOf("Connected", AfterDial(workers[e]))
        /\ workers[e].phase = "handshaking" => TrueOf("Encrypted", Opened(workers[e]))
    BY <2>1 DEF TrueOf, AfterDial, Opened, Workers, Unopened
  <2>3. workers[e].reading => TrueOf("Bytes", workers[e])
    BY <2>1 DEF TrueOf, Unopened, TableFits, NoWorker
  <2>4. ~ workers'[e].reading /\ workers'[e].phase \notin {"none", "dialling", "handshaking"} =>
           TrueOf("Closed", workers'[e]) /\ TrueOf("Failed", workers'[e])
    BY DEF TrueOf
  <2> QED
    BY <1>8, <2>2, <2>3, <2>4, WorkerSends
<1>9. CASE Ui
  BY <1>4, <1>5, <1>6, <1>9, UiQueues
<1>10. CASE Hub
  BY <1>4, <1>10, HubQueues
<1>11. CASE \E e \in Epochs : Worker(e)
  BY <1>4, <1>7, <1>8, <1>11
<1> QED
  BY <1>9, <1>10, <1>11 DEF Next

LEMMA UiFitsNext ==
    ASSUME TypeOK, ConnectsFit, TableFits, EventsAreTrue, UiFits, Next
    PROVE  UiFits'
<1>1. /\ ui.epoch \in Epochs /\ ui.epoch \in Nat /\ ui.state \in UiStates /\ ui.tls \in BOOLEAN
      /\ workers[ui.epoch] \in Workers
  BY BoundsAssumption DEF TypeOK, Epochs, UiStates
<1>2. CASE ui' = ui /\ workers[ui.epoch].phase # "none"
  <2>1. Advance(workers[ui.epoch], workers'[ui.epoch])
    BY <1>1, <1>2, LiveGrown
  <2> QED
    BY <1>1, <1>2, <2>1 DEF UiFits, StateIsOwn, Advance, InFlight
<1>3. CASE ui' = ui /\ workers'[ui.epoch] = workers[ui.epoch]
  BY <1>3 DEF UiFits, StateIsOwn
<1>4. CASE ui' = ui /\ workers[ui.epoch].phase = "none" /\ ~ HubConnect
  <2>1. Grown
    BY <1>4, UiQueues, UnchangedGrown, HubGrown, WorkerGrown DEF Next
  <2>2. workers'[ui.epoch] = workers[ui.epoch]
    BY <1>1, <1>4, <2>1 DEF Grown, Advance
  <2> QED
    BY <1>3, <1>4, <2>2
<1>5. CASE HubConnect /\ workers[ui.epoch].phase = "none"
  <2> DEFINE e == commands[1].epoch
  <2>1. /\ Taking /\ e \in Epochs /\ commands[1].tls \in BOOLEAN
        /\ workers'[e] = NewWorker(commands[1].tls)
        /\ \A d \in Epochs : d # e /\ d # task => workers'[d] = workers[d]
        /\ task = 0 => workers'[0] = workers[0]
    BY <1>5, ConnectStarts
  <2>2. ui' = ui /\ 1 \in 1 .. Len(commands) /\ Op(1) = "Connect"
    BY <1>5, <2>1, Popped DEF HubConnect, Serving, Taking, Op
  <2>3. CASE e = ui.epoch
    <3>1. ui.state = "Connecting" /\ ui.tls = commands[1].tls
      BY <2>2, <2>3 DEF ConnectsFit
    <3>2. workers'[ui.epoch].tls = ui.tls /\ workers'[ui.epoch].phase = "dialling"
      BY <2>1, <2>3, <3>1 DEF NewWorker, NoWorker
    <3> QED
      BY <2>2, <3>1, <3>2 DEF UiFits, StateIsOwn, InFlight
  <2>4. CASE e # ui.epoch
    <3>1. task = 0 \/ task # ui.epoch
      BY <1>5 DEF TableFits
    <3>2. workers'[ui.epoch] = workers[ui.epoch]
      BY <1>1, <2>1, <2>4, <3>1
    <3> QED
      BY <1>3, <2>2, <3>2
  <2> QED
    BY <2>3, <2>4
<1>6. ASSUME ui'.epoch = ui.epoch + 1, ui'.epoch \in Epochs, workers' = workers,
             ui'.state \in {"Connecting", "Disconnected"}
      PROVE  UiFits'
  <2>1. workers[ui'.epoch].phase = "none"
    BY <1>1, <1>6 DEF TableFits
  <2>2. workers'[ui'.epoch] = NoWorker
    BY <1>6, <2>1 DEF TableFits
  <2> QED
    BY <1>6, <2>2 DEF UiFits, StateIsOwn, NoWorker
<1>7. CASE Deliver
  <2> DEFINE x == events[1]
  <2>1. /\ ui'.epoch = ui.epoch /\ ui'.tls = ui.tls /\ workers' = workers
        /\ Len(events) \in Nat /\ 1 \in 1 .. Len(events) /\ Head(events) = x
    BY <1>7 DEF Deliver, TypeOK
  <2>2. ui'.state = IF x.epoch = ui.epoch THEN Transition(ui.state, ui.tls, x.event) ELSE ui.state
    BY <1>7, <2>1 DEF Deliver, TypeOK, Apply
  <2>3. TrueOf(x.event, workers[x.epoch])
    BY <2>1 DEF EventsAreTrue, TrueOf
  <2> HIDE DEF x
  <2>4. CASE ui'.state = ui.state
    BY <2>1, <2>4 DEF UiFits, StateIsOwn
  <2>5. CASE ui'.state # ui.state
    <3>1. /\ x.epoch = ui.epoch
          /\ \/ x.event = "Connected" /\ ui'.state = "Connected"
             \/ x.event = "Encrypted" /\ ui'.state = "Encrypted"
             \/ x.event \in {"Closed", "Failed"} /\ ui'.state \in {"Disconnected", "Failed"}
      BY <2>2, <2>5 DEF Transition
    <3> QED
      BY <2>1, <2>3, <3>1 DEF TrueOf, UiFits, StateIsOwn, InFlight
  <2> QED
    BY <2>4, <2>5
<1>8. CASE Ui
  <2>1. TypeOK'
    BY NextType
  <2>2. ui'.epoch \in Epochs
    BY <2>1 DEF TypeOK
  <2>3. ASSUME NEW tls \in BOOLEAN, UiConnect(tls) PROVE UiFits'
    BY <1>6, <2>2, <2>3 DEF UiConnect
  <2>4. CASE UiShutdown
    <3>1. ui'.epoch = ui.epoch + 1 /\ ui'.state = "Disconnected" /\ workers' = workers
      BY <2>4 DEF UiShutdown, TypeOK
    <3> QED
      BY <1>6, <2>2, <3>1
  <2>5. CASE UiWrite \/ UiDropHub
    BY <1>3, <2>5 DEF UiWrite, UiDropHub
  <2> QED
    BY <1>7, <1>8, <2>3, <2>4, <2>5 DEF Ui
<1>9. CASE ui' = ui
  BY <1>2, <1>4, <1>5, <1>9
<1> QED
  BY <1>8, <1>9, HubQueues, WorkerQueues DEF Next

\* Only dropping the hub ends the conversation.
LEMMA RunsOn == ASSUME TypeOK, Next, UiRuns, ~ UiDropHub PROVE UiRuns'
<1>1. TypeOK'
  BY NextType
<1>2. DOMAIN commands = 1 .. Len(commands) /\ DOMAIN commands' = 1 .. Len(commands')
  BY <1>1 DEF TypeOK
<1>3. hub = "serving" /\ \A k \in 1 .. Len(commands) : commands[k].op # "Stop"
  BY <1>2 DEF UiRuns, HubHeld
<1>4. CASE commands' = commands /\ hub' = hub
  BY <1>4 DEF UiRuns, HubHeld
<1>5. CASE Taking /\ hub' = hub
  BY <1>2, <1>3, <1>5, Popped DEF Taking, UiRuns, HubHeld
<1>6. ASSUME NEW c, c.op # "Stop", commands' = Append(commands, c), hub' = hub PROVE UiRuns'
  <2>1. /\ Len(commands) \in Nat /\ Len(commands') = Len(commands) + 1
        /\ commands'[Len(commands) + 1] = c
        /\ \A k \in 1 .. Len(commands) : commands'[k] = commands[k]
    BY <1>6, Pushed
  <2>2. \A k \in 1 .. Len(commands') : commands'[k].op # "Stop"
    BY <1>3, <1>6, <2>1
  <2> QED
    BY <1>2, <1>3, <1>6, <2>2 DEF UiRuns, HubHeld
<1>7. CASE Ui
  BY <1>4, <1>6, <1>7, UiQueues DEF Putting
<1>8. CASE Hub
  <2>1. ~ HubExits
    BY <1>3 DEF HubExits
  <2>2. Taking => commands[1].op # "Stop"
    BY <1>3, Popped DEF Taking
  <2> QED
    BY <1>5, <1>8, <2>1, <2>2, HubQueues
<1>9. ASSUME NEW e \in Epochs, Worker(e) PROVE UiRuns'
  <2>1. Command("Finished", e).op = "Finished"
    BY DEF Command
  <2> QED
    BY <1>4, <1>6, <1>9, <2>1, WorkerQueues
<1> QED
  BY <1>7, <1>8, <1>9 DEF Next

\* A dropped hub stays dropped, and its events with it.
LEMMA DropEnds == ASSUME TypeOK, UiDropHub PROVE ~ UiRuns'
<1>1. commands' = Append(commands, Command("Stop", 0)) /\ Command("Stop", 0).op = "Stop"
  BY DEF UiDropHub, Request, Command
<1>2. TypeOK'
  BY NextType DEF Next, Ui
<1>3. DOMAIN commands' = 1 .. Len(commands')
  BY <1>2 DEF TypeOK
<1>4. Len(commands) + 1 \in 1 .. Len(commands') /\ commands'[Len(commands) + 1] = Command("Stop", 0)
  BY <1>1, Pushed
<1> QED
  BY <1>1, <1>3, <1>4 DEF UiRuns, HubHeld

LEMMA ListensNext == ASSUME TypeOK, TableFits, NobodyListens, Next PROVE NobodyListens'
<1>1. CASE UiRuns /\ ~ UiDropHub
  BY <1>1, RunsOn DEF NobodyListens
<1>2. CASE UiDropHub
  BY <1>2 DEF UiDropHub, NobodyListens
<1>3. CASE ~ UiRuns
  <2>1. events = <<>> /\ events' = events
    BY <1>3, UiQueues, HubQueues, WorkerSends DEF Next, NobodyListens
  <2> QED
    BY <2>1 DEF NobodyListens
<1> QED
  BY <1>1, <1>2, <1>3

-----------------------------------------------------------------------------
(* Turns *)

\* A turn looks only at the events before it, and only at those of its own epoch.
LEMMA TurnAppend ==
    ASSUME NEW S, NEW q \in Seq(S), NEW x \in S, NEW k \in 1 .. Len(q) + 1,
           NEW e, NEW tls, NEW s, NEW event, InTurn(q, k, e, tls, s, event)
    PROVE  InTurn(Append(q, x), k, e, tls, s, event)
<1> DEFINE r == Append(q, x)
<1>1. \A j \in 1 .. k - 1 : r[j] = q[j]
  OBVIOUS
<1> HIDE DEF r
<1>2. Connects(q, k, e, s) => Connects(r, k, e, s)
  BY <1>1 DEF Connects
<1>3. \A state, ev : Shows(q, k, e, s, state, ev) => Shows(r, k, e, s, state, ev)
  BY <1>1 DEF Shows
<1>4. Encrypts(q, k, e, tls, s) => Encrypts(r, k, e, tls, s)
  BY <1>1, <1>3 DEF Encrypts
<1>5. Opens(q, k, e, tls, s) => Opens(r, k, e, tls, s)
  BY <1>3 DEF Opens
<1>6. InTurn(r, k, e, tls, s, event)
  BY <1>2, <1>4, <1>5 DEF InTurn
<1> QED
  BY <1>6 DEF r

LEMMA TurnOther ==
    ASSUME NEW S, NEW q \in Seq(S), NEW x \in S, NEW e, NEW tls, NEW s, NEW event,
           x.epoch # e, InTurn(q, Len(q) + 1, e, tls, s, event)
    PROVE  InTurn(Append(q, x), Len(q) + 2, e, tls, s, event)
<1> DEFINE r == Append(q, x)
           k == Len(q) + 1
<1>1. /\ k \in Nat /\ r[k] = x /\ \A j \in 1 .. k - 1 : r[j] = q[j]
  OBVIOUS
<1> HIDE DEF r, k
<1>2. Connects(q, k, e, s) => Connects(r, k + 1, e, s)
  BY <1>1 DEF Connects
<1>3. ASSUME NEW state, NEW ev, Shows(q, k, e, s, state, ev) PROVE Shows(r, k + 1, e, s, state, ev)
  <2>1. CASE s = state
    BY <2>1 DEF Shows
  <2>2. CASE s # state
    <3>1. PICK j \in 1 .. k - 1 : q[j].epoch = e /\ q[j].event = ev
      BY <1>3, <2>2 DEF Shows
    <3>2. j \in 1 .. k + 1 - 1 /\ r[j].epoch = e /\ r[j].event = ev
      BY <1>1, <3>1
    <3> QED
      BY <1>1, <3>2 DEF Shows
  <2> QED
    BY <2>1, <2>2
<1>4. Encrypts(q, k, e, tls, s) => Encrypts(r, k + 1, e, tls, s)
  BY <1>1, <1>3 DEF Encrypts
<1>5. Opens(q, k, e, tls, s) => Opens(r, k + 1, e, tls, s)
  BY <1>3 DEF Opens
<1>6. InTurn(q, k, e, tls, s, event)
  BY DEF k
<1>7. InTurn(r, k + 1, e, tls, s, event)
  BY <1>2, <1>4, <1>5, <1>6 DEF InTurn
<1>8. k + 1 = Len(q) + 2
  BY DEF k
<1> QED
  BY <1>7, <1>8 DEF r

\* The first event is delivered: what follows is in turn for the state it leads to.
LEMMA TurnTail ==
    ASSUME NEW S, NEW q \in Seq(S), q # <<>>, NEW k \in 2 .. Len(q) + 1, NEW e,
           NEW tls \in BOOLEAN, NEW s, InFlight(s), NEW event,
           InTurn(q, k, e, tls, s, event),
           q[1].epoch = e => InTurn(q, 1, e, tls, s, q[1].event) /\ q[1].event \in IoEvent,
           NEW t, t = IF q[1].epoch = e THEN Transition(s, tls, q[1].event) ELSE s, InFlight(t)
    PROVE  InTurn(Tail(q), k - 1, e, tls, t, event)
<1> DEFINE r == Tail(q)
<1>1. \A j \in 1 .. k - 2 : r[j] = q[j + 1]
  OBVIOUS
<1> HIDE DEF r
<1>2. /\ 1 \in 1 .. k - 1 /\ k - 1 - 1 = k - 2 /\ k \in Nat
      /\ \A j \in 1 .. k - 2 : j + 1 \in 1 .. k - 1
      /\ \A j \in 1 .. k - 1 : j # 1 => j - 1 \in 1 .. k - 2 /\ r[j - 1] = q[j]
  BY <1>1
<1>3. /\ Connects(q, k, e, s) => s = "Connecting" /\ Connects(r, k - 1, e, s) /\ q[1].epoch # e
      /\ (\A j \in 1 .. k - 1 : q[j].epoch = e => q[j].event = "Connected") =>
            \A j \in 1 .. k - 1 - 1 : r[j].epoch = e => r[j].event = "Connected"
  <2>1. \A j \in 1 .. k - 1 - 1 : r[j] = q[j + 1] /\ j + 1 \in 1 .. k - 1
    BY <1>1, <1>2
  <2>2. Connects(q, k, e, s) => s = "Connecting" /\ q[1].epoch # e
    BY <1>2 DEF Connects
  <2>3. Connects(q, k, e, s) => Connects(r, k - 1, e, s)
    BY <2>1 DEF Connects
  <2> QED
    BY <2>1, <2>2, <2>3
<1>4. ASSUME NEW state, NEW ev, Shows(q, k, e, s, state, ev)
      PROVE  \/ s = state \/ (q[1].epoch = e /\ q[1].event = ev)
             \/ Shows(r, k - 1, e, t, state, ev)
  <2>1. CASE s # state
    <3>1. PICK j \in 1 .. k - 1 : q[j].epoch = e /\ q[j].event = ev
      BY <1>4, <2>1 DEF Shows
    <3>2. CASE j # 1
      BY <1>2, <3>1, <3>2 DEF Shows
    <3> QED
      BY <3>1, <3>2
  <2> QED
    BY <2>1
<1>5. CASE q[1].epoch # e
  <2>1. t = s
    BY <1>5
  <2>2. \A state, ev : Shows(q, k, e, s, state, ev) => Shows(r, k - 1, e, s, state, ev)
    BY <1>4, <1>5, <2>1 DEF Shows
  <2> QED
    BY <1>3, <2>1, <2>2 DEF InTurn, Encrypts, Opens, r
<1>6. CASE q[1].epoch = e /\ q[1].event = "Connected"
  <2>1. s = "Connecting" /\ t = "Connected"
    BY <1>6 DEF InTurn, Connects, Transition
  <2>2. event # "Connected"
    BY <1>3, <1>6 DEF InTurn
  <2>3. Shows(r, k - 1, e, t, "Connected", "Connected")
    BY <2>1 DEF Shows
  <2>4. Shows(q, k, e, s, "Encrypted", "Encrypted") => Shows(r, k - 1, e, t, "Encrypted", "Encrypted")
    BY <1>4, <1>6, <2>1
  <2> QED
    BY <1>3, <2>1, <2>2, <2>3, <2>4 DEF InTurn, Encrypts, Opens, r
<1>7. CASE q[1].epoch = e /\ q[1].event = "Encrypted"
  <2>1. tls /\ s = "Connected" /\ t = "Encrypted"
    BY <1>7 DEF InTurn, Encrypts, Shows, Transition
  <2>2. event # "Connected" /\ event # "Encrypted"
    BY <1>2, <1>3, <1>7 DEF InTurn, Encrypts
  <2>3. Shows(r, k - 1, e, t, "Encrypted", "Encrypted")
    BY <2>1 DEF Shows
  <2> QED
    BY <2>1, <2>2, <2>3 DEF InTurn, Opens, r
<1>8. CASE q[1].epoch = e /\ q[1].event = "Bytes"
  <2>1. t = s /\ Opens(q, 1, e, tls, s)
    BY <1>8 DEF InTurn, Transition
  <2>2. event # "Connected" /\ event # "Encrypted"
    BY <1>2, <1>3, <1>8 DEF InTurn, Encrypts
  <2>3. (tls => s = "Encrypted") /\ (~ tls => s = "Connected")
    BY <2>1 DEF Opens, Shows
  <2> QED
    BY <2>1, <2>2, <2>3 DEF InTurn, Opens, Shows, r
<1>9. CASE q[1].epoch = e /\ q[1].event = "Closed"
  <2>1. Opens(q, 1, e, tls, s)
    BY <1>9 DEF InTurn
  <2>2. s \in {"Connected", "Encrypted"}
    BY <2>1 DEF Opens, Shows
  <2>3. t = "Disconnected"
    BY <1>9, <2>2 DEF Transition, IsOpen
  <2> QED
    BY <2>3 DEF InFlight
<1>10. CASE q[1].epoch = e /\ q[1].event = "Failed"
  <2>1. t = "Failed"
    BY <1>10 DEF Transition
  <2> QED
    BY <2>1 DEF InFlight
<1> QED
  BY <1>5, <1>6, <1>7, <1>8, <1>9, <1>10 DEF IoEvent

\* A worker's move without an event opens nothing.
Calm(w, v) ==
    /\ v.phase \in {"none", "dialling"} => w.phase \in {"none", "dialling"}
    /\ v.phase = "handshaking" => w.phase = "handshaking"
    /\ v.reading => w.reading

LEMMA CalmMoves ==
    ASSUME NEW w \in Workers, w.phase # "none"
    PROVE  /\ Calm(w, w) /\ Calm(w, Ended(w)) /\ Calm(w, Abort(w)) /\ Calm(w, WindDown(w))
           /\ Calm(w, AsksToClose(w)) /\ \A q : Calm(w, [w EXCEPT !.queue = q])
           /\ \A x : Calm(w, [w EXCEPT !.writer = x, !.reading = FALSE])
<1> USE DEF Calm, Workers
<1>1. Calm(w, w) /\ Calm(w, Ended(w))
  BY DEF Ended, NoWorker
<1>2. Calm(w, Abort(w))
  BY <1>1 DEF Abort
<1>3. Calm(w, WindDown(w)) /\ Calm(w, AsksToClose(w))
  BY <1>1, <1>2 DEF WindDown, AsksToClose
<1>4. (\A q : Calm(w, [w EXCEPT !.queue = q])) /\ \A x : Calm(w, [w EXCEPT !.writer = x, !.reading = FALSE])
  OBVIOUS
<1> QED
  BY <1>1, <1>2, <1>3, <1>4

LEMMA CalmTurns ==
    ASSUME NEW w, NEW v, NEW q, NEW e, NEW tls, NEW s, Calm(w, v), Turns(w, q, e, tls, s)
    PROVE  Turns(v, q, e, tls, s)
BY DEF Calm, Turns

LEMMA HubCalm ==
    ASSUME TypeOK, TableFits, ConnectsFit, Hub, NEW e \in Epochs
    PROVE  Calm(workers[e], workers'[e])
<1>1. workers[e] \in Workers /\ (task = e /\ e # 0 => workers[e].phase # "none")
  BY DEF TypeOK, TableFits
<1>2. Calm(workers[e], workers[e])
  BY DEF Calm
<1>3. ASSUME NEW v, workers' = [workers EXCEPT ![task] = v], task # 0,
             task = e => Calm(workers[e], v)
      PROVE  Calm(workers[e], workers'[e])
  BY <1>2, <1>3 DEF TypeOK
<1>4. CASE HubConnect
  <2>1. CASE e = commands[1].epoch
    <3>1. workers[e] = NoWorker /\ workers'[e] = NewWorker(commands[1].tls)
      BY <1>4, <2>1, ConnectStarts
    <3> QED
      BY <3>1 DEF NewWorker, NoWorker, Calm
  <2>2. CASE e # commands[1].epoch
    <3>1. workers'[e] = workers[e] \/ (workers'[e] = Abort(workers[e]) /\ workers[e].phase # "none")
      BY <1>1, <1>4, <2>2, ConnectStarts
    <3> QED
      BY <1>1, <1>2, <3>1, CalmMoves
  <2> QED
    BY <2>1, <2>2
<1>5. CASE HubWrite
  <2> DEFINE v == [workers[task] EXCEPT !.queue = Append(workers[task].queue, Head(commands).frame)]
  <2>1. CASE TakesFrame(Head(commands).epoch)
    <3>1. workers' = [workers EXCEPT ![task] = v] /\ task # 0
      BY <1>5, <2>1 DEF HubWrite, TakesFrame
    <3>2. task = e => Calm(workers[e], v)
      BY <1>1, <3>1, CalmMoves
    <3> QED
      BY <1>3, <3>1, <3>2
  <2>2. CASE ~ TakesFrame(Head(commands).epoch)
    BY <1>2, <1>5, <2>2 DEF HubWrite
  <2> QED
    BY <2>1, <2>2
<1>6. CASE HubClose
  BY <1>1, <1>2, <1>3, <1>6, CalmMoves DEF HubClose
<1>7. CASE HubFinished
  BY <1>2, <1>7 DEF HubFinished
<1>8. CASE HubStop
  BY <1>1, <1>2, <1>3, <1>8, CalmMoves DEF HubStop
<1>9. CASE HubExits
  <2>1. workers'[e] = workers[e] \/ (Running(e) /\ workers'[e] = Ended(workers[e]))
    BY <1>9 DEF HubExits
  <2>2. Running(e) => workers[e].phase # "none"
    BY DEF Running
  <2> QED
    BY <1>1, <1>2, <2>1, <2>2, CalmMoves
<1> QED
  BY <1>4, <1>5, <1>6, <1>7, <1>8, <1>9 DEF Hub

LEMMA WorkerCalm ==
    ASSUME TypeOK, TableFits, UiRuns, NEW e \in Epochs, Worker(e)
    PROVE  events' # events \/ Calm(workers[e], workers'[e])
<1> DEFINE w == workers[e]
<1>1. /\ w \in Workers
      /\ w.writer = "running" \/ w.reading \/ w.closing # "no" => w.phase # "none"
  BY DEF TypeOK, TableFits, NoWorker
<1>2. ASSUME NEW v, Becomes(e, v), Calm(w, v) PROVE Calm(w, workers'[e])
  BY <1>2 DEF Becomes, TypeOK
<1>3. ASSUME NEW event, Report(e, event) PROVE events' # events
  <2>1. events' = Append(events, [epoch |-> e, event |-> event])
    BY <1>3 DEF Report
  <2>2. events \in Seq(Deliveries)
    BY DEF TypeOK
  <2>3. Len(events') = Len(events) + 1 /\ Len(events) \in Nat
    BY <2>1, <2>2
  <2> QED
    BY <2>3
<1>4. CASE Goodbye(e)
  BY <1>1, <1>2, <1>4, CalmMoves DEF Goodbye, Writing
<1>5. CASE WriteFrame(e)
  BY <1>1, <1>2, <1>5, CalmMoves DEF WriteFrame, Writing
<1>6. CASE WorkerEnds(e) \/ WorkerDropped(e)
  BY <1>1, <1>2, <1>6, CalmMoves DEF WorkerEnds, WorkerDropped
<1>7. CASE WindsDown(e) \/ GraceExpires(e)
  BY <1>1, <1>2, <1>7, CalmMoves DEF WindsDown, GraceExpires
<1> QED
  BY <1>3, <1>4, <1>5, <1>6, <1>7 DEF Worker, Dialled, Handshaken, NeverOpened, ReadBytes, ReadEnds,
                                      WriteFails

\* The current worker sends its next event.
LEMMA SendTurns ==
    ASSUME NEW w \in Workers, NEW v, NEW S, NEW q \in Seq(S), NEW x \in S, NEW e, x.epoch = e,
           NEW tls \in BOOLEAN, NEW s, Turns(w, q, e, tls, s), w.tls = tls, Unopened(w),
           \/ x.event = "Connected" /\ w.phase = "dialling" /\ v = AfterDial(w)
           \/ x.event = "Encrypted" /\ w.phase = "handshaking" /\ v = Opened(w)
           \/ x.event = "Bytes" /\ w.reading /\ w.phase \notin {"none", "dialling", "handshaking"} /\ v = w
           \/ /\ x.event = "Closed" /\ w.reading
              /\ v.phase \notin {"none", "dialling", "handshaking"} /\ ~ v.reading
           \/ /\ x.event = "Failed"
              /\ v.phase \notin {"none", "dialling", "handshaking"} /\ ~ v.reading
    PROVE  Turns(v, Append(q, x), e, tls, s)
<1> DEFINE r == Append(q, x)
           n == Len(q) + 1
<1>1. /\ n \in Nat /\ Len(r) = n /\ r[n] = x /\ \A k \in 1 .. Len(q) : r[k] = q[k]
      /\ n - 1 = Len(q) /\ n + 1 - 1 = n /\ n \in 1 .. n + 1 - 1 /\ 1 .. Len(r) = 1 .. Len(q) \cup {n}
  OBVIOUS
<1>2. ASSUME NEW k \in 1 .. n, NEW event, InTurn(q, k, e, tls, s, event)
      PROVE  InTurn(r, k, e, tls, s, event)
  BY <1>2, TurnAppend
<1> HIDE DEF r, n
<1>3. ASSUME InTurn(q, n, e, tls, s, x.event)
      PROVE  \A k \in 1 .. Len(r) : r[k].epoch = e => InTurn(r, k, e, tls, s, r[k].event)
  <2> SUFFICES ASSUME NEW k \in 1 .. Len(r), r[k].epoch = e PROVE InTurn(r, k, e, tls, s, r[k].event)
    OBVIOUS
  <2>1. k \in 1 .. n
    BY <1>1
  <2>2. InTurn(q, k, e, tls, s, r[k].event)
    BY <1>1, <1>3 DEF Turns
  <2> QED
    BY <1>2, <2>1, <2>2
<1>4. CASE x.event = "Connected" /\ w.phase = "dialling" /\ v = AfterDial(w)
  <2>1. InTurn(q, n, e, tls, s, x.event) /\ Connects(q, n, e, s)
    BY <1>4 DEF Turns, n, InTurn
  <2>2. Shows(r, n + 1, e, s, "Connected", "Connected")
    BY <1>1, <1>4 DEF Shows
  <2>3. CASE tls
    <3>1. v.phase = "handshaking" /\ ~ v.reading
      BY <1>4, <2>3 DEF AfterDial, Workers, Unopened
    <3>2. \A j \in 1 .. n + 1 - 1 : r[j].epoch = e => r[j].event = "Connected"
      BY <1>1, <1>4, <2>1 DEF Connects
    <3>3. InTurn(r, n + 1, e, tls, s, "Encrypted")
      <4>1. s # "Encrypted"
        BY <2>1 DEF Connects
      <4>2. Encrypts(r, n + 1, e, tls, s)
        BY <1>1, <2>2, <2>3, <3>2, <4>1 DEF Encrypts
      <4> QED
        BY <4>2 DEF InTurn
    <3> QED
      BY <1>1, <1>3, <2>1, <3>1, <3>3 DEF Turns, r
  <2>4. CASE ~ tls
    <3>1. v.phase = "open"
      BY <1>4, <2>4 DEF AfterDial, Opened, Workers
    <3>2. InTurn(r, n + 1, e, tls, s, "Bytes")
      BY <2>2, <2>4 DEF InTurn, Opens
    <3> QED
      BY <1>1, <1>3, <2>1, <3>1, <3>2 DEF Turns, r
  <2> QED
    BY <2>3, <2>4
<1>5. CASE x.event = "Encrypted" /\ w.phase = "handshaking" /\ v = Opened(w)
  <2>1. InTurn(q, n, e, tls, s, x.event) /\ tls /\ v.phase = "open"
    BY <1>5 DEF Turns, n, Unopened, Opened, Workers
  <2>2. Shows(r, n + 1, e, s, "Encrypted", "Encrypted")
    BY <1>1, <1>5 DEF Shows
  <2>3. InTurn(r, n + 1, e, tls, s, "Bytes")
    BY <2>1, <2>2 DEF InTurn, Opens
  <2> QED
    BY <1>1, <1>3, <2>1, <2>3 DEF Turns, r
<1>6. CASE x.event = "Bytes" /\ w.reading /\ w.phase \notin {"none", "dialling", "handshaking"} /\ v = w
  <2>1. InTurn(q, n, e, tls, s, x.event) /\ Opens(q, n, e, tls, s)
    BY <1>6 DEF Turns, n, InTurn
  <2>2. ASSUME NEW state, NEW ev, Shows(q, n, e, s, state, ev)
        PROVE  Shows(r, n + 1, e, s, state, ev)
    <3>1. CASE s # state
      <4>1. PICK j \in 1 .. n - 1 : q[j].epoch = e /\ q[j].event = ev
        BY <2>2, <3>1 DEF Shows
      <4>2. j \in 1 .. n + 1 - 1 /\ r[j].epoch = e /\ r[j].event = ev
        BY <1>1, <4>1
      <4> QED
        BY <1>1, <4>2 DEF Shows
    <3>2. CASE s = state
      BY <3>2 DEF Shows
    <3> QED
      BY <3>1, <3>2
  <2>3. InTurn(r, n + 1, e, tls, s, "Bytes")
    BY <2>1, <2>2 DEF InTurn, Opens
  <2> QED
    BY <1>1, <1>3, <1>6, <2>1, <2>3 DEF Turns, r
<1>7. CASE /\ x.event = "Closed" /\ w.reading
           /\ v.phase \notin {"none", "dialling", "handshaking"} /\ ~ v.reading
  <2>1. InTurn(q, n, e, tls, s, "Bytes")
    BY <1>7 DEF Turns, n
  <2>2. InTurn(q, n, e, tls, s, x.event)
    BY <1>7, <2>1 DEF InTurn
  <2> QED
    BY <1>3, <1>7, <2>2 DEF Turns, r
<1>8. CASE x.event = "Failed" /\ v.phase \notin {"none", "dialling", "handshaking"} /\ ~ v.reading
  <2>1. InTurn(q, n, e, tls, s, x.event)
    BY <1>8 DEF InTurn
  <2> QED
    BY <1>3, <1>8, <2>1 DEF Turns, r
<1> QED
  BY <1>4, <1>5, <1>6, <1>7, <1>8

\* Another worker sends one.
LEMMA OtherTurns ==
    ASSUME NEW w, NEW S, NEW q \in Seq(S), NEW x \in S, NEW e, x.epoch # e,
           NEW tls, NEW s, Turns(w, q, e, tls, s)
    PROVE  Turns(w, Append(q, x), e, tls, s)
<1> DEFINE r == Append(q, x)
<1>1. /\ Len(q) \in Nat /\ Len(r) = Len(q) + 1 /\ r[Len(q) + 1] = x
      /\ \A k \in 1 .. Len(q) : r[k] = q[k]
  OBVIOUS
<1>2. \A event : InTurn(q, Len(q) + 1, e, tls, s, event) => InTurn(r, Len(q) + 2, e, tls, s, event)
  BY TurnOther
<1>3. ASSUME NEW k \in 1 .. Len(q), NEW event, InTurn(q, k, e, tls, s, event)
      PROVE  InTurn(r, k, e, tls, s, event)
  <2>1. k \in 1 .. Len(q) + 1
    OBVIOUS
  <2> QED
    BY <1>3, <2>1, TurnAppend
<1> HIDE DEF r
<1>4. Len(r) + 1 = Len(q) + 2
  BY <1>1
<1>5. ASSUME NEW k \in 1 .. Len(r), r[k].epoch = e PROVE InTurn(r, k, e, tls, s, r[k].event)
  <2>1. k \in 1 .. Len(q) /\ r[k] = q[k]
    BY <1>1, <1>5
  <2> QED
    BY <1>3, <1>5, <2>1 DEF Turns
<1>6. Turns(w, r, e, tls, s)
  BY <1>2, <1>4, <1>5 DEF Turns
<1> QED
  BY <1>6 DEF r

LEMMA TurnsNext ==
    ASSUME TypeOK, ConnectsFit, TableFits, EventsAreTrue, UiFits, EventsInTurn, Next
    PROVE  EventsInTurn'
<1> SUFFICES ASSUME UiRuns', InFlight(ui'.state)
             PROVE  Turns(workers'[ui'.epoch], events', ui'.epoch, ui'.tls, ui'.state)
  BY DEF EventsInTurn
<1>1. UiRuns /\ ~ UiDropHub
  BY RunsBefore, DropEnds
<1>2. /\ ui.epoch \in Epochs /\ ui.epoch \in Nat /\ ui.tls \in BOOLEAN
      /\ workers[ui.epoch] \in Workers /\ Unopened(workers[ui.epoch])
  BY BoundsAssumption DEF TypeOK, Epochs, TableFits
<1>3. /\ events \in Seq(Deliveries) /\ Len(events) \in Nat
      /\ \A k \in 1 .. Len(events) : events[k] \in Deliveries
  BY DEF TypeOK
<1>4. CASE UiWrite
  BY <1>1, <1>4 DEF UiWrite, EventsInTurn
<1>5. CASE UiShutdown
  <2>1. ui'.state = "Disconnected"
    BY <1>5 DEF UiShutdown, TypeOK
  <2> QED
    BY <2>1 DEF InFlight
<1>6. ASSUME NEW tls \in BOOLEAN, UiConnect(tls)
      PROVE  Turns(workers'[ui'.epoch], events', ui'.epoch, ui'.tls, ui'.state)
  <2> DEFINE e == ui.epoch + 1
  <2>1. ui'.epoch = e /\ ui'.state = "Connecting" /\ workers' = workers /\ events' = events
    BY <1>6 DEF UiConnect
  <2>2. e \in Epochs /\ ui.epoch < e
    BY <1>2, <1>6, BoundsAssumption DEF UiConnect, Epochs
  <2>3. workers[e].phase = "none" /\ workers[e] = NoWorker
    BY <2>2 DEF TableFits
  <2>4. \A k \in 1 .. Len(events) : events[k].epoch # e
    BY <2>3 DEF EventsAreTrue
  <2>5. InTurn(events, Len(events) + 1, e, ui'.tls, "Connecting", "Connected")
    BY <1>3, <2>4 DEF InTurn, Connects
  <2> HIDE DEF e
  <2> QED
    BY <2>1, <2>3, <2>4, <2>5 DEF Turns, NoWorker
<1>7. CASE Deliver
  <2> DEFINE q == events
             t == ui'.state
             w == workers[ui.epoch]
  <2>1. /\ ui'.epoch = ui.epoch /\ ui'.tls = ui.tls /\ workers' = workers
        /\ events # <<>> /\ events' = Tail(events)
        /\ 1 \in 1 .. Len(events) /\ Head(events) = events[1]
    BY <1>3, <1>7 DEF Deliver, TypeOK
  <2>2. t = IF events[1].epoch = ui.epoch THEN Transition(ui.state, ui.tls, events[1].event) ELSE ui.state
    BY <1>7, <2>1 DEF Deliver, TypeOK, Apply
  <2>3. InFlight(ui.state)
    BY <2>2 DEF InFlight, Transition, IsOpen
  <2>4. Turns(w, q, ui.epoch, ui.tls, ui.state)
    BY <1>1, <2>3 DEF EventsInTurn
  <2>5. /\ Len(events') = Len(events) - 1
        /\ \A k \in 1 .. Len(events) - 1 : events'[k] = events[k + 1]
        /\ events[1].event \in IoEvent
    BY <1>3, <2>1 DEF Deliveries
  <2>6. ASSUME NEW k \in 1 .. Len(events), NEW event,
               InTurn(events, k + 1, ui.epoch, ui.tls, ui.state, event)
        PROVE  InTurn(events', k, ui.epoch, ui.tls, t, event)
    <3>1. k + 1 \in 2 .. Len(events) + 1 /\ k + 1 - 1 = k
      BY <1>3
    <3>2. events[1].epoch = ui.epoch => InTurn(events, 1, ui.epoch, ui.tls, ui.state, events[1].event)
      BY <2>1, <2>4 DEF Turns
    <3>3. InTurn(Tail(events), k + 1 - 1, ui.epoch, ui.tls, t, event)
      BY <1>2, <1>3, <2>1, <2>2, <2>3, <2>5, <2>6, <3>1, <3>2, TurnTail
    <3> QED
      BY <2>1, <3>1, <3>3
  <2> HIDE DEF t
  <2>7. ASSUME NEW k \in 1 .. Len(events'), events'[k].epoch = ui.epoch
        PROVE  InTurn(events', k, ui.epoch, ui.tls, t, events'[k].event)
    <3>1. k \in 1 .. Len(events) /\ k + 1 \in 1 .. Len(events) /\ events'[k] = events[k + 1]
      BY <1>3, <2>5
    <3> QED
      BY <2>4, <2>6, <2>7, <3>1 DEF Turns
  <2>8. ASSUME NEW event, InTurn(events, Len(events) + 1, ui.epoch, ui.tls, ui.state, event)
        PROVE  InTurn(events', Len(events') + 1, ui.epoch, ui.tls, t, event)
    <3>1. Len(events) \in 1 .. Len(events) /\ Len(events') + 1 = Len(events)
      BY <1>3, <2>1, <2>5
    <3> QED
      BY <2>6, <2>8, <3>1
  <2>9. Turns(w, events', ui.epoch, ui.tls, t)
    BY <2>4, <2>7, <2>8 DEF Turns
  <2> QED
    BY <2>1, <2>9 DEF t
<1>8. CASE Hub
  <2>1. ui' = ui /\ events' = events /\ Calm(workers[ui.epoch], workers'[ui.epoch])
    BY <1>2, <1>8, HubQueues, HubCalm
  <2>2. Turns(workers[ui.epoch], events, ui.epoch, ui.tls, ui.state)
    BY <1>1, <2>1 DEF EventsInTurn
  <2> QED
    BY <2>1, <2>2, CalmTurns
<1>9. ASSUME NEW e \in Epochs, Worker(e)
      PROVE  Turns(workers'[ui'.epoch], events', ui'.epoch, ui'.tls, ui'.state)
  <2>1. ui' = ui
    BY <1>9, WorkerQueues
  <2>2. Turns(workers[ui.epoch], events, ui.epoch, ui.tls, ui.state)
    BY <1>1, <2>1 DEF EventsInTurn
  <2>3. CASE events' = events
    <3>1. Calm(workers[ui.epoch], workers'[ui.epoch])
      BY <1>1, <1>2, <1>9, <2>3, WorkerCalm, WorkerSends DEF Calm
    <3> QED
      BY <2>1, <2>2, <2>3, <3>1, CalmTurns
  <2>4. CASE events' # events
    <3>1. PICK event \in IoEvent :
             /\ Sends(e, event)
             /\ \/ event = "Connected" /\ workers[e].phase = "dialling"
                     /\ workers'[e] = AfterDial(workers[e])
                \/ event = "Encrypted" /\ workers[e].phase = "handshaking"
                     /\ workers'[e] = Opened(workers[e])
                \/ event = "Bytes" /\ workers[e].reading /\ workers' = workers
                \/ /\ event = "Closed" /\ workers[e].reading
                   /\ workers'[e].phase \notin {"none", "dialling", "handshaking"}
                   /\ ~ workers'[e].reading
                \/ /\ event = "Failed"
                   /\ workers'[e].phase \notin {"none", "dialling", "handshaking"}
                   /\ ~ workers'[e].reading
      BY <1>9, <2>4, WorkerSends DEF IoEvent
    <3>2. PICK x : x = [epoch |-> e, event |-> event]
      OBVIOUS
    <3>3. x.epoch = e /\ x.event = event /\ events' = Append(events, x) /\ x \in Deliveries
      BY <3>1, <3>2 DEF Sends, Deliveries
    <3>4. CASE e # ui.epoch
      <4>1. workers'[ui.epoch] = workers[ui.epoch]
        BY <1>2, <1>9, <3>4, WorkerSends
      <4> QED
        BY <1>3, <2>1, <2>2, <3>3, <3>4, <4>1, OtherTurns
    <3>5. CASE e = ui.epoch
      <4>1. workers[e].reading => workers[e].phase \notin {"none", "dialling", "handshaking"}
        BY <1>2, <3>5 DEF TableFits, NoWorker, Unopened
      <4>2. workers[e].phase # "none" => workers[e].tls = ui.tls
        BY <3>5 DEF UiFits
      <4>3. x.event = "Failed" \/ workers[e].tls = ui.tls
        BY <3>1, <3>3, <4>1, <4>2
      <4>4. CASE workers[e].tls = ui.tls
        BY <1>2, <1>3, <2>1, <2>2, <3>1, <3>3, <3>5, <4>1, <4>4, SendTurns
      <4>5. CASE workers[e].tls # ui.tls
        <5>1. workers[e].phase = "none"
          BY <4>2, <4>5
        <5>2. Grown
          BY <1>9, WorkerGrown
        <5>3. workers'[e].phase = "none"
          BY <5>1, <5>2 DEF Grown, Advance
        <5> QED
          BY <3>1, <3>3, <4>3, <4>5, <5>3
      <4> QED
        BY <4>4, <4>5
    <3> QED
      BY <3>4, <3>5
  <2> QED
    BY <2>3, <2>4
<1> QED
  BY <1>1, <1>4, <1>5, <1>6, <1>7, <1>8, <1>9 DEF Next, Ui

\* Delivering the first event: its turn has come, so it fits.
LEMMA TurnFits ==
    ASSUME TypeOK, EventsInTurn, NobodyListens
    PROVE  CurrentEventFits
<1> SUFFICES ASSUME events # <<>>, Head(events).epoch = ui.epoch, InFlight(ui.state)
             PROVE  CASE Head(events).event = "Connected" -> ui.state = "Connecting"
                      [] Head(events).event = "Encrypted" -> ui.state = "Connected" /\ ui.tls
                      [] Head(events).event \in {"Bytes", "Closed"} ->
                            ui.state = "Encrypted" \/ (ui.state = "Connected" /\ ~ ui.tls)
                      [] OTHER -> TRUE
  BY DEF CurrentEventFits
<1>1. UiRuns
  BY DEF NobodyListens
<1>2. events \in Seq(Deliveries) /\ 1 \in 1 .. Len(events) /\ Head(events) = events[1]
  BY DEF TypeOK
<1>3. InTurn(events, 1, ui.epoch, ui.tls, ui.state, events[1].event) /\ ui.tls \in BOOLEAN
  BY <1>1, <1>2 DEF EventsInTurn, Turns, TypeOK
<1>4. \A j : j \notin 1 .. 1 - 1
  OBVIOUS
<1> QED
  BY <1>2, <1>3, <1>4 DEF InTurn, Connects, Encrypts, Opens, Shows, InFlight

-----------------------------------------------------------------------------
(* The frames queued to the hub *)

LEMMA CommandFacts ==
    ASSUME TypeOK, NEW k \in 1 .. Len(commands)
    PROVE  /\ Op(k) = "Write" => commands[k].epoch \in Epochs /\ commands[k].epoch \in Nat
                /\ commands[k].frame \in Nat /\ commands[k].frame > 0
           /\ Op(k) = "Connect" => commands[k].epoch \in Epochs /\ commands[k].epoch \in Nat
<1>1. commands[k] \in Commands
  BY DEF TypeOK
<1> QED
  BY <1>1, BoundsAssumption DEF Commands, Op, Epochs, Frames

LEMMA QueuedPut ==
    ASSUME TypeOK, NEW c, commands' = Append(commands, c), NEW f
    PROVE  Queued(f)' <=> Queued(f) \/ (c.op = "Write" /\ c.frame = f)
<1>1. /\ Len(commands) \in Nat /\ Len(commands') = Len(commands) + 1
      /\ commands'[Len(commands) + 1] = c
      /\ \A k \in 1 .. Len(commands) : commands'[k] = commands[k]
  BY Pushed
<1>2. ASSUME Queued(f)' PROVE Queued(f) \/ (c.op = "Write" /\ c.frame = f)
  <2>1. PICK k \in 1 .. Len(commands') : commands'[k].op = "Write" /\ commands'[k].frame = f
    BY <1>2 DEF Queued, Op
  <2> QED
    BY <1>1, <2>1 DEF Queued, Op
<1>3. ASSUME Queued(f) PROVE Queued(f)'
  <2>1. PICK k \in 1 .. Len(commands) : commands[k].op = "Write" /\ commands[k].frame = f
    BY <1>3 DEF Queued, Op
  <2>2. k \in 1 .. Len(commands') /\ commands'[k] = commands[k]
    BY <1>1
  <2> QED
    BY <2>1, <2>2 DEF Queued, Op
<1>4. ASSUME c.op = "Write", c.frame = f PROVE Queued(f)'
  <2>1. Len(commands) + 1 \in 1 .. Len(commands')
    BY <1>1
  <2> QED
    BY <1>1, <1>4, <2>1 DEF Queued, Op
<1> QED
  BY <1>2, <1>3, <1>4

LEMMA QueuedTaken ==
    ASSUME TypeOK, Taking, NEW f
    PROVE  /\ Queued(f)' => \E k \in 2 .. Len(commands) : Op(k) = "Write" /\ commands[k].frame = f
           /\ Queued(f) => Queued(f)' \/ (commands[1].op = "Write" /\ commands[1].frame = f)
<1>1. /\ Len(commands) \in Nat /\ Len(commands) > 0 /\ Len(commands') = Len(commands) - 1
      /\ \A k \in 1 .. Len(commands) - 1 : commands'[k] = commands[k + 1]
  BY Popped DEF Taking
<1>2. ASSUME Queued(f)'
      PROVE  \E k \in 2 .. Len(commands) : Op(k) = "Write" /\ commands[k].frame = f
  <2>1. PICK k \in 1 .. Len(commands') : commands'[k].op = "Write" /\ commands'[k].frame = f
    BY <1>2 DEF Queued, Op
  <2>2. k + 1 \in 2 .. Len(commands) /\ commands'[k] = commands[k + 1]
    BY <1>1
  <2> QED
    BY <2>1, <2>2 DEF Op
<1>3. ASSUME Queued(f) PROVE Queued(f)' \/ (commands[1].op = "Write" /\ commands[1].frame = f)
  <2>1. PICK k \in 1 .. Len(commands) : commands[k].op = "Write" /\ commands[k].frame = f
    BY <1>3 DEF Queued, Op
  <2>2. CASE k # 1
    <3>1. k - 1 \in 1 .. Len(commands') /\ commands'[k - 1] = commands[k]
      BY <1>1, <2>2
    <3> QED
      BY <2>1, <3>1 DEF Queued, Op
  <2> QED
    BY <2>1, <2>2
<1> QED
  BY <1>2, <1>3

\* The commands in the queue after a put or a take are commands that were there before.
LEMMA WritesKept ==
    ASSUME TypeOK, WritesFit, written' = written, ui'.epoch \in Nat, ui.epoch <= ui'.epoch,
           commands' = commands \/ \E op : op \notin {"Write", "Connect"} /\ Putting(op)
    PROVE  WritesFit'
<1>1. /\ ui.epoch \in Nat /\ \A f \in 1 .. Len(written) : written[f] \in Nat
  BY BoundsAssumption DEF TypeOK, Epochs
<1>2. \A f \in 1 .. Len(written) : written[f] <= ui'.epoch
  BY <1>1 DEF WritesFit
<1>3. CASE commands' = commands
  BY <1>1, <1>2, <1>3 DEF WritesFit, Queued, Op
<1>4. CASE \E op : op \notin {"Write", "Connect"} /\ Putting(op)
  <2>1. PICK c : c.op \notin {"Write", "Connect"} /\ commands' = Append(commands, c)
    BY <1>4 DEF Putting
  <2>2. /\ Len(commands) \in Nat /\ Len(commands') = Len(commands) + 1
        /\ commands'[Len(commands) + 1] = c
        /\ \A k \in 1 .. Len(commands) : commands'[k] = commands[k]
    BY <2>1, Pushed
  <2>3. \A f : Queued(f)' <=> Queued(f)
    BY <2>1, QueuedPut
  <2>4. ASSUME NEW k \in 1 .. Len(commands'), Op(k)' \in {"Write", "Connect"}
        PROVE  k \in 1 .. Len(commands) /\ commands'[k] = commands[k] /\ Op(k)' = Op(k)
               /\ \A j \in 1 .. k - 1 : commands'[j] = commands[j]
    BY <2>1, <2>2, <2>4 DEF Op
  <2>5. ASSUME NEW k \in 1 .. Len(commands'), Op(k)' = "Write"
        PROVE  LET f == commands'[k].frame
               IN /\ f <= Len(written') /\ written'[f] = commands'[k].epoch
                  /\ \A j \in 1 .. k - 1 : Op(j)' = "Write" => commands'[j].frame < f
                  /\ \A g \in f .. Len(written') : Queued(g)'
    BY <2>3, <2>4, <2>5 DEF WritesFit, Op
  <2>6. ASSUME NEW k \in 1 .. Len(commands'), Op(k)' = "Connect"
        PROVE  /\ \A j \in 1 .. k - 1 : Op(j)' = "Write" => commands'[j].epoch # commands'[k].epoch
               /\ \A f \in 1 .. Len(written') : written'[f] = commands'[k].epoch => Queued(f)'
    BY <2>3, <2>4, <2>6 DEF WritesFit, Op
  <2> QED
    BY <1>2, <2>5, <2>6 DEF WritesFit
<1> QED
  BY <1>3, <1>4

LEMMA WritesTaken ==
    ASSUME TypeOK, WritesFit, written' = written, ui' = ui, Taking
    PROVE  WritesFit'
<1>1. /\ Len(commands) \in Nat /\ Len(commands) > 0 /\ Len(commands') = Len(commands) - 1
      /\ \A k \in 1 .. Len(commands) - 1 : commands'[k] = commands[k + 1]
  BY Popped DEF Taking
<1>2. ASSUME NEW k \in 1 .. Len(commands')
      PROVE  /\ k + 1 \in 1 .. Len(commands) /\ commands'[k] = commands[k + 1] /\ Op(k)' = Op(k + 1)
             /\ 1 \in 1 .. (k + 1) - 1
             /\ \A j \in 1 .. k - 1 : j + 1 \in 1 .. (k + 1) - 1 /\ commands'[j] = commands[j + 1]
                                        /\ Op(j)' = Op(j + 1)
  BY <1>1 DEF Op
<1>3. \A f : Queued(f) => Queued(f)' \/ (Op(1) = "Write" /\ commands[1].frame = f)
  BY QueuedTaken DEF Op
<1>4. ASSUME NEW k \in 1 .. Len(commands'), Op(k)' = "Write"
      PROVE  LET f == commands'[k].frame
             IN /\ f <= Len(written') /\ written'[f] = commands'[k].epoch
                /\ \A j \in 1 .. k - 1 : Op(j)' = "Write" => commands'[j].frame < f
                /\ \A g \in f .. Len(written') : Queued(g)'
  <2> DEFINE f == commands[k + 1].frame
  <2>1. /\ f <= Len(written) /\ written[f] = commands[k + 1].epoch
        /\ \A j \in 1 .. (k + 1) - 1 : Op(j) = "Write" => commands[j].frame < f
        /\ \A g \in f .. Len(written) : Queued(g)
    BY <1>2, <1>4 DEF WritesFit
  <2>2. f \in Nat /\ (Op(1) = "Write" => commands[1].frame \in Nat /\ commands[1].frame < f)
    <3>1. k + 1 \in 1 .. Len(commands) /\ 1 \in 1 .. Len(commands) /\ Op(k + 1) = "Write"
      BY <1>1, <1>2, <1>4
    <3>2. f \in Nat /\ (Op(1) = "Write" => commands[1].frame \in Nat)
      BY <3>1, CommandFacts
    <3> QED
      BY <1>2, <2>1, <3>2
  <2>3. \A g \in f .. Len(written) : Queued(g)'
    BY <1>3, <2>1, <2>2
  <2> QED
    BY <1>2, <2>1, <2>3
<1>5. ASSUME NEW k \in 1 .. Len(commands'), Op(k)' = "Connect"
      PROVE  /\ \A j \in 1 .. k - 1 : Op(j)' = "Write" => commands'[j].epoch # commands'[k].epoch
             /\ \A f \in 1 .. Len(written') : written'[f] = commands'[k].epoch => Queued(f)'
  <2> DEFINE e == commands[k + 1].epoch
  <2>1. /\ \A j \in 1 .. (k + 1) - 1 : Op(j) = "Write" => commands[j].epoch # e
        /\ \A f \in 1 .. Len(written) : written[f] = e => Queued(f)
    BY <1>2, <1>5 DEF WritesFit
  <2>2. Op(1) = "Write" => written[commands[1].frame] = commands[1].epoch /\ commands[1].epoch # e
    BY <1>1, <1>2, <2>1 DEF WritesFit
  <2>3. \A f \in 1 .. Len(written) : written[f] = e => Queued(f)'
    BY <1>3, <2>1, <2>2
  <2> QED
    BY <1>2, <2>1, <2>3
<1> QED
  BY <1>4, <1>5 DEF WritesFit

LEMMA WritesNext ==
    ASSUME TypeOK, ConnectsFit, TableFits, WritesFit, Next
    PROVE  WritesFit'
<1>1. /\ ui.epoch \in Epochs /\ ui.epoch \in Nat /\ written \in Seq(Epochs) /\ Len(written) \in Nat
      /\ \A f \in 1 .. Len(written) : written[f] \in Nat
  <2>1. written \in Seq(Epochs) /\ ui.epoch \in Epochs
    BY DEF TypeOK
  <2>2. \A f \in 1 .. Len(written) : written[f] \in Epochs
    BY <2>1
  <2> QED
    BY <2>1, <2>2, BoundsAssumption DEF Epochs
<1>2. ASSUME NEW tls \in BOOLEAN, UiConnect(tls) PROVE WritesFit'
  <2> DEFINE e == ui.epoch + 1
             c == ConnectCommand(e, tls)
  <2>1. written' = written /\ ui'.epoch = e /\ commands' = Append(commands, c)
    BY <1>2 DEF UiConnect, Request
  <2>2. c.op = "Connect" /\ c.epoch = e
    BY DEF ConnectCommand
  <2> HIDE DEF c
  <2>3. /\ Len(commands) \in Nat /\ Len(commands') = Len(commands) + 1
        /\ commands'[Len(commands) + 1] = c
        /\ \A k \in 1 .. Len(commands) : commands'[k] = commands[k]
    BY <2>1, Pushed
  <2>4. \A f : Queued(f)' <=> Queued(f)
    BY <2>1, <2>2, QueuedPut
  <2>5. \A f \in 1 .. Len(written) : written[f] < e /\ written[f] <= ui'.epoch
    BY <1>1, <2>1 DEF WritesFit
  <2>6. ASSUME NEW k \in 1 .. Len(commands)
        PROVE  commands'[k] = commands[k] /\ Op(k)' = Op(k)
               /\ \A j \in 1 .. k - 1 : commands'[j] = commands[j] /\ Op(j)' = Op(j)
    BY <2>3 DEF Op
  <2>7. ASSUME NEW k \in 1 .. Len(commands'), Op(k)' = "Write"
        PROVE  LET f == commands'[k].frame
               IN /\ f <= Len(written') /\ written'[f] = commands'[k].epoch
                  /\ \A j \in 1 .. k - 1 : Op(j)' = "Write" => commands'[j].frame < f
                  /\ \A g \in f .. Len(written') : Queued(g)'
    <3>1. k \in 1 .. Len(commands)
      BY <2>2, <2>3, <2>7 DEF Op
    <3> QED
      BY <2>1, <2>4, <2>6, <2>7, <3>1 DEF WritesFit
  <2>8. ASSUME NEW k \in 1 .. Len(commands'), Op(k)' = "Connect"
        PROVE  /\ \A j \in 1 .. k - 1 : Op(j)' = "Write" => commands'[j].epoch # commands'[k].epoch
               /\ \A f \in 1 .. Len(written') : written'[f] = commands'[k].epoch => Queued(f)'
    <3>1. CASE k = Len(commands) + 1
      <4>1. commands'[k].epoch = e
        BY <2>2, <2>3, <3>1
      <4>2. ASSUME NEW j \in 1 .. k - 1, Op(j)' = "Write" PROVE commands'[j].epoch # e
        <5>1. j \in 1 .. Len(commands) /\ Op(j) = "Write" /\ commands'[j] = commands[j]
          BY <2>3, <3>1, <4>2 DEF Op
        <5>2. commands[j].frame \in 1 .. Len(written) /\ written[commands[j].frame] = commands[j].epoch
          BY <1>1, <5>1, CommandFacts DEF WritesFit
        <5> QED
          BY <1>1, <2>5, <5>1, <5>2
      <4> QED
        BY <1>1, <2>1, <2>5, <4>1, <4>2
    <3>2. CASE k # Len(commands) + 1
      <4>1. k \in 1 .. Len(commands)
        BY <2>3, <3>2
      <4> QED
        BY <2>1, <2>4, <2>6, <2>8, <4>1 DEF WritesFit
    <3> QED
      BY <3>1, <3>2
  <2> QED
    BY <2>1, <2>5, <2>7, <2>8 DEF WritesFit
<1>3. CASE UiWrite
  <2> DEFINE n == Len(written) + 1
             c == WriteCommand(ui.epoch, n)
  <2>1. written' = Append(written, ui.epoch) /\ ui' = ui /\ commands' = Append(commands, c)
    BY <1>3 DEF UiWrite, Request
  <2>2. c.op = "Write" /\ c.epoch = ui.epoch /\ c.frame = n
    BY DEF WriteCommand
  <2> HIDE DEF c
  <2>3. /\ Len(commands) \in Nat /\ Len(commands') = Len(commands) + 1
        /\ commands'[Len(commands) + 1] = c
        /\ \A k \in 1 .. Len(commands) : commands'[k] = commands[k]
    BY <2>1, Pushed
  <2>4. \A f : Queued(f)' <=> Queued(f) \/ f = n
    BY <2>1, <2>2, QueuedPut
  <2>5. /\ Len(written') = n /\ written'[n] = ui.epoch /\ n \in Nat
        /\ \A f \in 1 .. Len(written) : written'[f] = written[f]
    BY <1>1, <2>1
  <2>6. ASSUME NEW k \in 1 .. Len(commands)
        PROVE  commands'[k] = commands[k] /\ Op(k)' = Op(k)
               /\ \A j \in 1 .. k - 1 : commands'[j] = commands[j] /\ Op(j)' = Op(j)
    BY <2>3 DEF Op
  <2>7. ASSUME NEW k \in 1 .. Len(commands), Op(k) = "Write"
        PROVE  commands[k].frame \in 1 .. Len(written)
    BY <1>1, <2>7, CommandFacts DEF WritesFit
  <2>8. \A f \in 1 .. Len(written') : written'[f] <= ui'.epoch
    BY <1>1, <2>1, <2>5 DEF WritesFit
  <2>9. ASSUME NEW k \in 1 .. Len(commands'), Op(k)' = "Write"
        PROVE  LET f == commands'[k].frame
               IN /\ f <= Len(written') /\ written'[f] = commands'[k].epoch
                  /\ \A j \in 1 .. k - 1 : Op(j)' = "Write" => commands'[j].frame < f
                  /\ \A g \in f .. Len(written') : Queued(g)'
    <3>1. CASE k = Len(commands) + 1
      <4>1. commands'[k] = c
        BY <2>3, <3>1
      <4>2. ASSUME NEW j \in 1 .. k - 1, Op(j)' = "Write" PROVE commands'[j].frame < n
        <5>1. j \in 1 .. Len(commands) /\ Op(j) = "Write" /\ commands'[j] = commands[j]
          BY <2>3, <3>1, <4>2 DEF Op
        <5> QED
          BY <1>1, <2>7, <5>1
      <4>3. \A g \in n .. Len(written') : Queued(g)'
        BY <2>4, <2>5
      <4> QED
        BY <2>2, <2>5, <4>1, <4>2, <4>3
    <3>2. CASE k # Len(commands) + 1
      <4>1. k \in 1 .. Len(commands) /\ Op(k) = "Write" /\ commands'[k] = commands[k]
        BY <2>3, <2>9, <3>2 DEF Op
      <4> DEFINE f == commands[k].frame
      <4>2. /\ f \in 1 .. Len(written) /\ written[f] = commands[k].epoch
            /\ \A j \in 1 .. k - 1 : Op(j) = "Write" => commands[j].frame < f
            /\ \A g \in f .. Len(written) : Queued(g)
        BY <2>7, <4>1 DEF WritesFit
      <4> HIDE DEF f, n
      <4>3. \A g \in f .. Len(written') : Queued(g)'
        BY <1>1, <2>4, <2>5, <4>2 DEF n
      <4>4. f <= Len(written') /\ written'[f] = commands[k].epoch
        BY <1>1, <2>5, <4>2 DEF n
      <4>5. \A j \in 1 .. k - 1 : Op(j)' = "Write" => commands'[j].frame < f
        BY <2>6, <4>1, <4>2
      <4> QED
        BY <4>1, <4>3, <4>4, <4>5 DEF f
    <3> QED
      BY <3>1, <3>2
  <2>10. ASSUME NEW k \in 1 .. Len(commands'), Op(k)' = "Connect"
        PROVE  /\ \A j \in 1 .. k - 1 : Op(j)' = "Write" => commands'[j].epoch # commands'[k].epoch
               /\ \A f \in 1 .. Len(written') : written'[f] = commands'[k].epoch => Queued(f)'
    <3>1. k \in 1 .. Len(commands) /\ Op(k) = "Connect"
      BY <2>2, <2>3, <2>10 DEF Op
    <3>2. /\ \A j \in 1 .. k - 1 : Op(j) = "Write" => commands[j].epoch # commands[k].epoch
          /\ \A f \in 1 .. Len(written) : written[f] = commands[k].epoch => Queued(f)
      BY <3>1 DEF WritesFit
    <3>3. ASSUME NEW f \in 1 .. Len(written'), written'[f] = commands'[k].epoch PROVE Queued(f)'
      <4>1. f = n \/ f \in 1 .. Len(written)
        BY <1>1, <2>5
      <4> QED
        BY <2>4, <2>5, <2>6, <3>1, <3>2, <3>3, <4>1
    <3> QED
      BY <2>6, <3>1, <3>2, <3>3
  <2> QED
    BY <2>8, <2>9, <2>10 DEF WritesFit
<1>4. CASE UiShutdown \/ UiDropHub \/ Deliver
  <2>1. written' = written /\ ui'.epoch \in {ui.epoch, ui.epoch + 1}
    BY <1>4 DEF UiShutdown, UiDropHub, Deliver, TypeOK
  <2>2. commands' = commands \/ \E op : op \notin {"Write", "Connect"} /\ Putting(op)
    BY <1>4, UiPuts DEF Deliver
  <2> QED
    BY <1>1, <2>1, <2>2, WritesKept
<1>5. CASE Hub
  BY <1>1, <1>5, HubQueues, WritesTaken, WritesKept
<1>6. ASSUME NEW e \in Epochs, Worker(e) PROVE WritesFit'
  <2>1. Command("Finished", e).op = "Finished"
    BY DEF Command
  <2>2. ui' = ui /\ written' = written /\ (commands' = commands \/ Putting("Finished"))
    BY <1>6, <2>1, WorkerQueues DEF Putting
  <2> QED
    BY <1>1, <2>2, WritesKept
<1> QED
  BY <1>2, <1>3, <1>4, <1>5, <1>6 DEF Next, Ui

\* The close at place k of queue q leaves epoch e behind, for a transport in epoch n.
Parts(q, k, e, n) ==
    e < n /\ \A l \in k + 1 .. Len(q) : q[l].op = "Write" => e < q[l].epoch

LEMMA ClosesAre ==
    ClosesFit <=> \A k \in 1 .. Len(commands) : Op(k) = "Close" =>
                     /\ task # 0 => Parts(commands, k, task, ui.epoch)
                     /\ \A j \in 1 .. k - 1 :
                           Op(j) = "Connect" => Parts(commands, k, commands[j].epoch, ui.epoch)
BY DEF ClosesFit, Parts, Op

LEMMA ClosesPut ==
    ASSUME TypeOK, ConnectsFit, TableFits, ClosesFit, NEW c \in Commands,
           commands' = Append(commands, c), task' = task, ui'.epoch \in Nat,
           ui.epoch <= ui'.epoch, c.op = "Close" => ui.epoch < ui'.epoch,
           c.op = "Write" => c.epoch = ui.epoch
    PROVE  ClosesFit'
<1>1. /\ Len(commands) \in Nat /\ Len(commands') = Len(commands) + 1
      /\ commands'[Len(commands) + 1] = c
      /\ \A k \in 1 .. Len(commands) : commands'[k] = commands[k]
  BY Pushed
<1>2. /\ ui.epoch \in Nat /\ task \in Nat /\ task <= ui.epoch
      /\ \A k \in 1 .. Len(commands) : Op(k) = "Connect" =>
            commands[k].epoch \in Nat /\ commands[k].epoch <= ui.epoch
  <2>1. ui.epoch \in Nat /\ task \in Nat /\ task <= ui.epoch
    BY BoundsAssumption DEF TypeOK, Epochs, TableFits
  <2>2. \A k \in 1 .. Len(commands) : Op(k) = "Connect" => commands[k].epoch <= ui.epoch
    BY DEF ConnectsFit
  <2> QED
    BY <2>1, <2>2, CommandFacts
<1>3. ASSUME NEW k \in 1 .. Len(commands), NEW e \in Nat, Parts(commands, k, e, ui.epoch)
      PROVE  Parts(commands', k, e, ui'.epoch)
  <2>1. ASSUME NEW l \in k + 1 .. Len(commands'), commands'[l].op = "Write"
        PROVE  e < commands'[l].epoch
    <3>1. CASE l = Len(commands) + 1
      BY <1>1, <1>3, <2>1, <3>1 DEF Parts
    <3>2. CASE l # Len(commands) + 1
      <4>1. l \in k + 1 .. Len(commands) /\ commands'[l] = commands[l]
        BY <1>1, <3>2
      <4> QED
        BY <1>3, <2>1, <4>1 DEF Parts
    <3> QED
      BY <3>1, <3>2
  <2> QED
    BY <1>2, <1>3, <2>1 DEF Parts
<1>4. ASSUME NEW k \in 1 .. Len(commands'), commands'[k].op = "Close"
      PROVE  /\ task' # 0 => Parts(commands', k, task', ui'.epoch)
             /\ \A j \in 1 .. k - 1 : commands'[j].op = "Connect" =>
                   Parts(commands', k, commands'[j].epoch, ui'.epoch)
  <2>1. CASE k = Len(commands) + 1
    <3>1. c.op = "Close" /\ \A l \in k + 1 .. Len(commands') : FALSE
      BY <1>1, <1>4, <2>1
    <3>2. \A e \in Nat : e <= ui.epoch => Parts(commands', k, e, ui'.epoch)
      BY <1>2, <3>1 DEF Parts
    <3>3. \A j \in 1 .. k - 1 : j \in 1 .. Len(commands) /\ commands'[j] = commands[j]
      BY <1>1, <2>1
    <3> QED
      BY <1>2, <3>2, <3>3 DEF Op
  <2>2. CASE k # Len(commands) + 1
    <3>1. k \in 1 .. Len(commands) /\ commands'[k] = commands[k]
          /\ \A j \in 1 .. k - 1 : j \in 1 .. Len(commands) /\ commands'[j] = commands[j]
      BY <1>1, <2>2
    <3>2. /\ task # 0 => Parts(commands, k, task, ui.epoch)
          /\ \A j \in 1 .. k - 1 : Op(j) = "Connect" => Parts(commands, k, commands[j].epoch, ui.epoch)
      BY <1>4, <3>1, ClosesAre DEF Op
    <3> QED
      BY <1>2, <1>3, <3>1, <3>2 DEF Op
  <2> QED
    BY <2>1, <2>2
<1> QED
  BY <1>4 DEF ClosesFit, Parts, Op

LEMMA ClosesTaken ==
    ASSUME TypeOK, ClosesFit, Taking, ui' = ui,
           task' \in {0, task} \/ (Op(1) = "Connect" /\ task' = commands[1].epoch)
    PROVE  ClosesFit'
<1>1. /\ Len(commands) \in Nat /\ Len(commands) > 0 /\ Len(commands') = Len(commands) - 1
      /\ \A k \in 1 .. Len(commands) - 1 : commands'[k] = commands[k + 1]
  BY Popped DEF Taking
<1>2. ASSUME NEW k \in 1 .. Len(commands'), NEW e, Parts(commands, k + 1, e, ui.epoch)
      PROVE  Parts(commands', k, e, ui'.epoch)
  <2>1. \A l \in k + 1 .. Len(commands') :
           l + 1 \in (k + 1) + 1 .. Len(commands) /\ commands'[l] = commands[l + 1]
    BY <1>1
  <2> QED
    BY <1>2, <2>1 DEF Parts
<1>3. ASSUME NEW k \in 1 .. Len(commands'), commands'[k].op = "Close"
      PROVE  /\ task' # 0 => Parts(commands', k, task', ui'.epoch)
             /\ \A j \in 1 .. k - 1 : commands'[j].op = "Connect" =>
                   Parts(commands', k, commands'[j].epoch, ui'.epoch)
  <2>1. /\ k + 1 \in 1 .. Len(commands) /\ commands'[k] = commands[k + 1] /\ 1 \in 1 .. (k + 1) - 1
        /\ \A j \in 1 .. k - 1 : j + 1 \in 1 .. (k + 1) - 1 /\ commands'[j] = commands[j + 1]
    BY <1>1
  <2>2. Op(k + 1) = "Close"
    BY <1>3, <2>1 DEF Op
  <2>3. /\ task # 0 => Parts(commands, k + 1, task, ui.epoch)
        /\ \A j \in 1 .. (k + 1) - 1 :
              Op(j) = "Connect" => Parts(commands, k + 1, commands[j].epoch, ui.epoch)
    BY <2>1, <2>2, ClosesAre
  <2>4. task' # 0 => Parts(commands, k + 1, task', ui.epoch)
    BY <2>1, <2>3
  <2> QED
    BY <1>2, <2>1, <2>3, <2>4 DEF Op
<1> QED
  BY <1>3 DEF ClosesFit, Parts, Op

LEMMA ClosesNext ==
    ASSUME TypeOK, ConnectsFit, TableFits, ClosesFit, Next
    PROVE  ClosesFit'
<1>1. ui.epoch \in Nat /\ 0 \in Epochs
  BY BoundsAssumption DEF TypeOK, Epochs
<1>2. ASSUME commands' = commands, task' \in {0, task}, ui'.epoch = ui.epoch PROVE ClosesFit'
  BY <1>2 DEF ClosesFit, Op
<1>3. CASE Ui
  <2>1. CASE Deliver
    <3>1. ui'.epoch = ui.epoch /\ commands' = commands /\ task' = task
      BY <2>1 DEF Deliver, TypeOK
    <3> QED
      BY <1>2, <3>1
  <2>2. ASSUME NEW tls \in BOOLEAN, UiConnect(tls) PROVE ClosesFit'
    <3>1. PICK c \in Commands : c.op = "Connect" /\ commands' = Append(commands, c)
      BY <2>2, UiPuts DEF Putting
    <3>2. ui'.epoch = ui.epoch + 1 /\ task' = task
      BY <2>2 DEF UiConnect
    <3> QED
      BY <1>1, <3>1, <3>2, ClosesPut
  <2>3. CASE UiWrite
    <3> DEFINE c == WriteCommand(ui.epoch, Len(written) + 1)
    <3>1. c.op = "Write" /\ c.epoch = ui.epoch
      BY DEF WriteCommand
    <3>2. commands' = Append(commands, c) /\ task' = task /\ ui' = ui
      BY <2>3 DEF UiWrite, Request
    <3>3. c \in Commands
      <4>1. ui.epoch \in Epochs /\ Len(written) + 1 \in Frames
        BY <2>3, BoundsAssumption DEF UiWrite, TypeOK, Frames
      <4> QED
        BY <4>1, CommandTypes
    <3> HIDE DEF c
    <3> QED
      BY <1>1, <3>1, <3>2, <3>3, ClosesPut
  <2>4. CASE UiShutdown
    <3>1. PICK c \in Commands : c.op = "Close" /\ commands' = Append(commands, c)
      BY <2>4, UiPuts DEF Putting
    <3>2. ui'.epoch = ui.epoch + 1 /\ task' = task
      BY <2>4 DEF UiShutdown, TypeOK
    <3> QED
      BY <1>1, <3>1, <3>2, ClosesPut
  <2>5. CASE UiDropHub
    <3>1. PICK c \in Commands : c.op = "Stop" /\ commands' = Append(commands, c)
      BY <2>5, UiPuts DEF Putting
    <3>2. ui' = ui /\ task' = task
      BY <2>5 DEF UiDropHub
    <3> QED
      BY <1>1, <3>1, <3>2, ClosesPut
  <2> QED
    BY <1>3, <2>1, <2>2, <2>3, <2>4, <2>5 DEF Ui
<1>4. CASE HubConnect
  <2>1. Taking /\ task' = commands[1].epoch /\ ui' = ui
    BY <1>4, ConnectStarts DEF HubConnect
  <2>2. Op(1) = "Connect"
    BY <1>4, <2>1, Popped DEF HubConnect, Serving, Taking, Op
  <2> QED
    BY <2>1, <2>2, ClosesTaken
<1>5. CASE Hub /\ ~ HubConnect
  <2>1. task' \in {0, task}
    BY <1>5 DEF Hub, HubWrite, HubClose, HubFinished, HubStop, HubExits
  <2> QED
    BY <1>2, <1>5, <2>1, HubQueues, ClosesTaken
<1>6. ASSUME NEW e \in Epochs, Worker(e) PROVE ClosesFit'
  <2>1. Command("Finished", e).op = "Finished"
    BY DEF Command
  <2> QED
    BY <1>1, <1>2, <1>6, <2>1, WorkerQueues, ClosesPut
<1> QED
  BY <1>3, <1>4, <1>5, <1>6 DEF Next

LEMMA TakenSeq ==
    ASSUME TypeOK, NEW e \in Epochs
    PROVE  /\ wire[e] \in Seq(Frames) /\ workers[e].queue \in Seq(Frames)
           /\ Len(wire[e]) \in Nat /\ Len(workers[e].queue) \in Nat
           /\ Len(Taken(e)) = Len(wire[e]) + Len(workers[e].queue)
           /\ Len(Taken(e)) \in Nat /\ Len(wire[e]) <= Len(Taken(e))
           /\ \A i \in 1 .. Len(wire[e]) : i \in 1 .. Len(Taken(e)) /\ Taken(e)[i] = wire[e][i]
           /\ workers[e].queue = <<>> => Taken(e) = wire[e]
<1>1. wire[e] \in Seq(Frames) /\ workers[e] \in Workers
  BY DEF TypeOK
<1>2. workers[e].queue \in Seq(Frames)
  BY <1>1 DEF Workers
<1>3. workers[e].queue = <<>> => Taken(e) = wire[e]
  BY <1>1, <1>2, ConcatEmptySeq DEF Taken
<1>4. \A s, t \in Seq(Frames) :
         /\ Len(s) \in Nat /\ Len(t) \in Nat /\ Len(s \o t) = Len(s) + Len(t)
         /\ Len(s \o t) \in Nat /\ Len(s) <= Len(s \o t)
         /\ \A i \in 1 .. Len(s) : i \in 1 .. Len(s \o t) /\ (s \o t)[i] = s[i]
  OBVIOUS
<1> QED
  BY <1>1, <1>2, <1>3, <1>4 DEF Taken

\* A step that leaves the frames of epoch e where they are.
LEMMA FitKept ==
    ASSUME TypeOK, NEW e \in Epochs, EpochFits(e), written' = written, wire'[e] = wire[e],
           workers'[e].queue = workers[e].queue,
           \A f : Queued(f)' => Queued(f),
           Sealed(e) => Sealed(e)',
           task' = e /\ e # 0 /\ workers'[e].phase # "ended" =>
              /\ task = e /\ workers[e].phase # "ended"
              /\ \A f \in FramesOf(e) : Queued(f) => Queued(f)',
           workers'[e].closing # "no" =>
              \/ workers[e].closing # "no"
              \/ /\ Sealed(e)' /\ task = e /\ e # 0 /\ workers[e].phase # "ended"
                 /\ \A f \in FramesOf(e) : ~ Queued(f),
           workers'[e].writer = "goodbye" =>
              \/ workers[e].writer = "goodbye"
              \/ workers[e].closing # "no" /\ workers[e].queue = <<>>
    PROVE  EpochFits(e)'
<1>1. Taken(e)' = Taken(e) /\ FramesOf(e)' = FramesOf(e)
  BY DEF Taken, FramesOf
<1>2. Follows(Taken(e), e)' /\ \A f : Has(Taken(e)', f) => ~ Queued(f)'
  BY <1>1 DEF EpochFits, Follows
<1>3. ASSUME task' = e, e # 0, workers'[e].phase # "ended", NEW f \in FramesOf(e)
      PROVE  Queued(f)' \/ Has(Taken(e), f)
  BY <1>3 DEF EpochFits
<1>4. ASSUME workers'[e].closing # "no"
      PROVE  Sealed(e)' /\ \A f \in FramesOf(e) : Has(Taken(e), f)
  BY <1>4 DEF EpochFits
<1>5. ASSUME workers'[e].writer = "goodbye"
      PROVE  Sealed(e)' /\ \A f \in FramesOf(e) : Has(wire[e], f)
  BY <1>5, TakenSeq DEF EpochFits
<1> QED
  BY <1>1, <1>2, <1>3, <1>4, <1>5 DEF EpochFits

\* The worker ends and takes its queue with it.
LEMMA FitEnded ==
    ASSUME TypeOK, TypeOK', NEW e \in Epochs, EpochFits(e), written' = written, wire'[e] = wire[e],
           workers'[e] = Ended(workers[e]),
           \A f : Queued(f)' => Queued(f), Sealed(e) => Sealed(e)'
    PROVE  EpochFits(e)'
<1>1. /\ workers'[e].queue = <<>> /\ workers'[e].phase = "ended" /\ workers'[e].closing = "no"
      /\ workers'[e].writer = "goodbye" => workers[e].writer = "goodbye"
  BY DEF Ended, NoWorker
<1>2. FramesOf(e)' = FramesOf(e)
  BY DEF FramesOf
<1>3. Taken(e)' = wire[e]
  BY <1>1, TakenSeq, ConcatEmptySeq DEF Taken
<1>4. /\ Len(wire[e]) \in Nat /\ Len(Taken(e)) \in Nat /\ Len(wire[e]) <= Len(Taken(e))
      /\ \A i \in 1 .. Len(wire[e]) : Taken(e)[i] = wire[e][i]
  BY TakenSeq
<1>5. Follows(wire[e], e)
  <2> SUFFICES ASSUME NEW i \in 1 .. Len(wire[e])
               PROVE  /\ wire[e][i] \in FramesOf(e)
                      /\ \A j \in 1 .. i - 1 : wire[e][j] < wire[e][i]
                      /\ \A f \in FramesOf(e) : f < wire[e][i] => \E j \in 1 .. i - 1 : wire[e][j] = f
    BY DEF Follows
  <2>1. i \in 1 .. Len(Taken(e)) /\ \A j \in 1 .. i - 1 : j \in 1 .. Len(wire[e])
    BY <1>4
  <2>2. /\ Taken(e)[i] \in FramesOf(e)
        /\ \A j \in 1 .. i - 1 : Taken(e)[j] < Taken(e)[i]
        /\ \A f \in FramesOf(e) : f < Taken(e)[i] => \E j \in 1 .. i - 1 : Taken(e)[j] = f
    BY <2>1 DEF EpochFits, Follows
  <2> QED
    BY <1>4, <2>1, <2>2
<1>6. \A f : Has(wire[e], f) => Has(Taken(e), f)
  <2> SUFFICES ASSUME NEW f, NEW i \in 1 .. Len(wire[e]), wire[e][i] = f PROVE Has(Taken(e), f)
    BY DEF Has
  <2>1. i \in 1 .. Len(Taken(e)) /\ Taken(e)[i] = f
    BY <1>4
  <2> QED
    BY <2>1 DEF Has
<1>7. Follows(Taken(e), e)'
  BY <1>2, <1>3, <1>5 DEF Follows
<1>8. \A f : Has(wire[e], f) => ~ Queued(f)'
  BY <1>6 DEF EpochFits
<1> QED
  BY <1>1, <1>2, <1>3, <1>7, <1>8 DEF EpochFits

\* A frame is handed over: it is the last of its epoch, and not yet with its worker.
LEMMA FitWritten ==
    ASSUME TypeOK, WritesFit, NEW e \in Epochs, EpochFits(e), UiWrite
    PROVE  EpochFits(e)'
<1> DEFINE n == Len(written) + 1
<1>1. /\ Len(written) \in Nat /\ DOMAIN written = 1 .. Len(written)
      /\ DOMAIN written' = 1 .. n /\ written'[n] = ui.epoch
      /\ \A f \in 1 .. Len(written) : written'[f] = written[f]
  BY DEF UiWrite, TypeOK
<1>2. ui' = ui /\ task' = task /\ workers' = workers /\ wire' = wire /\ UiRuns
  BY DEF UiWrite
<1>3. /\ FramesOf(e)' = IF e = ui.epoch THEN FramesOf(e) \cup {n} ELSE FramesOf(e)
      /\ \A f \in FramesOf(e) : f \in Nat /\ f < n
  BY <1>1 DEF FramesOf
<1>4. \A f : Queued(f)' <=> Queued(f) \/ f = n
  <2>1. /\ commands' = Append(commands, WriteCommand(ui.epoch, n))
        /\ WriteCommand(ui.epoch, n).op = "Write" /\ WriteCommand(ui.epoch, n).frame = n
    BY DEF UiWrite, Request, WriteCommand
  <2> QED
    BY <2>1, QueuedPut
<1>5. Taken(e)' = Taken(e)
  BY <1>2 DEF Taken
<1>6. \A i \in 1 .. Len(Taken(e)) : Taken(e)[i] \in FramesOf(e)
  BY DEF EpochFits, Follows
<1> HIDE DEF n
<1>7. Follows(Taken(e), e)'
  <2> SUFFICES ASSUME NEW i \in 1 .. Len(Taken(e))
               PROVE  /\ Taken(e)[i] \in FramesOf(e)'
                      /\ \A j \in 1 .. i - 1 : Taken(e)[j] < Taken(e)[i]
                      /\ \A f \in FramesOf(e)' :
                            f < Taken(e)[i] => \E j \in 1 .. i - 1 : Taken(e)[j] = f
    BY <1>5 DEF Follows
  <2>1. /\ Taken(e)[i] \in FramesOf(e)
        /\ \A j \in 1 .. i - 1 : Taken(e)[j] < Taken(e)[i]
        /\ \A f \in FramesOf(e) : f < Taken(e)[i] => \E j \in 1 .. i - 1 : Taken(e)[j] = f
    BY DEF EpochFits, Follows
  <2>2. ~ (n < Taken(e)[i])
    <3>1. n \in Nat
      BY <1>1 DEF n
    <3> QED
      BY <1>3, <2>1, <3>1
  <2> QED
    BY <1>3, <2>1, <2>2
<1>8. \A f : Has(Taken(e), f) => ~ Queued(f)'
  <2> SUFFICES ASSUME NEW f, Has(Taken(e), f) PROVE ~ Queued(f)'
    OBVIOUS
  <2>1. f \in FramesOf(e) /\ ~ Queued(f)
    BY <1>6 DEF EpochFits, Has
  <2>2. f # n
    <3>1. n \in Nat
      BY <1>1 DEF n
    <3> QED
      BY <1>3, <2>1, <3>1
  <2> QED
    BY <1>4, <2>1, <2>2
<1>9. ASSUME task = e, e # 0, workers[e].phase # "ended", NEW f \in FramesOf(e)'
      PROVE  Queued(f)' \/ Has(Taken(e), f)
  BY <1>3, <1>4, <1>9 DEF EpochFits
<1>10. ASSUME Sealed(e) PROVE FramesOf(e)' = FramesOf(e) /\ Sealed(e)'
  <2>1. e < ui.epoch /\ e \in Nat /\ ui.epoch \in Nat
    BY <1>2, <1>10, BoundsAssumption DEF Sealed, TypeOK, Epochs
  <2> QED
    BY <1>2, <1>3, <2>1 DEF Sealed
<1>11. ASSUME workers[e].closing # "no"
       PROVE  Sealed(e)' /\ \A f \in FramesOf(e)' : Has(Taken(e), f)
  BY <1>10, <1>11 DEF EpochFits
<1>12. ASSUME workers[e].writer = "goodbye"
       PROVE  Sealed(e)' /\ \A f \in FramesOf(e)' : Has(wire[e], f)
  BY <1>10, <1>12 DEF EpochFits
<1> QED
  BY <1>2, <1>5, <1>7, <1>8, <1>9, <1>11, <1>12 DEF EpochFits

\* The hub gives the oldest queued frame to its worker: it is the worker's next.
LEMMA FitTaken ==
    ASSUME TypeOK, WritesFit, NEW e \in Epochs, EpochFits(e), HubWrite,
           task = e, TakesFrame(commands[1].epoch), commands[1].epoch = e
    PROVE  EpochFits(e)'
<1> DEFINE f0 == commands[1].frame
<1>1. /\ Taking /\ commands[1].op = "Write" /\ Op(1) = "Write" /\ 1 \in 1 .. Len(commands)
      /\ ui' = ui /\ written' = written /\ wire' = wire /\ task' = task
  <2>1. Taking /\ commands[1].op = "Write" /\ ui' = ui /\ written' = written /\ wire' = wire
    BY Popped DEF HubWrite, Serving, Served, Taking
  <2> QED
    BY <2>1, Popped DEF HubWrite, Taking, Op
<1>2. f0 \in Nat /\ f0 \in Frames /\ f0 <= Len(written) /\ written[f0] = e /\ f0 > 0
  <2>1. commands[1] \in Commands
    BY <1>1, Popped DEF Taking
  <2> QED
    BY <1>1, <2>1, CommandFacts DEF WritesFit, Commands
<1>3. workers'[e] = [workers[e] EXCEPT !.queue = Append(@, f0)] /\ e # 0 /\ workers[e].phase # "ended"
  BY <1>1, Popped DEF HubWrite, TakesFrame, TypeOK, Taking
<1>4. /\ Len(written) \in Nat /\ DOMAIN written = 1 .. Len(written) /\ FramesOf(e)' = FramesOf(e)
      /\ f0 \in FramesOf(e) /\ \A f \in FramesOf(e) : f \in 1 .. Len(written) /\ f \in Nat
  BY <1>1, <1>2 DEF TypeOK, FramesOf
<1>5. Queued(f0) /\ \A f \in FramesOf(e) : f0 <= f => Queued(f)
  <2>1. Queued(f0)
    BY <1>1 DEF Queued
  <2>2. \A g \in f0 .. Len(written) : Queued(g)
    BY <1>1 DEF WritesFit
  <2> QED
    BY <1>2, <1>4, <2>1, <2>2
<1>6. \A f : Queued(f)' => Queued(f) /\ f # f0 /\ f \in Nat /\ f0 < f
  <2> SUFFICES ASSUME NEW f, Queued(f)' PROVE Queued(f) /\ f \in Nat /\ f0 < f
    BY <1>2
  <2>1. PICK k \in 2 .. Len(commands) : Op(k) = "Write" /\ commands[k].frame = f
    BY <1>1, QueuedTaken
  <2>2. k \in 1 .. Len(commands) /\ 1 \in 1 .. k - 1
    BY <2>1
  <2> QED
    BY <1>1, <2>1, <2>2, CommandFacts DEF WritesFit, Queued
<1>7. \A f : Queued(f) => Queued(f)' \/ f = f0
  BY <1>1, QueuedTaken
<1>8. ASSUME NEW f \in FramesOf(e), f < f0 PROVE ~ Queued(f)
  BY <1>2, <1>4, <1>6, <1>7, <1>8
<1> DEFINE s == Taken(e)
           n == Len(Taken(e))
<1>9. n \in Nat /\ Len(Taken(e)') = n + 1 /\ Taken(e)'[n + 1] = f0
      /\ \A i \in 1 .. n : Taken(e)'[i] = s[i]
  <2>1. PICK x : x = wire[e]
    OBVIOUS
  <2>2. PICK q : q = workers[e].queue
    OBVIOUS
  <2>3. x \in Seq(Frames) /\ q \in Seq(Frames)
    BY <2>1, <2>2, TakenSeq
  <2>4. /\ Len(x \o q) \in Nat /\ Len(x \o Append(q, f0)) = Len(x \o q) + 1
        /\ (x \o Append(q, f0))[Len(x \o q) + 1] = f0
        /\ \A i \in 1 .. Len(x \o q) : (x \o Append(q, f0))[i] = (x \o q)[i]
    BY <1>2, <2>3
  <2>5. Taken(e)' = wire[e] \o Append(workers[e].queue, f0)
    <3>1. workers[e] \in Workers
      BY DEF TypeOK
    <3> QED
      BY <1>1, <1>3, <3>1 DEF Taken, Workers
  <2> QED
    BY <2>1, <2>2, <2>4, <2>5 DEF Taken
<1>10. \A i \in 1 .. n : s[i] \in FramesOf(e) /\ ~ Queued(s[i]) /\ s[i] < f0
  <2>1. \A i \in 1 .. n : s[i] \in FramesOf(e) /\ ~ Queued(s[i])
    BY DEF EpochFits, Follows, Has
  <2> QED
    BY <1>2, <1>4, <1>5, <2>1
<1>11. \A f \in FramesOf(e) : Queued(f) \/ \E i \in 1 .. n : s[i] = f
  BY <1>3 DEF EpochFits, Has
<1>12. Follows(s, e)
  BY DEF EpochFits
<1>13. workers[e].closing = "no" /\ workers[e].writer # "goodbye"
  <2>1. ~ \E i \in 1 .. n : s[i] = f0
    BY <1>2, <1>10
  <2>2. ~ \E i \in 1 .. Len(wire[e]) : wire[e][i] = f0
    <3>1. \A i \in 1 .. Len(wire[e]) : i \in 1 .. n /\ s[i] = wire[e][i]
      BY TakenSeq
    <3> QED
      BY <2>1, <3>1
  <2> QED
    BY <1>4, <2>1, <2>2 DEF EpochFits, Has
<1>14. PICK r : r = Taken(e)'
  OBVIOUS
<1>15. n \in Nat /\ Len(r) = n + 1 /\ r[n + 1] = f0 /\ \A i \in 1 .. n : r[i] = s[i]
  BY <1>9, <1>14
<1> HIDE DEF s, n, f0
<1>16. Follows(Taken(e), e)'
  <2> SUFFICES ASSUME NEW i \in 1 .. Len(r)
               PROVE  /\ r[i] \in FramesOf(e)
                      /\ \A j \in 1 .. i - 1 : r[j] < r[i]
                      /\ \A f \in FramesOf(e) : f < r[i] => \E j \in 1 .. i - 1 : r[j] = f
    BY <1>4, <1>14 DEF Follows
  <2>1. CASE i = n + 1
    <3>1. \A j \in 1 .. i - 1 : j \in 1 .. n
      BY <1>15, <2>1
    <3>2. ASSUME NEW f \in FramesOf(e), f < f0 PROVE \E j \in 1 .. i - 1 : r[j] = f
      <4>1. PICK j \in 1 .. n : s[j] = f
        BY <1>8, <1>11, <3>2
      <4>2. j \in 1 .. i - 1
        BY <1>15, <2>1, <4>1
      <4> QED
        BY <1>15, <4>1, <4>2
    <3> QED
      BY <1>4, <1>10, <1>15, <2>1, <3>1, <3>2
  <2>2. CASE i # n + 1
    <3>1. i \in 1 .. n /\ \A j \in 1 .. i - 1 : j \in 1 .. n
      BY <1>15, <2>2
    <3>2. /\ s[i] \in FramesOf(e)
          /\ \A j \in 1 .. i - 1 : s[j] < s[i]
          /\ \A f \in FramesOf(e) : f < s[i] => \E j \in 1 .. i - 1 : s[j] = f
      BY <1>12, <3>1 DEF Follows, n, s
    <3> QED
      BY <1>15, <3>1, <3>2
  <2> QED
    BY <2>1, <2>2
<1>17. \A f : Has(r, f) => ~ Queued(f)'
  <2> SUFFICES ASSUME NEW i \in 1 .. Len(r) PROVE ~ Queued(r[i])'
    BY DEF Has
  <2>1. i = n + 1 \/ i \in 1 .. n
    BY <1>15
  <2> QED
    BY <1>6, <1>10, <1>15, <2>1
<1>18. ASSUME NEW f \in FramesOf(e) PROVE Queued(f)' \/ Has(r, f)
  <2>1. CASE f = f0
    <3>1. n + 1 \in 1 .. Len(r)
      BY <1>15
    <3> QED
      BY <1>15, <2>1, <3>1 DEF Has
  <2>2. CASE f # f0 /\ Queued(f)
    BY <1>7, <2>2
  <2>3. CASE ~ Queued(f)
    <3>1. PICK i \in 1 .. n : s[i] = f
      BY <1>11, <2>3
    <3>2. i \in 1 .. Len(r) /\ r[i] = f
      BY <1>15, <3>1
    <3> QED
      BY <3>2 DEF Has
  <2> QED
    BY <2>1, <2>2, <2>3
<1>19. workers'[e].closing = "no" /\ workers'[e].writer # "goodbye"
  <2>1. workers[e] \in Workers
    BY DEF TypeOK
  <2> QED
    BY <1>3, <1>13, <2>1 DEF Workers
<1> QED
  BY <1>4, <1>14, <1>16, <1>17, <1>18, <1>19 DEF EpochFits

\* The writer moves the next frame from its queue to the socket.
LEMMA FitOnWire ==
    ASSUME TypeOK, NEW e \in Epochs, EpochFits(e), WriteFrame(e), Sealed(e) => Sealed(e)'
    PROVE  EpochFits(e)'
<1>1. /\ workers[e].queue # <<>> /\ wire'[e] = Append(wire[e], Head(workers[e].queue))
      /\ workers'[e] = [workers[e] EXCEPT !.queue = Tail(@)] /\ workers[e].writer = "running"
      /\ commands' = commands /\ written' = written /\ task' = task
  BY DEF WriteFrame, Becomes, Writing, TypeOK
<1>2. workers[e] \in Workers /\ wire[e] \in Seq(Frames) /\ workers[e].queue \in Seq(Frames)
  BY DEF TypeOK, Workers
<1>3. /\ workers'[e].queue = Tail(workers[e].queue) /\ workers'[e].phase = workers[e].phase
      /\ workers'[e].closing = workers[e].closing /\ workers'[e].writer = workers[e].writer
  BY <1>1, <1>2 DEF Workers
<1>4. Taken(e)' = Taken(e)
  <2>1. PICK x : x = wire[e]
    OBVIOUS
  <2>2. PICK q : q = workers[e].queue
    OBVIOUS
  <2>3. x \in Seq(Frames) /\ q \in Seq(Frames) /\ q # <<>>
    BY <1>1, <1>2, <2>1, <2>2
  <2>4. /\ Append(x, Head(q)) \o Tail(q) \in Seq(Frames) /\ x \o q \in Seq(Frames)
        /\ Len(Append(x, Head(q)) \o Tail(q)) = Len(x \o q)
        /\ \A i \in 1 .. Len(x \o q) : (Append(x, Head(q)) \o Tail(q))[i] = (x \o q)[i]
    BY <2>3
  <2>5. Append(x, Head(q)) \o Tail(q) = x \o q
    BY <2>4, SeqEqual
  <2> QED
    BY <1>1, <1>3, <2>1, <2>2, <2>5 DEF Taken
<1>5. FramesOf(e)' = FramesOf(e) /\ \A f : Queued(f)' <=> Queued(f)
  BY <1>1 DEF FramesOf, Queued, Op
<1>6. Follows(Taken(e), e)'
  BY <1>4, <1>5 DEF EpochFits, Follows
<1> QED
  BY <1>1, <1>3, <1>4, <1>5, <1>6 DEF EpochFits

LEMMA SealedStays == ASSUME TypeOK, Next, NEW e \in Epochs, Sealed(e) PROVE Sealed(e)'
<1>1. CASE ~ UiRuns
  BY <1>1, RunsBefore DEF Sealed
<1>2. CASE e < ui.epoch
  <2>1. ui'.epoch \in {ui.epoch, ui.epoch + 1}
    <3>1. CASE Deliver
      BY <3>1 DEF Deliver, TypeOK
    <3>2. CASE UiShutdown
      BY <3>2 DEF UiShutdown, TypeOK
    <3>3. CASE Ui /\ ~ Deliver /\ ~ UiShutdown
      BY <3>3 DEF Ui, UiConnect, UiWrite, UiDropHub
    <3> QED
      BY <3>1, <3>2, <3>3, HubQueues, WorkerQueues DEF Next
  <2>2. e \in Nat /\ ui.epoch \in Nat
    BY BoundsAssumption DEF TypeOK, Epochs
  <2>3. e < ui'.epoch
    BY <1>2, <2>1, <2>2
  <2> QED
    BY <2>3 DEF Sealed
<1> QED
  BY <1>1, <1>2 DEF Sealed

LEMMA QueuedStays ==
    ASSUME TypeOK,
           \/ commands' = commands
           \/ \E op : op # "Write" /\ Putting(op)
           \/ Taking /\ commands[1].op # "Write"
    PROVE  \A f : Queued(f)' <=> Queued(f)
<1>1. CASE commands' = commands
  BY <1>1 DEF Queued, Op
<1>2. CASE \E op : op # "Write" /\ Putting(op)
  BY <1>2, QueuedPut DEF Putting
<1>3. CASE Taking /\ commands[1].op # "Write"
  <2> SUFFICES ASSUME NEW f PROVE Queued(f)' <=> Queued(f)
    OBVIOUS
  <2>1. ASSUME Queued(f)' PROVE Queued(f)
    <3>1. PICK k \in 2 .. Len(commands) : Op(k) = "Write" /\ commands[k].frame = f
      BY <1>3, <2>1, QueuedTaken
    <3>2. k \in 1 .. Len(commands)
      OBVIOUS
    <3> QED
      BY <3>1, <3>2 DEF Queued
  <2> QED
    BY <1>3, <2>1, QueuedTaken
<1> QED
  BY <1>1, <1>2, <1>3

LEMMA FramesUi ==
    ASSUME TypeOK, WritesFit, FramesFit, Ui
    PROVE  FramesFit'
<1> SUFFICES ASSUME NEW e \in Epochs PROVE EpochFits(e)'
  BY DEF FramesFit
<1>1. EpochFits(e) /\ workers' = workers /\ wire' = wire /\ task' = task /\ (Sealed(e) => Sealed(e)')
  BY UiQueues, SealedStays DEF FramesFit, Next
<1>2. CASE UiWrite
  BY <1>1, <1>2, FitWritten
<1>3. CASE ~ UiWrite
  <2>1. commands' = commands \/ \E op : op # "Write" /\ Putting(op)
    BY <1>3, UiQueues
  <2>2. written' = written
    BY <1>3 DEF Ui, UiConnect, UiShutdown, UiDropHub, Deliver
  <2>3. \A f : Queued(f)' <=> Queued(f)
    BY <2>1, QueuedStays
  <2> QED
    BY <1>1, <2>2, <2>3, FitKept
<1> QED
  BY <1>2, <1>3

\* What the hub does to the worker it holds moves no frame but those it ends.
LEMMA QueueMoves ==
    ASSUME NEW w \in Workers
    PROVE  /\ Abort(w) = Ended(w) \/ (Abort(w).queue = w.queue /\ Abort(w).closing = w.closing
                                        /\ Abort(w).writer = w.writer)
           /\ WindDown(w) = Ended(w) \/ (WindDown(w).queue = w.queue /\ WindDown(w).writer = w.writer)
           /\ AsksToClose(w).queue = w.queue /\ AsksToClose(w).writer = w.writer
           /\ AsksToClose(w).phase = w.phase
<1> USE DEF Workers
<1>1. Abort(w) = Ended(w) \/ (Abort(w).queue = w.queue /\ Abort(w).closing = w.closing
                                /\ Abort(w).writer = w.writer)
  BY DEF Abort
<1>2. WindDown(w) = Ended(w) \/ (WindDown(w).queue = w.queue /\ WindDown(w).writer = w.writer)
  BY <1>1 DEF WindDown
<1>3. /\ AsksToClose(w).queue = w.queue /\ AsksToClose(w).writer = w.writer
      /\ AsksToClose(w).phase = w.phase
  BY DEF AsksToClose
<1> QED
  BY <1>1, <1>2, <1>3

LEMMA FramesConnect ==
    ASSUME TypeOK, ConnectsFit, TableFits, WritesFit, FramesFit, HubConnect
    PROVE  FramesFit'
<1> SUFFICES ASSUME NEW e \in Epochs PROVE EpochFits(e)'
  BY DEF FramesFit
<1> DEFINE c == commands[1].epoch
<1>1. /\ EpochFits(e) /\ workers[e] \in Workers /\ (Sealed(e) => Sealed(e)')
      /\ written' = written /\ wire' = wire /\ TypeOK'
  <2>1. Next
    BY DEF Next, Hub
  <2> QED
    BY <2>1, SealedStays, NextType DEF FramesFit, HubConnect, TypeOK
<1>2. /\ Taking /\ c \in Epochs /\ c # 0 /\ wire[c] = <<>> /\ task # c /\ task' = c
      /\ workers'[c] = NewWorker(commands[1].tls)
      /\ e # c /\ e # task => workers'[e] = workers[e]
      /\ task # 0 => workers'[task] = Abort(workers[task])
      /\ e # c /\ task = 0 => workers'[e] = workers[e]
  BY ConnectStarts DEF TableFits, TypeOK
<1>3. commands[1].op = "Connect" /\ Op(1) = "Connect" /\ 1 \in 1 .. Len(commands)
  BY <1>2, Popped DEF HubConnect, Serving, Taking, Op
<1>4. \A f : Queued(f)' <=> Queued(f)
  BY <1>2, <1>3, QueuedStays
<1> HIDE DEF c
<1>5. CASE e = c
  <2>1. /\ workers'[e].queue = <<>> /\ workers'[e].closing = "no" /\ workers'[e].writer = "idle"
        /\ wire'[e] = <<>>
    BY <1>1, <1>2, <1>5 DEF NewWorker, NoWorker
  <2>2. Taken(e)' = <<>>
    <3>1. <<>> \o <<>> = <<>>
      OBVIOUS
    <3> QED
      BY <2>1, <3>1 DEF Taken
  <2>3. \A f \in FramesOf(e) : Queued(f)'
    <3>1. \A f \in 1 .. Len(written) : written[f] = commands[1].epoch => Queued(f)
      BY <1>3 DEF WritesFit
    <3>2. DOMAIN written = 1 .. Len(written)
      BY DEF TypeOK
    <3> QED
      BY <1>4, <1>5, <3>1, <3>2 DEF FramesOf, c
  <2>4. FramesOf(e)' = FramesOf(e) /\ ~ \E i \in 1 .. Len(<<>>) : TRUE
    BY <1>1 DEF FramesOf
  <2> QED
    BY <2>1, <2>2, <2>3, <2>4 DEF EpochFits, Follows, Has
<1>6. CASE e # c /\ e = task /\ task # 0 /\ Abort(workers[e]) = Ended(workers[e])
  <2>1. workers'[e] = Ended(workers[e])
    BY <1>2, <1>6
  <2> QED
    BY <1>1, <1>4, <2>1, FitEnded
<1>7. CASE e # c /\ e = task /\ task # 0 /\ Abort(workers[e]) # Ended(workers[e])
  <2>1. /\ workers'[e].queue = workers[e].queue /\ workers'[e].closing = workers[e].closing
        /\ workers'[e].writer = workers[e].writer
    BY <1>1, <1>2, <1>7, QueueMoves
  <2>2. task' # e
    BY <1>2, <1>7
  <2> QED
    BY <1>1, <1>4, <2>1, <2>2, FitKept
<1>8. CASE e # c /\ (e # task \/ task = 0)
  <2>1. workers'[e] = workers[e] /\ task' # e
    BY <1>2, <1>8
  <2> QED
    BY <1>1, <1>4, <2>1, FitKept
<1> QED
  BY <1>5, <1>6, <1>7, <1>8

LEMMA FramesClose ==
    ASSUME TypeOK, WritesFit, ClosesFit, FramesFit, HubClose
    PROVE  FramesFit'
<1> SUFFICES ASSUME NEW e \in Epochs PROVE EpochFits(e)'
  BY DEF FramesFit
<1>1. /\ EpochFits(e) /\ workers[e] \in Workers /\ (Sealed(e) => Sealed(e)')
      /\ written' = written /\ wire' = wire /\ task' = 0 /\ ui' = ui
  <2>1. Next
    BY DEF Next, Hub
  <2> QED
    BY <2>1, SealedStays DEF FramesFit, HubClose, TypeOK
<1>2. Taking /\ commands[1].op = "Close" /\ Op(1) = "Close" /\ 1 \in 1 .. Len(commands)
  BY Popped DEF HubClose, Serving, Served, Taking, Op
<1>3. \A f : Queued(f)' <=> Queued(f)
  BY <1>2, QueuedStays
<1>4. CASE e # task \/ task = 0
  <2>1. workers'[e] = workers[e]
    BY <1>4 DEF HubClose, TypeOK
  <2> QED
    BY <1>1, <1>3, <2>1, FitKept
<1>5. CASE e = task /\ task # 0
  <2>1. workers'[e] = AsksToClose(workers[e])
    BY <1>5 DEF HubClose, TypeOK
  <2>2. /\ workers'[e].queue = workers[e].queue /\ workers'[e].writer = workers[e].writer
        /\ workers[e].phase = "ended" => workers'[e] = workers[e]
    <3>1. workers[e].phase = "ended" => workers'[e] = workers[e]
      BY <2>1 DEF AsksToClose
    <3> QED
      BY <1>1, <2>1, <3>1, QueueMoves
  <2>3. Parts(commands, 1, e, ui.epoch)
    BY <1>2, <1>5, ClosesAre
  <2>4. Sealed(e)'
    BY <1>1, <2>3 DEF Parts, Sealed
  <2>5. ASSUME NEW f \in FramesOf(e), Queued(f) PROVE FALSE
    <3>1. PICK k \in 1 .. Len(commands) : Op(k) = "Write" /\ commands[k].frame = f
      BY <2>5 DEF Queued
    <3>2. k \in 1 + 1 .. Len(commands) /\ commands[k].op = "Write"
      BY <1>2, <3>1 DEF Op
    <3>3. e < commands[k].epoch /\ commands[k].epoch = written[f] /\ written[f] = e
      BY <2>3, <3>1, <3>2 DEF Parts, WritesFit, FramesOf
    <3>4. e \in Nat
      BY BoundsAssumption DEF Epochs
    <3> QED
      BY <3>3, <3>4
  <2> QED
    BY <1>1, <1>3, <1>5, <2>2, <2>4, <2>5, FitKept
<1> QED
  BY <1>4, <1>5

LEMMA FramesStop ==
    ASSUME TypeOK, StopFits, FramesFit, HubStop
    PROVE  FramesFit'
<1> SUFFICES ASSUME NEW e \in Epochs PROVE EpochFits(e)'
  BY DEF FramesFit
<1>1. /\ EpochFits(e) /\ workers[e] \in Workers /\ Sealed(e)' /\ TypeOK'
      /\ written' = written /\ wire' = wire /\ task' = task
  <2>1. Next
    BY DEF Next, Hub
  <2>2. Sealed(e)'
    BY DEF HubStop, Sealed, UiRuns
  <2> QED
    BY <2>1, <2>2, NextType DEF FramesFit, HubStop, TypeOK
<1>2. Taking /\ commands[1].op = "Stop" /\ Op(1) = "Stop" /\ 1 \in 1 .. Len(commands)
  BY Popped DEF HubStop, Serving, Served, Taking, Op
<1>3. \A f : Queued(f)' <=> Queued(f)
  BY <1>2, QueuedStays
<1>4. \A f : ~ Queued(f)
  <2> SUFFICES ASSUME NEW k \in 1 .. Len(commands), Op(k) = "Write" PROVE FALSE
    BY DEF Queued
  <2>1. k \in 1 + 1 .. Len(commands)
    BY <1>2
  <2>2. \A l \in 1 + 1 .. Len(commands) : Op(l) = "Finished"
    BY <1>2 DEF StopFits
  <2> QED
    BY <2>1, <2>2
<1>5. CASE e # task \/ task = 0
  <2>1. workers'[e] = workers[e]
    BY <1>5 DEF HubStop, TypeOK
  <2> QED
    BY <1>1, <1>3, <2>1, FitKept
<1>6. ASSUME e = task, task # 0 PROVE workers'[e] = WindDown(workers[e])
  BY <1>6 DEF HubStop, TypeOK
<1>7. CASE e = task /\ task # 0 /\ WindDown(workers[e]) = Ended(workers[e])
  BY <1>1, <1>3, <1>6, <1>7, FitEnded
<1>8. CASE e = task /\ task # 0 /\ WindDown(workers[e]) # Ended(workers[e])
  <2>1. /\ workers'[e].queue = workers[e].queue /\ workers'[e].writer = workers[e].writer
    BY <1>1, <1>6, <1>8, QueueMoves
  <2>2. CASE workers[e].phase # "ended"
    BY <1>1, <1>3, <1>4, <1>8, <2>1, <2>2, FitKept
  <2>3. CASE workers[e].phase = "ended"
    <3>1. workers'[e] = workers[e]
      BY <1>6, <1>8, <2>3 DEF WindDown, Abort
    <3> QED
      BY <1>1, <1>3, <3>1, FitKept
  <2> QED
    BY <2>2, <2>3
<1> QED
  BY <1>5, <1>7, <1>8

LEMMA FramesHub ==
    ASSUME TypeOK, ConnectsFit, TableFits, StopFits, WritesFit, ClosesFit, FramesFit, Hub
    PROVE  FramesFit'
<1>0. TypeOK' /\ written' = written /\ wire' = wire
      /\ \A e \in Epochs : EpochFits(e) /\ workers[e] \in Workers /\ (Sealed(e) => Sealed(e)')
  BY NextType, SealedStays, HubQueues DEF Next, FramesFit, TypeOK
<1>1. CASE HubWrite
  <2> SUFFICES ASSUME NEW e \in Epochs PROVE EpochFits(e)'
    BY DEF FramesFit
  <2>1. /\ Taking /\ commands[1].op = "Write" /\ Op(1) = "Write" /\ 1 \in 1 .. Len(commands)
        /\ Head(commands) = commands[1]
    BY <1>1, Popped DEF HubWrite, Serving, Served, Taking, Op
  <2>2. \A f : Queued(f)' => Queued(f)
    <3> SUFFICES ASSUME NEW f, Queued(f)' PROVE Queued(f)
      OBVIOUS
    <3>1. PICK k \in 2 .. Len(commands) : Op(k) = "Write" /\ commands[k].frame = f
      BY <2>1, QueuedTaken
    <3>2. k \in 1 .. Len(commands)
      OBVIOUS
    <3> QED
      BY <3>1, <3>2 DEF Queued
  <2>3. CASE TakesFrame(commands[1].epoch) /\ e = task
    BY <1>0, <1>1, <2>3, FitTaken DEF TakesFrame
  <2>4. CASE TakesFrame(commands[1].epoch) /\ e # task
    <3>1. workers'[e] = workers[e] /\ task' = task
      BY <1>1, <2>1, <2>4 DEF HubWrite, TypeOK
    <3> QED
      BY <1>0, <2>2, <2>4, <3>1, FitKept
  <2>5. CASE ~ TakesFrame(commands[1].epoch)
    <3>1. workers' = workers /\ task' = task
      BY <1>1, <2>1, <2>5 DEF HubWrite
    <3>2. ASSUME task = e, e # 0, workers[e].phase # "ended", NEW f \in FramesOf(e), Queued(f)
          PROVE  Queued(f)'
      <4>1. commands[1].epoch # e
        BY <2>5, <3>2 DEF TakesFrame
      <4>2. written[commands[1].frame] = commands[1].epoch
        BY <2>1 DEF WritesFit
      <4>3. f # commands[1].frame
        BY <4>1, <4>2, <3>2 DEF FramesOf
      <4> QED
        BY <2>1, <3>2, <4>3, QueuedTaken
    <3> QED
      BY <1>0, <2>2, <3>1, <3>2, FitKept
  <2> QED
    BY <2>3, <2>4, <2>5
<1>2. CASE HubFinished
  <2> SUFFICES ASSUME NEW e \in Epochs PROVE EpochFits(e)'
    BY DEF FramesFit
  <2>1. Taking /\ commands[1].op = "Finished"
    BY <1>2, Popped DEF HubFinished, Serving, Served, Taking
  <2>2. workers' = workers /\ task' \in {0, task} /\ \A f : Queued(f)' <=> Queued(f)
    BY <1>2, <2>1, QueuedStays DEF HubFinished
  <2> QED
    BY <1>0, <2>2, FitKept
<1>3. CASE HubExits
  <2> SUFFICES ASSUME NEW e \in Epochs PROVE EpochFits(e)'
    BY DEF FramesFit
  <2>1. /\ task' = 0 /\ commands' = commands
        /\ workers'[e] = IF Running(e) THEN Ended(workers[e]) ELSE workers[e]
    BY <1>3 DEF HubExits
  <2>2. \A f : Queued(f)' <=> Queued(f)
    BY <2>1, QueuedStays
  <2>3. CASE Running(e)
    BY <1>0, <2>1, <2>2, <2>3, FitEnded
  <2>4. CASE ~ Running(e)
    BY <1>0, <2>1, <2>2, <2>4, FitKept
  <2> QED
    BY <2>3, <2>4
<1> QED
  BY <1>1, <1>2, <1>3, FramesConnect, FramesClose, FramesStop DEF Hub

LEMMA FramesWorker ==
    ASSUME TypeOK, TableFits, FramesFit, NEW d \in Epochs, Worker(d)
    PROVE  FramesFit'
<1> SUFFICES ASSUME NEW e \in Epochs PROVE EpochFits(e)'
  BY DEF FramesFit
<1>1. /\ TypeOK' /\ written' = written /\ task' = task
      /\ EpochFits(e) /\ workers[e] \in Workers /\ (Sealed(e) => Sealed(e)')
  BY NextType, SealedStays, WorkerQueues DEF Next, FramesFit, TypeOK
<1>2. \A f : Queued(f)' <=> Queued(f)
  <2>1. Command("Finished", d).op = "Finished"
    BY DEF Command
  <2>2. commands' = commands \/ Putting("Finished")
    BY <2>1, WorkerQueues DEF Putting
  <2> QED
    BY <2>2, QueuedStays
<1>3. CASE e # d
  <2>1. workers'[e] = workers[e]
    BY <1>3, WorkerSends
  <2>2. wire'[e] = wire[e]
    BY <1>3 DEF Worker, Dialled, Handshaken, NeverOpened, ReadBytes, ReadEnds, WriteFrame, WriteFails,
                Goodbye, WorkerEnds, WorkerDropped, WindsDown, GraceExpires, TypeOK
  <2> QED
    BY <1>1, <1>2, <2>1, <2>2, FitKept
<1>4. ASSUME e = d, wire' = wire, workers'[e].queue = workers[e].queue,
             workers[e].phase = "ended" => workers'[e].phase = "ended",
             workers'[e].closing # "no" => workers[e].closing # "no",
             workers'[e].writer = "goodbye" =>
                \/ workers[e].writer = "goodbye"
                \/ workers[e].closing # "no" /\ workers[e].queue = <<>>
      PROVE  EpochFits(e)'
  BY <1>1, <1>2, <1>4, FitKept
<1>5. ASSUME e = d, wire' = wire, Becomes(e, Ended(workers[e])) PROVE EpochFits(e)'
  <2>1. workers'[e] = Ended(workers[e])
    BY <1>5 DEF Becomes, TypeOK
  <2> QED
    BY <1>1, <1>2, <1>5, <2>1, FitEnded
<1>6. ASSUME e = d, NEW v, Becomes(e, v) PROVE workers'[e] = v
  BY <1>6 DEF Becomes, TypeOK
<1>7. CASE e = d /\ ReadBytes(e)
  <2>1. workers' = workers /\ wire' = wire
    BY <1>7 DEF ReadBytes
  <2> QED
    BY <1>4, <1>7, <2>1
<1>8. CASE e = d /\ (Dialled(e) \/ Handshaken(e))
  <2>1. wire' = wire /\ workers[e].phase # "ended"
        /\ workers'[e] \in {AfterDial(workers[e]), Opened(workers[e])}
    BY <1>6, <1>8 DEF Dialled, Handshaken
  <2>2. \A v \in {AfterDial(workers[e]), Opened(workers[e])} :
           v.queue = workers[e].queue /\ v.closing = workers[e].closing
           /\ (v.writer = "goodbye" => workers[e].writer = "goodbye")
    BY <1>1 DEF AfterDial, Opened, Workers
  <2> QED
    BY <1>4, <1>8, <2>1, <2>2
<1>9. CASE e = d /\ \E event : ReadEnds(e, event)
  <2>1. wire' = wire /\ workers'[e] = [workers[e] EXCEPT !.reading = FALSE]
    BY <1>6, <1>9 DEF ReadEnds
  <2> QED
    BY <1>1, <1>4, <1>9, <2>1 DEF Workers
<1>10. CASE e = d /\ WriteFails(e)
  <2>1. wire' = wire /\ workers'[e] = [workers[e] EXCEPT !.writer = "failed", !.reading = FALSE]
    BY <1>6, <1>10 DEF WriteFails
  <2> QED
    BY <1>1, <1>4, <1>10, <2>1 DEF Workers
<1>11. CASE e = d /\ Goodbye(e)
  <2>1. /\ wire' = wire /\ workers'[e] = [workers[e] EXCEPT !.writer = "goodbye", !.reading = FALSE]
        /\ workers[e].closing = "draining" /\ workers[e].queue = <<>>
    BY <1>6, <1>11 DEF Goodbye, QueueEnded
  <2>2. workers[e].closing # "no"
    BY <2>1
  <2>3. /\ workers'[e].queue = workers[e].queue /\ workers'[e].phase = workers[e].phase
    BY <1>1, <2>1 DEF Workers
  <2> QED
    BY <1>4, <1>11, <2>1, <2>2, <2>3
<1>12. CASE e = d /\ WriteFrame(e)
  BY <1>1, <1>12, FitOnWire
<1>13. CASE e = d /\ (NeverOpened(e) \/ WorkerEnds(e) \/ WorkerDropped(e))
  BY <1>5, <1>13 DEF NeverOpened, WorkerEnds, WorkerDropped
<1>14. CASE e = d /\ WindsDown(e)
  <2>1. wire' = wire /\ Becomes(e, WindDown(workers[e])) /\ workers[e].closing # "no"
    BY <1>14 DEF WindsDown
  <2>2. CASE WindDown(workers[e]) = Ended(workers[e])
    BY <1>5, <1>14, <2>1, <2>2
  <2>3. CASE WindDown(workers[e]) # Ended(workers[e])
    <3>1. workers[e].phase = "ended" => WindDown(workers[e]) = workers[e]
      BY DEF WindDown, Abort
    <3> QED
      BY <1>1, <1>4, <1>6, <1>14, <2>1, <2>3, <3>1, QueueMoves
  <2> QED
    BY <2>2, <2>3
<1>15. CASE e = d /\ GraceExpires(e)
  <2>1. wire' = wire /\ Becomes(e, Abort(workers[e])) /\ workers[e].phase # "ended"
    BY <1>15 DEF GraceExpires
  <2>2. CASE Abort(workers[e]) = Ended(workers[e])
    BY <1>5, <1>15, <2>1, <2>2
  <2>3. CASE Abort(workers[e]) # Ended(workers[e])
    BY <1>1, <1>4, <1>6, <1>15, <2>1, <2>3, QueueMoves
  <2> QED
    BY <2>2, <2>3
<1> QED
  BY <1>3, <1>7, <1>8, <1>9, <1>10, <1>11, <1>12, <1>13, <1>14, <1>15 DEF Worker

LEMMA FramesNext ==
    ASSUME TypeOK, ConnectsFit, TableFits, StopFits, WritesFit, ClosesFit, FramesFit, Next
    PROVE  FramesFit'
BY FramesUi, FramesHub, FramesWorker DEF Next

-----------------------------------------------------------------------------
(* The invariant, and what follows from it *)

LEMMA InitInvariant == Init => IInv
<1> SUFFICES ASSUME Init PROVE IInv
  OBVIOUS
<1>1. TypeOK /\ 0 \in Epochs /\ MaxEpoch \in Nat
  BY InitType, BoundsAssumption DEF Epochs
<1>2. /\ ui = [state |-> "Idle", epoch |-> 0, tls |-> FALSE] /\ written = <<>> /\ commands = <<>>
      /\ events = <<>> /\ hub = "serving" /\ task = 0
      /\ \A e \in Epochs : workers[e] = NoWorker /\ wire[e] = <<>>
  BY DEF Init
<1>3. Len(<<>>) = 0 /\ \A k \in 1 .. 0 : FALSE
  OBVIOUS
<1>4. ConnectsFit /\ FinishesFit /\ StopFits /\ EventsAreTrue /\ NobodyListens
  BY <1>2, <1>3 DEF ConnectsFit, FinishesFit, StopFits, EventsAreTrue, NobodyListens
<1>5. TableFits /\ NoOrphan
  BY <1>1, <1>2 DEF TableFits, NoOrphan, NoWorker, Unopened, Running
<1>6. UiFits /\ EventsInTurn
  <2>1. ui.state = "Idle" /\ ui.epoch = 0 /\ ui.tls = FALSE /\ workers[ui.epoch] = NoWorker
    BY <1>1, <1>2
  <2>2. ~ InFlight(ui.state)
    BY <2>1 DEF InFlight
  <2> QED
    BY <2>1, <2>2 DEF UiFits, StateIsOwn, EventsInTurn, NoWorker
<1>7. WritesFit /\ ClosesFit
  BY <1>2, <1>3 DEF WritesFit, ClosesFit
<1>8. FramesFit
  <2> SUFFICES ASSUME NEW e \in Epochs PROVE EpochFits(e)
    BY DEF FramesFit
  <2>1. /\ workers[e].queue = <<>> /\ workers[e].closing = "no" /\ workers[e].writer = "idle"
        /\ wire[e] = <<>>
    BY <1>2 DEF NoWorker
  <2>2. Taken(e) = <<>> \o <<>> /\ <<>> \o <<>> = <<>>
    BY <2>1 DEF Taken
  <2>3. FramesOf(e) = {} /\ Len(Taken(e)) = 0
    BY <1>2, <2>2 DEF FramesOf
  <2> QED
    BY <1>3, <2>1, <2>3 DEF EpochFits, Follows, Has
<1> QED
  BY <1>1, <1>4, <1>5, <1>6, <1>7, <1>8 DEF IInv

LEMMA NextInvariant == IInv /\ [Next]_vars => IInv'
<1> SUFFICES ASSUME IInv, [Next]_vars PROVE IInv'
  OBVIOUS
<1>1. CASE Next
  <2>1. TypeOK'
    BY NextType DEF IInv
  <2>2. ConnectsFit' /\ FinishesFit' /\ TableFits' /\ NoOrphan' /\ StopFits'
    BY <1>1, ConnectsNext, FinishesNext, TableNext, NoOrphanNext, StopNext DEF IInv
  <2>3. EventsAreTrue' /\ UiFits' /\ EventsInTurn' /\ NobodyListens'
    BY <1>1, EventsNext, UiFitsNext, TurnsNext, ListensNext DEF IInv
  <2>4. WritesFit' /\ ClosesFit' /\ FramesFit'
    BY <1>1, WritesNext, ClosesNext, FramesNext DEF IInv
  <2> QED
    BY <2>1, <2>2, <2>3, <2>4 DEF IInv
<1>2. CASE UNCHANGED vars
  <2> USE <1>2 DEF vars, Op, Queued
  <2>1. TypeOK'
    BY NextType DEF IInv
  <2>2. ConnectsFit' /\ FinishesFit' /\ TableFits' /\ NoOrphan' /\ StopFits'
    BY DEF IInv, ConnectsFit, FinishesFit, TableFits, NoOrphan, StopFits, Running
  <2>3. EventsAreTrue' /\ UiFits' /\ EventsInTurn' /\ NobodyListens'
    BY DEF IInv, EventsAreTrue, UiFits, StateIsOwn, EventsInTurn, NobodyListens, UiRuns, HubHeld
  <2>4. WritesFit' /\ ClosesFit'
    BY DEF IInv, WritesFit, ClosesFit
  <2>5. FramesFit'
    <3> SUFFICES ASSUME NEW e \in Epochs PROVE EpochFits(e)'
      BY DEF FramesFit
    <3>1. Sealed(e) => Sealed(e)'
      BY DEF Sealed, UiRuns, HubHeld
    <3>2. \A f : Queued(f)' <=> Queued(f)
      OBVIOUS
    <3> QED
      BY <3>1, <3>2, FitKept DEF IInv, FramesFit
  <2> QED
    BY <2>1, <2>2, <2>3, <2>4, <2>5 DEF IInv
<1> QED
  BY <1>1, <1>2

LEMMA Invariance == Spec => []IInv
BY InitInvariant, NextInvariant, PTL DEF Spec

\* However connects, closes, finish notices and the workers' own ends interleave on the
\* net thread, a worker that runs is in the hub's table or on its way out.
THEOREM NoOrphanHolds == Spec => []NoOrphan
<1>1. IInv => NoOrphan
  BY DEF IInv
<1> QED
  BY <1>1, Invariance, PTL

\* What the transport shows is true of its own connection's worker, and each event of
\* that connection is delivered in a state it fits: the events of a worker reach the UI
\* thread in turn, and those of earlier epochs move nothing.
THEOREM OwnEventsHolds == Spec => []OwnEventsFit
<1>1. IInv => OwnEventsFit
  BY TurnFits DEF IInv, UiFits, OwnEventsFit
<1> QED
  BY <1>1, Invariance, PTL

LEMMA WirePrefix ==
    ASSUME TypeOK, NEW e \in Epochs, EpochFits(e)
    PROVE  /\ wire[e] \in Seq(Frames) /\ Follows(wire[e], e)
           /\ \A f \in Range(wire[e]) : f \in FramesOf(e)
           /\ \A f : f \in Range(wire[e]) <=> Has(wire[e], f)
<1>1. /\ wire[e] \in Seq(Frames) /\ Len(wire[e]) \in Nat
      /\ \A i \in 1 .. Len(wire[e]) : i \in 1 .. Len(Taken(e)) /\ Taken(e)[i] = wire[e][i]
  BY TakenSeq
<1>2. Follows(wire[e], e)
  <2> SUFFICES ASSUME NEW i \in 1 .. Len(wire[e])
               PROVE  /\ wire[e][i] \in FramesOf(e)
                      /\ \A j \in 1 .. i - 1 : wire[e][j] < wire[e][i]
                      /\ \A f \in FramesOf(e) : f < wire[e][i] => \E j \in 1 .. i - 1 : wire[e][j] = f
    BY DEF Follows
  <2>1. \A j \in 1 .. i - 1 : j \in 1 .. Len(wire[e])
    BY <1>1
  <2>2. /\ Taken(e)[i] \in FramesOf(e)
        /\ \A j \in 1 .. i - 1 : Taken(e)[j] < Taken(e)[i]
        /\ \A f \in FramesOf(e) : f < Taken(e)[i] => \E j \in 1 .. i - 1 : Taken(e)[j] = f
    BY <1>1 DEF EpochFits, Follows
  <2> QED
    BY <1>1, <2>1, <2>2
<1>3. \A f : f \in Range(wire[e]) <=> Has(wire[e], f)
  <2>1. DOMAIN wire[e] = 1 .. Len(wire[e])
    BY <1>1
  <2> QED
    BY <2>1 DEF Range, Has
<1> QED
  BY <1>1, <1>2, <1>3 DEF Follows, Has

\* A connection's socket carries the frames of its own epoch, in the order they were
\* written and without a gap, through both queues and however often the worker is
\* replaced: no frame of another connection ever surfaces on it.
THEOREM WireHolds == Spec => []WireCarriesItsOwnFrames
<1>1. IInv => WireCarriesItsOwnFrames
  <2> SUFFICES ASSUME IInv, NEW e \in Epochs
               PROVE  /\ \A i, j \in DOMAIN wire[e] : i < j => wire[e][i] < wire[e][j]
                      /\ \E last \in 0 .. Len(written) :
                            Range(wire[e]) = {f \in FramesOf(e) : f <= last}
    BY DEF WireCarriesItsOwnFrames
  <2>1. TypeOK /\ EpochFits(e)
    BY DEF IInv, FramesFit
  <2>2. PICK x : x = wire[e]
    OBVIOUS
  <2>3. /\ x \in Seq(Frames) /\ Follows(x, e) /\ \A f \in Range(x) : f \in FramesOf(e)
        /\ \A f : f \in Range(x) <=> Has(x, f)
    BY <2>1, <2>2, WirePrefix
  <2>4. Len(x) \in Nat /\ DOMAIN x = 1 .. Len(x)
    BY <2>3
  <2>5. \A f \in FramesOf(e) : f \in 1 .. Len(written) /\ f \in Nat
    BY <2>1 DEF TypeOK, FramesOf
  <2>6. ASSUME NEW i \in DOMAIN x, NEW j \in DOMAIN x, i < j PROVE x[i] < x[j]
    <3>1. i \in 1 .. j - 1 /\ j \in 1 .. Len(x)
      BY <2>4, <2>6
    <3> QED
      BY <2>3, <3>1 DEF Follows
  <2>7. \E last \in 0 .. Len(written) : Range(x) = {f \in FramesOf(e) : f <= last}
    <3>1. CASE Len(x) = 0
      <4>1. Range(x) = {}
        BY <2>3, <2>4, <3>1 DEF Has
      <4>2. 0 \in 0 .. Len(written) /\ {f \in FramesOf(e) : f <= 0} = {}
        BY <2>1, <2>5 DEF TypeOK
      <4> QED
        BY <4>1, <4>2
    <3>2. CASE Len(x) > 0
      <4>1. PICK n : n = x[Len(x)]
        OBVIOUS
      <4>2. Len(x) \in 1 .. Len(x)
        BY <2>4, <3>2
      <4>3. n \in FramesOf(e) /\ n \in 0 .. Len(written) /\ n \in Nat
        BY <2>1, <2>3, <2>5, <4>1, <4>2 DEF Follows
      <4>4. ASSUME NEW f \in Range(x) PROVE f \in FramesOf(e) /\ f <= n
        <5>1. PICK i \in 1 .. Len(x) : x[i] = f
          BY <2>3, <4>4 DEF Has
        <5>2. i = Len(x) \/ i \in 1 .. Len(x) - 1
          <6>1. Len(x) \in Nat
            BY <2>4
          <6> QED
            BY <6>1
        <5>3. f = n \/ f < n
          BY <2>3, <4>1, <4>2, <5>1, <5>2 DEF Follows
        <5> QED
          <6>1. f \in FramesOf(e) /\ f \in Nat
            BY <2>3, <2>5, <4>4
          <6> QED
            BY <4>3, <5>3, <6>1
      <4>5. ASSUME NEW f \in FramesOf(e), f <= n PROVE f \in Range(x)
        <5>1. f = n \/ f < n
          BY <2>5, <4>3, <4>5
        <5>2. CASE f = n
          BY <2>3, <4>1, <4>2, <5>2 DEF Has
        <5>3. CASE f < n
          <6>1. PICK j \in 1 .. Len(x) - 1 : x[j] = f
            BY <2>3, <4>1, <4>2, <5>3 DEF Follows
          <6>2. j \in 1 .. Len(x)
            BY <2>4, <6>1
          <6> QED
            BY <2>3, <6>1, <6>2 DEF Has
        <5> QED
          BY <5>1, <5>2, <5>3
      <4>6. Range(x) = {f \in FramesOf(e) : f <= n}
        BY <4>4, <4>5
      <4> QED
        BY <4>3, <4>6
    <3> QED
      BY <2>4, <3>1, <3>2
  <2> QED
    BY <2>2, <2>6, <2>7
<1> QED
  BY <1>1, Invariance, PTL

\* A connection that said goodbye has every frame of its epoch on its socket: the close
\* travels behind the frames in both queues, and none is written to the epoch after it.
THEOREM GoodbyeHolds == Spec => []GoodbyeMeansDrained
<1>1. IInv => GoodbyeMeansDrained
  <2> SUFFICES ASSUME IInv, NEW e \in Epochs, workers[e].writer = "goodbye"
               PROVE  Range(wire[e]) = FramesOf(e)
    BY DEF GoodbyeMeansDrained
  <2>1. TypeOK /\ EpochFits(e)
    BY DEF IInv, FramesFit
  <2>2. \A f \in FramesOf(e) : Has(wire[e], f)
    BY <2>1 DEF EpochFits
  <2>3. /\ \A f \in Range(wire[e]) : f \in FramesOf(e)
        /\ \A f : f \in Range(wire[e]) <=> Has(wire[e], f)
    BY <2>1, WirePrefix
  <2> QED
    BY <2>2, <2>3
<1> QED
  BY <1>1, Invariance, PTL

=============================================================================
