# A TLA+ model of omairc

omairc is a desktop IRC client written in Rust (`client/`), with a terminal twin in Go
(`tui/`).  This directory holds TLA+ modules for the parts of the Rust client in which order,
failure and time decide whether it is right: the connection (capabilities, registration, STS,
the network threads), the requests whose answers come late (history, labels, read markers,
`/list`, `/monitor`), what a channel shows (its members and its lines), away by hand and by
idleness, the files several clients share, and the control socket.  TLC checks the modules on small
instances; TLAPS proves most of their safety properties for every value of the constants.
`PROJECT.json` maps each definition to the lines it models and lists the runs, the mutants, the
hazards, the findings and the theorems.

Paths below are relative to the repository root, and within `client/src/` where they name a module
of the client.

## 1. Inventory

| Component | State it keeps | Operations | Talks to | Correct when |
|---|---|---|---|---|
| Capability ledger (`irc/capabilitynegotiation.rs`) | a token state per wanted row, the sasl value, whether a secret is configured | advertise, withdraw, take_request, acknowledge, reject, abandon, settled | called by the session | two spellings of a capability are never both in use; nothing waits for an answer that cannot come; the client never believes in a capability the server has off |
| Session lifecycle (`session/session.rs`, `connection.rs`, `sink.rs`, `watchdog.rs`) | state, disconnect intent, timers, retry count, ping state, queued effects | start, stop, quit, fail, schedule_reconnect, begin_reconnect_attempt, the five transport callbacks, four timers | transport (calls queued, callbacks nested), controller (events) | the state always has the socket or the timer it speaks of; a stop is final; a handshake ends |
| Session registration (`session/caps.rs`, `registration.rs`, `dispatch.rs`, `saslscram.rs`) | CAP progress, SASL exchange, nick fallback | one handler per CAP subcommand, AUTHENTICATE and numeric | ledger, lifecycle | SCRAM success means a verified signature; no fallback from SCRAM to PLAIN; the deadline covers the whole handshake |
| STS (`session/stsflow.rs`, `storage/stspolicies.rs`) | pending advertisement, held duration; the policy file and the policies whose write failed | upgrade, remember, clear, reschedule at disconnect, look up at dial; store, refresh, clear, recover | lifecycle, other clients | a live policy forbids plaintext and is not forgotten; the policies of others are left alone |
| Network layer (`net/transport.rs`, `hub.rs`, `worker.rs`, `wire.rs`) | the transport's state and epoch (UI thread); the task table (net thread); a queue, a reader and a writer per connection | connect, write, shutdown, apply; serve a command; dial, handshake, pump, wind down | two queues between two threads | it implements the `Transport` trait; nothing of one connection leaks into the next; no socket is orphaned |
| Batches and history (`session/batch.rs`, `history.rs`) | open batches, ignored ones, a pending request and a generation per channel | request, chain, open, line, close, FAIL, part, kick, CAP DEL | server, controller | an answer is taken for its own request; replayed lines are never handled as live; a request ends |
| Labelled requests (`session/labels.rs`, `controller/replyrouter.rs`) | labels with deadlines, watches of WHOIS and CTCP | send, answer, time out, disconnect | server, controller | a reply reaches the conversation that asked; a label ends |
| Read markers (`session/readmarker.rs`, `controller/readmarker.rs`, `irc/reducer/readmarker.rs`) | per target one command in flight, one pending, the last known time; the hold on publishing | mark, confirm, fail, flush on ACK, select, view | server, other devices | only what was seen is published; what is seen is published |
| Membership and presence (`irc/reducer/handlers.rs`, `conversations.rs`, `irc/presence.rs`, `session/autojoin.rs`, the joins of `controller/`) | rows, members, what is known of a nick, closed and cancelled channels, the autojoin list | join, part, close, and one handler per line | server | the lists are those of the server; what was left stays left |
| Transcript (`irc/reducer/splice.rs`, `transcript.rs`, `controller/history.rs`, `playback.rs`, `storage/conversationlog.rs`, `playbacktime.rs`) | rows, msgids, the anchor of the next page, held playback, the log, the stored time | live line, page, playback, cap, clear, close, reopen | history, log | no line twice, in order, nothing missed |
| Auto-away (`controller/autoawayruntime.rs`) | settings, the idle and grace timers, networks away by hand and by idleness | away, back, chat, trip, register, drop | sessions | it knows what the servers were told; an away set by hand is kept |
| `/list` (`controller/channellist.rs`) | a load with rows, a pending mask, a drained end; the overlay | list, row, end, refusal, timeout, dismiss | session, view | a finished list is the answer to its own LIST |
| `/monitor` (`controller/monitorcoordinator.rs`, `storage/lists.rs`) | the stored nicks, whether they were sent, what is known of each | add, remove, subscribe after the 005, report, list full | session, storage | the list shown is the one the server keeps |
| File replacement (`storage/atomicwrite.rs`, recovery in `stspolicies.rs`) | temporary names, backup names | create, fill, sync, back up, rename | disk, other processes | a crash leaves the old or the new file; a damaged file is kept |
| Desktop integration (`desktop/singleinstance.rs`, `endpoint.rs`, `ipchandler.rs`, `cli.rs`) | the lock, the socket, its clients and the queued requests | claim, raise, serve, `omairc send` | operating system, command line | one window; the exit status is true |
| Session registry (`session/sessionmanager.rs`) | a session per network | add, replace, remove, stop all | window, controller | no session outlives its removal |
| IRC framing and parsing, other session conveniences (typing, CTCP, metadata), other stores, model and user interface, terminal client, demo and live harness | buffers; throttles; files; view state; a Go port; scripted peers | - | - | - |

### What is hard here

- **One borrow, queued calls.** `Session::locked` runs a handler under a `RefCell` borrow; the
  handler only queues transport calls, and `run_effects` makes them once the borrow is
  released.  So *all* frames of a chunk of bytes are handled before the first queued
  `shutdown` runs: a fatal line does not stop the lines behind it.
- **Nested callbacks.** `Transport::shutdown` calls `disconnected` from inside `run_effects`;
  the calls this nested handler queues run before the rest of the outer queue.
- **Silent refusals.** `connect` is ignored while a connection is in flight, so a connect made
  too early strands the session.
- **Stale timers and stale states.** The handshake, the watchdog and the backoff each depend on
  a timer that several handlers cancel, and timers look at the state when they fire.
- **Two threads, one epoch.** Commands and events are tagged with the epoch of their connection,
  all but `Close`, which relies on the order of the queue that finish notices also enter.
- **Answers without names.** A history batch, the end of a LIST, a 401, an own JOIN or a 306 does
  not say which request it answers; the client pairs them by what is pending when they are read.
- **Deadlines against late answers.** Capability timeout against a late ACK, label timeout against
  the labelled reply, idle timeout of a LIST against its end, grace period against a draining
  writer, the reply wait of the window against that of the command line.
- **The user does not wait.** A channel is left, closed and joined again, a conversation cleared
  or reopened, while lines about its earlier state are on their way.
- **Nobody locks.** Two clients read, change and write the same files; a launch takes over the
  path of a socket whose owner may be dying; the power may fail at every step.

`PROJECT.json` lists these at their lines, with the properties that watch each one.

## 2. Modules

| Module | Models | Role |
|---|---|---|
| `CapNegotiation` | `irc/capabilitynegotiation.rs` | the ledger's methods as operators from a ledger to a ledger |
| `CapExchange` | ledger half of `session/caps.rs` | the ledger against a server, over two FIFO directions |
| `Session` | `session/*.rs`, `net/transport.rs` as the session sees it | one network's session; uses the operators of `CapNegotiation` |
| `Transport` | `session/transport.rs` | abstract contract: the order in which a transport may move |
| `NetTransport` | `net/transport.rs`, `hub.rs`, `worker.rs`, `wire.rs` | UI half, hub and workers; implements `Transport` |
| `History` | `session/history.rs`, `batch.rs`, part of `dispatch.rs` | CHATHISTORY of one channel |
| `Labels` | `session/labels.rs`, `controller/replyrouter.rs` | labels and watches about one nick |
| `ReadMarker` | the three `readmarker.rs` | the marker of one direct conversation |
| `StsStore` | `storage/stspolicies.rs` | the policy file shared by clients |
| `AtomicWrite` | `storage/atomicwrite.rs`, `recover_malformed_sts` | replacement, system call by system call |
| `Channels` | membership and presence, see the inventory | channels of one network, with server, user and one other person |
| `Transcript` | transcript, see the inventory | the lines of one channel and their stored copy |
| `AutoAway` | `controller/autoawayruntime.rs` and its callers | away over several networks |
| `ChannelList` | `controller/channellist.rs` | `/list` on one network |
| `Monitor` | `controller/monitorcoordinator.rs`, `storage/lists.rs` | `/monitor` on one network |
| `Ipc` | `desktop/singleinstance.rs`, `endpoint.rs`, `ipchandler.rs`, `cli.rs` | launches, lock, socket and `omairc send` |
| `MCSession` | - | small instances |
| `MCCapExchange` | - | small instances, reached by `INSTANCE` so that `SessionProofs` can extend it beside `Session` |
| `MCStorage` | `StsStore` and `AtomicWrite` | instances side by side: `part` says which one moves |
| `MCConversations` | `Channels` and `Transcript` | the same |
| `MCDesktop` | `AutoAway`, `ChannelList`, `Monitor`, `Ipc` | the same |
| `NetTransportProofs`, `ReadMarkerProofs`, `LabelsProofs`, `HistoryProofs` | - | theorems about the module of that name |
| `SessionProofs` | - | theorems about `Session` and about `CapExchange`, through the specification of `MCCapExchange` |
| `ConversationsProofs` | - | theorems about `Channels` |
| `StorageProofs` | - | theorems about `StsStore` and `AtomicWrite`, about the specification of `MCStorage` |
| `DesktopProofs` | - | theorems about `AutoAway`, `ChannelList`, `Monitor` and `Ipc`, about the specification of `MCDesktop` |

The three modules with a `part` put components into one run that do not interact at this level:
each behaviour is a behaviour of exactly one of them, and the state space is their sum.
They depend on each other through promises: `StsStore` writes its file as a whole or not at
all, which `NeverTorn` of `AtomicWrite` justifies; `Transcript` has one history request at a time and no
answer of an earlier stay, which is what `History` shows of the session; `Session` takes bytes and closes
only while its pipe is open, which `OwnEventsFit` of `NetTransport` shows.

### CapNegotiation and CapExchange

A ledger maps each row of the wanted table to `Absent`, `Advertised`, `Requested`, `Enabled` or
`Refused`.  The table itself (`WANTED`: capability, token, dependency, own line) is the
program's, in its order; `Rows` selects the rows a server may name, since a row never named
stays absent and influences nothing.  `RequestLines` groups what `take_request` asks for the
way the code does.  In `CapExchange` the server may announce, withdraw, grant and refuse at
will; both directions are FIFO, as over one TCP connection, and the client's timeout may fire at
any time while something is outstanding.  The server is external code: it stays within the
protocol (a request line is granted or refused as a whole, only offered capabilities are
granted), which `LedgerAgrees` needs.  `Session` makes no such
assumption: there an ACK or NAK may name any rows at any time.

### Session

`core` is the `Core` struct as a record; every method of `Core` is an operator from a core to a
core, and `core.effects` is the queue `run_effects` works through.  An action is one handler
(`Start`, `Stop`, `Quit`, `NotifyReachable`, a timer, a transport callback), one frame of a
chunk, or one queued effect.  `chunk` counts the frames the chunk may still hold; `EndOfChunk`
ends it at any point, so every shorter chunk is covered.  Outside actors act only when the UI
thread is between two callbacks (`Quiescent`).  `RunShutdown` includes the nested
`disconnected` call and puts its effects in front of those still queued.

What is abstracted:

- Lines are model values.  The registration burst (PASS or not, NICK, USER) is one `REGISTER`
  line, the autojoin burst one `JOIN`.
- The attempt count saturates at `BackoffSteps`, where the doubling delay has reached its
  maximum; how long a delay lasts is not modelled.
- SASL is a sequence of phases: a payload fits the dialogue, is a part of one, or is one that
  the machine cannot accept.  The cryptography is left out.
- STS tokens are pairs of port and duration; the clock is `PolicyLapses`, which may happen
  between any two callbacks.  One corner is left out: a later LS line whose `sts` carries no
  usable key is treated like a line without `sts`.
- A cancelled timer whose callback is already under way does nothing in the code (its slot no
  longer holds it) and is not an action.
- Left out: event reporting, metadata, invites, ISUPPORT, a QUIT reason that cannot be sent,
  setters, and `force_transport_shutdown`, which only the live harness calls.  Labels, history,
  read markers and autojoin have modules of their own.

The transport is seen as the states `NetTransport` shows.  `Closing` is declared in the code and
never entered.

### Transport and NetTransport

`Transport` is the contract of the trait: six states, and which may follow which.
`NetTransport` has the `NetTransport` struct and its epoch (`ui`), the command queue, the event
queue, the hub's loop and table (`hub`, `task`), and per epoch a worker with its phase, its
write queue, how far its close has come, its reader and its writer.  The net thread is a
current-thread runtime, so an action is what a task does between two awaits.  A `Close` only
*spawns* `wind_down`; `WindsDown` is that task's turn, and the worker may open its pipe before
it.  An abort takes a task that is dialling at once; an open one may still do some work in its
halves before it is dropped (`aborting`).

One connection is modelled.  Several share the two queues and the hub's table and nothing else,
and the table is keyed by connection.  Dialling, name resolution and TLS are outcomes
(`Dialled`, `Handshaken`, `NeverOpened`).  After `UiDropHub` nobody reads the event queue, so it is
emptied and no longer filled.

A remark from the mutants: the epoch that `Write` carries is redundant.  The hub could ignore it and
no property would change, because a write always follows its own connect in the same queue and
a shutdown's `Close` takes the task out of the table in between.

### History

`core` is the session's half for one channel: whether the capabilities are there, the pending
request and its kind, the generation, the open batches and the ones whose lines are ignored.
`User` requests (LATEST or AFTER on joining, BEFORE on scrolling up), leaves and joins; `Receive` handles
one line, with the page it chains; `Serve` answers the next line with a batch of at most one
line or a FAIL; `Strike` is a KICK or a CAP DEL between any two lines; `ServeChild` opens a
nested batch.  `delivered` is the answer the last step handed on, with the request the server
had in mind, which the protocol does not carry.  An answer that is read after the user left and
joined again is taken for the request of the new stay; `crossed` records that, and
`AnswerIsMatched` excepts it.  Other batch kinds and direct messages are left out.

### Labels

The label table with its one timer (`Tick`, `LabelTimerFires`), the queue of events and the
controller's watches: by label, and for servers without labels by nick (WHOIS) and by CTCP
verb.  `Whois`, `Ctcp` and `Message` are typed commands, of which a labelled one may fail to be sent;
`Read` handles a line, `Pump` drains an event.  Two unlabelled WHOIS of one nick share a watch, so the second
conversation gets both replies; `ReplyGoesHome` speaks of labelled replies.  The watches of own
metadata and of list modes follow the same pattern and are left out.

### ReadMarker

`s` is the session's ledger, `c` what the controller and the conversation keep; events pass
through a queue (`Drain`).  `Serve` answers in order, `ServeBadly` refuses, `OtherReads` is
another device of the account, `ServerCap` gives and takes the capability.  The server answers
what it was sent before a CAP DEL.  The user may act between the session's step and the
controller's, which the real UI thread allows less often: an over-approximation.  Whenever another
conversation comes on screen, by a selection, by a close or by the first message, the shell reports in the
same step whether it is focused and at its end (`Reports`), and what is on screen is published then.

### StsStore and AtomicWrite

In `StsStore` a call opens and reads the file, settles the policies whose write had failed,
changes its copy and writes it back.  `World` moves the clock and damages, locks, deletes or restores
the file.  `pledge` is a history variable: until when a client owes its host a policy.  A write of
another client lowers it to the policy it leaves, and so does a refresh by a client that does
not know of such a write yet (`Owes`): when the client reads the file again, `file_moved` lets the
other's policy win, whatever was refreshed in between.  A group that is not a policy may lack one of its two keys; a
look-up drops it from the file only if both are there.
Nothing locks the file; what another client changes between a call's read and its write is
overwritten, and `OthersAreLeftAlone` excepts exactly that (`Fresh`).

In `AtomicWrite` processes interleave system call by system call, may be killed between two of
them, and the power may fail.  The directory is never synced by the code, so `durable` lags
behind `dir` by whole changes (`Flush`), and bytes not synced may be lost.  A restarted client
may have the process id, and so the temporary names, of a dead one.

### Channels

One action reads a line and does what session, controller and reducer do with it, since they
run in one task of the UI thread.  The server, the user and one other person act around it; the
wire keeps the order in each direction.  `stalled` marks channels whose NAMES reply took more
than 30 seconds and was released, `hidden` the closed ones that somebody else has put the user
into: the client shows nothing of them and sends nothing.  An own JOIN that was cancelled, or that comes while the
user wants out, is undone and does not count as such.  `wish` and `dismissed` record what the user asked
for.  `MCBudgets` gives three instances: one channel with a nick to change to, with two moves of the other
person or three commands, and two channels side by side.  Typing, ranks, topics,
invites and refused JOINs are left out.

### Transcript

Lines are numbered in the order they were said and have msgids; `Joined` is the user's own join
line.  `Say`, the pages, `Playback`, `Clear`, `Leave`, `Welcome` and `Close` are the operations
with the cap, the log and the stored time they touch.  `owed` are the lines of an absence.
After as many full pages as the page cap allows, `Chained` asks once for the newest lines (`TailPage`) and
the lines between are never fetched; they are no longer owed then, and no others.  `Refused` is a FAIL for the
request in flight.  At a welcome, a line that was not fetched and that the stored time has passed is no longer
owed either (see *Catching up* in section 6).
`disturbed` collects what has happened that the code gives no promise about (trimming at the
front, trimming at the end while the reader pages back, playback, /clear, a stay that ended before its
pages, a refused request, reopening), and the properties name the ones they except.
`bounds` is the instance a behaviour belongs to: the three limits of the program (rows, lines in a page, pages in a
chain), which the code fixes at 2000, the server's limit and 10, and how often each thing may happen.  Membership rows, unread
marks and typing are left out.

### AutoAway, ChannelList, Monitor

`AutoAway`: one action is one task of the UI thread.  An armed timer may fire at any time; the
generation that makes a late expiry harmless is not modelled, as a cancelled timer is not an
action.  Only chat counts as activity, as in the code.

`ChannelList`: a LIST is numbered and a row stands for the number it answers, so the model can
tell apart what the code cannot.  `late` and `mixed` record that more was unanswered than the
one end the code drains.  One network; a 321 only restarts the timer.

`Monitor`: commands and reports cross on the wire.  Each connection has one 005 with a
limit, which may differ from the last one's; withdrawal of MONITOR is left out.  `cut` and
`crossed` name the two exceptions of `WatchIsTrue`.

### Ipc

Launches race for the lock file, remove a stale socket, bind, serve, close and may be killed
between any two steps; `omairc send` connects, writes and waits.  A client thread of the window
waits for the UI thread; both waits are bounded in ticks.  The window may be late at everything;
the command line is assumed not to be a full second late at its own deadline (the guard of
`Tick`).  The backlog is accepted in any order.  Unix only; the reading commands and
their cursor are left out.

## 3. Runs

| Run | Instance | Shows |
|---|---|---|
| `cap_exchange` | rows sasl, batch, chathistory and draft/chathistory; 3 announcements | `OneSpelling`, `LedgerAgrees` |
| `session_lifecycle` | plaintext profiles: with and without reconnect, unsendable, incomplete; STS port 6697, durations 0 and 5; chunks of 2 frames | `StateIsBacked`, `StopOutranksReconnect`, `SilenceIsTimed`, `ConnectIsNeverIgnored`, `LivePolicyForbidsPlaintext`, `FailedStaysDown` |
| `session_auth` | profiles with a secret and a NickServ password, with TLS and without; PLAIN and SCRAM, redirects to TLS; chunks of 1 | `SecretIsSafe`, `HandshakeResolves`, `ReconnectHappens` |
| `net_transport` | 3 epochs and 1 frame, or 2 epochs and 2 frames | `WireCarriesItsOwnFrames`, `OwnEventsFit`, `NoOrphan`, `GoodbyeMeansDrained`, and that it implements `Transport` |
| `net_liveness` | 2 epochs, 2 frames | `NothingHangs` |
| `history` | 3 requests, 3 batches, 1 kick, 2 pages, 2 open batches | `AnswerIsMatched`, `NothingLeaks`, `PendingResolves` |
| `labels` | 2 conversations, 2 commands, a timeout of 1 in 3 ticks, 1 lost connection | `ReplyGoesHome`, `LabelFinishes` |
| `read_marker` | 2 lines, 1 marker of another device, 1 refusal, 1 lost connection, 2 changes of view, 4 of these events in all | `OnlySeenIsRead`, `ReadIsPublished` |
| `storage` | 2 processes, 4 inodes, 1 crash; 2 clients, 2 hosts, 3 calls | `NeverTorn`, `DamageIsKept`, `NeverForgets`, `OthersAreLeftAlone` |
| `conversations` | one channel and a change of nick, or two channels, with a lost connection; full transcripts (a cap of 3, 4 lines, pages of 2) and ones with room (a cap of 12, up to 6 lines, pages of 1 and 2, chains of 2 pages, up to 3 stays) | `RosterIsTrue`, `LeftIsLeft`, `AwayIsTrue`, `RowsInOrder`, `ClearedStaysCleared`, `CaughtUp` |
| `desktop` | 2 networks; 4 LISTs, 2 masks; 3 nicks, limits 1 to 3; 3 launches, 1 send | `LedgerIsTrue`, `ManualIsKept`, `ListIsOwn`, `WatchIsTrue`, `OneWindow`, `ExitIsHonest` |
| `fatal_failure` | one plaintext profile; chunks of 2 | the finding of section 6 |

The type invariant `TypeOK` of each module holds on the same instances and is not repeated in the
runs; the theorems `TypeCorrect` of section 4 prove it of six modules.

**Why the bounds are enough.**

- *Ledger*: the rows include each kind there is: sasl, a dependency, its dependants, and two
  spellings of one capability; three announcements allow withdraw, return, withdraw.
- *Session*: a chunk of two frames puts any frame behind any other before the queued calls run,
  and chunks may follow each other without end.  What takes three frames of one chunk is beyond
  this instance; the proofs cover every length.  STS needs a duration that clears and one that keeps, and a port different from
  the profile's.  `BackoffSteps` is 1, as nothing depends on the count but the delay.
- *Network*: a connect and a shutdown each begin an epoch, so three are connect, shutdown, connect,
  the least in which a connection that is winding down meets the next; two frames are one written and
  one still queued.
- *History*: three requests are a first stay's, its next page and a second stay's; the kick may
  come between any two lines.  *Labels*: two commands are a label that is late and one that is new.
  *Read markers*: two lines are one in flight and one pending; two changes of view are leaving a
  conversation whose marker was asked for and returning to it, or closing it and opening it again.
- *Storage*: four inodes are the damaged file, two temporaries and a backup; two
  processes meet at each system call.  Three calls are a store, another client's change, and the
  call that meets it.
- *Conversations*: two moves of the other person with two commands, or one with three: a join, a
  leave and a join again, with a move in between.  The exception of `LeftIsLeft` is first needed with four commands, beyond the
  run; the proof covers it.
  Of the transcripts, the full ones trim at both ends, since a join line is a row too: they show that no line
  is shown twice and that what was cleared stays so, and hardly ever the order.  The ones with room never trim, so that order and
  catching up are shown without exception: pages of one line, with chains of two, exceed the page cap within
  six lines and have a middle that is lost; pages of two lines leave room for an absence of three lines and more, fetched
  in a chain, in the second and third stay, beside live lines and an older page; in the last one playback and
  closing cross the pages.
- *Desktop*: three commands ahead are an away, a back and one more before the first answer.
  Four LISTs are one that timed out, one that drains its end, one waiting and one more.  Three nicks and limits
  from 1 to 3 make the limit cut one, refuse one and accept all.  Three launches are a window
  that dies, one that takes over and one that races it.

**Deadlock** is checked in every session run.  It is not checked in the others, whose
bounds run out or whose application ends.

**Fairness** (liveness properties only):

- `RunEffect` and `EndOfChunk`, weak: a callback on the UI thread returns.
- `DialEnds`, `TlsHandshakeEnds`, and in `NetTransport` `Dialled \/ NeverOpened` and
  `Handshaken \/ NeverOpened`, weak: the worker puts a deadline on both.
- `TimerFired` of the registration and the reconnect timer, strong: an armed timer is
  served by the same main loop as the sockets, between callbacks, so a busy server can delay it
  but not starve it.  The capability and ping timers need no fairness for these properties.
- `Hub`, `Deliver`, `WorkerEnds`, `WorkerDropped`, `WindsDown`, `GraceExpires`, weak: the net
  thread's loop runs, aborted tasks are dropped, `CLOSE_GRACE` is a timer of the runtime, and
  the UI thread drains its events.
- `Labels`: `Tick`, `LabelTimerFires`, `Pump`, weak: time passes, the timer is served, the
  controller drains its queue.  Nothing is assumed of the server, which may never answer.
- `History`: `Receive` and `Serve`, weak.  A pending request has no timeout, so that it ends
  does depend on the server's answer; the property is that *any* answer, refusal or kick ends it.
- `ReadMarker`: `Drain`, `Read`, `Serve \/ ServeBadly`, weak, for the same reason.

Otherwise nothing is assumed of the server or the user.

**Mutants.**  Each property of each passing run has a variant of a mapped definition, kept beside
it under a comment that begins with "Variant", that breaks the property under the same
configuration: a dropped guard, a missing timer, an epoch built too early, a swapped order.

## 4. Proofs

Every theorem holds for all constants that satisfy the named assumptions of the module
(`RowsAssumption`, `ConfigsAssumption`, `SaslValuesAssumption`, `StsAssumption`,
`BoundsAssumption`, `HostsAssumption`, ...), which ask only for the right types and for bounds that are positive
where zero makes no sense.  The modules that a run reaches through `INSTANCE` only declare none; `MCDesktop`, `MCStorage` and `MCCapExchange`
assume it of their constants, so TLC evaluates it (`ExchangeParameters`: types; `WindowNames`: launches and sends have different
names; `DiskParameters`: bounds are numbers, there is a backup name and an inode, a whole file is neither
torn nor damaged).  `DesktopProofs` and `StorageProofs` are about the specifications of the first two, whose
steps are steps of one component and leave the others alone.

Each safety theorem comes from an inductive invariant that TLC checked as an invariant of an
instance before it was proved; the table gives the largest.

| Module | Theorems | States in which TLC checked the invariant |
|---|---|---|
| `SessionProofs` | `TypeCorrect`, `StopHolds`, `StateIsBackedHolds`, `SilenceIsTimedHolds`, `ConnectIsNeverIgnoredHolds`, `LivePolicyHolds`, `SecretIsSafeHolds`, `FailedStaysDownHolds` | 1,019,241 (chunks of 3) |
| `SessionProofs` | `ExchangeTypes`, `OneSpellingHolds`, `LedgerAgreesHolds` | 474,224 |
| `NetTransportProofs` | `TypeCorrect`, `Refinement`, `NoOrphanHolds`, `OwnEventsHolds`, `WireHolds`, `GoodbyeHolds` | 2,053,740 |
| `ReadMarkerProofs` | `TypeCorrect`, `OnlySeenIsReadHolds` | 924,850 |
| `LabelsProofs` | `ReplyGoesHomeHolds` | 5,350,100 (3 commands) |
| `HistoryProofs` | `AnswerIsMatchedHolds`, `NothingLeaksHolds` | 4,821,411 (4 batches, 2 kicks) |
| `StorageProofs` | `TypeCorrect`, `NeverForgetsHolds`, `OthersAreLeftAloneHolds` | 1,655,108 (one host, 3 calls), 1,664,712 (two, 2 calls) |
| `StorageProofs` | `NeverTornHolds`, `DamageIsKeptHolds` | 2,907,256 (2 crashes) |
| `DesktopProofs` | `TypeCorrect`, `LedgerHolds`, `ManualHolds` | 811,752 |
| `DesktopProofs` | `ListIsOwnHolds` | 55,655 (4 LISTs) |
| `DesktopProofs` | `WatchIsTrueHolds` | 1,465,020 (3 nicks, 5 commands) |
| `DesktopProofs` | `OneWindowHolds`, `ExitIsHonestHolds` | 2,252,804 |
| `ConversationsProofs` | `TypeCorrect`, `RosterHolds`, `LeftHolds`, `AwayHolds` | 1,118,603 |

**`SessionProofs`, the exchange.**  The theorems are about `ExchangeSpec` of `MCCapExchange`, which is that of `CapExchange`.  `OneSpelling` is inductive
together with the type invariant: only `TakeRequest` raises a token to `Requested`, it does so
for the rows `is_requestable` accepts, and that asks for no live spelling and for the first
one in the table among those advertised; `Acknowledge` only moves `Requested` to `Enabled`.
`LedgerAgrees` speaks of empty queues, so `Agrees` says what it comes from while lines are under
way: a requested row has its request, its answer or its withdrawal in one of the queues; an
enabled row is on at the server or a DEL for it is coming; and an ACK that no longer holds has
the DEL behind it.  The last part is where FIFO order enters.

**`SessionProofs`, the session.**  `StopOutranksReconnect` is not inductive, because a nested callback may
schedule what the rest of the queue forbids.  The invariant `IInv` adds what makes it so:

- while a chunk is being handled, `core` is `Quiet` (only writes and shutdowns are queued, no
  backoff runs) and the pipe is in flight, so that no frame can schedule a reconnect directly;
- `BackoffIsAlone`: the backoff runs only in `Reconnecting`, with nothing in flight, for a
  profile that reconnects;
- `DialIsNext`: a queued connect is the next call and belongs to a session that waits for a
  socket;
- `SettleFollowsStop`: while a settle is queued the intent is `Stopping`, no backoff runs and the
  state is `Closing` or `Idle`, so the nested disconnect of the stop cannot undo it.

`FailedStaysDown`, an action property, follows from it.  The other five properties need `JInv`,
which relates the state to the transport and to the queue:

- `Backed`: a socket that was given up has its shutdown queued, one that is waited for is dialled or about to be,
  one that is spoken on is open; `DialFits`: a queued connect finds the transport at rest, and TLS where a
  live policy asks for it;
- `Watched`: a session that goes on has its deadline or its watchdog;
- `Secrets`: the SCRAM machine exists exactly when the exchange began with SCRAM, and a credential
  is queued only when it does not;
- within a chunk, `Sound`: whatever gave the connection up has queued its shutdown, although the pipe
  still looks open.

Each operator of `Session` has a lemma on what it does to the fields these speak of; `FrameStep`,
`UserStep`, `TimerStep`, `NetStep`, `EffectStep` and their counterparts for `JInv` put them
together, one step per action.

**`NetTransportProofs`.**  `Refinement` maps `state <- ui.state, tls <- ui.tls`: each
action of the UI half is a step of the contract or a stutter and all others leave `ui` alone;
the case analysis is in `Transition`, and the type invariant is all it needs.
The four safety theorems share one invariant on the two queues, the table and the workers:
connects queue in order and have no worker yet, a `Close` in the queue parts the epochs (`ClosesFit`,
which stands in for the epoch that `Close` does not carry), only finish notices follow a `Stop`;
each event on its way was true of its worker and comes in its turn for the state the session
shows (`EventsInTurn`, which also speaks of the event a worker may send next); and what a worker has
written and still has to write is a gapless beginning of the frames of its epoch, all of them once it was
asked to close (`FramesFit`).  Without the last, a goodbye could come before a frame still in the
hub's queue.

**`ReadMarkerProofs`.**  Every time the session keeps or has sent stays below the newest
line that was seen, and a marker waits only behind an older one in flight (`Paced`).  The
controller's part is that while the conversation is on screen its latest line was seen.

**`LabelsProofs`.**  Labels count up, so a label has one home for the life of the session: the conversation its
request was typed in.  The invariant says that there are such homes, and that whatever carries a label -
requests, lines, events - and the watch that is kept for it agree with them.  The deadlines and the timer play no part: a watch that
expired is only missing.

**`HistoryProofs`.**  `MatchInv` says that of the requests of the current generation at most one is unanswered, in
either queue, and that it is the pending one (`Alone`); or its batch is the only open root of the generation, and then
nothing of the generation is unanswered (`Matched`).  A new membership finds nothing of its generation
in the queues, because requests carry a generation that was current once (`QueuesFit`).  It asks nothing
of `crossed` histories, where the pairing is lost.

`StreamInv` follows the server through the lines on their way: a place is the batch and the child it is in, each line
goes from one place to the next, and the last place is where the server is now (`Streams`).  The session knows the
first one: its batches are open or ignored, never both, and no others are (`Knows`).  So at most two references
have to be remembered at a time, and `NothingLeaksHolds` assumes that the ceiling allows two; with a ceiling of one or none, a KICK inside a
child batch would forget a reference and its lines would surface.  `MAX_IGNORED_BATCHES` is 32, and a server that
nests deeper than the model's is beyond the theorem.

**`StorageProofs`.**  `NeverForgets` speaks of clients at rest; a call in the middle of its write, of any
client, may undo it.  The invariant says of each client and host, as long as a policy is owed:
what the client remembers lasts as long (`Covered`); the file has no shorter policy, but for one that an
unsaved policy withstands when the file is read (`FileCovers`, `Withstands`); and the copy a call is about
to write has none either, but for those its unsaved policies will overwrite, and what the file has
that the call did not read lasts as long too (`CallCovers`).  The last part is what a lost update needs: `sync`
compares with the bytes it loaded and may decide to write nothing.  `OthersAreLeftAlone` follows
from `CallFits` (a copy differs from what was loaded at one host, and for a refresh in the expiry only).

`DiskInv` is about `AtomicWrite`.  Both theorems are about `dir` and about `durable`, the directory after a
power failure.  The target of each is whole *and synced*, and where it is not the damaged file,
a synced backup is there; a temporary is reached by one name only (`Alone`), so nobody else's step
touches it between its fill and its rename; two calls never fill the same copy.

**`DesktopProofs`.**  Lemmas on one queue of AWAY commands first (the newest decides the outcome, serving
the first changes nothing); the invariant adds to the two properties that nothing is on its way to or from a network
without a session.

For `ListIsOwn` the invariant `ListInv` says that LISTs are answered in the order they were sent and
nothing follows the end of an answer (`InOrder`), and, as long as a load runs, which LISTs can still be answered:
only its own, or its own and the one whose end is to be drained (`LoadFits`).  When that end is read, the order
leaves only the load's own.  `MCDesktop` assumes that the bounds are numbers (`ListBounds`).

For `WatchIsTrue` the invariant `WatchInv` tells three states of a connection apart: not welcome, welcome with
the 005 still to come (only removals of nicks that are no longer listed are sent), and subscribed.  In the last,
`NickFits` says of each nick by its last command and its last report: a listed nick is about to be requested, is
watched and its whereabouts are known or coming, or was refused and the refusal is the last word; a nick that is not listed will be
removed; and unless requests crossed, there is one request at most and no refusal beside it.  The limits are numbers
(`WatchLimits`).

`WindowInv` is about `Ipc`.  `OneWindow` rests on the lock alone: who passed it holds it.
`ExitIsHonest` follows one request through its connection, the queue of the UI thread and the answer:
while the program waits, the thread in the window has not given up (`StatusFits`, where
the two deadlines meet).

**`ConversationsProofs`.**  The three properties speak of quiet moments, when every line was read; the invariant has to
say what holds while lines are under way, with the server ahead of the client by everything on the wire.  A *view* is what
the server has told the user: the nick, the channels the user is in, who is in them and who of these is away.  `Flow` says that the
lines on the wire lead through a row of views, one after each line (`Trace`), that the user's own JOIN
comes with its whole list of names and lists end (`Replied`, `Adjacent`, `Ends`), and that
the JOIN of somebody away is followed by the AWAY (`Announced`).  Of the first view, which is the client's, and the last,
which is the server's, `Lagging` says:

- the last view is what is true at the server (`Mirror`);
- the client lists nobody who is not in its own view, and its own nick is the one there (`Lists`);
- a channel the user is in and whose row does not say so is hidden, or will be left: a PART is on its way to the server, or the line that takes the user out is on its way back (`Leaves`);
- a list is complete but for the names that are next on the wire, unless its reply was cut short (`Fills`);
- somebody listed and away is shown away, or a line that says so, the end of a list or a WHO is still to come (`Shows`);
- a channel on the autojoin list is joined or will be (`Rejoins`), and one the user wants to leave has a PART as the last word, or
  no JOIN at all, or a cancellation that undoes the JOIN (`Obeys`).

`Offline` and `Shut` say what holds without a connection and of a channel without a row.  The existence of the views is part of the invariant
(`up => \E h : Lagging(h)`); the proof gives the new row for each step (`StepServer` and `StepPeerMoves` extend it, the `Read` steps drop its head),
and TLC checked it with the row as a history variable.  When both queues are empty there is one view, the client's
and the server's, and the properties follow.  `ChannelsAssumption` is all it needs: two different
nicks, and bounds that are numbers.

**What the proof attempts showed.**

- A first candidate for `JInv` said that a session that is stopping dials nothing.  TLC refuted it
  with chunks of three frames: the `Registered` state over a closed socket that section 6
  describes.  The invariant leaves sessions that are stopping aside, as the properties do.
- `NeverForgets` was too strong beyond the bounds of its run.  A client whose write failed, and
  which refreshes its policy while the file cannot be read, does not know that another client has replaced
  it; the replacement wins later, by design.  `Owes` is the corrected debt of a refresh.
- `OthersAreLeftAlone` excused an unsaved policy at every host.  A refresh always leaves its own
  unsaved until the write, so the clause on refreshes said nothing; it now says what it means.
- `AwayIsTrue` was an equality, which fails beyond the bounds of its run: see *Stale away marks* in section 6.  It now has the
  direction that holds, and `BackIsTrue` is the other one.

**Only model-checked.**

- Liveness (`HandshakeResolves`, `ReconnectHappens`, `NothingHangs`, `PendingResolves`, `LabelFinishes`,
  `ReadIsPublished`): the prover handles neither fairness nor `ENABLED`.
- `RowsInOrder`, `ClearedStaysCleared`, `CaughtUp` (`Transcript`): rows are computed by filters and
  folds over sequences, and what these return for every input takes induction over data, which is
  out of the prover's reach.

The modules use no recursive operators.

## 5. Not modelled

- **Session registry** (`session/sessionmanager.rs`): a table of sessions by network, with no
  order of its own beyond what `Session` shows of each.
- **Dialling, name resolution, TLS and certificate policy**: system calls and libraries; their
  outcomes are modelled as the worker's answers.
- **IRC framing and parsing**: pure functions over bytes, covered by unit tests.
- **Typing throttles, CTCP answers, metadata, the building of outgoing lines**.
- **Ranks, topics, invites, unread marks, drafts, uploads and the snapshots for the views**.
- **The other stores and the file formats**: they use the replacement that `AtomicWrite` models.
- **Windows pipes, the reading commands of the CLI, notifications, installation and updates**.
- **Model and user interface**: view state and drawing.
- **The terminal client**: a port of the same session in Go; the Rust code names it as its model.
- **The demo and the live harness**: scripted peers for demonstrations and tests.

## 6. Findings

One disagreement between code and documentation has a run of its own, which TLC must find
violated:

**A fatal failure does not always stop the session** (`fatal_failure`,
`session/session.rs:628`).  `fail(retry = false)` sets `Failed` and queues the shutdown, but the
rest of the chunk is still handled: a final `CAP LS` behind a `464` moves the session to
`Registering` with its intent at `Stopping`, and the shutdown then leaves it there, with no
socket and no timer that helps, until the user stops it.  With a `001` behind that, it
shows `Registered` over a closed socket, and its watchdog later schedules a reconnect that
the fatal failure ruled out.

### Observations

Other places where the code does less than a comment or a document says.  Where a definition is
named, it stands in the module under a comment that says it does not hold; it belongs
to no run, and adding it to a configuration of the module shows the behaviour.  The
properties of the runs are stated around these, and name them as exceptions.

- *Late CAP lines* (`session/watchdog.rs:96`, `RegisteredSocketIsWatched`).  An ACK that grants sasl, or
  another final `CAP LS`, moves a registered session to `Sasl` or `Registering`.  The ping timer
  then fires into a state it ignores and is not armed again.
- *IDENTIFY during SASL PLAIN* (`session/registration.rs:150`, `IdentifyOnlyWithoutSasl`).  A `001`
  between `AUTHENTICATE PLAIN` and `903` sends the NickServ password as well; `README.md:11` says
  it is sent only when SASL was not used.
- *A close cut short at quit* (`net/hub.rs:284`, `CloseDrains`).  `Close` spawns `wind_down` and takes
  the task out of the table; `Stop` waits only for tasks in the table and drops the runtime, so the
  farewell of an open connection can be lost.  `net/wire.rs:33`: "An open pipe drains the frames already queued before it
  closes."
- *Policy refresh* (`storage/stspolicies.rs:248`).  A refresh reads, decides and writes without a
  lock; a policy another client stores in between is replaced by the older one.
  `session/sts.rs:42`: "a policy another client replaced or cleared is left alone".
- *History after a rejoin* (`session/batch.rs:134`).  A batch takes the generation of its channel
  when it opens, so an answer to a request of an earlier stay is current, and it is paired with
  whatever request is pending.  `session/history.rs:4` says it "is recognised as stale".
- *The 401 of a message* (`controller/replyrouter.rs:195`, `MessageErrorIsNotWhois`).  Only a watch that exists
  when the message is sent is marked ambiguous: a message and then `/whois` ends the WHOIS with the
  message's error.
- *Two markers in flight* (`session/readmarker.rs:107`, `OneInFlight`).  The marker of another device
  releases the one in flight.  The server ends with the right marker.
- *A late ACK of read-marker* does not publish what is on screen until the next line comes.
- *Idle time after a restart* (`controller/persistence.rs:88`, `IdleIsTimed`).  The stored `/autoaway`
  settings are read back and no timer is armed; the terminal client arms it
  (`tui/internal/controller/autoawayruntime.go:85`).
- *A second unaway* (`controller/autoawayruntime.rs:265`, `UnawayOnce`).  After `/away` and `/back` a chat
  line between the two answers sends AWAY once more; harmless.
- *Joining a joined channel* (`controller/commanddispatcher.rs:449`, `JoinedIsJoined`).  A channel closed
  here and joined on the server gets a row by `/join`, but the server answers nothing and the
  row stays "not joined".
- *A refused join* (`controller/commanddispatcher.rs:418`) of a channel closed before the last welcome
  loses its stored closed mark, since the mark to restore is read from memory.
- *Stale accounts* (`irc/reducer/conversations.rs:226`, `AccountIsTrue`).  `/part` empties the member list at
  once, so the PART that comes back finds nobody to forget.
- *Stale away marks* (`irc/reducer/conversations.rs:226`, `BackIsTrue`).  For the same reason somebody who was away stays
  marked after coming back while the user was out, when a JOIN, which carries no AWAY, brings the two together again.
- *Order of lines after a rejoin* (`irc/reducer/splice.rs:272`).  When a stay ends before its pages are
  answered, the next stay's page lands below newer live lines.
- *The anchor after trimming* (`irc/reducer/transcript.rs:133`).  An older page that fills the
  transcript may drop the join line; the anchor then names another line.
- *The order of the log* (`irc/reducer/splice.rs:279`, `LogIsInOrder`).  A page spliced in before a live line
  is appended to the log after it.
- *Catching up* (`controller/playback.rs:152`).  A live line moves the stored time while the
  pages of the absence are still to come; if the connection is lost then, they are never asked
  for.  `CHANGELOG.md:347` promises that the client catches up.  Likewise an absence of more full pages than the
  page cap allows leaves a gap before its newest page (`session/history.rs:433`), and a later connection does not fill it.
- *Raising the window* (`desktop/singleinstance.rs:106`, `SecondaryIsRaised`).  A window that is closing, or has
  its fill of clients, takes the ping and drops it, and the second launch exits as if it had raised it.
- *A dropped job* (`desktop/ipchandler.rs:222`).  The comment says "The client gets no answer"; the thread that
  waits answers at once that the window did not answer in time.
- *Stale ends of a LIST* (`controller/channellist.rs:194`).  Nothing clears the drain flag at a disconnect:
  after a LIST that is never answered, or a connection lost during a load, each later `/list` drains its own
  end and times out.  Rows of a LIST that timed out are mixed into the next; a refused write
  forgets the flag; a pending mask reopens an overlay the user dismissed.
- *Watched nicks* (`controller/monitorcoordinator.rs:78`).  Nicks beyond the server's limit stay listed and
  unwatched for the connection, also when room is made; a late 734 for a nick that was
  removed and added again drops it while the server watches it.

## 7. Plan

Modelled and checked: all components of section 1 but those of section 5.  Proved: the safety of the
connection, the files, the control socket, away, read markers, history, labelled replies, /list and /monitor, and
of the member lists of channels.  Left:

1. Several sessions over one hub: the registry composed with `NetTransport`.
2. The properties of `Transcript` stay with TLC until the prover can do induction over sequences.
