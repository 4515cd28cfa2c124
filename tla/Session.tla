------------------------------- MODULE Session -------------------------------
(***************************************************************************)
(* One network's session (client/src/session): the connection lifecycle,   *)
(* capability negotiation, SASL, registration, the STS upgrade, the ping   *)
(* watchdog and the timers, over the UI half of a transport                *)
(* (client/src/net/transport.rs).                                          *)
(*                                                                         *)
(* Everything runs on the UI thread.  Session::locked runs a handler on    *)
(* the Core under a borrow; the handler only queues its transport calls,   *)
(* which run_effects makes after the borrow is released.  Two consequences *)
(* shape this model: all the frames of one chunk of bytes are handled      *)
(* before the first queued call runs, and Transport::shutdown calls back   *)
(* into the session from inside run_effects, so that the callback's own    *)
(* effects run before the rest of the queue.                               *)
(*                                                                         *)
(* The Core is a record and every Core method an operator from a Core to a *)
(* Core; an action is one handler, one frame of a chunk, or one queued     *)
(* effect.  The server, the net thread, the clock and the user act only    *)
(* when the UI thread is idle (Quiescent).                                 *)
(***************************************************************************)
EXTENDS CapNegotiation, Integers

CONSTANTS Configs,        \* the session configurations to consider
          SaslValues,     \* the mechanism lists a server may give sasl
          StsPorts,       \* the ports an sts token may carry
          StsDurations,   \* the durations an sts token may carry, 0 clears the policy
          MaxFrames,      \* bound: frames in one chunk of bytes
          BackoffSteps    \* attempts after which the backoff no longer grows

SessionState == {"Idle", "Connecting", "StsUpgrading", "CapLs", "CapReq", "Sasl",
                 "Registering", "Registered", "Closing", "Reconnecting", "Failed"}
TransportState == {"Idle", "Connecting", "Connected", "Encrypted", "Disconnected", "Failed"}
DisconnectIntent == {"Unexpected", "Stopping", "Reconnecting"}
TimerSlot == {"Reconnect", "Capability", "Registration", "Ping"}
ScramPhase == {"none", "AwaitPrompt", "AwaitServerFirst", "AwaitServerFinal", "Verified"}

\* What a SessionConfig decides: whether it is complete, whether its fields can be
\* sent, plaintext or TLS, automatic reconnect, and which secrets it holds.
ConfigType == [complete : BOOLEAN, sendable : BOOLEAN, tls : BOOLEAN, port : Nat,
               reconnect : BOOLEAN, secret : BOOLEAN, nickserv : BOOLEAN]

ASSUME ConfigsAssumption == Configs \subseteq ConfigType
ASSUME SaslValuesAssumption == SaslValues \subseteq SUBSET Mechanisms
ASSUME StsAssumption == StsPorts \subseteq Nat \ {0} /\ StsDurations \subseteq Nat
ASSUME BoundsAssumption == MaxFrames \in Nat \ {0} /\ BackoffSteps \in Nat \ {0}

VARIABLES cfg,      \* the session's configuration, fixed
          core,     \* the Core, with the effects its handlers queued
          chunk,    \* frames the chunk being handled may still hold
          pipe,     \* the transport's state as the UI thread knows it
          pipeTls,  \* whether the transport was told to use TLS
          policy    \* the cached STS policy of this host

vars == <<cfg, core, chunk, pipe, pipeTls, policy>>

Lines == {"CAP LS", "CAP REQ", "CAP END", "REGISTER", "NICK", "AUTHENTICATE", "CREDENTIAL",
          "PING", "PONG", "IDENTIFY", "JOIN", "QUIT"}
Write(line) == [op |-> "Write", line |-> line]
Connect(port, tls) == [op |-> "Connect", port |-> port, tls |-> tls]
Shutdown == [op |-> "Shutdown"]
SettleStop == [op |-> "SettleStop"]

Effects == [op : {"Write"}, line : Lines]
           \cup [op : {"Connect"}, port : Nat, tls : BOOLEAN]
           \cup {Shutdown, SettleStop}

\* An sts advertisement: port 0 and duration -1 stand for keys it does not carry.
NoAd == [port |-> 0, duration |-> -1]
StsAds == [port : StsPorts \cup {0}, duration : StsDurations \cup {-1}]
NoPolicy == [port |-> 0, duration |-> 0, live |-> FALSE]
Policies == [port : Nat, duration : Nat, live : BOOLEAN]

Cores ==
    [state : SessionState, intent : DisconnectIntent, attempt : 0 .. BackoffSteps,
     port : Nat, tls : BOOLEAN,                         \* where the next connect goes
     timers : SUBSET TimerSlot, ping : {"Off", "Watching", "Probing"},
     regSent : BOOLEAN, regNick : {"Configured", "Underscore", "Digit"},
     welcomed : BOOLEAN,         \* the Registered event was raised on this connection
     listSeen : BOOLEAN, capEnded : BOOLEAN, caps : Ledgers,
     saslPending : BOOLEAN, saslSucceeded : BOOLEAN, exchangeStarted : BOOLEAN,
     mechanism : {"none", "PLAIN", "SCRAM-SHA-256"}, scram : ScramPhase,
     pendingSts : StsAds, stsDuration : Nat,            \* 0: no duration held
     effects : Seq(Effects)]

TypeOK ==
    /\ cfg \in Configs
    /\ core \in Cores
    /\ chunk \in 0 .. MaxFrames
    /\ pipe \in TransportState
    /\ pipeTls \in BOOLEAN
    /\ policy \in Policies

Handshake == {"Connecting", "StsUpgrading", "CapLs", "CapReq", "Sasl", "Registering"}
AwaitingSocket == {"Connecting", "StsUpgrading"}
InFlight == {"Connecting", "Connected", "Encrypted"}

\* The UI thread is between two callbacks: no chunk and no queued call is left.
Quiescent == chunk = 0 /\ core.effects = <<>>

\* Bytes flow once the worker's pump runs: over TLS not before the handshake is done.
PipeOpen == pipe = "Encrypted" \/ (pipe = "Connected" /\ ~ pipeTls)

-----------------------------------------------------------------------------
(* Small steps every handler is made of *)

SetState(c, state) == [c EXCEPT !.state = state]
Push(c, effect) == [c EXCEPT !.effects = Append(@, effect)]
Send(c, line) == Push(c, Write(line))
Arm(c, slot) == [c EXCEPT !.timers = @ \cup {slot}]
Cancel(c, slots) == [c EXCEPT !.timers = @ \ slots]

CancelPing(c) == [Cancel(c, {"Ping"}) EXCEPT !.ping = "Off"]

ArmPing(c) ==
    IF c.state = "Registered" THEN [Arm(c, "Ping") EXCEPT !.ping = "Watching"] ELSE c

ConnectTransport(c) == Push(c, Connect(c.port, c.tls))

\* The attempt count saturates where the doubling delay has reached its maximum.
CountScheduledReconnect(c) ==
    [c EXCEPT !.attempt = IF @ < BackoffSteps THEN @ + 1 ELSE @]

-----------------------------------------------------------------------------
(* Failing, reconnecting and resetting: session.rs and connection.rs *)

\* Variant: the state is Reconnecting and no timer was started.
ScheduleWithoutTimer(c) ==
    IF ~ cfg.reconnect THEN SetState(c, "Failed")
    ELSE SetState(CountScheduledReconnect(c), "Reconnecting")

ScheduleReconnect(c) ==
    IF ~ cfg.reconnect THEN SetState(c, "Failed")
    ELSE IF c.state = "Reconnecting" THEN c
    ELSE Arm(SetState(CountScheduledReconnect(c), "Reconnecting"), "Reconnect")

\* Variant: a retryable failure overrides the intent a fatal one left.
FailRetryOverriding(c, t) ==
    LET d == CancelPing(Cancel(c, {"Registration"}))
    IN IF t \in InFlight THEN Push([d EXCEPT !.intent = "Reconnecting"], Shutdown)
       ELSE ScheduleReconnect(d)

\* A retryable failure of a live transport shuts it down and waits for the
\* disconnect; t is what Transport::state answers while the handler runs.
FailRetry(c, t) ==
    LET d == CancelPing(Cancel(c, {"Registration"}))
    IN IF t \in InFlight
       THEN Push([d EXCEPT !.intent = IF @ = "Unexpected" THEN "Reconnecting" ELSE @], Shutdown)
       ELSE ScheduleReconnect(d)

FailFatal(c) ==
    LET d == CancelPing(Cancel(c, {"Registration", "Reconnect"}))
    IN Push(SetState([d EXCEPT !.intent = "Stopping"], "Failed"), Shutdown)

ResetForConnection(c) ==
    CancelPing(Cancel(
        [c EXCEPT !.regSent = FALSE, !.regNick = "Configured", !.welcomed = FALSE,
                  !.listSeen = FALSE, !.capEnded = FALSE, !.caps = NewLedger(cfg.secret),
                  !.saslPending = FALSE, !.saslSucceeded = FALSE, !.exchangeStarted = FALSE,
                  !.mechanism = "none", !.scram = "none", !.pendingSts = NoAd],
        {"Capability", "Registration"}))

\* Variant: the cached port is used and TLS is left as the profile has it.
ApplyCachedPortOnly(c) == IF policy.live THEN [c EXCEPT !.port = policy.port] ELSE c

\* The lookup of apply_cached_sts: only a policy that has not lapsed counts.
ApplyCachedSts(c) ==
    IF policy.live THEN [c EXCEPT !.port = policy.port, !.tls = TRUE] ELSE c
PolicyAfterLookup == IF policy.live THEN policy ELSE NoPolicy

\* reschedule_sts_expiry takes the duration the connection held; the cache extends
\* a policy that still has it, lapsed or not.
TakeStsDuration(c) == IF c.tls THEN [c EXCEPT !.stsDuration = 0] ELSE c
RefreshedPolicy(c) ==
    IF c.tls /\ c.stsDuration # 0 /\ policy.port # 0 /\ policy.duration = c.stsDuration
    THEN [policy EXCEPT !.live = TRUE] ELSE policy

\* Variant: the attempt forgets to dial.
ReconnectWithoutDial(c) ==
    SetState(ResetForConnection(ApplyCachedSts(Cancel(c, {"Reconnect"}))), "Connecting")

BeginReconnectAttempt(c) ==
    ConnectTransport(SetState(ResetForConnection(ApplyCachedSts(Cancel(c, {"Reconnect"}))),
                              "Connecting"))

-----------------------------------------------------------------------------
(* Capability negotiation and registration: caps.rs and registration.rs *)

\* Variant: the registration deadline is not started.
NegotiateWithoutDeadline(c) == Send(SetState(c, "CapLs"), "CAP LS")

BeginCapabilityNegotiation(c) == Arm(Send(SetState(c, "CapLs"), "CAP LS"), "Registration")

SendRegistration(c) ==
    IF c.regSent THEN c
    ELSE IF ~ cfg.sendable THEN FailFatal(c)
    ELSE SetState([Send(c, "REGISTER") EXCEPT !.regSent = TRUE], "Registering")

EndCapabilityNegotiation(c) ==
    IF \/ c.capEnded \/ c.state = "Registered"
       \/ ~ c.regSent \/ ~ Settled(c.caps) \/ c.saslPending
    THEN c
    ELSE Send(Cancel([c EXCEPT !.capEnded = TRUE], {"Capability"}), "CAP END")

\* Variant: a later request retargets an exchange in progress.
RequestSaslRetargeting(c) ==
    IF RequestsSasl(c.caps)
    THEN [c EXCEPT !.saslPending = TRUE, !.mechanism = ChosenSaslMechanism(c.caps.saslValue)]
    ELSE c

\* The mechanism is committed once AUTHENTICATE is sent: a later request keeps it.
RequestSasl(c) ==
    IF RequestsSasl(c.caps)
    THEN [c EXCEPT !.saslPending = TRUE,
                   !.mechanism = IF c.exchangeStarted THEN @
                                 ELSE ChosenSaslMechanism(c.caps.saslValue)]
    ELSE c

SendRequestLines(c) ==
    IF RequestLines(c.caps) = {} THEN c
    ELSE Arm(Send(IF c.regSent THEN c ELSE SetState(c, "CapReq"), "CAP REQ"), "Capability")

RequestCapabilities(c) ==
    EndCapabilityNegotiation(SendRegistration(
        [SendRequestLines(RequestSasl(c)) EXCEPT !.caps = TakeRequest(@)]))

OnCapabilityTimeout(c) ==
    EndCapabilityNegotiation(
        [c EXCEPT !.caps = AbandonOutstanding(@),
                  !.saslPending = @ /\ "Sasl" \notin Abandoned(c.caps)])

\* Variant: the deadline is not applied to a session that has sent NICK and USER.
TimeoutSparesRegistering(c, t) ==
    IF c.state \in {"Registered", "Failed", "Registering"} THEN c ELSE FailRetry(c, t)

OnRegistrationTimeout(c, t) ==
    IF c.state \in {"Registered", "Failed"} THEN c ELSE FailRetry(c, t)

OnPingFired(c, t) ==
    IF c.state # "Registered" \/ c.ping = "Off" THEN c
    ELSE IF c.ping = "Watching" THEN Arm(Send([c EXCEPT !.ping = "Probing"], "PING"), "Ping")
    ELSE FailRetry(c, t)

\* 001.  It is not SASL success: an unfinished SCRAM exchange fails instead.
ScramOutstanding(c) ==
    /\ c.mechanism = "SCRAM-SHA-256"
    /\ ~ c.saslSucceeded
    /\ c.saslPending \/ c.state = "Sasl" \/ c.exchangeStarted

SendsIdentify(c) ==
    cfg.nickserv /\ ~ c.saslSucceeded /\ c.mechanism # "SCRAM-SHA-256"

HandleWelcome(c) ==
    IF c.state \in {"Registered", "Failed"} THEN c
    ELSE IF ScramOutstanding(c) THEN FailFatal(c)
    ELSE LET d == ArmPing(SetState(Cancel([c EXCEPT !.attempt = 0, !.welcomed = TRUE,
                                                    !.caps = AbandonOutstanding(@)],
                                          {"Capability", "Registration"}),
                                   "Registered"))
         IN Send(IF SendsIdentify(d) THEN Send(d, "IDENTIFY") ELSE d, "JOIN")

-----------------------------------------------------------------------------
(* The STS flow: stsflow.rs *)

\* Variant: the upgrade dials at once instead of waiting for the disconnect.
UpgradeAtOnce(c, port) ==
    ConnectTransport(SetState([c EXCEPT !.port = port, !.tls = TRUE], "StsUpgrading"))

BeginStsUpgrade(c, port) ==
    Push(SetState([c EXCEPT !.port = port, !.tls = TRUE], "StsUpgrading"), Shutdown)

\* A plaintext session upgrades when there is a port; a TLS session keeps the
\* duration, zero meaning that it holds none.
HandleStsAd(c, ad) ==
    IF c.tls THEN (IF ad.duration = -1 THEN c ELSE [c EXCEPT !.stsDuration = ad.duration])
    ELSE IF ad.port # 0 /\ c.state # "StsUpgrading" THEN BeginStsUpgrade(c, ad.port)
    ELSE c

PolicyAfterAd(c, ad) ==
    IF ~ c.tls \/ ad.duration = -1 THEN policy
    ELSE IF ad.duration = 0 THEN NoPolicy
    ELSE [port |-> c.port, duration |-> ad.duration, live |-> TRUE]

-----------------------------------------------------------------------------
(* The transport's callbacks: sink.rs *)

OnConnected(c) ==
    IF ~ c.tls /\ c.state \in AwaitingSocket THEN BeginCapabilityNegotiation(c) ELSE c

OnEncrypted(c) ==
    IF c.tls /\ c.state \in AwaitingSocket THEN BeginCapabilityNegotiation(c) ELSE c

FinishesStsUpgrade(c) == c.intent = "Unexpected" /\ c.state = "StsUpgrading"

\* The transport is gone by the time it reports the disconnect.
OnDisconnected(c) ==
    IF FinishesStsUpgrade(c) THEN ConnectTransport(ResetForConnection(c))
    ELSE LET d == TakeStsDuration(c)
         IN CASE d.intent = "Reconnecting" -> ScheduleReconnect([d EXCEPT !.intent = "Unexpected"])
              [] d.intent = "Stopping" -> IF d.state = "Closing" THEN SetState(d, "Idle") ELSE d
              [] d.intent = "Unexpected" -> FailRetry(d, "Disconnected")

PolicyAfterDisconnect(c) == IF FinishesStsUpgrade(c) THEN policy ELSE RefreshedPolicy(c)

-----------------------------------------------------------------------------
(* What starts a handler while the UI thread is idle *)

Init ==
    /\ cfg \in Configs
    /\ core = [state |-> "Idle", intent |-> "Unexpected", attempt |-> 0,
               port |-> cfg.port, tls |-> cfg.tls, timers |-> {}, ping |-> "Off",
               regSent |-> FALSE, regNick |-> "Configured", welcomed |-> FALSE,
               listSeen |-> FALSE, capEnded |-> FALSE, caps |-> NewLedger(cfg.secret),
               saslPending |-> FALSE, saslSucceeded |-> FALSE, exchangeStarted |-> FALSE,
               mechanism |-> "none", scram |-> "none", pendingSts |-> NoAd,
               stsDuration |-> 0, effects |-> <<>>]
    /\ chunk = 0
    /\ pipe = "Idle"
    /\ pipeTls = FALSE
    /\ policy \in {NoPolicy} \cup [port : StsPorts, duration : StsDurations \ {0}, live : {TRUE}]

\* A handler run by the user or a timer: the transport does not move under it.
Locked(next) ==
    /\ Quiescent
    /\ core' = next
    /\ UNCHANGED <<cfg, chunk, pipe, pipeTls>>

Start ==
    /\ core.state \in {"Idle", "Failed"}
    /\ LET fresh == ApplyCachedSts([core EXCEPT !.intent = "Unexpected", !.attempt = 0,
                                                !.port = cfg.port, !.tls = cfg.tls,
                                                !.stsDuration = 0])
       IN IF cfg.complete
          THEN /\ Locked(ConnectTransport(SetState(ResetForConnection(fresh), "Connecting")))
               /\ policy' = PolicyAfterLookup
          ELSE Locked(FailFatal(core)) /\ UNCHANGED policy

\* Variant: a stop leaves the backoff timer running.
StopLeavingBackoff(c) ==
    LET d == CancelPing(Cancel([TakeStsDuration(c) EXCEPT !.intent = "Stopping", !.attempt = 0],
                               {"Capability", "Registration"}))
    IN CASE d.state = "Idle" -> d
         [] d.state \in {"Reconnecting", "Failed"} -> SetState(d, "Idle")
         [] OTHER -> Push(Push(SetState(d, "Closing"), Shutdown), SettleStop)

\* stop cancels every timer of its own, then closes whatever is open.
StopCore(c) ==
    LET d == CancelPing(Cancel([TakeStsDuration(c) EXCEPT !.intent = "Stopping", !.attempt = 0],
                               {"Reconnect", "Capability", "Registration"}))
    IN CASE d.state = "Idle" -> d
         [] d.state \in {"Reconnecting", "Failed"} -> SetState(d, "Idle")
         [] OTHER -> Push(Push(SetState(d, "Closing"), Shutdown), SettleStop)

Stop ==
    /\ Locked(StopCore(core))
    /\ policy' = RefreshedPolicy(core)

Quit ==
    /\ core.state # "Idle"
    /\ Locked(StopCore(IF core.state = "Registered" THEN Send(core, "QUIT") ELSE core))
    /\ policy' = RefreshedPolicy(core)

NotifyReachable ==
    /\ core.state = "Reconnecting"
    /\ Locked(BeginReconnectAttempt(core))
    /\ policy' = PolicyAfterLookup

\* A timer whose slot still holds it runs its handler; a stale one is ignored.
TimerFired(slot) ==
    /\ slot \in core.timers
    /\ LET c == Cancel(core, {slot})
       IN \/ /\ slot = "Reconnect"
             /\ Locked(IF c.state = "Reconnecting" THEN BeginReconnectAttempt(c) ELSE c)
             /\ policy' = IF c.state = "Reconnecting" THEN PolicyAfterLookup ELSE policy
          \/ slot = "Capability" /\ Locked(OnCapabilityTimeout(c)) /\ UNCHANGED policy
          \/ slot = "Registration" /\ Locked(OnRegistrationTimeout(c, pipe)) /\ UNCHANGED policy
          \/ slot = "Ping" /\ Locked(OnPingFired(c, pipe)) /\ UNCHANGED policy

\* The deadline of the cached policy passes.
PolicyLapses ==
    /\ policy.live
    /\ policy' = [policy EXCEPT !.live = FALSE]
    /\ UNCHANGED <<cfg, core, chunk, pipe, pipeTls>>

-----------------------------------------------------------------------------
(* What the net thread reports: NetTransport::apply, then the session's callback *)

NetConnected ==
    /\ Quiescent /\ pipe = "Connecting"
    /\ pipe' = "Connected"
    /\ core' = OnConnected(core)
    /\ UNCHANGED <<cfg, chunk, pipeTls, policy>>

NetEncrypted ==
    /\ Quiescent /\ pipe = "Connected" /\ pipeTls
    /\ pipe' = "Encrypted"
    /\ core' = OnEncrypted(core)
    /\ UNCHANGED <<cfg, chunk, pipeTls, policy>>

NetClosed ==
    /\ Quiescent /\ PipeOpen
    /\ pipe' = "Disconnected"
    /\ core' = OnDisconnected(core)
    /\ policy' = PolicyAfterDisconnect(core)
    /\ UNCHANGED <<cfg, chunk, pipeTls>>

NetFailed ==
    /\ Quiescent /\ pipe \in InFlight
    /\ pipe' = "Failed"
    /\ core' = IF core.intent = "Stopping" THEN core ELSE FailRetry(core, "Failed")
    /\ UNCHANGED <<cfg, chunk, pipeTls, policy>>

BytesReceived ==
    /\ Quiescent /\ PipeOpen
    /\ chunk' = MaxFrames
    /\ core' = IF core.ping = "Watching" THEN ArmPing(core) ELSE core
    /\ UNCHANGED <<cfg, pipe, pipeTls, policy>>

-----------------------------------------------------------------------------
(* The frames of a chunk: handle_bytes and handle_message.  An STS upgrade ends *)
(* the chunk, nothing else does.                                                *)

InChunk == chunk > 0 /\ core.state # "StsUpgrading"

Frame(next) ==
    /\ InChunk
    /\ chunk' = chunk - 1
    /\ core' = next
    /\ UNCHANGED <<cfg, pipe, pipeTls>>

EndOfChunk ==
    /\ chunk > 0
    /\ chunk' = 0
    /\ UNCHANGED <<cfg, core, pipe, pipeTls, policy>>

\* A line of the list that more lines follow is only recorded.
CapLsMore(rows, value, ad) ==
    /\ Frame([core EXCEPT !.listSeen = TRUE, !.caps = Advertise(@, rows, value),
                          !.pendingSts = IF ad = NoAd THEN @ ELSE ad])
    /\ UNCHANGED policy

UnlessUpgrading(c) == IF c.state = "StsUpgrading" THEN c ELSE RequestCapabilities(c)

CapLsLast(rows, value, ad) ==
    LET held == IF ad = NoAd THEN core.pendingSts ELSE ad
        c == [core EXCEPT !.listSeen = TRUE, !.caps = Advertise(@, rows, value),
                          !.pendingSts = held]
    IN /\ Frame(UnlessUpgrading(HandleStsAd(c, held)))
       /\ policy' = PolicyAfterAd(core, held)

CapNew(rows, value, ad) ==
    /\ core.listSeen
    /\ Frame(UnlessUpgrading(HandleStsAd([core EXCEPT !.caps = Advertise(@, rows, value)], ad)))
    /\ policy' = PolicyAfterAd(core, ad)

CapDel(rows) ==
    /\ core.listSeen
    /\ Frame(RequestCapabilities([core EXCEPT !.caps = Withdraw(@, rows)]))
    /\ UNCHANGED policy

\* An ACK that grants sasl opens the exchange, whatever state the session is in.
BeginSasl(c) ==
    Send(SetState([c EXCEPT !.exchangeStarted = TRUE,
                            !.scram = IF c.mechanism = "SCRAM-SHA-256" THEN "AwaitPrompt" ELSE @],
                  "Sasl"),
         "AUTHENTICATE")

CapAck(granted, disabled) ==
    /\ core.listSeen
    /\ LET c == [core EXCEPT !.caps = Acknowledge(@, granted, disabled)]
       IN Frame(IF "Sasl" \in NewlyEnabled(core.caps, granted) /\ ~ core.exchangeStarted
                THEN BeginSasl(c) ELSE EndCapabilityNegotiation(c))
    /\ UNCHANGED policy

CapNak(rows) ==
    /\ core.listSeen
    /\ LET c == [core EXCEPT !.caps = Reject(@, rows)]
       IN Frame(IF "Sasl" \in Refused(core.caps, rows)
                THEN FailFatal([c EXCEPT !.saslPending = FALSE]) ELSE RequestCapabilities(c))
    /\ UNCHANGED policy

\* An AUTHENTICATE payload: "*", the prompt or challenge that fits the dialogue, a
\* first part of a challenge, or one the SCRAM machine cannot accept.
Payloads == {"abort", "fits", "partial", "wrong"}

NextScram == [AwaitPrompt |-> "AwaitServerFirst", AwaitServerFirst |-> "AwaitServerFinal",
              AwaitServerFinal |-> "Verified"]

ScramStep(c, payload) ==
    CASE c.scram \in {"none", "Verified"} -> c
      [] c.scram \in DOMAIN NextScram /\ payload = "fits" ->
            Send([c EXCEPT !.scram = NextScram[@]], "AUTHENTICATE")
      [] c.scram \in DOMAIN NextScram \ {"AwaitPrompt"} /\ payload = "partial" -> c
      [] OTHER -> FailFatal(c)

Authenticate(payload) ==
    /\ core.state = "Sasl"
    /\ Frame(CASE payload = "abort" -> FailFatal(core)
               [] payload # "abort" /\ core.mechanism = "SCRAM-SHA-256" -> ScramStep(core, payload)
               [] OTHER -> IF payload = "fits" THEN Send(core, "CREDENTIAL") ELSE core)
    /\ UNCHANGED policy

ScramUnverified(c) == c.mechanism = "SCRAM-SHA-256" /\ c.scram # "Verified"

SaslSuccess ==
    /\ core.state = "Sasl" /\ core.saslPending
    /\ Frame(IF ScramUnverified(core) THEN FailFatal(core)
             ELSE SetState(EndCapabilityNegotiation([core EXCEPT !.saslPending = FALSE,
                                                                 !.saslSucceeded = TRUE]),
                           "Registering"))
    /\ UNCHANGED policy

Welcome == Frame(HandleWelcome(core)) /\ UNCHANGED policy

\* 904 and 905 at any time, 464 at any time.
AuthenticationRefused == Frame(FailFatal(core)) /\ UNCHANGED policy

\* 421 for CAP: the server knows no capabilities.
CapUnknown ==
    /\ core.state = "CapLs"
    /\ Frame(SendRegistration(Cancel([core EXCEPT !.capEnded = TRUE], {"Capability"})))
    /\ UNCHANGED policy

RegistrationRefused ==
    /\ core.state # "Registered"
    /\ Frame(FailFatal(core))
    /\ UNCHANGED policy

\* 433: the nick, then the nick with "_", then with "2"; after that it is a refusal.
NickInUse ==
    /\ core.state # "Registered"
    /\ Frame(IF core.regSent /\ core.regNick # "Digit"
             THEN Send([core EXCEPT !.regNick = IF @ = "Configured" THEN "Underscore" ELSE "Digit"],
                       "NICK")
             ELSE FailFatal(core))
    /\ UNCHANGED policy

ServerError ==
    /\ Frame(IF core.state \in Handshake THEN FailFatal(core) ELSE FailRetry(core, pipe))
    /\ UNCHANGED policy

Ping == Frame(Send(core, "PONG")) /\ UNCHANGED policy

Pong ==
    /\ core.ping = "Probing"
    /\ Frame(ArmPing(core))
    /\ UNCHANGED policy

HandleFrame ==
    \/ \E rows \in SUBSET Rows, value \in SaslValues, ad \in StsAds :
          CapLsMore(rows, value, ad) \/ CapLsLast(rows, value, ad) \/ CapNew(rows, value, ad)
    \/ \E rows \in SUBSET Rows : CapDel(rows) \/ CapNak(rows)
    \/ \E granted \in SUBSET Rows, disabled \in SUBSET Rows :
          granted \cap disabled = {} /\ CapAck(granted, disabled)
    \/ \E payload \in Payloads : Authenticate(payload)
    \/ SaslSuccess \/ Welcome \/ AuthenticationRefused \/ CapUnknown
    \/ RegistrationRefused \/ NickInUse \/ ServerError \/ Ping \/ Pong

-----------------------------------------------------------------------------
(* run_effects: one queued call, with the chunk over *)

Running(op) == chunk = 0 /\ core.effects # <<>> /\ Head(core.effects).op = op
Popped == [core EXCEPT !.effects = Tail(@)]

RunWrite ==
    /\ Running("Write")
    /\ core' = Popped
    /\ UNCHANGED <<cfg, chunk, pipe, pipeTls, policy>>

RunConnect ==
    /\ Running("Connect")
    /\ core' = Popped
    /\ IF pipe \in InFlight THEN UNCHANGED <<pipe, pipeTls>>
       ELSE pipe' = "Connecting" /\ pipeTls' = Head(core.effects).tls
    /\ UNCHANGED <<cfg, chunk, policy>>

\* The transport calls disconnected back at once: what that handler queues runs
\* before the calls that are still waiting.
RunShutdown ==
    /\ Running("Shutdown")
    /\ IF pipe \in InFlight
       THEN LET c == OnDisconnected([core EXCEPT !.effects = <<>>])
            IN /\ pipe' = "Disconnected"
               /\ core' = [c EXCEPT !.effects = @ \o Tail(core.effects)]
               /\ policy' = PolicyAfterDisconnect(core)
       ELSE core' = Popped /\ UNCHANGED <<pipe, policy>>
    /\ UNCHANGED <<cfg, chunk, pipeTls>>

RunSettleStop ==
    /\ Running("SettleStop")
    /\ core' = IF pipe \in InFlight THEN Popped ELSE SetState(Popped, "Idle")
    /\ UNCHANGED <<cfg, chunk, pipe, pipeTls, policy>>

RunEffect == RunWrite \/ RunConnect \/ RunShutdown \/ RunSettleStop

-----------------------------------------------------------------------------

User == Start \/ Stop \/ Quit \/ NotifyReachable
Net == NetConnected \/ NetEncrypted \/ NetClosed \/ NetFailed \/ BytesReceived
Timers == \E slot \in TimerSlot : TimerFired(slot)

Next == User \/ Net \/ Timers \/ PolicyLapses \/ HandleFrame \/ EndOfChunk \/ RunEffect

Spec == Init /\ [][Next]_vars

\* The worker ends every dial and every TLS handshake with an answer or a timeout.
DialEnds == pipe = "Connecting" /\ (NetConnected \/ NetFailed)
TlsHandshakeEnds == pipe = "Connected" /\ pipeTls /\ (NetEncrypted \/ NetFailed)

\* The UI thread finishes what it began, the worker's deadlines hold, and a timer
\* that stays armed gets its turn between the callbacks of a busy connection.
Fairness ==
    /\ WF_vars(RunEffect) /\ WF_vars(EndOfChunk)
    /\ WF_vars(DialEnds) /\ WF_vars(TlsHandshakeEnds)
    /\ SF_vars(TimerFired("Registration")) /\ SF_vars(TimerFired("Reconnect"))

FairSpec == Spec /\ Fairness

-----------------------------------------------------------------------------
(* Properties *)

Talking == {"CapLs", "CapReq", "Sasl", "Registering", "Registered"}

Queued(line) == \E k \in DOMAIN core.effects : core.effects[k] = Write(line)

\* A session that is neither stopped nor fatally failed always has the socket its
\* state speaks of: one being dialled while it waits for it, an open one while it
\* negotiates or chats.  Every handler that moves the state queues the matching
\* transport call, through nested callbacks and mid-chunk failures.
LiveStateHasSocket ==
    (Quiescent /\ core.intent # "Stopping") =>
        /\ core.state \in AwaitingSocket => pipe \in InFlight
        /\ core.state \in Talking => PipeOpen

\* A session that waits to reconnect has the timer that will do it, and no socket;
\* and that timer runs in no other state.
ReconnectIsArmed ==
    Quiescent =>
        /\ core.state = "Reconnecting" => "Reconnect" \in core.timers /\ pipe \notin InFlight
        /\ "Reconnect" \in core.timers => core.state = "Reconnecting"

\* Between two callbacks the state has what it speaks of: a socket or a dial while it
\* waits or talks, the backoff timer and nothing in flight while it reconnects.
StateIsBacked == LiveStateHasSocket /\ ReconnectIsArmed

\* A session that is stopped, stopping or failed has nothing left that would bring it
\* back: no connect is queued and no backoff runs, even if a retryable failure came
\* first or the backoff was running when the user stopped it.
StopOutranksReconnect ==
    core.state \in {"Idle", "Closing", "Failed"} =>
        /\ \A k \in DOMAIN core.effects : core.effects[k].op # "Connect"
        /\ "Reconnect" \notin core.timers

\* What is down stays down: a settled or failed session does not slip into a
\* reconnect, not even when a chunk holds a fatal frame and then a retryable one.
FailedStaysDown ==
    [][core.state \in {"Idle", "Failed", "Closing"} => core'.state # "Reconnecting"]_vars

\* The transport ignores a connect while another is in flight, which would strand
\* the session, so the session never asks for one then.
ConnectIsNeverIgnored ==
    Running("Connect") => pipe \notin InFlight

\* While a policy for the host is live the session does not dial in plaintext.
LivePolicyForbidsPlaintext ==
    Running("Connect") => (policy.live => Head(core.effects).tls)

\* The secret stays as safe as the exchange began: SCRAM success means the server's signature
\* was checked, a registered session whose exchange was SCRAM had that success, and the PLAIN
\* credential is never sent on a connection that began one, whatever the server offers anew.
SecretIsSafe ==
    /\ core.mechanism = "SCRAM-SHA-256" =>
         /\ core.saslSucceeded => core.scram = "Verified"
         /\ core.state = "Registered" /\ core.exchangeStarted => core.saslSucceeded
    /\ Queued("CREDENTIAL") => core.scram = "none"

\* Every handshake has its deadline and every registered session its watchdog, so
\* a silent server cannot hold a connection for ever.
SilenceIsTimed ==
    (Quiescent /\ core.intent # "Stopping") =>
        /\ (core.state \in Talking /\ ~ core.welcomed) => "Registration" \in core.timers
        /\ core.state = "Registered" => "Ping" \in core.timers /\ core.ping # "Off"

\* A handshake ends: the session registers, retries, stops or fails, however the
\* server stalls it (no dial, no TLS, no CAP answer, endless PINGs) and even when it
\* redirects to another port on the way.
HandshakeResolves ==
    (core.state \in Handshake /\ core.intent # "Stopping" /\ ~ core.welcomed)
        ~> (core.state \notin Handshake \/ core.intent = "Stopping" \/ core.welcomed)

\* A scheduled reconnect is made, or the user stops it.
ReconnectHappens == (core.state = "Reconnecting") ~> (core.state \in {"Connecting", "Idle"})

\* fail: "otherwise the session stops in Failed" (session.rs).  It does not hold: the frames
\* behind the fatal one in the same chunk are handled too.
FatalFailureStops ==
    (Quiescent /\ core.intent = "Stopping") => core.state \in {"Idle", "Failed"}

\* "Once registered, a silent socket gets one PING probe, and a probe that stays
\* unanswered fails the connection" (watchdog.rs): a watchdog timer is running.  It does not
\* hold: after a late CAP line the timer fires into a state it ignores.
RegisteredSocketIsWatched ==
    (Quiescent /\ core.intent # "Stopping" /\ core.welcomed /\ PipeOpen) =>
        "Ping" \in core.timers

\* "NickServ IDENTIFY is sent only when SASL was not used" (README.md).  It does not hold: a
\* welcome may come in the middle of a PLAIN exchange.
IdentifyOnlyWithoutSasl == Queued("IDENTIFY") => ~ core.exchangeStarted

=============================================================================
