---------------------------- MODULE SessionProofs ----------------------------
(***************************************************************************)
(* For every configuration, capability table, STS token and chunk length:  *)
(* the session is well typed; a session that is stopped, stopping or       *)
(* failed has nothing left that would bring it back and does not slip into *)
(* a reconnect; a live session's state has the socket and the timers it    *)
(* speaks of; a connect is never ignored and never in plaintext under a    *)
(* live policy; and the secret stays as safe as the exchange began.        *)
(***************************************************************************)
EXTENDS Session, MCCapExchange, TLAPS

-----------------------------------------------------------------------------
(* Two sets of cores.  Every handler keeps Cores; the handlers of a chunk also keep *)
(* Quiet, the cores that dial nothing: no connect or settle is queued and no backoff *)
(* runs.                                                                             *)

Harmless == {e \in Effects : e.op \in {"Write", "Shutdown"}}
Quiet == {c \in Cores : c.effects \in Seq(Harmless) /\ "Reconnect" \notin c.timers}

LEMMA EffectTypes ==
    /\ \A line \in Lines : Write(line) \in Effects /\ Write(line) \in Harmless
    /\ \A port \in Nat, tls \in BOOLEAN : Connect(port, tls) \in Effects
    /\ Shutdown \in Effects /\ Shutdown \in Harmless
    /\ SettleStop \in Effects
BY DEF Effects, Harmless, Write, Connect, Shutdown, SettleStop

LEMMA PushType ==
    ASSUME NEW c \in Cores, NEW e \in Effects
    PROVE  /\ Push(c, e) \in Cores
           /\ c \in Quiet /\ e \in Harmless => Push(c, e) \in Quiet
<1>1. Append(c.effects, e) \in Seq(Effects)  BY DEF Cores
<1>2. Push(c, e) \in Cores  BY <1>1 DEF Push, Cores
<1>3. ASSUME c \in Quiet, e \in Harmless PROVE Push(c, e) \in Quiet
  <2>1. Append(c.effects, e) \in Seq(Harmless)  BY <1>3 DEF Quiet
  <2>2. Push(c, e).effects = Append(c.effects, e) /\ Push(c, e).timers = c.timers
    BY DEF Push, Cores
  <2> QED BY <1>2, <1>3, <2>1, <2>2 DEF Quiet
<1> QED BY <1>2, <1>3

\* A change that leaves the queue alone and starts no backoff keeps Quiet.
LEMMA QuietStep ==
    ASSUME NEW c \in Quiet, NEW d \in Cores, d.effects = c.effects,
           "Reconnect" \notin d.timers \/ d.timers \subseteq c.timers
    PROVE  d \in Quiet
BY DEF Quiet

LEMMA SetStateType ==
    ASSUME NEW c \in Cores, NEW state \in SessionState
    PROVE  /\ SetState(c, state) \in Cores
           /\ c \in Quiet => SetState(c, state) \in Quiet
BY QuietStep DEF SetState, Cores

LEMMA ArmType ==
    ASSUME NEW c \in Cores, NEW slot \in TimerSlot
    PROVE  /\ Arm(c, slot) \in Cores
           /\ c \in Quiet /\ slot # "Reconnect" => Arm(c, slot) \in Quiet
<1>1. Arm(c, slot) \in Cores  BY DEF Arm, Cores
<1>2. Arm(c, slot).effects = c.effects /\ Arm(c, slot).timers = c.timers \cup {slot}
  BY DEF Arm, Cores
<1> QED BY <1>1, <1>2 DEF Quiet

LEMMA CancelType ==
    ASSUME NEW c \in Cores, NEW slots
    PROVE  /\ Cancel(c, slots) \in Cores
           /\ c \in Quiet => Cancel(c, slots) \in Quiet
<1>1. Cancel(c, slots) \in Cores  BY DEF Cancel, Cores
<1>2. Cancel(c, slots).effects = c.effects /\ Cancel(c, slots).timers = c.timers \ slots
  BY DEF Cancel, Cores
<1> QED BY <1>1, <1>2 DEF Quiet

LEMMA SendType ==
    ASSUME NEW c \in Cores, NEW line \in Lines
    PROVE  /\ Send(c, line) \in Cores
           /\ c \in Quiet => Send(c, line) \in Quiet
BY EffectTypes, PushType DEF Send

LEMMA PingType ==
    ASSUME NEW c \in Cores
    PROVE  /\ CancelPing(c) \in Cores /\ ArmPing(c) \in Cores
           /\ c \in Quiet => CancelPing(c) \in Quiet /\ ArmPing(c) \in Quiet
<1>1. ASSUME NEW d \in Cores, NEW v \in {"Off", "Watching", "Probing"}
      PROVE  /\ [d EXCEPT !.ping = v] \in Cores
             /\ d \in Quiet => [d EXCEPT !.ping = v] \in Quiet
  BY QuietStep DEF Cores
<1>2. CancelPing(c) \in Cores /\ (c \in Quiet => CancelPing(c) \in Quiet)
  BY <1>1, CancelType DEF CancelPing
<1>3. Arm(c, "Ping") \in Cores /\ (c \in Quiet => Arm(c, "Ping") \in Quiet)
  BY ArmType DEF TimerSlot
<1>4. ArmPing(c) \in Cores /\ (c \in Quiet => ArmPing(c) \in Quiet)
  BY <1>1, <1>3 DEF ArmPing
<1> QED BY <1>2, <1>4

LEMMA ConnectTransportType ==
    ASSUME NEW c \in Cores
    PROVE  ConnectTransport(c) \in Cores
<1>1. c.port \in Nat /\ c.tls \in BOOLEAN  BY DEF Cores
<1> QED BY <1>1, EffectTypes, PushType DEF ConnectTransport

LEMMA LedgerType ==
    ASSUME NEW n \in Ledgers, NEW rows, NEW off, NEW value \in SUBSET Mechanisms
    PROVE  /\ Advertise(n, rows, value) \in Ledgers
           /\ Withdraw(n, rows) \in Ledgers
           /\ TakeRequest(n) \in Ledgers
           /\ Acknowledge(n, rows, off) \in Ledgers
           /\ Reject(n, rows) \in Ledgers
           /\ AbandonOutstanding(n) \in Ledgers
<1> USE DEF Ledgers, TokenState
<1>1. Advertise(n, rows, value) \in Ledgers  BY DEF Advertise
<1>2. Withdraw(n, rows) \in Ledgers  BY DEF Withdraw
<1>3. TakeRequest(n) \in Ledgers  BY DEF TakeRequest
<1>4. Acknowledge(n, rows, off) \in Ledgers  BY DEF Acknowledge
<1>5. Reject(n, rows) \in Ledgers  BY DEF Reject
<1>6. AbandonOutstanding(n) \in Ledgers  BY DEF AbandonOutstanding
<1> QED BY <1>1, <1>2, <1>3, <1>4, <1>5, <1>6

\* Every handler that rewrites the ledger alone keeps both sets.
LEMMA CapsType ==
    ASSUME NEW c \in Cores, NEW n \in Ledgers
    PROVE  /\ [c EXCEPT !.caps = n] \in Cores
           /\ c \in Quiet => [c EXCEPT !.caps = n] \in Quiet
BY QuietStep DEF Cores

LEMMA NewLedgerType == ASSUME NEW b \in BOOLEAN PROVE NewLedger(b) \in Ledgers
BY DEF NewLedger, Ledgers, TokenState

-----------------------------------------------------------------------------
(* Failing, reconnecting and resetting *)

LEMMA CountType ==
    ASSUME NEW c \in Cores
    PROVE  /\ CountScheduledReconnect(c) \in Cores
           /\ CountScheduledReconnect(c).timers = c.timers
           /\ CountScheduledReconnect(c).effects = c.effects
BY BoundsAssumption DEF CountScheduledReconnect, Cores

LEMMA ScheduleReconnectType ==
    ASSUME NEW c \in Cores
    PROVE  ScheduleReconnect(c) \in Cores
<1>1. SetState(c, "Failed") \in Cores  BY SetStateType DEF SessionState
<1>2. SetState(CountScheduledReconnect(c), "Reconnecting") \in Cores
  BY CountType, SetStateType DEF SessionState
<1>3. Arm(SetState(CountScheduledReconnect(c), "Reconnecting"), "Reconnect") \in Cores
  BY <1>2, ArmType DEF TimerSlot
<1> QED BY <1>1, <1>3 DEF ScheduleReconnect

LEMMA IntentType ==
    ASSUME NEW c \in Cores, NEW intent \in DisconnectIntent
    PROVE  /\ [c EXCEPT !.intent = intent] \in Cores
           /\ c \in Quiet => [c EXCEPT !.intent = intent] \in Quiet
BY QuietStep DEF Cores

LEMMA FailRetryType ==
    ASSUME NEW c \in Cores, NEW t
    PROVE  /\ FailRetry(c, t) \in Cores
           /\ c \in Quiet /\ t \in InFlight => FailRetry(c, t) \in Quiet
<1> DEFINE d == CancelPing(Cancel(c, {"Registration"}))
           i == IF d.intent = "Unexpected" THEN "Reconnecting" ELSE d.intent
           e == [d EXCEPT !.intent = i]
<1>1. d \in Cores /\ (c \in Quiet => d \in Quiet)  BY CancelType, PingType
<1>2. i \in DisconnectIntent  BY <1>1 DEF Cores, DisconnectIntent
<1>3. e \in Cores /\ (c \in Quiet => e \in Quiet)  BY <1>1, <1>2, IntentType
<1>4. Push(e, Shutdown) \in Cores /\ (c \in Quiet => Push(e, Shutdown) \in Quiet)
  BY <1>3, EffectTypes, PushType
<1>5. ScheduleReconnect(d) \in Cores  BY <1>1, ScheduleReconnectType
<1>6. FailRetry(c, t) = IF t \in InFlight THEN Push(e, Shutdown) ELSE ScheduleReconnect(d)
  BY DEF FailRetry
<1> HIDE DEF d, e
<1> QED BY <1>4, <1>5, <1>6

LEMMA FailFatalType ==
    ASSUME NEW c \in Cores
    PROVE  /\ FailFatal(c) \in Cores
           /\ c \in Quiet => FailFatal(c) \in Quiet
<1> DEFINE d == CancelPing(Cancel(c, {"Registration", "Reconnect"}))
           e == SetState([d EXCEPT !.intent = "Stopping"], "Failed")
<1>1. d \in Cores /\ (c \in Quiet => d \in Quiet)  BY CancelType, PingType
<1>2. e \in Cores /\ (c \in Quiet => e \in Quiet)
  BY <1>1, IntentType, SetStateType DEF DisconnectIntent, SessionState
<1>3. FailFatal(c) = Push(e, Shutdown)  BY DEF FailFatal
<1> HIDE DEF e
<1> QED BY <1>2, <1>3, EffectTypes, PushType

LEMMA ResetType ==
    ASSUME NEW c \in Cores, cfg \in Configs
    PROVE  /\ ResetForConnection(c) \in Cores
           /\ ResetForConnection(c).effects = c.effects
           /\ ResetForConnection(c).timers \subseteq c.timers
           /\ ResetForConnection(c).state = c.state
           /\ ResetForConnection(c).intent = c.intent
<1> DEFINE n == NewLedger(cfg.secret)
           d == [c EXCEPT !.regSent = FALSE, !.regNick = "Configured", !.welcomed = FALSE,
                  !.listSeen = FALSE, !.capEnded = FALSE, !.caps = n,
                  !.saslPending = FALSE, !.saslSucceeded = FALSE, !.exchangeStarted = FALSE,
                  !.mechanism = "none", !.scram = "none", !.pendingSts = NoAd]
           e == Cancel(d, {"Capability", "Registration"})
<1>1. n \in Ledgers  BY ConfigsAssumption, NewLedgerType DEF ConfigType
<1>2. NoAd \in StsAds  BY DEF NoAd, StsAds
<1> HIDE DEF n
<1>3. d \in Cores  BY <1>1, <1>2, ZenonT(30) DEF Cores, ScramPhase
<1>4. d.effects = c.effects /\ d.timers = c.timers /\ d.state = c.state /\ d.intent = c.intent
  BY DEF Cores
<1> HIDE DEF d
<1>5. /\ e \in Cores /\ e.effects = d.effects /\ e.timers \subseteq d.timers
      /\ e.state = d.state /\ e.intent = d.intent
  BY <1>3, CancelType DEF Cancel, Cores
<1> HIDE DEF e
<1>6. /\ CancelPing(e) \in Cores /\ CancelPing(e).effects = e.effects
      /\ CancelPing(e).timers \subseteq e.timers /\ CancelPing(e).state = e.state
      /\ CancelPing(e).intent = e.intent
  BY <1>5, PingType, ZenonT(30) DEF CancelPing, Cancel, Cores
<1>7. ResetForConnection(c) = CancelPing(e)  BY DEF ResetForConnection, d, e, n
<1> QED BY <1>4, <1>5, <1>6, <1>7

LEMMA StsStepsType ==
    ASSUME NEW c \in Cores, policy \in Policies
    PROVE  /\ ApplyCachedSts(c) \in Cores /\ TakeStsDuration(c) \in Cores
           /\ PolicyAfterLookup \in Policies /\ RefreshedPolicy(c) \in Policies
           /\ \A d \in {ApplyCachedSts(c), TakeStsDuration(c)} :
                 /\ d.effects = c.effects /\ d.timers = c.timers
                 /\ d.state = c.state /\ d.intent = c.intent
<1>1. ApplyCachedSts(c) \in Cores
  <2>1. policy.port \in Nat  BY DEF Policies
  <2>2. [c EXCEPT !.port = policy.port, !.tls = TRUE] \in Cores  BY <2>1 DEF Cores
  <2> QED BY <2>2 DEF ApplyCachedSts
<1>2. TakeStsDuration(c) \in Cores  BY DEF TakeStsDuration, Cores
<1>3. PolicyAfterLookup \in Policies  BY DEF PolicyAfterLookup, Policies, NoPolicy
<1>4. RefreshedPolicy(c) \in Policies  BY DEF RefreshedPolicy, Policies
<1>5. \A d \in {ApplyCachedSts(c), TakeStsDuration(c)} :
         /\ d.effects = c.effects /\ d.timers = c.timers
         /\ d.state = c.state /\ d.intent = c.intent
  BY ZenonT(30) DEF ApplyCachedSts, TakeStsDuration, Cores
<1> QED BY <1>1, <1>2, <1>3, <1>4, <1>5

LEMMA ReconnectAttemptType ==
    ASSUME NEW c \in Cores, cfg \in Configs, policy \in Policies
    PROVE  /\ BeginReconnectAttempt(c) \in Cores
           /\ BeginReconnectAttempt(c).state = "Connecting"
           /\ "Reconnect" \notin BeginReconnectAttempt(c).timers
           /\ \E e \in Effects : e.op = "Connect"
                 /\ BeginReconnectAttempt(c).effects = Append(c.effects, e)
<1> DEFINE d == Cancel(c, {"Reconnect"})
           e == ApplyCachedSts(d)
           f == ResetForConnection(e)
           g == SetState(f, "Connecting")
<1>1. d \in Cores /\ d.effects = c.effects /\ "Reconnect" \notin d.timers
  BY CancelType DEF Cancel, Cores
<1> HIDE DEF d
<1>2. e \in Cores /\ e.effects = c.effects /\ "Reconnect" \notin e.timers  BY <1>1, StsStepsType
<1> HIDE DEF e
<1>3. f \in Cores /\ f.effects = c.effects /\ "Reconnect" \notin f.timers  BY <1>2, ResetType
<1> HIDE DEF f
<1>4. /\ g \in Cores /\ g.effects = c.effects /\ "Reconnect" \notin g.timers
      /\ g.state = "Connecting"
  <2>1. g \in Cores  BY <1>3, SetStateType DEF SessionState
  <2>2. g.effects = f.effects /\ g.timers = f.timers /\ g.state = "Connecting"
    BY <1>3 DEF SetState, Cores
  <2> QED BY <1>3, <2>1, <2>2
<1> HIDE DEF g
<1>5. /\ ConnectTransport(g).effects = Append(g.effects, Connect(g.port, g.tls))
      /\ ConnectTransport(g).state = g.state /\ ConnectTransport(g).timers = g.timers
  BY <1>4 DEF ConnectTransport, Push, Cores
<1>6. Connect(g.port, g.tls) \in Effects /\ Connect(g.port, g.tls).op = "Connect"
  BY <1>4, EffectTypes DEF Cores, Connect
<1>7. BeginReconnectAttempt(c) = ConnectTransport(g)
  BY DEF BeginReconnectAttempt, d, e, f, g
<1> QED BY <1>4, <1>5, <1>6, <1>7, ConnectTransportType

-----------------------------------------------------------------------------
(* Negotiating, registering and authenticating *)

LEMMA BeginNegotiationType ==
    ASSUME NEW c \in Cores
    PROVE  /\ BeginCapabilityNegotiation(c) \in Cores
           /\ c \in Quiet => BeginCapabilityNegotiation(c) \in Quiet
<1> DEFINE d == Send(SetState(c, "CapLs"), "CAP LS")
<1>1. d \in Cores /\ (c \in Quiet => d \in Quiet)
  BY SetStateType, SendType DEF SessionState, Lines
<1> HIDE DEF d
<1>2. Arm(d, "Registration") \in Cores /\ (c \in Quiet => Arm(d, "Registration") \in Quiet)
  BY <1>1, ArmType DEF TimerSlot
<1> QED BY <1>2 DEF BeginCapabilityNegotiation, d

LEMMA FlagsType ==
    ASSUME NEW c \in Cores, NEW b \in BOOLEAN
    PROVE  /\ [c EXCEPT !.regSent = b] \in Cores
           /\ [c EXCEPT !.capEnded = b] \in Cores
           /\ [c EXCEPT !.saslPending = b] \in Cores
           /\ c \in Quiet => /\ [c EXCEPT !.regSent = b] \in Quiet
                             /\ [c EXCEPT !.capEnded = b] \in Quiet
                             /\ [c EXCEPT !.saslPending = b] \in Quiet
<1>1. [c EXCEPT !.regSent = b] \in Cores  BY DEF Cores
<1>2. [c EXCEPT !.capEnded = b] \in Cores  BY DEF Cores
<1>3. [c EXCEPT !.saslPending = b] \in Cores  BY DEF Cores
<1>4. \A d \in {[c EXCEPT !.regSent = b], [c EXCEPT !.capEnded = b], [c EXCEPT !.saslPending = b]} :
         d.effects = c.effects /\ d.timers = c.timers
  BY DEF Cores
<1> QED BY <1>1, <1>2, <1>3, <1>4 DEF Quiet

LEMMA SendRegistrationType ==
    ASSUME NEW c \in Cores
    PROVE  /\ SendRegistration(c) \in Cores
           /\ c \in Quiet => SendRegistration(c) \in Quiet
<1> DEFINE d == [Send(c, "REGISTER") EXCEPT !.regSent = TRUE]
<1>1. d \in Cores /\ (c \in Quiet => d \in Quiet)  BY SendType, FlagsType DEF Lines
<1> HIDE DEF d
<1>2. SetState(d, "Registering") \in Cores /\ (c \in Quiet => SetState(d, "Registering") \in Quiet)
  BY <1>1, SetStateType DEF SessionState
<1> QED BY <1>2, FailFatalType DEF SendRegistration, d

LEMMA EndNegotiationType ==
    ASSUME NEW c \in Cores
    PROVE  /\ EndCapabilityNegotiation(c) \in Cores
           /\ c \in Quiet => EndCapabilityNegotiation(c) \in Quiet
           /\ EndCapabilityNegotiation(c).state = c.state
           /\ EndCapabilityNegotiation(c).intent = c.intent
           /\ EndCapabilityNegotiation(c).timers \subseteq c.timers
           /\ \/ EndCapabilityNegotiation(c).effects = c.effects
              \/ EndCapabilityNegotiation(c).effects = Append(c.effects, Write("CAP END"))
<1> DEFINE d == [c EXCEPT !.capEnded = TRUE]
           e == Cancel(d, {"Capability"})
           f == Send(e, "CAP END")
<1>1. d \in Cores /\ (c \in Quiet => d \in Quiet)  BY FlagsType
<1>2. d.state = c.state /\ d.intent = c.intent /\ d.timers = c.timers /\ d.effects = c.effects
  BY DEF Cores
<1> HIDE DEF d
<1>3. e \in Cores /\ (c \in Quiet => e \in Quiet)  BY <1>1, CancelType
<1>4. /\ e.state = d.state /\ e.intent = d.intent /\ e.timers \subseteq d.timers
      /\ e.effects = d.effects
  BY <1>1 DEF Cancel, Cores
<1> HIDE DEF e
<1>5. f \in Cores /\ (c \in Quiet => f \in Quiet)  BY <1>3, SendType DEF Lines
<1>6. /\ f.state = e.state /\ f.intent = e.intent /\ f.timers = e.timers
      /\ f.effects = Append(e.effects, Write("CAP END"))
  BY <1>3 DEF Send, Push, Cores
<1>7. EndCapabilityNegotiation(c) \in {c, f}  BY DEF EndCapabilityNegotiation, d, e, f
<1> HIDE DEF f
<1> QED BY <1>2, <1>4, <1>5, <1>6, <1>7

LEMMA RequestSaslType ==
    ASSUME NEW c \in Cores
    PROVE  /\ RequestSasl(c) \in Cores
           /\ c \in Quiet => RequestSasl(c) \in Quiet
<1> DEFINE m == IF c.exchangeStarted THEN c.mechanism ELSE ChosenSaslMechanism(c.caps.saslValue)
           d == [c EXCEPT !.saslPending = TRUE, !.mechanism = m]
<1>1. m \in {"none", "PLAIN", "SCRAM-SHA-256"}  BY DEF ChosenSaslMechanism, Cores
<1>2. RequestSasl(c) \in {c, d}  BY DEF RequestSasl, Cores
<1> HIDE DEF m
<1>3. d \in Cores  BY <1>1 DEF Cores
<1>4. d.effects = c.effects /\ d.timers = c.timers  BY DEF Cores
<1> HIDE DEF d
<1> QED BY <1>2, <1>3, <1>4 DEF Quiet

LEMMA SendRequestLinesType ==
    ASSUME NEW c \in Cores
    PROVE  /\ SendRequestLines(c) \in Cores
           /\ c \in Quiet => SendRequestLines(c) \in Quiet
<1> DEFINE d == IF c.regSent THEN c ELSE SetState(c, "CapReq")
<1>1. d \in Cores /\ (c \in Quiet => d \in Quiet)  BY SetStateType DEF SessionState
<1> HIDE DEF d
<1>2. Send(d, "CAP REQ") \in Cores /\ (c \in Quiet => Send(d, "CAP REQ") \in Quiet)
  BY <1>1, SendType DEF Lines
<1>3. /\ Arm(Send(d, "CAP REQ"), "Capability") \in Cores
      /\ c \in Quiet => Arm(Send(d, "CAP REQ"), "Capability") \in Quiet
  BY <1>2, ArmType DEF TimerSlot
<1> QED BY <1>3 DEF SendRequestLines, d

LEMMA RequestCapabilitiesType ==
    ASSUME NEW c \in Cores
    PROVE  /\ RequestCapabilities(c) \in Cores
           /\ c \in Quiet => RequestCapabilities(c) \in Quiet
<1> DEFINE d == SendRequestLines(RequestSasl(c))
           e == [d EXCEPT !.caps = TakeRequest(@)]
<1>1. d \in Cores /\ (c \in Quiet => d \in Quiet)  BY RequestSaslType, SendRequestLinesType
<1> HIDE DEF d
<1>2. d.caps \in Ledgers /\ e = [d EXCEPT !.caps = TakeRequest(d.caps)]  BY <1>1 DEF Cores
<1>3. TakeRequest(d.caps) \in Ledgers  BY <1>2, LedgerType
<1>4. e \in Cores /\ (c \in Quiet => e \in Quiet)  BY <1>1, <1>2, <1>3, CapsType
<1> HIDE DEF e
<1> QED BY <1>4, SendRegistrationType, EndNegotiationType DEF RequestCapabilities, d, e

LEMMA CapabilityTimeoutType ==
    ASSUME NEW c \in Cores
    PROVE  /\ OnCapabilityTimeout(c) \in Cores
           /\ OnCapabilityTimeout(c).state = c.state
           /\ OnCapabilityTimeout(c).intent = c.intent
           /\ OnCapabilityTimeout(c).timers \subseteq c.timers
           /\ \/ OnCapabilityTimeout(c).effects = c.effects
              \/ OnCapabilityTimeout(c).effects = Append(c.effects, Write("CAP END"))
<1> DEFINE n == AbandonOutstanding(c.caps)
           b == c.saslPending /\ "Sasl" \notin Abandoned(c.caps)
           d == [c EXCEPT !.caps = n, !.saslPending = b]
<1>1. n \in Ledgers  BY LedgerType DEF Cores
<1>2. b \in BOOLEAN  OBVIOUS
<1>3. OnCapabilityTimeout(c) = EndCapabilityNegotiation(d)  BY DEF OnCapabilityTimeout, Cores
<1> HIDE DEF n, b
<1>4. d \in Cores  BY <1>1, <1>2 DEF Cores
<1>5. d.state = c.state /\ d.intent = c.intent /\ d.timers = c.timers /\ d.effects = c.effects
  BY DEF Cores
<1> HIDE DEF d
<1> QED BY <1>3, <1>4, <1>5, EndNegotiationType

LEMMA PingFiredType ==
    ASSUME NEW c \in Cores, NEW t
    PROVE  /\ OnPingFired(c, t) \in Cores
           /\ c \in Quiet /\ t \in InFlight => OnPingFired(c, t) \in Quiet
<1> DEFINE d == [c EXCEPT !.ping = "Probing"]
           e == Send(d, "PING")
           f == Arm(e, "Ping")
<1>1. d \in Cores /\ (c \in Quiet => d \in Quiet)  BY QuietStep DEF Cores
<1> HIDE DEF d
<1>2. e \in Cores /\ (c \in Quiet => e \in Quiet)  BY <1>1, SendType DEF Lines
<1> HIDE DEF e
<1>3. f \in Cores /\ (c \in Quiet => f \in Quiet)  BY <1>2, ArmType DEF TimerSlot
<1>4. OnPingFired(c, t) \in {c, f, FailRetry(c, t)}  BY DEF OnPingFired, d, e, f
<1> HIDE DEF f
<1> QED BY <1>3, <1>4, FailRetryType

LEMMA WelcomeType ==
    ASSUME NEW c \in Cores
    PROVE  /\ HandleWelcome(c) \in Cores
           /\ c \in Quiet => HandleWelcome(c) \in Quiet
<1> DEFINE n == AbandonOutstanding(c.caps)
           d == [c EXCEPT !.attempt = 0, !.welcomed = TRUE, !.caps = n]
           e == Cancel(d, {"Capability", "Registration"})
           f == ArmPing(SetState(e, "Registered"))
           g == IF SendsIdentify(f) THEN Send(f, "IDENTIFY") ELSE f
<1>1. n \in Ledgers  BY LedgerType DEF Cores
<1>2. HandleWelcome(c) \in {c, FailFatal(c), Send(g, "JOIN")}  BY DEF HandleWelcome, Cores
<1> HIDE DEF n
<1>0. 0 \in 0 .. BackoffSteps  BY BoundsAssumption
<1>3. d \in Cores  BY <1>0, <1>1 DEF Cores
<1>4. c \in Quiet => d \in Quiet  BY <1>3, QuietStep DEF Cores
<1> HIDE DEF d
<1>5. e \in Cores /\ (c \in Quiet => e \in Quiet)  BY <1>3, <1>4, CancelType
<1> HIDE DEF e
<1>6. f \in Cores /\ (c \in Quiet => f \in Quiet)
  BY <1>5, SetStateType, PingType DEF SessionState
<1> HIDE DEF f
<1>7. g \in Cores /\ (c \in Quiet => g \in Quiet)  BY <1>6, SendType DEF Lines
<1> HIDE DEF g
<1>8. Send(g, "JOIN") \in Cores /\ (c \in Quiet => Send(g, "JOIN") \in Quiet)
  BY <1>7, SendType DEF Lines
<1> QED BY <1>2, <1>8, FailFatalType

LEMMA StsAdType ==
    ASSUME NEW c \in Cores, NEW ad \in StsAds, policy \in Policies
    PROVE  /\ HandleStsAd(c, ad) \in Cores
           /\ c \in Quiet => HandleStsAd(c, ad) \in Quiet
           /\ PolicyAfterAd(c, ad) \in Policies
<1>1. ad.port \in Nat /\ (ad.duration \in Nat \/ ad.duration = -1)
  <2>1. ad.port \in StsPorts \cup {0} /\ ad.duration \in StsDurations \cup {-1}  BY DEF StsAds
  <2>2. StsPorts \subseteq Nat /\ StsDurations \subseteq Nat  BY StsAssumption
  <2>3. ad.port \in Nat
    <3>1. ad.port \in StsPorts \/ ad.port = 0  BY <2>1
    <3>2. ad.port = 0 => ad.port \in Nat  OBVIOUS
    <3> QED BY <2>2, <3>1, <3>2
  <2>4. ad.duration \in StsDurations \/ ad.duration = -1  BY <2>1
  <2>5. ad.duration \in StsDurations => ad.duration \in Nat  BY <2>2
  <2> QED BY <2>3, <2>4, <2>5
<1>2. [c EXCEPT !.port = ad.port, !.tls = TRUE] \in Cores
  BY <1>1 DEF Cores
<1>3. c \in Quiet => [c EXCEPT !.port = ad.port, !.tls = TRUE] \in Quiet
  BY <1>2, QuietStep DEF Cores
<1> DEFINE d == SetState([c EXCEPT !.port = ad.port, !.tls = TRUE], "StsUpgrading")
<1>4. d \in Cores /\ (c \in Quiet => d \in Quiet)
  BY <1>2, <1>3, SetStateType DEF SessionState
<1>5. BeginStsUpgrade(c, ad.port) = Push(d, Shutdown)  BY DEF BeginStsUpgrade
<1> HIDE DEF d
<1>6. /\ BeginStsUpgrade(c, ad.port) \in Cores
      /\ c \in Quiet => BeginStsUpgrade(c, ad.port) \in Quiet
  BY <1>4, <1>5, EffectTypes, PushType
<1>7. ad.duration \in Nat => [c EXCEPT !.stsDuration = ad.duration] \in Cores
  BY DEF Cores
<1>8. ad.duration \in Nat /\ c \in Quiet => [c EXCEPT !.stsDuration = ad.duration] \in Quiet
  BY <1>7, QuietStep DEF Cores
<1>9. HandleStsAd(c, ad) \in Cores  BY <1>1, <1>6, <1>7 DEF HandleStsAd
<1>10. c \in Quiet => HandleStsAd(c, ad) \in Quiet  BY <1>1, <1>6, <1>8 DEF HandleStsAd
<1>11. c.port \in Nat  BY DEF Cores
<1>12. PolicyAfterAd(c, ad) \in Policies
  BY <1>1, <1>11 DEF PolicyAfterAd, Policies, NoPolicy
<1> QED BY <1>9, <1>10, <1>12

LEMMA SaslType ==
    ASSUME NEW c \in Cores
    PROVE  /\ BeginSasl(c) \in Cores
           /\ c \in Quiet => BeginSasl(c) \in Quiet
           /\ \A payload \in Payloads : ScramStep(c, payload) \in Cores
           /\ c \in Quiet => \A payload \in Payloads : ScramStep(c, payload) \in Quiet
<1>1. ASSUME NEW p \in ScramPhase, NEW b \in BOOLEAN
      PROVE  /\ [c EXCEPT !.exchangeStarted = b, !.scram = p] \in Cores
             /\ c \in Quiet => [c EXCEPT !.exchangeStarted = b, !.scram = p] \in Quiet
             /\ [c EXCEPT !.scram = p] \in Cores
             /\ c \in Quiet => [c EXCEPT !.scram = p] \in Quiet
  BY QuietStep DEF Cores
<1>2. BeginSasl(c) \in Cores /\ (c \in Quiet => BeginSasl(c) \in Quiet)
  <2> DEFINE p == IF c.mechanism = "SCRAM-SHA-256" THEN "AwaitPrompt" ELSE c.scram
             d == [c EXCEPT !.exchangeStarted = TRUE, !.scram = p]
  <2>1. p \in ScramPhase  BY DEF Cores, ScramPhase
  <2>2. BeginSasl(c) = Send(SetState(d, "Sasl"), "AUTHENTICATE")  BY DEF BeginSasl, Cores
  <2> HIDE DEF p
  <2>3. d \in Cores /\ (c \in Quiet => d \in Quiet)  BY <1>1, <2>1
  <2> HIDE DEF d
  <2>4. SetState(d, "Sasl") \in Cores /\ (c \in Quiet => SetState(d, "Sasl") \in Quiet)
    BY <2>3, SetStateType DEF SessionState
  <2> QED BY <2>2, <2>4, SendType DEF Lines
<1>3. ASSUME NEW payload \in Payloads
      PROVE  /\ ScramStep(c, payload) \in Cores
             /\ c \in Quiet => ScramStep(c, payload) \in Quiet
  <2>1. CASE c.scram \in DOMAIN NextScram /\ payload = "fits"
    <3>1. NextScram[c.scram] \in ScramPhase  BY <2>1 DEF NextScram, ScramPhase
    <3> DEFINE d == [c EXCEPT !.scram = NextScram[c.scram]]
    <3>2. d \in Cores /\ (c \in Quiet => d \in Quiet)  BY <1>1, <3>1
    <3>3. ScramStep(c, payload) = Send(d, "AUTHENTICATE")
      BY <2>1 DEF ScramStep, NextScram, Cores
    <3> HIDE DEF d
    <3> QED BY <3>2, <3>3, SendType DEF Lines
  <2>2. CASE ~ (c.scram \in DOMAIN NextScram /\ payload = "fits")
    <3>1. ScramStep(c, payload) \in {c, FailFatal(c)}  BY <2>2 DEF ScramStep
    <3> QED BY <3>1, FailFatalType
  <2> QED BY <2>1, <2>2
<1> QED BY <1>2, <1>3

-----------------------------------------------------------------------------
(* The callbacks of the transport, and the stop *)

LEMMA DisconnectedType ==
    ASSUME NEW c \in Cores, cfg \in Configs, policy \in Policies
    PROVE  /\ OnDisconnected(c) \in Cores
           /\ PolicyAfterDisconnect(c) \in Policies
<1> DEFINE d == TakeStsDuration(c)
<1>1. d \in Cores /\ d.intent \in DisconnectIntent  BY StsStepsType DEF Cores
<1>2. ConnectTransport(ResetForConnection(c)) \in Cores  BY ResetType, ConnectTransportType
<1>3. OnDisconnected(c) \in {ConnectTransport(ResetForConnection(c)),
                             ScheduleReconnect([d EXCEPT !.intent = "Unexpected"]),
                             SetState(d, "Idle"), d, FailRetry(d, "Disconnected")}
  BY <1>1 DEF OnDisconnected, DisconnectIntent
<1> HIDE DEF d
<1>4. ScheduleReconnect([d EXCEPT !.intent = "Unexpected"]) \in Cores
  BY <1>1, IntentType, ScheduleReconnectType DEF DisconnectIntent
<1>5. SetState(d, "Idle") \in Cores  BY <1>1, SetStateType DEF SessionState
<1>6. FailRetry(d, "Disconnected") \in Cores  BY <1>1, FailRetryType
<1>7. PolicyAfterDisconnect(c) \in Policies  BY StsStepsType DEF PolicyAfterDisconnect
<1> QED BY <1>1, <1>2, <1>3, <1>4, <1>5, <1>6, <1>7

\* A stop leaves the session idle, or closing with a shutdown and a settle queued.
LEMMA StopType ==
    ASSUME NEW c \in Cores, policy \in Policies
    PROVE  /\ StopCore(c) \in Cores
           /\ "Reconnect" \notin StopCore(c).timers
           /\ StopCore(c).intent = "Stopping"
           /\ \/ StopCore(c).state = "Idle" /\ StopCore(c).effects = c.effects
              \/ /\ StopCore(c).state = "Closing"
                 /\ StopCore(c).effects = Append(Append(c.effects, Shutdown), SettleStop)
<1> DEFINE d == TakeStsDuration(c)
           e == [d EXCEPT !.intent = "Stopping", !.attempt = 0]
           f == Cancel(e, {"Reconnect", "Capability", "Registration"})
           g == CancelPing(f)
           h == SetState(g, "Closing")
           i == Push(h, Shutdown)
           j == Push(i, SettleStop)
<1>1. d \in Cores /\ d.effects = c.effects  BY StsStepsType
<1> HIDE DEF d
<1>0. 0 \in 0 .. BackoffSteps  BY BoundsAssumption
<1>2. e \in Cores /\ e.effects = c.effects /\ e.intent = "Stopping"
  <2>1. e \in Cores  BY <1>0, <1>1 DEF Cores, DisconnectIntent
  <2>2. e.effects = d.effects /\ e.intent = "Stopping"  BY <1>1 DEF Cores
  <2> QED BY <1>1, <2>1, <2>2
<1> HIDE DEF e
<1>3. /\ f \in Cores /\ f.effects = c.effects /\ f.intent = "Stopping"
      /\ "Reconnect" \notin f.timers
  BY <1>2, CancelType DEF Cancel, Cores
<1> HIDE DEF f
<1>4. /\ g \in Cores /\ g.effects = c.effects /\ g.intent = "Stopping"
      /\ "Reconnect" \notin g.timers
  BY <1>3, PingType, ZenonT(30) DEF CancelPing, Cancel, Cores
<1> HIDE DEF g
<1>5. ASSUME NEW s \in {"Idle", "Closing"}
      PROVE  /\ SetState(g, s) \in Cores /\ SetState(g, s).effects = c.effects
             /\ SetState(g, s).intent = "Stopping" /\ SetState(g, s).state = s
             /\ "Reconnect" \notin SetState(g, s).timers
  <2>1. SetState(g, s) \in Cores  BY <1>4, SetStateType DEF SessionState
  <2>2. /\ SetState(g, s).effects = g.effects /\ SetState(g, s).intent = g.intent
        /\ SetState(g, s).state = s /\ SetState(g, s).timers = g.timers
    BY <1>4 DEF SetState, Cores
  <2> QED BY <1>4, <2>1, <2>2
<1>6. ASSUME NEW k \in Cores, NEW x \in Effects
      PROVE  /\ Push(k, x) \in Cores /\ Push(k, x).effects = Append(k.effects, x)
             /\ Push(k, x).intent = k.intent /\ Push(k, x).state = k.state
             /\ Push(k, x).timers = k.timers
  <2>1. Push(k, x) \in Cores  BY PushType
  <2> QED BY <2>1 DEF Push, Cores
<1>7. \/ StopCore(c) = g /\ g.state = "Idle"
      \/ StopCore(c) \in {SetState(g, "Idle"), j}
  BY DEF StopCore, d, e, f, g, h, i, j
<1>8. h \in Cores /\ h.effects = c.effects /\ h.intent = "Stopping" /\ h.state = "Closing"
      /\ "Reconnect" \notin h.timers
  BY <1>5
<1> HIDE DEF h
<1>9. i \in Cores /\ i.effects = Append(c.effects, Shutdown) /\ i.intent = "Stopping"
      /\ i.state = "Closing" /\ "Reconnect" \notin i.timers
  BY <1>6, <1>8, EffectTypes, SMTT(30)
<1> HIDE DEF i
<1>10. /\ j \in Cores /\ j.effects = Append(Append(c.effects, Shutdown), SettleStop)
       /\ j.intent = "Stopping" /\ j.state = "Closing" /\ "Reconnect" \notin j.timers
  BY <1>6, <1>9, EffectTypes, SMTT(30)
<1> HIDE DEF j
<1> QED BY <1>4, <1>5, <1>7, <1>10

-----------------------------------------------------------------------------
(* The inductive invariant behind StopOutranksReconnect.  While a chunk is handled *)
(* the pipe is open and the core is Quiet; otherwise a backoff runs only in the    *)
(* state that waits for it and without a socket, a queued connect is the next call *)
(* to run and the state expects it, and a queued settle belongs to a stop.         *)

BackoffIsAlone(c, p) ==
    "Reconnect" \in c.timers => c.state = "Reconnecting" /\ p \notin InFlight /\ cfg.reconnect

DialIsNext(c) ==
    \A k \in DOMAIN c.effects :
        c.effects[k].op = "Connect" => k = 1 /\ c.state \in AwaitingSocket

SettleFollowsStop(c) ==
    \A k \in DOMAIN c.effects :
        c.effects[k].op = "SettleStop" =>
            /\ "Reconnect" \notin c.timers
            /\ c.intent = "Stopping"
            /\ c.state \in {"Closing", "Idle"}

Calm(c, p) == BackoffIsAlone(c, p) /\ DialIsNext(c) /\ SettleFollowsStop(c)

IInv ==
    /\ TypeOK
    /\ chunk > 0 => core \in Quiet /\ pipe \in InFlight
    /\ Calm(core, pipe)

-----------------------------------------------------------------------------
(* A frame: the core stays typed, and stays Quiet on an open pipe *)

LEMMA FrameStep ==
    ASSUME TypeOK, HandleFrame
    PROVE  /\ TypeOK'
           /\ chunk > 0 /\ UNCHANGED <<cfg, pipe, pipeTls>>
           /\ core \in Quiet /\ pipe \in InFlight => core' \in Quiet
<1>0. core \in Cores /\ cfg \in Configs /\ policy \in Policies /\ core.caps \in Ledgers
  BY DEF TypeOK, Cores
<1> DEFINE Good(c) == c \in Cores /\ (core \in Quiet /\ pipe \in InFlight => c \in Quiet)
           Kept == /\ TypeOK'
                   /\ chunk > 0 /\ UNCHANGED <<cfg, pipe, pipeTls>>
                   /\ core \in Quiet /\ pipe \in InFlight => core' \in Quiet
<1>a. ASSUME NEW c, Good(c), Frame(c), policy' \in Policies
      PROVE  Kept
  <2>1. /\ chunk > 0 /\ chunk' = chunk - 1 /\ core' = c
        /\ UNCHANGED <<cfg, pipe, pipeTls>>
    BY <1>a DEF Frame, InChunk
  <2>2. chunk' \in 0 .. MaxFrames  BY <2>1, BoundsAssumption DEF TypeOK
  <2> QED BY <1>a, <2>1, <2>2 DEF TypeOK
<1>b. ASSUME NEW n \in Ledgers PROVE Good([core EXCEPT !.caps = n])  BY <1>0, CapsType
<1>c. Good(core)  BY <1>0
<1>d. Good(FailFatal(core))  BY <1>0, FailFatalType
<1> HIDE DEF Good, Kept
<1>1. ASSUME NEW rows \in SUBSET Rows, NEW value \in SaslValues, NEW ad \in StsAds
      PROVE  (CapLsMore(rows, value, ad) \/ CapLsLast(rows, value, ad) \/ CapNew(rows, value, ad))
             => Kept
  <2> DEFINE n == Advertise(core.caps, rows, value)
             sts(held) == [core EXCEPT !.listSeen = TRUE, !.caps = n, !.pendingSts = held]
  <2>1. n \in Ledgers  BY <1>0, SaslValuesAssumption, LedgerType
  <2>2. core.pendingSts \in StsAds  BY <1>0 DEF Cores
  <2> HIDE DEF n
  <2>3. ASSUME NEW held \in StsAds PROVE Good(sts(held))
    <3>1. sts(held) \in Cores  BY <1>0, <2>1 DEF Cores
    <3>2. sts(held).effects = core.effects /\ sts(held).timers = core.timers  BY <1>0 DEF Cores
    <3> HIDE DEF sts
    <3> QED BY <3>1, <3>2 DEF Good, Quiet
  <2>4. ASSUME NEW c, Good(c), NEW held \in StsAds PROVE Good(UnlessUpgrading(HandleStsAd(c, held)))
    <3>1. Good(HandleStsAd(c, held))  BY <1>0, <2>4, StsAdType DEF Good
    <3> QED BY <3>1, RequestCapabilitiesType DEF UnlessUpgrading, Good
  <2>5. ASSUME NEW held \in StsAds PROVE PolicyAfterAd(core, held) \in Policies
    BY <1>0, StsAdType
  <2>6. CASE CapLsMore(rows, value, ad)
    <3> DEFINE held == IF ad = NoAd THEN core.pendingSts ELSE ad
    <3>1. held \in StsAds  BY <2>2
    <3>2. Frame(sts(held)) /\ policy' = policy  BY <2>6, <1>0 DEF CapLsMore, n, Cores
    <3> HIDE DEF held, sts
    <3> QED BY <1>0, <1>a, <2>3, <3>1, <3>2
  <2>7. CASE CapLsLast(rows, value, ad)
    <3> DEFINE held == IF ad = NoAd THEN core.pendingSts ELSE ad
    <3>1. held \in StsAds  BY <2>2
    <3>2. /\ Frame(UnlessUpgrading(HandleStsAd(sts(held), held)))
          /\ policy' = PolicyAfterAd(core, held)
      BY <2>7, <1>0 DEF CapLsLast, n, Cores
    <3> HIDE DEF held, sts
    <3> QED BY <1>a, <2>3, <2>4, <2>5, <3>1, <3>2
  <2>8. CASE CapNew(rows, value, ad)
    <3> DEFINE c == [core EXCEPT !.caps = n]
    <3>1. Frame(UnlessUpgrading(HandleStsAd(c, ad))) /\ policy' = PolicyAfterAd(core, ad)
      BY <2>8, <1>0 DEF CapNew, n, Cores
    <3>2. Good(c)  BY <1>b, <2>1
    <3> HIDE DEF c
    <3> QED BY <1>a, <2>4, <2>5, <3>1, <3>2
  <2> QED BY <2>6, <2>7, <2>8
<1>2. ASSUME NEW rows \in SUBSET Rows, CapDel(rows) \/ CapNak(rows)
      PROVE  Kept
  <2> DEFINE c == [core EXCEPT !.caps = Withdraw(core.caps, rows)]
             d == [core EXCEPT !.caps = Reject(core.caps, rows)]
             e == [d EXCEPT !.saslPending = FALSE]
  <2>1. Withdraw(core.caps, rows) \in Ledgers /\ Reject(core.caps, rows) \in Ledgers
    BY <1>0, LedgerType
  <2>2. Good(c) /\ Good(d)  BY <1>b, <2>1
  <2>3. /\ policy' = policy
        /\ Frame(RequestCapabilities(c)) \/ Frame(FailFatal(e)) \/ Frame(RequestCapabilities(d))
    BY <1>2, <1>0 DEF CapDel, CapNak, Cores
  <2> HIDE DEF c, d
  <2>4. Good(e)  BY <2>2, FlagsType DEF Good
  <2> HIDE DEF e
  <2>5. Good(RequestCapabilities(c)) /\ Good(RequestCapabilities(d)) /\ Good(FailFatal(e))
    BY <2>2, <2>4, RequestCapabilitiesType, FailFatalType DEF Good
  <2> QED BY <1>0, <1>a, <2>3, <2>5
<1>3. ASSUME NEW given \in SUBSET Rows, NEW disabled \in SUBSET Rows, CapAck(given, disabled)
      PROVE  Kept
  <2> DEFINE c == [core EXCEPT !.caps = Acknowledge(core.caps, given, disabled)]
  <2>1. Acknowledge(core.caps, given, disabled) \in Ledgers  BY <1>0, LedgerType
  <2>2. Good(c)  BY <1>b, <2>1
  <2>3. policy' = policy /\ (Frame(BeginSasl(c)) \/ Frame(EndCapabilityNegotiation(c)))
    BY <1>3, <1>0 DEF CapAck, Cores
  <2> HIDE DEF c
  <2>4. Good(BeginSasl(c)) /\ Good(EndCapabilityNegotiation(c))
    BY <2>2, SaslType, EndNegotiationType DEF Good
  <2> QED BY <1>0, <1>a, <2>3, <2>4
<1>4. ASSUME NEW payload \in Payloads, Authenticate(payload)
      PROVE  Kept
  <2>1. /\ policy' = policy
        /\ \/ Frame(FailFatal(core)) \/ Frame(ScramStep(core, payload))
           \/ Frame(Send(core, "CREDENTIAL")) \/ Frame(core)
    BY <1>4 DEF Authenticate
  <2>2. Good(ScramStep(core, payload)) /\ Good(Send(core, "CREDENTIAL"))
    BY <1>0, SaslType, SendType DEF Good, Lines
  <2> QED BY <1>0, <1>a, <1>c, <1>d, <2>1, <2>2
<1>5. ASSUME SaslSuccess
      PROVE  Kept
  <2> DEFINE c == [core EXCEPT !.saslPending = FALSE, !.saslSucceeded = TRUE]
             d == SetState(EndCapabilityNegotiation(c), "Registering")
  <2>1. c \in Cores  BY <1>0 DEF Cores
  <2>2. c.effects = core.effects /\ c.timers = core.timers  BY <1>0 DEF Cores
  <2>3. policy' = policy /\ (Frame(FailFatal(core)) \/ Frame(d))  BY <1>5 DEF SaslSuccess
  <2> HIDE DEF c
  <2>4. Good(c)  BY <2>1, <2>2 DEF Good, Quiet
  <2>5. Good(d)  BY <2>4, EndNegotiationType, SetStateType DEF Good, SessionState
  <2> HIDE DEF d
  <2> QED BY <1>0, <1>a, <1>d, <2>3, <2>5
<1>6. ASSUME Welcome \/ AuthenticationRefused \/ RegistrationRefused \/ Ping \/ Pong
      PROVE  Kept
  <2>1. /\ policy' = policy
        /\ \/ Frame(HandleWelcome(core)) \/ Frame(FailFatal(core))
           \/ Frame(Send(core, "PONG")) \/ Frame(ArmPing(core))
    BY <1>6 DEF Welcome, AuthenticationRefused, RegistrationRefused, Ping, Pong
  <2>2. Good(HandleWelcome(core)) /\ Good(Send(core, "PONG")) /\ Good(ArmPing(core))
    BY <1>0, WelcomeType, SendType, PingType DEF Good, Lines
  <2> QED BY <1>0, <1>a, <1>d, <2>1, <2>2
<1>7. ASSUME CapUnknown
      PROVE  Kept
  <2> DEFINE c == Cancel([core EXCEPT !.capEnded = TRUE], {"Capability"})
  <2>1. Good(c)  BY <1>0, FlagsType, CancelType DEF Good
  <2>2. policy' = policy /\ Frame(SendRegistration(c))  BY <1>7 DEF CapUnknown
  <2> HIDE DEF c
  <2>3. Good(SendRegistration(c))  BY <2>1, SendRegistrationType DEF Good
  <2> QED BY <1>0, <1>a, <2>2, <2>3
<1>8. ASSUME NickInUse
      PROVE  Kept
  <2> DEFINE nick == IF core.regNick = "Configured" THEN "Underscore" ELSE "Digit"
             c == [core EXCEPT !.regNick = nick]
  <2>1. nick \in {"Underscore", "Digit"}  OBVIOUS
  <2>2. policy' = policy /\ (Frame(Send(c, "NICK")) \/ Frame(FailFatal(core)))
    BY <1>8, <1>0 DEF NickInUse, Cores
  <2> HIDE DEF nick
  <2>3. c \in Cores  BY <1>0, <2>1 DEF Cores
  <2>4. c.effects = core.effects /\ c.timers = core.timers  BY <1>0 DEF Cores
  <2> HIDE DEF c
  <2>5. Good(c)  BY <2>3, <2>4 DEF Good, Quiet
  <2>6. Good(Send(c, "NICK"))  BY <2>5, SendType DEF Good, Lines
  <2> QED BY <1>0, <1>a, <1>d, <2>2, <2>6
<1>9. ASSUME ServerError
      PROVE  Kept
  <2>1. policy' = policy /\ (Frame(FailFatal(core)) \/ Frame(FailRetry(core, pipe)))
    BY <1>9 DEF ServerError
  <2>2. Good(FailRetry(core, pipe))  BY <1>0, FailRetryType DEF Good
  <2> QED BY <1>0, <1>a, <1>d, <2>1, <2>2
<1> QED BY <1>1, <1>2, <1>3, <1>4, <1>5, <1>6, <1>7, <1>8, <1>9 DEF HandleFrame, Kept

-----------------------------------------------------------------------------
(* What the other handlers leave behind *)

LEMMA HarmlessCalm ==
    ASSUME NEW c \in Cores, NEW p, c.effects \in Seq(Harmless), BackoffIsAlone(c, p)
    PROVE  Calm(c, p)
<1>1. \A k \in DOMAIN c.effects : c.effects[k] \in Harmless  OBVIOUS
<1>2. \A k \in DOMAIN c.effects : c.effects[k].op \in {"Write", "Shutdown"}
  BY <1>1 DEF Harmless
<1> QED BY <1>2 DEF Calm, DialIsNext, SettleFollowsStop

LEMMA QuietCalm == ASSUME NEW c \in Quiet, NEW p PROVE Calm(c, p)
BY HarmlessCalm DEF Quiet, BackoffIsAlone

LEMMA DialCalm ==
    ASSUME NEW c \in Cores, NEW p, NEW e \in Effects, e.op = "Connect", c.effects = <<e>>,
           "Reconnect" \notin c.timers, c.state \in AwaitingSocket
    PROVE  Calm(c, p)
<1>1. DOMAIN c.effects = {1} /\ c.effects[1].op = "Connect"  OBVIOUS
<1> QED BY <1>1 DEF Calm, BackoffIsAlone, DialIsNext, SettleFollowsStop

LEMMA ScheduleCalm ==
    ASSUME NEW c \in Cores, NEW p, p \notin InFlight, BackoffIsAlone(c, p)
    PROVE  /\ BackoffIsAlone(ScheduleReconnect(c), p)
           /\ ScheduleReconnect(c).effects = c.effects
           /\ ScheduleReconnect(c).intent = c.intent
<1>1. CASE ~ cfg.reconnect
  <2>1. ScheduleReconnect(c) = SetState(c, "Failed")  BY <1>1 DEF ScheduleReconnect
  <2>2. /\ SetState(c, "Failed").timers = c.timers /\ SetState(c, "Failed").effects = c.effects
        /\ SetState(c, "Failed").intent = c.intent
    BY DEF SetState, Cores
  <2> QED BY <1>1, <2>1, <2>2 DEF BackoffIsAlone
<1>2. CASE cfg.reconnect /\ c.state = "Reconnecting"
  BY <1>2 DEF ScheduleReconnect
<1>3. CASE cfg.reconnect /\ c.state # "Reconnecting"
  <2> DEFINE d == CountScheduledReconnect(c)
             e == SetState(d, "Reconnecting")
  <2>1. d \in Cores /\ d.effects = c.effects /\ d.intent = c.intent
    BY CountType DEF CountScheduledReconnect, Cores
  <2> HIDE DEF d
  <2>2. e \in Cores  BY <2>1, SetStateType DEF SessionState
  <2>3. e.effects = c.effects /\ e.intent = c.intent /\ e.state = "Reconnecting"
    BY <2>1 DEF SetState, Cores
  <2>4. ScheduleReconnect(c) = Arm(e, "Reconnect")  BY <1>3 DEF ScheduleReconnect, d
  <2> HIDE DEF e
  <2>5. /\ Arm(e, "Reconnect").effects = e.effects /\ Arm(e, "Reconnect").intent = e.intent
        /\ Arm(e, "Reconnect").state = e.state
    BY <2>2 DEF Arm, Cores
  <2> QED BY <1>3, <2>3, <2>4, <2>5 DEF BackoffIsAlone
<1> QED BY <1>1, <1>2, <1>3

\* A failure at rest: the session waits for the shutdown, or for its backoff.
LEMMA FailRetryCalm ==
    ASSUME NEW c \in Cores, NEW p, c.effects = <<>>, BackoffIsAlone(c, p)
    PROVE  Calm(FailRetry(c, p), p)
<1>0. c.effects \in Seq(Harmless)  OBVIOUS
<1>1. CASE p \in InFlight
  <2>1. c \in Quiet  BY <1>0, <1>1 DEF Quiet, BackoffIsAlone
  <2> QED BY <1>1, <2>1, FailRetryType, QuietCalm
<1>2. CASE p \notin InFlight
  <2> DEFINE d == CancelPing(Cancel(c, {"Registration"}))
  <2>1. Cancel(c, {"Registration"}) \in Cores  BY CancelType
  <2>2. d \in Cores  BY <2>1, PingType
  <2>3. /\ d.effects = c.effects /\ d.timers \subseteq c.timers /\ d.state = c.state
    BY DEF CancelPing, Cancel, Cores
  <2>4. FailRetry(c, p) = ScheduleReconnect(d)  BY <1>2 DEF FailRetry
  <2> HIDE DEF d
  <2>5. BackoffIsAlone(d, p)  BY <2>3 DEF BackoffIsAlone
  <2> QED BY <1>0, <1>2, <2>2, <2>3, <2>4, <2>5, ScheduleCalm, ScheduleReconnectType, HarmlessCalm
<1> QED BY <1>1, <1>2

\* A disconnect reported while no backoff runs: an STS upgrade dials, anything else
\* queues nothing, and a stop stays a stop.
LEMMA DisconnectedCalm ==
    ASSUME NEW c \in Cores, c.effects = <<>>, "Reconnect" \notin c.timers,
           cfg \in Configs, policy \in Policies
    PROVE  LET d == OnDisconnected(c)
           IN \/ /\ c.intent = "Unexpected" /\ d.state = "StsUpgrading"
                 /\ "Reconnect" \notin d.timers
                 /\ \E e \in Effects : e.op = "Connect" /\ d.effects = <<e>>
              \/ /\ d.effects = <<>> /\ BackoffIsAlone(d, "Disconnected")
                 /\ c.intent = "Stopping" =>
                       /\ d.intent = "Stopping" /\ "Reconnect" \notin d.timers
                       /\ c.state \in {"Closing", "Idle"} => d.state \in {"Closing", "Idle"}
<1>1. CASE FinishesStsUpgrade(c)
  <2> DEFINE r == ResetForConnection(c)
  <2>1. /\ r \in Cores /\ r.effects = <<>> /\ "Reconnect" \notin r.timers /\ r.state = c.state
    BY ResetType
  <2>2. OnDisconnected(c) = ConnectTransport(r)  BY <1>1 DEF OnDisconnected
  <2> HIDE DEF r
  <2>3. /\ ConnectTransport(r).effects = Append(r.effects, Connect(r.port, r.tls))
        /\ ConnectTransport(r).state = r.state /\ ConnectTransport(r).timers = r.timers
    BY <2>1 DEF ConnectTransport, Push, Cores
  <2>4. Connect(r.port, r.tls) \in Effects /\ Connect(r.port, r.tls).op = "Connect"
    BY <2>1, EffectTypes DEF Cores, Connect
  <2>5. Append(r.effects, Connect(r.port, r.tls)) = <<Connect(r.port, r.tls)>>  BY <2>1
  <2> QED BY <1>1, <2>1, <2>2, <2>3, <2>4, <2>5 DEF FinishesStsUpgrade
<1>2. CASE ~ FinishesStsUpgrade(c)
  <2> DEFINE d == TakeStsDuration(c)
  <2>1. /\ d \in Cores /\ d.effects = <<>> /\ "Reconnect" \notin d.timers
        /\ d.state = c.state /\ d.intent = c.intent /\ d.intent \in DisconnectIntent
    BY StsStepsType DEF Cores
  <2>2. "Disconnected" \notin InFlight  BY DEF InFlight
  <2>3. CASE c.intent = "Stopping"
    <3>1. OnDisconnected(c) = IF d.state = "Closing" THEN SetState(d, "Idle") ELSE d
      BY <1>2, <2>1, <2>3 DEF OnDisconnected
    <3> HIDE DEF d
    <3>2. /\ SetState(d, "Idle").effects = d.effects /\ SetState(d, "Idle").timers = d.timers
          /\ SetState(d, "Idle").intent = d.intent /\ SetState(d, "Idle").state = "Idle"
      BY <2>1 DEF SetState, Cores
    <3> QED BY <2>1, <2>3, <3>1, <3>2 DEF BackoffIsAlone
  <2>4. CASE c.intent = "Reconnecting"
    <3> DEFINE e == [d EXCEPT !.intent = "Unexpected"]
    <3>1. OnDisconnected(c) = ScheduleReconnect(e)  BY <1>2, <2>1, <2>4 DEF OnDisconnected
    <3> HIDE DEF d
    <3>2. e \in Cores  BY <2>1, IntentType DEF DisconnectIntent
    <3>3. e.effects = d.effects /\ e.timers = d.timers  BY <2>1 DEF Cores
    <3> HIDE DEF e
    <3>4. BackoffIsAlone(e, "Disconnected")  BY <2>1, <3>3 DEF BackoffIsAlone
    <3> QED BY <2>1, <2>2, <2>4, <3>1, <3>2, <3>3, <3>4, ScheduleCalm
  <2>5. CASE c.intent = "Unexpected"
    <3> DEFINE e == CancelPing(Cancel(d, {"Registration"}))
    <3>1. OnDisconnected(c) = ScheduleReconnect(e)
      BY <1>2, <2>1, <2>2, <2>5 DEF OnDisconnected, FailRetry
    <3> HIDE DEF d
    <3>2. Cancel(d, {"Registration"}) \in Cores  BY <2>1, CancelType
    <3>3. e \in Cores  BY <3>2, PingType
    <3>4. e.effects = d.effects /\ e.timers \subseteq d.timers
      BY <2>1 DEF CancelPing, Cancel, Cores
    <3> HIDE DEF e
    <3>5. BackoffIsAlone(e, "Disconnected")  BY <2>1, <3>4 DEF BackoffIsAlone
    <3> QED BY <2>1, <2>2, <2>5, <3>1, <3>3, <3>4, <3>5, ScheduleCalm
  <2> QED BY <2>1, <2>3, <2>4, <2>5 DEF DisconnectIntent
<1> QED BY <1>1, <1>2

-----------------------------------------------------------------------------
(* One lemma per kind of step *)

LEMMA LockedStep ==
    ASSUME IInv, NEW c \in Cores, Calm(c, pipe), Locked(c), policy' \in Policies
    PROVE  IInv'
<1>1. /\ core' = c /\ chunk = 0 /\ chunk' = 0
      /\ cfg' = cfg /\ pipe' = pipe /\ pipeTls' = pipeTls
  BY DEF Locked, Quiescent
<1>2. TypeOK'  BY <1>1 DEF IInv, TypeOK
<1>3. Calm(core, pipe)'
  BY <1>1 DEF Calm, BackoffIsAlone, DialIsNext, SettleFollowsStop
<1> QED BY <1>1, <1>2, <1>3 DEF IInv

LEMMA HarmlessQueue ==
    /\ <<>> \in Seq(Harmless)
    /\ \A q \in Seq(Harmless), line \in Lines : Append(q, Write(line)) \in Seq(Harmless)
<1>1. <<>> \in Seq(Harmless)  OBVIOUS
<1>2. ASSUME NEW q \in Seq(Harmless), NEW e \in Harmless PROVE Append(q, e) \in Seq(Harmless)
  OBVIOUS
<1> QED BY <1>1, <1>2, EffectTypes

LEMMA UserStep == ASSUME IInv, User PROVE IInv'
<1>0. core \in Cores /\ cfg \in Configs /\ cfg \in ConfigType /\ policy \in Policies
  BY ConfigsAssumption DEF IInv, TypeOK
<1>1. core.effects = <<>> /\ chunk = 0
  BY DEF User, Start, Stop, Quit, NotifyReachable, Locked, Quiescent
<1>2. PolicyAfterLookup \in Policies /\ RefreshedPolicy(core) \in Policies
  BY <1>0, StsStepsType
<1>3. CASE Start
  <2>1. "Reconnect" \notin core.timers  BY <1>3 DEF Start, IInv, Calm, BackoffIsAlone
  <2>2. CASE ~ cfg.complete
    <3>1. Locked(FailFatal(core)) /\ policy' = policy  BY <1>3, <2>2 DEF Start
    <3>2. core \in Quiet  BY <1>0, <1>1, <2>1, HarmlessQueue DEF Quiet
    <3> QED BY <1>0, <3>1, <3>2, FailFatalType, QuietCalm, LockedStep
  <2>3. CASE cfg.complete
    <3> DEFINE c == [core EXCEPT !.intent = "Unexpected", !.attempt = 0,
                                 !.port = cfg.port, !.tls = cfg.tls, !.stsDuration = 0]
               d == ApplyCachedSts(c)
               e == ResetForConnection(d)
               f == SetState(e, "Connecting")
    <3>1. Locked(ConnectTransport(f)) /\ policy' = PolicyAfterLookup
      BY <1>3, <2>3 DEF Start
    <3>2. 0 \in 0 .. BackoffSteps /\ cfg.port \in Nat /\ cfg.tls \in BOOLEAN
      BY <1>0, BoundsAssumption DEF ConfigType
    <3>3. c \in Cores  BY <1>0, <3>2 DEF Cores, DisconnectIntent
    <3>4. c.effects = <<>> /\ "Reconnect" \notin c.timers  BY <1>0, <1>1, <2>1 DEF Cores
    <3> HIDE DEF c
    <3>5. d \in Cores /\ d.effects = <<>> /\ "Reconnect" \notin d.timers
      BY <1>0, <3>3, <3>4, StsStepsType
    <3> HIDE DEF d
    <3>6. e \in Cores /\ e.effects = <<>> /\ "Reconnect" \notin e.timers
      BY <1>0, <3>5, ResetType
    <3> HIDE DEF e
    <3>7. f \in Cores  BY <3>6, SetStateType DEF SessionState
    <3>8. f.effects = <<>> /\ "Reconnect" \notin f.timers /\ f.state = "Connecting"
      BY <3>6 DEF SetState, Cores
    <3> HIDE DEF f
    <3>9. /\ ConnectTransport(f).effects = Append(f.effects, Connect(f.port, f.tls))
          /\ ConnectTransport(f).state = f.state /\ ConnectTransport(f).timers = f.timers
      BY <3>7 DEF ConnectTransport, Push, Cores
    <3>10. Connect(f.port, f.tls) \in Effects /\ Connect(f.port, f.tls).op = "Connect"
      BY <3>7, EffectTypes DEF Cores, Connect
    <3>11. ConnectTransport(f).effects = <<Connect(f.port, f.tls)>>  BY <3>8, <3>9
    <3>12. ConnectTransport(f) \in Cores  BY <3>7, ConnectTransportType
    <3>13. Calm(ConnectTransport(f), pipe)
      BY <3>8, <3>9, <3>10, <3>11, <3>12, DialCalm DEF AwaitingSocket
    <3> QED BY <1>2, <3>1, <3>12, <3>13, LockedStep
  <2> QED BY <2>2, <2>3
<1>4. CASE Stop \/ Quit
  <2>1. PICK b \in {core, Send(core, "QUIT")} : Locked(StopCore(b)) /\ policy' = RefreshedPolicy(core)
    BY <1>4 DEF Stop, Quit
  <2>2. b \in Cores  BY <1>0, SendType DEF Lines
  <2>3. b.effects \in Seq(Harmless)
    <3>1. core.effects \in Seq(Harmless)  BY <1>1
    <3>2. Send(core, "QUIT").effects = Append(core.effects, Write("QUIT"))
      BY <1>0 DEF Send, Push, Cores
    <3>3. Append(core.effects, Write("QUIT")) \in Seq(Harmless)
      BY <3>1, HarmlessQueue DEF Lines
    <3> QED BY <3>1, <3>2, <3>3
  <2> DEFINE s == StopCore(b)
  <2>4. /\ s \in Cores /\ "Reconnect" \notin s.timers /\ s.intent = "Stopping"
        /\ s.state \in {"Idle", "Closing"}
        /\ \/ s.effects = b.effects
           \/ s.effects = Append(Append(b.effects, Shutdown), SettleStop)
    BY <1>0, <2>2, StopType
  <2> HIDE DEF s
  <2>5. \A k \in DOMAIN s.effects : s.effects[k].op # "Connect"
    <3>1. \A k \in DOMAIN b.effects : b.effects[k] \in Harmless  BY <2>3
    <3>2. \A k \in DOMAIN b.effects : b.effects[k].op # "Connect"  BY <3>1 DEF Harmless
    <3>3. Shutdown.op # "Connect" /\ SettleStop.op # "Connect"  BY DEF Shutdown, SettleStop
    <3>4. ASSUME NEW q \in Seq(Effects), NEW x \in Effects, x.op # "Connect",
                 \A k \in DOMAIN q : q[k].op # "Connect"
          PROVE  \A k \in DOMAIN Append(q, x) : Append(q, x)[k].op # "Connect"
      BY <3>4
    <3>5. b.effects \in Seq(Effects) /\ Append(b.effects, Shutdown) \in Seq(Effects)
      BY <2>2, EffectTypes DEF Cores
    <3>6. \A k \in DOMAIN Append(b.effects, Shutdown) :
             Append(b.effects, Shutdown)[k].op # "Connect"
      BY <3>2, <3>3, <3>4, <3>5, EffectTypes
    <3>7. \A k \in DOMAIN Append(Append(b.effects, Shutdown), SettleStop) :
             Append(Append(b.effects, Shutdown), SettleStop)[k].op # "Connect"
      BY <3>3, <3>4, <3>5, <3>6, EffectTypes
    <3> QED BY <2>4, <3>2, <3>7
  <2>6. Calm(s, pipe)
    BY <2>4, <2>5 DEF Calm, BackoffIsAlone, DialIsNext, SettleFollowsStop
  <2> QED BY <1>2, <2>1, <2>4, <2>6, LockedStep DEF s
<1>5. CASE NotifyReachable
  <2> DEFINE c == BeginReconnectAttempt(core)
  <2>1. Locked(c) /\ policy' = PolicyAfterLookup  BY <1>5 DEF NotifyReachable
  <2>2. PICK e \in Effects : e.op = "Connect" /\ c.effects = Append(core.effects, e)
    BY <1>0, ReconnectAttemptType
  <2>3. c \in Cores /\ c.state = "Connecting" /\ "Reconnect" \notin c.timers
    BY <1>0, ReconnectAttemptType
  <2>4. c.effects = <<e>>  BY <1>1, <2>2
  <2> HIDE DEF c
  <2>5. Calm(c, pipe)  BY <2>2, <2>3, <2>4, DialCalm DEF AwaitingSocket
  <2> QED BY <1>2, <2>1, <2>3, <2>5, LockedStep
<1> QED BY <1>3, <1>4, <1>5 DEF User

LEMMA TimerStep == ASSUME IInv, NEW slot \in TimerSlot, TimerFired(slot) PROVE IInv'
<1> DEFINE c == Cancel(core, {slot})
<1>0. core \in Cores /\ cfg \in Configs /\ policy \in Policies  BY DEF IInv, TypeOK
<1>1. core.effects = <<>> /\ BackoffIsAlone(core, pipe)
  BY DEF TimerFired, Locked, Quiescent, IInv, Calm
<1>2. c \in Cores  BY <1>0, CancelType
<1>3. c.effects = core.effects /\ c.timers = core.timers \ {slot} /\ c.state = core.state
  BY <1>0 DEF Cancel, Cores
<1>4. PolicyAfterLookup \in Policies  BY <1>0, StsStepsType
<1>5. CASE slot = "Reconnect"
  <2>1. /\ Locked(IF c.state = "Reconnecting" THEN BeginReconnectAttempt(c) ELSE c)
        /\ policy' \in {policy, PolicyAfterLookup}
    BY <1>5 DEF TimerFired
  <2> HIDE DEF c
  <2>2. CASE c.state = "Reconnecting"
    <3> DEFINE d == BeginReconnectAttempt(c)
    <3>1. PICK e \in Effects : e.op = "Connect" /\ d.effects = Append(c.effects, e)
      BY <1>0, <1>2, ReconnectAttemptType
    <3>2. d \in Cores /\ d.state = "Connecting" /\ "Reconnect" \notin d.timers
      BY <1>0, <1>2, ReconnectAttemptType
    <3>3. d.effects = <<e>>  BY <1>1, <1>3, <3>1
    <3>4. Locked(d)  BY <2>1, <2>2
    <3> HIDE DEF d
    <3>5. Calm(d, pipe)  BY <3>1, <3>2, <3>3, DialCalm DEF AwaitingSocket
    <3> QED BY <1>0, <1>4, <2>1, <3>2, <3>4, <3>5, LockedStep
  <2>3. CASE c.state # "Reconnecting"
    <3>1. c.effects \in Seq(Harmless) /\ BackoffIsAlone(c, pipe)
      BY <1>1, <1>3, <1>5, HarmlessQueue DEF BackoffIsAlone
    <3>2. Calm(c, pipe)  BY <1>2, <3>1, HarmlessCalm
    <3> QED BY <1>0, <1>2, <1>4, <2>1, <2>3, <3>2, LockedStep
  <2> QED BY <2>2, <2>3
<1>6. CASE slot # "Reconnect"
  <2>1. policy' = policy /\ \/ Locked(OnCapabilityTimeout(c))
                            \/ Locked(OnRegistrationTimeout(c, pipe))
                            \/ Locked(OnPingFired(c, pipe))
    BY <1>6 DEF TimerFired
  <2> HIDE DEF c
  <2>2. BackoffIsAlone(c, pipe)  BY <1>1, <1>3 DEF BackoffIsAlone
  <2>3. c.effects = <<>> /\ c.effects \in Seq(Harmless)  BY <1>1, <1>3
  <2>4. Calm(c, pipe) /\ Calm(FailRetry(c, pipe), pipe) /\ FailRetry(c, pipe) \in Cores
    BY <1>2, <2>2, <2>3, HarmlessCalm, FailRetryCalm, FailRetryType
  <2>5. OnCapabilityTimeout(c) \in Cores /\ Calm(OnCapabilityTimeout(c), pipe)
    <3> DEFINE d == OnCapabilityTimeout(c)
    <3>1. /\ d \in Cores /\ d.state = c.state /\ d.timers \subseteq c.timers
          /\ d.effects = c.effects \/ d.effects = Append(c.effects, Write("CAP END"))
      BY <1>2, CapabilityTimeoutType
    <3> HIDE DEF d
    <3>2. Append(c.effects, Write("CAP END")) \in Seq(Harmless)
      BY <2>3, HarmlessQueue DEF Lines
    <3>3. BackoffIsAlone(d, pipe)  BY <2>2, <3>1 DEF BackoffIsAlone
    <3>4. d.effects \in Seq(Harmless)  BY <2>3, <3>1, <3>2
    <3>5. d \in Cores /\ Calm(d, pipe)  BY <3>1, <3>3, <3>4, HarmlessCalm
    <3> QED BY <3>5 DEF d
  <2>6. OnRegistrationTimeout(c, pipe) \in {c, FailRetry(c, pipe)}
    BY DEF OnRegistrationTimeout
  <2>7. OnPingFired(c, pipe) \in Cores /\ Calm(OnPingFired(c, pipe), pipe)
    <3>1. OnPingFired(c, pipe) \in Cores  BY <1>2, PingFiredType
    <3>2. CASE c.state = "Registered"
      <4>1. "Reconnect" \notin c.timers  BY <2>2, <3>2 DEF BackoffIsAlone
      <4>2. c \in Quiet  BY <1>2, <2>3, <4>1 DEF Quiet
      <4>3. CASE pipe \in InFlight  BY <1>2, <4>2, <4>3, PingFiredType, QuietCalm
      <4>4. CASE c.ping # "Probing"
        <5> DEFINE d == OnPingFired(c, "Connected")
        <5>1. OnPingFired(c, pipe) = d
          BY <1>2, <4>4 DEF OnPingFired, Cores
        <5>2. "Connected" \in InFlight  BY DEF InFlight
        <5> QED BY <1>2, <4>2, <5>1, <5>2, PingFiredType, QuietCalm
      <4>5. CASE c.ping = "Probing"
        <5>1. OnPingFired(c, pipe) = FailRetry(c, pipe)  BY <3>2, <4>5 DEF OnPingFired
        <5> QED BY <2>4, <3>1, <5>1
      <4> QED BY <3>1, <4>3, <4>4, <4>5
    <3>3. CASE c.state # "Registered"
      <4>1. OnPingFired(c, pipe) = c  BY <3>3 DEF OnPingFired
      <4> QED BY <1>2, <2>4, <4>1
    <3> QED BY <3>2, <3>3
  <2> QED BY <1>0, <1>2, <2>1, <2>4, <2>5, <2>6, <2>7, LockedStep
<1> QED BY <1>5, <1>6

LEMMA NetStep == ASSUME IInv, Net PROVE IInv'
<1>0. core \in Cores /\ cfg \in Configs /\ policy \in Policies /\ pipe \in TransportState
  BY DEF IInv, TypeOK
<1>1. chunk = 0 /\ core.effects = <<>> /\ pipe \in InFlight
  BY DEF Net, NetConnected, NetEncrypted, NetClosed, NetFailed, BytesReceived, Quiescent,
         PipeOpen, InFlight
<1>2. "Reconnect" \notin core.timers  BY <1>1 DEF IInv, Calm, BackoffIsAlone
<1>3. core \in Quiet  BY <1>0, <1>1, <1>2, HarmlessQueue DEF Quiet
<1>a. ASSUME core' \in Cores, Calm(core', pipe'), chunk' = chunk, cfg' = cfg,
             pipe' \in TransportState, pipeTls' = pipeTls, policy' \in Policies
      PROVE  IInv'
  <2>1. TypeOK'  BY <1>a DEF IInv, TypeOK
  <2>2. Calm(core, pipe)'
    BY <1>a DEF Calm, BackoffIsAlone, DialIsNext, SettleFollowsStop
  <2> QED BY <1>1, <1>a, <2>1, <2>2 DEF IInv
<1>4. CASE NetConnected \/ NetEncrypted
  <2>1. core' \in {core, BeginCapabilityNegotiation(core)}
    BY <1>4 DEF NetConnected, NetEncrypted, OnConnected, OnEncrypted
  <2>2. core' \in Quiet  BY <1>0, <1>3, <2>1, BeginNegotiationType
  <2>3. core' \in Cores /\ Calm(core', pipe')  BY <2>2, QuietCalm DEF Quiet
  <2>4. /\ chunk' = chunk /\ cfg' = cfg /\ pipe' \in TransportState
        /\ pipeTls' = pipeTls /\ policy' = policy
    BY <1>4 DEF NetConnected, NetEncrypted, TransportState
  <2> QED BY <1>0, <1>a, <2>3, <2>4
<1>5. CASE NetClosed
  <2> DEFINE d == OnDisconnected(core)
  <2>1. /\ core' = d /\ pipe' = "Disconnected" /\ policy' = PolicyAfterDisconnect(core)
        /\ chunk' = chunk /\ cfg' = cfg /\ pipeTls' = pipeTls
    BY <1>5 DEF NetClosed
  <2>2. d \in Cores /\ policy' \in Policies  BY <1>0, <2>1, DisconnectedType
  <2>3. \/ /\ d.state = "StsUpgrading" /\ "Reconnect" \notin d.timers
           /\ \E e \in Effects : e.op = "Connect" /\ d.effects = <<e>>
        \/ d.effects = <<>> /\ BackoffIsAlone(d, "Disconnected")
    BY <1>0, <1>1, <1>2, DisconnectedCalm
  <2> HIDE DEF d
  <2>4. Calm(d, "Disconnected")
    BY <2>2, <2>3, DialCalm, HarmlessCalm, HarmlessQueue DEF AwaitingSocket
  <2>5. "Disconnected" \in TransportState  BY DEF TransportState
  <2> QED BY <1>a, <2>1, <2>2, <2>4, <2>5
<1>6. CASE NetFailed
  <2>1. /\ core' \in {core, FailRetry(core, "Failed")} /\ pipe' = "Failed" /\ policy' = policy
        /\ chunk' = chunk /\ cfg' = cfg /\ pipeTls' = pipeTls
    BY <1>6 DEF NetFailed
  <2>2. core \in Cores /\ FailRetry(core, "Failed") \in Cores  BY <1>0, FailRetryType
  <2>3. BackoffIsAlone(core, "Failed")  BY <1>2 DEF BackoffIsAlone
  <2>4. Calm(core, "Failed") /\ Calm(FailRetry(core, "Failed"), "Failed")
    BY <1>0, <1>1, <1>3, <2>3, QuietCalm, FailRetryCalm
  <2>5. "Failed" \in TransportState  BY DEF TransportState
  <2> QED BY <1>0, <1>a, <2>1, <2>2, <2>4, <2>5
<1>7. CASE BytesReceived
  <2>1. /\ core' \in {core, ArmPing(core)} /\ chunk' = MaxFrames
        /\ cfg' = cfg /\ pipe' = pipe /\ pipeTls' = pipeTls /\ policy' = policy
    BY <1>7 DEF BytesReceived
  <2>2. core' \in Quiet  BY <1>0, <1>3, <2>1, PingType
  <2>3. core' \in Cores /\ Calm(core', pipe')  BY <2>2, QuietCalm DEF Quiet
  <2>4. TypeOK'  BY <2>1, <2>3, BoundsAssumption DEF IInv, TypeOK
  <2>5. Calm(core, pipe)'
    BY <2>1, <2>3 DEF Calm, BackoffIsAlone, DialIsNext, SettleFollowsStop
  <2> QED BY <1>1, <2>1, <2>2, <2>4, <2>5 DEF IInv
<1> QED BY <1>4, <1>5, <1>6, <1>7 DEF Net

\* What is left of the queue: the same calls, one place further on.
LEMMA Tails ==
    ASSUME NEW q \in Seq(Effects), q # <<>>
    PROVE  /\ Tail(q) \in Seq(Effects)
           /\ \A k \in DOMAIN Tail(q) : k + 1 \in DOMAIN q /\ Tail(q)[k] = q[k + 1] /\ k + 1 # 1
OBVIOUS

LEMMA EffectStep == ASSUME IInv, RunEffect PROVE IInv'
<1>0. core \in Cores /\ cfg \in Configs /\ policy \in Policies /\ pipe \in TransportState
  BY DEF IInv, TypeOK
<1>1. chunk = 0 /\ core.effects # <<>> /\ core.effects \in Seq(Effects)
  BY <1>0 DEF RunEffect, RunWrite, RunConnect, RunShutdown, RunSettleStop, Running, Cores
<1>2. Calm(core, pipe)  BY DEF IInv
<1> DEFINE rest == Tail(core.effects)
<1>3. /\ rest \in Seq(Effects)
      /\ \A k \in DOMAIN rest : /\ k + 1 \in DOMAIN core.effects
                                /\ rest[k] = core.effects[k + 1] /\ k + 1 # 1
  BY <1>1, Tails
<1>4. /\ Popped \in Cores /\ Popped.effects = rest /\ Popped.timers = core.timers
      /\ Popped.state = core.state /\ Popped.intent = core.intent
  <2>1. Popped \in Cores  BY <1>0, <1>3 DEF Popped, Cores
  <2> QED BY <1>0, <2>1 DEF Popped, Cores
<1>5. \A k \in DOMAIN rest :
         /\ rest[k].op # "Connect"
         /\ rest[k].op = "SettleStop" => /\ "Reconnect" \notin core.timers
                                         /\ core.intent = "Stopping"
                                         /\ core.state \in {"Closing", "Idle"}
  BY <1>2, <1>3 DEF Calm, DialIsNext, SettleFollowsStop
<1> HIDE DEF rest
<1>a. ASSUME core' \in Cores, Calm(core', pipe'), chunk' = chunk, cfg' = cfg,
             pipe' \in TransportState, pipeTls' \in BOOLEAN, policy' \in Policies
      PROVE  IInv'
  <2>1. TypeOK'  BY <1>a DEF IInv, TypeOK
  <2>2. Calm(core, pipe)'
    BY <1>a DEF Calm, BackoffIsAlone, DialIsNext, SettleFollowsStop
  <2> QED BY <1>1, <1>a, <2>1, <2>2 DEF IInv
<1>b. pipeTls \in BOOLEAN  BY DEF IInv, TypeOK
<1>6. ASSUME NEW p, "Reconnect" \in core.timers => p \notin InFlight PROVE Calm(Popped, p)
  BY <1>2, <1>4, <1>5, <1>6 DEF Calm, BackoffIsAlone, DialIsNext, SettleFollowsStop
<1>7. CASE RunWrite
  <2>1. core' = Popped /\ UNCHANGED <<cfg, chunk, pipe, pipeTls, policy>>  BY <1>7 DEF RunWrite
  <2>2. Calm(Popped, pipe)  BY <1>2, <1>6 DEF Calm, BackoffIsAlone
  <2> QED BY <1>0, <1>a, <1>b, <1>4, <2>1, <2>2
<1>8. CASE RunConnect
  <2>1. /\ core' = Popped /\ UNCHANGED <<cfg, chunk, policy>>
        /\ \/ pipe' = pipe /\ pipeTls' = pipeTls
           \/ pipe' = "Connecting" /\ pipeTls' = Head(core.effects).tls
    BY <1>8 DEF RunConnect
  <2>2. 1 \in DOMAIN core.effects /\ Head(core.effects) = core.effects[1]
        /\ core.effects[1] \in Effects
    BY <1>1
  <2>3. core.effects[1].op = "Connect"  BY <1>8, <2>2 DEF RunConnect, Running
  <2>4. Head(core.effects).tls \in BOOLEAN
    <3>1. core.effects[1] \in [op : {"Connect"}, port : Nat, tls : BOOLEAN]
      BY <2>2, <2>3 DEF Effects, Shutdown, SettleStop
    <3> QED BY <2>2, <3>1
  <2>5. core.state \in AwaitingSocket  BY <1>2, <2>2, <2>3 DEF Calm, DialIsNext
  <2>6. "Reconnect" \notin core.timers
    BY <1>2, <2>5 DEF Calm, BackoffIsAlone, AwaitingSocket
  <2>7. Calm(Popped, pipe')  BY <1>6, <2>6
  <2>8. "Connecting" \in TransportState  BY DEF TransportState
  <2> QED BY <1>0, <1>a, <1>b, <1>4, <2>1, <2>4, <2>7, <2>8
<1>9. CASE RunShutdown
  <2>1. CASE pipe \notin InFlight
    <3>1. core' = Popped /\ UNCHANGED <<cfg, chunk, pipe, pipeTls, policy>>
      BY <1>9, <2>1 DEF RunShutdown
    <3>2. Calm(Popped, pipe)  BY <1>6, <2>1
    <3> QED BY <1>0, <1>a, <1>b, <1>4, <3>1, <3>2
  <2>2. CASE pipe \in InFlight
    <3> DEFINE b == [core EXCEPT !.effects = <<>>]
               c == OnDisconnected(b)
               d == [c EXCEPT !.effects = c.effects \o rest]
    <3>1. /\ b \in Cores /\ b.effects = <<>> /\ b.timers = core.timers
          /\ b.intent = core.intent /\ b.state = core.state
      <4>1. <<>> \in Seq(Effects)  OBVIOUS
      <4>2. b \in Cores  BY <1>0, <4>1 DEF Cores
      <4> QED BY <1>0, <4>2 DEF Cores
    <3> HIDE DEF b
    <3>2. c \in Cores  BY <1>0, <3>1, DisconnectedType
    <3>3. /\ pipe' = "Disconnected" /\ core' = d /\ policy' = PolicyAfterDisconnect(core)
          /\ UNCHANGED <<cfg, chunk, pipeTls>>
      BY <1>9, <2>2, <3>2 DEF RunShutdown, b, rest, Cores
    <3>4. policy' \in Policies  BY <1>0, <3>3, DisconnectedType
    <3>5. "Reconnect" \notin core.timers  BY <1>2, <2>2 DEF Calm, BackoffIsAlone
    <3>6. \/ /\ b.intent = "Unexpected" /\ c.state = "StsUpgrading"
             /\ "Reconnect" \notin c.timers
             /\ \E e \in Effects : e.op = "Connect" /\ c.effects = <<e>>
          \/ /\ c.effects = <<>> /\ BackoffIsAlone(c, "Disconnected")
             /\ b.intent = "Stopping" =>
                   /\ c.intent = "Stopping" /\ "Reconnect" \notin c.timers
                   /\ b.state \in {"Closing", "Idle"} => c.state \in {"Closing", "Idle"}
      BY <1>0, <3>1, <3>5, DisconnectedCalm
    <3> HIDE DEF c
    <3>7. c.effects \in Seq(Effects) /\ c.effects \o rest \in Seq(Effects)
      BY <1>3, <3>2 DEF Cores
    <3>8. d \in Cores  BY <3>2, <3>7 DEF Cores
    <3>9. /\ d.effects = c.effects \o rest /\ d.timers = c.timers
          /\ d.state = c.state /\ d.intent = c.intent
      BY <3>2 DEF Cores
    <3> HIDE DEF d
    <3>10. Calm(d, "Disconnected")
      <4>1. CASE c.effects = <<>> /\ BackoffIsAlone(c, "Disconnected")
                 /\ (b.intent = "Stopping" =>
                      /\ c.intent = "Stopping" /\ "Reconnect" \notin c.timers
                      /\ b.state \in {"Closing", "Idle"} => c.state \in {"Closing", "Idle"})
        <5>1. d.effects = rest  BY <1>3, <3>9, <4>1
        <5> QED BY <1>5, <3>1, <3>9, <4>1, <5>1
                DEF Calm, BackoffIsAlone, DialIsNext, SettleFollowsStop
      <4>2. CASE b.intent = "Unexpected" /\ c.state = "StsUpgrading"
                 /\ "Reconnect" \notin c.timers
                 /\ \E e \in Effects : e.op = "Connect" /\ c.effects = <<e>>
        <5>1. PICK e \in Effects : e.op = "Connect" /\ c.effects = <<e>>  BY <4>2
        <5>2. \A k \in DOMAIN rest : rest[k].op \notin {"Connect", "SettleStop"}
          BY <1>5, <3>1, <4>2
        <5>3. \A k \in DOMAIN (<<e>> \o rest) :
                 \/ k = 1 /\ (<<e>> \o rest)[k] = e
                 \/ k - 1 \in DOMAIN rest /\ (<<e>> \o rest)[k] = rest[k - 1]
          BY <1>3
        <5>4. d.effects = <<e>> \o rest  BY <3>9, <5>1
        <5>5. \A k \in DOMAIN d.effects :
                 /\ d.effects[k].op = "Connect" => k = 1
                 /\ d.effects[k].op # "SettleStop"
          BY <5>1, <5>2, <5>3, <5>4
        <5> QED BY <3>9, <4>2, <5>5
                DEF Calm, BackoffIsAlone, DialIsNext, SettleFollowsStop, AwaitingSocket
      <4> QED BY <3>6, <4>1, <4>2
    <3>11. "Disconnected" \in TransportState  BY DEF TransportState
    <3> QED BY <1>a, <1>b, <3>3, <3>4, <3>8, <3>10, <3>11
  <2> QED BY <2>1, <2>2
<1>10. CASE RunSettleStop
  <2>1. /\ core' \in {Popped, SetState(Popped, "Idle")}
        /\ UNCHANGED <<cfg, chunk, pipe, pipeTls, policy>>
    BY <1>10 DEF RunSettleStop
  <2>2. 1 \in DOMAIN core.effects /\ core.effects[1].op = "SettleStop"
    BY <1>1, <1>10 DEF RunSettleStop, Running
  <2>3. "Reconnect" \notin core.timers  BY <1>2, <2>2 DEF Calm, SettleFollowsStop
  <2> DEFINE d == SetState(Popped, "Idle")
  <2>4. d \in Cores  BY <1>4, SetStateType DEF SessionState
  <2>5. /\ d.effects = Popped.effects /\ d.timers = Popped.timers
        /\ d.intent = Popped.intent /\ d.state = "Idle"
    BY <1>4 DEF SetState, Cores
  <2> HIDE DEF d
  <2>6. Calm(d, pipe)
    BY <1>4, <1>5, <2>3, <2>5 DEF Calm, BackoffIsAlone, DialIsNext, SettleFollowsStop
  <2>7. Calm(Popped, pipe)  BY <1>6, <2>3
  <2>8. core' \in {Popped, d}  BY <2>1 DEF d
  <2> QED BY <1>0, <1>a, <1>b, <1>4, <2>1, <2>4, <2>6, <2>7, <2>8
<1> QED BY <1>7, <1>8, <1>9, <1>10 DEF RunEffect

-----------------------------------------------------------------------------

LEMMA InitInv == Init => IInv
<1> SUFFICES ASSUME Init PROVE IInv  OBVIOUS
<1>1. cfg \in Configs /\ cfg \in ConfigType  BY ConfigsAssumption DEF Init
<1>2. cfg.secret \in BOOLEAN /\ cfg.port \in Nat /\ cfg.tls \in BOOLEAN  BY <1>1 DEF ConfigType
<1>3. NewLedger(cfg.secret) \in Ledgers  BY <1>2, NewLedgerType
<1>4. 0 \in 0 .. BackoffSteps /\ 0 \in 0 .. MaxFrames /\ NoAd \in StsAds /\ <<>> \in Seq(Effects)
  BY BoundsAssumption DEF NoAd, StsAds
<1>5. core \in Cores
  BY <1>2, <1>3, <1>4 DEF Init, Cores, SessionState, DisconnectIntent, ScramPhase
<1>6. policy \in Policies
  <2>1. NoPolicy \in Policies  BY DEF NoPolicy, Policies
  <2>2. [port : StsPorts, duration : StsDurations \ {0}, live : {TRUE}] \subseteq Policies
    BY StsAssumption DEF Policies
  <2> QED BY <2>1, <2>2 DEF Init
<1>7. TypeOK  BY <1>1, <1>4, <1>5, <1>6 DEF Init, TypeOK, TransportState
<1>8. core.effects = <<>> /\ core.timers = {}  BY DEF Init
<1>9. Calm(core, pipe)  BY <1>5, <1>8, HarmlessCalm, HarmlessQueue DEF BackoffIsAlone
<1> QED BY <1>7, <1>9 DEF Init, IInv

LEMMA NextInv == IInv /\ [Next]_vars => IInv'
<1> SUFFICES ASSUME IInv, [Next]_vars PROVE IInv'  OBVIOUS
<1>1. CASE HandleFrame
  <2>1. TypeOK  BY DEF IInv
  <2>2. /\ TypeOK' /\ chunk > 0 /\ UNCHANGED <<cfg, pipe, pipeTls>>
        /\ core \in Quiet /\ pipe \in InFlight => core' \in Quiet
    BY <1>1, <2>1, FrameStep
  <2>3. core' \in Quiet /\ pipe' \in InFlight  BY <2>2 DEF IInv
  <2>4. Calm(core', pipe')  BY <2>3, QuietCalm
  <2>5. Calm(core, pipe)'
    BY <2>2, <2>4 DEF Calm, BackoffIsAlone, DialIsNext, SettleFollowsStop
  <2>6. (chunk > 0 => core \in Quiet /\ pipe \in InFlight)'  BY <2>3
  <2> QED BY <2>2, <2>5, <2>6 DEF IInv
<1>2. CASE EndOfChunk
  <2>1. chunk' = 0 /\ UNCHANGED <<cfg, core, pipe, pipeTls, policy>>  BY <1>2 DEF EndOfChunk
  <2>2. TypeOK'  BY <2>1, BoundsAssumption DEF IInv, TypeOK
  <2>3. Calm(core, pipe)'
    BY <2>1 DEF IInv, Calm, BackoffIsAlone, DialIsNext, SettleFollowsStop
  <2> QED BY <2>1, <2>2, <2>3 DEF IInv
<1>3. CASE PolicyLapses
  <2>1. policy' = [policy EXCEPT !.live = FALSE] /\ UNCHANGED <<cfg, core, chunk, pipe, pipeTls>>
    BY <1>3 DEF PolicyLapses
  <2>2. policy' \in Policies  BY <2>1 DEF IInv, TypeOK, Policies
  <2>3. TypeOK'  BY <2>1, <2>2 DEF IInv, TypeOK
  <2>4. Calm(core, pipe)'
    BY <2>1 DEF IInv, Calm, BackoffIsAlone, DialIsNext, SettleFollowsStop
  <2> QED BY <2>1, <2>3, <2>4 DEF IInv
<1>4. CASE UNCHANGED vars
  <2>1. UNCHANGED <<cfg, core, chunk, pipe, pipeTls, policy>>  BY <1>4 DEF vars
  <2>2. TypeOK'  BY <2>1 DEF IInv, TypeOK
  <2>3. Calm(core, pipe)'
    BY <2>1 DEF IInv, Calm, BackoffIsAlone, DialIsNext, SettleFollowsStop
  <2> QED BY <2>1, <2>2, <2>3 DEF IInv
<1> QED BY <1>1, <1>2, <1>3, <1>4, UserStep, TimerStep, NetStep, EffectStep DEF Next, Timers

THEOREM Invariance == Spec => []IInv
BY InitInv, NextInv, PTL DEF Spec

\* Every reachable state of the session is well typed, whatever the configuration,
\* the capability table and the frames the server sends.
THEOREM TypeCorrect == Spec => []TypeOK
<1>1. IInv => TypeOK  BY DEF IInv
<1> QED BY <1>1, Invariance, PTL

\* A session that is stopped, stopping or failed has no connect queued and no backoff
\* running: nothing it left behind can bring it back (Session::stop, Core::fail and
\* the reconnect timer of connection.rs).
THEOREM StopHolds == Spec => []StopOutranksReconnect
<1>1. IInv => StopOutranksReconnect
  BY DEF IInv, Calm, BackoffIsAlone, DialIsNext, StopOutranksReconnect, AwaitingSocket
<1> QED BY <1>1, Invariance, PTL

-----------------------------------------------------------------------------
(* The inductive invariant behind the socket, the timers and the secret *)

Doomed(q) == \E k \in DOMAIN q : q[k].op = "Shutdown"
Dials(q) == \E k \in DOMAIN q : q[k].op = "Connect"
Tells(q) == \E k \in DOMAIN q : q[k] = Write("CREDENTIAL")
Open(p, t) == p = "Encrypted" \/ (p = "Connected" /\ ~ t)
Down == {"Idle", "Closing", "Failed"}

\* SCRAM is under way exactly when the exchange began with it, and what it is owed is kept.
Secrets(c) ==
    /\ c.scram # "none" <=> c.exchangeStarted /\ c.mechanism = "SCRAM-SHA-256"
    /\ c.state = "Sasl" \/ c.saslSucceeded => c.exchangeStarted
    /\ c.mechanism = "SCRAM-SHA-256" =>
          /\ c.saslSucceeded => c.scram = "Verified"
          /\ c.state = "Registered" /\ c.exchangeStarted => c.saslSucceeded
    /\ Tells(c.effects) => c.scram = "none"

\* A session that goes on has the deadline of its handshake or its watchdog.
Watched(c) ==
    /\ "Registration" \in c.timers =>
          c.intent # "Reconnecting" /\ c.state \in Talking \cup {"StsUpgrading"}
    /\ c.state = "Registered" => c.welcomed
    /\ c.intent = "Unexpected" =>
          /\ c.state \in Talking /\ ~ c.welcomed => "Registration" \in c.timers
          /\ c.state = "Registered" => "Ping" \in c.timers /\ c.ping # "Off"

\* While the frames of a chunk are handled: whatever gave the connection up queued its shutdown.
Sound(c) ==
    /\ c.intent = "Reconnecting" \/ c.state \in {"Failed", "StsUpgrading"} => Doomed(c.effects)
    /\ c.state = "Failed" => c.intent = "Stopping"
    /\ c.state \in Talking \cup {"Failed", "StsUpgrading"}
    /\ c.state = "StsUpgrading" => c.tls
    /\ Tells(c.effects) => c.exchangeStarted

\* The session and its transport, p its state and t whether it was told to use TLS: a socket
\* that was given up is about to be shut down, one that is waited for is dialled or on its
\* way, and one that is spoken on is open.
Backed(c, p, t) ==
    /\ p \in InFlight /\ c.state \in Down => c.intent = "Stopping" /\ Doomed(c.effects)
    /\ c.intent = "Reconnecting" => p \in InFlight /\ Doomed(c.effects)
    /\ c.state = "Reconnecting" => "Reconnect" \in c.timers /\ p \notin InFlight
    /\ c.state = "StsUpgrading" => c.tls
    /\ c.state \in AwaitingSocket /\ (c.intent # "Stopping" \/ p \in InFlight) =>
          \/ Dials(c.effects)
          \/ p \in InFlight /\ c.state = "StsUpgrading" /\ Doomed(c.effects)
          \/ p \in InFlight /\ t = c.tls /\ ~ Open(p, t)
    /\ c.state \in Talking /\ c.intent # "Stopping" => Open(p, t)

\* A queued connect finds the transport at rest, and TLS where a live policy asks for it.
DialFits(c, p, live) ==
    \A k \in DOMAIN c.effects : c.effects[k].op = "Connect" =>
        /\ p \notin InFlight
        /\ c.effects[k].tls = c.tls
        /\ live => c.tls

Fits(c, p, t, live) == Secrets(c) /\ Watched(c) /\ Backed(c, p, t) /\ DialFits(c, p, live)

JInv ==
    /\ IInv
    /\ Fits(core, pipe, pipeTls, policy.live)
    /\ chunk > 0 => Open(pipe, pipeTls) /\ Sound(core)

-----------------------------------------------------------------------------
(* What each handler does to the fields the invariant speaks of *)

LEMMA QueueFacts ==
    ASSUME NEW q \in Seq(Effects), NEW e \in Effects
    PROVE  /\ Doomed(Append(q, e)) <=> Doomed(q) \/ e.op = "Shutdown"
           /\ Tells(Append(q, e)) <=> Tells(q) \/ e = Write("CREDENTIAL")
           /\ Dials(Append(q, e)) <=> Dials(q) \/ e.op = "Connect"
<1> DEFINE r == Append(q, e)
<1>1. /\ DOMAIN q = 1 .. Len(q) /\ DOMAIN r = 1 .. Len(q) + 1 /\ Len(q) \in Nat
      /\ r[Len(q) + 1] = e /\ \A k \in 1 .. Len(q) : r[k] = q[k]
  OBVIOUS
<1> HIDE DEF r
<1>2. \A k \in DOMAIN r : k \in DOMAIN q \/ k = Len(q) + 1
  BY <1>1
<1>3. Len(q) + 1 \in DOMAIN r /\ \A k \in DOMAIN q : k \in DOMAIN r /\ r[k] = q[k]
  BY <1>1
<1>4. (Doomed(r) <=> Doomed(q) \/ e.op = "Shutdown")
  BY <1>1, <1>2, <1>3 DEF Doomed
<1>5. (Tells(r) <=> Tells(q) \/ e = Write("CREDENTIAL"))
  BY <1>1, <1>2, <1>3 DEF Tells
<1>6. (Dials(r) <=> Dials(q) \/ e.op = "Connect")
  BY <1>1, <1>2, <1>3 DEF Dials
<1> QED
  BY <1>4, <1>5, <1>6 DEF r

LEMMA EmptyQueue == ~ Doomed(<<>>) /\ ~ Tells(<<>>) /\ ~ Dials(<<>>)
BY DEF Doomed, Tells, Dials

LEMMA LineFacts ==
    /\ \A line : Write(line).op = "Write" /\ (Write(line) = Write("CREDENTIAL") => line = "CREDENTIAL")
    /\ Shutdown.op = "Shutdown" /\ Shutdown # Write("CREDENTIAL")
    /\ SettleStop.op = "SettleStop" /\ SettleStop # Write("CREDENTIAL")
    /\ \A port, tls : Connect(port, tls).op = "Connect" /\ Connect(port, tls) # Write("CREDENTIAL")
                      /\ Connect(port, tls).tls = tls
<1>1. /\ \A line : Write(line).op = "Write" /\ Write(line).line = line
      /\ Shutdown.op = "Shutdown" /\ SettleStop.op = "SettleStop"
      /\ \A port, tls : Connect(port, tls).op = "Connect" /\ Connect(port, tls).tls = tls
  BY DEF Write, Shutdown, SettleStop, Connect
<1>2. \A line : Write(line) = Write("CREDENTIAL") => line = "CREDENTIAL"
  BY <1>1
<1> QED
  BY <1>1, <1>2

\* d differs from c in nothing the secret or the connection's course depends on.
Kept(c, d) ==
    /\ d.welcomed = c.welcomed /\ d.tls = c.tls /\ d.saslSucceeded = c.saslSucceeded
    /\ d.exchangeStarted = c.exchangeStarted /\ d.scram = c.scram
    /\ c.exchangeStarted => d.mechanism = c.mechanism

\* A step of the negotiation: it may queue lines and move on to CapReq or Registering.
Mild(c, d) ==
    /\ Kept(c, d)
    /\ d.intent = c.intent /\ d.ping = c.ping
    /\ d.state = c.state \/ d.state \in {"CapReq", "Registering"}
    /\ "Registration" \in d.timers <=> "Registration" \in c.timers
    /\ "Ping" \in d.timers <=> "Ping" \in c.timers
    /\ "Reconnect" \in d.timers <=> "Reconnect" \in c.timers
    /\ Doomed(c.effects) => Doomed(d.effects)
    /\ Tells(d.effects) => Tells(c.effects)

LEMMA MildChain == ASSUME NEW c, NEW d, NEW e, Mild(c, d), Mild(d, e) PROVE Mild(c, e)
BY DEF Mild, Kept

LEMMA MildSteps ==
    ASSUME NEW c \in Cores
    PROVE  /\ Mild(c, c)
           /\ \A state \in {"CapReq", "Registering"} : Mild(c, SetState(c, state))
           /\ Mild(c, Arm(c, "Capability")) /\ Mild(c, Cancel(c, {"Capability"}))
           /\ \A x : Mild(c, [c EXCEPT !.caps = x]) /\ Mild(c, [c EXCEPT !.regSent = x])
                     /\ Mild(c, [c EXCEPT !.capEnded = x]) /\ Mild(c, [c EXCEPT !.saslPending = x])
                     /\ Mild(c, [c EXCEPT !.regNick = x]) /\ Mild(c, [c EXCEPT !.pendingSts = x])
                     /\ Mild(c, [c EXCEPT !.listSeen = x]) /\ Mild(c, [c EXCEPT !.stsDuration = x])
<1> USE DEF Mild, Kept, Cores
<1>1. Mild(c, c)
  OBVIOUS
<1>2. \A state \in {"CapReq", "Registering"} : Mild(c, SetState(c, state))
  BY DEF SetState
<1>3. Mild(c, Arm(c, "Capability")) /\ Mild(c, Cancel(c, {"Capability"}))
  BY DEF Arm, Cancel
<1>4. \A x : Mild(c, [c EXCEPT !.caps = x]) /\ Mild(c, [c EXCEPT !.regSent = x])
             /\ Mild(c, [c EXCEPT !.capEnded = x]) /\ Mild(c, [c EXCEPT !.saslPending = x])
  OBVIOUS
<1>5. \A x : Mild(c, [c EXCEPT !.regNick = x]) /\ Mild(c, [c EXCEPT !.pendingSts = x])
             /\ Mild(c, [c EXCEPT !.listSeen = x]) /\ Mild(c, [c EXCEPT !.stsDuration = x])
  OBVIOUS
<1> QED
  BY <1>1, <1>2, <1>3, <1>4, <1>5

LEMMA PushFields ==
    ASSUME NEW c \in Cores, NEW e \in Effects
    PROVE  /\ Push(c, e).effects = Append(c.effects, e) /\ Push(c, e).state = c.state
           /\ Push(c, e).intent = c.intent /\ Push(c, e).ping = c.ping
           /\ Push(c, e).timers = c.timers /\ Kept(c, Push(c, e))
           /\ Push(c, e).mechanism = c.mechanism
BY DEF Push, Cores, Kept

LEMMA SendMild ==
    ASSUME NEW c \in Cores, NEW line \in Lines, line # "CREDENTIAL"
    PROVE  Mild(c, Send(c, line))
<1>1. c.effects \in Seq(Effects) /\ Write(line) \in Effects
  BY EffectTypes DEF Cores
<1>2. Write(line).op = "Write" /\ Write(line) # Write("CREDENTIAL")
  BY LineFacts
<1>3. LET r == Append(c.effects, Write(line))
      IN (Doomed(c.effects) => Doomed(r)) /\ (Tells(r) => Tells(c.effects))
  BY <1>1, <1>2, QueueFacts
<1> QED
  BY <1>1, <1>3, PushFields DEF Send, Mild

LEMMA FailFields ==
    ASSUME NEW c \in Cores
    PROVE  /\ LET d == FailFatal(c)
              IN /\ d.state = "Failed" /\ d.intent = "Stopping" /\ Kept(c, d)
                 /\ d.mechanism = c.mechanism
                 /\ d.timers = c.timers \ {"Registration", "Reconnect", "Ping"}
                 /\ d.effects = Append(c.effects, Shutdown)
           /\ \A t \in InFlight :
                 LET d == FailRetry(c, t)
                 IN /\ d.state = c.state /\ Kept(c, d) /\ d.mechanism = c.mechanism
                    /\ d.intent = IF c.intent = "Unexpected" THEN "Reconnecting" ELSE c.intent
                    /\ d.timers = c.timers \ {"Registration", "Ping"}
                    /\ d.effects = Append(c.effects, Shutdown)
<1> USE DEF Push, SetState, CancelPing, Cancel, Cores, Kept
<1>1. LET d == FailFatal(c)
      IN /\ d.state = "Failed" /\ d.intent = "Stopping" /\ Kept(c, d)
         /\ d.mechanism = c.mechanism
         /\ d.timers = c.timers \ {"Registration", "Reconnect", "Ping"}
         /\ d.effects = Append(c.effects, Shutdown)
  BY DEF FailFatal
<1>2. ASSUME NEW t \in InFlight
      PROVE  LET d == FailRetry(c, t)
             IN /\ d.state = c.state /\ Kept(c, d) /\ d.mechanism = c.mechanism
                /\ d.intent = IF c.intent = "Unexpected" THEN "Reconnecting" ELSE c.intent
                /\ d.timers = c.timers \ {"Registration", "Ping"}
                /\ d.effects = Append(c.effects, Shutdown)
  BY DEF FailRetry
<1> QED
  BY <1>1, <1>2

Good(c) == Secrets(c) /\ Watched(c) /\ Sound(c)

LEMMA MildGood ==
    ASSUME NEW c, NEW d, Good(c), Mild(c, d), c.state # "StsUpgrading"
    PROVE  Good(d) /\ d.state # "StsUpgrading"
<1>1. Secrets(d)
  BY DEF Good, Secrets, Mild, Kept
<1>2. Watched(d)
  BY DEF Good, Watched, Sound, Mild, Kept, Talking
<1>3. Sound(d)
  BY DEF Good, Sound, Mild, Kept, Talking
<1> QED
  BY <1>1, <1>2, <1>3 DEF Good, Mild

LEMMA FailGood ==
    ASSUME NEW c \in Cores, Good(c)
    PROVE  /\ Good(FailFatal(c)) /\ FailFatal(c).state = "Failed"
           /\ \A t \in InFlight : Good(FailRetry(c, t)) /\ FailRetry(c, t).state = c.state
<1>1. c.effects \in Seq(Effects) /\ Shutdown \in Effects
  BY EffectTypes DEF Cores
<1>2. PICK q : q = Append(c.effects, Shutdown)
  OBVIOUS
<1>3. Doomed(q) /\ (Tells(q) => Tells(c.effects))
  BY <1>1, <1>2, QueueFacts, LineFacts
<1>4. Good(FailFatal(c)) /\ FailFatal(c).state = "Failed"
  <2>1. PICK d : d = FailFatal(c)
    OBVIOUS
  <2>2. /\ d.state = "Failed" /\ d.intent = "Stopping" /\ Kept(c, d) /\ d.mechanism = c.mechanism
        /\ d.timers = c.timers \ {"Registration", "Reconnect", "Ping"} /\ d.effects = q
    BY <1>2, <2>1, FailFields
  <2>3. Secrets(d)
    BY <1>3, <2>2 DEF Good, Secrets, Kept
  <2>4. Watched(d) /\ Sound(d)
    BY <1>3, <2>2 DEF Good, Watched, Sound, Kept, Talking
  <2> QED
    BY <2>1, <2>2, <2>3, <2>4 DEF Good
<1>5. ASSUME NEW t \in InFlight PROVE Good(FailRetry(c, t)) /\ FailRetry(c, t).state = c.state
  <2>1. PICK d : d = FailRetry(c, t)
    OBVIOUS
  <2>2. /\ d.state = c.state /\ Kept(c, d) /\ d.mechanism = c.mechanism
        /\ d.intent = IF c.intent = "Unexpected" THEN "Reconnecting" ELSE c.intent
        /\ d.timers = c.timers \ {"Registration", "Ping"} /\ d.effects = q
    BY <1>2, <2>1, FailFields
  <2>3. Secrets(d)
    BY <1>3, <2>2 DEF Good, Secrets, Kept
  <2>4. d.intent # "Unexpected" /\ (c.intent = "Stopping" => d.intent = "Stopping")
    BY <2>2
  <2>5. Watched(d) /\ Sound(d)
    BY <1>3, <2>2, <2>4 DEF Good, Watched, Sound, Kept, Talking
  <2> QED
    BY <2>1, <2>2, <2>3, <2>5 DEF Good
<1> QED
  BY <1>4, <1>5

\* The parts of a negotiation: each is mild, or the failure of a registration that cannot be sent.
LEMMA NegotiationMild ==
    ASSUME NEW c \in Cores
    PROVE  /\ Mild(c, EndCapabilityNegotiation(c)) /\ Mild(c, RequestSasl(c))
           /\ Mild(c, SendRequestLines(c))
           /\ Mild(c, SendRegistration(c)) \/ SendRegistration(c) = FailFatal(c)
<1>1. Mild(c, EndCapabilityNegotiation(c))
  <2> DEFINE d == [c EXCEPT !.capEnded = TRUE]
             e == Cancel(d, {"Capability"})
  <2>1. Mild(c, c) /\ Mild(c, d) /\ d \in Cores
    BY MildSteps, FlagsType
  <2>2. Mild(d, e) /\ e \in Cores
    BY <2>1, MildSteps, CancelType
  <2>3. Mild(e, Send(e, "CAP END"))
    BY <2>2, SendMild DEF Lines
  <2>4. EndCapabilityNegotiation(c) \in {c, Send(e, "CAP END")}
    BY DEF EndCapabilityNegotiation
  <2> HIDE DEF d, e
  <2>5. Mild(c, e)
    BY <2>1, <2>2, MildChain
  <2>6. Mild(c, Send(e, "CAP END"))
    BY <2>3, <2>5, MildChain
  <2> QED
    BY <2>1, <2>4, <2>6
<1>2. Mild(c, RequestSasl(c))
  BY DEF RequestSasl, Mild, Kept, Cores
<1>3. Mild(c, SendRequestLines(c))
  <2> DEFINE d == IF c.regSent THEN c ELSE SetState(c, "CapReq")
             e == Send(d, "CAP REQ")
  <2>1. Mild(c, d) /\ d \in Cores
    BY MildSteps, SetStateType DEF SessionState
  <2>2. Mild(d, e) /\ e \in Cores
    BY <2>1, SendMild, SendType DEF Lines
  <2>3. Mild(e, Arm(e, "Capability"))
    BY <2>2, MildSteps
  <2>4. SendRequestLines(c) \in {c, Arm(e, "Capability")}
    BY DEF SendRequestLines
  <2> HIDE DEF d, e
  <2> QED
    BY <2>1, <2>2, <2>3, <2>4, MildChain, MildSteps
<1>4. Mild(c, SendRegistration(c)) \/ SendRegistration(c) = FailFatal(c)
  <2> DEFINE d == Send(c, "REGISTER")
             e == [d EXCEPT !.regSent = TRUE]
  <2>1. Mild(c, d) /\ d \in Cores
    BY SendMild, SendType DEF Lines
  <2>2. Mild(d, e) /\ e \in Cores
    BY <2>1, MildSteps, FlagsType
  <2>3. Mild(e, SetState(e, "Registering"))
    BY <2>2, MildSteps
  <2>4. SendRegistration(c) \in {c, FailFatal(c), SetState(e, "Registering")}
    BY DEF SendRegistration
  <2> HIDE DEF d, e
  <2> QED
    BY <2>1, <2>2, <2>3, <2>4, MildChain, MildSteps
<1> QED
  BY <1>1, <1>2, <1>3, <1>4

LEMMA NegotiationGood ==
    ASSUME NEW c \in Cores, Good(c), c.state # "StsUpgrading"
    PROVE  /\ Good(SendRegistration(c)) /\ SendRegistration(c).state # "StsUpgrading"
           /\ Good(EndCapabilityNegotiation(c)) /\ Good(RequestCapabilities(c))
<1>1. ASSUME NEW d \in Cores, Good(d), d.state # "StsUpgrading"
      PROVE  Good(SendRegistration(d)) /\ SendRegistration(d).state # "StsUpgrading"
  BY <1>1, NegotiationMild, MildGood, FailGood
<1>2. ASSUME NEW d \in Cores, Good(d), d.state # "StsUpgrading"
      PROVE  Good(EndCapabilityNegotiation(d))
  BY <1>2, NegotiationMild, MildGood
<1>3. Good(RequestCapabilities(c))
  <2>1. PICK d : d = RequestSasl(c)
    OBVIOUS
  <2>2. d \in Cores /\ Good(d) /\ d.state # "StsUpgrading"
    BY <2>1, NegotiationMild, MildGood, RequestSaslType
  <2>3. PICK e : e = SendRequestLines(d)
    OBVIOUS
  <2>4. e \in Cores /\ Good(e) /\ e.state # "StsUpgrading"
    BY <2>2, <2>3, NegotiationMild, MildGood, SendRequestLinesType
  <2>5. PICK f : f = [e EXCEPT !.caps = TakeRequest(@)]
    OBVIOUS
  <2>6. f \in Cores /\ Good(f) /\ f.state # "StsUpgrading"
    <3>1. e.caps \in Ledgers
      BY <2>4 DEF Cores
    <3>2. TakeRequest(e.caps) \in Ledgers
      BY <3>1, LedgerType
    <3>3. f \in Cores /\ Mild(e, f)
      BY <2>4, <2>5, <3>2, CapsType, MildSteps
    <3> QED
      BY <2>4, <3>3, MildGood
  <2>7. SendRegistration(f) \in Cores
    BY <2>6, SendRegistrationType
  <2> QED
    BY <1>1, <1>2, <2>1, <2>3, <2>5, <2>6, <2>7 DEF RequestCapabilities
<1> QED
  BY <1>1, <1>2, <1>3

LEMMA StsAdGood ==
    ASSUME NEW c \in Cores, NEW ad \in StsAds, Good(c), c.state # "StsUpgrading"
    PROVE  LET d == HandleStsAd(c, ad)
           IN Good(d) /\ (d.state # "StsUpgrading" => Mild(c, d))
<1>1. CASE HandleStsAd(c, ad) = c
  BY <1>1, MildSteps
<1>2. CASE HandleStsAd(c, ad) = [c EXCEPT !.stsDuration = ad.duration]
  BY <1>2, MildSteps, MildGood, ZenonT(30)
<1>3. CASE HandleStsAd(c, ad) = BeginStsUpgrade(c, ad.port)
  <2>1. PICK d : d = BeginStsUpgrade(c, ad.port)
    OBVIOUS
  <2>2. /\ d.state = "StsUpgrading" /\ d.tls = TRUE /\ d.effects = Append(c.effects, Shutdown)
        /\ d.intent = c.intent /\ d.timers = c.timers /\ d.welcomed = c.welcomed
        /\ d.saslSucceeded = c.saslSucceeded /\ d.exchangeStarted = c.exchangeStarted
        /\ d.scram = c.scram /\ d.mechanism = c.mechanism
    BY <2>1 DEF BeginStsUpgrade, Push, SetState, Cores
  <2>3. c.effects \in Seq(Effects) /\ Shutdown \in Effects
    BY EffectTypes DEF Cores
  <2>4. Doomed(d.effects) /\ (Tells(d.effects) => Tells(c.effects))
    BY <2>2, <2>3, QueueFacts, LineFacts
  <2>5. Secrets(d)
    BY <2>2, <2>4 DEF Good, Secrets
  <2>6. Watched(d)
    BY <2>2 DEF Good, Watched, Talking
  <2>7. Sound(d)
    BY <2>2, <2>4 DEF Good, Sound
  <2> QED
    BY <1>3, <2>1, <2>2, <2>5, <2>6, <2>7 DEF Good
<1> QED
  BY <1>1, <1>2, <1>3 DEF HandleStsAd

LEMMA UnlessUpgradingGood ==
    ASSUME NEW c \in Cores, Good(c)
    PROVE  Good(UnlessUpgrading(c))
BY NegotiationGood DEF UnlessUpgrading

LEMMA WelcomeGood ==
    ASSUME NEW c \in Cores, Good(c), c.state # "StsUpgrading"
    PROVE  Good(HandleWelcome(c))
<1>1. CASE c.state \in {"Registered", "Failed"}
  BY <1>1 DEF HandleWelcome
<1>2. CASE c.state \notin {"Registered", "Failed"} /\ ScramOutstanding(c)
  BY <1>2, FailGood DEF HandleWelcome
<1>3. CASE c.state \notin {"Registered", "Failed"} /\ ~ ScramOutstanding(c)
  <2> DEFINE n == AbandonOutstanding(c.caps)
             d == [c EXCEPT !.attempt = 0, !.welcomed = TRUE, !.caps = n]
             e == Cancel(d, {"Capability", "Registration"})
             f == SetState(e, "Registered")
             g == ArmPing(f)
  <2>1. n \in Ledgers
    <3>1. c.caps \in Ledgers
      BY DEF Cores
    <3> QED
      BY <3>1, LedgerType
  <2>2. d \in Cores
    <3>1. 0 \in 0 .. BackoffSteps
      BY BoundsAssumption
    <3> HIDE DEF n
    <3> QED
      BY <2>1, <3>1 DEF Cores
  <2>3. e \in Cores /\ f \in Cores /\ g \in Cores
    <3>1. e \in Cores
      BY <2>2, CancelType
    <3>2. f \in Cores
      BY <3>1, SetStateType DEF SessionState
    <3> QED
      BY <3>1, <3>2, PingType
  <2>4. /\ g.state = "Registered" /\ g.welcomed = TRUE /\ g.ping = "Watching" /\ "Ping" \in g.timers
        /\ "Registration" \notin g.timers /\ g.effects = c.effects /\ g.intent = c.intent
        /\ g.tls = c.tls /\ g.saslSucceeded = c.saslSucceeded /\ g.scram = c.scram
        /\ g.exchangeStarted = c.exchangeStarted /\ g.mechanism = c.mechanism
    <3> HIDE DEF n
    <3> QED
      BY DEF ArmPing, Arm, SetState, Cancel, Cores
  <2> HIDE DEF g
  <2>5. Secrets(g)
    BY <1>3, <2>4 DEF Good, Secrets, ScramOutstanding
  <2>6. Watched(g)
    BY <2>4 DEF Watched, Talking
  <2>7. Sound(g)
    BY <2>4 DEF Good, Sound, Talking
  <2>8. Good(g) /\ g.state # "StsUpgrading"
    BY <2>4, <2>5, <2>6, <2>7 DEF Good
  <2>9. PICK h : h = IF SendsIdentify(g) THEN Send(g, "IDENTIFY") ELSE g
    OBVIOUS
  <2>10. h \in Cores /\ Good(h) /\ h.state # "StsUpgrading"
    <3>1. Mild(g, Send(g, "IDENTIFY")) /\ Send(g, "IDENTIFY") \in Cores
      BY <2>3, SendMild, SendType DEF Lines
    <3> QED
      BY <2>3, <2>8, <2>9, <3>1, MildGood
  <2>11. Good(Send(h, "JOIN"))
    <3>1. Mild(h, Send(h, "JOIN"))
      BY <2>10, SendMild DEF Lines
    <3> QED
      BY <2>10, <3>1, MildGood
  <2>12. HandleWelcome(c) = Send(h, "JOIN")
    BY <1>3, <2>9 DEF HandleWelcome, g
  <2> QED
    BY <2>11, <2>12
<1> QED
  BY <1>1, <1>2, <1>3

LEMMA SaslGood ==
    ASSUME NEW c \in Cores, Good(c), c.state # "StsUpgrading"
    PROVE  /\ ~ c.exchangeStarted => Good(BeginSasl(c))
           /\ \A payload \in Payloads : Good(ScramStep(c, payload))
           /\ c.state = "Sasl" /\ c.mechanism # "SCRAM-SHA-256" => Good(Send(c, "CREDENTIAL"))
           /\ c.state = "Sasl" /\ ~ ScramUnverified(c) =>
                 LET d == [c EXCEPT !.saslPending = FALSE, !.saslSucceeded = TRUE]
                 IN Good(d) /\ d.state # "StsUpgrading" /\ d \in Cores
<1>0. c.effects \in Seq(Effects) /\ \A line \in Lines : Write(line) \in Effects
  BY EffectTypes DEF Cores
<1>1. ASSUME ~ c.exchangeStarted PROVE Good(BeginSasl(c))
  <2>1. PICK d : d = BeginSasl(c)
    OBVIOUS
  <2>2. /\ d.state = "Sasl" /\ d.exchangeStarted = TRUE /\ d.mechanism = c.mechanism
        /\ d.scram = IF c.mechanism = "SCRAM-SHA-256" THEN "AwaitPrompt" ELSE c.scram
        /\ d.welcomed = c.welcomed /\ d.tls = c.tls /\ d.saslSucceeded = c.saslSucceeded
        /\ d.intent = c.intent /\ d.timers = c.timers /\ d.ping = c.ping
        /\ d.effects = Append(c.effects, Write("AUTHENTICATE"))
    BY <2>1 DEF BeginSasl, Send, Push, SetState, Cores
  <2>3. (Doomed(c.effects) => Doomed(d.effects)) /\ (Tells(d.effects) => Tells(c.effects))
    <3>1. Write("AUTHENTICATE") \in Effects /\ Write("AUTHENTICATE") # Write("CREDENTIAL")
      BY <1>0, LineFacts DEF Lines
    <3> QED
      BY <1>0, <2>2, <3>1, QueueFacts
  <2>4. ~ Tells(d.effects)
    BY <1>1, <2>3 DEF Good, Sound
  <2>5. Secrets(d)
    BY <1>1, <2>2, <2>4 DEF Good, Secrets
  <2>6. Watched(d)
    BY <2>2 DEF Good, Watched, Sound, Talking
  <2>7. Sound(d)
    BY <2>2, <2>3 DEF Good, Sound, Talking
  <2> QED
    BY <2>1, <2>5, <2>6, <2>7 DEF Good
<1>2. ASSUME NEW payload \in Payloads PROVE Good(ScramStep(c, payload))
  <2>1. CASE ScramStep(c, payload) = c
    BY <2>1
  <2>2. CASE ScramStep(c, payload) = FailFatal(c)
    BY <2>2, FailGood
  <2>3. CASE /\ c.scram \in DOMAIN NextScram
             /\ ScramStep(c, payload) = Send([c EXCEPT !.scram = NextScram[@]], "AUTHENTICATE")
    <3> DEFINE s == NextScram[c.scram]
    <3>1. s \in ScramPhase /\ s # "none" /\ c.scram # "none" /\ c.scram # "Verified"
      BY <2>3 DEF NextScram, ScramPhase
    <3> HIDE DEF s
    <3>2. PICK d : d = [c EXCEPT !.scram = s]
      OBVIOUS
    <3>3. /\ d \in Cores /\ d.scram = s
          /\ d.state = c.state /\ d.exchangeStarted = c.exchangeStarted /\ d.mechanism = c.mechanism
          /\ d.welcomed = c.welcomed /\ d.tls = c.tls /\ d.saslSucceeded = c.saslSucceeded
          /\ d.intent = c.intent /\ d.timers = c.timers /\ d.ping = c.ping /\ d.effects = c.effects
      BY <3>1, <3>2 DEF Cores
    <3>4. Secrets(d)
      BY <3>1, <3>3 DEF Good, Secrets
    <3>5. Watched(d) /\ Sound(d)
      BY <3>3 DEF Good, Watched, Sound
    <3>6. Good(d) /\ d.state # "StsUpgrading"
      BY <3>3, <3>4, <3>5 DEF Good
    <3>7. Mild(d, Send(d, "AUTHENTICATE"))
      BY <3>3, SendMild DEF Lines
    <3>8. ScramStep(c, payload) = Send(d, "AUTHENTICATE")
      BY <2>3, <3>2 DEF s
    <3> QED
      BY <3>6, <3>7, <3>8, MildGood
  <2> QED
    BY <2>1, <2>2, <2>3 DEF ScramStep
<1>3. ASSUME c.state = "Sasl", c.mechanism # "SCRAM-SHA-256" PROVE Good(Send(c, "CREDENTIAL"))
  <2>1. PICK d : d = Send(c, "CREDENTIAL")
    OBVIOUS
  <2>2. /\ d.effects = Append(c.effects, Write("CREDENTIAL")) /\ d.state = c.state
        /\ d.intent = c.intent /\ d.ping = c.ping /\ d.timers = c.timers /\ Kept(c, d)
        /\ d.mechanism = c.mechanism
    <3>1. Write("CREDENTIAL") \in Effects
      BY <1>0 DEF Lines
    <3> QED
      BY <2>1, <3>1, PushFields DEF Send
  <2>3. Doomed(c.effects) => Doomed(d.effects)
    <3>1. Write("CREDENTIAL") \in Effects
      BY <1>0 DEF Lines
    <3> QED
      BY <1>0, <2>2, <3>1, QueueFacts
  <2>4. Secrets(d)
    BY <1>3, <2>2 DEF Good, Secrets, Kept
  <2>5. Watched(d) /\ Sound(d)
    BY <1>3, <2>2, <2>3 DEF Good, Secrets, Watched, Sound, Kept
  <2> QED
    BY <2>1, <2>4, <2>5 DEF Good
<1>4. ASSUME c.state = "Sasl", ~ ScramUnverified(c)
      PROVE  LET d == [c EXCEPT !.saslPending = FALSE, !.saslSucceeded = TRUE]
             IN Good(d) /\ d.state # "StsUpgrading" /\ d \in Cores
  <2>1. PICK d : d = [c EXCEPT !.saslPending = FALSE, !.saslSucceeded = TRUE]
    OBVIOUS
  <2>2. /\ d \in Cores /\ d.saslSucceeded = TRUE
        /\ d.scram = c.scram /\ d.state = c.state /\ d.exchangeStarted = c.exchangeStarted
        /\ d.mechanism = c.mechanism /\ d.welcomed = c.welcomed /\ d.tls = c.tls
        /\ d.intent = c.intent /\ d.timers = c.timers /\ d.ping = c.ping /\ d.effects = c.effects
    BY <2>1 DEF Cores
  <2>3. Secrets(d)
    BY <1>4, <2>2 DEF Good, Secrets, ScramUnverified
  <2>4. Watched(d) /\ Sound(d)
    BY <2>2 DEF Good, Watched, Sound
  <2> QED
    BY <1>4, <2>1, <2>2, <2>3, <2>4 DEF Good
<1> QED
  BY <1>1, <1>2, <1>3, <1>4


-----------------------------------------------------------------------------
(* A frame of a chunk keeps the core good *)

LEMMA PongGood ==
    ASSUME NEW c \in Cores, Good(c)
    PROVE  Good(ArmPing(c))
<1>1. PICK d : d = ArmPing(c)
  OBVIOUS
<1>2. CASE c.state # "Registered"
  BY <1>2 DEF ArmPing
<1>3. CASE c.state = "Registered"
  <2>1. /\ d.ping = "Watching" /\ d.timers = c.timers \cup {"Ping"}
        /\ d.scram = c.scram /\ d.state = c.state /\ d.exchangeStarted = c.exchangeStarted
        /\ d.mechanism = c.mechanism /\ d.welcomed = c.welcomed /\ d.tls = c.tls
        /\ d.saslSucceeded = c.saslSucceeded /\ d.intent = c.intent /\ d.effects = c.effects
    BY <1>1, <1>3 DEF ArmPing, Arm, Cores
  <2>2. Secrets(d)
    BY <2>1 DEF Good, Secrets
  <2>3. Watched(d) /\ Sound(d)
    BY <2>1 DEF Good, Watched, Sound
  <2> QED
    BY <1>1, <2>2, <2>3 DEF Good
<1> QED
  BY <1>2, <1>3

LEMMA FrameGood ==
    ASSUME TypeOK, HandleFrame, Good(core), pipe \in InFlight
    PROVE  Good(core')
<1>0. /\ core \in Cores /\ core.caps \in Ledgers /\ core.pendingSts \in StsAds
      /\ cfg \in Configs /\ policy \in Policies
  BY DEF TypeOK, Cores
<1>1. core.state # "StsUpgrading"
  BY DEF HandleFrame, CapLsMore, CapLsLast, CapNew, CapDel, CapNak, CapAck, Authenticate,
         SaslSuccess, Welcome, AuthenticationRefused, CapUnknown, RegistrationRefused, NickInUse,
         ServerError, Ping, Pong, Frame, InChunk
<1>2. ASSUME NEW n \in Ledgers
      PROVE  LET c == [core EXCEPT !.caps = n]
             IN c \in Cores /\ Good(c) /\ c.state # "StsUpgrading" /\ Mild(core, c)
  BY <1>0, <1>1, CapsType, MildSteps, MildGood
<1>3. Good(FailFatal(core))
  BY <1>0, FailGood
<1>4. ASSUME NEW rows \in SUBSET Rows, NEW value \in SaslValues, NEW ad \in StsAds,
             CapLsMore(rows, value, ad) \/ CapLsLast(rows, value, ad) \/ CapNew(rows, value, ad)
      PROVE  Good(core')
  <2> DEFINE n == Advertise(core.caps, rows, value)
             held == IF ad = NoAd THEN core.pendingSts ELSE ad
             e == [core EXCEPT !.caps = n]
  <2>1. n \in Ledgers
    BY <1>0, SaslValuesAssumption, LedgerType
  <2>2. held \in StsAds
    BY <1>0
  <2> DEFINE c == [core EXCEPT !.listSeen = TRUE, !.caps = n, !.pendingSts = held]
  <2>3. \/ core' = c
        \/ core' = UnlessUpgrading(HandleStsAd(c, held))
        \/ core' = UnlessUpgrading(HandleStsAd(e, ad))
    BY <1>0, <1>4 DEF CapLsMore, CapLsLast, CapNew, Frame, Cores
  <2> HIDE DEF n, held
  <2>4. c \in Cores /\ Mild(core, c)
    BY <1>0, <2>1, <2>2 DEF Cores, Mild, Kept
  <2>5. e \in Cores /\ Good(e) /\ e.state # "StsUpgrading"
    BY <1>2, <2>1
  <2> HIDE DEF c, e
  <2>6. Good(c) /\ c.state # "StsUpgrading"
    BY <1>1, <2>4, MildGood
  <2>7. ASSUME NEW x \in Cores, Good(x), x.state # "StsUpgrading", NEW y \in StsAds
        PROVE  Good(UnlessUpgrading(HandleStsAd(x, y)))
    <3>1. HandleStsAd(x, y) \in Cores
      BY <1>0, <2>7, StsAdType
    <3>2. Good(HandleStsAd(x, y))
      BY <2>7, StsAdGood
    <3> QED
      BY <3>1, <3>2, UnlessUpgradingGood
  <2>8. Good(UnlessUpgrading(HandleStsAd(c, held)))
    BY <2>2, <2>4, <2>6, <2>7
  <2>9. Good(UnlessUpgrading(HandleStsAd(e, ad)))
    BY <2>5, <2>7
  <2> QED
    BY <2>3, <2>6, <2>8, <2>9
<1>5. ASSUME NEW rows \in SUBSET Rows, CapDel(rows) \/ CapNak(rows)
      PROVE  Good(core')
  <2> DEFINE c == [core EXCEPT !.caps = Withdraw(core.caps, rows)]
             d == [core EXCEPT !.caps = Reject(core.caps, rows)]
             e == [d EXCEPT !.saslPending = FALSE]
  <2>1. Withdraw(core.caps, rows) \in Ledgers /\ Reject(core.caps, rows) \in Ledgers
    BY <1>0, LedgerType
  <2>2. c \in Cores /\ Good(c) /\ c.state # "StsUpgrading"
    BY <1>2, <2>1
  <2>3. d \in Cores /\ Good(d) /\ d.state # "StsUpgrading"
    BY <1>2, <2>1
  <2>4. core' \in {RequestCapabilities(c), FailFatal(e), RequestCapabilities(d)}
    BY <1>5, <1>0 DEF CapDel, CapNak, Frame, Cores
  <2> HIDE DEF c, d
  <2>5. e \in Cores /\ Good(e)
    BY <2>3, FlagsType, MildSteps, MildGood
  <2> HIDE DEF e
  <2>6. Good(RequestCapabilities(c))
    BY <2>2, NegotiationGood
  <2>7. Good(RequestCapabilities(d))
    BY <2>3, NegotiationGood
  <2>8. Good(FailFatal(e))
    BY <2>5, FailGood
  <2> QED
    BY <2>4, <2>6, <2>7, <2>8
<1>6. ASSUME NEW given \in SUBSET Rows, NEW disabled \in SUBSET Rows, CapAck(given, disabled)
      PROVE  Good(core')
  <2> DEFINE c == [core EXCEPT !.caps = Acknowledge(core.caps, given, disabled)]
  <2>1. Acknowledge(core.caps, given, disabled) \in Ledgers
    BY <1>0, LedgerType
  <2>2. c \in Cores /\ Good(c) /\ c.state # "StsUpgrading"
    BY <1>2, <2>1
  <2>3. c.exchangeStarted = core.exchangeStarted
    BY <1>0 DEF Cores
  <2>4. \/ core' = BeginSasl(c) /\ ~ core.exchangeStarted
        \/ core' = EndCapabilityNegotiation(c)
    BY <1>6, <1>0 DEF CapAck, Frame, Cores
  <2> HIDE DEF c
  <2>5. ~ core.exchangeStarted => Good(BeginSasl(c))
    BY <2>2, <2>3, SaslGood
  <2>6. Good(EndCapabilityNegotiation(c))
    BY <2>2, NegotiationGood
  <2> QED
    BY <2>4, <2>5, <2>6
<1>7. ASSUME NEW payload \in Payloads, Authenticate(payload)
      PROVE  Good(core')
  <2>1. \/ core' = FailFatal(core) \/ core' = ScramStep(core, payload) \/ core' = core
        \/ /\ core' = Send(core, "CREDENTIAL")
           /\ core.state = "Sasl" /\ core.mechanism # "SCRAM-SHA-256"
    BY <1>7 DEF Authenticate, Frame, Payloads
  <2>2. Good(ScramStep(core, payload))
    BY <1>0, <1>1, SaslGood
  <2>3. core.state = "Sasl" /\ core.mechanism # "SCRAM-SHA-256" => Good(Send(core, "CREDENTIAL"))
    BY <1>0, <1>1, SaslGood
  <2> QED
    BY <1>3, <2>1, <2>2, <2>3
<1>8. ASSUME SaslSuccess
      PROVE  Good(core')
  <2>1. PICK c : c = [core EXCEPT !.saslPending = FALSE, !.saslSucceeded = TRUE]
    OBVIOUS
  <2>2. \/ core' = FailFatal(core)
        \/ /\ core' = SetState(EndCapabilityNegotiation(c), "Registering")
           /\ core.state = "Sasl" /\ ~ ScramUnverified(core)
    BY <1>8, <2>1 DEF SaslSuccess, Frame
  <2>3. ASSUME core.state = "Sasl", ~ ScramUnverified(core)
        PROVE  Good(SetState(EndCapabilityNegotiation(c), "Registering"))
    <3>1. Good(c) /\ c.state # "StsUpgrading" /\ c \in Cores
      BY <1>0, <1>1, <2>1, <2>3, SaslGood
    <3>2. PICK d : d = EndCapabilityNegotiation(c)
      OBVIOUS
    <3>3. d \in Cores
      BY <3>1, <3>2, EndNegotiationType
    <3>4. Mild(c, d)
      BY <3>1, <3>2, NegotiationMild
    <3>5. Good(d) /\ d.state # "StsUpgrading"
      BY <3>1, <3>4, MildGood
    <3>6. Mild(d, SetState(d, "Registering"))
      BY <3>3, MildSteps
    <3> QED
      BY <3>2, <3>5, <3>6, MildGood
  <2> QED
    BY <1>3, <2>2, <2>3
<1>9. ASSUME Welcome \/ AuthenticationRefused \/ RegistrationRefused \/ Ping \/ Pong
      PROVE  Good(core')
  <2>1. core' \in {HandleWelcome(core), FailFatal(core), Send(core, "PONG"), ArmPing(core)}
    BY <1>9 DEF Welcome, AuthenticationRefused, RegistrationRefused, Ping, Pong, Frame
  <2>2. Good(HandleWelcome(core)) /\ Good(ArmPing(core))
    BY <1>0, <1>1, WelcomeGood, PongGood
  <2>3. Mild(core, Send(core, "PONG"))
    BY <1>0, SendMild DEF Lines
  <2>4. Good(Send(core, "PONG"))
    BY <1>1, <2>3, MildGood
  <2> QED
    BY <1>3, <2>1, <2>2, <2>4
<1>10. ASSUME CapUnknown
       PROVE  Good(core')
  <2>1. PICK c : c = [core EXCEPT !.capEnded = TRUE]
    OBVIOUS
  <2>2. c \in Cores /\ Mild(core, c)
    BY <1>0, <2>1, FlagsType, MildSteps
  <2>3. Good(c) /\ c.state # "StsUpgrading"
    BY <1>1, <2>2, MildGood
  <2>4. PICK d : d = Cancel(c, {"Capability"})
    OBVIOUS
  <2>5. d \in Cores /\ Mild(c, d)
    BY <2>2, <2>4, CancelType, MildSteps
  <2>6. Good(d) /\ d.state # "StsUpgrading"
    BY <2>3, <2>5, MildGood
  <2>7. core' = SendRegistration(d)
    BY <1>10, <2>1, <2>4 DEF CapUnknown, Frame
  <2> QED
    BY <2>5, <2>6, <2>7, NegotiationGood
<1>11. ASSUME NickInUse
       PROVE  Good(core')
  <2> DEFINE nick == IF core.regNick = "Configured" THEN "Underscore" ELSE "Digit"
             c == [core EXCEPT !.regNick = nick]
  <2>1. core' \in {Send(c, "NICK"), FailFatal(core)}
    BY <1>11, <1>0 DEF NickInUse, Frame, Cores
  <2>2. nick \in {"Underscore", "Digit"}
    OBVIOUS
  <2> HIDE DEF nick
  <2>3. c \in Cores
    BY <1>0, <2>2 DEF Cores
  <2>4. Good(c) /\ c.state # "StsUpgrading"
    BY <1>0, <1>1, MildSteps, MildGood
  <2> HIDE DEF c
  <2>5. Mild(c, Send(c, "NICK"))
    BY <2>3, SendMild DEF Lines
  <2>6. Good(Send(c, "NICK"))
    BY <2>4, <2>5, MildGood
  <2> QED
    BY <1>3, <2>1, <2>6
<1>12. ASSUME ServerError
       PROVE  Good(core')
  <2>1. core' \in {FailFatal(core), FailRetry(core, pipe)}
    BY <1>12 DEF ServerError, Frame
  <2>2. Good(FailRetry(core, pipe))
    BY <1>0, FailGood
  <2> QED
    BY <1>3, <2>1, <2>2
<1> QED
  BY <1>4, <1>5, <1>6, <1>7, <1>8, <1>9, <1>10, <1>11, <1>12 DEF HandleFrame

-----------------------------------------------------------------------------
(* What the handlers leave behind when the UI thread was at rest *)

LEMMA GoodFits ==
    ASSUME NEW c \in Quiet, NEW p, NEW t, NEW live, Good(c), Open(p, t)
    PROVE  Fits(c, p, t, live)
<1>1. \A k \in DOMAIN c.effects : c.effects[k].op # "Connect"
  <2>1. \A k \in DOMAIN c.effects : c.effects[k] \in Harmless
    BY DEF Quiet
  <2> QED
    BY <2>1 DEF Harmless
<1>2. DialFits(c, p, live)
  BY <1>1 DEF DialFits
<1>3. p \in InFlight
  BY DEF Open, InFlight
<1>4. Backed(c, p, t)
  BY <1>3 DEF Backed, Good, Sound, Talking, Down, AwaitingSocket
<1> QED
  BY <1>2, <1>4 DEF Fits, Good

\* Between two callbacks nothing is queued: an open or opening socket is wanted.
LEMMA AtRest ==
    ASSUME JInv, core.effects = <<>>
    PROVE  /\ core \in Cores /\ pipe \in TransportState /\ pipeTls \in BOOLEAN
           /\ Secrets(core) /\ Watched(core) /\ Backed(core, pipe, pipeTls)
           /\ core.intent \in {"Unexpected", "Stopping"}
           /\ pipe \in InFlight => core.state \in AwaitingSocket \cup Talking
           /\ core.state \in AwaitingSocket /\ (core.intent # "Stopping" \/ pipe \in InFlight) =>
                 pipe \in InFlight /\ pipeTls = core.tls /\ ~ Open(pipe, pipeTls)
<1>1. /\ core \in Cores /\ pipe \in TransportState /\ pipeTls \in BOOLEAN
      /\ core.state \in SessionState /\ core.intent \in DisconnectIntent
  BY DEF JInv, IInv, TypeOK, Cores
<1>2. Secrets(core) /\ Watched(core) /\ Backed(core, pipe, pipeTls)
  BY DEF JInv, Fits
<1>3. ~ Doomed(core.effects) /\ ~ Dials(core.effects)
  BY EmptyQueue
<1>4. core.intent \in {"Unexpected", "Stopping"}
  BY <1>1, <1>2, <1>3 DEF Backed, DisconnectIntent
<1>5. pipe \in InFlight => core.state \in AwaitingSocket \cup Talking
  BY <1>1, <1>2, <1>3 DEF Backed, SessionState, Down, AwaitingSocket, Talking
<1>6. core.state \in AwaitingSocket /\ (core.intent # "Stopping" \/ pipe \in InFlight) =>
         pipe \in InFlight /\ pipeTls = core.tls /\ ~ Open(pipe, pipeTls)
  BY <1>2, <1>3 DEF Backed
<1> QED
  BY <1>1, <1>2, <1>4, <1>5, <1>6

\* A core as reset_for_connection leaves it.
Fresh(c) ==
    /\ ~ c.welcomed /\ ~ c.saslSucceeded /\ ~ c.exchangeStarted
    /\ c.mechanism = "none" /\ c.scram = "none" /\ "Registration" \notin c.timers

LEMMA DialledFits ==
    ASSUME NEW d, NEW p, NEW t, NEW live, Fresh(d), d.intent # "Reconnecting",
           d.state \in AwaitingSocket, d.state = "StsUpgrading" => d.tls, Dials(d.effects),
           \A k \in DOMAIN d.effects : d.effects[k].op = "Connect" => d.effects[k].tls = d.tls,
           p \notin InFlight, live => d.tls
    PROVE  Fits(d, p, t, live)
<1>1. Secrets(d)
  BY DEF Secrets, Fresh, AwaitingSocket
<1>2. Watched(d)
  BY DEF Watched, Fresh, AwaitingSocket, Talking
<1>3. Backed(d, p, t)
  BY DEF Backed, AwaitingSocket, Talking
<1>4. DialFits(d, p, live)
  BY DEF DialFits
<1> QED
  BY <1>1, <1>2, <1>3, <1>4 DEF Fits

LEMMA RestFits ==
    ASSUME NEW d, NEW p, NEW t, NEW live, Secrets(d), Watched(d), d.intent # "Reconnecting",
           d.state \in Down \cup {"Reconnecting"} \/ d.intent = "Stopping",
           d.state = "Reconnecting" => "Reconnect" \in d.timers,
           d.state = "StsUpgrading" => d.tls, ~ Dials(d.effects), p \notin InFlight
    PROVE  Fits(d, p, t, live)
<1>1. Backed(d, p, t)
  BY DEF Backed, AwaitingSocket, Talking, Down
<1>2. DialFits(d, p, live)
  BY DEF DialFits, Dials
<1> QED
  BY <1>1, <1>2 DEF Fits

LEMMA SameFits ==
    ASSUME NEW c, NEW d, NEW p, NEW t, NEW live, Backed(c, p, t), Secrets(d), Watched(d),
           d.state = c.state, d.intent = c.intent, d.tls = c.tls,
           "Reconnect" \in c.timers => "Reconnect" \in d.timers \/ d.state # "Reconnecting",
           Doomed(c.effects) => Doomed(d.effects), ~ Dials(c.effects), ~ Dials(d.effects)
    PROVE  Fits(d, p, t, live)
<1>1. Backed(d, p, t)
  BY DEF Backed
<1>2. DialFits(d, p, live)
  BY DEF DialFits, Dials
<1> QED
  BY <1>1, <1>2 DEF Fits

LEMMA MildRest ==
    ASSUME NEW c, NEW d, Secrets(c), Watched(c), Mild(c, d), d.state = c.state
    PROVE  Secrets(d) /\ Watched(d)
<1>1. Secrets(d)
  BY DEF Secrets, Mild, Kept
<1>2. Watched(d)
  BY DEF Watched, Mild, Kept
<1> QED
  BY <1>1, <1>2

LEMMA ResetFields ==
    ASSUME NEW c \in Cores, cfg \in Configs
    PROVE  Fresh(ResetForConnection(c)) /\ ResetForConnection(c).tls = c.tls
<1> DEFINE n == NewLedger(cfg.secret)
<1>1. ResetForConnection(c) =
        CancelPing(Cancel(
          [c EXCEPT !.regSent = FALSE, !.regNick = "Configured", !.welcomed = FALSE,
                    !.listSeen = FALSE, !.capEnded = FALSE, !.caps = n,
                    !.saslPending = FALSE, !.saslSucceeded = FALSE, !.exchangeStarted = FALSE,
                    !.mechanism = "none", !.scram = "none", !.pendingSts = NoAd],
          {"Capability", "Registration"}))
  BY DEF ResetForConnection
<1> HIDE DEF n
<1> QED
  BY <1>1 DEF CancelPing, Cancel, Cores, Fresh

LEMMA ConnectFields ==
    ASSUME NEW c \in Cores
    PROVE  LET d == ConnectTransport(c)
           IN /\ d.effects = Append(c.effects, Connect(c.port, c.tls))
              /\ d.state = c.state /\ d.intent = c.intent /\ d.tls = c.tls /\ Kept(c, d)
              /\ d.timers = c.timers /\ d.mechanism = c.mechanism
<1>1. Connect(c.port, c.tls) \in Effects
  BY EffectTypes DEF Cores
<1> QED
  BY <1>1, PushFields DEF ConnectTransport, Kept

\* A handler that resets the core and dials from rest.
LEMMA DialFromRest ==
    ASSUME NEW c \in Cores, NEW p, NEW t, NEW live, Fresh(c), c.effects = <<>>,
           c.intent # "Reconnecting", c.state \in AwaitingSocket, c.state = "StsUpgrading" => c.tls,
           p \notin InFlight, live => c.tls
    PROVE  Fits(ConnectTransport(c), p, t, live)
<1>1. PICK d : d = ConnectTransport(c)
  OBVIOUS
<1>2. PICK e : e = Connect(c.port, c.tls)
  OBVIOUS
<1>3. e.op = "Connect" /\ e.tls = c.tls
  BY <1>2, LineFacts
<1>4. /\ d.effects = Append(c.effects, e)
      /\ d.state = c.state /\ d.intent = c.intent /\ d.tls = c.tls /\ Kept(c, d)
      /\ d.timers = c.timers /\ d.mechanism = c.mechanism
  BY <1>1, <1>2, ConnectFields
<1>5. d.effects = <<e>>
  BY <1>4
<1>6. DOMAIN d.effects = {1} /\ d.effects[1] = e
  BY <1>5
<1>7. Dials(d.effects) /\ \A k \in DOMAIN d.effects : d.effects[k].tls = d.tls
  BY <1>3, <1>4, <1>6 DEF Dials
<1>8. Fresh(d)
  BY <1>4 DEF Fresh, Kept
<1> QED
  BY <1>1, <1>4, <1>7, <1>8, DialledFits

LEMMA ScheduleFields ==
    ASSUME NEW c \in Cores, c.state # "Reconnecting"
    PROVE  LET d == ScheduleReconnect(c)
           IN /\ d.state \in {"Failed", "Reconnecting"}
              /\ d.state = "Reconnecting" => "Reconnect" \in d.timers
              /\ d.timers \subseteq c.timers \cup {"Reconnect"}
              /\ d.effects = c.effects /\ d.intent = c.intent
              /\ Kept(c, d) /\ d.mechanism = c.mechanism
<1>1. CASE ~ cfg.reconnect
  BY <1>1 DEF ScheduleReconnect, SetState, Cores, Kept
<1>2. CASE cfg.reconnect
  <2> DEFINE n == IF c.attempt < BackoffSteps THEN c.attempt + 1 ELSE c.attempt
  <2>1. CountScheduledReconnect(c) = [c EXCEPT !.attempt = n]
    BY DEF CountScheduledReconnect, Cores
  <2> HIDE DEF n
  <2>2. ScheduleReconnect(c) = Arm(SetState([c EXCEPT !.attempt = n], "Reconnecting"), "Reconnect")
    BY <1>2, <2>1 DEF ScheduleReconnect
  <2> QED
    BY <2>2 DEF Arm, SetState, Cores, Kept
<1> QED
  BY <1>1, <1>2

\* The failure of a connection that is already gone.
LEMMA FailGone ==
    ASSUME NEW c \in Cores, NEW p, p \notin InFlight, c.state # "Reconnecting"
    PROVE  LET d == FailRetry(c, p)
           IN /\ d.state \in {"Failed", "Reconnecting"}
              /\ d.state = "Reconnecting" => "Reconnect" \in d.timers
              /\ "Registration" \notin d.timers
              /\ d.effects = c.effects /\ d.intent = c.intent
              /\ Kept(c, d) /\ d.mechanism = c.mechanism
<1>1. PICK e : e = CancelPing(Cancel(c, {"Registration"}))
  OBVIOUS
<1>2. e \in Cores
  BY <1>1, CancelType, PingType
<1>3. /\ e.effects = c.effects /\ e.state = c.state /\ e.intent = c.intent /\ Kept(c, e)
      /\ e.mechanism = c.mechanism /\ "Registration" \notin e.timers
  BY <1>1 DEF CancelPing, Cancel, Cores, Kept
<1>4. FailRetry(c, p) = ScheduleReconnect(e)
  BY <1>1 DEF FailRetry
<1>5. PICK d : d = ScheduleReconnect(e)
  OBVIOUS
<1>6. /\ d.state \in {"Failed", "Reconnecting"}
      /\ d.state = "Reconnecting" => "Reconnect" \in d.timers
      /\ d.timers \subseteq e.timers \cup {"Reconnect"}
      /\ d.effects = e.effects /\ d.intent = e.intent
      /\ Kept(e, d) /\ d.mechanism = e.mechanism
  BY <1>2, <1>3, <1>5, ScheduleFields
<1>7. Kept(c, d) /\ "Registration" \notin d.timers
  BY <1>3, <1>6 DEF Kept
<1> QED
  BY <1>3, <1>4, <1>5, <1>6, <1>7

\* A core that came down or waits to reconnect: it kept what its secret needs.
LEMMA GoneFits ==
    ASSUME NEW c, NEW d, NEW p, NEW t, NEW live, Secrets(c), Kept(c, d), d.mechanism = c.mechanism,
           Tells(d.effects) => Tells(c.effects), ~ Dials(d.effects),
           d.state \in Down \cup {"Reconnecting"},
           d.state = "Reconnecting" => "Reconnect" \in d.timers,
           "Registration" \notin d.timers, d.intent # "Reconnecting", p \notin InFlight
    PROVE  Fits(d, p, t, live)
<1>1. Secrets(d)
  BY DEF Secrets, Kept, Down
<1>2. Watched(d)
  BY DEF Watched, Down, Talking
<1> QED
  BY <1>1, <1>2, RestFits DEF Down

\* The failure of a connection at rest: its socket is shut down, or it was gone.
LEMMA FailRetryFits ==
    ASSUME NEW c \in Cores, NEW p, NEW t, NEW live, c.effects = <<>>, Secrets(c), Backed(c, p, t),
           c.intent \in {"Unexpected", "Stopping"}, c.state \in Talking \cup {"StsUpgrading"},
           c.state = "Registered" => c.welcomed
    PROVE  Fits(FailRetry(c, p), p, t, live)
<1>0. c.state # "Reconnecting" /\ c.state \notin Down
  BY DEF Talking, Down
<1>1. CASE p \notin InFlight
  <2>1. PICK d : d = FailRetry(c, p)
    OBVIOUS
  <2>2. /\ d.state \in {"Failed", "Reconnecting"}
        /\ d.state = "Reconnecting" => "Reconnect" \in d.timers
        /\ "Registration" \notin d.timers
        /\ d.effects = c.effects /\ d.intent = c.intent
        /\ Kept(c, d) /\ d.mechanism = c.mechanism
    BY <1>0, <1>1, <2>1, FailGone
  <2>3. ~ Dials(d.effects) /\ d.state \in Down \cup {"Reconnecting"}
    BY <2>2, EmptyQueue DEF Down
  <2> QED
    BY <1>1, <2>1, <2>2, <2>3, GoneFits
<1>2. CASE p \in InFlight
  <2>1. PICK d : d = FailRetry(c, p)
    OBVIOUS
  <2>2. PICK q : q = Append(c.effects, Shutdown)
    OBVIOUS
  <2>3. /\ d.state = c.state /\ Kept(c, d) /\ d.mechanism = c.mechanism
        /\ d.intent = IF c.intent = "Unexpected" THEN "Reconnecting" ELSE c.intent
        /\ d.timers = c.timers \ {"Registration", "Ping"} /\ d.effects = q
    BY <1>2, <2>1, <2>2, FailFields
  <2>4. c.effects \in Seq(Effects) /\ Shutdown \in Effects
    BY EffectTypes DEF Cores
  <2>5. Doomed(q) /\ ~ Tells(q) /\ ~ Dials(q)
    BY <2>2, <2>4, QueueFacts, LineFacts, EmptyQueue
  <2>6. Secrets(d)
    BY <2>3, <2>5 DEF Secrets, Kept
  <2>7. Watched(d)
    BY <2>3 DEF Watched, Kept
  <2>8. Backed(d, p, t)
    <3>1. ~ Dials(c.effects) /\ ~ Doomed(c.effects)
      BY EmptyQueue
    <3>2. d.tls = c.tls
      BY <2>3 DEF Kept
    <3> QED
      BY <1>0, <1>2, <2>3, <2>5, <3>1, <3>2 DEF Backed
  <2>9. DialFits(d, p, live)
    BY <2>3, <2>5 DEF DialFits, Dials
  <2> QED
    BY <2>1, <2>6, <2>7, <2>8, <2>9 DEF Fits
<1> QED
  BY <1>1, <1>2

-----------------------------------------------------------------------------
(* The user, the timers and the net thread *)

LEMMA LookupFacts ==
    ASSUME NEW c \in Cores, policy \in Policies
    PROVE  /\ PolicyAfterLookup.live => policy.live
           /\ policy.live => ApplyCachedSts(c).tls
           /\ PolicyAfterLookup.live => ApplyCachedSts(c).tls
<1>1. NoPolicy.live = FALSE
  BY DEF NoPolicy
<1>2. PolicyAfterLookup.live => policy.live
  BY <1>1 DEF PolicyAfterLookup
<1>3. policy.live => ApplyCachedSts(c).tls
  BY DEF ApplyCachedSts, Cores
<1> QED
  BY <1>2, <1>3

LEMMA ReconnectFits ==
    ASSUME NEW c \in Cores, NEW t, cfg \in Configs, policy \in Policies, c.effects = <<>>,
           c.intent # "Reconnecting", pipe \notin InFlight
    PROVE  Fits(BeginReconnectAttempt(c), pipe, t, PolicyAfterLookup.live)
<1>1. PICK d : d = Cancel(c, {"Reconnect"})
  OBVIOUS
<1>2. d \in Cores /\ d.effects = <<>> /\ d.intent = c.intent
  BY <1>1, CancelType DEF Cancel, Cores
<1>3. PICK e : e = ApplyCachedSts(d)
  OBVIOUS
<1>4. e \in Cores /\ e.effects = <<>> /\ e.intent = c.intent /\ (PolicyAfterLookup.live => e.tls)
  BY <1>2, <1>3, StsStepsType, LookupFacts
<1>5. PICK f : f = ResetForConnection(e)
  OBVIOUS
<1>6. f \in Cores /\ f.effects = <<>> /\ f.intent = c.intent /\ Fresh(f) /\ f.tls = e.tls
  BY <1>4, <1>5, ResetType, ResetFields
<1>7. PICK g : g = SetState(f, "Connecting")
  OBVIOUS
<1>8. g \in Cores
  BY <1>6, <1>7, SetStateType DEF SessionState
<1>9. g.effects = <<>> /\ g.intent = c.intent /\ Fresh(g) /\ g.tls = e.tls /\ g.state = "Connecting"
  BY <1>6, <1>7 DEF SetState, Cores, Fresh
<1>10. BeginReconnectAttempt(c) = ConnectTransport(g)
  BY <1>1, <1>3, <1>5, <1>7 DEF BeginReconnectAttempt
<1> QED
  BY <1>4, <1>8, <1>9, <1>10, DialFromRest DEF AwaitingSocket

LEMMA StopFields ==
    ASSUME NEW c \in Cores
    PROVE  LET d == StopCore(c)
           IN /\ Kept(c, d) /\ d.mechanism = c.mechanism
              /\ "Registration" \notin d.timers
              /\ \/ c.state \in {"Idle", "Reconnecting", "Failed"} /\ d.state = "Idle"
                 \/ d.state = "Closing"
<1>1. PICK b : b = TakeStsDuration(c)
  OBVIOUS
<1>2. b \in Cores /\ Kept(c, b) /\ b.mechanism = c.mechanism /\ b.state = c.state
  BY <1>1 DEF TakeStsDuration, Cores, Kept
<1>3. PICK e : e = CancelPing(Cancel([b EXCEPT !.intent = "Stopping", !.attempt = 0],
                                     {"Reconnect", "Capability", "Registration"}))
  OBVIOUS
<1>4. /\ Kept(b, e) /\ e.mechanism = b.mechanism /\ "Registration" \notin e.timers
      /\ e.state = b.state
  BY <1>2, <1>3 DEF CancelPing, Cancel, Cores, Kept
<1>5. \/ StopCore(c) = e /\ e.state = "Idle"
      \/ StopCore(c) = SetState(e, "Idle") /\ e.state \in {"Reconnecting", "Failed"}
      \/ StopCore(c) = Push(Push(SetState(e, "Closing"), Shutdown), SettleStop)
  BY <1>1, <1>3 DEF StopCore
<1>6. /\ Kept(c, e) /\ e.mechanism = c.mechanism
  BY <1>2, <1>4 DEF Kept
<1>7. ASSUME NEW s PROVE /\ Kept(c, SetState(e, s)) /\ SetState(e, s).mechanism = c.mechanism
                         /\ SetState(e, s).timers = e.timers
                         /\ SetState(e, s).state = s
  BY <1>3, <1>2, <1>6 DEF CancelPing, Cancel, SetState, Cores, Kept
<1>8. PICK f : f = Push(Push(SetState(e, "Closing"), Shutdown), SettleStop)
  OBVIOUS
<1>9. /\ Kept(c, f) /\ f.mechanism = c.mechanism /\ f.timers = e.timers /\ f.state = "Closing"
  BY <1>2, <1>3, <1>6, <1>8 DEF Push, CancelPing, Cancel, SetState, Cores, Kept
<1> QED
  BY <1>2, <1>4, <1>5, <1>6, <1>7, <1>8, <1>9

LEMMA StopFits ==
    ASSUME NEW c \in Cores, NEW p, NEW t, NEW live, policy \in Policies, Secrets(c),
           ~ Dials(c.effects), ~ Tells(c.effects),
           p \in InFlight => c.state \in AwaitingSocket \cup Talking
    PROVE  Fits(StopCore(c), p, t, live)
<1>1. PICK d : d = StopCore(c)
  OBVIOUS
<1>2. /\ Kept(c, d) /\ d.mechanism = c.mechanism /\ "Registration" \notin d.timers
      /\ d.intent = "Stopping"
      /\ \/ c.state \in {"Idle", "Reconnecting", "Failed"} /\ d.state = "Idle"
         \/ d.state = "Closing"
      /\ \/ d.state = "Idle" /\ d.effects = c.effects
         \/ d.state = "Closing" /\ d.effects = Append(Append(c.effects, Shutdown), SettleStop)
  BY <1>1, StopFields, StopType
<1>3. c.effects \in Seq(Effects) /\ Shutdown \in Effects /\ SettleStop \in Effects
  BY EffectTypes DEF Cores
<1>4. PICK q : q = Append(c.effects, Shutdown)
  OBVIOUS
<1>5. q \in Seq(Effects) /\ Doomed(q) /\ ~ Dials(q) /\ ~ Tells(q)
  BY <1>3, <1>4, QueueFacts, LineFacts
<1>6. LET r == Append(q, SettleStop) IN Doomed(r) /\ ~ Dials(r) /\ ~ Tells(r)
  BY <1>3, <1>5, QueueFacts, LineFacts
<1>7. ~ Dials(d.effects) /\ ~ Tells(d.effects) /\ (d.state = "Closing" => Doomed(d.effects))
  BY <1>2, <1>4, <1>6
<1>8. Secrets(d)
  BY <1>2, <1>7 DEF Secrets, Kept
<1>9. Watched(d)
  BY <1>2 DEF Watched, Talking
<1>10. p \in InFlight => d.state = "Closing"
  BY <1>2 DEF AwaitingSocket, Talking
<1>11. Backed(d, p, t)
  BY <1>2, <1>7, <1>10 DEF Backed, Down, AwaitingSocket, Talking
<1>12. DialFits(d, p, live)
  BY <1>7 DEF DialFits, Dials
<1> QED
  BY <1>1, <1>8, <1>9, <1>11, <1>12 DEF Fits

LEMMA UserFits ==
    ASSUME JInv, User
    PROVE  Fits(core', pipe', pipeTls', policy'.live) /\ chunk' = 0
<1>0. core \in Cores /\ cfg \in Configs /\ cfg \in ConfigType /\ policy \in Policies
  BY ConfigsAssumption DEF JInv, IInv, TypeOK
<1>1. core.effects = <<>> /\ chunk' = 0 /\ pipe' = pipe /\ pipeTls' = pipeTls
  BY DEF User, Start, Stop, Quit, NotifyReachable, Locked, Quiescent
<1>2. /\ Secrets(core) /\ Watched(core) /\ Backed(core, pipe, pipeTls)
      /\ core.intent \in {"Unexpected", "Stopping"}
      /\ pipe \in InFlight => core.state \in AwaitingSocket \cup Talking
  BY <1>1, AtRest
<1>3. ~ Dials(core.effects) /\ ~ Tells(core.effects)
  BY <1>1, EmptyQueue
<1>4. CASE Start
  <2>1. core.state \in {"Idle", "Failed"} /\ pipe \notin InFlight
    BY <1>2, <1>4 DEF Start, AwaitingSocket, Talking
  <2>2. CASE ~ cfg.complete
    <3>1. core' = FailFatal(core)
      BY <1>4, <2>2 DEF Start, Locked
    <3>2. /\ core'.state = "Failed" /\ core'.intent = "Stopping" /\ Kept(core, core')
          /\ core'.mechanism = core.mechanism
          /\ core'.timers = core.timers \ {"Registration", "Reconnect", "Ping"}
          /\ core'.effects = Append(core.effects, Shutdown)
      BY <1>0, <3>1, FailFields
    <3>3. core.effects \in Seq(Effects) /\ Shutdown \in Effects
      BY <1>0, EffectTypes DEF Cores
    <3>4. ~ Dials(core'.effects) /\ ~ Tells(core'.effects)
      BY <1>3, <3>2, <3>3, QueueFacts, LineFacts
    <3> QED
      BY <1>1, <1>2, <2>1, <3>2, <3>4, GoneFits DEF Down
  <2>3. CASE cfg.complete
    <3>1. PICK c : c = [core EXCEPT !.intent = "Unexpected", !.attempt = 0,
                                    !.port = cfg.port, !.tls = cfg.tls, !.stsDuration = 0]
      OBVIOUS
    <3>2. 0 \in 0 .. BackoffSteps /\ cfg.port \in Nat /\ cfg.tls \in BOOLEAN
      BY <1>0, BoundsAssumption DEF ConfigType
    <3>3. c \in Cores
      BY <1>0, <3>1, <3>2 DEF Cores, DisconnectIntent
    <3>4. c.effects = <<>> /\ c.intent = "Unexpected"
      BY <1>0, <1>1, <3>1 DEF Cores
    <3>5. PICK d : d = ApplyCachedSts(c)
      OBVIOUS
    <3>6. d \in Cores /\ d.effects = <<>> /\ d.intent = "Unexpected" /\ (PolicyAfterLookup.live => d.tls)
      BY <1>0, <3>3, <3>4, <3>5, StsStepsType, LookupFacts
    <3>7. PICK e : e = ResetForConnection(d)
      OBVIOUS
    <3>8. e \in Cores /\ e.effects = <<>> /\ e.intent = "Unexpected" /\ Fresh(e) /\ e.tls = d.tls
      BY <1>0, <3>6, <3>7, ResetType, ResetFields
    <3>9. PICK f : f = SetState(e, "Connecting")
      OBVIOUS
    <3>10. f \in Cores
      BY <3>8, <3>9, SetStateType DEF SessionState
    <3>11. /\ f.effects = <<>> /\ f.intent = "Unexpected" /\ Fresh(f) /\ f.tls = d.tls
           /\ f.state = "Connecting"
      BY <3>8, <3>9 DEF SetState, Cores, Fresh
    <3>12. core' = ConnectTransport(f) /\ policy' = PolicyAfterLookup
      BY <1>4, <2>3, <3>1, <3>5, <3>7, <3>9 DEF Start, Locked
    <3>13. Fits(ConnectTransport(f), pipe, pipeTls, PolicyAfterLookup.live)
      BY <2>1, <3>6, <3>10, <3>11, DialFromRest DEF AwaitingSocket
    <3> QED
      BY <1>1, <3>12, <3>13
  <2> QED
    BY <2>2, <2>3
<1>5. CASE Stop \/ Quit
  <2>1. PICK b \in {core, Send(core, "QUIT")} : core' = StopCore(b)
    BY <1>5 DEF Stop, Quit, Locked
  <2>2. b \in Cores
    BY <1>0, SendType DEF Lines
  <2>3. Mild(core, b) /\ b.state = core.state /\ ~ Dials(b.effects)
    <3>1. Mild(core, core) /\ Mild(core, Send(core, "QUIT"))
      BY <1>0, MildSteps, SendMild DEF Lines
    <3>2. Write("QUIT") \in Effects /\ Write("QUIT").op = "Write" /\ core.effects \in Seq(Effects)
      BY <1>0, EffectTypes, LineFacts DEF Lines, Cores
    <3>3. ~ Dials(Append(core.effects, Write("QUIT")))
      BY <1>3, <3>2, QueueFacts
    <3>4. /\ Send(core, "QUIT").effects = Append(core.effects, Write("QUIT"))
          /\ Send(core, "QUIT").state = core.state
      BY <1>0, <3>2, PushFields DEF Send
    <3> QED
      BY <1>3, <3>1, <3>3, <3>4
  <2>4. Secrets(b) /\ ~ Tells(b.effects)
    BY <1>2, <1>3, <2>3, MildRest DEF Mild
  <2>5. Fits(StopCore(b), pipe, pipeTls, policy'.live)
    BY <1>0, <1>2, <2>2, <2>3, <2>4, StopFits
  <2> QED
    BY <1>1, <2>1, <2>5
<1>6. CASE NotifyReachable
  <2>1. core' = BeginReconnectAttempt(core) /\ policy' = PolicyAfterLookup /\ core.state = "Reconnecting"
    BY <1>6 DEF NotifyReachable, Locked
  <2>2. pipe \notin InFlight
    BY <1>2, <2>1 DEF Backed
  <2>3. Fits(BeginReconnectAttempt(core), pipe, pipeTls, PolicyAfterLookup.live)
    BY <1>0, <1>1, <1>2, <2>2, ReconnectFits
  <2> QED
    BY <1>1, <2>1, <2>3
<1> QED
  BY <1>1, <1>4, <1>5, <1>6 DEF User

LEMMA PingFiredFits ==
    ASSUME NEW c \in Cores, NEW p, NEW t, NEW live, c.effects = <<>>, Secrets(c), Backed(c, p, t),
           c.intent \in {"Unexpected", "Stopping"},
           c.state = "Registered" => c.welcomed,
           "Registration" \in c.timers => c.state \in Talking \cup {"StsUpgrading"},
           c.intent = "Unexpected" /\ c.state \in Talking /\ ~ c.welcomed => "Registration" \in c.timers,
           c.intent = "Unexpected" /\ c.state = "Registered" => c.ping # "Off"
    PROVE  Fits(OnPingFired(c, p), p, t, live)
<1>0. ~ Dials(c.effects) /\ ~ Tells(c.effects) /\ ~ Doomed(c.effects)
  BY EmptyQueue
<1>1. CASE c.state # "Registered" \/ c.ping = "Off"
  <2>1. OnPingFired(c, p) = c
    BY <1>1 DEF OnPingFired
  <2>2. Watched(c)
    BY <1>1 DEF Watched
  <2> QED
    BY <1>0, <2>1, <2>2, SameFits
<1>2. CASE c.state = "Registered" /\ c.ping = "Watching"
  <2>1. PICK d : d = OnPingFired(c, p)
    OBVIOUS
  <2>2. /\ d.effects = Append(c.effects, Write("PING")) /\ d.ping = "Probing"
        /\ d.timers = c.timers \cup {"Ping"} /\ d.state = c.state /\ d.intent = c.intent
        /\ d.mechanism = c.mechanism /\ Kept(c, d)
    <3>1. d = Arm(Send([c EXCEPT !.ping = "Probing"], "PING"), "Ping")
      BY <1>2, <2>1 DEF OnPingFired
    <3> QED
      BY <3>1 DEF Arm, Send, Push, Cores, Kept
  <2>3. Write("PING") \in Effects /\ Write("PING").op = "Write" /\ c.effects \in Seq(Effects)
    BY EffectTypes, LineFacts DEF Lines, Cores
  <2>4. Write("PING") # Write("CREDENTIAL")
    BY LineFacts
  <2>5. ~ Dials(d.effects) /\ ~ Tells(d.effects)
    BY <1>0, <2>2, <2>3, <2>4, QueueFacts, ZenonT(30)
  <2>6. Secrets(d)
    BY <2>2, <2>5 DEF Secrets, Kept
  <2>7. Watched(d)
    BY <2>2 DEF Watched, Kept
  <2>8. d.tls = c.tls
    BY <2>2 DEF Kept
  <2> QED
    BY <1>0, <2>1, <2>2, <2>5, <2>6, <2>7, <2>8, SameFits
<1>3. CASE c.state = "Registered" /\ c.ping = "Probing"
  <2>1. OnPingFired(c, p) = FailRetry(c, p)
    BY <1>3 DEF OnPingFired
  <2> QED
    BY <1>3, <2>1, FailRetryFits DEF Talking
<1> QED
  BY <1>1, <1>2, <1>3 DEF Cores

LEMMA TimerFits ==
    ASSUME JInv, NEW slot \in TimerSlot, TimerFired(slot)
    PROVE  Fits(core', pipe', pipeTls', policy'.live) /\ chunk' = 0
<1>0. core \in Cores /\ cfg \in Configs /\ policy \in Policies /\ BackoffIsAlone(core, pipe)
  BY DEF JInv, IInv, TypeOK, Calm
<1>1. /\ core.effects = <<>> /\ chunk' = 0 /\ pipe' = pipe /\ pipeTls' = pipeTls
      /\ slot \in core.timers
  BY DEF TimerFired, Locked, Quiescent
<1>2. /\ Secrets(core) /\ Watched(core) /\ Backed(core, pipe, pipeTls)
      /\ core.intent \in {"Unexpected", "Stopping"}
      /\ pipe \in InFlight => core.state \in AwaitingSocket \cup Talking
  BY <1>1, AtRest
<1>3. ~ Dials(core.effects) /\ ~ Tells(core.effects) /\ ~ Doomed(core.effects)
  BY <1>1, EmptyQueue
<1>4. PICK c : c = Cancel(core, {slot})
  OBVIOUS
<1>5. /\ c \in Cores /\ c.effects = <<>> /\ c.timers = core.timers \ {slot} /\ c.state = core.state
      /\ c.intent = core.intent /\ c.ping = core.ping /\ Kept(core, c) /\ c.mechanism = core.mechanism
  BY <1>0, <1>1, <1>4, CancelType DEF Cancel, Cores, Kept
<1>6. Secrets(c)
  BY <1>2, <1>3, <1>5, EmptyQueue DEF Secrets, Kept
<1>7. slot # "Reconnect" => Backed(c, pipe, pipeTls)
  BY <1>2, <1>3, <1>5, EmptyQueue DEF Backed, Kept
<1>8. CASE slot = "Reconnect"
  <2>1. core.state = "Reconnecting" /\ pipe \notin InFlight
    BY <1>0, <1>1, <1>8 DEF BackoffIsAlone
  <2>2. core' = BeginReconnectAttempt(c) /\ policy' = PolicyAfterLookup
    BY <1>4, <1>5, <1>8, <2>1 DEF TimerFired, Locked
  <2>3. Fits(BeginReconnectAttempt(c), pipe, pipeTls, PolicyAfterLookup.live)
    BY <1>0, <1>2, <1>5, <2>1, ReconnectFits
  <2> QED
    BY <1>1, <2>2, <2>3
<1>9. CASE slot = "Capability"
  <2>1. core' = OnCapabilityTimeout(c)
    BY <1>4, <1>9 DEF TimerFired, Locked
  <2>2. Watched(c)
    BY <1>2, <1>5, <1>9 DEF Watched, Kept
  <2>3. PICK n : n = AbandonOutstanding(c.caps)
    OBVIOUS
  <2>4. PICK b : b = (c.saslPending /\ "Sasl" \notin Abandoned(c.caps))
    OBVIOUS
  <2>5. PICK d : d = [c EXCEPT !.caps = n, !.saslPending = b]
    OBVIOUS
  <2>6. n \in Ledgers /\ b \in BOOLEAN
    <3>1. c.caps \in Ledgers
      BY <1>5 DEF Cores
    <3>2. n \in Ledgers
      BY <2>3, <3>1, LedgerType
    <3> QED
      BY <2>4, <3>2
  <2>7. d \in Cores /\ Mild(c, d)
    BY <1>5, <2>5, <2>6 DEF Cores, Mild, Kept
  <2>8. core' = EndCapabilityNegotiation(d)
    BY <1>5, <2>1, <2>3, <2>4, <2>5 DEF OnCapabilityTimeout, Cores
  <2>9. Mild(d, core')
    BY <2>7, <2>8, NegotiationMild
  <2>10. Mild(c, core')
    BY <2>7, <2>9, MildChain
  <2>11. /\ core'.state = c.state
         /\ core'.effects = c.effects \/ core'.effects = Append(c.effects, Write("CAP END"))
    BY <1>5, <2>1, CapabilityTimeoutType
  <2>12. ~ Dials(core'.effects)
    <3>1. Write("CAP END") \in Effects /\ Write("CAP END").op = "Write" /\ c.effects \in Seq(Effects)
      BY <1>5, EffectTypes, LineFacts DEF Lines, Cores
    <3> QED
      BY <1>5, <2>11, <3>1, QueueFacts, EmptyQueue, ZenonT(30)
  <2>13. Secrets(core') /\ Watched(core')
    BY <1>6, <2>2, <2>10, <2>11, MildRest
  <2>14. core'.intent = c.intent /\ core'.tls = c.tls
    BY <2>10 DEF Mild, Kept
  <2>15. "Reconnect" \in c.timers => "Reconnect" \in core'.timers
    BY <2>10 DEF Mild
  <2>16. Doomed(c.effects) => Doomed(core'.effects)
    BY <2>10 DEF Mild
  <2>17. ~ Dials(c.effects)
    BY <1>5, EmptyQueue
  <2>18. Fits(core', pipe, pipeTls, policy'.live)
    BY <1>7, <1>9, <2>11, <2>12, <2>13, <2>14, <2>15, <2>16, <2>17, SameFits
  <2> QED
    BY <1>1, <2>18
<1>10. CASE slot = "Registration"
  <2>1. core' = OnRegistrationTimeout(c, pipe)
    BY <1>4, <1>10 DEF TimerFired, Locked
  <2>2. c.state \in Talking \cup {"StsUpgrading"} /\ (c.state = "Registered" => c.welcomed)
    BY <1>1, <1>2, <1>5, <1>10 DEF Watched, Kept
  <2>3. CASE c.state = "Registered"
    <3>1. core' = c
      BY <2>1, <2>3 DEF OnRegistrationTimeout
    <3>2. Watched(c)
      BY <1>2, <1>5, <1>10, <2>2, <2>3 DEF Watched, Kept
    <3>3. ~ Dials(c.effects)
      BY <1>5, EmptyQueue
    <3>4. Fits(c, pipe, pipeTls, policy'.live)
      BY <1>6, <1>7, <1>10, <3>2, <3>3, SameFits
    <3> QED
      BY <1>1, <3>1, <3>4
  <2>4. CASE c.state # "Registered"
    <3>1. core' = FailRetry(c, pipe)
      BY <2>1, <2>2, <2>4 DEF OnRegistrationTimeout, Talking
    <3>2. Fits(FailRetry(c, pipe), pipe, pipeTls, policy'.live)
      BY <1>2, <1>5, <1>6, <1>7, <1>10, <2>2, FailRetryFits
    <3> QED
      BY <1>1, <3>1, <3>2
  <2> QED
    BY <2>3, <2>4
<1>11. CASE slot = "Ping"
  <2>1. core' = OnPingFired(c, pipe)
    BY <1>4, <1>11 DEF TimerFired, Locked
  <2>2. /\ c.state = "Registered" => c.welcomed
        /\ "Registration" \in c.timers => c.state \in Talking \cup {"StsUpgrading"}
        /\ c.intent = "Unexpected" /\ c.state \in Talking /\ ~ c.welcomed => "Registration" \in c.timers
        /\ c.intent = "Unexpected" /\ c.state = "Registered" => c.ping # "Off"
    BY <1>2, <1>5, <1>11 DEF Watched, Kept
  <2>3. Fits(OnPingFired(c, pipe), pipe, pipeTls, policy'.live)
    BY <1>2, <1>5, <1>6, <1>7, <1>11, <2>2, PingFiredFits
  <2> QED
    BY <1>1, <2>1, <2>3
<1> QED
  BY <1>8, <1>9, <1>10, <1>11 DEF TimerSlot

LEMMA NegotiationBegins ==
    ASSUME NEW c \in Cores, c.effects = <<>>
    PROVE  LET d == BeginCapabilityNegotiation(c)
           IN /\ d.state = "CapLs" /\ "Registration" \in d.timers /\ d.intent = c.intent
              /\ Kept(c, d) /\ d.mechanism = c.mechanism
              /\ ~ Doomed(d.effects) /\ ~ Tells(d.effects) /\ ~ Dials(d.effects)
<1>1. PICK d : d = BeginCapabilityNegotiation(c)
  OBVIOUS
<1>2. /\ d.state = "CapLs" /\ "Registration" \in d.timers /\ d.intent = c.intent
      /\ Kept(c, d) /\ d.mechanism = c.mechanism
      /\ d.effects = Append(c.effects, Write("CAP LS"))
  BY <1>1 DEF BeginCapabilityNegotiation, Arm, Send, Push, SetState, Cores, Kept
<1>3. Write("CAP LS") \in Effects /\ Write("CAP LS").op = "Write" /\ c.effects \in Seq(Effects)
  BY EffectTypes, LineFacts DEF Lines, Cores
<1>4. Write("CAP LS") # Write("CREDENTIAL")
  BY LineFacts
<1>5. ~ Doomed(c.effects) /\ ~ Tells(c.effects) /\ ~ Dials(c.effects)
  BY EmptyQueue
<1>6. ~ Doomed(d.effects) /\ ~ Tells(d.effects) /\ ~ Dials(d.effects)
  BY <1>2, <1>3, <1>4, <1>5, QueueFacts
<1> QED
  BY <1>1, <1>2, <1>6

LEMMA NetFits ==
    ASSUME JInv, IInv', Net
    PROVE  /\ Fits(core', pipe', pipeTls', policy'.live)
           /\ chunk' > 0 => Open(pipe', pipeTls') /\ Sound(core')
<1>0. core \in Cores /\ cfg \in Configs /\ policy \in Policies
  BY DEF JInv, IInv, TypeOK
<1>1. core.effects = <<>> /\ chunk = 0 /\ pipe \in InFlight /\ pipeTls' = pipeTls
  BY DEF Net, NetConnected, NetEncrypted, NetClosed, NetFailed, BytesReceived, Quiescent,
         PipeOpen, InFlight
<1>2. /\ Secrets(core) /\ Watched(core) /\ Backed(core, pipe, pipeTls) /\ pipeTls \in BOOLEAN
      /\ core.intent \in {"Unexpected", "Stopping"}
      /\ core.state \in AwaitingSocket \cup Talking
      /\ core.state \in AwaitingSocket => pipeTls = core.tls /\ ~ Open(pipe, pipeTls)
  BY <1>1, AtRest
<1>3. ~ Dials(core.effects) /\ ~ Tells(core.effects) /\ ~ Doomed(core.effects)
  BY <1>1, EmptyQueue
<1>4. core.state # "Reconnecting" /\ core.state \notin Down
  BY <1>2 DEF AwaitingSocket, Talking, Down
<1>a. ASSUME NEW d, NEW p, d = BeginCapabilityNegotiation(core), Open(p, pipeTls)
      PROVE  Fits(d, p, pipeTls, policy'.live)
  <2>1. /\ d.state = "CapLs" /\ "Registration" \in d.timers /\ d.intent = core.intent
        /\ Kept(core, d) /\ d.mechanism = core.mechanism
        /\ ~ Doomed(d.effects) /\ ~ Tells(d.effects) /\ ~ Dials(d.effects)
    BY <1>0, <1>1, <1>a, NegotiationBegins
  <2>2. Secrets(d)
    BY <1>2, <2>1 DEF Secrets, Kept
  <2>3. Watched(d)
    BY <1>2, <2>1 DEF Watched, Talking
  <2>4. Backed(d, p, pipeTls)
    BY <1>2, <1>a, <2>1 DEF Backed, Down, AwaitingSocket
  <2>5. DialFits(d, p, policy'.live)
    BY <2>1 DEF DialFits, Dials
  <2> QED
    BY <2>2, <2>3, <2>4, <2>5 DEF Fits
<1>b. ASSUME NEW p \in InFlight, core.state \in AwaitingSocket => ~ Open(p, pipeTls),
             core.state \in Talking /\ core.intent # "Stopping" => Open(p, pipeTls)
      PROVE  Fits(core, p, pipeTls, policy'.live)
  <2>1. Backed(core, p, pipeTls)
    BY <1>2, <1>3, <1>4, <1>b DEF Backed
  <2>2. DialFits(core, p, policy'.live)
    BY <1>3 DEF DialFits, Dials
  <2> QED
    BY <1>2, <2>1, <2>2 DEF Fits
<1>c. ASSUME NEW p, p \notin InFlight, NEW c \in Cores, c.effects = <<>>, Kept(core, c),
             c.mechanism = core.mechanism, c.state = core.state, c.intent = "Unexpected"
      PROVE  Fits(FailRetry(c, p), p, pipeTls, policy'.live)
  <2>1. PICK d : d = FailRetry(c, p)
    OBVIOUS
  <2>2. /\ d.state \in {"Failed", "Reconnecting"}
        /\ d.state = "Reconnecting" => "Reconnect" \in d.timers
        /\ "Registration" \notin d.timers
        /\ d.effects = c.effects /\ d.intent = c.intent
        /\ Kept(c, d) /\ d.mechanism = c.mechanism
    BY <1>4, <1>c, <2>1, FailGone
  <2>3. ~ Dials(d.effects) /\ ~ Tells(d.effects)
    BY <1>c, <2>2, EmptyQueue
  <2>4. Kept(core, d) /\ d.state \in Down \cup {"Reconnecting"} /\ d.intent # "Reconnecting"
        /\ d.mechanism = core.mechanism
    BY <1>c, <2>2 DEF Kept, Down
  <2>5. Fits(d, p, pipeTls, policy'.live)
    BY <1>2, <1>c, <2>2, <2>3, <2>4, GoneFits
  <2> QED
    BY <2>1, <2>5
<1>d. ASSUME NEW p, p \notin InFlight, NEW c, c.effects = <<>>, Kept(core, c),
             c.mechanism = core.mechanism, c.state = core.state, c.intent = "Stopping",
             c.timers = core.timers, core.intent = "Stopping"
      PROVE  Fits(c, p, pipeTls, policy'.live)
  <2>1. ~ Dials(c.effects) /\ ~ Tells(c.effects)
    BY <1>d, EmptyQueue
  <2>2. Secrets(c)
    BY <1>2, <1>d, <2>1 DEF Secrets, Kept
  <2>3. Watched(c)
    BY <1>2, <1>d DEF Watched, Kept
  <2>4. c.state = "StsUpgrading" => c.tls
    BY <1>2, <1>d DEF Backed, Kept
  <2> QED
    BY <1>4, <1>d, <2>1, <2>2, <2>3, <2>4, RestFits
<1>5. CASE NetConnected
  <2>1. /\ pipe = "Connecting" /\ pipe' = "Connected" /\ core' = OnConnected(core) /\ chunk' = chunk
    BY <1>5 DEF NetConnected
  <2>2. ~ Open(pipe, pipeTls) /\ "Connected" \in InFlight
    BY <2>1 DEF Open, InFlight
  <2>3. core.state \in Talking => core.intent = "Stopping"
    BY <1>2, <2>2 DEF Backed
  <2>4. CASE ~ core.tls /\ core.state \in AwaitingSocket
    <3>1. core' = BeginCapabilityNegotiation(core)
      BY <2>1, <2>4 DEF OnConnected
    <3>2. Open("Connected", pipeTls)
      BY <1>2, <2>4 DEF Open
    <3> QED
      BY <1>1, <1>a, <2>1, <3>1, <3>2
  <2>5. CASE ~ (~ core.tls /\ core.state \in AwaitingSocket)
    <3>1. core' = core
      BY <2>1, <2>5 DEF OnConnected
    <3>2. core.state \in AwaitingSocket => ~ Open("Connected", pipeTls)
      BY <1>2, <2>5 DEF Open
    <3> QED
      BY <1>1, <1>b, <2>1, <2>2, <2>3, <3>1, <3>2
  <2> QED
    BY <2>4, <2>5
<1>6. CASE NetEncrypted
  <2>1. /\ pipe' = "Encrypted" /\ core' = OnEncrypted(core) /\ chunk' = chunk
    BY <1>6 DEF NetEncrypted
  <2>0. pipeTls = TRUE
    BY <1>2, <1>6 DEF NetEncrypted
  <2>2. Open("Encrypted", pipeTls) /\ "Encrypted" \in InFlight
    BY DEF Open, InFlight
  <2>3. CASE core.state \in AwaitingSocket
    <3>1. core' = BeginCapabilityNegotiation(core)
      BY <1>2, <2>0, <2>1, <2>3 DEF OnEncrypted
    <3> QED
      BY <1>1, <1>a, <2>1, <2>2, <3>1
  <2>4. CASE core.state \notin AwaitingSocket
    <3>1. core' = core
      BY <2>1, <2>4 DEF OnEncrypted
    <3> QED
      BY <1>1, <1>b, <2>1, <2>2, <2>4, <3>1
  <2> QED
    BY <2>3, <2>4
<1>7. CASE NetClosed
  <2>1. pipe' = "Disconnected" /\ core' = OnDisconnected(core) /\ chunk' = chunk /\ PipeOpen
    BY <1>7 DEF NetClosed
  <2>2. "Disconnected" \notin InFlight
    BY DEF InFlight
  <2>3. core.state # "StsUpgrading"
    BY <1>2, <2>1 DEF Open, PipeOpen, AwaitingSocket
  <2>4. PICK c : c = TakeStsDuration(core)
    OBVIOUS
  <2>5. /\ c \in Cores /\ c.effects = <<>> /\ Kept(core, c) /\ c.mechanism = core.mechanism
        /\ c.state = core.state /\ c.intent = core.intent /\ c.timers = core.timers
    BY <1>0, <1>1, <2>4, StsStepsType DEF TakeStsDuration, Cores, Kept
  <2>6. CASE core.intent = "Unexpected"
    <3>1. core' = FailRetry(c, "Disconnected")
      BY <2>1, <2>3, <2>4, <2>5, <2>6 DEF OnDisconnected, FinishesStsUpgrade
    <3> QED
      BY <1>1, <1>c, <2>1, <2>2, <2>5, <2>6, <3>1
  <2>7. CASE core.intent = "Stopping"
    <3>1. core' = c
      BY <1>4, <2>1, <2>4, <2>5, <2>7 DEF OnDisconnected, FinishesStsUpgrade, Down
    <3> QED
      BY <1>1, <1>d, <2>1, <2>2, <2>5, <2>7, <3>1
  <2> QED
    BY <1>2, <2>6, <2>7
<1>8. CASE NetFailed
  <2>1. /\ pipe' = "Failed" /\ chunk' = chunk
        /\ core' = IF core.intent = "Stopping" THEN core ELSE FailRetry(core, "Failed")
    BY <1>8 DEF NetFailed
  <2>2. "Failed" \notin InFlight /\ Kept(core, core)
    BY DEF InFlight, Kept
  <2>3. CASE core.intent = "Unexpected"
    BY <1>0, <1>1, <1>c, <2>1, <2>2, <2>3
  <2>4. CASE core.intent = "Stopping"
    BY <1>0, <1>1, <1>d, <2>1, <2>2, <2>4
  <2> QED
    BY <1>2, <2>3, <2>4
<1>9. CASE BytesReceived
  <2>1. /\ pipe' = pipe /\ core' \in {core, ArmPing(core)} /\ chunk' = MaxFrames /\ PipeOpen
    BY <1>9 DEF BytesReceived
  <2>2. Open(pipe, pipeTls) /\ core.state \in Talking
    BY <1>2, <2>1 DEF Open, PipeOpen
  <2>3. Sound(core)
    BY <1>2, <1>3, <2>2 DEF Sound, Talking
  <2>4. Good(core) /\ Good(ArmPing(core))
    BY <1>0, <1>2, <2>3, PongGood DEF Good
  <2>5. core' \in Quiet
    <3>1. chunk' > 0
      BY <2>1, BoundsAssumption
    <3> QED
      BY <3>1 DEF IInv
  <2>6. Fits(core', pipe, pipeTls, policy'.live)
    BY <2>1, <2>2, <2>4, <2>5, GoodFits
  <2> QED
    BY <1>1, <2>1, <2>2, <2>4, <2>6 DEF Good
<1> QED
  BY <1>5, <1>6, <1>7, <1>8, <1>9 DEF Net

-----------------------------------------------------------------------------
(* The queued calls *)

LEMMA TailFacts ==
    ASSUME NEW q \in Seq(Effects), q # <<>>
    PROVE  /\ Doomed(q) <=> Head(q).op = "Shutdown" \/ Doomed(Tail(q))
           /\ Tells(Tail(q)) => Tells(q)
           /\ (\A k \in DOMAIN q : q[k].op = "Connect" => k = 1) =>
                 ~ Dials(Tail(q)) /\ (Dials(q) <=> Head(q).op = "Connect")
<1>1. PICK r : r = Tail(q)
  OBVIOUS
<1>2. /\ 1 \in DOMAIN q /\ q[1] = Head(q)
      /\ \A k \in DOMAIN r : k + 1 \in DOMAIN q /\ r[k] = q[k + 1] /\ k + 1 # 1
      /\ \A k \in DOMAIN q : k = 1 \/ (k - 1 \in DOMAIN r /\ r[k - 1] = q[k])
  BY <1>1
<1>3. Doomed(q) <=> q[1].op = "Shutdown" \/ Doomed(r)
  BY <1>2 DEF Doomed
<1>4. Tells(r) => Tells(q)
  BY <1>2 DEF Tells
<1>5. (\A k \in DOMAIN q : q[k].op = "Connect" => k = 1) =>
         ~ Dials(r) /\ (Dials(q) <=> q[1].op = "Connect")
  BY <1>2 DEF Dials
<1> QED
  BY <1>1, <1>2, <1>3, <1>4, <1>5

LEMMA ConsFacts ==
    ASSUME NEW e \in Effects, NEW r \in Seq(Effects), e.op = "Connect", ~ Dials(r)
    PROVE  /\ Dials(<<e>> \o r)
           /\ \A k \in DOMAIN (<<e>> \o r) : (<<e>> \o r)[k].op = "Connect" => (<<e>> \o r)[k] = e
<1>1. PICK q : q = <<e>> \o r
  OBVIOUS
<1>2. /\ 1 \in DOMAIN q /\ q[1] = e
      /\ \A k \in DOMAIN q : k = 1 \/ (k - 1 \in DOMAIN r /\ q[k] = r[k - 1])
  BY <1>1
<1> QED
  BY <1>1, <1>2 DEF Dials

LEMMA ShutdownFits ==
    ASSUME JInv, RunShutdown, pipe \in InFlight
    PROVE  Fits(core', pipe', pipeTls', policy'.live)
<1> DEFINE rest == Tail(core.effects)
<1>0. /\ core \in Cores /\ cfg \in Configs /\ policy \in Policies
      /\ core.effects \in Seq(Effects) /\ core.effects # <<>>
      /\ Secrets(core) /\ Watched(core) /\ Backed(core, pipe, pipeTls)
  BY DEF JInv, IInv, TypeOK, Fits, RunShutdown, Running, Cores
<1>1. rest \in Seq(Effects) /\ ~ Dials(rest) /\ (Tells(rest) => Tells(core.effects))
  <2>1. \A k \in DOMAIN core.effects : core.effects[k].op = "Connect" => k = 1
    BY DEF JInv, IInv, Calm, DialIsNext
  <2> QED
    BY <1>0, <2>1, TailFacts
<1> HIDE DEF rest
<1>2. PICK b : b = [core EXCEPT !.effects = <<>>]
  OBVIOUS
<1>3. /\ b \in Cores /\ b.effects = <<>> /\ b.timers = core.timers /\ b.mechanism = core.mechanism
      /\ b.intent = core.intent /\ b.state = core.state /\ Kept(core, b) /\ b.tls = core.tls
  <2>1. <<>> \in Seq(Effects)
    OBVIOUS
  <2> QED
    BY <1>0, <1>2, <2>1 DEF Cores, Kept
<1>4. PICK c : c = OnDisconnected(b)
  OBVIOUS
<1>5. c \in Cores
  BY <1>0, <1>3, <1>4, DisconnectedType
<1>6. /\ core' = [c EXCEPT !.effects = c.effects \o rest] /\ pipe' = "Disconnected"
      /\ policy' = PolicyAfterDisconnect(core) /\ pipeTls' = pipeTls
  BY <1>2, <1>4, <1>5 DEF RunShutdown, rest, Cores
<1>7. /\ core'.effects = c.effects \o rest /\ core'.state = c.state /\ core'.intent = c.intent
      /\ core'.timers = c.timers /\ core'.mechanism = c.mechanism /\ Kept(c, core')
      /\ core'.tls = c.tls
  BY <1>5, <1>6 DEF Cores, Kept
<1>8. "Disconnected" \notin InFlight
  BY DEF InFlight
<1>9. core.state # "Reconnecting" /\ core.intent \in DisconnectIntent
  BY <1>0 DEF Backed, Cores
<1>a. ASSUME c.effects = <<>>, Kept(core, c), c.mechanism = core.mechanism,
             c.state \in Down \cup {"Reconnecting"}, c.state = "Reconnecting" => "Reconnect" \in c.timers,
             "Registration" \notin c.timers, c.intent # "Reconnecting"
      PROVE  Fits(core', pipe', pipeTls', policy'.live)
  <2>1. core'.effects = rest
    BY <1>1, <1>7, <1>a
  <2>2. Kept(core, core') /\ core'.mechanism = core.mechanism
    BY <1>7, <1>a DEF Kept
  <2>3. Tells(core'.effects) => Tells(core.effects)
    BY <1>1, <2>1
  <2>4. ~ Dials(core'.effects)
    BY <1>1, <2>1
  <2>5. Fits(core', "Disconnected", pipeTls, policy'.live)
    BY <1>0, <1>7, <1>8, <1>a, <2>2, <2>3, <2>4, GoneFits
  <2> QED
    BY <1>6, <2>5
<1>10. CASE FinishesStsUpgrade(b)
  <2>1. PICK d : d = ResetForConnection(b)
    OBVIOUS
  <2>2. d \in Cores /\ Fresh(d) /\ d.effects = <<>> /\ d.state = b.state /\ d.intent = b.intent /\ d.tls = b.tls
    BY <1>0, <1>3, <2>1, ResetType, ResetFields
  <2>3. c = ConnectTransport(d)
    BY <1>4, <1>10, <2>1 DEF OnDisconnected
  <2>4. PICK e : e = Connect(d.port, d.tls)
    OBVIOUS
  <2>5. e \in Effects /\ e.op = "Connect" /\ e.tls = d.tls
    BY <2>2, <2>4, EffectTypes, LineFacts DEF Cores
  <2>6. /\ c.effects = Append(d.effects, e)
        /\ c.state = d.state /\ c.intent = d.intent /\ c.tls = d.tls /\ Kept(d, c)
        /\ c.timers = d.timers /\ c.mechanism = d.mechanism
    BY <2>2, <2>3, <2>4, ConnectFields
  <2>7. core'.effects = <<e>> \o rest
    BY <1>7, <2>2, <2>6
  <2>8. Dials(core'.effects)
    BY <1>1, <2>5, <2>7, ConsFacts
  <2>9. \A k \in DOMAIN core'.effects :
           core'.effects[k].op = "Connect" => core'.effects[k].tls = core'.tls
    <3>1. \A k \in DOMAIN core'.effects : core'.effects[k].op = "Connect" => core'.effects[k] = e
      BY <1>1, <2>5, <2>7, ConsFacts
    <3> QED
      BY <1>7, <2>5, <2>6, <3>1
  <2>10. core.state = "StsUpgrading" /\ core.intent = "Unexpected" /\ core.tls
    BY <1>0, <1>3, <1>10 DEF FinishesStsUpgrade, Backed
  <2>11. Fresh(core')
    BY <1>7, <2>2, <2>6 DEF Fresh, Kept
  <2>12. core'.state = "StsUpgrading" /\ core'.intent = "Unexpected" /\ core'.tls
    BY <1>3, <1>7, <2>2, <2>6, <2>10
  <2>13. Fits(core', "Disconnected", pipeTls, policy'.live)
    BY <1>8, <2>8, <2>9, <2>11, <2>12, DialledFits DEF AwaitingSocket
  <2> QED
    BY <1>6, <2>13
<1>11. CASE ~ FinishesStsUpgrade(b)
  <2>1. PICK d : d = TakeStsDuration(b)
    OBVIOUS
  <2>2. /\ d \in Cores /\ d.effects = <<>> /\ Kept(core, d) /\ d.mechanism = core.mechanism
        /\ d.state = core.state /\ d.intent = core.intent /\ d.timers = core.timers
    BY <1>0, <1>3, <2>1, StsStepsType, SMTT(30) DEF TakeStsDuration, Cores, Kept
  <2>3. CASE core.intent = "Reconnecting"
    <3>1. PICK f : f = [d EXCEPT !.intent = "Unexpected"]
      OBVIOUS
    <3>2. c = ScheduleReconnect(f)
      BY <1>4, <1>11, <2>1, <2>2, <2>3, <3>1 DEF OnDisconnected
    <3>3. /\ f \in Cores /\ f.effects = <<>> /\ Kept(core, f) /\ f.mechanism = core.mechanism
          /\ f.state = core.state /\ f.intent = "Unexpected" /\ f.timers = core.timers
      BY <2>2, <3>1 DEF Cores, Kept, DisconnectIntent
    <3>4. /\ c.state \in {"Failed", "Reconnecting"}
          /\ c.state = "Reconnecting" => "Reconnect" \in c.timers
          /\ c.timers \subseteq f.timers \cup {"Reconnect"}
          /\ c.effects = f.effects /\ c.intent = f.intent
          /\ Kept(f, c) /\ c.mechanism = f.mechanism
      BY <1>9, <3>2, <3>3, ScheduleFields
    <3>5. "Registration" \notin c.timers
      BY <1>0, <2>3, <3>3, <3>4 DEF Watched
    <3>6. Kept(core, c)
      BY <3>3, <3>4 DEF Kept
    <3>7. c.effects = <<>> /\ c.mechanism = core.mechanism /\ c.intent # "Reconnecting"
          /\ c.state \in Down \cup {"Reconnecting"}
      BY <3>3, <3>4 DEF Down
    <3> QED
      BY <1>a, <3>4, <3>5, <3>6, <3>7
  <2>4. CASE core.intent = "Unexpected"
    <3>1. c = FailRetry(d, "Disconnected")
      BY <1>4, <1>11, <2>1, <2>2, <2>4 DEF OnDisconnected
    <3>2. /\ c.state \in {"Failed", "Reconnecting"}
          /\ c.state = "Reconnecting" => "Reconnect" \in c.timers
          /\ "Registration" \notin c.timers
          /\ c.effects = d.effects /\ c.intent = d.intent
          /\ Kept(d, c) /\ c.mechanism = d.mechanism
      BY <1>8, <1>9, <2>2, <3>1, FailGone
    <3>3. Kept(core, c) /\ c.state \in Down \cup {"Reconnecting"}
      BY <2>2, <3>2 DEF Kept, Down
    <3> QED
      BY <1>a, <2>2, <2>4, <3>2, <3>3
  <2>5. CASE core.intent = "Stopping" /\ core.state = "Closing"
    <3>1. c = SetState(d, "Idle")
      BY <1>4, <1>11, <2>1, <2>2, <2>5 DEF OnDisconnected
    <3>2. /\ c.state = "Idle" /\ c.effects = <<>> /\ Kept(core, c) /\ c.mechanism = core.mechanism
          /\ c.intent = "Stopping" /\ c.timers = core.timers
      BY <2>2, <2>5, <3>1 DEF SetState, Cores, Kept
    <3>3. "Registration" \notin core.timers
      BY <1>0, <2>5 DEF Watched, Talking
    <3> QED
      BY <1>a, <3>2, <3>3 DEF Down
  <2>6. CASE core.intent = "Stopping" /\ core.state # "Closing"
    <3>1. c = d
      BY <1>4, <1>11, <2>1, <2>2, <2>6 DEF OnDisconnected
    <3>2. core'.effects = rest /\ core'.state = core.state /\ core'.intent = "Stopping"
          /\ core'.timers = core.timers /\ core'.mechanism = core.mechanism
      BY <1>1, <1>7, <2>2, <2>6, <3>1
    <3>3. Kept(core, core')
      BY <1>7, <2>2, <3>1 DEF Kept
    <3>4. Secrets(core')
      BY <1>0, <1>1, <3>2, <3>3 DEF Secrets, Kept
    <3>5. Watched(core')
      BY <1>0, <2>6, <3>2, <3>3 DEF Watched, Kept
    <3>6. core'.state = "StsUpgrading" => core'.tls
      BY <1>0, <3>2, <3>3 DEF Backed, Kept
    <3>7. Fits(core', "Disconnected", pipeTls, policy'.live)
      BY <1>1, <1>8, <1>9, <3>2, <3>4, <3>5, <3>6, RestFits
    <3> QED
      BY <1>6, <3>7
  <2> QED
    BY <1>9, <2>3, <2>4, <2>5, <2>6 DEF DisconnectIntent
<1> QED
  BY <1>10, <1>11

LEMMA EffectFits ==
    ASSUME JInv, RunEffect
    PROVE  Fits(core', pipe', pipeTls', policy'.live) /\ chunk' = 0
<1> DEFINE rest == Tail(core.effects)
<1>0. /\ core \in Cores /\ chunk' = 0 /\ pipeTls \in BOOLEAN
      /\ core.effects \in Seq(Effects) /\ core.effects # <<>>
      /\ Secrets(core) /\ Watched(core) /\ Backed(core, pipe, pipeTls)
      /\ DialFits(core, pipe, policy.live)
  BY DEF JInv, IInv, TypeOK, Fits, RunEffect, RunWrite, RunConnect, RunShutdown, RunSettleStop,
         Running, Cores
<1>1. \A k \in DOMAIN core.effects :
         core.effects[k].op = "Connect" => k = 1 /\ core.state \in AwaitingSocket
  BY DEF JInv, IInv, Calm, DialIsNext
<1>2. /\ rest \in Seq(Effects) /\ ~ Dials(rest) /\ (Tells(rest) => Tells(core.effects))
      /\ Doomed(core.effects) <=> Head(core.effects).op = "Shutdown" \/ Doomed(rest)
      /\ Dials(core.effects) <=> Head(core.effects).op = "Connect"
  BY <1>0, <1>1, TailFacts
<1> HIDE DEF rest
<1>3. PICK d : d = Popped
  OBVIOUS
<1>4. /\ d \in Cores /\ d.effects = rest /\ d.timers = core.timers /\ d.state = core.state
      /\ d.intent = core.intent /\ d.ping = core.ping /\ Kept(core, d) /\ d.mechanism = core.mechanism
      /\ d.tls = core.tls
  BY <1>0, <1>2, <1>3 DEF Popped, Cores, Kept, rest
<1>5. Secrets(d)
  BY <1>0, <1>2, <1>4 DEF Secrets, Kept
<1>6. Watched(d)
  BY <1>0, <1>4 DEF Watched, Kept
<1>a. ASSUME Head(core.effects).op \notin {"Shutdown", "Connect"}
      PROVE  Fits(d, pipe, pipeTls, policy.live)
  BY <1>0, <1>2, <1>4, <1>5, <1>6, <1>a, SameFits
<1>7. CASE RunWrite
  <2>1. core' = d /\ UNCHANGED <<pipe, pipeTls, policy>> /\ Head(core.effects).op = "Write"
    BY <1>3, <1>7 DEF RunWrite, Running
  <2> QED
    BY <1>0, <1>a, <2>1
<1>8. CASE RunConnect
  <2>1. core' = d /\ policy' = policy /\ Head(core.effects).op = "Connect"
    BY <1>3, <1>8 DEF RunConnect, Running
  <2>2. 1 \in DOMAIN core.effects /\ core.effects[1] = Head(core.effects)
    BY <1>0
  <2>3. /\ pipe \notin InFlight /\ Head(core.effects).tls = core.tls
        /\ core.state \in AwaitingSocket
    BY <1>0, <1>1, <2>1, <2>2 DEF DialFits
  <2>4. pipe' = "Connecting" /\ pipeTls' = core.tls
    BY <1>8, <2>3 DEF RunConnect
  <2>5. ~ Open("Connecting", core.tls) /\ "Connecting" \in InFlight
    BY DEF Open, InFlight
  <2>6. Backed(d, "Connecting", core.tls)
    BY <1>0, <1>4, <2>3, <2>5 DEF Backed, AwaitingSocket, Talking, Down
  <2>7. DialFits(d, "Connecting", policy.live)
    BY <1>2, <1>4 DEF DialFits, Dials
  <2> QED
    BY <1>0, <1>5, <1>6, <2>1, <2>4, <2>6, <2>7 DEF Fits
<1>9. CASE RunShutdown /\ pipe \notin InFlight
  <2>1. core' = d /\ UNCHANGED <<pipe, pipeTls, policy>> /\ Head(core.effects).op = "Shutdown"
    BY <1>3, <1>9 DEF RunShutdown, Running
  <2>2. ~ Dials(core.effects)
    BY <1>2, <2>1
  <2>3. Backed(d, pipe, pipeTls)
    BY <1>0, <1>4, <1>9, <2>2 DEF Backed
  <2>4. DialFits(d, pipe, policy.live)
    BY <1>2, <1>4 DEF DialFits, Dials
  <2> QED
    BY <1>0, <1>5, <1>6, <2>1, <2>3, <2>4 DEF Fits
<1>10. CASE RunShutdown /\ pipe \in InFlight
  BY <1>0, <1>10, ShutdownFits
<1>11. CASE RunSettleStop
  <2>1. /\ core' = IF pipe \in InFlight THEN d ELSE SetState(d, "Idle")
        /\ UNCHANGED <<pipe, pipeTls, policy>> /\ Head(core.effects).op = "SettleStop"
    BY <1>3, <1>11 DEF RunSettleStop, Running
  <2>2. CASE pipe \in InFlight
    BY <1>0, <1>a, <2>1, <2>2
  <2>3. CASE pipe \notin InFlight
    <3>1. 1 \in DOMAIN core.effects /\ core.effects[1] = Head(core.effects)
      BY <1>0
    <3>2. core.intent = "Stopping" /\ core.state \in {"Closing", "Idle"}
      BY <2>1, <3>1 DEF JInv, IInv, Calm, SettleFollowsStop
    <3>3. PICK e : e = SetState(d, "Idle")
      OBVIOUS
    <3>4. /\ e.state = "Idle" /\ e.effects = rest /\ e.timers = core.timers
          /\ e.intent = core.intent /\ Kept(core, e) /\ e.mechanism = core.mechanism
      BY <1>4, <3>3 DEF SetState, Cores, Kept
    <3>5. "Registration" \notin core.timers
      BY <1>0, <3>2 DEF Watched, Talking
    <3>6. Fits(e, pipe, pipeTls, policy.live)
      BY <1>0, <1>2, <2>3, <3>2, <3>4, <3>5, GoneFits DEF Down
    <3> QED
      BY <1>0, <2>1, <2>3, <3>3, <3>6
  <2> QED
    BY <2>2, <2>3
<1> QED
  BY <1>7, <1>8, <1>9, <1>10, <1>11 DEF RunEffect

-----------------------------------------------------------------------------
(* The invariant *)

LEMMA JInit == Init => JInv
<1> SUFFICES ASSUME Init PROVE JInv
  OBVIOUS
<1>1. IInv
  BY InitInv
<1>2. /\ core.state = "Idle" /\ core.intent = "Unexpected" /\ core.timers = {} /\ core.effects = <<>>
      /\ core.scram = "none" /\ core.mechanism = "none" /\ ~ core.exchangeStarted
      /\ ~ core.saslSucceeded /\ pipe = "Idle" /\ chunk = 0
  BY DEF Init
<1>3. ~ Tells(core.effects) /\ ~ Dials(core.effects) /\ "Idle" \notin InFlight
  BY <1>2, EmptyQueue DEF InFlight
<1>4. Secrets(core)
  BY <1>2, <1>3 DEF Secrets
<1>5. Watched(core)
  BY <1>2 DEF Watched, Talking
<1>6. Fits(core, pipe, pipeTls, policy.live)
  BY <1>2, <1>3, <1>4, <1>5, RestFits DEF Down
<1> QED
  BY <1>1, <1>2, <1>6 DEF JInv

LEMMA JFrame ==
    ASSUME JInv, IInv', HandleFrame
    PROVE  /\ Fits(core', pipe', pipeTls', policy'.live)
           /\ Open(pipe', pipeTls') /\ Sound(core')
<1>1. TypeOK /\ Fits(core, pipe, pipeTls, policy.live)
  BY DEF JInv, IInv
<1>2. /\ chunk > 0 /\ UNCHANGED <<cfg, pipe, pipeTls>>
      /\ core \in Quiet /\ pipe \in InFlight => core' \in Quiet
  BY <1>1, FrameStep
<1>3. Open(pipe, pipeTls) /\ Sound(core) /\ core \in Quiet /\ pipe \in InFlight
  BY <1>2 DEF JInv, IInv
<1>4. Good(core)
  BY <1>1, <1>3 DEF Good, Fits
<1>5. Good(core')
  BY <1>1, <1>3, <1>4, FrameGood
<1>6. core' \in Quiet
  BY <1>2, <1>3
<1>7. Fits(core', pipe, pipeTls, policy'.live)
  BY <1>3, <1>5, <1>6, GoodFits
<1> QED
  BY <1>2, <1>3, <1>5, <1>7 DEF Good

LEMMA JNext == JInv /\ [Next]_vars => JInv'
<1> SUFFICES ASSUME JInv, [Next]_vars PROVE JInv'
  OBVIOUS
<1>1. IInv'
  BY NextInv DEF JInv
<1>a. ASSUME Fits(core', pipe', pipeTls', policy'.live),
             chunk' > 0 => Open(pipe', pipeTls') /\ Sound(core')
      PROVE  JInv'
  BY <1>1, <1>a DEF JInv
<1>b. 0 > 0 <=> FALSE
  OBVIOUS
<1>2. CASE HandleFrame
  BY <1>1, <1>2, <1>a, JFrame
<1>3. CASE User
  BY <1>3, <1>a, <1>b, UserFits
<1>4. CASE Timers
  BY <1>4, <1>a, <1>b, TimerFits DEF Timers
<1>5. CASE Net
  BY <1>1, <1>5, <1>a, NetFits
<1>6. CASE RunEffect
  BY <1>6, <1>a, <1>b, EffectFits
<1>7. CASE EndOfChunk
  <2>1. chunk' = 0 /\ UNCHANGED <<core, pipe, pipeTls, policy>>
    BY <1>7 DEF EndOfChunk
  <2> QED
    BY <1>a, <1>b, <2>1 DEF JInv
<1>8. CASE PolicyLapses
  <2>1. policy' = [policy EXCEPT !.live = FALSE] /\ UNCHANGED <<core, chunk, pipe, pipeTls>>
    BY <1>8 DEF PolicyLapses
  <2>2. policy \in Policies
    BY DEF JInv, IInv, TypeOK
  <2>3. policy'.live = FALSE
    BY <2>1, <2>2 DEF Policies
  <2>4. Secrets(core) /\ Watched(core) /\ Backed(core, pipe, pipeTls) /\ DialFits(core, pipe, policy.live)
    BY DEF JInv, Fits
  <2>5. DialFits(core, pipe, FALSE)
    BY <2>4 DEF DialFits
  <2>6. Fits(core', pipe', pipeTls', policy'.live)
    BY <2>1, <2>3, <2>4, <2>5 DEF Fits
  <2> QED
    BY <1>a, <2>1, <2>6 DEF JInv
<1>9. CASE UNCHANGED vars
  <2>1. UNCHANGED <<core, chunk, pipe, pipeTls, policy>>
    BY <1>9 DEF vars
  <2> QED
    BY <1>a, <2>1 DEF JInv
<1> QED
  BY <1>2, <1>3, <1>4, <1>5, <1>6, <1>7, <1>8, <1>9 DEF Next

\* The session, its transport and its timers fit together in every reachable state.
THEOREM JInvariance == Spec => []JInv
BY JInit, JNext, PTL DEF Spec

\* Between two callbacks the session's state has what it speaks of: a socket or a dial
\* while it waits or talks, the backoff timer and nothing in flight while it reconnects
\* (run_effects and the nested disconnected callback of sink.rs).
THEOREM StateIsBackedHolds == Spec => []StateIsBacked
<1>1. JInv => StateIsBacked
  <2> SUFFICES ASSUME JInv, Quiescent PROVE StateIsBacked
    BY DEF StateIsBacked, LiveStateHasSocket, ReconnectIsArmed
  <2>1. core.effects = <<>> /\ Calm(core, pipe)
    BY DEF Quiescent, JInv, IInv
  <2>2. /\ Backed(core, pipe, pipeTls)
        /\ core.state \in AwaitingSocket /\ (core.intent # "Stopping" \/ pipe \in InFlight) =>
              pipe \in InFlight /\ pipeTls = core.tls /\ ~ Open(pipe, pipeTls)
    BY <2>1, AtRest
  <2>3. LiveStateHasSocket
    BY <2>2 DEF LiveStateHasSocket, Backed, Open, PipeOpen
  <2>4. ReconnectIsArmed
    BY <2>1, <2>2 DEF ReconnectIsArmed, Backed, Calm, BackoffIsAlone
  <2> QED
    BY <2>3, <2>4 DEF StateIsBacked
<1> QED
  BY <1>1, JInvariance, PTL

\* Every handshake has its deadline and every registered session its watchdog, whatever a
\* server sends to move the state (registration.rs and watchdog.rs).
THEOREM SilenceIsTimedHolds == Spec => []SilenceIsTimed
<1>1. JInv => SilenceIsTimed
  <2> SUFFICES ASSUME JInv, Quiescent, core.intent # "Stopping" PROVE SilenceIsTimed
    BY DEF SilenceIsTimed
  <2>1. core.effects = <<>>
    BY DEF Quiescent
  <2>2. Watched(core) /\ core.intent = "Unexpected"
    BY <2>1, AtRest
  <2> QED
    BY <2>2 DEF SilenceIsTimed, Watched
<1> QED
  BY <1>1, JInvariance, PTL

\* When a queued connect runs the transport is at rest, so that none is ignored
\* (Transport::connect returns early while a dial or a socket is live).
THEOREM ConnectIsNeverIgnoredHolds == Spec => []ConnectIsNeverIgnored
<1>1. JInv => ConnectIsNeverIgnored
  <2> SUFFICES ASSUME JInv, Running("Connect") PROVE pipe \notin InFlight
    BY DEF ConnectIsNeverIgnored
  <2>1. core.effects \in Seq(Effects) /\ core.effects # <<>> /\ Head(core.effects).op = "Connect"
    BY DEF Running, JInv, IInv, TypeOK, Cores
  <2>2. 1 \in DOMAIN core.effects /\ core.effects[1] = Head(core.effects)
    BY <2>1
  <2> QED
    BY <2>1, <2>2 DEF JInv, Fits, DialFits
<1> QED
  BY <1>1, JInvariance, PTL

\* While a policy for the host is live no dial is in plaintext: every path to a connect
\* looks the policy up first, and an upgrade dials TLS (stsflow.rs).
THEOREM LivePolicyHolds == Spec => []LivePolicyForbidsPlaintext
<1>1. JInv => LivePolicyForbidsPlaintext
  <2> SUFFICES ASSUME JInv, Running("Connect"), policy.live PROVE Head(core.effects).tls
    BY DEF LivePolicyForbidsPlaintext
  <2>1. core.effects \in Seq(Effects) /\ core.effects # <<>> /\ Head(core.effects).op = "Connect"
    BY DEF Running, JInv, IInv, TypeOK, Cores
  <2>2. 1 \in DOMAIN core.effects /\ core.effects[1] = Head(core.effects)
    BY <2>1
  <2> QED
    BY <2>1, <2>2 DEF JInv, Fits, DialFits
<1> QED
  BY <1>1, JInvariance, PTL

\* SCRAM success means that the server's signature was checked, a session registered over
\* SCRAM had that success, and the PLAIN credential is never queued once SCRAM began
\* (sasl.rs and the 001 handler), whatever capabilities are offered anew.
THEOREM SecretIsSafeHolds == Spec => []SecretIsSafe
<1>1. JInv => SecretIsSafe
  BY DEF JInv, Fits, Secrets, Tells, SecretIsSafe, Queued
<1> QED
  BY <1>1, JInvariance, PTL

\* A settled or failed session does not slip into a reconnect: no step takes it from Idle,
\* Closing or Failed to Reconnecting, not even the retryable failure behind a fatal one.
THEOREM FailedStaysDownHolds == Spec => FailedStaysDown
<1> DEFINE Stays == core.state \in {"Idle", "Failed", "Closing"} => core'.state # "Reconnecting"
<1>1. ASSUME JInv, [Next]_vars, core.state \in {"Idle", "Failed", "Closing"}
      PROVE  core'.state # "Reconnecting"
  <2>0. /\ core \in Cores /\ cfg \in Configs /\ policy \in Policies
        /\ Watched(core) /\ Backed(core, pipe, pipeTls) /\ BackoffIsAlone(core, pipe)
    BY <1>1 DEF JInv, Fits, IInv, TypeOK, Calm
  <2>1. core.state \in Down /\ core.state # "Reconnecting"
    BY <1>1 DEF Down
  <2>2. pipe \in InFlight => core.intent = "Stopping"
    BY <2>0, <2>1 DEF Backed
  <2>3. CASE HandleFrame
    <3>1. IInv'
      BY <1>1, NextInv DEF JInv
    <3>2. Sound(core')
      BY <1>1, <2>3, <3>1, JFrame
    <3> QED
      BY <3>2 DEF Sound, Talking
  <2>4. CASE User
    <3>1. CASE Start
      <4>1. \/ core' = FailFatal(core)
            \/ \E c : core' = ConnectTransport(SetState(ResetForConnection(c), "Connecting"))
                      /\ c \in Cores
        <5> DEFINE b == [core EXCEPT !.intent = "Unexpected", !.attempt = 0,
                                     !.port = cfg.port, !.tls = cfg.tls, !.stsDuration = 0]
        <5>0. cfg \in ConfigType
          BY <2>0, ConfigsAssumption
        <5>1. cfg.port \in Nat /\ cfg.tls \in BOOLEAN /\ 0 \in 0 .. BackoffSteps
          BY <5>0, BoundsAssumption DEF ConfigType
        <5>2. b \in Cores
          BY <2>0, <5>1 DEF Cores, DisconnectIntent
        <5>3. ApplyCachedSts(b) \in Cores
          BY <2>0, <5>2, StsStepsType
        <5>4. \/ core' = FailFatal(core)
              \/ core' = ConnectTransport(SetState(ResetForConnection(ApplyCachedSts(b)), "Connecting"))
          BY <3>1 DEF Start, Locked
        <5> QED
          BY <5>3, <5>4
      <4>2. FailFatal(core).state = "Failed"
        BY <2>0, FailFields
      <4>3. ASSUME NEW c \in Cores
            PROVE  ConnectTransport(SetState(ResetForConnection(c), "Connecting")).state = "Connecting"
        <5>1. ResetForConnection(c) \in Cores
          BY <2>0, ResetType
        <5>2. PICK e : e = ResetForConnection(c)
          OBVIOUS
        <5>3. PICK f : f = SetState(e, "Connecting")
          OBVIOUS
        <5>4. f \in Cores
          BY <5>1, <5>2, <5>3, SetStateType DEF SessionState
        <5>5. f.state = "Connecting"
          BY <5>1, <5>2, <5>3 DEF SetState, Cores
        <5>6. ConnectTransport(f).state = f.state
          BY <5>4, ConnectFields
        <5> QED
          BY <5>2, <5>3, <5>5, <5>6
      <4> QED
        BY <4>1, <4>2, <4>3
    <3>2. CASE Stop \/ Quit
      <4>1. PICK b \in {core, Send(core, "QUIT")} : core' = StopCore(b)
        BY <3>2 DEF Stop, Quit, Locked
      <4>2. b \in Cores
        BY <2>0, SendType DEF Lines
      <4> QED
        BY <4>1, <4>2, StopFields
    <3>3. CASE NotifyReachable
      BY <2>1, <3>3 DEF NotifyReachable
    <3> QED
      BY <2>4, <3>1, <3>2, <3>3 DEF User
  <2>5. CASE Timers
    <3>1. PICK slot \in TimerSlot : TimerFired(slot)
      BY <2>5 DEF Timers
    <3>2. slot \in core.timers
      BY <3>1 DEF TimerFired
    <3>3. slot \notin {"Reconnect", "Registration"}
      BY <1>1, <2>0, <3>2 DEF BackoffIsAlone, Watched, Talking
    <3>4. PICK c : c = Cancel(core, {slot})
      OBVIOUS
    <3>5. c \in Cores /\ c.state = core.state
      BY <2>0, <3>4, CancelType DEF Cancel, Cores
    <3>6. core' \in {OnCapabilityTimeout(c), OnPingFired(c, pipe)}
      BY <3>1, <3>3, <3>4 DEF TimerFired, Locked, TimerSlot
    <3>7. OnCapabilityTimeout(c).state = c.state
      BY <3>5, CapabilityTimeoutType
    <3>8. OnPingFired(c, pipe) = c
      BY <1>1, <3>5 DEF OnPingFired
    <3> QED
      BY <2>1, <3>5, <3>6, <3>7, <3>8
  <2>6. CASE Net
    <3>1. pipe \in InFlight /\ core.effects = <<>>
      BY <2>6 DEF Net, NetConnected, NetEncrypted, NetClosed, NetFailed, BytesReceived,
                  Quiescent, PipeOpen, InFlight
    <3>2. FALSE
      BY <2>0, <2>1, <3>1, EmptyQueue DEF Backed
    <3> QED
      BY <3>2
  <2>7. CASE RunEffect
    <3>1. core.effects # <<>> /\ Popped.state = core.state /\ SetState(Popped, "Idle").state = "Idle"
      BY <2>0, <2>7 DEF RunEffect, RunWrite, RunConnect, RunShutdown, RunSettleStop, Running,
                       Popped, SetState, Cores
    <3>2. CASE core' = Popped \/ core' = SetState(Popped, "Idle")
      BY <2>1, <3>1, <3>2
    <3>3. CASE RunShutdown /\ pipe \in InFlight
      <4>1. PICK b : b = [core EXCEPT !.effects = <<>>]
        OBVIOUS
      <4>2. b \in Cores /\ b.intent = "Stopping" /\ b.state = core.state
        <5>1. <<>> \in Seq(Effects)
          OBVIOUS
        <5> QED
          BY <2>0, <2>2, <3>3, <4>1, <5>1 DEF Cores
      <4>3. PICK d : d = TakeStsDuration(b)
        OBVIOUS
      <4>4. d \in Cores /\ d.intent = "Stopping" /\ d.state = core.state
        BY <2>0, <4>2, <4>3, StsStepsType
      <4>5. OnDisconnected(b) \in {SetState(d, "Idle"), d}
        BY <4>2, <4>3, <4>4 DEF OnDisconnected, FinishesStsUpgrade
      <4>6. PICK c : c = OnDisconnected(b)
        OBVIOUS
      <4>7. c \in Cores /\ c.state \in {"Idle", core.state}
        BY <2>0, <4>2, <4>4, <4>5, <4>6, DisconnectedType, SMTT(30) DEF SetState, Cores
      <4>8. core'.state = c.state
        BY <3>3, <4>1, <4>6, <4>7 DEF RunShutdown, Cores
      <4> QED
        BY <2>1, <4>7, <4>8
    <3> QED
      BY <2>7, <3>2, <3>3 DEF RunEffect, RunWrite, RunConnect, RunShutdown, RunSettleStop
  <2>8. CASE EndOfChunk \/ PolicyLapses \/ UNCHANGED vars
    BY <2>1, <2>8 DEF EndOfChunk, PolicyLapses, vars
  <2> QED
    BY <1>1, <2>3, <2>4, <2>5, <2>6, <2>7, <2>8 DEF Next
<1>2. JInv /\ [Next]_vars => [Stays]_vars
  BY <1>1
<1> QED
  BY <1>2, JInvariance, PTL DEF Spec, FailedStaysDown

-----------------------------------------------------------------------------
(***************************************************************************)
(* The capability ledger with a server of its own (CapExchange).  For any  *)
(* set of rows, list of mechanisms and number of announcements: the        *)
(* exchange is well typed, no capability is ever asked for, or on, under   *)
(* two spellings at once, and the ledger agrees with the server up to what *)
(* is on its way.                                                          *)
(***************************************************************************)

\* Every ledger operation returns a ledger.
LEMMA LedgerOperations ==
    ASSUME NEW n \in Caps!Ledgers, NEW rows, NEW off, NEW value \in SUBSET Caps!Mechanisms
    PROVE  /\ Caps!Advertise(n, rows, value) \in Caps!Ledgers
           /\ Caps!Withdraw(n, rows) \in Caps!Ledgers
           /\ Caps!TakeRequest(n) \in Caps!Ledgers
           /\ Caps!Acknowledge(n, rows, off) \in Caps!Ledgers
           /\ Caps!Reject(n, rows) \in Caps!Ledgers
           /\ Caps!AbandonOutstanding(n) \in Caps!Ledgers
<1>1. Caps!Advertise(n, rows, value) \in Caps!Ledgers
  BY DEF Caps!Advertise, Caps!Ledgers, Caps!TokenState
<1>2. Caps!Withdraw(n, rows) \in Caps!Ledgers
  BY DEF Caps!Withdraw, Caps!Ledgers, Caps!TokenState
<1>3. Caps!TakeRequest(n) \in Caps!Ledgers
  BY DEF Caps!TakeRequest, Caps!Ledgers, Caps!TokenState
<1>4. Caps!Acknowledge(n, rows, off) \in Caps!Ledgers
  BY DEF Caps!Acknowledge, Caps!Ledgers, Caps!TokenState
<1>5. Caps!Reject(n, rows) \in Caps!Ledgers
  BY DEF Caps!Reject, Caps!Ledgers, Caps!TokenState
<1>6. Caps!AbandonOutstanding(n) \in Caps!Ledgers
  BY DEF Caps!AbandonOutstanding, Caps!Ledgers, Caps!TokenState
<1> QED BY <1>1, <1>2, <1>3, <1>4, <1>5, <1>6

LEMMA RequestLinesType ==
    ASSUME NEW n PROVE Caps!RequestLines(n) \in SUBSET SUBSET Rows
BY DEF Caps!RequestLines, Caps!ToRequest

\* request_capabilities keeps the ledger and the queue of bursts well typed.
LEMMA RequestFromType ==
    ASSUME NEW n \in Caps!Ledgers, up \in Seq(SUBSET SUBSET Rows), Caps!RequestFrom(n)
    PROVE  ledger' \in Caps!Ledgers /\ up' \in Seq(SUBSET SUBSET Rows)
<1>1. ledger' \in Caps!Ledgers  BY LedgerOperations DEF Caps!RequestFrom
<1>2. Append(up, Caps!RequestLines(n)) \in Seq(SUBSET SUBSET Rows)  BY RequestLinesType
<1> QED BY <1>1, <1>2 DEF Caps!RequestFrom

LEMMA ReceivedType ==
    ASSUME Caps!TypeOK, NEW verb, Caps!Received(verb)
    PROVE  /\ down' \in Seq(Caps!Lines) /\ Head(down) \in Caps!Lines
           /\ offered' \subseteq Rows /\ granted' \subseteq Rows
           /\ announced' \in 0 .. MaxAnnouncements
BY DEF Caps!TypeOK, Caps!Received

\* The exchange keeps its types whatever the server announces, answers or withdraws.
THEOREM ExchangeTypes == ExchangeSpec => []Caps!TypeOK
<1>1. Caps!Init => Caps!TypeOK
  <2> SUFFICES ASSUME Caps!Init PROVE Caps!TypeOK  OBVIOUS
  <2>1. ledger \in Caps!Ledgers
    BY ExchangeParameters DEF Caps!Init, Caps!NewLedger, Caps!Ledgers, Caps!TokenState
  <2>2. down \in Seq(Caps!Lines)
    <3>1. PICK value \in MechanismLists : down = <<Caps!Line("LS", offered, value)>>
      BY DEF Caps!Init
    <3>2. Caps!Line("LS", offered, value) \in Caps!Lines
      BY <3>1, ExchangeParameters DEF Mechanisms, Caps!Mechanisms, Caps!Init, Caps!Line, Caps!Lines
    <3> QED BY <3>1, <3>2
  <2> QED BY <2>1, <2>2, ExchangeParameters DEF Caps!Init, Caps!TypeOK
<1>2. Caps!TypeOK /\ [Caps!Next]_Caps!vars => Caps!TypeOK'
  <2> SUFFICES ASSUME Caps!TypeOK, [Caps!Next]_Caps!vars PROVE Caps!TypeOK'  OBVIOUS
  <2>1. ASSUME NEW i \in Rows, NEW value \in MechanismLists, Caps!ServerNew(i, value) PROVE Caps!TypeOK'
    <3>1. Caps!Line("NEW", {i}, value) \in Caps!Lines
      BY ExchangeParameters DEF Mechanisms, Caps!Mechanisms, Caps!Line, Caps!Lines
    <3>2. down' \in Seq(Caps!Lines)  BY <2>1, <3>1 DEF Caps!ServerNew, Caps!TypeOK
    <3>3. announced' \in 0 .. MaxAnnouncements
      BY <2>1, ExchangeParameters DEF Caps!ServerNew, Caps!TypeOK
    <3> QED BY <2>1, <3>2, <3>3 DEF Caps!ServerNew, Caps!TypeOK
  <2>2. ASSUME NEW i \in Rows, Caps!ServerDel(i) PROVE Caps!TypeOK'
    <3>1. Caps!Line("DEL", {i}, {}) \in Caps!Lines  BY DEF Caps!Line, Caps!Lines
    <3>2. down' \in Seq(Caps!Lines)  BY <2>2, <3>1 DEF Caps!ServerDel, Caps!TypeOK
    <3>3. announced' \in 0 .. MaxAnnouncements
      BY <2>2, ExchangeParameters DEF Caps!ServerDel, Caps!TypeOK
    <3> QED BY <2>2, <3>2, <3>3 DEF Caps!ServerDel, Caps!TypeOK
  <2>3. ASSUME up # <<>>, NEW line \in Head(up), Caps!ServerAck(line) \/ Caps!ServerNak(line)
        PROVE  Caps!TypeOK'
    <3>1. Head(up) \in SUBSET SUBSET Rows  BY <2>3 DEF Caps!TypeOK
    <3>2. Caps!Line("ACK", line, {}) \in Caps!Lines /\ Caps!Line("NAK", line, {}) \in Caps!Lines
      BY <3>1 DEF Caps!Line, Caps!Lines
    <3>3. down' \in Seq(Caps!Lines)  BY <2>3, <3>2, SMTT(30) DEF Caps!ServerAck, Caps!ServerNak, Caps!TypeOK
    <3>4. up' \in Seq(SUBSET SUBSET Rows)
      <4>1. Tail(up) \in Seq(SUBSET SUBSET Rows)  BY <2>3 DEF Caps!TypeOK
      <4>2. <<Head(up) \ {line}>> \in Seq(SUBSET SUBSET Rows)  BY <3>1
      <4>3. <<Head(up) \ {line}>> \o Tail(up) \in Seq(SUBSET SUBSET Rows)  BY <4>1, <4>2
      <4> QED BY <2>3, <4>1, <4>3 DEF Caps!ServerAck, Caps!ServerNak, Caps!Answered
    <3>5. granted' \subseteq Rows  BY <2>3, <3>1 DEF Caps!ServerAck, Caps!ServerNak, Caps!TypeOK
    <3> QED BY <2>3, <3>3, <3>4, <3>5 DEF Caps!ServerAck, Caps!ServerNak, Caps!TypeOK
  <2>4. CASE Caps!ReceiveLs \/ Caps!ReceiveNew
    <3>1. Caps!Received("LS") \/ Caps!Received("NEW")  BY <2>4 DEF Caps!ReceiveLs, Caps!ReceiveNew
    <3>2. Caps!Advertise(ledger, Head(down).rows, Head(down).value) \in Caps!Ledgers
      BY <3>1, ReceivedType, LedgerOperations DEF Caps!TypeOK, Caps!Lines
    <3>3. ledger' \in Caps!Ledgers /\ up' \in Seq(SUBSET SUBSET Rows)
      BY <2>4, <3>2, RequestFromType DEF Caps!ReceiveLs, Caps!ReceiveNew, Caps!TypeOK
    <3> QED BY <3>1, <3>3, ReceivedType DEF Caps!TypeOK
  <2>5. CASE Caps!ReceiveDel
    <3>1. Caps!Withdraw(ledger, Head(down).rows) \in Caps!Ledgers
      BY LedgerOperations DEF Caps!TypeOK
    <3>2. ledger' \in Caps!Ledgers /\ up' \in Seq(SUBSET SUBSET Rows)
      BY <2>5, <3>1, RequestFromType DEF Caps!ReceiveDel, Caps!TypeOK
    <3> QED BY <2>5, <3>2, ReceivedType DEF Caps!ReceiveDel, Caps!TypeOK
  <2>6. CASE Caps!ReceiveAck
    <3>1. ledger' \in Caps!Ledgers  BY <2>6, LedgerOperations DEF Caps!ReceiveAck, Caps!TypeOK
    <3> QED BY <2>6, <3>1, ReceivedType DEF Caps!ReceiveAck, Caps!TypeOK
  <2>7. CASE Caps!ReceiveNak
    <3>1. Caps!Reject(ledger, Head(down).rows) \in Caps!Ledgers  BY LedgerOperations DEF Caps!TypeOK
    <3>2. ledger' \in Caps!Ledgers /\ up' \in Seq(SUBSET SUBSET Rows)
      BY <2>7, <3>1, RequestFromType DEF Caps!ReceiveNak, Caps!TypeOK
    <3> QED BY <2>7, <3>2, ReceivedType DEF Caps!ReceiveNak, Caps!TypeOK
  <2>8. CASE Caps!CapabilityTimeout
    BY <2>8, LedgerOperations DEF Caps!CapabilityTimeout, Caps!TypeOK
  <2>9. CASE UNCHANGED Caps!vars
    BY <2>9 DEF Caps!vars, Caps!TypeOK
  <2> QED BY <2>1, <2>2, <2>3, <2>4, <2>5, <2>6, <2>7, <2>8, <2>9
          DEF Caps!Next, Caps!Server, Caps!Receive
<1> QED BY <1>1, <1>2, PTL DEF ExchangeSpec, Caps!Spec

-----------------------------------------------------------------------------

\* OneSpelling of a ledger value, so that it can be followed through the operators.
Single(n) ==
    \A i, j \in Rows :
        (Caps!Cap(i) = Caps!Cap(j) /\ n.tokens[i] \in Caps!Live /\ n.tokens[j] \in Caps!Live) => i = j

\* Taking a request is the one step that can make a token live: it takes a row only
\* when no spelling of its capability is live, and the first one when several could go.
LEMMA TakeRequestSingle ==
    ASSUME NEW n \in Caps!Ledgers, Single(n) PROVE Single(Caps!TakeRequest(n))
<1> SUFFICES ASSUME NEW i \in Rows, NEW j \in Rows, Caps!Cap(i) = Caps!Cap(j),
                    Caps!TakeRequest(n).tokens[i] \in Caps!Live, Caps!TakeRequest(n).tokens[j] \in Caps!Live
             PROVE  i = j
  BY DEF Single
<1>1. \A k \in Rows : Caps!TakeRequest(n).tokens[k]
                        = IF k \in Caps!ToRequest(n) THEN "Requested" ELSE n.tokens[k]
  BY DEF Caps!TakeRequest, Caps!Ledgers
<1>2. CASE i \in Caps!ToRequest(n) /\ j \in Caps!ToRequest(n)
  <2>1. Caps!IsRequestable(n, i) /\ Caps!IsRequestable(n, j)  BY <1>2 DEF Caps!ToRequest
  <2>2. ~ (i < j) /\ ~ (j < i)  BY <1>2, <2>1 DEF Caps!ToRequest
  <2> QED BY <2>2, RowsAssumption
<1>3. CASE i \in Caps!ToRequest(n) /\ j \notin Caps!ToRequest(n)
  <2>1. n.tokens[j] \in Caps!Live  BY <1>1, <1>3
  <2> QED BY <1>3, <2>1 DEF Caps!ToRequest, Caps!IsRequestable, Caps!AnyToken, Caps!Live
<1>4. CASE i \notin Caps!ToRequest(n) /\ j \in Caps!ToRequest(n)
  <2>1. n.tokens[i] \in Caps!Live  BY <1>1, <1>4
  <2> QED BY <1>4, <2>1 DEF Caps!ToRequest, Caps!IsRequestable, Caps!AnyToken, Caps!Live
<1>5. CASE i \notin Caps!ToRequest(n) /\ j \notin Caps!ToRequest(n)
  BY <1>1, <1>5 DEF Single
<1> QED BY <1>2, <1>3, <1>4, <1>5

\* Every other operation makes live only what already was.
LEMMA OthersSingle ==
    ASSUME NEW n \in Caps!Ledgers, NEW rows, NEW off, NEW value, Single(n)
    PROVE  /\ Single(Caps!Advertise(n, rows, value))
           /\ Single(Caps!Withdraw(n, rows))
           /\ Single(Caps!Acknowledge(n, rows, off))
           /\ Single(Caps!Reject(n, rows))
           /\ Single(Caps!AbandonOutstanding(n))
<1> USE DEF Single, Caps!Live, Caps!Ledgers
<1>1. Single(Caps!Advertise(n, rows, value))  BY DEF Caps!Advertise
<1>2. Single(Caps!Withdraw(n, rows))  BY DEF Caps!Withdraw
<1>3. Single(Caps!Acknowledge(n, rows, off))  BY DEF Caps!Acknowledge
<1>4. Single(Caps!Reject(n, rows))  BY DEF Caps!Reject
<1>5. Single(Caps!AbandonOutstanding(n))  BY DEF Caps!AbandonOutstanding
<1> QED BY <1>1, <1>2, <1>3, <1>4, <1>5

\* No capability is live under two spellings, however CAP NEW, DEL, ACK and NAK
\* lines and the capability timeout are interleaved.
THEOREM OneSpellingHolds == ExchangeSpec => []OneSpelling
<1>1. Caps!Init => Caps!OneSpelling
  BY DEF Caps!Init, Caps!OneSpelling, Caps!NewLedger, Caps!Live
<1>2. Caps!TypeOK /\ Caps!OneSpelling /\ [Caps!Next]_Caps!vars => Caps!OneSpelling'
  <2> SUFFICES ASSUME Caps!TypeOK, Caps!OneSpelling, [Caps!Next]_Caps!vars PROVE Caps!OneSpelling'  OBVIOUS
  <2> Single(ledger) /\ ledger \in Caps!Ledgers  BY DEF Caps!OneSpelling, Single, Caps!TypeOK
  <2> SUFFICES Single(ledger')  BY DEF Caps!OneSpelling, Single
  <2>1. ASSUME NEW n \in Caps!Ledgers, Single(n), Caps!RequestFrom(n) PROVE Single(ledger')
    BY <2>1, TakeRequestSingle DEF Caps!RequestFrom
  <2>2. CASE Caps!ReceiveLs \/ Caps!ReceiveNew
    <3>1. Caps!Received("LS") \/ Caps!Received("NEW")  BY <2>2 DEF Caps!ReceiveLs, Caps!ReceiveNew
    <3>2. Caps!Advertise(ledger, Head(down).rows, Head(down).value) \in Caps!Ledgers
      BY <3>1, ReceivedType, LedgerOperations DEF Caps!Lines
    <3> QED BY <2>1, <2>2, <3>2, OthersSingle DEF Caps!ReceiveLs, Caps!ReceiveNew
  <2>3. CASE Caps!ReceiveDel
    BY <2>1, <2>3, OthersSingle, LedgerOperations DEF Caps!ReceiveDel
  <2>4. CASE Caps!ReceiveAck
    BY <2>4, OthersSingle DEF Caps!ReceiveAck
  <2>5. CASE Caps!ReceiveNak
    BY <2>1, <2>5, OthersSingle, LedgerOperations DEF Caps!ReceiveNak
  <2>6. CASE Caps!CapabilityTimeout
    BY <2>6, OthersSingle DEF Caps!CapabilityTimeout
  <2>7. CASE Caps!Server \/ UNCHANGED Caps!vars
    BY <2>7 DEF Caps!Server, Caps!ServerNew, Caps!ServerDel, Caps!ServerAck, Caps!ServerNak, Caps!vars
  <2> QED BY <2>2, <2>3, <2>4, <2>5, <2>6, <2>7 DEF Caps!Next, Caps!Receive
<1> QED BY <1>1, <1>2, ExchangeTypes, PTL DEF ExchangeSpec, Caps!Spec, OneSpelling

-----------------------------------------------------------------------------
(* The ledger agrees with the server *)

\* A line of this kind about row i is on its way to the client.
Coming(q, verb, i) == \E k \in 1 .. Len(q) : q[k].verb = verb /\ i \in q[k].rows

\* A request for row i is on its way to the server.
Asked(u, i) == \E k \in 1 .. Len(u) : i \in UNION u[k]

UnderWay(u, q, i) ==
    Asked(u, i) \/ Coming(q, "ACK", i) \/ Coming(q, "NAK", i) \/ Coming(q, "DEL", i)

\* A grant on its way still holds, or its withdrawal follows it.
GrantsFollow(q, on) ==
    \A k \in 1 .. Len(q) : \A i \in q[k].rows :
        q[k].verb = "ACK" /\ i \notin on =>
            \E l \in 1 .. Len(q) : l > k /\ q[l].verb = "DEL" /\ i \in q[l].rows

\* What the ledger waits for is under way; what it has on is on, or a withdrawal is coming.
Agrees ==
    /\ \A i \in Rows : ledger.tokens[i] = "Requested" => UnderWay(up, down, i)
    /\ \A i \in Rows : ledger.tokens[i] = "Enabled" /\ i \notin granted => Coming(down, "DEL", i)
    /\ GrantsFollow(down, granted)

LEMMA AppendComes ==
    ASSUME NEW q \in Seq(Caps!Lines), NEW x \in Caps!Lines
    PROVE  /\ \A verb, i : Coming(q, verb, i) => Coming(Append(q, x), verb, i)
           /\ \A i : i \in x.rows => Coming(Append(q, x), x.verb, i)
<1>1. /\ Len(q) \in Nat /\ Len(Append(q, x)) = Len(q) + 1 /\ Append(q, x)[Len(q) + 1] = x
      /\ \A k \in 1 .. Len(q) : Append(q, x)[k] = q[k]
  OBVIOUS
<1>2. \A verb, i : Coming(q, verb, i) => Coming(Append(q, x), verb, i)
  <2> SUFFICES ASSUME NEW verb, NEW i, Coming(q, verb, i) PROVE Coming(Append(q, x), verb, i)
    OBVIOUS
  <2>1. PICK k \in 1 .. Len(q) : q[k].verb = verb /\ i \in q[k].rows
    BY DEF Coming
  <2>2. k \in 1 .. Len(Append(q, x)) /\ Append(q, x)[k] = q[k]
    BY <1>1
  <2> QED
    BY <2>1, <2>2 DEF Coming
<1>3. \A i : i \in x.rows => Coming(Append(q, x), x.verb, i)
  <2>1. Len(q) + 1 \in 1 .. Len(Append(q, x))
    BY <1>1
  <2> QED
    BY <1>1, <2>1 DEF Coming
<1> QED
  BY <1>2, <1>3

\* Reading a line takes only what that line brings.
LEMMA TailComes ==
    ASSUME NEW q \in Seq(Caps!Lines), q # <<>>, NEW verb, NEW i, Coming(q, verb, i),
           ~ (Head(q).verb = verb /\ i \in Head(q).rows)
    PROVE  Coming(Tail(q), verb, i)
<1>1. /\ Len(q) \in Nat /\ Len(q) > 0 /\ Head(q) = q[1] /\ Len(Tail(q)) = Len(q) - 1
      /\ \A k \in 1 .. Len(q) - 1 : Tail(q)[k] = q[k + 1]
  OBVIOUS
<1>2. PICK k \in 1 .. Len(q) : q[k].verb = verb /\ i \in q[k].rows
  BY DEF Coming
<1>3. k # 1
  BY <1>1, <1>2
<1>4. k - 1 \in 1 .. Len(Tail(q)) /\ Tail(q)[k - 1] = q[k]
  BY <1>1, <1>3
<1> QED
  BY <1>2, <1>4 DEF Coming

LEMMA AppendFollows ==
    ASSUME NEW q \in Seq(Caps!Lines), NEW x \in Caps!Lines, NEW on, NEW then, GrantsFollow(q, on),
           x.verb = "ACK" => x.rows \subseteq then,
           \A i : i \in on /\ i \notin then => x.verb = "DEL" /\ i \in x.rows
    PROVE  GrantsFollow(Append(q, x), then)
<1>1. /\ Len(q) \in Nat /\ Len(Append(q, x)) = Len(q) + 1 /\ Append(q, x)[Len(q) + 1] = x
      /\ \A k \in 1 .. Len(q) : Append(q, x)[k] = q[k]
  OBVIOUS
<1> DEFINE r == Append(q, x)
<1> SUFFICES ASSUME NEW k \in 1 .. Len(r), NEW i \in r[k].rows, r[k].verb = "ACK", i \notin then
             PROVE  \E l \in 1 .. Len(r) : l > k /\ r[l].verb = "DEL" /\ i \in r[l].rows
  BY DEF GrantsFollow
<1>2. /\ Len(r) = Len(q) + 1 /\ r[Len(q) + 1] = x
      /\ \A j \in 1 .. Len(q) : r[j] = q[j]
  BY <1>1
<1> HIDE DEF r
<1>3. k \in 1 .. Len(q) /\ r[k] = q[k]
  BY <1>1, <1>2
<1>4. CASE i \in on
  <2>1. x.verb = "DEL" /\ i \in x.rows
    BY <1>4
  <2>2. Len(q) + 1 \in 1 .. Len(r) /\ Len(q) + 1 > k
    BY <1>1, <1>2, <1>3
  <2> QED
    BY <1>2, <2>1, <2>2
<1>5. CASE i \notin on
  <2>1. PICK l \in 1 .. Len(q) : l > k /\ q[l].verb = "DEL" /\ i \in q[l].rows
    BY <1>3, <1>5 DEF GrantsFollow
  <2>2. l \in 1 .. Len(r) /\ r[l] = q[l]
    BY <1>1, <1>2
  <2> QED
    BY <2>1, <2>2
<1> QED
  BY <1>4, <1>5

\* The grant that is read holds, or its withdrawal is still to come.
LEMMA TailFollows ==
    ASSUME NEW q \in Seq(Caps!Lines), q # <<>>, NEW on, GrantsFollow(q, on)
    PROVE  /\ GrantsFollow(Tail(q), on)
           /\ \A i \in Head(q).rows :
                 Head(q).verb = "ACK" /\ i \notin on => Coming(Tail(q), "DEL", i)
<1>1. /\ Len(q) \in Nat /\ Len(q) > 0 /\ Head(q) = q[1] /\ Len(Tail(q)) = Len(q) - 1
      /\ \A k \in 1 .. Len(q) - 1 : Tail(q)[k] = q[k + 1]
  OBVIOUS
<1> DEFINE r == Tail(q)
<1>2. /\ Len(r) = Len(q) - 1 /\ \A k \in 1 .. Len(q) - 1 : r[k] = q[k + 1]
  BY <1>1
<1> HIDE DEF r
<1>3. ASSUME NEW k \in 1 .. Len(r), NEW i \in r[k].rows, r[k].verb = "ACK", i \notin on
      PROVE  \E l \in 1 .. Len(r) : l > k /\ r[l].verb = "DEL" /\ i \in r[l].rows
  <2>1. k + 1 \in 1 .. Len(q) /\ r[k] = q[k + 1]
    BY <1>1, <1>2
  <2>2. PICK l \in 1 .. Len(q) : l > k + 1 /\ q[l].verb = "DEL" /\ i \in q[l].rows
    BY <1>3, <2>1 DEF GrantsFollow
  <2>3. l - 1 \in 1 .. Len(r) /\ l - 1 > k /\ r[l - 1] = q[l]
    BY <1>1, <1>2, <2>2
  <2> QED
    BY <2>2, <2>3
<1>4. ASSUME NEW i \in q[1].rows, q[1].verb = "ACK", i \notin on
      PROVE  \E l \in 1 .. Len(r) : r[l].verb = "DEL" /\ i \in r[l].rows
  <2>1. PICK l \in 1 .. Len(q) : l > 1 /\ q[l].verb = "DEL" /\ i \in q[l].rows
    BY <1>1, <1>4 DEF GrantsFollow
  <2>2. l - 1 \in 1 .. Len(r) /\ r[l - 1] = q[l]
    BY <1>1, <1>2, <2>1
  <2> QED
    BY <2>1, <2>2
<1>5. GrantsFollow(r, on)
  BY <1>3 DEF GrantsFollow
<1>6. \A i \in Head(q).rows : Head(q).verb = "ACK" /\ i \notin on => Coming(r, "DEL", i)
  BY <1>1, <1>4 DEF Coming
<1> QED
  BY <1>5, <1>6 DEF r

\* What each operation does to a token that is asked for or on: announcing one and refusing
\* another leave it alone, a withdrawal and an abandoned request take it down, and only an
\* acknowledgement switches it on.
LEMMA AdvertiseLive ==
    ASSUME NEW n \in Caps!Ledgers, NEW rows, NEW value, NEW i \in Rows,
           Caps!Advertise(n, rows, value).tokens[i] \in Caps!Live
    PROVE  Caps!Advertise(n, rows, value).tokens[i] = n.tokens[i]
BY DEF Caps!Advertise, Caps!Ledgers, Caps!Live

LEMMA WithdrawLive ==
    ASSUME NEW n \in Caps!Ledgers, NEW rows, NEW i \in Rows, Caps!Withdraw(n, rows).tokens[i] \in Caps!Live
    PROVE  Caps!Withdraw(n, rows).tokens[i] = n.tokens[i] /\ i \notin rows
BY DEF Caps!Withdraw, Caps!Ledgers, Caps!Live

LEMMA RejectLive ==
    ASSUME NEW n \in Caps!Ledgers, NEW rows, NEW i \in Rows, Caps!Reject(n, rows).tokens[i] \in Caps!Live
    PROVE  /\ Caps!Reject(n, rows).tokens[i] = n.tokens[i]
           /\ n.tokens[i] = "Requested" => i \notin rows
BY DEF Caps!Reject, Caps!Ledgers, Caps!Live

LEMMA AcknowledgeLive ==
    ASSUME NEW n \in Caps!Ledgers, NEW rows, NEW i \in Rows
    PROVE  /\ Caps!Acknowledge(n, rows, {}).tokens[i] = "Requested" =>
                 n.tokens[i] = "Requested" /\ i \notin rows
           /\ Caps!Acknowledge(n, rows, {}).tokens[i] = "Enabled" => n.tokens[i] = "Enabled" \/ i \in rows
BY DEF Caps!Acknowledge, Caps!Ledgers

LEMMA AbandonLive ==
    ASSUME NEW n \in Caps!Ledgers, NEW i \in Rows, Caps!AbandonOutstanding(n).tokens[i] \in Caps!Live
    PROVE  Caps!AbandonOutstanding(n).tokens[i] = "Enabled" /\ n.tokens[i] = "Enabled"
BY DEF Caps!AbandonOutstanding, Caps!Ledgers, Caps!Live

\* request_capabilities asks the server for every token it marks, and takes nothing back.
LEMMA RequestAsks ==
    ASSUME NEW n \in Caps!Ledgers, up \in Seq(SUBSET SUBSET Rows), Caps!RequestFrom(n), NEW i \in Rows
    PROVE  /\ ledger'.tokens[i] = "Requested" => n.tokens[i] = "Requested" \/ Asked(up', i)
           /\ ledger'.tokens[i] = "Enabled" => n.tokens[i] = "Enabled"
           /\ Asked(up, i) => Asked(up', i)
<1>1. ledger'.tokens[i] = IF i \in Caps!ToRequest(n) THEN "Requested" ELSE n.tokens[i]
  BY DEF Caps!RequestFrom, Caps!TakeRequest, Caps!Ledgers
<1>2. i \in Caps!ToRequest(n) => i \in UNION Caps!RequestLines(n)
  BY DEF Caps!RequestLines
<1>3. CASE Caps!RequestLines(n) = {}
  BY <1>1, <1>2, <1>3 DEF Caps!RequestFrom
<1>4. CASE Caps!RequestLines(n) # {}
  <2> DEFINE b == Caps!RequestLines(n)
  <2>1. up' = Append(up, b) /\ b \in SUBSET SUBSET Rows
    BY <1>4, RequestLinesType DEF Caps!RequestFrom
  <2> HIDE DEF b
  <2>2. /\ Len(up) \in Nat /\ Len(up') = Len(up) + 1 /\ up'[Len(up) + 1] = b
        /\ \A k \in 1 .. Len(up) : up'[k] = up[k]
    BY <2>1
  <2>3. Len(up) + 1 \in 1 .. Len(up')
    BY <2>2
  <2>4. i \in Caps!ToRequest(n) => Asked(up', i)
    BY <1>2, <2>2, <2>3 DEF Asked, b
  <2>5. ASSUME Asked(up, i) PROVE Asked(up', i)
    <3>1. PICK k \in 1 .. Len(up) : i \in UNION up[k]
      BY <2>5 DEF Asked
    <3>2. k \in 1 .. Len(up') /\ up'[k] = up[k]
      BY <2>2
    <3> QED
      BY <3>1, <3>2 DEF Asked
  <2> QED
    BY <1>1, <2>4, <2>5
<1> QED
  BY <1>3, <1>4

\* The server takes the line it answers from the oldest burst, and only that one.
LEMMA AnswerTakes ==
    ASSUME Caps!TypeOK, up # <<>>, NEW line \in Head(up), Caps!Answered(line), NEW i, Asked(up, i),
           i \notin line
    PROVE  Asked(up', i)
<1>1. /\ up \in Seq(SUBSET SUBSET Rows) /\ Len(up) \in Nat /\ Len(up) > 0
      /\ Head(up) = up[1] /\ Head(up) \in SUBSET SUBSET Rows
      /\ Tail(up) \in Seq(SUBSET SUBSET Rows)
      /\ Len(Tail(up)) = Len(up) - 1
      /\ \A k \in 1 .. Len(up) - 1 : Tail(up)[k] = up[k + 1]
  BY DEF Caps!TypeOK
<1>2. PICK k \in 1 .. Len(up) : i \in UNION up[k]
  BY DEF Asked
<1>3. CASE Head(up) = {line}
  <2>1. up' = Tail(up) /\ k # 1
    BY <1>1, <1>2, <1>3 DEF Caps!Answered
  <2>2. k - 1 \in 1 .. Len(up') /\ up'[k - 1] = up[k]
    BY <1>1, <2>1
  <2> QED
    BY <1>2, <2>2 DEF Asked
<1>4. CASE Head(up) # {line}
  <2> DEFINE left == Head(up) \ {line}
  <2>1. up' = <<left>> \o Tail(up) /\ left \in SUBSET SUBSET Rows
    BY <1>1, <1>4 DEF Caps!Answered
  <2>2. i \in UNION up[1] => i \in UNION left
    BY <1>1
  <2> HIDE DEF left
  <2>3. /\ <<left>> \in Seq(SUBSET SUBSET Rows) /\ Len(<<left>>) = 1 /\ <<left>>[1] = left
    BY <2>1
  <2>4. /\ Len(up') = Len(up) /\ up'[1] = left
        /\ \A j \in 1 .. Len(up) : j # 1 => up'[j] = up[j]
    BY <1>1, <2>1, <2>3
  <2> QED
    BY <1>2, <2>2, <2>4 DEF Asked
<1> QED
  BY <1>3, <1>4

\* A line the client reads: its answers and withdrawals have their effect as they leave.
LEMMA ReceiveAgrees ==
    ASSUME Caps!TypeOK, Agrees, Caps!Receive
    PROVE  Agrees'
<1> DEFINE x == Head(down)
<1>1. /\ ledger \in Caps!Ledgers /\ down \in Seq(Caps!Lines) /\ down # <<>> /\ x \in Caps!Lines
      /\ up \in Seq(SUBSET SUBSET Rows) /\ down' = Tail(down) /\ granted' = granted
      /\ x.value \in SUBSET Caps!Mechanisms
  <2>1. down \in Seq(Caps!Lines) /\ down # <<>>
    BY DEF Caps!TypeOK, Caps!Receive, Caps!ReceiveLs, Caps!ReceiveNew, Caps!ReceiveDel, Caps!ReceiveAck, Caps!ReceiveNak, Caps!Received
  <2>2. x \in Caps!Lines
    BY <2>1
  <2> QED
    BY <2>1, <2>2 DEF Caps!TypeOK, Caps!Receive, Caps!ReceiveLs, Caps!ReceiveNew, Caps!ReceiveDel, Caps!ReceiveAck, Caps!ReceiveNak,
                      Caps!Received, Caps!Lines
<1>2. /\ GrantsFollow(Tail(down), granted)
      /\ \A i \in x.rows : x.verb = "ACK" /\ i \notin granted => Coming(Tail(down), "DEL", i)
  BY <1>1, TailFollows DEF Agrees
\* Enough: the line is not what a token still waits for, and no token is switched on unduly.
<1>3. SUFFICES ASSUME NEW i \in Rows
               PROVE  /\ ledger'.tokens[i] = "Requested" =>
                           \/ Asked(up', i)
                           \/ /\ ledger.tokens[i] = "Requested" /\ (Asked(up, i) => Asked(up', i))
                              /\ x.verb \in {"ACK", "NAK", "DEL"} => i \notin x.rows
                      /\ ledger'.tokens[i] = "Enabled" =>
                           \/ ledger.tokens[i] = "Enabled" /\ ~ (x.verb = "DEL" /\ i \in x.rows)
                           \/ x.verb = "ACK" /\ i \in x.rows
  <2>1. ASSUME NEW i \in Rows, ledger'.tokens[i] = "Requested"
        PROVE  UnderWay(up', Tail(down), i)
    <3>1. CASE Asked(up', i)
      BY <3>1 DEF UnderWay
    <3>2. CASE /\ ledger.tokens[i] = "Requested" /\ (Asked(up, i) => Asked(up', i))
               /\ x.verb \in {"ACK", "NAK", "DEL"} => i \notin x.rows
      <4>1. UnderWay(up, down, i)
        BY <3>2 DEF Agrees
      <4> QED
        BY <1>1, <3>2, <4>1, TailComes DEF UnderWay
    <3> QED
      BY <1>3, <2>1, <3>1, <3>2
  <2>2. ASSUME NEW i \in Rows, ledger'.tokens[i] = "Enabled", i \notin granted
        PROVE  Coming(Tail(down), "DEL", i)
    <3>1. CASE ledger.tokens[i] = "Enabled" /\ ~ (x.verb = "DEL" /\ i \in x.rows)
      <4>1. Coming(down, "DEL", i)
        BY <2>2, <3>1 DEF Agrees
      <4> QED
        BY <1>1, <3>1, <4>1, TailComes
    <3>2. CASE x.verb = "ACK" /\ i \in x.rows
      BY <1>2, <2>2, <3>2
    <3> QED
      BY <1>3, <2>2, <3>1, <3>2
  <2> QED
    BY <1>1, <1>2, <2>1, <2>2 DEF Agrees
<1> HIDE DEF x
<1>4. CASE Caps!ReceiveLs \/ Caps!ReceiveNew
  <2>1. x.verb \in {"LS", "NEW"} /\ Caps!RequestFrom(Caps!Advertise(ledger, x.rows, x.value))
    BY <1>4 DEF Caps!ReceiveLs, Caps!ReceiveNew, Caps!Received, x
  <2>2. PICK n : n = Caps!Advertise(ledger, x.rows, x.value)
    OBVIOUS
  <2>3. n \in Caps!Ledgers
    BY <1>1, <2>2, LedgerOperations
  <2>4. n.tokens[i] \in Caps!Live => n.tokens[i] = ledger.tokens[i]
    BY <1>1, <2>2, AdvertiseLive
  <2>5. Caps!RequestFrom(n)
    BY <2>1, <2>2
  <2>6. /\ ledger'.tokens[i] = "Requested" => n.tokens[i] = "Requested" \/ Asked(up', i)
        /\ ledger'.tokens[i] = "Enabled" => n.tokens[i] = "Enabled"
        /\ Asked(up, i) => Asked(up', i)
    BY <1>1, <2>3, <2>5, RequestAsks
  <2> QED
    BY <2>1, <2>4, <2>6 DEF Caps!Live
<1>5. CASE Caps!ReceiveDel
  <2>1. x.verb = "DEL" /\ Caps!RequestFrom(Caps!Withdraw(ledger, x.rows))
    BY <1>5 DEF Caps!ReceiveDel, Caps!Received, x
  <2>2. PICK n : n = Caps!Withdraw(ledger, x.rows)
    OBVIOUS
  <2>3. n \in Caps!Ledgers
    BY <1>1, <2>2, LedgerOperations
  <2>4. n.tokens[i] \in Caps!Live => n.tokens[i] = ledger.tokens[i] /\ i \notin x.rows
    BY <1>1, <2>2, WithdrawLive
  <2>5. Caps!RequestFrom(n)
    BY <2>1, <2>2
  <2>6. /\ ledger'.tokens[i] = "Requested" => n.tokens[i] = "Requested" \/ Asked(up', i)
        /\ ledger'.tokens[i] = "Enabled" => n.tokens[i] = "Enabled"
        /\ Asked(up, i) => Asked(up', i)
    BY <1>1, <2>3, <2>5, RequestAsks
  <2> QED
    BY <2>1, <2>4, <2>6 DEF Caps!Live
<1>6. CASE Caps!ReceiveAck
  <2>1. x.verb = "ACK" /\ ledger' = Caps!Acknowledge(ledger, x.rows, {}) /\ up' = up
    BY <1>6 DEF Caps!ReceiveAck, Caps!Received, x
  <2> QED
    BY <1>1, <2>1, AcknowledgeLive
<1>7. CASE Caps!ReceiveNak
  <2>1. /\ x.verb = "NAK"
        /\ \/ ledger' = Caps!Reject(ledger, x.rows) /\ up' = up
           \/ Caps!RequestFrom(Caps!Reject(ledger, x.rows))
    BY <1>7 DEF Caps!ReceiveNak, Caps!Received, x
  <2>2. PICK n : n = Caps!Reject(ledger, x.rows)
    OBVIOUS
  <2>3. n \in Caps!Ledgers
    BY <1>1, <2>2, LedgerOperations
  <2>4. n.tokens[i] \in Caps!Live =>
          n.tokens[i] = ledger.tokens[i] /\ (ledger.tokens[i] = "Requested" => i \notin x.rows)
    BY <1>1, <2>2, RejectLive
  <2>5. CASE ledger' = n /\ up' = up
    BY <2>1, <2>4, <2>5 DEF Caps!Live
  <2>6. CASE Caps!RequestFrom(n)
    <3>1. /\ ledger'.tokens[i] = "Requested" => n.tokens[i] = "Requested" \/ Asked(up', i)
          /\ ledger'.tokens[i] = "Enabled" => n.tokens[i] = "Enabled"
          /\ Asked(up, i) => Asked(up', i)
      BY <1>1, <2>3, <2>6, RequestAsks
    <3> QED
      BY <2>1, <2>4, <3>1 DEF Caps!Live
  <2> QED
    BY <2>1, <2>2, <2>5, <2>6
<1> QED
  BY <1>4, <1>5, <1>6, <1>7 DEF Caps!Receive

LEMMA ServerAgrees ==
    ASSUME Caps!TypeOK, Agrees, Caps!Server
    PROVE  Agrees'
<1>1. ledger' = ledger /\ down \in Seq(Caps!Lines) /\ up \in Seq(SUBSET SUBSET Rows)
  BY DEF Caps!TypeOK, Caps!Server, Caps!ServerNew, Caps!ServerDel, Caps!ServerAck, Caps!ServerNak
\* Enough: one line is put on its way that says what the server did.
<1>2. SUFFICES \E x \in Caps!Lines :
                  /\ down' = Append(down, x)
                  /\ \A i \in Rows : Asked(up, i) =>
                        Asked(up', i) \/ (x.verb \in {"ACK", "NAK"} /\ i \in x.rows)
                  /\ x.verb = "ACK" => x.rows \subseteq granted'
                  /\ \A i : i \in granted /\ i \notin granted' => x.verb = "DEL" /\ i \in x.rows
  <2>1. PICK x \in Caps!Lines :
           /\ down' = Append(down, x)
           /\ \A i \in Rows : Asked(up, i) =>
                 Asked(up', i) \/ (x.verb \in {"ACK", "NAK"} /\ i \in x.rows)
           /\ x.verb = "ACK" => x.rows \subseteq granted'
           /\ \A i : i \in granted /\ i \notin granted' => x.verb = "DEL" /\ i \in x.rows
    BY <1>2
  <2>2. GrantsFollow(down', granted')
    BY <1>1, <2>1, AppendFollows DEF Agrees
  <2>3. /\ \A verb, i : Coming(down, verb, i) => Coming(down', verb, i)
        /\ \A i : i \in x.rows => Coming(down', x.verb, i)
    BY <1>1, <2>1, AppendComes
  <2>4. ASSUME NEW i \in Rows, ledger'.tokens[i] = "Requested" PROVE UnderWay(up', down', i)
    <3>1. UnderWay(up, down, i)
      BY <1>1, <2>4 DEF Agrees
    <3> QED
      BY <2>1, <2>3, <3>1 DEF UnderWay
  <2>5. ASSUME NEW i \in Rows, ledger'.tokens[i] = "Enabled", i \notin granted'
        PROVE  Coming(down', "DEL", i)
    <3>1. CASE i \in granted
      BY <2>1, <2>3, <2>5, <3>1
    <3>2. CASE i \notin granted
      BY <1>1, <2>3, <2>5, <3>2 DEF Agrees
    <3> QED
      BY <3>1, <3>2
  <2> QED
    BY <2>2, <2>4, <2>5 DEF Agrees
<1>3. ASSUME NEW i \in Rows, NEW value \in MechanismLists, Caps!ServerNew(i, value)
      PROVE  down' = Append(down, Caps!Line("NEW", {i}, value)) /\ Caps!Line("NEW", {i}, value) \in Caps!Lines
             /\ up' = up /\ granted' = granted /\ Caps!Line("NEW", {i}, value).verb = "NEW"
  BY <1>3, ExchangeParameters DEF Mechanisms, Caps!Mechanisms, Caps!ServerNew, Caps!Line, Caps!Lines
<1>4. ASSUME NEW i \in Rows, Caps!ServerDel(i)
      PROVE  /\ down' = Append(down, Caps!Line("DEL", {i}, {})) /\ Caps!Line("DEL", {i}, {}) \in Caps!Lines
             /\ up' = up /\ granted' = granted \ {i}
             /\ Caps!Line("DEL", {i}, {}).verb = "DEL" /\ Caps!Line("DEL", {i}, {}).rows = {i}
  BY <1>4 DEF Caps!ServerDel, Caps!Line, Caps!Lines
<1>5. ASSUME up # <<>>, NEW line \in Head(up), NEW verb \in {"ACK", "NAK"},
             down' = Append(down, Caps!Line(verb, line, {})), Caps!Answered(line),
             granted \subseteq granted', verb = "ACK" => line \subseteq granted'
      PROVE  \E x \in Caps!Lines :
                  /\ down' = Append(down, x)
                  /\ \A i \in Rows : Asked(up, i) =>
                        Asked(up', i) \/ (x.verb \in {"ACK", "NAK"} /\ i \in x.rows)
                  /\ x.verb = "ACK" => x.rows \subseteq granted'
                  /\ \A i : i \in granted /\ i \notin granted' => x.verb = "DEL" /\ i \in x.rows
  <2>1. Head(up) \in SUBSET SUBSET Rows
    BY <1>1, <1>5
  <2>2. /\ Caps!Line(verb, line, {}) \in Caps!Lines /\ Caps!Line(verb, line, {}).verb = verb
        /\ Caps!Line(verb, line, {}).rows = line
    BY <2>1 DEF Caps!Line, Caps!Lines
  <2>3. \A i \in Rows : Asked(up, i) => Asked(up', i) \/ i \in line
    BY <1>5, AnswerTakes
  <2> HIDE DEF Caps!Line
  <2> QED
    BY <1>5, <2>2, <2>3
<1>6. ASSUME up # <<>>, NEW line \in Head(up), Caps!ServerAck(line) \/ Caps!ServerNak(line)
      PROVE  \E verb \in {"ACK", "NAK"} :
                /\ down' = Append(down, Caps!Line(verb, line, {})) /\ Caps!Answered(line)
                /\ granted \subseteq granted'
                /\ verb = "ACK" => line \subseteq granted'
  BY <1>6 DEF Caps!ServerAck, Caps!ServerNak
<1>7. CASE \E i \in Rows : Caps!ServerDel(i) \/ \E value \in MechanismLists : Caps!ServerNew(i, value)
  <2>1. PICK i \in Rows : Caps!ServerDel(i) \/ \E value \in MechanismLists : Caps!ServerNew(i, value)
    BY <1>7
  <2>2. CASE Caps!ServerDel(i)
    <3>1. PICK x : x = Caps!Line("DEL", {i}, {})
      OBVIOUS
    <3>2. /\ down' = Append(down, x) /\ x \in Caps!Lines /\ up' = up /\ granted' = granted \ {i}
          /\ x.verb = "DEL" /\ x.rows = {i}
      BY <1>4, <2>2, <3>1
    <3> QED
      BY <3>2
  <2>3. CASE \E value \in MechanismLists : Caps!ServerNew(i, value)
    <3>1. PICK value \in MechanismLists : Caps!ServerNew(i, value)
      BY <2>3
    <3>2. PICK x : x = Caps!Line("NEW", {i}, value)
      OBVIOUS
    <3>3. /\ down' = Append(down, x) /\ x \in Caps!Lines /\ up' = up /\ granted' = granted
          /\ x.verb = "NEW"
      BY <1>3, <3>1, <3>2
    <3> QED
      BY <3>3
  <2> QED
    BY <2>1, <2>2, <2>3
<1>8. CASE up # <<>> /\ \E line \in Head(up) : Caps!ServerAck(line) \/ Caps!ServerNak(line)
  <2>1. PICK line \in Head(up) : Caps!ServerAck(line) \/ Caps!ServerNak(line)
    BY <1>8
  <2>2. PICK verb \in {"ACK", "NAK"} :
           /\ down' = Append(down, Caps!Line(verb, line, {})) /\ Caps!Answered(line)
           /\ granted \subseteq granted'
           /\ verb = "ACK" => line \subseteq granted'
    BY <1>6, <1>8, <2>1
  <2> QED
    BY <1>5, <1>8, <2>1, <2>2
<1> QED
  BY <1>7, <1>8 DEF Caps!Server

\* What the ledger waits for is always under way, and once nothing is, what it has on the
\* server has on: across late answers, answers crossed by a CAP DEL and the capability timeout,
\* for every table of rows and any number of announcements.
THEOREM LedgerAgreesHolds == ExchangeSpec => []LedgerAgrees
<1>1. Caps!Init => Agrees
  <2> SUFFICES ASSUME Caps!Init PROVE Agrees
    OBVIOUS
  <2>1. \A i \in Rows : ledger.tokens[i] = "Absent"
    BY DEF Caps!Init, Caps!NewLedger
  <2>2. PICK value \in MechanismLists : down = <<Caps!Line("LS", offered, value)>>
    BY DEF Caps!Init
  <2>3. Len(down) = 1 /\ down[1].verb = "LS"
    BY <2>2 DEF Caps!Line
  <2>4. GrantsFollow(down, granted)
    BY <2>3 DEF GrantsFollow
  <2> QED
    BY <2>1, <2>4 DEF Agrees
<1>2. Caps!TypeOK /\ Agrees /\ [Caps!Next]_Caps!vars => Agrees'
  <2> SUFFICES ASSUME Caps!TypeOK, Agrees, [Caps!Next]_Caps!vars PROVE Agrees'
    OBVIOUS
  <2>1. CASE Caps!CapabilityTimeout
    <3>1. ledger \in Caps!Ledgers /\ ledger' = Caps!AbandonOutstanding(ledger)
          /\ UNCHANGED <<up, down, granted>>
      BY <2>1 DEF Caps!CapabilityTimeout, Caps!TypeOK
    <3>2. \A i \in Rows : ledger'.tokens[i] \in Caps!Live =>
             ledger'.tokens[i] = "Enabled" /\ ledger.tokens[i] = "Enabled"
      BY <3>1, AbandonLive
    <3> QED
      BY <3>1, <3>2 DEF Agrees, Caps!Live
  <2>2. CASE UNCHANGED Caps!vars
    BY <2>2 DEF Caps!vars, Agrees
  <2> QED
    BY <2>1, <2>2, ServerAgrees, ReceiveAgrees DEF Caps!Next
<1>3. Caps!TypeOK /\ Agrees => Caps!LedgerAgrees
  <2> SUFFICES ASSUME Caps!TypeOK, Agrees PROVE Caps!LedgerAgrees
    OBVIOUS
  <2>1. DOMAIN up = 1 .. Len(up) /\ DOMAIN down = 1 .. Len(down)
    BY DEF Caps!TypeOK
  <2>2. Caps!RequestedIsUnderWay
    BY <2>1 DEF Agrees, UnderWay, Asked, Coming, Caps!RequestedIsUnderWay
  <2>3. Caps!NoFalseGrant
    <3>1. down = <<>> => \A i : ~ Coming(down, "DEL", i)
      BY DEF Coming
    <3> QED
      BY <3>1 DEF Agrees, Caps!NoFalseGrant
  <2> QED
    BY <2>2, <2>3 DEF Caps!LedgerAgrees
<1> QED
  BY <1>1, <1>2, <1>3, ExchangeTypes, PTL DEF ExchangeSpec, Caps!Spec, LedgerAgrees

=============================================================================
