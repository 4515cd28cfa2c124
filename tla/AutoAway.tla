------------------------------ MODULE AutoAway ------------------------------
(***************************************************************************)
(* Away by hand, away by idleness, and coming back, over several networks  *)
(* (client/src/controller/autoawayruntime.rs, with the away commands of    *)
(* commanddispatcher.rs and the welcome of controller.rs).                 *)
(*                                                                         *)
(* Every action is one task of the UI thread, with the events it drains.   *)
(* Timers are abstract: an armed one may fire at any time.  The server     *)
(* obeys the AWAY commands of a connection in order and answers each with  *)
(* a 305 or a 306 that is read later.                                      *)
(***************************************************************************)
EXTENDS Naturals, Sequences

CONSTANTS Networks,
          MaxAhead,     \* bound: commands and answers on the way per network
          MaxLaunches   \* bound: how often the program is started again

ASSUME AutoAwayBounds == MaxAhead \in Nat /\ MaxLaunches \in Nat

VARIABLES enabled, tripped,
          timer,                              \* "none", "idle" or "grace"
          autoAway, manualAway, unawaySent,   \* sets of networks
          selfAway,                           \* the networks whose last answer was a 306
          reg,                                \* the networks whose session is Registered
          out,                                \* AWAY commands on their way, per network
          away,                               \* what the server has, per network
          replies,                            \* 305s and 306s on their way, per network
          launches

settings == <<enabled, tripped, timer>>
ledger == <<autoAway, manualAway, unawaySent>>
server == <<away, replies>>
vars == <<settings, ledger, selfAway, reg, out, server, launches>>

Commands == {"auto", "manual", "back", "unaway"}
IsBack(command) == command \in {"back", "unaway"}

\* The types, and that a tripped auto-away counts no idle time: no /autoaway command, network
\* or chat line leaves a timer behind that would trip it a second time.
TypeOK ==
    /\ enabled \in BOOLEAN /\ tripped \in BOOLEAN
    /\ timer \in {"none", "idle", "grace"}
    /\ tripped => enabled /\ timer = "none"
    /\ autoAway \subseteq Networks /\ manualAway \subseteq Networks
    /\ unawaySent \subseteq Networks /\ selfAway \subseteq Networks /\ reg \subseteq Networks
    /\ out \in [Networks -> Seq(Commands)]
    /\ away \in [Networks -> {"auto", "manual", "no"}]
    /\ replies \in [Networks -> Seq(BOOLEAN)]
    /\ launches \in 0 .. MaxLaunches

Init ==
    /\ launches = 0
    /\ enabled = FALSE /\ tripped = FALSE /\ timer = "none"
    /\ autoAway = {} /\ manualAway = {} /\ unawaySent = {} /\ selfAway = {} /\ reg = {}
    /\ out = [n \in Networks |-> <<>>]
    /\ away = [n \in Networks |-> "no"]
    /\ replies = [n \in Networks |-> <<>>]

HasRoom(n) == Len(out[n]) + Len(replies[n]) < MaxAhead
AllHaveRoom == \A n \in Networks : HasRoom(n)

Sending(o, which, command) ==
    [n \in Networks |-> IF n \in which THEN Append(o[n], command) ELSE o[n]]

-----------------------------------------------------------------------------
(* The idle and grace timers *)

\* The idle timer fires: open the grace window.
IdleFires ==
    /\ timer = "idle" /\ enabled
    /\ timer' = "grace"
    /\ UNCHANGED <<enabled, tripped, ledger, selfAway, reg, out, server, launches>>

\* Variant: the networks that are away by hand are marked too.
EligibleAll == reg \ autoAway

\* The networks auto-away marks: registered, and not away already as far as is known.
Eligible == reg \ (autoAway \cup manualAway \cup selfAway)

\* autoaway_on_grace and autoaway_trip.
GraceFires ==
    /\ timer = "grace" /\ enabled
    /\ AllHaveRoom
    /\ timer' = "none" /\ tripped' = TRUE
    /\ autoAway' = autoAway \cup Eligible
    /\ out' = Sending(out, Eligible, "auto")
    /\ UNCHANGED <<enabled, manualAway, unawaySent, selfAway, reg, server, launches>>

-----------------------------------------------------------------------------
(* Activity *)

\* autoaway_clear_networks brings back every auto-away network that is still registered.
Returning(n) == autoAway \cap reg

\* A chat line on n: note_local_activity, then unaway_after_chat, which brings n back when it
\* is known to be away and has not been brought back yet.
Chat(n) ==
    /\ n \in reg /\ AllHaveRoom
    /\ tripped' = FALSE
    /\ timer' = IF enabled THEN "idle" ELSE timer
    /\ LET latched == unawaySent \cup Returning(n)
           unaways == n \in selfAway /\ n \notin latched
           returned == Sending(out, Returning(n), "back")
       IN /\ unawaySent' = IF unaways THEN latched \cup {n} ELSE latched
          /\ out' = IF unaways THEN Sending(returned, {n}, "unaway") ELSE returned
          /\ manualAway' = IF unaways THEN manualAway \ {n} ELSE manualAway
    /\ autoAway' = {}
    /\ UNCHANGED <<enabled, selfAway, reg, server, launches>>

\* /away with a reason.
Away(n) ==
    /\ n \in reg /\ HasRoom(n)
    /\ out' = Sending(out, {n}, "manual")
    /\ autoAway' = autoAway \ {n} /\ manualAway' = manualAway \cup {n}
    /\ UNCHANGED <<settings, unawaySent, selfAway, reg, server, launches>>

\* /back, and /away without a reason.
Back(n) ==
    /\ n \in reg /\ HasRoom(n)
    /\ out' = Sending(out, {n}, "back")
    /\ autoAway' = autoAway \ {n} /\ manualAway' = manualAway \ {n}
    /\ UNCHANGED <<settings, unawaySent, selfAway, reg, server, launches>>

-----------------------------------------------------------------------------
(* /autoaway *)

\* Enabling restarts the idle timer, unless auto-away has tripped.
ArmedOnEnable == IF tripped THEN timer ELSE "idle"

\* /autoaway on, or with a timeout: a new reason is told to the auto-away networks.
Enable(newReason) ==
    /\ AllHaveRoom
    /\ enabled' = TRUE
    /\ timer' = ArmedOnEnable
    /\ out' = IF newReason /\ tripped THEN Sending(out, autoAway \cap reg, "auto") ELSE out
    /\ UNCHANGED <<tripped, ledger, selfAway, reg, server, launches>>

\* /autoaway reason.
SetReason ==
    /\ AllHaveRoom
    /\ tripped /\ enabled
    /\ out' = Sending(out, autoAway \cap reg, "auto")
    /\ UNCHANGED <<settings, ledger, selfAway, reg, server, launches>>

\* /autoaway off brings the networks back.
Disable ==
    /\ AllHaveRoom
    /\ enabled' = FALSE /\ tripped' = FALSE /\ timer' = "none"
    /\ autoAway' = {}
    /\ unawaySent' = unawaySent \cup (autoAway \cap reg)
    /\ out' = Sending(out, autoAway \cap reg, "back")
    /\ UNCHANGED <<manualAway, selfAway, reg, server, launches>>

-----------------------------------------------------------------------------
(* Connections *)

\* The connection is lost: the server forgets the user, the controller does not.
Drop(n) ==
    /\ n \in reg
    /\ reg' = reg \ {n}
    /\ out' = [out EXCEPT ![n] = <<>>]
    /\ away' = [away EXCEPT ![n] = "no"]
    /\ replies' = [replies EXCEPT ![n] = <<>>]
    /\ UNCHANGED <<settings, ledger, selfAway, launches>>

\* Variant: the welcome forgets only what auto-away did.
ForgetsAutoOnly(set, n) == IF set = manualAway THEN set ELSE set \ {n}

\* autoaway_forget_network.
Forgets(set, n) == set \ {n}

\* autoaway_on_registered marks a network that registers while auto-away has tripped.
Marks == tripped /\ enabled

\* The welcome: a fresh connection is not away, unless auto-away has tripped.
Registered(n) ==
    /\ n \notin reg
    /\ reg' = reg \cup {n}
    /\ autoAway' = IF Marks THEN autoAway \cup {n} ELSE Forgets(autoAway, n)
    /\ out' = IF Marks THEN Sending(out, {n}, "auto") ELSE out
    /\ manualAway' = Forgets(manualAway, n)
    /\ unawaySent' = Forgets(unawaySent, n)
    /\ selfAway' = selfAway \ {n}
    /\ UNCHANGED <<settings, server, launches>>

\* The program is started again: load_stored reads the settings back, and no timer is armed.
Relaunch ==
    /\ launches < MaxLaunches
    /\ launches' = launches + 1
    /\ tripped' = FALSE /\ timer' = "none"
    /\ autoAway' = {} /\ manualAway' = {} /\ unawaySent' = {} /\ selfAway' = {} /\ reg' = {}
    /\ out' = [n \in Networks |-> <<>>]
    /\ away' = [n \in Networks |-> "no"]
    /\ replies' = [n \in Networks |-> <<>>]
    /\ UNCHANGED enabled

\* 305 or 306: the latch is lifted and the user's state noted.
Answered(n) ==
    /\ n \in reg /\ replies[n] # <<>>
    /\ unawaySent' = unawaySent \ {n}
    /\ selfAway' = IF Head(replies[n]) THEN selfAway \cup {n} ELSE selfAway \ {n}
    /\ replies' = [replies EXCEPT ![n] = Tail(@)]
    /\ UNCHANGED <<settings, autoAway, manualAway, reg, out, away, launches>>

Serve(n) ==
    /\ out[n] # <<>>
    /\ LET command == Head(out[n])
       IN /\ away' = [away EXCEPT ![n] = IF IsBack(command) THEN "no" ELSE command]
          /\ replies' = [replies EXCEPT ![n] = Append(@, ~ IsBack(command))]
    /\ out' = [out EXCEPT ![n] = Tail(@)]
    /\ UNCHANGED <<settings, ledger, selfAway, reg, launches>>

-----------------------------------------------------------------------------

Next ==
    \/ IdleFires \/ GraceFires \/ Disable \/ SetReason \/ Relaunch
    \/ \E newReason \in BOOLEAN : Enable(newReason)
    \/ \E n \in Networks :
          Chat(n) \/ Away(n) \/ Back(n) \/ Drop(n) \/ Registered(n) \/ Answered(n) \/ Serve(n)

Spec == Init /\ [][Next]_vars

-----------------------------------------------------------------------------
(* Properties *)

\* What the server will have for n once it has obeyed the commands on their way.
Effective(n) ==
    IF out[n] = <<>> THEN away[n]
    ELSE LET last == out[n][Len(out[n])] IN IF IsBack(last) THEN "no" ELSE last

\* The controller knows which networks are away, and for which reason: whatever the order of
\* commands, trips, reconnections and late answers, its two sets say what the server is told.
LedgerIsTrue ==
    \A n \in reg : /\ Effective(n) = "auto" <=> n \in autoAway
                   /\ Effective(n) = "manual" <=> n \in manualAway

\* What the server has for n when it comes to the i-th command on its way.
Before(n, i) == IF i > 1 THEN out[n][i - 1] ELSE IF away[n] = "no" THEN "back" ELSE away[n]

\* Auto-away never replaces an away the user asked for, not even one whose answer is not in.
ManualIsKept ==
    \A n \in Networks : \A i \in 1 .. Len(out[n]) : out[n][i] = "auto" => Before(n, i) # "manual"

\* Auto-away "loads the persisted configuration and arms the idle timer": while it is on and
\* has not tripped, a timer is counting the idle time.  It does not hold: a new start of the
\* program reads the settings and arms nothing.
IdleIsTimed == enabled /\ ~ tripped => timer # "none"

\* "the unaway line is sent at most once" per away period: a chat line brings back only a
\* user who is away as far as the server is concerned.  It does not hold: a late 306 lifts the
\* latch after /back.
UnawayOnce ==
    \A n \in Networks : \A i \in 1 .. Len(out[n]) :
        out[n][i] = "unaway" => ~ IsBack(Before(n, i))

=============================================================================
