----------------------------- MODULE CapExchange -----------------------------
(***************************************************************************)
(* The capability ledger talking to a server over the two directions of one *)
(* connection.  The client half is the ledger part of Core::handle_cap and  *)
(* Core::on_capability_timeout (client/src/session/caps.rs); the server is  *)
(* the environment, which announces, withdraws and answers at any time, so  *)
(* that a CAP DEL can cross a CAP REQ and an answer can come back after     *)
(* the client stopped waiting for it.                                       *)
(***************************************************************************)
EXTENDS CapNegotiation

CONSTANTS SaslValues,      \* the mechanism lists it may give sasl
          MaxAnnouncements, \* bound: how many CAP NEW and CAP DEL it sends
          Credentials      \* whether the client has a SASL secret

VARIABLES ledger,      \* the client's IrcCapabilityNegotiation
          up,          \* bursts of CAP REQ lines the server has not answered, oldest first
          down,        \* CAP lines on their way to the client
          offered,     \* rows the server offers now
          granted,     \* rows the server has switched on for this client
          announced    \* how many NEW and DEL lines it has sent

vars == <<ledger, up, down, offered, granted, announced>>

Line(verb, rows, value) == [verb |-> verb, rows |-> rows, value |-> value]

Lines == [verb : {"LS", "NEW", "DEL", "ACK", "NAK"}, rows : SUBSET Rows,
          value : SUBSET Mechanisms]

TypeOK ==
    /\ ledger \in Ledgers
    /\ up \in Seq(SUBSET SUBSET Rows)
    /\ down \in Seq(Lines)
    /\ offered \subseteq Rows
    /\ granted \subseteq Rows
    /\ announced \in 0 .. MaxAnnouncements

\* The server answers CAP LS 302 with everything it offers.
Init ==
    /\ ledger = NewLedger(Credentials)
    /\ up = <<>>
    /\ offered \in SUBSET Rows
    /\ \E value \in SaslValues : down = <<Line("LS", offered, value)>>
    /\ granted = {}
    /\ announced = 0

-----------------------------------------------------------------------------
(* The server *)

ServerNew(i, value) ==
    /\ announced < MaxAnnouncements
    /\ i \notin offered
    /\ offered' = offered \cup {i}
    /\ down' = Append(down, Line("NEW", {i}, value))
    /\ announced' = announced + 1
    /\ UNCHANGED <<ledger, up, granted>>

ServerDel(i) ==
    /\ announced < MaxAnnouncements
    /\ i \in offered
    /\ offered' = offered \ {i}
    /\ granted' = granted \ {i}
    /\ down' = Append(down, Line("DEL", {i}, {}))
    /\ announced' = announced + 1
    /\ UNCHANGED <<ledger, up>>

\* A request line is granted or refused as a whole, and a server may refuse at
\* will.  The lines of one burst are answered in any order, bursts in turn.
Answered(line) ==
    up' = IF Head(up) = {line} THEN Tail(up) ELSE <<Head(up) \ {line}>> \o Tail(up)

ServerAck(line) ==
    /\ line \subseteq offered
    /\ granted' = granted \cup line
    /\ down' = Append(down, Line("ACK", line, {}))
    /\ Answered(line)
    /\ UNCHANGED <<ledger, offered, announced>>

ServerNak(line) ==
    /\ down' = Append(down, Line("NAK", line, {}))
    /\ Answered(line)
    /\ UNCHANGED <<ledger, offered, granted, announced>>

-----------------------------------------------------------------------------
(* The client *)

\* request_capabilities: take what can be requested of n and send it.
RequestFrom(n) ==
    /\ ledger' = TakeRequest(n)
    /\ up' = IF RequestLines(n) = {} THEN up ELSE Append(up, RequestLines(n))

Received(verb) ==
    /\ down # <<>>
    /\ Head(down).verb = verb
    /\ down' = Tail(down)
    /\ UNCHANGED <<offered, granted, announced>>

ReceiveLs ==
    /\ Received("LS")
    /\ RequestFrom(Advertise(ledger, Head(down).rows, Head(down).value))

ReceiveNew ==
    /\ Received("NEW")
    /\ RequestFrom(Advertise(ledger, Head(down).rows, Head(down).value))

ReceiveDel ==
    /\ Received("DEL")
    /\ RequestFrom(Withdraw(ledger, Head(down).rows))

ReceiveAck ==
    /\ Received("ACK")
    /\ ledger' = Acknowledge(ledger, Head(down).rows, {})
    /\ UNCHANGED up

\* A refused sasl ends the session (Session models that); any other refusal may
\* free a dependent or a second spelling, so the client asks again.
ReceiveNak ==
    /\ Received("NAK")
    /\ IF "Sasl" \in Refused(ledger, Head(down).rows)
       THEN ledger' = Reject(ledger, Head(down).rows) /\ UNCHANGED up
       ELSE RequestFrom(Reject(ledger, Head(down).rows))

CapabilityTimeout ==
    /\ ~ Settled(ledger)
    /\ ledger' = AbandonOutstanding(ledger)
    /\ UNCHANGED <<up, down, offered, granted, announced>>

Server ==
    \/ \E i \in Rows : ServerDel(i) \/ \E value \in SaslValues : ServerNew(i, value)
    \/ up # <<>> /\ \E line \in Head(up) : ServerAck(line) \/ ServerNak(line)

Receive == ReceiveLs \/ ReceiveNew \/ ReceiveDel \/ ReceiveAck \/ ReceiveNak

Next == Server \/ Receive \/ CapabilityTimeout

Spec == Init /\ [][Next]_vars

-----------------------------------------------------------------------------
(* Properties *)

Live == {"Requested", "Enabled"}

\* Two spellings of one capability (chathistory and draft/chathistory, the two
\* read markers) are never both asked for or on: is_requestable looks at every
\* spelling of the row's capability before it takes one, across DEL, NEW and NAK.
OneSpelling ==
    \A i, j \in Rows :
        (Cap(i) = Cap(j) /\ ledger.tokens[i] \in Live /\ ledger.tokens[j] \in Live) => i = j

\* Whatever the ledger waits for is answered by something still under way: a
\* request line, an answer, or nothing would ever settle it but the timeout.
RequestedIsUnderWay ==
    \A i \in Rows : ledger.tokens[i] = "Requested" =>
        \/ \E k \in DOMAIN up : i \in UNION up[k]
        \/ \E k \in DOMAIN down : down[k].verb \in {"ACK", "NAK", "DEL"} /\ i \in down[k].rows

\* Once both directions are empty, what the client believes is enabled really is
\* enabled at the server: a late ACK, an ACK crossed by a DEL, or an answer to an
\* abandoned request never leaves the client using a capability that is off.
NoFalseGrant ==
    (up = <<>> /\ down = <<>>) => \A i \in Rows : ledger.tokens[i] = "Enabled" => i \in granted

\* The ledger agrees with the server up to what is on its way: nothing waits for an answer
\* that cannot come, and nothing is in use that the server has off.
LedgerAgrees == RequestedIsUnderWay /\ NoFalseGrant

=============================================================================
