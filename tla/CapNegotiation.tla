--------------------------- MODULE CapNegotiation ---------------------------
(***************************************************************************)
(* The ledger of one CAP LS / REQ / ACK / NAK / END exchange               *)
(* (client/src/irc/capabilitynegotiation.rs): what the server advertised,  *)
(* what was asked for, what it granted and what it refused.                *)
(*                                                                         *)
(* The ledger is a value n with three fields: tokens, the state of each of *)
(* the Rows of the wanted table in play ("Absent" stands for a missing key *)
(* of the Rust HashMap; a row no server line ever names stays absent and   *)
(* changes nothing, so a model may leave it out); saslValue, the set of    *)
(* mechanisms the last usable sasl token listed (the empty set is a bare   *)
(* "sasl"); credentials, whether a SASL secret is configured.  Every method *)
(* of IrcCapabilityNegotiation is an                                       *)
(* operator from a ledger to a ledger, so that Session can compose them.   *)
(***************************************************************************)
EXTENDS Naturals, Sequences

CONSTANT Rows     \* the rows of WANTED the server may name

TokenState == {"Absent", "Advertised", "Requested", "Enabled", "Refused"}

Mechanisms == {"PLAIN", "SCRAM-SHA-256", "EXTERNAL"}

W(capability, token, dependency, ownLine) ==
    [capability |-> capability, token |-> token,
     dependency |-> dependency, ownLine |-> ownLine]

\* The fixed policy, in the order CAP REQ lists it.
WANTED ==
  << W("Sasl",            "sasl",              "none",        TRUE),
     W("AwayNotify",      "away-notify",       "none",        FALSE),
     W("Batch",           "batch",             "none",        FALSE),
     W("MemberMetadata",  "draft/metadata-2",  "Batch",       FALSE),
     W("MessageTags",     "message-tags",      "none",        TRUE),
     W("MultiPrefix",     "multi-prefix",      "none",        FALSE),
     W("Chghost",         "chghost",           "none",        FALSE),
     W("CapNotify",       "cap-notify",        "none",        FALSE),
     W("EchoMessage",     "echo-message",      "none",        FALSE),
     W("ServerTime",      "server-time",       "none",        TRUE),
     W("ChatHistory",     "chathistory",       "Batch",       FALSE),
     W("ChatHistory",     "draft/chathistory", "Batch",       FALSE),
     W("ZncPlayback",     "znc.in/playback",   "Batch",       TRUE),
     W("LabeledResponse", "labeled-response",  "MessageTags", TRUE),
     W("AccountTag",      "account-tag",       "MessageTags", FALSE),
     W("AccountNotify",   "account-notify",    "none",        FALSE),
     W("ExtendedJoin",    "extended-join",     "none",        FALSE),
     W("ReadMarker",      "draft/read-marker", "none",        FALSE),
     W("ReadMarker",      "soju.im/read",      "none",        FALSE) >>

ASSUME RowsAssumption == Rows \subseteq 1 .. Len(WANTED)

Ledgers == [tokens : [Rows -> TokenState],
            saslValue : SUBSET Mechanisms,
            credentials : BOOLEAN]

Cap(i) == WANTED[i].capability
IsSasl(i) == Cap(i) = "Sasl"

\* EXTERNAL alone cannot be used; a bare sasl or one listing PLAIN or SCRAM can.
AcceptsSaslValue(value) == value = {} \/ "PLAIN" \in value \/ "SCRAM-SHA-256" \in value
AcceptsValue(i, value) == IsSasl(i) => AcceptsSaslValue(value)

ChosenSaslMechanism(value) ==
    IF "SCRAM-SHA-256" \in value THEN "SCRAM-SHA-256" ELSE "PLAIN"

NewLedger(credentials) ==
    [tokens |-> [i \in Rows |-> "Absent"], saslValue |-> {}, credentials |-> credentials]

AnyToken(n, capability, states) ==
    \E i \in Rows : Cap(i) = capability /\ n.tokens[i] \in states

Settled(n) == \A i \in Rows : n.tokens[i] # "Requested"

EnabledCaps(n) == {Cap(i) : i \in {j \in Rows : n.tokens[j] = "Enabled"}}

\* A CAP LS or NEW line: a token already requested or enabled keeps its state.
Advertise(n, rows, value) ==
    LET taken == {i \in rows : /\ AcceptsValue(i, value)
                               /\ n.tokens[i] \notin {"Enabled", "Requested"}}
    IN [n EXCEPT !.tokens = [i \in Rows |-> IF i \in taken THEN "Advertised" ELSE n.tokens[i]],
                 !.saslValue = IF \E i \in taken : IsSasl(i) THEN value ELSE n.saslValue]

\* Variant: a CAP DEL leaves what is already enabled alone.
WithdrawKeepingEnabled(n, rows) ==
    [n EXCEPT !.tokens = [i \in Rows |-> IF i \in rows /\ n.tokens[i] # "Enabled"
                                         THEN "Absent" ELSE n.tokens[i]]]

\* A CAP DEL line forgets its tokens, whatever their state.
Withdraw(n, rows) ==
    [n EXCEPT !.tokens = [i \in Rows |-> IF i \in rows THEN "Absent" ELSE n.tokens[i]],
              !.saslValue = IF \E i \in rows : IsSasl(i) THEN {} ELSE n.saslValue]

\* Variant: the other spellings of the capability are not looked at.
IsRequestableAlone(n, i) ==
    /\ n.tokens[i] = "Advertised"
    /\ IsSasl(i) => n.credentials

IsRequestable(n, i) ==
    /\ n.tokens[i] = "Advertised"
    /\ ~ AnyToken(n, Cap(i), {"Enabled", "Requested"})
    /\ IsSasl(i) => n.credentials
    /\ \/ WANTED[i].dependency = "none"
       \/ AnyToken(n, WANTED[i].dependency, {"Advertised", "Requested", "Enabled"})

\* take_request marks each row as it walks the table, so of two spellings of one
\* capability only the first requestable one is taken.
ToRequest(n) ==
    {i \in Rows : /\ IsRequestable(n, i)
                  /\ \A j \in Rows : (j < i /\ Cap(j) = Cap(i)) => ~ IsRequestable(n, j)}

TakeRequest(n) ==
    [n EXCEPT !.tokens = [i \in Rows |-> IF i \in ToRequest(n) THEN "Requested" ELSE n.tokens[i]]]

RequestsSasl(n) == \E i \in ToRequest(n) : IsSasl(i)

\* The CAP REQ lines of one request: one per own-line token, one for all the others.
RequestLines(n) ==
    {{i} : i \in {j \in ToRequest(n) : WANTED[j].ownLine}}
    \cup ({{j \in ToRequest(n) : ~ WANTED[j].ownLine}} \ {{}})

\* A CAP ACK line: granted rows enable what was requested, "-name" (disabled)
\* turns an enabled token off, and anything else is a late or unasked answer.
Acknowledge(n, granted, disabled) ==
    [n EXCEPT !.tokens =
        [i \in Rows |->
            CASE i \in granted /\ n.tokens[i] = "Requested" -> "Enabled"
              [] i \in disabled /\ n.tokens[i] = "Enabled" -> "Refused"
              [] OTHER -> n.tokens[i]]]

NewlyEnabled(n, granted) ==
    {Cap(i) : i \in {j \in granted : /\ n.tokens[j] = "Requested"
                                     /\ ~ AnyToken(n, Cap(j), {"Enabled"})}}

Reject(n, rows) ==
    [n EXCEPT !.tokens = [i \in Rows |-> IF i \in rows /\ n.tokens[i] = "Requested"
                                         THEN "Refused" ELSE n.tokens[i]]]

Refused(n, rows) == {Cap(i) : i \in {j \in rows : n.tokens[j] = "Requested"}}

AbandonOutstanding(n) ==
    [n EXCEPT !.tokens = [i \in Rows |-> IF n.tokens[i] = "Requested"
                                         THEN "Refused" ELSE n.tokens[i]]]

Abandoned(n) == {Cap(i) : i \in {j \in Rows : n.tokens[j] = "Requested"}}

=============================================================================
