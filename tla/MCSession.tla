------------------------------ MODULE MCSession ------------------------------
(* Small instances of Session. *)
EXTENDS Session

Profile(tls, reconnect, secret, nickserv) ==
    [complete |-> TRUE, sendable |-> TRUE, tls |-> tls, port |-> 6667,
     reconnect |-> reconnect, secret |-> secret, nickserv |-> nickserv]

\* Plaintext profiles, with and without reconnect; one that cannot be sent and one
\* that is incomplete.
MCPlainConfigs ==
    {Profile(FALSE, TRUE, FALSE, FALSE), Profile(FALSE, FALSE, FALSE, FALSE),
     [Profile(FALSE, TRUE, FALSE, FALSE) EXCEPT !.sendable = FALSE],
     [Profile(FALSE, TRUE, FALSE, FALSE) EXCEPT !.complete = FALSE]}

MCOneConfig == {Profile(FALSE, TRUE, FALSE, FALSE)}
\* Profiles with a secret; the plaintext one may be redirected to TLS.
MCSaslConfigs == {Profile(tls, TRUE, TRUE, TRUE) : tls \in BOOLEAN}

RowsNamed(names) == {i \in 1 .. Len(WANTED) : WANTED[i].token \in names}
MCBatch == RowsNamed({"batch"})
MCSasl == RowsNamed({"sasl"})

MCNoValue == {{}}
MCMechanisms == {{"PLAIN"}, {"SCRAM-SHA-256"}}
MCPorts == {6697}
MCDurations == {0, 5}
MCNone == {}

=============================================================================
