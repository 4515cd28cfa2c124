------------------------------ MODULE Transport ------------------------------
(***************************************************************************)
(* What a Transport promises the session that owns it                      *)
(* (client/src/session/transport.rs): the order of the states it may show, *)
(* each move being one call of the sink, connect excepted.  Session is     *)
(* written against this contract and NetTransport implements it.           *)
(***************************************************************************)
VARIABLES state, tls

vars == <<state, tls>>

InFlight == {"Connecting", "Connected", "Encrypted"}

Init == state = "Idle" /\ tls \in BOOLEAN

\* connect: only a transport with nothing in flight starts.
Connect ==
    /\ state \notin InFlight
    /\ state' = "Connecting"
    /\ tls' \in BOOLEAN

\* connected: the TCP connection is made.
Connected == state = "Connecting" /\ state' = "Connected" /\ UNCHANGED tls

\* encrypted: the TLS handshake is done, on a connection that asked for it.
Encrypted == state = "Connected" /\ tls /\ state' = "Encrypted" /\ UNCHANGED tls

\* disconnected, by the peer or by shutdown.
Disconnected == state \in InFlight /\ state' = "Disconnected" /\ UNCHANGED tls

\* error: a dial, a handshake, a read or a write failed.
Failed == state \in InFlight /\ state' = "Failed" /\ UNCHANGED tls

Next == Connect \/ Connected \/ Encrypted \/ Disconnected \/ Failed

Spec == Init /\ [][Next]_vars

=============================================================================
