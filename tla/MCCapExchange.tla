---------------------------- MODULE MCCapExchange ----------------------------
(***************************************************************************)
(* Small instances of the capability ledger with a server of its own       *)
(* (CapExchange): one that knows SASL, two spellings of one capability and  *)
(* the capability they depend on.                                          *)
(***************************************************************************)
EXTENDS CapNegotiation

CONSTANTS MechanismLists, MaxAnnouncements, Credentials

VARIABLES ledger, up, down, offered, granted, announced

Caps == INSTANCE CapExchange WITH SaslValues <- MechanismLists

\* What the theorems about CapExchange ask of its constants.
ASSUME ExchangeParameters ==
    /\ MechanismLists \subseteq SUBSET Mechanisms
    /\ MaxAnnouncements \in Nat /\ Credentials \in BOOLEAN

MCRows == {i \in 1 .. Len(WANTED) :
              WANTED[i].token \in {"sasl", "batch", "chathistory", "draft/chathistory"}}
MCMechanismLists == {{"PLAIN", "SCRAM-SHA-256"}, {"EXTERNAL"}}

ExchangeSpec == Caps!Spec

\* A capability is never asked for, or on, under two spellings at once (is_requestable).
OneSpelling == Caps!OneSpelling

\* What the ledger says is on its way or true at the server (session/caps.rs).
LedgerAgrees == Caps!LedgerAgrees

=============================================================================
