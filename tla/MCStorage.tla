----------------------------- MODULE MCStorage -----------------------------
(***************************************************************************)
(* Small instances of the files that several clients share: the STS policy *)
(* file (StsStore), where a write lands or fails as a whole, and the       *)
(* replacement of a file, system call by system call (AtomicWrite), which  *)
(* shows that it does.  A behaviour is one of the first or one of the      *)
(* second.                                                                 *)
(***************************************************************************)
EXTENDS StsStore

CONSTANTS Pids, Values, Tries, Backups, MaxInodes, MaxCrashes

VARIABLES dir, durable, data, synced, used, proc, counter, crashes,
          part   \* which of the two moves

Disk == INSTANCE AtomicWrite

\* What the theorems about AtomicWrite ask of its constants.
ASSUME DiskParameters ==
    /\ Tries \in Nat /\ MaxCrashes \in Nat
    /\ Backups \in Nat \ {0} /\ MaxInodes \in Nat \ {0}
    /\ Disk!Damaged \notin Values /\ Disk!Torn \notin Values

diskVars == <<dir, durable, data, synced, used, proc, counter, crashes>>

\* The part that stands still starts in one state only.
MCInit ==
    /\ Init /\ Disk!Init
    /\ part \in {"replace", "policies"}
    /\ part = "policies" => dir[Disk!Target] = 0

MCNext ==
    /\ UNCHANGED part
    /\ \/ part = "replace" /\ Disk!Next /\ UNCHANGED vars
       \/ part = "policies" /\ Next /\ UNCHANGED diskVars

MCSpec == MCInit /\ [][MCNext]_<<vars, diskVars, part>>

\* The target is whole at every moment and after every power failure (storage/atomicwrite.rs).
NeverTorn == Disk!NeverTorn

\* A damaged file that was replaced is kept (recover_malformed_sts).
DamageIsKept == Disk!DamageIsKept

=============================================================================
