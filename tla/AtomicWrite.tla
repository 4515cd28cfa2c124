---------------------------- MODULE AtomicWrite ----------------------------
(***************************************************************************)
(* Replacing a file (client/src/storage/atomicwrite.rs) and recovering a   *)
(* damaged policy file (recover_malformed_sts, storage/stspolicies.rs): a  *)
(* temporary sibling is created, filled and synced, a recovery keeps the   *)
(* damaged file under a backup name, and the temporary is renamed over the *)
(* target.                                                                 *)
(*                                                                         *)
(* Processes interleave system call by system call.  One may be killed     *)
(* between any two of them, and the power may fail.  The code never syncs  *)
(* the directory: names reach the disk when the file system flushes them,  *)
(* in the order they changed, and bytes that were not synced may be lost.  *)
(* A restarted client may get the process id of a dead one.                *)
(***************************************************************************)
EXTENDS Naturals

CONSTANTS Pids,
          Values,      \* what is written, neither damaged nor torn
          Tries,       \* temporary names tried by one call (16)
          Backups,     \* backup names (MAX_STS_CORRUPT_BACKUPS)
          MaxInodes,   \* bound: files ever created
          MaxCrashes   \* bound: kills and power failures

VARIABLES dir,       \* the directory: the inode behind each name, 0 for none
          durable,   \* the directory as a power failure would leave it
          data,      \* what each inode holds
          synced,    \* the inodes whose bytes are on disk
          used,      \* how many inodes were ever created
          proc,      \* per process, the call it is in
          counter,   \* per process, COUNTER of create_temp_file
          crashes

vars == <<dir, durable, data, synced, used, proc, counter, crashes>>

Damaged == "damaged"      \* bytes that are no INI file
Torn == "torn"            \* a file cut short

Inodes == 1 .. MaxInodes
Numbers == 0 .. MaxInodes - 1      \* a number is tried after all lower ones were created
Kinds == {"write", "recover"}
Target == <<"target", 0, 0>>
Temp(kind, p, n) == <<kind, p, n>>
Backup(n) == <<"backup", 0, n>>
Names == {Target} \cup (Kinds \X Pids \X Numbers) \cup {Backup(n) : n \in 0 .. Backups - 1}

Steps == {"idle", "create", "fill", "sync", "backup", "copy", "rename", "discard"}
Idle == [at |-> "idle", kind |-> "write", value |-> Torn, tries |-> 0, temp |-> Target,
         backup |-> 0, copied |-> Torn]

TypeOK ==
    /\ dir \in [Names -> 0 .. MaxInodes]
    /\ durable \in [Names -> 0 .. MaxInodes]
    /\ data \in [Inodes -> Values \cup {Damaged, Torn}]
    /\ synced \subseteq Inodes
    /\ used \in 0 .. MaxInodes
    /\ proc \in [Pids -> [at : Steps, kind : Kinds, value : Values \cup {Torn},
                          tries : 0 .. Tries, temp : Names, backup : 0 .. Backups - 1,
                          copied : Values \cup {Damaged, Torn}]]
    /\ counter \in [Pids -> Nat]
    /\ crashes \in 0 .. MaxCrashes

\* The target is missing, whole or damaged, and on disk.
Init ==
    /\ \E v \in Values \cup {Damaged, Torn} :
          /\ data = [i \in Inodes |-> IF i = 1 THEN v ELSE Torn]
          /\ dir = [n \in Names |-> IF n = Target /\ v # Torn THEN 1 ELSE 0]
          /\ synced = IF v = Torn THEN {} ELSE {1}
    /\ durable = dir
    /\ used = 1
    /\ proc = [p \in Pids |-> Idle]
    /\ counter = [p \in Pids |-> 0]
    /\ crashes = 0

-----------------------------------------------------------------------------
(* One call *)

Goes(p, step) == proc' = [proc EXCEPT ![p].at = step]
Ends(p) == proc' = [proc EXCEPT ![p] = Idle]

\* persist_sts_settings: a damaged file is recovered, any other one is replaced.
Begin(p, v) ==
    /\ proc[p].at = "idle"
    /\ proc' = [proc EXCEPT ![p] =
          [Idle EXCEPT !.at = "create", !.value = v,
                       !.kind = IF dir[Target] # 0 /\ data[dir[Target]] = Damaged
                                THEN "recover" ELSE "write"]]
    /\ UNCHANGED <<dir, durable, data, synced, used, counter, crashes>>

\* A new empty file under a name nobody has (create_new).
Creates(name) ==
    /\ dir[name] = 0
    /\ used < MaxInodes
    /\ used' = used + 1
    /\ dir' = [dir EXCEPT ![name] = used + 1]

\* create_temp_file counts over the life of the process, write_sts_temp from 0 every time.
TempNumber(p) == IF proc[p].kind = "write" THEN counter[p] ELSE proc[p].tries

CreateTemp(p) ==
    LET name == Temp(proc[p].kind, p, TempNumber(p))
    IN /\ proc[p].at = "create"
       /\ TempNumber(p) \in Numbers
       /\ counter' = IF proc[p].kind = "write" THEN [counter EXCEPT ![p] = @ + 1] ELSE counter
       /\ \/ /\ Creates(name)
             /\ proc' = [proc EXCEPT ![p].at = "fill", ![p].temp = name]
          \/ /\ dir[name] # 0
             /\ proc' = [proc EXCEPT ![p] =
                   IF proc[p].tries + 1 < Tries
                   THEN [proc[p] EXCEPT !.tries = @ + 1] ELSE Idle]
             /\ UNCHANGED <<dir, used>>
       /\ UNCHANGED <<durable, data, synced, crashes>>

\* The folder cannot be written to: the call fails with nothing to clean up.
CreateFails(p) ==
    /\ proc[p].at = "create"
    /\ Ends(p)
    /\ UNCHANGED <<dir, durable, data, synced, used, counter, crashes>>

Fill(p) ==
    /\ proc[p].at = "fill"
    /\ data' = [data EXCEPT ![dir[proc[p].temp]] = proc[p].value]
    /\ Goes(p, "sync")
    /\ UNCHANGED <<dir, durable, synced, used, counter, crashes>>

\* Variant: the rename does not wait for the bytes.
SyncSkipped(p) ==
    /\ proc[p].at = "sync"
    /\ Goes(p, IF proc[p].kind = "recover" THEN "backup" ELSE "rename")
    /\ UNCHANGED <<dir, durable, data, synced, used, counter, crashes>>

Sync(p) ==
    /\ proc[p].at = "sync"
    /\ synced' = synced \cup {dir[proc[p].temp]}
    /\ Goes(p, IF proc[p].kind = "recover" THEN "backup" ELSE "rename")
    /\ UNCHANGED <<dir, durable, data, used, counter, crashes>>

\* Writing, syncing or renaming the temporary fails.
StepFails(p) ==
    /\ proc[p].at \in {"fill", "sync", "backup", "rename"}
    /\ Goes(p, "discard")
    /\ UNCHANGED <<dir, durable, data, synced, used, counter, crashes>>

\* Variant: a backup that exists already is taken to be the one.
TakenIsEnough(p) == [proc[p] EXCEPT !.at = "rename"]

\* A taken backup name: the next one is tried, and after the last the recovery gives up.
Taken(p) ==
    IF proc[p].backup + 1 < Backups THEN [proc[p] EXCEPT !.backup = @ + 1]
    ELSE [proc[p] EXCEPT !.at = "discard"]

LinkBackup(p) ==
    LET name == Backup(proc[p].backup)
    IN /\ proc[p].at = "backup"
       /\ \/ /\ dir[name] = 0
             /\ dir' = [dir EXCEPT ![name] = dir[Target]]
             /\ Goes(p, "rename")
          \/ /\ dir[name] # 0
             /\ proc' = [proc EXCEPT ![p] = Taken(p)]
             /\ UNCHANGED dir
       /\ UNCHANGED <<durable, data, synced, used, counter, crashes>>

\* The file system has no hard links: the target is read and copied to a new file.
CopyBackup(p) ==
    /\ proc[p].at = "backup"
    /\ \/ /\ Creates(Backup(proc[p].backup))
          /\ proc' = [proc EXCEPT ![p].at = "copy", ![p].copied = data[dir[Target]]]
       \/ /\ dir[Backup(proc[p].backup)] # 0
          /\ proc' = [proc EXCEPT ![p] = Taken(p)]
          /\ UNCHANGED <<dir, used>>
    /\ UNCHANGED <<durable, data, synced, counter, crashes>>

\* copy_sts_exclusive fills and syncs the copy, or removes it.
CopyEnds(p) ==
    LET name == Backup(proc[p].backup)
    IN /\ proc[p].at = "copy"
       /\ \/ /\ data' = [data EXCEPT ![dir[name]] = proc[p].copied]
             /\ synced' = synced \cup {dir[name]}
             /\ Goes(p, "rename")
             /\ UNCHANGED dir
          \/ /\ dir' = [dir EXCEPT ![name] = 0]
             /\ Goes(p, "discard")
             /\ UNCHANGED <<data, synced>>
       /\ UNCHANGED <<durable, used, counter, crashes>>

Rename(p) ==
    /\ proc[p].at = "rename"
    /\ dir' = [dir EXCEPT ![Target] = dir[proc[p].temp], ![proc[p].temp] = 0]
    /\ Ends(p)
    /\ UNCHANGED <<durable, data, synced, used, counter, crashes>>

\* The temporary of a failed call is removed; an error of the removal is ignored.
Discard(p) ==
    /\ proc[p].at = "discard"
    /\ dir' \in {dir, [dir EXCEPT ![proc[p].temp] = 0]}
    /\ Ends(p)
    /\ UNCHANGED <<durable, data, synced, used, counter, crashes>>

-----------------------------------------------------------------------------
(* The operating system *)

\* The file system writes its directory changes to disk.
Flush ==
    /\ durable # dir
    /\ durable' = dir
    /\ UNCHANGED <<dir, data, synced, used, proc, counter, crashes>>

Crash == crashes < MaxCrashes /\ crashes' = crashes + 1

\* A process is killed, and a new one may run under its id.
Kill(p) ==
    /\ proc[p].at # "idle" \/ counter[p] > 0
    /\ Crash
    /\ Ends(p)
    /\ counter' = [counter EXCEPT ![p] = 0]
    /\ UNCHANGED <<dir, durable, data, synced, used>>

\* The power fails: the directory is as it was last flushed, and any file that was not
\* synced may be cut short.
PowerFails ==
    /\ Crash
    /\ dir' = durable
    /\ \E lost \in SUBSET {i \in 1 .. used : i \notin synced} :
          data' = [i \in Inodes |-> IF i \in lost THEN Torn ELSE data[i]]
    /\ proc' = [p \in Pids |-> Idle]
    /\ counter' = [p \in Pids |-> 0]
    /\ UNCHANGED <<durable, synced, used>>

-----------------------------------------------------------------------------

Process(p) ==
    \/ \E v \in Values : Begin(p, v)
    \/ CreateTemp(p) \/ CreateFails(p) \/ Fill(p) \/ Sync(p) \/ StepFails(p)
    \/ LinkBackup(p) \/ CopyBackup(p) \/ CopyEnds(p) \/ Rename(p) \/ Discard(p)
    \/ Kill(p)

Next == Flush \/ PowerFails \/ \E p \in Pids : Process(p)

Spec == Init /\ [][Next]_vars

-----------------------------------------------------------------------------
(* Properties *)

\* "An interrupted write cannot leave a half-written or truncated file": whatever is
\* interrupted, by a kill or a power failure, the target is never cut short.
NeverTorn == dir[Target] # 0 => data[dir[Target]] # Torn

\* A recovery that replaced the damaged file kept it under a backup name, across kills,
\* power failures, taken names and a second client that recovers at the same time.
DamageIsKept ==
    data[1] = Damaged /\ dir[Target] # 1 =>
        \E n \in 0 .. Backups - 1 : dir[Backup(n)] # 0 /\ data[dir[Backup(n)]] = Damaged

=============================================================================
