------------------------------ MODULE StsStore ------------------------------
(***************************************************************************)
(* The STS policy cache on disk (client/src/storage/stspolicies.rs): one   *)
(* file that several clients read and write, and in each client a memory   *)
(* of the policies whose write failed.                                     *)
(*                                                                         *)
(* A call opens the file, settles the unsaved policies against what it     *)
(* reads, changes its own copy of the groups, and writes the copy back.    *)
(* Nothing locks the file, so another client may act between the read and  *)
(* the write.  The clock stands still while a call is under way.           *)
(***************************************************************************)
EXTENDS Naturals

CONSTANTS Clients, Hosts,
          Ports, Durations,   \* what a server may advertise
          Damages,            \* what may happen to the file from outside
          MaxTime,            \* bound: the clock
          MaxCalls            \* bound: stores, refreshes, clears and changes from outside

ASSUME StsValuesAssumption == Ports \subseteq Nat \ {0} /\ Durations \subseteq Nat \ {0}
ASSUME DamagesAssumption == Damages \subseteq {"readonly", "unreadable", "malformed", "deleted"}
ASSUME HostsAssumption == Hosts # {}
ASSUME LimitsAssumption == MaxTime \in Nat /\ MaxCalls \in Nat

VARIABLES now,      \* the clock, in seconds
          file,     \* the file: whether and how it can be read, and its groups
          memory,   \* per client and host, the remembered policy
          call,     \* per client, the call that has read the file and not yet written it
          calls,    \* how often something was changed so far
          pledge    \* history: until when a client owes its host a policy

vars == <<now, file, memory, call, calls, pledge>>

Policies == [port : Ports, duration : Durations, expiry : Nat]
NoGroup == [port |-> 0, duration |-> 0, expiry |-> 0]
Junk == [port |-> 0, duration |-> 1, expiry |-> 0]      \* a group that is no policy
Groups == Policies \cup {NoGroup, Junk}

View(kind, policy) == [kind |-> kind, policy |-> policy]
Views == [kind : {"Unreadable", "Unknown", "Clear"}, policy : {NoGroup}]
         \cup [kind : {"Policy"}, policy : Policies]
Saved == View("Saved", NoGroup)

Remembered == [cached : Policies \cup {NoGroup}, unsaved : Views \cup {Saved}]
Nothing == [cached |-> NoGroup, unsaved |-> Saved]

\* A call in progress: the groups it loaded, if it could read any, its own copy of them, and
\* whether it is a refresh of the file's policy.
Calls == [op : {"idle", "remove", "write"}, host : Hosts, refresh : BOOLEAN,
          loaded : [Hosts -> Groups], values : [Hosts -> Groups], read : BOOLEAN]

TypeOK ==
    /\ now \in 0 .. MaxTime
    /\ file \in [exists : BOOLEAN, malformed : BOOLEAN, readable : BOOLEAN, writable : BOOLEAN,
                 groups : [Hosts -> Groups]]
    /\ memory \in [Clients -> [Hosts -> Remembered]]
    /\ call \in [Clients -> Calls]
    /\ calls \in 0 .. MaxCalls
    /\ pledge \in [Clients -> [Hosts -> Nat]]

Missing == [exists |-> FALSE, malformed |-> FALSE, readable |-> TRUE, writable |-> TRUE,
            groups |-> [h \in Hosts |-> NoGroup]]

Idle == [op |-> "idle", host |-> CHOOSE h \in Hosts : TRUE, refresh |-> FALSE,
         loaded |-> Missing.groups, values |-> Missing.groups, read |-> FALSE]

Init ==
    /\ now = 0
    /\ file = Missing
    /\ memory = [c \in Clients |-> [h \in Hosts |-> Nothing]]
    /\ call = [c \in Clients |-> Idle]
    /\ calls = 0
    /\ pledge = [c \in Clients |-> [h \in Hosts |-> 0]]

-----------------------------------------------------------------------------
(* What the file says about a host *)

IsPolicy(group) == group.port # 0
Live(policy) == policy.expiry > now
Identity(group) == <<group.port, group.duration>>
Unsaved(held) == held.unsaved # Saved

\* Settings::open_sts: a missing or unreadable file gives no groups.
Loaded == IF file.exists /\ file.readable THEN file.groups ELSE Missing.groups

\* file_view of the groups a call loaded.
FileView(h) ==
    CASE file.exists /\ ~ file.readable -> View("Unreadable", NoGroup)
      [] IsPolicy(Loaded[h]) -> View("Policy", Loaded[h])
      [] file.exists /\ file.readable /\ ~ file.malformed /\ Loaded[h] = NoGroup ->
            View("Clear", NoGroup)
      [] OTHER -> View("Unknown", NoGroup)

Known(view) == view.kind \in {"Clear", "Policy"}

\* file_moved: another client saved a different live policy, or cleared a live one.
FileMoved(recorded, view) ==
    /\ Known(recorded) /\ Known(view)
    /\ Identity(recorded.policy) # Identity(view.policy)
    /\ IF view.kind = "Policy" THEN Live(view.policy) ELSE Live(recorded.policy)

\* open: settle one unsaved policy against the view just read.
Settle(held, view) ==
    IF ~ Unsaved(held) THEN held
    ELSE IF FileMoved(held.unsaved, view) THEN [held EXCEPT !.unsaved = Saved]
    ELSE IF view.kind # "Unreadable" THEN [held EXCEPT !.unsaved = view]
    ELSE held

Settled(c) == [h \in Hosts |-> Settle(memory[c][h], FileView(h))]

-----------------------------------------------------------------------------
(* lookup, store, refresh and clear, up to the write *)

Free(c) == call[c].op = "idle"

Writing(h, values, refresh) ==
    [op |-> "write", host |-> h, refresh |-> refresh, loaded |-> Loaded, values |-> values,
     read |-> file.exists /\ file.readable]

\* What a lookup answers: an unsaved policy, else the file's, else a remembered one.
Lookup(c, h) ==
    LET held == Settled(c)[h]
        view == FileView(h)
    IN CASE Unsaved(held) /\ Live(held.cached) -> held.cached
         [] ~ (Unsaved(held) /\ Live(held.cached)) /\ Live(view.policy) -> view.policy
         [] OTHER -> IF Live(held.cached) THEN held.cached ELSE NoGroup

\* A lookup remembers the file's live policy, and drops from the file a group that lapsed; one
\* that is no policy is dropped too if it is whole, that is has a port and an expiry.
LookUp(c, h) ==
    /\ Free(c)
    /\ \E whole \in {TRUE, IsPolicy(Loaded[h])} :
       LET held == Settled(c)[h]
           fromFile == ~ (Unsaved(held) /\ Live(held.cached)) /\ Live(FileView(h).policy)
           drops == Lookup(c, h) = NoGroup /\ Loaded[h] # NoGroup /\ whole
       IN /\ memory' = [memory EXCEPT ![c] =
                [Settled(c) EXCEPT ![h] =
                    CASE fromFile -> [cached |-> FileView(h).policy, unsaved |-> Saved]
                      [] drops -> Nothing
                      [] OTHER -> held]]
          /\ call' = IF drops THEN [call EXCEPT ![c] = [Idle EXCEPT !.op = "remove", !.host = h]]
                     ELSE call
    /\ UNCHANGED <<now, file, calls, pledge>>

Counted == calls < MaxCalls /\ calls' = calls + 1

Incoming(port, duration) == [port |-> port, duration |-> duration, expiry |-> now + duration]

\* Variant: the policy is remembered only once its write has landed.
StoreForgetting(held, policy, view) == held

\* remember, before the write: a write that fails leaves the policy unsaved.
Remember(held, policy, view) == [cached |-> policy, unsaved |-> view]

Store(c, h, port, duration) ==
    /\ Free(c) /\ Counted
    /\ LET policy == Incoming(port, duration)
       IN /\ memory' = [memory EXCEPT ![c] =
                           [Settled(c) EXCEPT ![h] = Remember(@, policy, FileView(h))]]
          /\ call' = [call EXCEPT ![c] = Writing(h, [Loaded EXCEPT ![h] = policy], FALSE)]
          /\ pledge' = [pledge EXCEPT ![c][h] = policy.expiry]
    /\ UNCHANGED <<now, file>>

\* The policy a refresh extends: the unsaved one lookup serves, else the file's.
Extended(c, h) ==
    IF Unsaved(Settled(c)[h]) THEN Settled(c)[h].cached ELSE FileView(h).policy

\* The file holds a live policy other than the one it held when h was last read: another
\* client has replaced it, which a client that cannot read the file does not see.
Replaced(held, h) ==
    /\ Unsaved(held) /\ Known(held.unsaved)
    /\ IsPolicy(file.groups[h]) /\ Live(file.groups[h])
    /\ Identity(held.unsaved.policy) # Identity(file.groups[h])

\* What a refresh of a policy up to expiry is worth: no more than one that took its place.
Owes(held, h, expiry) ==
    IF Replaced(held, h) /\ file.groups[h].expiry < expiry THEN file.groups[h].expiry ELSE expiry

Refresh(c, h, duration) ==
    /\ Free(c) /\ Counted
    /\ LET held == Settled(c)[h]
           old == Extended(c, h)
           policy == [old EXCEPT !.expiry = now + duration]
       IN IF old.duration = duration
          THEN /\ memory' = [memory EXCEPT ![c] = [Settled(c) EXCEPT ![h] =
                    Remember(held, policy, IF Unsaved(held) THEN held.unsaved ELSE FileView(h))]]
               /\ call' = [call EXCEPT ![c] = Writing(h, [Loaded EXCEPT ![h] = policy],
                                                    ~ Unsaved(held))]
               /\ pledge' = [pledge EXCEPT ![c][h] = Owes(held, h, policy.expiry)]
          ELSE /\ memory' = [memory EXCEPT ![c] = Settled(c)]
               /\ UNCHANGED <<call, pledge>>
    /\ UNCHANGED <<now, file>>

\* clear (and a store of duration 0): memory goes first, then the group of the file.
Clear(c, h) ==
    /\ Free(c) /\ Counted
    /\ memory' = [memory EXCEPT ![c][h] = Nothing]
    /\ call' = [call EXCEPT ![c] = [Idle EXCEPT !.op = "remove", !.host = h]]
    /\ pledge' = [pledge EXCEPT ![c][h] = 0]
    /\ UNCHANGED <<now, file>>

\* remove opens the file again and writes only if it has the group.
OpenToRemove(c) ==
    /\ call[c].op = "remove"
    /\ memory' = [memory EXCEPT ![c] = Settled(c)]
    /\ LET h == call[c].host
       IN call' = [call EXCEPT ![c] = IF Loaded[h] = NoGroup THEN Idle
                                      ELSE Writing(h, [Loaded EXCEPT ![h] = NoGroup], FALSE)]
    /\ UNCHANGED <<now, file, calls, pledge>>

-----------------------------------------------------------------------------
(* persist_sts_settings *)

DropInvalid(groups) == [h \in Hosts |-> IF IsPolicy(groups[h]) THEN groups[h] ELSE NoGroup]

\* Variant: a normal write puts saved memory back too.
MergesAll(held, group, recovery) == Live(held.cached) /\ (Unsaved(held) \/ ~ Live(group))

\* An unsaved policy always lands; a saved one only in recovery, where the file has none.
Merges(held, group, recovery) ==
    Live(held.cached) /\ (Unsaved(held) \/ (recovery /\ ~ Live(group)))

MergedMemory(c, groups, recovery) ==
    [h \in Hosts |-> IF Merges(memory[c][h], groups[h], recovery)
                     THEN memory[c][h].cached ELSE groups[h]]

SettleWritten(held) == IF Live(held.cached) THEN [held EXCEPT !.unsaved = Saved] ELSE held

Ends(c) == call' = [call EXCEPT ![c] = Idle]

\* The write is refused or fails: the file stays as it is and memory keeps the policy.
Recovers == file.exists /\ file.malformed

Outcome(c) == MergedMemory(c, DropInvalid(call[c].values), Recovers)

\* sync compares with the bytes it loaded, not with the bytes on disk now.
Unchanged(c) ==
    ~ Recovers /\ IF call[c].read THEN Outcome(c) = call[c].loaded
                  ELSE ~ file.exists /\ Outcome(c) = Missing.groups

WriteFails(c) ==
    /\ call[c].op = "write"
    /\ Ends(c)
    /\ UNCHANGED <<now, file, memory, calls, pledge>>

WriteLands(c) ==
    /\ call[c].op = "write"
    /\ file.exists => file.readable /\ file.writable
    /\ memory' = [memory EXCEPT ![c] = [h \in Hosts |-> SettleWritten(@[h])]]
    /\ Ends(c)
    /\ IF Unchanged(c) THEN UNCHANGED <<file, pledge>>
       ELSE /\ file' = [Missing EXCEPT !.exists = TRUE, !.groups = Outcome(c)]
            /\ pledge' = [d \in Clients |-> [h \in Hosts |->
                  IF d # c /\ IsPolicy(Outcome(c)[h]) /\ Outcome(c)[h].expiry < pledge[d][h]
                  THEN Outcome(c)[h].expiry ELSE pledge[d][h]]]
    /\ UNCHANGED <<now, calls>>

-----------------------------------------------------------------------------
(* The world outside: the clock and the file's permissions and contents *)

Tick ==
    /\ \A c \in Clients : call[c].op = "idle"
    /\ now < MaxTime
    /\ now' = now + 1
    /\ UNCHANGED <<file, memory, call, calls, pledge>>

Becomes(f) ==
    /\ file.exists /\ Counted
    /\ file' = f
    /\ UNCHANGED <<now, memory, call, pledge>>

ReadOnly == "readonly" \in Damages /\ Becomes([file EXCEPT !.writable = ~ @])
Unreadable == "unreadable" \in Damages /\ Becomes([file EXCEPT !.readable = ~ @])
Malformed(h) ==
    /\ "malformed" \in Damages
    /\ \/ Becomes([file EXCEPT !.malformed = TRUE])
       \/ Becomes([file EXCEPT !.malformed = TRUE, !.groups[h] = Junk])
Deleted == "deleted" \in Damages /\ Becomes(Missing)

-----------------------------------------------------------------------------

Client(c) ==
    \/ \E h \in Hosts : \/ LookUp(c, h) \/ Clear(c, h)
                        \/ \E d \in Durations :
                              Refresh(c, h, d) \/ \E p \in Ports : Store(c, h, p, d)
    \/ OpenToRemove(c) \/ WriteFails(c) \/ WriteLands(c)

World == Tick \/ ReadOnly \/ Unreadable \/ (\E h \in Hosts : Malformed(h)) \/ Deleted

Next == World \/ \E c \in Clients : Client(c)

Spec == Init /\ [][Next]_vars

-----------------------------------------------------------------------------
(* Properties *)

\* A client that stored or refreshed a policy answers with a live one until it expires,
\* unless it cleared the host or another client replaced the policy with a shorter one (of
\* which it may learn only after a refresh, when it can read the file again): no failed
\* write, lost permission, damage, deletion or recovery lets the next dial fall back to
\* plaintext.
NeverForgets ==
    \A c \in Clients, h \in Hosts :
        call[c].op = "idle" /\ now < pledge[c][h] => Lookup(c, h) # NoGroup

\* Nobody has touched the file between the read and the write of a call.
Fresh(c) == IF call[c].read THEN file.groups = call[c].loaded ELSE ~ file.exists

\* A write changes the host of its call, lands policies whose own write had failed and
\* drops what is not a policy; recovery fills in only hosts the file has no live policy
\* for.  In particular a host another client cleared is not brought back, unless it was
\* cleared between the read and the write.  And StsStore::refresh: "a policy another client
\* replaced or cleared is left alone, and a missing one is not recreated".
OthersAreLeftAlone ==
    [][\A c \in Clients : call[c].op = "write" /\ Fresh(c) /\ call'[c].op = "idle" =>
         \A h \in Hosts : file'.groups[h] # file.groups[h] =>
            \/ /\ h = call[c].host
               /\ call[c].refresh => Identity(file.groups[h]) = Identity(file'.groups[h])
            \/ h # call[c].host /\ Unsaved(memory[c][h])
            \/ ~ IsPolicy(file.groups[h]) /\ file'.groups[h] = NoGroup
            \/ Recovers /\ ~ Live(file.groups[h])]_vars

=============================================================================
