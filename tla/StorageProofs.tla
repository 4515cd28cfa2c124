---------------------------- MODULE StorageProofs ----------------------------
(***************************************************************************)
(* The files that clients share.  A policy that was stored is not          *)
(* forgotten, and a write leaves what it is not about alone: for any       *)
(* number of clients and hosts, calls and changes from outside, and any    *)
(* duration.  And the target of a replacement is never cut short and a     *)
(* damaged file that was replaced is kept, for any number of processes,    *)
(* temporaries and backup names, kills and power failures, and any values. *)
(***************************************************************************)
EXTENDS MCStorage, TLAPS

-----------------------------------------------------------------------------
(* The inductive invariant.  t is the time, held what a client remembers   *)
(* of a host, group what the file says of it, and until the moment up to   *)
(* which the client owes a policy.                                         *)

\* What a client owes, it remembers at least as long.
Covered(t, held, until) == t < until => held.cached.expiry >= until

\* The unsaved policy stands against this group of the file: it will not give way to it
\* when the file is read.
Withstands(t, held, group) ==
    /\ Unsaved(held)
    /\ Known(held.unsaved) =>
          Identity(held.unsaved.policy) = Identity(group) \/ ~ (group.expiry > t)

\* The file has no shorter policy for the host than what is owed, but for one that an unsaved
\* policy stands against.
FileCovers(t, held, group, until) ==
    t < until /\ IsPolicy(group) => group.expiry >= until \/ Withstands(t, held, group)

\* A call k that will write: its copy has no shorter policy either, but for the ones that the
\* unsaved policies will overwrite; and what the file has that the call has not read, another
\* client has written in the meantime.
CallCovers(t, k, held, group, h, until) ==
    k.op = "write" /\ t < until =>
        /\ IsPolicy(k.values[h]) => k.values[h].expiry >= until \/ Unsaved(held)
        /\ k.read /\ IsPolicy(group) => group = k.loaded[h] \/ group.expiry >= until

\* A call changes its own host only, and a refresh nothing but the expiry there.
CallFits(k, ms) ==
    k.op = "write" =>
        /\ \A h \in Hosts : h # k.host => k.values[h] = k.loaded[h]
        /\ ~ k.read => k.loaded = Missing.groups
        /\ k.refresh => /\ ms[k.host].cached = k.values[k.host]
                        /\ IsPolicy(k.loaded[k.host])
                        /\ Identity(k.values[k.host]) = Identity(k.loaded[k.host])

FileFits == ~ file.exists => file.groups = Missing.groups

CallsFit == \A c \in Clients : CallFits(call[c], memory[c])

Cover(t, k, held, group, h, until) ==
    /\ Covered(t, held, until)
    /\ FileCovers(t, held, group, until)
    /\ CallCovers(t, k, held, group, h, until)

AllCovered ==
    \A c \in Clients : \A h \in Hosts :
        Cover(now, call[c], memory[c][h], file.groups[h], h, pledge[c][h])

IInv == TypeOK /\ FileFits /\ CallsFit /\ AllCovered

-----------------------------------------------------------------------------
(* Types *)

Files == [exists : BOOLEAN, malformed : BOOLEAN, readable : BOOLEAN, writable : BOOLEAN,
          groups : [Hosts -> Groups]]
Memory == [Hosts -> Remembered]

LEMMA TypesOf ==
    TypeOK <=> /\ now \in 0 .. MaxTime /\ file \in Files
               /\ memory \in [Clients -> Memory] /\ call \in [Clients -> Calls]
               /\ calls \in 0 .. MaxCalls /\ pledge \in [Clients -> [Hosts -> Nat]]
BY DEF TypeOK, Files, Memory

LEMMA TypesNext ==
    TypeOK' <=> /\ now' \in 0 .. MaxTime /\ file' \in Files
                /\ memory' \in [Clients -> Memory] /\ call' \in [Clients -> Calls]
                /\ calls' \in 0 .. MaxCalls /\ pledge' \in [Clients -> [Hosts -> Nat]]
BY DEF TypeOK, Files, Memory

\* Whatever has an expiry has one that is a number, and a policy has a port.
LEMMA GroupFacts ==
    /\ NoGroup \in Groups /\ NoGroup.expiry = 0 /\ ~ IsPolicy(NoGroup)
    /\ Junk.expiry = 0 /\ ~ IsPolicy(Junk)
    /\ \A g \in Groups : g.expiry \in Nat /\ (IsPolicy(g) <=> g \in Policies)
    /\ \A g \in Policies : IsPolicy(g) /\ g \in Groups
<1>1. /\ NoGroup.expiry = 0 /\ ~ IsPolicy(NoGroup) /\ Junk.expiry = 0 /\ ~ IsPolicy(Junk)
      /\ NoGroup \in Groups /\ Junk \in Groups
  BY DEF NoGroup, Junk, IsPolicy, Groups
<1>2. \A g \in Policies : IsPolicy(g) /\ g \in Groups /\ g.expiry \in Nat
  BY StsValuesAssumption DEF Policies, IsPolicy, Groups
<1>3. \A g \in Groups : g \in Policies \/ g = NoGroup \/ g = Junk
  BY DEF Groups
<1> QED
  BY <1>1, <1>2, <1>3

LEMMA MissingFacts ==
    /\ Missing \in Files /\ Missing.groups \in [Hosts -> Groups]
    /\ \A h \in Hosts : Missing.groups[h] = NoGroup
    /\ ~ Missing.exists
<1>1. /\ Missing.groups = [h \in Hosts |-> NoGroup] /\ ~ Missing.exists
  BY DEF Missing
<1>2. Missing.groups \in [Hosts -> Groups]
  BY <1>1, GroupFacts
<1>3. Missing \in Files
  BY <1>2 DEF Missing, Files
<1> QED
  BY <1>1, <1>2, <1>3

LEMMA IdleFacts ==
    /\ Idle \in Calls /\ Idle.op = "idle"
    /\ \A h \in Hosts : LET k == [Idle EXCEPT !.op = "remove", !.host = h]
                        IN k \in Calls /\ k.op = "remove"
<1>1. (CHOOSE h \in Hosts : TRUE) \in Hosts
  BY HostsAssumption
<1>2. Missing.groups \in [Hosts -> Groups]
  BY MissingFacts
<1>3. Idle \in Calls /\ Idle.op = "idle"
  BY <1>1, <1>2 DEF Idle, Calls
<1>4. ASSUME NEW h \in Hosts
      PROVE  LET k == [Idle EXCEPT !.op = "remove", !.host = h]
             IN k \in Calls /\ k.op = "remove"
  BY <1>1, <1>2 DEF Idle, Calls
<1> QED
  BY <1>3, <1>4

\* A call that does not write asks for nothing.
LEMMA NotWriting ==
    ASSUME NEW k, k.op # "write", NEW ms
    PROVE  /\ CallFits(k, ms)
           /\ \A t, held, group, h, until : CallCovers(t, k, held, group, h, until)
BY DEF CallFits, CallCovers

-----------------------------------------------------------------------------
(* Reading the file *)

LEMMA LoadedFacts ==
    ASSUME TypeOK, FileFits
    PROVE  /\ Loaded \in [Hosts -> Groups]
           /\ file.exists /\ file.readable => Loaded = file.groups
           /\ ~ (file.exists /\ file.readable) => Loaded = Missing.groups
<1>1. file.groups \in [Hosts -> Groups] /\ Missing.groups \in [Hosts -> Groups]
  BY TypesOf, MissingFacts DEF Files
<1> QED
  BY <1>1 DEF Loaded

LEMMA ViewFacts ==
    ASSUME TypeOK, FileFits, NEW h \in Hosts
    PROVE  /\ FileView(h) \in Views /\ FileView(h) # Saved
           /\ FileView(h).policy \in Policies \cup {NoGroup}
           /\ FileView(h).kind = "Policy" => /\ IsPolicy(file.groups[h])
                                             /\ FileView(h).policy = file.groups[h]
                                             /\ file.exists /\ file.readable
           /\ FileView(h).kind # "Policy" => FileView(h).policy = NoGroup
           /\ FileView(h).kind = "Clear" => file.groups[h] = NoGroup
           /\ IsPolicy(file.groups[h]) /\ FileView(h).kind # "Unreadable" =>
                 FileView(h).kind = "Policy"
<1>1. /\ Loaded[h] \in Groups
      /\ file.exists /\ file.readable => Loaded[h] = file.groups[h]
      /\ ~ (file.exists /\ file.readable) => ~ IsPolicy(Loaded[h])
      /\ ~ file.exists => ~ IsPolicy(file.groups[h])
  BY LoadedFacts, MissingFacts, GroupFacts DEF FileFits
<1>2. file.exists \in BOOLEAN /\ file.readable \in BOOLEAN /\ file.malformed \in BOOLEAN
  BY TypesOf DEF Files
<1>3. CASE file.exists /\ ~ file.readable
  <2>1. FileView(h) = View("Unreadable", NoGroup)
    BY <1>1, <1>3 DEF FileView
  <2> QED
    BY <2>1 DEF View, Views, Saved
<1>4. CASE ~ (file.exists /\ ~ file.readable) /\ IsPolicy(Loaded[h])
  <2>1. FileView(h) = View("Policy", Loaded[h])
    BY <1>4, GroupFacts DEF FileView
  <2>2. file.exists /\ file.readable /\ Loaded[h] = file.groups[h] /\ Loaded[h] \in Policies
    BY <1>1, <1>2, <1>4, GroupFacts
  <2> QED
    BY <1>4, <2>1, <2>2 DEF View, Views, Saved
<1>5. CASE /\ ~ (file.exists /\ ~ file.readable) /\ ~ IsPolicy(Loaded[h])
           /\ file.exists /\ file.readable /\ ~ file.malformed /\ Loaded[h] = NoGroup
  <2>1. FileView(h) = View("Clear", NoGroup)
    BY <1>5 DEF FileView
  <2> QED
    BY <1>1, <1>5, <2>1 DEF View, Views, Saved
<1>6. CASE /\ ~ (file.exists /\ ~ file.readable) /\ ~ IsPolicy(Loaded[h])
           /\ ~ (file.exists /\ file.readable /\ ~ file.malformed /\ Loaded[h] = NoGroup)
  <2>1. FileView(h) = View("Unknown", NoGroup)
    BY <1>6 DEF FileView
  <2> QED
    BY <1>1, <1>2, <1>6, <2>1 DEF View, Views, Saved
<1> QED
  BY <1>3, <1>4, <1>5, <1>6

\* Settling keeps the policy, and what the file covers stays covered.
LEMMA SettleFacts ==
    ASSUME TypeOK, FileFits, NEW h \in Hosts, NEW held \in Remembered, NEW s,
           s = Settle(held, FileView(h))
    PROVE  /\ s \in Remembered /\ s.cached = held.cached
           /\ \A until \in Nat : FileCovers(now, held, file.groups[h], until) =>
                 FileCovers(now, s, file.groups[h], until)
           /\ Unsaved(s) /\ FileView(h).kind # "Unreadable" => s.unsaved = FileView(h)
<1>1. PICK view : view = FileView(h)
  OBVIOUS
<1>2. /\ view \in Views /\ view # Saved
      /\ view.kind = "Policy" => IsPolicy(file.groups[h]) /\ view.policy = file.groups[h]
      /\ view.kind = "Clear" => file.groups[h] = NoGroup
      /\ IsPolicy(file.groups[h]) /\ view.kind # "Unreadable" => view.kind = "Policy"
  BY <1>1, ViewFacts
<1>3. CASE ~ Unsaved(held)
  <2>1. s = held
    BY <1>1, <1>3 DEF Settle
  <2> QED
    BY <1>3, <2>1
<1>4. CASE Unsaved(held) /\ FileMoved(held.unsaved, view)
  <2>1. s = [held EXCEPT !.unsaved = Saved]
    BY <1>1, <1>4 DEF Settle
  <2>2. s \in Remembered /\ s.cached = held.cached /\ s.unsaved = Saved
    BY <2>1 DEF Remembered
  <2>3. Known(held.unsaved) /\ Known(view)
        /\ Identity(held.unsaved.policy) # Identity(view.policy)
        /\ (view.kind = "Policy" => Live(view.policy))
    BY <1>4 DEF FileMoved
  <2>4. ASSUME NEW until \in Nat, FileCovers(now, held, file.groups[h], until)
        PROVE  FileCovers(now, s, file.groups[h], until)
    <3>1. SUFFICES ASSUME now < until, IsPolicy(file.groups[h])
                   PROVE  file.groups[h].expiry >= until
      BY DEF FileCovers
    <3>2. view.kind = "Policy" /\ view.policy = file.groups[h]
      BY <1>2, <2>3, <3>1, GroupFacts DEF Known
    <3>3. ~ Withstands(now, held, file.groups[h])
      BY <2>3, <3>2 DEF Withstands, Live
    <3> QED
      BY <2>4, <3>1, <3>3 DEF FileCovers
  <2>5. ~ Unsaved(s)
    BY <2>2 DEF Unsaved
  <2> QED
    BY <2>2, <2>4, <2>5
<1>5. CASE Unsaved(held) /\ ~ FileMoved(held.unsaved, view) /\ view.kind # "Unreadable"
  <2>1. s = [held EXCEPT !.unsaved = view]
    BY <1>1, <1>5 DEF Settle
  <2>2. s \in Remembered /\ s.cached = held.cached /\ s.unsaved = view
    BY <1>2, <2>1 DEF Remembered
  <2>3. Unsaved(s)
    BY <1>2, <2>2 DEF Unsaved
  <2>4. IsPolicy(file.groups[h]) => Withstands(now, s, file.groups[h])
    BY <1>2, <1>5, <2>2, <2>3 DEF Withstands
  <2> QED
    BY <1>1, <2>2, <2>4 DEF FileCovers
<1>6. CASE Unsaved(held) /\ ~ FileMoved(held.unsaved, view) /\ view.kind = "Unreadable"
  <2>1. s = held
    BY <1>1, <1>6 DEF Settle
  <2> QED
    BY <1>1, <1>6, <2>1
<1> QED
  BY <1>3, <1>4, <1>5, <1>6

\* The settled memory of a client.
LEMMA SettledFacts ==
    ASSUME IInv, NEW c \in Clients
    PROVE  /\ Settled(c) \in Memory
           /\ \A h \in Hosts :
                /\ Settled(c)[h].cached = memory[c][h].cached
                /\ Covered(now, Settled(c)[h], pledge[c][h])
                /\ FileCovers(now, Settled(c)[h], file.groups[h], pledge[c][h])
                /\ Unsaved(Settled(c)[h]) /\ FileView(h).kind # "Unreadable" =>
                      Settled(c)[h].unsaved = FileView(h)
<1>1. TypeOK /\ FileFits
  BY DEF IInv
<1>2. memory[c] \in Memory /\ pledge[c] \in [Hosts -> Nat]
  BY <1>1, TypesOf
<1>3. ASSUME NEW h \in Hosts
      PROVE  /\ Settled(c)[h] \in Remembered
             /\ Settled(c)[h].cached = memory[c][h].cached
             /\ Covered(now, Settled(c)[h], pledge[c][h])
             /\ FileCovers(now, Settled(c)[h], file.groups[h], pledge[c][h])
             /\ Unsaved(Settled(c)[h]) /\ FileView(h).kind # "Unreadable" =>
                   Settled(c)[h].unsaved = FileView(h)
  <2>1. memory[c][h] \in Remembered /\ pledge[c][h] \in Nat
    BY <1>2 DEF Memory
  <2>2. PICK s : s = Settled(c)[h]
    OBVIOUS
  <2>3. s = Settle(memory[c][h], FileView(h))
    BY <2>2 DEF Settled
  <2>4. /\ s \in Remembered /\ s.cached = memory[c][h].cached
        /\ \A until \in Nat : FileCovers(now, memory[c][h], file.groups[h], until) =>
              FileCovers(now, s, file.groups[h], until)
        /\ Unsaved(s) /\ FileView(h).kind # "Unreadable" => s.unsaved = FileView(h)
    BY <1>1, <2>1, <2>3, SettleFacts
  <2>5. /\ Covered(now, memory[c][h], pledge[c][h])
        /\ FileCovers(now, memory[c][h], file.groups[h], pledge[c][h])
    BY DEF IInv, AllCovered, Cover
  <2>6. Covered(now, s, pledge[c][h])
    BY <2>4, <2>5 DEF Covered
  <2> QED
    BY <2>1, <2>2, <2>4, <2>5, <2>6
<1>4. Settled(c) \in Memory
  <2>1. Settled(c) = [h \in Hosts |-> Settled(c)[h]]
    BY DEF Settled
  <2> QED
    BY <1>3, <2>1 DEF Memory
<1> QED
  BY <1>3, <1>4

\* A step of one client that leaves the file alone.
LEMMA ClientMoves ==
    ASSUME IInv, NEW c \in Clients, NEW ms \in Memory, NEW k \in Calls,
           NEW owed \in [Hosts -> Nat],
           memory' = [memory EXCEPT ![c] = ms],
           call' = [call EXCEPT ![c] = k],
           pledge' = [pledge EXCEPT ![c] = owed],
           UNCHANGED <<now, file>>, calls' \in 0 .. MaxCalls,
           CallFits(k, ms),
           \A h \in Hosts : Cover(now, k, ms[h], file.groups[h], h, owed[h])
    PROVE  IInv'
<1>1. /\ now \in 0 .. MaxTime /\ file \in Files /\ memory \in [Clients -> Memory]
      /\ call \in [Clients -> Calls] /\ pledge \in [Clients -> [Hosts -> Nat]]
  BY TypesOf DEF IInv
<1>2. TypeOK'
  <2>1. memory' \in [Clients -> Memory] /\ call' \in [Clients -> Calls]
    BY <1>1
  <2>2. pledge' \in [Clients -> [Hosts -> Nat]]
    BY <1>1
  <2> QED
    BY <1>1, <2>1, <2>2, TypesNext
<1>3. FileFits'
  BY DEF IInv, FileFits
<1>4. ASSUME NEW d \in Clients
      PROVE  /\ CallFits(call'[d], memory'[d])
             /\ \A h \in Hosts :
                   Cover(now', call'[d], memory'[d][h], file'.groups[h], h, pledge'[d][h])
  <2>1. CASE d = c
    <3>1. call'[d] = k /\ memory'[d] = ms /\ pledge'[d] = owed
      BY <1>1, <2>1
    <3>2. now' = now /\ file' = file
      OBVIOUS
    <3> QED
      BY <3>1, <3>2
  <2>2. CASE d # c
    <3>1. call'[d] = call[d] /\ memory'[d] = memory[d] /\ pledge'[d] = pledge[d]
      BY <1>1, <2>2
    <3>2. now' = now /\ file' = file
      OBVIOUS
    <3>3. /\ CallFits(call[d], memory[d])
          /\ \A h \in Hosts :
                Cover(now, call[d], memory[d][h], file.groups[h], h, pledge[d][h])
      BY DEF IInv, CallsFit, AllCovered
    <3> QED
      BY <3>1, <3>2, <3>3
  <2> QED
    BY <2>1, <2>2
<1>5. CallsFit' /\ AllCovered'
  BY <1>4 DEF CallsFit, AllCovered
<1> QED
  BY <1>2, <1>3, <1>5 DEF IInv

\* A call that has just read the file and changes the group of h0.
LEMMA WritingFits ==
    ASSUME IInv, NEW h0 \in Hosts, NEW g \in Groups, NEW refresh \in BOOLEAN,
           NEW ms \in Memory, NEW owed \in [Hosts -> Nat],
           NEW k, k = Writing(h0, [Loaded EXCEPT ![h0] = g], refresh),
           \A h \in Hosts : /\ Covered(now, ms[h], owed[h])
                            /\ FileCovers(now, ms[h], file.groups[h], owed[h]),
           IsPolicy(g) /\ now < owed[h0] => g.expiry >= owed[h0],
           refresh => /\ ms[h0].cached = g /\ IsPolicy(Loaded[h0])
                      /\ Identity(g) = Identity(Loaded[h0])
    PROVE  /\ k \in Calls /\ CallFits(k, ms)
           /\ \A h \in Hosts : Cover(now, k, ms[h], file.groups[h], h, owed[h])
<1>1. TypeOK /\ FileFits
  BY DEF IInv
<1>2. /\ Loaded \in [Hosts -> Groups]
      /\ file.exists /\ file.readable => Loaded = file.groups
      /\ ~ (file.exists /\ file.readable) => Loaded = Missing.groups
  BY <1>1, LoadedFacts
<1>3. PICK values : values = [Loaded EXCEPT ![h0] = g]
  OBVIOUS
<1>4. /\ values \in [Hosts -> Groups] /\ values[h0] = g
      /\ \A h \in Hosts : h # h0 => values[h] = Loaded[h]
  BY <1>2, <1>3
<1>5. /\ k.op = "write" /\ k.host = h0 /\ k.refresh = refresh /\ k.loaded = Loaded
      /\ k.values = values /\ (k.read <=> file.exists /\ file.readable)
  BY <1>3 DEF Writing
<1>6. k \in Calls
  <2>1. (file.exists /\ file.readable) \in BOOLEAN
    BY <1>1, TypesOf DEF Files
  <2> QED
    BY <1>2, <1>3, <1>4, <2>1 DEF Writing, Calls
<1>7. CallFits(k, ms)
  <2>1. ~ k.read => k.loaded = Missing.groups
    BY <1>2, <1>5
  <2>2. \A h \in Hosts : h # k.host => k.values[h] = k.loaded[h]
    BY <1>4, <1>5
  <2>3. k.refresh => /\ ms[k.host].cached = k.values[k.host]
                     /\ IsPolicy(k.loaded[k.host])
                     /\ Identity(k.values[k.host]) = Identity(k.loaded[k.host])
    BY <1>4, <1>5
  <2> QED
    BY <2>1, <2>2, <2>3 DEF CallFits
<1>8. ASSUME NEW h \in Hosts
      PROVE  CallCovers(now, k, ms[h], file.groups[h], h, owed[h])
  <2>1. SUFFICES ASSUME now < owed[h]
                 PROVE  /\ IsPolicy(k.values[h]) =>
                              k.values[h].expiry >= owed[h] \/ Unsaved(ms[h])
                        /\ k.read /\ IsPolicy(file.groups[h]) => file.groups[h] = k.loaded[h]
    BY DEF CallCovers
  <2>2. k.read => file.groups[h] = k.loaded[h]
    BY <1>2, <1>5
  <2>3. CASE h = h0
    <3>1. IsPolicy(k.values[h]) => k.values[h].expiry >= owed[h]
      BY <1>4, <1>5, <2>1, <2>3
    <3> QED
      BY <2>2, <3>1
  <2>4. CASE h # h0
    <3>1. IsPolicy(k.values[h]) => k.values[h] = file.groups[h]
      BY <1>2, <1>4, <1>5, <2>4, MissingFacts, GroupFacts
    <3>2. IsPolicy(file.groups[h]) => file.groups[h].expiry >= owed[h] \/ Unsaved(ms[h])
      BY <2>1 DEF FileCovers, Withstands
    <3> QED
      BY <2>2, <3>1, <3>2
  <2> QED
    BY <2>3, <2>4
<1> QED
  BY <1>6, <1>7, <1>8 DEF Cover

-----------------------------------------------------------------------------
(* The calls, up to the write *)

LEMMA InitFits ==
    ASSUME Init
    PROVE  IInv
<1>1. Nothing \in Remembered
  BY DEF Nothing, Remembered
<1>2. TypeOK
  <2>1. memory \in [Clients -> Memory] /\ call \in [Clients -> Calls]
    BY <1>1, IdleFacts DEF Init, Memory
  <2>2. file \in Files
    BY MissingFacts DEF Init
  <2>3. now \in 0 .. MaxTime /\ calls \in 0 .. MaxCalls
    BY LimitsAssumption DEF Init
  <2>4. pledge \in [Clients -> [Hosts -> Nat]]
    BY DEF Init
  <2> QED
    BY <2>1, <2>2, <2>3, <2>4, TypesOf
<1>3. FileFits
  BY DEF Init, FileFits
<1>4. ASSUME NEW c \in Clients PROVE call[c].op # "write"
  BY IdleFacts DEF Init
<1>5. CallsFit
  BY <1>4, NotWriting DEF CallsFit
<1>6. ASSUME NEW c \in Clients, NEW h \in Hosts
      PROVE  Cover(now, call[c], memory[c][h], file.groups[h], h, pledge[c][h])
  <2>1. ~ (now < pledge[c][h])
    BY DEF Init
  <2> QED
    BY <2>1 DEF Cover, Covered, FileCovers, CallCovers
<1> QED
  BY <1>2, <1>3, <1>5, <1>6 DEF IInv, AllCovered

LEMMA LookUpFits ==
    ASSUME IInv, NEW c \in Clients, NEW h \in Hosts, LookUp(c, h)
    PROVE  IInv'
<1>1. PICK held : held = Settled(c)[h]
  OBVIOUS
<1>2. /\ TypeOK /\ FileFits /\ memory \in [Clients -> Memory] /\ call \in [Clients -> Calls]
      /\ pledge \in [Clients -> [Hosts -> Nat]] /\ calls \in 0 .. MaxCalls
      /\ now \in 0 .. MaxTime /\ file \in Files
  BY TypesOf DEF IInv
<1>3. /\ Settled(c) \in Memory
      /\ \A g \in Hosts :
           /\ Settled(c)[g].cached = memory[c][g].cached
           /\ Covered(now, Settled(c)[g], pledge[c][g])
           /\ FileCovers(now, Settled(c)[g], file.groups[g], pledge[c][g])
  BY SettledFacts
<1>4. PICK fromFile : fromFile = (~ (Unsaved(held) /\ Live(held.cached)) /\ Live(FileView(h).policy))
  OBVIOUS
<1>4a. PICK whole \in {TRUE, IsPolicy(Loaded[h])} :
         /\ memory' = [memory EXCEPT ![c] =
               [Settled(c) EXCEPT ![h] =
                   CASE ~ (Unsaved(Settled(c)[h]) /\ Live(Settled(c)[h].cached)) /\ Live(FileView(h).policy) ->
                          [cached |-> FileView(h).policy, unsaved |-> Saved]
                     [] Lookup(c, h) = NoGroup /\ Loaded[h] # NoGroup /\ whole -> Nothing
                     [] OTHER -> Settled(c)[h]]]
         /\ call' = IF Lookup(c, h) = NoGroup /\ Loaded[h] # NoGroup /\ whole
                    THEN [call EXCEPT ![c] = [Idle EXCEPT !.op = "remove", !.host = h]]
                    ELSE call
  BY DEF LookUp
<1>5. PICK drops : drops = (Lookup(c, h) = NoGroup /\ Loaded[h] # NoGroup /\ whole)
  OBVIOUS
<1>6. PICK new : new = CASE fromFile -> [cached |-> FileView(h).policy, unsaved |-> Saved]
                         [] drops -> Nothing
                         [] OTHER -> held
  OBVIOUS
<1>7. PICK k : k = IF drops THEN [Idle EXCEPT !.op = "remove", !.host = h] ELSE call[c]
  OBVIOUS
<1>8. PICK ms : ms = [Settled(c) EXCEPT ![h] = new]
  OBVIOUS
<1>9. /\ memory' = [memory EXCEPT ![c] = ms]
      /\ call' = [call EXCEPT ![c] = k]
      /\ call[c].op = "idle"
      /\ UNCHANGED <<now, file, calls, pledge>>
  <2>1. memory' = [memory EXCEPT ![c] = ms]
    BY <1>1, <1>4, <1>4a, <1>5, <1>6, <1>8
  <2>2. call' = [call EXCEPT ![c] = k]
    BY <1>2, <1>4a, <1>5, <1>7
  <2> QED
    BY <2>1, <2>2 DEF LookUp, Free
<1>10. k \in Calls /\ k.op # "write"
  BY <1>2, <1>7, <1>9, IdleFacts
<1>11. pledge[c] \in [Hosts -> Nat] /\ pledge' = [pledge EXCEPT ![c] = pledge[c]]
  BY <1>2, <1>9
<1>12. held \in Remembered /\ Nothing \in Remembered
       /\ FileView(h).policy \in Policies \cup {NoGroup}
  BY <1>1, <1>2, <1>3, ViewFacts DEF Memory, Nothing, Remembered
<1>13. now \in Nat /\ pledge[c][h] \in Nat /\ held.cached \in Groups
       /\ FileView(h).policy \in Groups /\ held.cached.expiry \in Nat
       /\ file.groups[h].expiry \in Nat
  <2>1. held.cached \in Groups /\ FileView(h).policy \in Groups /\ file.groups[h] \in Groups
    BY <1>2, <1>12, GroupFacts DEF Remembered, Files
  <2> QED
    BY <1>2, <2>1, GroupFacts, LimitsAssumption
<1>14. now < pledge[c][h] => Live(held.cached) /\ held.cached.expiry >= pledge[c][h]
  BY <1>1, <1>3, <1>13 DEF Covered, Live
<1>15. /\ new \in Remembered
       /\ Covered(now, new, pledge[c][h])
       /\ FileCovers(now, new, file.groups[h], pledge[c][h])
  <2>1. CASE fromFile
    <3>1. Live(FileView(h).policy)
      BY <1>4, <2>1
    <3>2. FileView(h).policy # NoGroup
      BY <1>13, <3>1, GroupFacts DEF Live
    <3>3. new \in Remembered /\ new.cached = FileView(h).policy
      <4>1. CASE drops
        <5>1. Lookup(c, h) = FileView(h).policy
          BY <1>1, <1>4, <2>1 DEF Lookup
        <5>2. FileView(h).policy = NoGroup
          BY <1>5, <4>1, <5>1
        <5> QED
          BY <3>2, <5>2
      <4>2. CASE ~ drops
        <5>1. new = [cached |-> FileView(h).policy, unsaved |-> Saved]
          BY <1>6, <2>1, <4>2
        <5> QED
          BY <1>12, <5>1 DEF Remembered
      <4> QED
        BY <4>1, <4>2
    <3>4. FileView(h).kind = "Policy" /\ FileView(h).policy = file.groups[h]
          /\ IsPolicy(file.groups[h])
      BY <1>2, <3>2, ViewFacts
    <3>5. now < pledge[c][h] => file.groups[h].expiry >= pledge[c][h]
      BY <1>1, <1>3, <1>4, <1>14, <2>1, <3>4 DEF FileCovers, Withstands
    <3> QED
      BY <3>3, <3>4, <3>5 DEF Covered, FileCovers
  <2>2. CASE ~ fromFile /\ drops
    <3>1. new = Nothing
      BY <1>6, <2>2
    <3>2. ~ (now < pledge[c][h])
      <4>1. SUFFICES ASSUME now < pledge[c][h] PROVE FALSE
        OBVIOUS
      <4>2. Live(held.cached) /\ held.cached # NoGroup
        BY <1>13, <1>14, <4>1, GroupFacts DEF Live
      <4>3. Lookup(c, h) = held.cached
        BY <1>1, <1>4, <2>2, <4>2 DEF Lookup
      <4> QED
        BY <1>5, <2>2, <4>2, <4>3
    <3> QED
      BY <1>12, <3>1, <3>2 DEF Covered, FileCovers
  <2>3. CASE ~ fromFile /\ ~ drops
    <3>1. new = held
      BY <1>6, <2>3
    <3> QED
      BY <1>1, <1>3, <1>12, <3>1
  <2> QED
    BY <2>1, <2>2, <2>3
<1>16. ms \in Memory /\ ms[h] = new /\ \A g \in Hosts : g # h => ms[g] = Settled(c)[g]
  BY <1>3, <1>8, <1>15 DEF Memory
<1>17. ASSUME NEW g \in Hosts
       PROVE  Cover(now, k, ms[g], file.groups[g], g, pledge[c][g])
  <2>1. Covered(now, ms[g], pledge[c][g])
        /\ FileCovers(now, ms[g], file.groups[g], pledge[c][g])
    BY <1>3, <1>15, <1>16
  <2> QED
    BY <1>10, <2>1, NotWriting DEF Cover
<1>18. CallFits(k, ms) /\ calls' \in 0 .. MaxCalls
  BY <1>2, <1>9, <1>10, NotWriting
<1> QED
  BY <1>9, <1>10, <1>11, <1>16, <1>17, <1>18, ClientMoves

LEMMA CountedFacts ==
    ASSUME IInv, Counted
    PROVE  calls' \in 0 .. MaxCalls
<1>1. calls \in 0 .. MaxCalls
  BY TypesOf DEF IInv
<1> QED
  BY <1>1, LimitsAssumption DEF Counted

\* What a policy advertised now is.
LEMMA StoreFits ==
    ASSUME IInv, NEW c \in Clients, NEW h \in Hosts, NEW port \in Ports,
           NEW duration \in Durations, Store(c, h, port, duration)
    PROVE  IInv'
<1>1. PICK policy : policy = Incoming(port, duration)
  OBVIOUS
<1>2. /\ TypeOK /\ FileFits /\ memory \in [Clients -> Memory] /\ call \in [Clients -> Calls]
      /\ pledge \in [Clients -> [Hosts -> Nat]] /\ now \in Nat
  BY TypesOf, LimitsAssumption DEF IInv
<1>3. policy \in Policies /\ policy \in Groups /\ policy.expiry \in Nat
  <2>1. now + duration \in Nat
    BY <1>2, StsValuesAssumption
  <2>2. policy \in Policies
    BY <1>1, <2>1 DEF Incoming, Policies
  <2> QED
    BY <2>2, GroupFacts
<1>4. PICK new : new = [cached |-> policy, unsaved |-> FileView(h)]
  OBVIOUS
<1>5. PICK ms : ms = [Settled(c) EXCEPT ![h] = new]
  OBVIOUS
<1>6. PICK k : k = Writing(h, [Loaded EXCEPT ![h] = policy], FALSE)
  OBVIOUS
<1>7. PICK owed : owed = [pledge[c] EXCEPT ![h] = policy.expiry]
  OBVIOUS
<1>8. /\ memory' = [memory EXCEPT ![c] = ms]
      /\ call' = [call EXCEPT ![c] = k]
      /\ pledge' = [pledge EXCEPT ![c] = owed]
      /\ UNCHANGED <<now, file>> /\ Counted
  <2>1. memory' = [memory EXCEPT ![c] = ms]
    BY <1>1, <1>4, <1>5 DEF Store, Remember
  <2>2. call' = [call EXCEPT ![c] = k]
    BY <1>1, <1>6 DEF Store
  <2>3. pledge' = [pledge EXCEPT ![c] = owed]
    BY <1>1, <1>2, <1>7 DEF Store
  <2> QED
    BY <2>1, <2>2, <2>3 DEF Store
<1>9. /\ Settled(c) \in Memory
      /\ \A g \in Hosts :
           /\ Covered(now, Settled(c)[g], pledge[c][g])
           /\ FileCovers(now, Settled(c)[g], file.groups[g], pledge[c][g])
  BY SettledFacts
<1>10. /\ FileView(h) \in Views /\ FileView(h) # Saved
       /\ FileView(h).kind = "Policy" => FileView(h).policy = file.groups[h]
       /\ FileView(h).kind = "Clear" => file.groups[h] = NoGroup
  BY <1>2, ViewFacts
<1>11. new \in Remembered /\ new.cached = policy /\ new.unsaved = FileView(h)
  BY <1>3, <1>4, <1>10 DEF Remembered
<1>12. /\ ms \in Memory /\ ms[h] = new
       /\ \A g \in Hosts : g # h => ms[g] = Settled(c)[g]
  BY <1>5, <1>9, <1>11 DEF Memory
<1>13. /\ owed \in [Hosts -> Nat] /\ owed[h] = policy.expiry
       /\ \A g \in Hosts : g # h => owed[g] = pledge[c][g]
  BY <1>2, <1>3, <1>7
<1>14. Covered(now, new, owed[h])
  BY <1>3, <1>11, <1>13 DEF Covered
<1>15. FileCovers(now, new, file.groups[h], owed[h])
  <2>1. IsPolicy(file.groups[h]) => Withstands(now, new, file.groups[h])
    BY <1>10, <1>11, GroupFacts DEF Withstands, Unsaved, Known
  <2> QED
    BY <2>1 DEF FileCovers
<1>16. \A g \in Hosts : /\ Covered(now, ms[g], owed[g])
                        /\ FileCovers(now, ms[g], file.groups[g], owed[g])
  BY <1>9, <1>12, <1>13, <1>14, <1>15
<1>17. policy.expiry >= owed[h]
  BY <1>3, <1>13
<1>18. /\ k \in Calls /\ CallFits(k, ms)
       /\ \A g \in Hosts : Cover(now, k, ms[g], file.groups[g], g, owed[g])
  BY <1>3, <1>6, <1>12, <1>13, <1>16, <1>17, WritingFits
<1> QED
  BY <1>8, <1>12, <1>13, <1>18, CountedFacts, ClientMoves

LEMMA RefreshFits ==
    ASSUME IInv, NEW c \in Clients, NEW h \in Hosts, NEW duration \in Durations,
           Refresh(c, h, duration)
    PROVE  IInv'
<1>1. PICK held : held = Settled(c)[h]
  OBVIOUS
<1>2. PICK old : old = Extended(c, h)
  OBVIOUS
<1>3. PICK policy : policy = [old EXCEPT !.expiry = now + duration]
  OBVIOUS
<1>4. /\ TypeOK /\ FileFits /\ memory \in [Clients -> Memory] /\ call \in [Clients -> Calls]
      /\ pledge \in [Clients -> [Hosts -> Nat]] /\ now \in Nat /\ file \in Files
  BY TypesOf, LimitsAssumption DEF IInv
<1>5. /\ Settled(c) \in Memory
      /\ \A g \in Hosts :
           /\ Covered(now, Settled(c)[g], pledge[c][g])
           /\ FileCovers(now, Settled(c)[g], file.groups[g], pledge[c][g])
           /\ Unsaved(Settled(c)[g]) /\ FileView(g).kind # "Unreadable" =>
                 Settled(c)[g].unsaved = FileView(g)
  BY SettledFacts
<1>6. held \in Remembered
  BY <1>1, <1>5 DEF Memory
<1>7. /\ FileView(h) \in Views /\ FileView(h) # Saved
      /\ FileView(h).policy \in Policies \cup {NoGroup}
      /\ FileView(h).kind = "Policy" => /\ FileView(h).policy = file.groups[h]
                                        /\ file.exists /\ file.readable
      /\ FileView(h).kind # "Policy" => FileView(h).policy = NoGroup
      /\ FileView(h).kind = "Clear" => file.groups[h] = NoGroup
  BY <1>4, ViewFacts
<1>8. old \in Policies \cup {NoGroup}
  BY <1>1, <1>2, <1>6, <1>7 DEF Extended, Remembered
<1>9. Counted /\ UNCHANGED <<now, file>> /\ call[c].op = "idle"
  BY DEF Refresh, Free
<1>10. CASE old.duration # duration
  <2>1. /\ memory' = [memory EXCEPT ![c] = Settled(c)] /\ UNCHANGED <<call, pledge>>
    BY <1>2, <1>10 DEF Refresh
  <2>2. /\ call' = [call EXCEPT ![c] = call[c]] /\ pledge' = [pledge EXCEPT ![c] = pledge[c]]
        /\ call[c] \in Calls /\ pledge[c] \in [Hosts -> Nat]
    BY <1>4, <2>1
  <2>3. /\ CallFits(call[c], Settled(c))
        /\ \A g \in Hosts :
              Cover(now, call[c], Settled(c)[g], file.groups[g], g, pledge[c][g])
    BY <1>5, <1>9, NotWriting DEF Cover
  <2> QED
    BY <1>5, <1>9, <2>1, <2>2, <2>3, CountedFacts, ClientMoves
<1>11. CASE old.duration = duration
  <2>1. /\ old \in Policies
        /\ policy \in Policies /\ policy.expiry = now + duration /\ policy.expiry \in Nat
        /\ Identity(policy) = Identity(old) /\ policy \in Groups
    <3>1. duration \in Nat \ {0} /\ now + duration \in Nat
      BY <1>4, StsValuesAssumption
    <3>2. old \in Policies
      BY <1>8, <1>11, <3>1 DEF NoGroup
    <3>3. policy \in Policies /\ policy.expiry = now + duration
          /\ Identity(policy) = Identity(old)
      BY <1>3, <3>1, <3>2 DEF Policies, Identity
    <3> QED
      BY <3>1, <3>2, <3>3, GroupFacts
  <2>2. PICK view : view = IF Unsaved(held) THEN held.unsaved ELSE FileView(h)
    OBVIOUS
  <2>3. PICK new : new = [cached |-> policy, unsaved |-> view]
    OBVIOUS
  <2>4. PICK ms : ms = [Settled(c) EXCEPT ![h] = new]
    OBVIOUS
  <2>5. PICK refresh \in BOOLEAN : refresh = ~ Unsaved(held)
    OBVIOUS
  <2>6. PICK k : k = Writing(h, [Loaded EXCEPT ![h] = policy], refresh)
    OBVIOUS
  <2>7. PICK until : until = Owes(held, h, policy.expiry)
    OBVIOUS
  <2>8. PICK owed : owed = [pledge[c] EXCEPT ![h] = until]
    OBVIOUS
  <2>9. /\ memory' = [memory EXCEPT ![c] = ms]
        /\ call' = [call EXCEPT ![c] = k]
        /\ pledge' = [pledge EXCEPT ![c] = owed]
    <3>1. memory' = [memory EXCEPT ![c] = ms]
      BY <1>1, <1>2, <1>3, <1>11, <2>2, <2>3, <2>4 DEF Refresh, Remember
    <3>2. call' = [call EXCEPT ![c] = k]
      BY <1>1, <1>2, <1>3, <1>11, <2>5, <2>6 DEF Refresh
    <3>3. pledge' = [pledge EXCEPT ![c] = owed]
      BY <1>1, <1>2, <1>3, <1>4, <1>11, <2>7, <2>8 DEF Refresh
    <3> QED
      BY <3>1, <3>2, <3>3
  <2>10. file.groups[h].expiry \in Nat /\ file.groups[h] \in Groups
    BY <1>4, GroupFacts DEF Files
  <2>11. /\ until \in Nat /\ policy.expiry >= until
         /\ Replaced(held, h) => file.groups[h].expiry >= until
    BY <2>1, <2>7, <2>10 DEF Owes
  <2>12. /\ new \in Remembered /\ new.cached = policy /\ new.unsaved = view /\ Unsaved(new)
    BY <1>6, <1>7, <2>1, <2>2, <2>3 DEF Remembered, Unsaved
  <2>13. /\ ms \in Memory /\ ms[h] = new
         /\ \A g \in Hosts : g # h => ms[g] = Settled(c)[g]
    BY <1>5, <2>4, <2>12 DEF Memory
  <2>14. /\ owed \in [Hosts -> Nat] /\ owed[h] = until
         /\ \A g \in Hosts : g # h => owed[g] = pledge[c][g]
    BY <1>4, <2>8, <2>11
  <2>15. Covered(now, new, until)
    BY <2>11, <2>12 DEF Covered
  <2>16. FileCovers(now, new, file.groups[h], until)
    <3>1. SUFFICES ASSUME IsPolicy(file.groups[h]), ~ (file.groups[h].expiry >= until)
                   PROVE  Withstands(now, new, file.groups[h])
      BY DEF FileCovers
    <3>2. ~ Replaced(held, h)
      BY <2>11, <3>1
    <3>3. CASE Unsaved(held)
      <4>1. Known(held.unsaved) =>
               Identity(held.unsaved.policy) = Identity(file.groups[h])
               \/ ~ Live(file.groups[h])
        BY <3>1, <3>2, <3>3 DEF Replaced
      <4>2. new.unsaved = held.unsaved
        BY <2>2, <2>12, <3>3
      <4> QED
        BY <2>12, <4>1, <4>2 DEF Withstands, Live
    <3>4. CASE ~ Unsaved(held)
      <4>1. new.unsaved = FileView(h)
        BY <2>2, <2>12, <3>4
      <4> QED
        BY <1>7, <2>12, <3>1, <4>1, GroupFacts DEF Withstands, Known
    <3> QED
      BY <3>3, <3>4
  <2>17. \A g \in Hosts : /\ Covered(now, ms[g], owed[g])
                          /\ FileCovers(now, ms[g], file.groups[g], owed[g])
    BY <1>5, <2>13, <2>14, <2>15, <2>16
  <2>18. refresh => IsPolicy(Loaded[h]) /\ Identity(policy) = Identity(Loaded[h])
    <3>1. SUFFICES ASSUME ~ Unsaved(held)
                   PROVE  IsPolicy(Loaded[h]) /\ Identity(policy) = Identity(Loaded[h])
      BY <2>5
    <3>2. old = FileView(h).policy
      BY <1>1, <1>2, <3>1 DEF Extended
    <3>3. FileView(h).kind = "Policy"
      BY <1>7, <2>1, <3>2, GroupFacts
    <3>4. Loaded[h] = old
      BY <1>4, <1>7, <3>2, <3>3, LoadedFacts
    <3> QED
      BY <2>1, <3>4, GroupFacts
  <2>19. /\ k \in Calls /\ CallFits(k, ms)
         /\ \A g \in Hosts : Cover(now, k, ms[g], file.groups[g], g, owed[g])
    BY <2>1, <2>6, <2>11, <2>12, <2>13, <2>14, <2>17, <2>18, WritingFits
  <2> QED
    BY <1>9, <2>9, <2>13, <2>14, <2>19, CountedFacts, ClientMoves
<1> QED
  BY <1>10, <1>11

LEMMA ClearFits ==
    ASSUME IInv, NEW c \in Clients, NEW h \in Hosts, Clear(c, h)
    PROVE  IInv'
<1>1. /\ memory \in [Clients -> Memory] /\ pledge \in [Clients -> [Hosts -> Nat]]
      /\ now \in Nat
  BY TypesOf, LimitsAssumption DEF IInv
<1>2. PICK ms : ms = [memory[c] EXCEPT ![h] = Nothing]
  OBVIOUS
<1>3. PICK k : k = [Idle EXCEPT !.op = "remove", !.host = h]
  OBVIOUS
<1>4. PICK owed : owed = [pledge[c] EXCEPT ![h] = 0]
  OBVIOUS
<1>5. /\ memory' = [memory EXCEPT ![c] = ms]
      /\ call' = [call EXCEPT ![c] = k]
      /\ pledge' = [pledge EXCEPT ![c] = owed]
      /\ UNCHANGED <<now, file>> /\ Counted
  BY <1>1, <1>2, <1>3, <1>4 DEF Clear
<1>6. k \in Calls /\ k.op # "write"
  BY <1>3, IdleFacts
<1>7. Nothing \in Remembered
  BY DEF Nothing, Remembered
<1>8. ms \in Memory /\ \A g \in Hosts : g # h => ms[g] = memory[c][g]
  BY <1>1, <1>2, <1>7 DEF Memory
<1>9. /\ owed \in [Hosts -> Nat] /\ owed[h] = 0
      /\ \A g \in Hosts : g # h => owed[g] = pledge[c][g]
  BY <1>1, <1>4
<1>10. ASSUME NEW g \in Hosts
       PROVE  Cover(now, k, ms[g], file.groups[g], g, owed[g])
  <2>1. CASE g = h
    <3>1. ~ (now < owed[g])
      BY <1>1, <1>9, <2>1
    <3> QED
      BY <3>1 DEF Cover, Covered, FileCovers, CallCovers
  <2>2. CASE g # h
    <3>1. ms[g] = memory[c][g] /\ owed[g] = pledge[c][g]
      BY <1>8, <1>9, <2>2
    <3>2. /\ Covered(now, memory[c][g], pledge[c][g])
          /\ FileCovers(now, memory[c][g], file.groups[g], pledge[c][g])
      BY DEF IInv, AllCovered, Cover
    <3> QED
      BY <1>6, <3>1, <3>2, NotWriting DEF Cover
  <2> QED
    BY <2>1, <2>2
<1> QED
  BY <1>5, <1>6, <1>8, <1>9, <1>10, CountedFacts, NotWriting, ClientMoves

LEMMA OpenToRemoveFits ==
    ASSUME IInv, NEW c \in Clients, OpenToRemove(c)
    PROVE  IInv'
<1>1. /\ TypeOK /\ FileFits /\ call \in [Clients -> Calls]
      /\ pledge \in [Clients -> [Hosts -> Nat]] /\ calls \in 0 .. MaxCalls
  BY TypesOf DEF IInv
<1>2. PICK h \in Hosts : h = call[c].host
  BY <1>1 DEF Calls
<1>3. PICK k : k = IF Loaded[h] = NoGroup THEN Idle
                   ELSE Writing(h, [Loaded EXCEPT ![h] = NoGroup], FALSE)
  OBVIOUS
<1>4. /\ memory' = [memory EXCEPT ![c] = Settled(c)]
      /\ call' = [call EXCEPT ![c] = k]
      /\ UNCHANGED <<now, file, calls, pledge>>
  BY <1>2, <1>3 DEF OpenToRemove
<1>5. pledge' = [pledge EXCEPT ![c] = pledge[c]] /\ pledge[c] \in [Hosts -> Nat]
  BY <1>1, <1>4
<1>6. /\ Settled(c) \in Memory
      /\ \A g \in Hosts :
           /\ Covered(now, Settled(c)[g], pledge[c][g])
           /\ FileCovers(now, Settled(c)[g], file.groups[g], pledge[c][g])
  BY SettledFacts
<1>7. /\ k \in Calls /\ CallFits(k, Settled(c))
      /\ \A g \in Hosts : Cover(now, k, Settled(c)[g], file.groups[g], g, pledge[c][g])
  <2>1. CASE Loaded[h] = NoGroup
    <3>1. k \in Calls /\ k.op # "write"
      BY <1>3, <2>1, IdleFacts
    <3> QED
      BY <1>6, <3>1, NotWriting DEF Cover
  <2>2. CASE Loaded[h] # NoGroup
    <3>1. k = Writing(h, [Loaded EXCEPT ![h] = NoGroup], FALSE)
      BY <1>3, <2>2
    <3> QED
      BY <1>5, <1>6, <3>1, GroupFacts, WritingFits
  <2> QED
    BY <2>1, <2>2
<1>8. calls' \in 0 .. MaxCalls
  BY <1>1, <1>4
<1> QED
  BY <1>4, <1>5, <1>6, <1>7, <1>8, ClientMoves

LEMMA WriteFailsFits ==
    ASSUME IInv, NEW c \in Clients, WriteFails(c)
    PROVE  IInv'
<1>1. /\ memory \in [Clients -> Memory] /\ calls \in 0 .. MaxCalls
      /\ pledge \in [Clients -> [Hosts -> Nat]]
  BY TypesOf DEF IInv
<1>2. /\ call' = [call EXCEPT ![c] = Idle]
      /\ UNCHANGED <<now, file, memory, calls, pledge>>
  BY DEF WriteFails, Ends
<1>3. /\ memory' = [memory EXCEPT ![c] = memory[c]] /\ memory[c] \in Memory
      /\ pledge' = [pledge EXCEPT ![c] = pledge[c]] /\ pledge[c] \in [Hosts -> Nat]
  BY <1>1, <1>2
<1>4. Idle \in Calls /\ Idle.op # "write"
  BY IdleFacts
<1>5. \A g \in Hosts : Cover(now, Idle, memory[c][g], file.groups[g], g, pledge[c][g])
  BY <1>4, NotWriting DEF IInv, AllCovered, Cover
<1> QED
  BY <1>1, <1>2, <1>3, <1>4, <1>5, NotWriting, ClientMoves

-----------------------------------------------------------------------------
(* The write *)

\* What a write leaves in the file: nothing shorter than the writer owes, and its unsaved
\* policies for certain.
LEMMA OutcomeFacts ==
    ASSUME IInv, NEW c \in Clients, call[c].op = "write"
    PROVE  /\ Outcome(c) \in [Hosts -> Groups]
           /\ \A h \in Hosts : now < pledge[c][h] =>
                /\ Unsaved(memory[c][h]) => /\ Outcome(c)[h] = memory[c][h].cached
                                            /\ memory[c][h].cached.expiry >= pledge[c][h]
                /\ IsPolicy(Outcome(c)[h]) => Outcome(c)[h].expiry >= pledge[c][h]
           /\ \A h \in Hosts : Outcome(c)[h] =
                 IF Merges(memory[c][h], DropInvalid(call[c].values)[h], Recovers)
                 THEN memory[c][h].cached ELSE DropInvalid(call[c].values)[h]
<1>1. /\ memory[c] \in Memory /\ call[c] \in Calls /\ pledge[c] \in [Hosts -> Nat]
      /\ now \in Nat
  BY TypesOf, LimitsAssumption DEF IInv
<1>2. \A h \in Hosts : Outcome(c)[h] =
         IF Merges(memory[c][h], DropInvalid(call[c].values)[h], Recovers)
         THEN memory[c][h].cached ELSE DropInvalid(call[c].values)[h]
  BY DEF Outcome, MergedMemory
<1>3. ASSUME NEW h \in Hosts
      PROVE  /\ memory[c][h].cached \in Groups /\ memory[c][h].cached.expiry \in Nat
             /\ DropInvalid(call[c].values)[h] \in Groups
             /\ DropInvalid(call[c].values)[h] =
                   IF IsPolicy(call[c].values[h]) THEN call[c].values[h] ELSE NoGroup
  <2>1. call[c].values[h] \in Groups
    BY <1>1 DEF Calls
  <2>2. memory[c][h].cached \in Groups
    BY <1>1, GroupFacts DEF Memory, Remembered
  <2>3. DropInvalid(call[c].values)[h] =
           IF IsPolicy(call[c].values[h]) THEN call[c].values[h] ELSE NoGroup
    BY DEF DropInvalid
  <2> QED
    BY <2>1, <2>2, <2>3, GroupFacts
<1>4. Outcome(c) \in [Hosts -> Groups]
  <2>1. \A h \in Hosts : Outcome(c)[h] \in Groups
    BY <1>2, <1>3
  <2>2. Outcome(c) = [h \in Hosts |-> Outcome(c)[h]]
    BY DEF Outcome, MergedMemory
  <2> QED
    BY <2>1, <2>2
<1>5. ASSUME NEW h \in Hosts, now < pledge[c][h]
      PROVE  /\ Unsaved(memory[c][h]) => /\ Outcome(c)[h] = memory[c][h].cached
                                         /\ memory[c][h].cached.expiry >= pledge[c][h]
             /\ IsPolicy(Outcome(c)[h]) => Outcome(c)[h].expiry >= pledge[c][h]
  <2>1. Cover(now, call[c], memory[c][h], file.groups[h], h, pledge[c][h])
    BY DEF IInv, AllCovered
  <2>2. memory[c][h].cached.expiry >= pledge[c][h]
    BY <1>5, <2>1 DEF Cover, Covered
  <2>3. Live(memory[c][h].cached)
    <3>1. pledge[c][h] \in Nat
      BY <1>1
    <3> QED
      BY <1>1, <1>3, <1>5, <2>2, <3>1 DEF Live
  <2>4. Unsaved(memory[c][h]) => Outcome(c)[h] = memory[c][h].cached
    BY <1>2, <2>3 DEF Merges
  <2>5. IsPolicy(call[c].values[h]) =>
           call[c].values[h].expiry >= pledge[c][h] \/ Unsaved(memory[c][h])
    BY <1>5, <2>1 DEF Cover, CallCovers
  <2>6. IsPolicy(Outcome(c)[h]) => Outcome(c)[h].expiry >= pledge[c][h]
    <3>1. CASE Outcome(c)[h] = memory[c][h].cached
      BY <2>2, <3>1
    <3>2. CASE /\ Outcome(c)[h] = DropInvalid(call[c].values)[h]
               /\ ~ Unsaved(memory[c][h])
      BY <1>3, <2>5, <3>2, GroupFacts
    <3> QED
      BY <1>2, <2>4, <3>1, <3>2
  <2> QED
    BY <2>2, <2>4, <2>6
<1> QED
  BY <1>2, <1>4, <1>5

LEMMA WriteLandsFits ==
    ASSUME IInv, NEW c \in Clients, WriteLands(c)
    PROVE  IInv'
<1>1. /\ memory \in [Clients -> Memory] /\ call \in [Clients -> Calls]
      /\ pledge \in [Clients -> [Hosts -> Nat]] /\ now \in 0 .. MaxTime /\ now \in Nat
      /\ calls \in 0 .. MaxCalls /\ file \in Files
  BY TypesOf, LimitsAssumption DEF IInv
<1>2. PICK ms : ms = [h \in Hosts |-> SettleWritten(memory[c][h])]
  OBVIOUS
<1>3. /\ call[c].op = "write"
      /\ memory' = [memory EXCEPT ![c] = ms]
      /\ call' = [call EXCEPT ![c] = Idle]
      /\ UNCHANGED <<now, calls>>
  BY <1>1, <1>2 DEF WriteLands, Ends
<1>4. Idle \in Calls /\ Idle.op # "write"
  BY IdleFacts
<1>5. /\ Outcome(c) \in [Hosts -> Groups]
      /\ \A h \in Hosts : now < pledge[c][h] =>
           /\ Unsaved(memory[c][h]) => /\ Outcome(c)[h] = memory[c][h].cached
                                       /\ memory[c][h].cached.expiry >= pledge[c][h]
           /\ IsPolicy(Outcome(c)[h]) => Outcome(c)[h].expiry >= pledge[c][h]
  BY <1>3, OutcomeFacts
<1>6. ASSUME NEW h \in Hosts
      PROVE  /\ ms[h] \in Remembered /\ ms[h].cached = memory[c][h].cached
             /\ Covered(now, ms[h], pledge[c][h])
  <2>1. memory[c][h] \in Remembered
    BY <1>1 DEF Memory
  <2>2. ms[h] \in Remembered /\ ms[h].cached = memory[c][h].cached
    BY <1>2, <2>1 DEF SettleWritten, Remembered
  <2>3. Covered(now, memory[c][h], pledge[c][h])
    BY DEF IInv, AllCovered, Cover
  <2> QED
    BY <2>2, <2>3 DEF Covered
<1>7. ms \in Memory
  BY <1>2, <1>6 DEF Memory
<1>8. CASE Unchanged(c) /\ UNCHANGED <<file, pledge>>
  <2>1. ASSUME NEW h \in Hosts
        PROVE  FileCovers(now, ms[h], file.groups[h], pledge[c][h])
    <3>1. SUFFICES ASSUME now < pledge[c][h], IsPolicy(file.groups[h])
                   PROVE  file.groups[h].expiry >= pledge[c][h]
      BY DEF FileCovers
    <3>2. Cover(now, call[c], memory[c][h], file.groups[h], h, pledge[c][h])
      BY DEF IInv, AllCovered
    <3>3. file.groups[h].expiry >= pledge[c][h] \/ Unsaved(memory[c][h])
      BY <3>1, <3>2 DEF Cover, FileCovers, Withstands
    <3>4. CASE Unsaved(memory[c][h]) /\ call[c].read
      <4>1. Outcome(c) = call[c].loaded
        BY <1>8, <3>4 DEF Unchanged
      <4>2. call[c].loaded[h].expiry >= pledge[c][h]
        BY <1>5, <3>1, <3>4, <4>1
      <4>3. file.groups[h] = call[c].loaded[h] \/ file.groups[h].expiry >= pledge[c][h]
        BY <1>3, <3>1, <3>2, <3>4 DEF Cover, CallCovers
      <4> QED
        BY <4>2, <4>3
    <3>5. CASE ~ call[c].read
      <4>1. ~ file.exists
        BY <1>8, <3>5 DEF Unchanged
      <4>2. file.groups[h] = NoGroup
        BY <4>1, MissingFacts DEF IInv, FileFits
      <4> QED
        BY <3>1, <4>2, GroupFacts
    <3> QED
      BY <3>3, <3>4, <3>5
  <2>2. \A h \in Hosts : Cover(now, Idle, ms[h], file.groups[h], h, pledge[c][h])
    BY <1>4, <1>6, <2>1, NotWriting DEF Cover
  <2>3. pledge' = [pledge EXCEPT ![c] = pledge[c]] /\ pledge[c] \in [Hosts -> Nat]
    BY <1>1, <1>8
  <2> QED
    BY <1>1, <1>3, <1>4, <1>7, <1>8, <2>2, <2>3, NotWriting, ClientMoves
<1>9. CASE /\ file' = [Missing EXCEPT !.exists = TRUE, !.groups = Outcome(c)]
           /\ pledge' = [d \in Clients |-> [h \in Hosts |->
                 IF d # c /\ IsPolicy(Outcome(c)[h]) /\ Outcome(c)[h].expiry < pledge[d][h]
                 THEN Outcome(c)[h].expiry ELSE pledge[d][h]]]
  <2>1. PICK groups \in [Hosts -> Groups] : groups = Outcome(c)
    BY <1>5
  <2>2. file' \in Files /\ file'.exists /\ file'.groups = groups
    BY <1>9, <2>1, MissingFacts DEF Files
  <2>3. /\ pledge' \in [Clients -> [Hosts -> Nat]]
        /\ \A d \in Clients, h \in Hosts : pledge'[d][h] =
              IF d # c /\ IsPolicy(groups[h]) /\ groups[h].expiry < pledge[d][h]
              THEN groups[h].expiry ELSE pledge[d][h]
    <3>1. \A d \in Clients, h \in Hosts : pledge'[d][h] =
             IF d # c /\ IsPolicy(groups[h]) /\ groups[h].expiry < pledge[d][h]
             THEN groups[h].expiry ELSE pledge[d][h]
      BY <1>9, <2>1
    <3>2. \A d \in Clients, h \in Hosts :
             groups[h].expiry \in Nat /\ pledge[d][h] \in Nat
      BY <1>1, <2>1, GroupFacts
    <3>3. pledge' \in [Clients -> [Hosts -> Nat]]
      BY <1>9, <2>1, <3>2
    <3> QED
      BY <3>1, <3>3
  <2>4. TypeOK'
    <3>1. memory' \in [Clients -> Memory] /\ call' \in [Clients -> Calls]
      BY <1>1, <1>3, <1>4, <1>7
    <3> QED
      BY <1>1, <1>3, <2>2, <2>3, <3>1, TypesNext
  <2>5. FileFits'
    BY <2>2 DEF FileFits
  <2>6. ASSUME NEW d \in Clients, NEW h \in Hosts
        PROVE  Cover(now, call'[d], memory'[d][h], groups[h], h, pledge'[d][h])
    <3>1. groups[h].expiry \in Nat /\ pledge[d][h] \in Nat
      BY <1>1, <2>1, GroupFacts
    <3>2. CASE d = c
      <4>1. call'[d] = Idle /\ memory'[d] = ms /\ pledge'[d][h] = pledge[c][h]
        BY <1>1, <1>3, <2>3, <3>2
      <4>2. FileCovers(now, ms[h], groups[h], pledge[c][h])
        BY <1>5, <2>1 DEF FileCovers
      <4> QED
        BY <1>4, <1>6, <4>1, <4>2, NotWriting DEF Cover
    <3>3. CASE d # c
      <4>1. call'[d] = call[d] /\ memory'[d] = memory[d]
        BY <1>1, <1>3, <3>3
      <4>2. /\ pledge'[d][h] \in Nat /\ pledge'[d][h] <= pledge[d][h]
            /\ IsPolicy(groups[h]) => groups[h].expiry >= pledge'[d][h]
        BY <2>3, <3>1, <3>3
      <4>3. Cover(now, call[d], memory[d][h], file.groups[h], h, pledge[d][h])
        BY DEF IInv, AllCovered
      <4>4. now < pledge'[d][h] => now < pledge[d][h]
        BY <1>1, <3>1, <4>2
      <4>5. Covered(now, memory[d][h], pledge'[d][h])
        <5>1. memory[d][h].cached.expiry \in Nat
          BY <1>1, GroupFacts DEF Memory, Remembered
        <5> QED
          BY <3>1, <4>2, <4>3, <4>4, <5>1 DEF Cover, Covered
      <4>6. FileCovers(now, memory[d][h], groups[h], pledge'[d][h])
        BY <4>2 DEF FileCovers
      <4>7. CallCovers(now, call[d], memory[d][h], groups[h], h, pledge'[d][h])
        <5>1. call[d].values[h].expiry \in Nat
          BY <1>1, GroupFacts DEF Calls
        <5>2. call[d].values[h].expiry >= pledge[d][h] =>
                 call[d].values[h].expiry >= pledge'[d][h]
          BY <3>1, <4>2, <5>1
        <5> QED
          BY <4>2, <4>3, <4>4, <5>2 DEF Cover, CallCovers
      <4> QED
        BY <4>1, <4>5, <4>6, <4>7 DEF Cover
    <3> QED
      BY <3>2, <3>3
  <2>7. AllCovered'
    <3>1. now' = now
      BY <1>3
    <3>2. \A d \in Clients : \A h \in Hosts :
             Cover(now', call'[d], memory'[d][h], file'.groups[h], h, pledge'[d][h])
      BY <2>2, <2>6, <3>1
    <3> QED
      BY <3>2 DEF AllCovered
  <2>8. CallsFit'
    <3>1. ASSUME NEW d \in Clients PROVE CallFits(call'[d], memory'[d])
      <4>1. CASE d = c
        BY <1>1, <1>3, <1>4, <4>1, NotWriting
      <4>2. CASE d # c
        <5>1. call'[d] = call[d] /\ memory'[d] = memory[d]
          BY <1>1, <1>3, <4>2
        <5> QED
          BY <5>1 DEF IInv, CallsFit
      <4> QED
        BY <4>1, <4>2
    <3> QED
      BY <3>1 DEF CallsFit
  <2> QED
    BY <2>4, <2>5, <2>7, <2>8 DEF IInv
<1> QED
  BY <1>8, <1>9 DEF WriteLands


-----------------------------------------------------------------------------
(* The world outside *)

\* While every client is idle the clock may move: what is owed only grows less.
LEMMA TickFits ==
    ASSUME IInv, Tick
    PROVE  IInv'
<1>1. /\ now \in 0 .. MaxTime /\ file \in Files
      /\ memory \in [Clients -> Memory] /\ call \in [Clients -> Calls]
      /\ calls \in 0 .. MaxCalls /\ pledge \in [Clients -> [Hosts -> Nat]]
  BY TypesOf DEF IInv
<1>2. /\ now < MaxTime /\ now' = now + 1 /\ now \in Nat /\ MaxTime \in Nat
      /\ file' = file /\ memory' = memory /\ call' = call /\ calls' = calls
      /\ pledge' = pledge
      /\ \A c \in Clients : call[c].op = "idle"
  BY <1>1, LimitsAssumption DEF Tick
<1>3. TypeOK'
  BY <1>1, <1>2, TypesNext
<1>4. FileFits' /\ CallsFit'
  BY <1>2 DEF IInv, FileFits, CallsFit
<1>5. ASSUME NEW c \in Clients, NEW h \in Hosts
      PROVE  Cover(now', call[c], memory[c][h], file.groups[h], h, pledge[c][h])
  <2>1. Cover(now, call[c], memory[c][h], file.groups[h], h, pledge[c][h])
    BY DEF IInv, AllCovered
  <2>2. /\ pledge[c][h] \in Nat /\ file.groups[h].expiry \in Nat
    BY <1>1, GroupFacts DEF Files
  <2>3. PICK t \in Nat : t = now'
    BY <1>2
  <2>4. /\ t < pledge[c][h] => now < pledge[c][h]
        /\ ~ (file.groups[h].expiry > now) => ~ (file.groups[h].expiry > t)
    BY <1>2, <2>2, <2>3
  <2>5. Covered(t, memory[c][h], pledge[c][h])
    BY <2>1, <2>4 DEF Cover, Covered
  <2>6. FileCovers(t, memory[c][h], file.groups[h], pledge[c][h])
    BY <2>1, <2>4 DEF Cover, FileCovers, Withstands
  <2>7. call[c].op # "write"
    BY <1>2
  <2> QED
    BY <2>3, <2>5, <2>6, <2>7, NotWriting DEF Cover
<1>6. AllCovered'
  BY <1>2, <1>5 DEF AllCovered
<1> QED
  BY <1>3, <1>4, <1>6 DEF IInv

\* A change from outside that turns no group into a policy it was not.
LEMMA BecomesFits ==
    ASSUME IInv, NEW f \in Files, Becomes(f),
           ~ f.exists => f.groups = Missing.groups,
           \A h \in Hosts : f.groups[h] = file.groups[h] \/ ~ IsPolicy(f.groups[h])
    PROVE  IInv'
<1>1. /\ now \in 0 .. MaxTime
      /\ memory \in [Clients -> Memory] /\ call \in [Clients -> Calls]
      /\ pledge \in [Clients -> [Hosts -> Nat]]
  BY TypesOf DEF IInv
<1>2. /\ file' = f /\ now' = now /\ memory' = memory /\ call' = call /\ pledge' = pledge
      /\ Counted
  BY DEF Becomes
<1>3. calls' \in 0 .. MaxCalls
  BY <1>2, CountedFacts
<1>4. TypeOK'
  BY <1>1, <1>2, <1>3, TypesNext
<1>5. FileFits' /\ CallsFit'
  BY <1>2 DEF IInv, FileFits, CallsFit
<1>6. ASSUME NEW c \in Clients, NEW h \in Hosts
      PROVE  Cover(now, call[c], memory[c][h], f.groups[h], h, pledge[c][h])
  <2>1. Cover(now, call[c], memory[c][h], file.groups[h], h, pledge[c][h])
    BY DEF IInv, AllCovered
  <2>2. CASE f.groups[h] = file.groups[h]
    BY <2>1, <2>2
  <2>3. CASE ~ IsPolicy(f.groups[h])
    BY <2>1, <2>3 DEF Cover, FileCovers, CallCovers
  <2> QED
    BY <2>2, <2>3
<1>7. AllCovered'
  BY <1>2, <1>6 DEF AllCovered
<1> QED
  BY <1>4, <1>5, <1>7 DEF IInv

LEMMA WorldFits ==
    ASSUME IInv, World
    PROVE  IInv'
<1>1. file \in Files /\ file.groups \in [Hosts -> Groups] /\ FileFits
  BY TypesOf DEF IInv, Files
<1>2. CASE ReadOnly
  <2>1. PICK f : f = [file EXCEPT !.writable = ~ file.writable]
    OBVIOUS
  <2>2. f \in Files /\ f.groups = file.groups /\ f.exists = file.exists
    BY <1>1, <2>1 DEF Files
  <2>3. Becomes(f)
    BY <1>2, <2>1 DEF ReadOnly
  <2> QED
    BY <1>1, <2>2, <2>3, BecomesFits DEF FileFits
<1>3. CASE Unreadable
  <2>1. PICK f : f = [file EXCEPT !.readable = ~ file.readable]
    OBVIOUS
  <2>2. f \in Files /\ f.groups = file.groups /\ f.exists = file.exists
    BY <1>1, <2>1 DEF Files
  <2>3. Becomes(f)
    BY <1>3, <2>1 DEF Unreadable
  <2> QED
    BY <1>1, <2>2, <2>3, BecomesFits DEF FileFits
<1>4. ASSUME NEW h \in Hosts, Becomes([file EXCEPT !.malformed = TRUE])
      PROVE  IInv'
  <2>1. PICK f : f = [file EXCEPT !.malformed = TRUE]
    OBVIOUS
  <2>2. f \in Files /\ f.groups = file.groups /\ f.exists = file.exists
    BY <1>1, <2>1 DEF Files
  <2>3. Becomes(f)
    BY <1>4, <2>1
  <2> QED
    BY <1>1, <2>2, <2>3, BecomesFits DEF FileFits
<1>5. ASSUME NEW h \in Hosts, Becomes([file EXCEPT !.malformed = TRUE, !.groups[h] = Junk])
      PROVE  IInv'
  <2>1. PICK f : f = [file EXCEPT !.malformed = TRUE, !.groups[h] = Junk]
    OBVIOUS
  <2>2. f.groups = [file.groups EXCEPT ![h] = Junk] /\ f.exists = file.exists
    BY <1>1, <2>1 DEF Files
  <2>3. Junk \in Groups
    BY DEF Groups
  <2>4. /\ f.groups \in [Hosts -> Groups]
        /\ \A g \in Hosts : f.groups[g] = file.groups[g] \/ ~ IsPolicy(f.groups[g])
    BY <1>1, <2>2, <2>3, GroupFacts
  <2>5. f \in Files
    BY <1>1, <2>1, <2>2, <2>4 DEF Files
  <2>6. Becomes(f)
    BY <1>5, <2>1
  <2>7. f.exists
    BY <2>2, <2>6 DEF Becomes
  <2> QED
    BY <2>4, <2>5, <2>6, <2>7, BecomesFits
<1>6. CASE Deleted
  <2>1. Becomes(Missing)
    BY <1>6 DEF Deleted
  <2> QED
    BY <2>1, MissingFacts, GroupFacts, BecomesFits
<1> QED
  BY <1>2, <1>3, <1>4, <1>5, <1>6, TickFits DEF World, Malformed

LEMMA StepFits ==
    ASSUME IInv, [Next]_vars
    PROVE  IInv'
<1>1. CASE World
  BY <1>1, WorldFits
<1>2. ASSUME NEW c \in Clients, Client(c)
      PROVE  IInv'
  BY <1>2, LookUpFits, StoreFits, RefreshFits, ClearFits, OpenToRemoveFits, WriteFailsFits,
     WriteLandsFits DEF Client
<1>3. CASE UNCHANGED vars
  BY <1>3 DEF vars, IInv, TypeOK, FileFits, CallsFit, AllCovered
<1> QED
  BY <1>1, <1>2, <1>3 DEF Next

LEMMA Invariance == Spec => []IInv
<1>1. Init => IInv
  BY InitFits
<1>2. IInv /\ [Next]_vars => IInv'
  BY StepFits
<1> QED
  BY <1>1, <1>2, PTL DEF Spec

-----------------------------------------------------------------------------
(* The theorems *)

\* What a client remembers and owes, it answers with.
LEMMA OwedIsAnswered ==
    ASSUME IInv
    PROVE  NeverForgets
<1>1. SUFFICES ASSUME NEW c \in Clients, NEW h \in Hosts, now < pledge[c][h]
               PROVE  Lookup(c, h) # NoGroup
  BY DEF NeverForgets
<1>2. /\ TypeOK /\ FileFits
      /\ now \in Nat /\ memory \in [Clients -> Memory]
      /\ pledge \in [Clients -> [Hosts -> Nat]]
  BY TypesOf, LimitsAssumption DEF IInv
<1>3. /\ Settled(c)[h].cached = memory[c][h].cached
      /\ Covered(now, memory[c][h], pledge[c][h])
  BY SettledFacts DEF IInv, AllCovered, Cover
<1>4. memory[c][h].cached.expiry \in Nat /\ pledge[c][h] \in Nat
  BY <1>2, GroupFacts DEF Memory, Remembered
<1>5. Live(Settled(c)[h].cached)
  BY <1>1, <1>2, <1>3, <1>4 DEF Covered, Live
<1>6. ~ Live(NoGroup)
  BY <1>2, GroupFacts DEF Live
<1>7. Live(Lookup(c, h))
  <2>1. CASE Unsaved(Settled(c)[h])
    <3>1. Lookup(c, h) = Settled(c)[h].cached
      BY <1>5, <2>1 DEF Lookup
    <3> QED
      BY <1>5, <3>1
  <2>2. CASE ~ Unsaved(Settled(c)[h]) /\ Live(FileView(h).policy)
    <3>1. Lookup(c, h) = FileView(h).policy
      BY <2>2 DEF Lookup
    <3> QED
      BY <2>2, <3>1
  <2>3. CASE ~ Unsaved(Settled(c)[h]) /\ ~ Live(FileView(h).policy)
    <3>1. Lookup(c, h) = Settled(c)[h].cached
      BY <1>5, <2>3 DEF Lookup
    <3> QED
      BY <1>5, <3>1
  <2> QED
    BY <2>1, <2>2, <2>3
<1> QED
  BY <1>6, <1>7

\* Every variable keeps its type: the groups of the file and of every call stay groups, and a
\* remembered policy is a policy (policy_from_group, PolicyMemory).
THEOREM TypeCorrect == Spec => []TypeOK
<1>1. IInv => TypeOK
  BY DEF IInv
<1> QED
  BY <1>1, Invariance, PTL

\* A policy a client stored or refreshed outlives failed writes, lost permissions, damage and
\* the deletion of the file, and the writes of other clients but the ones that replace it
\* with a shorter one (StsStore::store, refresh and lookup, persist_sts_settings).
THEOREM NeverForgetsHolds == Spec => []NeverForgets
<1>1. IInv => NeverForgets
  BY OwedIsAnswered
<1> QED
  BY <1>1, Invariance, PTL

\* Only the end of its write takes a client's call out of the write.
LEMMA WriteEnds ==
    ASSUME TypeOK, [Next]_vars, NEW c \in Clients, call[c].op = "write", call'[c].op = "idle"
    PROVE  WriteFails(c) \/ WriteLands(c)
<1>1. call \in [Clients -> Calls]
  BY TypesOf
<1>2. call'[c] # call[c]
  OBVIOUS
<1>3. ~ UNCHANGED vars /\ ~ World
  BY <1>2 DEF vars, World, Tick, ReadOnly, Unreadable, Malformed, Deleted, Becomes
<1>4. PICK d \in Clients : Client(d)
  BY <1>3 DEF Next
<1>5. ASSUME NEW h \in Hosts, LookUp(d, h) \/ Clear(d, h) \/ OpenToRemove(d)
             \/ \E u \in Durations : Refresh(d, h, u) \/ \E p \in Ports : Store(d, h, p, u)
      PROVE  FALSE
  <2>1. /\ call[d].op # "write"
        /\ call' = call \/ \E k : call' = [call EXCEPT ![d] = k]
    <3>1. CASE LookUp(d, h)
      BY <3>1 DEF LookUp, Free
    <3>2. CASE Clear(d, h)
      BY <3>2 DEF Clear, Free
    <3>3. CASE OpenToRemove(d)
      BY <3>3 DEF OpenToRemove
    <3>4. ASSUME NEW u \in Durations, Refresh(d, h, u)
          PROVE  <2>1!1 /\ <2>1!2
      BY <3>4 DEF Refresh, Free
    <3>5. ASSUME NEW u \in Durations, NEW p \in Ports, Store(d, h, p, u)
          PROVE  <2>1!1 /\ <2>1!2
      BY <3>5 DEF Store, Free
    <3> QED
      BY <1>5, <3>1, <3>2, <3>3, <3>4, <3>5
  <2>2. d # c
    BY <2>1
  <2> QED
    BY <1>1, <1>2, <2>1, <2>2
<1>6. WriteFails(d) \/ WriteLands(d)
  BY <1>4, <1>5, HostsAssumption DEF Client
<1>7. call' = [call EXCEPT ![d] = Idle]
  BY <1>6 DEF WriteFails, WriteLands, Ends
<1>8. d = c
  BY <1>1, <1>2, <1>7
<1> QED
  BY <1>6, <1>8

\* What a write that nobody came between makes of the file.
LEMMA WriteIsMeant ==
    ASSUME IInv, NEW c \in Clients, call[c].op = "write", Fresh(c), NEW h \in Hosts,
           NEW g, g = file.groups[h], Outcome(c)[h] # g
    PROVE  \/ /\ h = call[c].host
              /\ call[c].refresh => Identity(g) = Identity(Outcome(c)[h])
           \/ h # call[c].host /\ Unsaved(memory[c][h])
           \/ ~ IsPolicy(g) /\ Outcome(c)[h] = NoGroup
           \/ Recovers /\ ~ Live(g)
<1>1. /\ file \in Files /\ now \in Nat /\ call[c] \in Calls /\ FileFits
      /\ CallFits(call[c], memory[c])
  BY TypesOf, LimitsAssumption DEF IInv, CallsFit
<1>2. g = call[c].loaded[h]
  <2>1. CASE call[c].read
    BY <2>1 DEF Fresh
  <2>2. CASE ~ call[c].read
    BY <1>1, <2>2 DEF Fresh, FileFits, CallFits
  <2> QED
    BY <2>1, <2>2
<1>3. g \in Groups
  BY <1>1 DEF Files
<1>4. PICK v : v = DropInvalid(call[c].values)[h]
  OBVIOUS
<1>5. v = IF IsPolicy(call[c].values[h]) THEN call[c].values[h] ELSE NoGroup
  BY <1>4 DEF DropInvalid
<1>6. Outcome(c)[h] = IF Merges(memory[c][h], v, Recovers) THEN memory[c][h].cached ELSE v
  BY <1>4, OutcomeFacts
<1>7. CASE h # call[c].host
  <2>1. call[c].values[h] = g
    BY <1>1, <1>2, <1>7 DEF CallFits
  <2>2. v = IF IsPolicy(g) THEN g ELSE NoGroup
    BY <1>5, <2>1
  <2>3. CASE Merges(memory[c][h], v, Recovers)
    <3>1. Unsaved(memory[c][h]) \/ (Recovers /\ ~ Live(v))
      BY <2>3 DEF Merges
    <3>2. ~ Live(v) => ~ Live(g)
      <4>1. ~ IsPolicy(g) => g.expiry = 0
        BY <1>3, GroupFacts DEF Groups
      <4> QED
        BY <1>1, <2>2, <4>1 DEF Live
    <3> QED
      BY <1>7, <3>1, <3>2
  <2>4. CASE ~ Merges(memory[c][h], v, Recovers)
    BY <1>6, <2>2, <2>4
  <2> QED
    BY <2>3, <2>4
<1>8. CASE h = call[c].host
  <2>1. SUFFICES ASSUME call[c].refresh
                 PROVE  Identity(g) = Identity(Outcome(c)[h])
    BY <1>8
  <2>2. /\ memory[c][h].cached = call[c].values[h] /\ IsPolicy(g)
        /\ Identity(call[c].values[h]) = Identity(g)
    BY <1>1, <1>2, <1>8, <2>1 DEF CallFits
  <2>3. IsPolicy(call[c].values[h])
    BY <2>2 DEF Identity, IsPolicy
  <2>4. Outcome(c)[h] = call[c].values[h]
    BY <1>5, <1>6, <2>2, <2>3
  <2> QED
    BY <2>2, <2>4
<1> QED
  BY <1>7, <1>8

\* A write nobody came between changes what its call is about, and of the other hosts only
\* those whose own write had failed, that are no policy, or that recovery has to fill in
\* (persist_sts_settings, StsStore::refresh).
THEOREM OthersAreLeftAloneHolds == Spec => OthersAreLeftAlone
<1> DEFINE A(c) == call[c].op = "write" /\ Fresh(c) /\ call'[c].op = "idle" =>
         \A h \in Hosts : file'.groups[h] # file.groups[h] =>
            \/ /\ h = call[c].host
               /\ call[c].refresh => Identity(file.groups[h]) = Identity(file'.groups[h])
            \/ h # call[c].host /\ Unsaved(memory[c][h])
            \/ ~ IsPolicy(file.groups[h]) /\ file'.groups[h] = NoGroup
            \/ Recovers /\ ~ Live(file.groups[h])
<1>1. ASSUME IInv, [Next]_vars, NEW c \in Clients
      PROVE  A(c)
  <2>1. SUFFICES ASSUME call[c].op = "write", Fresh(c), call'[c].op = "idle",
                        NEW h \in Hosts, file'.groups[h] # file.groups[h]
                 PROVE  \/ /\ h = call[c].host
                           /\ call[c].refresh =>
                                 Identity(file.groups[h]) = Identity(file'.groups[h])
                        \/ h # call[c].host /\ Unsaved(memory[c][h])
                        \/ ~ IsPolicy(file.groups[h]) /\ file'.groups[h] = NoGroup
                        \/ Recovers /\ ~ Live(file.groups[h])
    OBVIOUS
  <2>2. WriteFails(c) \/ WriteLands(c)
    BY <1>1, <2>1, WriteEnds DEF IInv
  <2>3. file' # file
    BY <2>1
  <2>4. file' = [Missing EXCEPT !.exists = TRUE, !.groups = Outcome(c)]
    BY <2>2, <2>3 DEF WriteFails, WriteLands
  <2>5. file'.groups[h] = Outcome(c)[h]
    BY <2>4 DEF Missing
  <2>6. PICK g : g = file.groups[h]
    OBVIOUS
  <2> QED
    BY <1>1, <2>1, <2>5, <2>6, WriteIsMeant
<1>2. IInv /\ [Next]_vars => [\A c \in Clients : A(c)]_vars
  BY <1>1
<1> QED
  BY <1>2, Invariance, PTL DEF Spec, OthersAreLeftAlone

-----------------------------------------------------------------------------
(* The replacement of a file: the inductive invariant.  d is a directory   *)
(* (dir or durable), dt the contents and sy the synced inodes.             *)

BackupNumbers == 0 .. Backups - 1

\* The target of a directory is whole and on disk.
Whole(d, dt, sy) == d[Disk!Target] # 0 => dt[d[Disk!Target]] # Disk!Torn /\ d[Disk!Target] \in sy

\* The damaged bytes are on disk under a backup name.
HasBackup(d, dt, sy) ==
    \E n \in BackupNumbers :
        /\ d[Disk!Backup(n)] # 0
        /\ dt[d[Disk!Backup(n)]] = Disk!Damaged
        /\ d[Disk!Backup(n)] \in sy

\* A directory whose target is not the damaged file has its backup.
Kept(d, dt, sy) == dt[1] = Disk!Damaged /\ d[Disk!Target] # 1 => HasBackup(d, dt, sy)

\* No other name leads to the file behind n.
Alone(d, n) == d[n] # 0 /\ \A m \in Disk!Names : d[m] = d[n] => m = n

\* The steps at which a call has a temporary file of its own.
Holding == {"fill", "sync", "backup", "copy", "rename", "discard"}

\* The call c of process p: its temporary is its own, filled before it is synced and synced
\* before it is renamed; a call that replaces without a backup found no damaged file, and
\* one at the rename has the backup behind it.
Fits(p, c, d, dt, sy) ==
    /\ c.at # "idle" => c.value \in Values
    /\ c.at # "idle" /\ c.kind = "write" /\ dt[1] = Disk!Damaged => d[Disk!Target] # 1
    /\ c.at # "idle" /\ c.kind = "recover" => d[Disk!Target] # 0
    /\ c.at \in {"backup", "copy"} => c.kind = "recover"
    /\ c.at \in Holding => c.temp \in Disk!Kinds \X {p} \X Disk!Numbers /\ Alone(d, c.temp)
    /\ c.at = "fill" => dt[d[c.temp]] = Disk!Torn /\ d[c.temp] \notin sy
    /\ c.at \in {"sync", "backup", "copy", "rename"} => dt[d[c.temp]] = c.value
    /\ c.at \in {"backup", "copy", "rename"} => d[c.temp] \in sy
    /\ c.at = "copy" => /\ Alone(d, Disk!Backup(c.backup))
                        /\ d[Disk!Backup(c.backup)] # 1 /\ d[Disk!Backup(c.backup)] \notin sy
                        /\ dt[d[Disk!Backup(c.backup)]] = Disk!Torn
                        /\ dt[1] = Disk!Damaged /\ d[Disk!Target] = 1 => c.copied = Disk!Damaged
    /\ c.at = "rename" /\ dt[1] = Disk!Damaged => HasBackup(d, dt, sy)

\* The files that exist: a new one has a number of its own and nothing in it.
FilesFit ==
    /\ used # 0
    /\ \A n \in Disk!Names : dir[n] <= used /\ durable[n] <= used
    /\ \A i \in Disk!Inodes : i > used => data[i] = Disk!Torn /\ i \notin synced
    /\ data[1] = Disk!Damaged => 1 \in synced

DiskCallsFit == \A p \in Pids : Fits(p, proc[p], dir, data, synced)

\* Two calls never fill the same copy.
CopiesApart ==
    \A p, q \in Pids : p # q /\ proc[p].at = "copy" /\ proc[q].at = "copy" =>
        proc[p].backup # proc[q].backup

DiskInv ==
    /\ Disk!TypeOK /\ FilesFit /\ DiskCallsFit /\ CopiesApart
    /\ Whole(dir, data, synced) /\ Whole(durable, data, synced)
    /\ Kept(dir, data, synced) /\ Kept(durable, data, synced)

-----------------------------------------------------------------------------
(* Disk!Names and calls *)

TempNames(p) == Disk!Kinds \X {p} \X Disk!Numbers
Call == [at : Disk!Steps, kind : Disk!Kinds, value : Values \cup {Disk!Torn}, tries : 0 .. Tries,
         temp : Disk!Names, backup : BackupNumbers, copied : Values \cup {Disk!Damaged, Disk!Torn}]
Contents == [Disk!Inodes -> Values \cup {Disk!Damaged, Disk!Torn}]
Directories == [Disk!Names -> 0 .. MaxInodes]

\* The target, the temporaries and the backups have different names.
LEMMA NamesApart ==
    /\ Disk!Target \in Disk!Names
    /\ \A n \in BackupNumbers : Disk!Backup(n) \in Disk!Names /\ Disk!Backup(n) # Disk!Target
    /\ \A n, m \in BackupNumbers : Disk!Backup(n) = Disk!Backup(m) => n = m
    /\ \A p \in Pids : \A x \in TempNames(p) :
          x \in Disk!Names /\ x # Disk!Target /\ \A n \in BackupNumbers : x # Disk!Backup(n)
    /\ \A p, q \in Pids : \A x \in TempNames(p) : \A y \in TempNames(q) : p # q => x # y
<1>1. Disk!Target \in Disk!Names
  BY DEF Disk!Names
<1>2. \A n \in BackupNumbers : Disk!Backup(n) \in Disk!Names /\ Disk!Backup(n) # Disk!Target
  BY DEF Disk!Names, Disk!Backup, Disk!Target, BackupNumbers
<1>3. \A n, m \in BackupNumbers : Disk!Backup(n) = Disk!Backup(m) => n = m
  BY DEF Disk!Backup
<1>4. ASSUME NEW p \in Pids, NEW x \in TempNames(p)
      PROVE  x \in Disk!Names /\ x # Disk!Target /\ \A n \in BackupNumbers : x # Disk!Backup(n)
  <2>1. PICK k \in Disk!Kinds, n \in Disk!Numbers : x = <<k, p, n>>
    BY DEF TempNames
  <2>2. x \in Disk!Names
    BY <2>1 DEF Disk!Names
  <2>3. x # Disk!Target /\ \A m \in BackupNumbers : x # Disk!Backup(m)
    BY <2>1 DEF Disk!Target, Disk!Backup, Disk!Kinds
  <2> QED
    BY <2>2, <2>3
<1>5. ASSUME NEW p \in Pids, NEW q \in Pids, NEW x \in TempNames(p), NEW y \in TempNames(q),
             p # q
      PROVE  x # y
  BY <1>5 DEF TempNames
<1> QED
  BY <1>1, <1>2, <1>3, <1>4, <1>5

\* An idle process is at no step.
LEMMA IdleFits ==
    ASSUME NEW p, NEW d, NEW dt, NEW sy
    PROVE  Disk!Idle \in Call /\ Fits(p, Disk!Idle, d, dt, sy)
<1>1. 0 \in BackupNumbers /\ 0 \in 0 .. Tries
  BY DiskParameters DEF BackupNumbers
<1>2. Disk!Idle \in Call
  BY <1>1, NamesApart DEF Disk!Idle, Call, Disk!Steps, Disk!Kinds
<1>3. Disk!Idle.at = "idle"
  BY DEF Disk!Idle
<1>4. Fits(p, Disk!Idle, d, dt, sy)
  BY <1>3 DEF Fits, Holding
<1> QED
  BY <1>2, <1>4

\* What a step does to the file behind a name it leaves alone.
Keeps(n, d, dt, sy, d2, dt2, sy2) ==
    /\ d2[n] = d[n]
    /\ dt2[d[n]] = dt[d[n]]
    /\ d[n] \in sy2 <=> d[n] \in sy
    /\ \A m \in Disk!Names : d2[m] = d[n] => d[m] = d[n]

\* A call still fits after a step of somebody else that leaves its own files alone.
LEMMA FitsStable ==
    ASSUME NEW p, NEW c, NEW d, NEW dt, NEW sy, NEW d2, NEW dt2, NEW sy2,
           Fits(p, c, d, dt, sy),
           d[Disk!Target] # 0 => d2[Disk!Target] # 0,
           dt2[1] = Disk!Damaged => dt[1] = Disk!Damaged,
           dt2[1] = Disk!Damaged /\ d[Disk!Target] # 1 => d2[Disk!Target] # 1,
           dt2[1] = Disk!Damaged /\ HasBackup(d, dt, sy) => HasBackup(d2, dt2, sy2),
           c.at \in Holding => Keeps(c.temp, d, dt, sy, d2, dt2, sy2),
           c.at = "copy" => Keeps(Disk!Backup(c.backup), d, dt, sy, d2, dt2, sy2)
    PROVE  Fits(p, c, d2, dt2, sy2)
<1>1. /\ c.at # "idle" => c.value \in Values
      /\ c.at # "idle" /\ c.kind = "write" /\ dt2[1] = Disk!Damaged => d2[Disk!Target] # 1
      /\ c.at # "idle" /\ c.kind = "recover" => d2[Disk!Target] # 0
      /\ c.at \in {"backup", "copy"} => c.kind = "recover"
  BY DEF Fits
<1>2. c.at \in Holding => c.temp \in Disk!Kinds \X {p} \X Disk!Numbers /\ Alone(d2, c.temp)
  BY DEF Fits, Keeps, Alone
<1>3. /\ c.at = "fill" => dt2[d2[c.temp]] = Disk!Torn /\ d2[c.temp] \notin sy2
      /\ c.at \in {"sync", "backup", "copy", "rename"} => dt2[d2[c.temp]] = c.value
      /\ c.at \in {"backup", "copy", "rename"} => d2[c.temp] \in sy2
  BY DEF Fits, Keeps, Holding
<1>4. c.at = "copy" => /\ Alone(d2, Disk!Backup(c.backup))
                       /\ d2[Disk!Backup(c.backup)] # 1 /\ d2[Disk!Backup(c.backup)] \notin sy2
                       /\ dt2[d2[Disk!Backup(c.backup)]] = Disk!Torn
  <2>1. SUFFICES ASSUME c.at = "copy"
                 PROVE  /\ Alone(d2, Disk!Backup(c.backup))
                        /\ d2[Disk!Backup(c.backup)] # 1 /\ d2[Disk!Backup(c.backup)] \notin sy2
                        /\ dt2[d2[Disk!Backup(c.backup)]] = Disk!Torn
    OBVIOUS
  <2>2. /\ Alone(d, Disk!Backup(c.backup)) /\ d[Disk!Backup(c.backup)] # 1
        /\ d[Disk!Backup(c.backup)] \notin sy /\ dt[d[Disk!Backup(c.backup)]] = Disk!Torn
    BY <2>1 DEF Fits
  <2> QED
    BY <2>1, <2>2 DEF Keeps, Alone
<1>5. c.at = "copy" /\ dt2[1] = Disk!Damaged /\ d2[Disk!Target] = 1 => c.copied = Disk!Damaged
  BY DEF Fits
<1>6. c.at = "rename" /\ dt2[1] = Disk!Damaged => HasBackup(d2, dt2, sy2)
  BY DEF Fits
<1> QED
  BY <1>1, <1>2, <1>3, <1>4, <1>5, <1>6 DEF Fits

\* A backup survives a step that leaves the synced and damaged files alone.
LEMMA BackupStable ==
    ASSUME NEW d, NEW dt, NEW sy, NEW d2, NEW dt2, NEW sy2,
           HasBackup(d, dt, sy),
           \A n \in BackupNumbers :
              d[Disk!Backup(n)] # 0 /\ d[Disk!Backup(n)] \in sy =>
                  d2[Disk!Backup(n)] = d[Disk!Backup(n)],
           \A i \in sy : i \in sy2 /\ (dt[i] = Disk!Damaged => dt2[i] = Disk!Damaged)
    PROVE  HasBackup(d2, dt2, sy2)
<1>1. PICK n \in BackupNumbers : /\ d[Disk!Backup(n)] # 0 /\ dt[d[Disk!Backup(n)]] = Disk!Damaged
                                 /\ d[Disk!Backup(n)] \in sy
  BY DEF HasBackup
<1>2. d2[Disk!Backup(n)] = d[Disk!Backup(n)]
  BY <1>1
<1> QED
  BY <1>1, <1>2 DEF HasBackup

\* The types, one fact each.
LEMMA DiskTypesOf ==
    Disk!TypeOK <=> /\ dir \in Directories /\ durable \in Directories
                    /\ data \in Contents /\ synced \subseteq Disk!Inodes
                    /\ used \in 0 .. MaxInodes
                    /\ proc \in [Pids -> Call] /\ counter \in [Pids -> Nat]
                    /\ crashes \in 0 .. MaxCrashes
BY DEF Disk!TypeOK, Directories, Contents, Call, BackupNumbers

LEMMA DiskTypesNext ==
    Disk!TypeOK' <=> /\ dir' \in Directories /\ durable' \in Directories
                     /\ data' \in Contents /\ synced' \subseteq Disk!Inodes
                     /\ used' \in 0 .. MaxInodes
                     /\ proc' \in [Pids -> Call] /\ counter' \in [Pids -> Nat]
                     /\ crashes' \in 0 .. MaxCrashes
BY DEF Disk!TypeOK, Directories, Contents, Call, BackupNumbers

-----------------------------------------------------------------------------
(* The first state *)

LEMMA DiskInitFits ==
    ASSUME Disk!Init
    PROVE  DiskInv
<1>1. PICK v \in Values \cup {Disk!Damaged, Disk!Torn} :
          /\ data = [i \in Disk!Inodes |-> IF i = 1 THEN v ELSE Disk!Torn]
          /\ dir = [n \in Disk!Names |-> IF n = Disk!Target /\ v # Disk!Torn THEN 1 ELSE 0]
          /\ synced = IF v = Disk!Torn THEN {} ELSE {1}
  BY DEF Disk!Init
<1>2. 1 \in Disk!Inodes /\ 1 \in 0 .. MaxInodes /\ 0 \in 0 .. MaxInodes /\ 0 \in 0 .. MaxCrashes
  BY DiskParameters DEF Disk!Inodes
<1>3. Disk!Target \in Disk!Names
  BY NamesApart
<1>4. /\ durable = dir /\ used = 1 /\ crashes = 0
      /\ proc = [p \in Pids |-> Disk!Idle] /\ counter = [p \in Pids |-> 0]
  BY DEF Disk!Init
<1>5. Disk!TypeOK
  <2>1. dir \in Directories
    BY <1>1, <1>2 DEF Directories
  <2>2. data \in Contents
    BY <1>1 DEF Contents
  <2>3. synced \subseteq Disk!Inodes
    BY <1>1, <1>2
  <2>4. proc \in [Pids -> Call]
    BY <1>4, IdleFits
  <2> QED
    BY <2>1, <2>2, <2>3, <2>4, <1>2, <1>4, DiskTypesOf
<1>6. dir[Disk!Target] = IF v = Disk!Torn THEN 0 ELSE 1
  BY <1>1, <1>3
<1>7. FilesFit
  <2>1. \A n \in Disk!Names : dir[n] <= used /\ durable[n] <= used
    BY <1>1, <1>4
  <2>2. \A i \in Disk!Inodes : i > used => data[i] = Disk!Torn /\ i \notin synced
    BY <1>1, <1>4 DEF Disk!Inodes
  <2>3. data[1] = Disk!Damaged => 1 \in synced
    <3>1. Disk!Damaged # Disk!Torn
      BY DEF Disk!Damaged, Disk!Torn
    <3> QED
      BY <1>1, <1>2, <3>1
  <2> QED
    BY <2>1, <2>2, <2>3, <1>4 DEF FilesFit
<1>8. DiskCallsFit
  BY <1>4, IdleFits DEF DiskCallsFit
<1>9. Whole(dir, data, synced)
  BY <1>1, <1>2, <1>6 DEF Whole
<1>10. Kept(dir, data, synced)
  <2>1. Disk!Damaged # Disk!Torn
    BY DEF Disk!Damaged, Disk!Torn
  <2> QED
    BY <1>1, <1>2, <1>6, <2>1 DEF Kept
<1>11. CopiesApart
  BY <1>4 DEF CopiesApart, Disk!Idle
<1> QED
  BY <1>4, <1>5, <1>7, <1>8, <1>9, <1>10, <1>11 DEF DiskInv

-----------------------------------------------------------------------------
(* Disk!Steps that move one call and no file *)

LEMMA CallMoves ==
    ASSUME DiskInv, NEW p \in Pids, NEW c \in Call,
           Fits(p, c, dir, data, synced), c.at # "copy",
           proc' = [proc EXCEPT ![p] = c],
           UNCHANGED <<dir, durable, data, synced, used>>,
           counter' \in [Pids -> Nat], crashes' \in 0 .. MaxCrashes
    PROVE  DiskInv'
<1>1. Disk!TypeOK'
  <2>1. Disk!TypeOK
    BY DEF DiskInv
  <2>2. proc' \in [Pids -> Call]
    BY <2>1, DiskTypesOf
  <2> QED
    BY <2>1, <2>2, DiskTypesOf, DiskTypesNext
<1>2. FilesFit'
  BY DEF DiskInv, FilesFit
<1>3. DiskCallsFit'
  <2>1. proc \in [Pids -> Call]
    BY DiskTypesOf DEF DiskInv
  <2>2. ASSUME NEW q \in Pids PROVE Fits(q, proc'[q], dir, data, synced)
    <3>1. CASE q = p
      BY <3>1, <2>1
    <3>2. CASE q # p
      <4>1. proc'[q] = proc[q]
        BY <3>2, <2>1
      <4> QED
        BY <4>1 DEF DiskInv, DiskCallsFit
    <3> QED
      BY <3>1, <3>2
  <2>3. \A q \in Pids : Fits(q, proc'[q], dir', data', synced')
    BY <2>2
  <2> QED
    BY <2>3 DEF DiskCallsFit
<1>4. CopiesApart'
  <2>1. proc \in [Pids -> Call]
    BY DiskTypesOf DEF DiskInv
  <2> QED
    BY <2>1 DEF DiskInv, CopiesApart
<1> QED
  BY <1>1, <1>2, <1>3, <1>4 DEF DiskInv

LEMMA BeginFits ==
    ASSUME DiskInv, NEW p \in Pids, NEW v \in Values, Disk!Begin(p, v)
    PROVE  DiskInv'
<1>1. PICK k \in Disk!Kinds : k = IF dir[Disk!Target] # 0 /\ data[dir[Disk!Target]] = Disk!Damaged
                             THEN "recover" ELSE "write"
  BY DEF Disk!Kinds
<1>2. PICK c : c = [Disk!Idle EXCEPT !.at = "create", !.value = v, !.kind = k]
  OBVIOUS
<1>3. proc' = [proc EXCEPT ![p] = c]
  BY <1>1, <1>2 DEF Disk!Begin
<1>4. /\ c \in Call /\ c.at = "create" /\ c.value = v /\ c.kind = k
  <2>1. Disk!Idle \in Call
    BY IdleFits
  <2> QED
    BY <1>2, <2>1 DEF Call, Disk!Steps
<1>5. Fits(p, c, dir, data, synced)
  <2>1. c.at \notin Holding /\ c.at # "backup" /\ c.at # "copy" /\ c.at # "rename"
        /\ c.at # "fill" /\ c.at # "sync"
    BY <1>4 DEF Holding
  <2>2. c.kind = "write" /\ data[1] = Disk!Damaged => dir[Disk!Target] # 1
    BY <1>1, <1>4
  <2>3. c.kind = "recover" => dir[Disk!Target] # 0
    BY <1>1, <1>4
  <2> QED
    BY <1>4, <2>1, <2>2, <2>3 DEF Fits
<1>6. counter' \in [Pids -> Nat] /\ crashes' \in 0 .. MaxCrashes
  BY DiskTypesOf DEF DiskInv, Disk!Begin
<1> QED
  BY <1>3, <1>4, <1>5, <1>6, CallMoves DEF Disk!Begin

\* A call that ends, or whose process is killed, leaves no trace in the invariant.
LEMMA EndFits ==
    ASSUME DiskInv, NEW p \in Pids, Disk!CreateFails(p) \/ Disk!Kill(p)
    PROVE  DiskInv'
<1>1. Disk!Idle \in Call /\ Fits(p, Disk!Idle, dir, data, synced)
  BY IdleFits
<1>2. counter \in [Pids -> Nat] /\ crashes \in 0 .. MaxCrashes
  BY DiskTypesOf DEF DiskInv
<1>3. counter' \in [Pids -> Nat]
  BY <1>2 DEF Disk!CreateFails, Disk!Kill
<1>4. crashes' \in 0 .. MaxCrashes
  BY <1>2, DiskParameters DEF Disk!CreateFails, Disk!Kill, Disk!Crash
<1>5. proc' = [proc EXCEPT ![p] = Disk!Idle] /\ UNCHANGED <<dir, durable, data, synced, used>>
  BY DEF Disk!CreateFails, Disk!Kill, Disk!Ends
<1>6. Disk!Idle.at # "copy"
  BY DEF Disk!Idle
<1> QED
  BY <1>1, <1>3, <1>4, <1>5, <1>6, CallMoves

LEMMA StepFailsFits ==
    ASSUME DiskInv, NEW p \in Pids, Disk!StepFails(p)
    PROVE  DiskInv'
<1>1. proc \in [Pids -> Call]
  BY DiskTypesOf DEF DiskInv
<1>2. PICK c : c = [proc[p] EXCEPT !.at = "discard"]
  OBVIOUS
<1>3. /\ c \in Call /\ c.at = "discard" /\ c.value = proc[p].value
      /\ c.kind = proc[p].kind /\ c.temp = proc[p].temp
  BY <1>1, <1>2 DEF Call, Disk!Steps
<1>4. proc' = [proc EXCEPT ![p] = c]
  BY <1>1, <1>2 DEF Disk!StepFails, Disk!Goes
<1>5. Fits(p, proc[p], dir, data, synced)
  BY DEF DiskInv, DiskCallsFit
<1>6. proc[p].at # "idle" /\ proc[p].at \in Holding
  BY DEF Disk!StepFails, Holding
<1>7. Fits(p, c, dir, data, synced)
  BY <1>3, <1>5, <1>6 DEF Fits, Holding
<1>8. counter' \in [Pids -> Nat] /\ crashes' \in 0 .. MaxCrashes
  BY DiskTypesOf DEF DiskInv, Disk!StepFails
<1> QED
  BY <1>3, <1>4, <1>7, <1>8, CallMoves DEF Disk!StepFails

\* A backup name that is taken.
LEMMA TakenFits ==
    ASSUME DiskInv, NEW p \in Pids, proc[p].at = "backup",
           proc' = [proc EXCEPT ![p] = Disk!Taken(p)],
           UNCHANGED <<dir, durable, data, synced, used, counter, crashes>>
    PROVE  DiskInv'
<1>1. proc \in [Pids -> Call]
  BY DiskTypesOf DEF DiskInv
<1>2. PICK c : c = Disk!Taken(p)
  OBVIOUS
<1>3. c \in Call
  <2>1. proc[p].backup \in BackupNumbers
    BY <1>1 DEF Call
  <2>2. proc[p].backup + 1 < Backups => proc[p].backup + 1 \in BackupNumbers
    BY <2>1, DiskParameters DEF BackupNumbers
  <2> QED
    BY <1>1, <1>2, <2>2 DEF Disk!Taken, Call, Disk!Steps
<1>4. /\ c.at \in {"backup", "discard"} /\ c.value = proc[p].value
      /\ c.kind = proc[p].kind /\ c.temp = proc[p].temp
  BY <1>1, <1>2 DEF Disk!Taken, Call
<1>5. Fits(p, proc[p], dir, data, synced)
  BY DEF DiskInv, DiskCallsFit
<1>6. Fits(p, c, dir, data, synced)
  BY <1>4, <1>5 DEF Fits, Holding
<1>7. counter' \in [Pids -> Nat] /\ crashes' \in 0 .. MaxCrashes
  BY DiskTypesOf DEF DiskInv
<1> QED
  BY <1>2, <1>3, <1>4, <1>6, <1>7, CallMoves

-----------------------------------------------------------------------------
(* Disk!Steps that move one call and change files *)

\* What a call that is under way says about the rest: nobody else's files are its own.
LEMMA FilesMove ==
    ASSUME DiskInv, NEW p \in Pids, NEW c \in Call,
           proc' = [proc EXCEPT ![p] = c],
           c.at = "copy" => dir[Disk!Backup(c.backup)] = 0,
           dir' \in Directories, data' \in Contents, synced' \subseteq Disk!Inodes,
           used' \in 0 .. MaxInodes, counter' \in [Pids -> Nat],
           UNCHANGED <<durable, crashes>>,
           FilesFit', Whole(dir', data', synced'),
           Fits(p, c, dir', data', synced'),
           dir[Disk!Target] # 0 => dir'[Disk!Target] # 0,
           data'[1] = Disk!Damaged => data[1] = Disk!Damaged,
           data'[1] = Disk!Damaged /\ dir[Disk!Target] # 1 => dir'[Disk!Target] # 1,
           data'[1] = Disk!Damaged /\ HasBackup(dir, data, synced) =>
              HasBackup(dir', data', synced'),
           data'[1] = Disk!Damaged /\ dir'[Disk!Target] # 1 => HasBackup(dir, data, synced),
           \A i \in synced : i \in synced' /\ data'[i] = data[i],
           \A n \in Disk!Names :
              /\ Alone(dir, n) /\ n # Disk!Target /\ n \notin TempNames(p)
              /\ proc[p].at = "copy" => n # Disk!Backup(proc[p].backup)
              => Keeps(n, dir, data, synced, dir', data', synced')
    PROVE  DiskInv'
<1>1. proc \in [Pids -> Call]
  BY DiskTypesOf DEF DiskInv
<1>2. Disk!TypeOK'
  <2>1. Disk!TypeOK
    BY DEF DiskInv
  <2>2. proc' \in [Pids -> Call]
    BY <1>1
  <2> QED
    BY <2>1, <2>2, DiskTypesOf, DiskTypesNext
<1>3. ASSUME NEW q \in Pids, q # p
      PROVE  /\ proc'[q] = proc[q]
             /\ Fits(q, proc[q], dir, data, synced)
             /\ Fits(q, proc[q], dir', data', synced')
  <2>1. proc'[q] = proc[q]
    BY <1>1, <1>3
  <2>2. Fits(q, proc[q], dir, data, synced)
    BY DEF DiskInv, DiskCallsFit
  <2>3. proc[q].at \in Holding =>
           Keeps(proc[q].temp, dir, data, synced, dir', data', synced')
    <3>1. SUFFICES ASSUME proc[q].at \in Holding
                   PROVE  Keeps(proc[q].temp, dir, data, synced, dir', data', synced')
      OBVIOUS
    <3>2. proc[q].temp \in TempNames(q) /\ Alone(dir, proc[q].temp)
      BY <2>2, <3>1 DEF Fits, TempNames
    <3>3. /\ proc[q].temp \in Disk!Names /\ proc[q].temp # Disk!Target
          /\ proc[q].temp \notin TempNames(p)
          /\ \A n \in BackupNumbers : proc[q].temp # Disk!Backup(n)
      BY <1>3, <3>2, NamesApart
    <3>4. proc[p].backup \in BackupNumbers
      BY <1>1 DEF Call
    <3> QED
      BY <3>2, <3>3, <3>4
  <2>4. proc[q].at = "copy" =>
           Keeps(Disk!Backup(proc[q].backup), dir, data, synced, dir', data', synced')
    <3>1. SUFFICES ASSUME proc[q].at = "copy"
                   PROVE  Keeps(Disk!Backup(proc[q].backup), dir, data, synced, dir', data', synced')
      OBVIOUS
    <3>2. Alone(dir, Disk!Backup(proc[q].backup))
      BY <2>2, <3>1 DEF Fits
    <3>3. proc[q].backup \in BackupNumbers /\ proc[p].backup \in BackupNumbers
      BY <1>1 DEF Call
    <3>4. /\ Disk!Backup(proc[q].backup) \in Disk!Names /\ Disk!Backup(proc[q].backup) # Disk!Target
          /\ Disk!Backup(proc[q].backup) \notin TempNames(p)
      BY <3>3, NamesApart
    <3>5. proc[p].at = "copy" => proc[p].backup # proc[q].backup
      BY <1>3, <3>1 DEF DiskInv, CopiesApart
    <3>6. proc[p].at = "copy" => Disk!Backup(proc[q].backup) # Disk!Backup(proc[p].backup)
      BY <3>3, <3>5, NamesApart
    <3> QED
      BY <3>2, <3>4, <3>6
  <2>5. Fits(q, proc[q], dir', data', synced')
    BY <2>2, <2>3, <2>4, FitsStable
  <2> QED
    BY <2>1, <2>2, <2>5
<1>4. DiskCallsFit'
  <2>1. ASSUME NEW q \in Pids PROVE Fits(q, proc'[q], dir', data', synced')
    <3>1. CASE q = p
      BY <3>1, <1>1
    <3>2. CASE q # p
      BY <3>2, <1>3
    <3> QED
      BY <3>1, <3>2
  <2> QED
    BY <2>1 DEF DiskCallsFit
<1>5. CopiesApart'
  <2>1. ASSUME NEW q \in Pids, q # p, c.at = "copy", proc[q].at = "copy"
        PROVE  c.backup # proc[q].backup
    <3>1. dir[Disk!Backup(proc[q].backup)] # 0
      BY <2>1, <1>3 DEF Fits, Alone
    <3> QED
      BY <2>1, <3>1
  <2>2. proc'[p] = c
    BY <1>1
  <2>3. \A q, r \in Pids : q # r /\ proc'[q].at = "copy" /\ proc'[r].at = "copy" =>
           proc'[q].backup # proc'[r].backup
    BY <2>1, <2>2, <1>3 DEF DiskInv, CopiesApart
  <2> QED
    BY <2>3 DEF CopiesApart
<1>6. Kept(dir', data', synced')
  BY DEF Kept
<1>7. Whole(durable, data', synced')
  BY DEF DiskInv, Whole
<1>8. Kept(durable, data', synced')
  <2>1. SUFFICES ASSUME data'[1] = Disk!Damaged, durable[Disk!Target] # 1
                 PROVE  HasBackup(durable, data', synced')
    BY DEF Kept
  <2>2. HasBackup(durable, data, synced)
    BY <2>1 DEF DiskInv, Kept
  <2> QED
    BY <2>2, BackupStable
<1>9. Whole(durable', data', synced') /\ Kept(durable', data', synced')
  BY <1>7, <1>8
<1> QED
  BY <1>2, <1>4, <1>5, <1>6, <1>9 DEF DiskInv

\* A created file is empty, is nobody else's and disturbs no other name.
LEMMA CreatesFits ==
    ASSUME DiskInv, NEW name \in Disk!Names, name # Disk!Target, Disk!Creates(name),
           UNCHANGED <<durable, data, synced>>
    PROVE  /\ dir' \in Directories /\ used' \in 0 .. MaxInodes /\ FilesFit'
           /\ Alone(dir', name) /\ dir'[name] # 1
           /\ dir'[name] \notin synced /\ data[dir'[name]] = Disk!Torn
           /\ \A n \in Disk!Names : n # name => dir'[n] = dir[n]
           /\ \A n \in Disk!Names : Alone(dir, n) => Keeps(n, dir, data, synced, dir', data', synced')
           /\ HasBackup(dir, data, synced) => HasBackup(dir', data', synced')
<1>1. /\ dir \in Directories /\ used \in 0 .. MaxInodes /\ synced \subseteq Disk!Inodes
      /\ data \in Contents
  BY DiskTypesOf DEF DiskInv
<1>2. /\ used < MaxInodes /\ used' = used + 1 /\ dir[name] = 0
      /\ dir' = [dir EXCEPT ![name] = used + 1]
  BY DEF Disk!Creates
<1>3. /\ used # 0 /\ \A n \in Disk!Names : dir[n] <= used /\ durable[n] <= used
      /\ \A i \in Disk!Inodes : i > used => data[i] = Disk!Torn /\ i \notin synced
      /\ data[1] = Disk!Damaged => 1 \in synced
  BY DEF DiskInv, FilesFit
<1>4. used + 1 \in Disk!Inodes /\ used + 1 \in 0 .. MaxInodes /\ used + 1 > used /\ used + 1 # 1
  BY <1>1, <1>2, <1>3, DiskParameters DEF Disk!Inodes
<1>5. dir' \in Directories /\ dir'[name] = used + 1
  BY <1>1, <1>2, <1>4 DEF Directories
<1>6. \A n \in Disk!Names : n # name => dir'[n] = dir[n]
  BY <1>1, <1>2 DEF Directories
<1>7. \A n \in Disk!Names : dir[n] # used + 1 /\ dir[n] \in Nat /\ durable[n] \in Nat
  <2>1. durable \in Directories
    BY DiskTypesOf DEF DiskInv
  <2>2. \A n \in Disk!Names : dir[n] \in 0 .. MaxInodes /\ durable[n] \in 0 .. MaxInodes
    BY <1>1, <2>1 DEF Directories
  <2> QED
    BY <1>1, <1>3, <2>2, DiskParameters
<1>8. FilesFit'
  <2>1. \A n \in Disk!Names : dir'[n] <= used' /\ durable'[n] <= used'
    <3>1. used \in Nat
      BY <1>1, DiskParameters
    <3>2. ASSUME NEW n \in Disk!Names PROVE dir'[n] <= used' /\ durable'[n] <= used'
      <4>1. durable[n] <= used + 1 /\ dir[n] <= used + 1
        BY <1>3, <1>7, <3>1
      <4> QED
        BY <1>2, <1>5, <1>6, <4>1, <3>1
    <3> QED
      BY <3>2
  <2>2. \A i \in Disk!Inodes : i > used' => data'[i] = Disk!Torn /\ i \notin synced'
    BY <1>1, <1>2, <1>3, DiskParameters DEF Disk!Inodes
  <2>3. used' # 0
    BY <1>1, <1>2, DiskParameters
  <2> QED
    BY <1>3, <2>1, <2>2, <2>3 DEF FilesFit
<1>9. Alone(dir', name)
  BY <1>4, <1>5, <1>6, <1>7, <1>1, DiskParameters DEF Alone
<1>10. ASSUME NEW n \in Disk!Names, Alone(dir, n)
       PROVE  Keeps(n, dir, data, synced, dir', data', synced')
  <2>1. n # name /\ dir'[n] = dir[n]
    BY <1>2, <1>6, <1>10 DEF Alone
  <2>2. \A m \in Disk!Names : dir'[m] = dir[n] => dir[m] = dir[n]
    BY <1>5, <1>6, <1>7
  <2> QED
    BY <2>1, <2>2 DEF Keeps
<1>11. HasBackup(dir, data, synced) => HasBackup(dir', data', synced')
  <2>1. SUFFICES ASSUME HasBackup(dir, data, synced)
                 PROVE  HasBackup(dir', data', synced')
    OBVIOUS
  <2>2. \A n \in BackupNumbers : dir[Disk!Backup(n)] # 0 /\ dir[Disk!Backup(n)] \in synced =>
           dir'[Disk!Backup(n)] = dir[Disk!Backup(n)]
    BY <1>2, <1>6, NamesApart
  <2> QED
    BY <2>1, <2>2, BackupStable
<1>12. data[used + 1] = Disk!Torn /\ used + 1 \notin synced
  BY <1>3, <1>4
<1>13. used' \in 0 .. MaxInodes /\ dir'[name] # 1 /\ dir'[name] \notin synced
       /\ data[dir'[name]] = Disk!Torn
  BY <1>2, <1>4, <1>5, <1>12
<1> QED
  BY <1>5, <1>6, <1>8, <1>9, <1>10, <1>11, <1>13

LEMMA CreateTempFits ==
    ASSUME DiskInv, NEW p \in Pids, Disk!CreateTemp(p)
    PROVE  DiskInv'
<1>1. proc \in [Pids -> Call] /\ counter \in [Pids -> Nat] /\ crashes \in 0 .. MaxCrashes
  BY DiskTypesOf DEF DiskInv
<1>2. PICK name : name = Disk!Temp(proc[p].kind, p, Disk!TempNumber(p))
  OBVIOUS
<1>3. name \in TempNames(p) /\ name \in Disk!Names /\ name # Disk!Target
  <2>1. proc[p].kind \in Disk!Kinds /\ Disk!TempNumber(p) \in Disk!Numbers
    BY <1>1 DEF Call, Disk!CreateTemp
  <2>2. name \in TempNames(p)
    BY <1>2, <2>1 DEF Disk!Temp, TempNames
  <2> QED
    BY <2>2, NamesApart
<1>4. counter' \in [Pids -> Nat]
  BY <1>1 DEF Disk!CreateTemp
<1>5. proc[p].at = "create" /\ UNCHANGED <<durable, data, synced, crashes>>
  BY DEF Disk!CreateTemp
<1>6. Fits(p, proc[p], dir, data, synced)
  BY DEF DiskInv, DiskCallsFit
<1>7. CASE Disk!Creates(name) /\ proc' = [proc EXCEPT ![p].at = "fill", ![p].temp = name]
  <2>1. PICK c : c = [proc[p] EXCEPT !.at = "fill", !.temp = name]
    OBVIOUS
  <2>2. proc' = [proc EXCEPT ![p] = c]
    BY <1>1, <1>7, <2>1
  <2>3. /\ c \in Call /\ c.at = "fill" /\ c.temp = name /\ c.value = proc[p].value
        /\ c.kind = proc[p].kind
    BY <1>1, <1>3, <2>1 DEF Call, Disk!Steps
  <2>4. /\ dir' \in Directories /\ used' \in 0 .. MaxInodes /\ FilesFit'
        /\ Alone(dir', name)
        /\ dir'[name] \notin synced /\ data[dir'[name]] = Disk!Torn
        /\ \A n \in Disk!Names : n # name => dir'[n] = dir[n]
        /\ \A n \in Disk!Names : Alone(dir, n) => Keeps(n, dir, data, synced, dir', data', synced')
        /\ HasBackup(dir, data, synced) => HasBackup(dir', data', synced')
    BY <1>3, <1>5, <1>7, CreatesFits
  <2>5. dir'[Disk!Target] = dir[Disk!Target]
    BY <1>3, <2>4, NamesApart
  <2>6. Fits(p, c, dir', data', synced')
    <3>1. /\ c.value \in Values
          /\ c.kind = "write" /\ data'[1] = Disk!Damaged => dir'[Disk!Target] # 1
          /\ c.kind = "recover" => dir'[Disk!Target] # 0
      BY <1>5, <1>6, <2>3, <2>5 DEF Fits
    <3>2. c.temp \in Disk!Kinds \X {p} \X Disk!Numbers /\ Alone(dir', c.temp)
      BY <1>3, <2>3, <2>4 DEF TempNames
    <3>3. data'[dir'[c.temp]] = Disk!Torn /\ dir'[c.temp] \notin synced'
      BY <1>5, <2>3, <2>4
    <3> QED
      BY <2>3, <3>1, <3>2, <3>3 DEF Fits
  <2>7. Whole(dir', data', synced')
    BY <1>5, <2>5 DEF DiskInv, Whole
  <2>8. data'[1] = Disk!Damaged /\ dir'[Disk!Target] # 1 => HasBackup(dir, data, synced)
    BY <1>5, <2>5 DEF DiskInv, Kept
  <2>9. data' \in Contents /\ synced' \subseteq Disk!Inodes
    BY <1>5, DiskTypesOf DEF DiskInv
  <2> QED
    BY <1>4, <1>5, <2>2, <2>3, <2>4, <2>5, <2>6, <2>7, <2>8, <2>9, FilesMove
<1>8. CASE /\ proc' = [proc EXCEPT ![p] =
                 IF proc[p].tries + 1 < Tries
                 THEN [proc[p] EXCEPT !.tries = @ + 1] ELSE Disk!Idle]
           /\ UNCHANGED <<dir, used>>
  <2>1. PICK c : c = IF proc[p].tries + 1 < Tries THEN [proc[p] EXCEPT !.tries = @ + 1]
                     ELSE Disk!Idle
    OBVIOUS
  <2>2. proc' = [proc EXCEPT ![p] = c]
    BY <1>8, <2>1
  <2>3. CASE proc[p].tries + 1 < Tries
    <3>1. proc[p].tries + 1 \in 0 .. Tries
      <4>1. proc[p].tries \in 0 .. Tries
        BY <1>1 DEF Call
      <4> QED
        BY <2>3, <4>1, DiskParameters
    <3>2. /\ c \in Call /\ c.at = "create" /\ c.value = proc[p].value
          /\ c.kind = proc[p].kind
      BY <1>1, <1>5, <2>1, <2>3, <3>1 DEF Call
    <3>3. Fits(p, c, dir, data, synced)
      BY <1>5, <1>6, <3>2 DEF Fits, Holding
    <3> QED
      BY <1>1, <1>4, <1>5, <1>8, <2>2, <3>2, <3>3, CallMoves
  <2>4. CASE ~ (proc[p].tries + 1 < Tries)
    <3>1. c \in Call /\ Fits(p, c, dir, data, synced) /\ c.at # "copy"
      BY <2>1, <2>4, IdleFits DEF Disk!Idle
    <3> QED
      BY <1>1, <1>4, <1>5, <1>8, <2>2, <3>1, CallMoves
  <2> QED
    BY <2>3, <2>4
<1> QED
  BY <1>2, <1>7, <1>8 DEF Disk!CreateTemp

\* A call's temporary is its own.
LEMMA OwnTemp ==
    ASSUME DiskInv, NEW p \in Pids, proc[p].at \in Holding
    PROVE  /\ proc[p].temp \in TempNames(p) /\ proc[p].temp \in Disk!Names
           /\ proc[p].temp # Disk!Target /\ Alone(dir, proc[p].temp)
           /\ dir[proc[p].temp] \in Disk!Inodes
           /\ proc[p].value \in Values
           /\ \A n \in BackupNumbers : proc[p].temp # Disk!Backup(n)
<1>1. Fits(p, proc[p], dir, data, synced)
  BY DEF DiskInv, DiskCallsFit
<1>2. proc[p].temp \in TempNames(p) /\ Alone(dir, proc[p].temp)
  BY <1>1 DEF Fits, TempNames
<1>3. /\ proc[p].temp \in Disk!Names /\ proc[p].temp # Disk!Target
      /\ \A n \in BackupNumbers : proc[p].temp # Disk!Backup(n)
  BY <1>2, NamesApart
<1>4. dir[proc[p].temp] \in Disk!Inodes
  <2>1. dir[proc[p].temp] \in 0 .. MaxInodes /\ dir[proc[p].temp] # 0
    BY <1>2, <1>3, DiskTypesOf DEF DiskInv, Directories, Alone
  <2> QED
    BY <2>1, DiskParameters DEF Disk!Inodes
<1>5. proc[p].value \in Values
  BY <1>1 DEF Fits, Holding
<1> QED
  BY <1>2, <1>3, <1>4, <1>5

\* Bytes change, or reach the disk, in a file that is its owner's alone.
LEMMA BytesFit ==
    ASSUME DiskInv, NEW x \in Disk!Names, x # Disk!Target, Alone(dir, x), dir[x] \in Disk!Inodes,
           NEW v \in Values \cup {Disk!Damaged, Disk!Torn},
           data' = [data EXCEPT ![dir[x]] = v],
           synced' = synced \/ synced' = synced \cup {dir[x]},
           dir[x] \notin synced \/ data[dir[x]] = v,
           dir[x] = 1 => v # Disk!Damaged,
           UNCHANGED <<dir, durable, used>>
    PROVE  /\ data' \in Contents /\ synced' \subseteq Disk!Inodes /\ FilesFit'
           /\ data'[dir[x]] = v
           /\ Whole(dir', data', synced')
           /\ data'[1] = Disk!Damaged => data[1] = Disk!Damaged
           /\ HasBackup(dir, data, synced) => HasBackup(dir', data', synced')
           /\ \A i \in synced : i \in synced' /\ data'[i] = data[i]
           /\ \A n \in Disk!Names : n # x /\ Alone(dir, n) =>
                 Keeps(n, dir, data, synced, dir', data', synced')
<1>1. /\ dir \in Directories /\ data \in Contents /\ synced \subseteq Disk!Inodes
      /\ used \in 0 .. MaxInodes
  BY DiskTypesOf DEF DiskInv
<1>2. 1 \in Disk!Inodes
  BY DiskParameters DEF Disk!Inodes
<1>3. data' \in Contents /\ synced' \subseteq Disk!Inodes
  BY <1>1 DEF Contents
<1>4. /\ data'[dir[x]] = v
      /\ \A i \in Disk!Inodes : i # dir[x] => data'[i] = data[i]
  BY <1>1 DEF Contents
<1>5. \A i \in synced : i \in synced' /\ data'[i] = data[i]
  BY <1>1, <1>4
<1>6. data'[1] = Disk!Damaged => data[1] = Disk!Damaged
  BY <1>2, <1>4
<1>7. FilesFit'
  <2>1. /\ used # 0 /\ \A n \in Disk!Names : dir[n] <= used /\ durable[n] <= used
        /\ \A i \in Disk!Inodes : i > used => data[i] = Disk!Torn /\ i \notin synced
        /\ data[1] = Disk!Damaged => 1 \in synced
    BY DEF DiskInv, FilesFit
  <2>2. \A i \in Disk!Inodes : i > used => i # dir[x]
    <3>1. used \in Nat /\ dir[x] \in Nat /\ dir[x] <= used
      BY <1>1, <2>1, DiskParameters DEF Disk!Inodes
    <3> QED
      BY <3>1 DEF Disk!Inodes
  <2>3. \A i \in Disk!Inodes : i > used => data'[i] = Disk!Torn /\ i \notin synced'
    BY <1>4, <2>1, <2>2
  <2>4. data'[1] = Disk!Damaged => 1 \in synced'
    BY <1>5, <1>6, <2>1
  <2> QED
    BY <2>1, <2>3, <2>4 DEF FilesFit
<1>8. Whole(dir', data', synced')
  <2>1. Whole(dir, data', synced')
    BY <1>5 DEF DiskInv, Whole
  <2> QED
    BY <2>1
<1>9. HasBackup(dir, data, synced) => HasBackup(dir', data', synced')
  BY <1>5 DEF HasBackup
<1>10. ASSUME NEW n \in Disk!Names, n # x, Alone(dir, n)
       PROVE  Keeps(n, dir, data, synced, dir', data', synced')
  <2>1. dir[n] # dir[x] /\ dir[n] \in Disk!Inodes
    <3>1. dir[n] # dir[x] /\ dir[n] # 0
      BY <1>10 DEF Alone
    <3>2. dir[n] \in 0 .. MaxInodes
      BY <1>1 DEF Directories
    <3> QED
      BY <3>1, <3>2, DiskParameters DEF Disk!Inodes
  <2>2. data'[dir[n]] = data[dir[n]] /\ (dir[n] \in synced' <=> dir[n] \in synced)
    BY <1>4, <2>1
  <2> QED
    BY <2>2 DEF Keeps
<1> QED
  BY <1>3, <1>4, <1>5, <1>6, <1>7, <1>8, <1>9, <1>10

LEMMA FillFits ==
    ASSUME DiskInv, NEW p \in Pids, Disk!Fill(p)
    PROVE  DiskInv'
<1>1. proc \in [Pids -> Call] /\ counter \in [Pids -> Nat] /\ used \in 0 .. MaxInodes
  BY DiskTypesOf DEF DiskInv
<1>2. proc[p].at = "fill" /\ proc[p].at \in Holding
  BY DEF Disk!Fill, Holding
<1>3. PICK x : x = proc[p].temp
  OBVIOUS
<1>4. /\ x \in TempNames(p) /\ x \in Disk!Names /\ x # Disk!Target /\ Alone(dir, x)
      /\ dir[x] \in Disk!Inodes /\ proc[p].value \in Values
  BY <1>2, <1>3, OwnTemp
<1>5. Fits(p, proc[p], dir, data, synced)
  BY DEF DiskInv, DiskCallsFit
<1>6. dir[x] \notin synced
  BY <1>2, <1>3, <1>5 DEF Fits
<1>7. /\ data' = [data EXCEPT ![dir[x]] = proc[p].value]
      /\ synced' = synced /\ UNCHANGED <<dir, durable, used, counter, crashes>>
  BY <1>3 DEF Disk!Fill
<1>8. proc[p].value # Disk!Damaged /\ proc[p].value # Disk!Torn
  BY <1>4, DiskParameters
<1>9. /\ data' \in Contents /\ synced' \subseteq Disk!Inodes /\ FilesFit'
      /\ data'[dir[x]] = proc[p].value
      /\ Whole(dir', data', synced')
      /\ data'[1] = Disk!Damaged => data[1] = Disk!Damaged
      /\ HasBackup(dir, data, synced) => HasBackup(dir', data', synced')
      /\ \A i \in synced : i \in synced' /\ data'[i] = data[i]
      /\ \A n \in Disk!Names : n # x /\ Alone(dir, n) =>
            Keeps(n, dir, data, synced, dir', data', synced')
  BY <1>4, <1>6, <1>7, <1>8, BytesFit
<1>10. PICK c : c = [proc[p] EXCEPT !.at = "sync"]
  OBVIOUS
<1>11. /\ c \in Call /\ c.at = "sync" /\ c.value = proc[p].value /\ c.kind = proc[p].kind
       /\ c.temp = x
  BY <1>1, <1>3, <1>10 DEF Call, Disk!Steps
<1>12. proc' = [proc EXCEPT ![p] = c]
  BY <1>1, <1>10 DEF Disk!Fill, Disk!Goes
<1>13. Fits(p, c, dir, data', synced')
  BY <1>2, <1>3, <1>4, <1>5, <1>9, <1>11 DEF Fits, Holding
<1>14. Fits(p, c, dir', data', synced')
  BY <1>7, <1>13
<1>15. data'[1] = Disk!Damaged /\ dir'[Disk!Target] # 1 => HasBackup(dir, data, synced)
  BY <1>7, <1>9 DEF DiskInv, Kept
<1>16. dir' \in Directories /\ used' \in 0 .. MaxInodes
  BY <1>1, <1>7, DiskTypesOf DEF DiskInv
<1> QED
  BY <1>1, <1>4, <1>7, <1>9, <1>11, <1>12, <1>14, <1>15, <1>16, FilesMove

LEMMA SyncFits ==
    ASSUME DiskInv, NEW p \in Pids, Disk!Sync(p)
    PROVE  DiskInv'
<1>1. /\ proc \in [Pids -> Call] /\ counter \in [Pids -> Nat] /\ used \in 0 .. MaxInodes
      /\ data \in Contents
  BY DiskTypesOf DEF DiskInv
<1>2. proc[p].at = "sync" /\ proc[p].at \in Holding
  BY DEF Disk!Sync, Holding
<1>3. PICK x : x = proc[p].temp
  OBVIOUS
<1>4. /\ x \in TempNames(p) /\ x \in Disk!Names /\ x # Disk!Target /\ Alone(dir, x)
      /\ dir[x] \in Disk!Inodes /\ proc[p].value \in Values
  BY <1>2, <1>3, OwnTemp
<1>5. Fits(p, proc[p], dir, data, synced)
  BY DEF DiskInv, DiskCallsFit
<1>6. data[dir[x]] = proc[p].value
  BY <1>2, <1>3, <1>5 DEF Fits
<1>7. /\ data' = data
      /\ synced' = synced \cup {dir[x]} /\ UNCHANGED <<dir, durable, used, counter, crashes>>
  BY <1>3 DEF Disk!Sync
<1>8. proc[p].value # Disk!Damaged /\ proc[p].value # Disk!Torn
  BY <1>4, DiskParameters
<1>9. data' = [data EXCEPT ![dir[x]] = proc[p].value]
  BY <1>1, <1>4, <1>6, <1>7 DEF Contents
<1>10. /\ data' \in Contents /\ synced' \subseteq Disk!Inodes /\ FilesFit'
       /\ data'[dir[x]] = proc[p].value
       /\ Whole(dir', data', synced')
       /\ data'[1] = Disk!Damaged => data[1] = Disk!Damaged
       /\ HasBackup(dir, data, synced) => HasBackup(dir', data', synced')
       /\ \A i \in synced : i \in synced' /\ data'[i] = data[i]
       /\ \A n \in Disk!Names : n # x /\ Alone(dir, n) =>
             Keeps(n, dir, data, synced, dir', data', synced')
  BY <1>4, <1>6, <1>7, <1>8, <1>9, BytesFit
<1>11. PICK s : s = IF proc[p].kind = "recover" THEN "backup" ELSE "rename"
  OBVIOUS
<1>12. PICK c : c = [proc[p] EXCEPT !.at = s]
  OBVIOUS
<1>13. /\ c \in Call /\ c.at = s /\ c.value = proc[p].value /\ c.kind = proc[p].kind
       /\ c.temp = x
  BY <1>1, <1>3, <1>11, <1>12 DEF Call, Disk!Steps
<1>14. proc' = [proc EXCEPT ![p] = c]
  BY <1>1, <1>11, <1>12 DEF Disk!Sync, Disk!Goes
<1>15. data'[1] = Disk!Damaged /\ dir'[Disk!Target] # 1 => HasBackup(dir, data, synced)
  BY <1>7, <1>10 DEF DiskInv, Kept
<1>16. c.kind \in Disk!Kinds
  BY <1>13 DEF Call
<1>17. Fits(p, c, dir', data', synced')
  <2>1. /\ c.value \in Values
        /\ c.kind = "write" /\ data'[1] = Disk!Damaged => dir'[Disk!Target] # 1
        /\ c.kind = "recover" => dir'[Disk!Target] # 0
        /\ c.at \in {"backup", "copy"} => c.kind = "recover"
    BY <1>2, <1>4, <1>5, <1>7, <1>11, <1>13 DEF Fits
  <2>2. c.temp \in Disk!Kinds \X {p} \X Disk!Numbers /\ Alone(dir', c.temp)
    BY <1>4, <1>7, <1>13 DEF TempNames
  <2>3. data'[dir'[c.temp]] = c.value /\ dir'[c.temp] \in synced'
    BY <1>7, <1>10, <1>13
  <2>4. c.at \in {"backup", "rename"}
    BY <1>11, <1>13
  <2>5. c.at = "rename" /\ data'[1] = Disk!Damaged => HasBackup(dir', data', synced')
    BY <1>10, <1>11, <1>13, <1>15, <1>16, <2>1 DEF Disk!Kinds
  <2> QED
    BY <2>1, <2>2, <2>3, <2>4, <2>5 DEF Fits
<1>18. dir' \in Directories /\ used' \in 0 .. MaxInodes /\ c.at # "copy"
  BY <1>1, <1>7, <1>11, <1>13, DiskTypesOf DEF DiskInv
<1> QED
  BY <1>1, <1>4, <1>7, <1>10, <1>13, <1>14, <1>15, <1>17, <1>18, FilesMove

\* A call that has a temporary, at another step of its own: its temporary is as it was.
LEMMA MovesOn ==
    ASSUME NEW p, NEW c, NEW c2, NEW d, NEW dt, NEW sy,
           Fits(p, c, d, dt, sy), c.at \in Holding,
           c2.at \in {"rename", "discard"},
           c2.at = "rename" => c.at \in {"backup", "copy"},
           c2.at = "rename" /\ dt[1] = Disk!Damaged => HasBackup(d, dt, sy),
           c2.value = c.value, c2.kind = c.kind, c2.temp = c.temp
    PROVE  Fits(p, c2, d, dt, sy)
<1>1. c.at # "idle"
  BY DEF Holding
<1>2. c2.at \notin {"idle", "fill", "sync", "backup", "copy"}
  OBVIOUS
<1>3. /\ c2.value \in Values
      /\ c2.kind = "write" /\ dt[1] = Disk!Damaged => d[Disk!Target] # 1
      /\ c2.kind = "recover" => d[Disk!Target] # 0
      /\ c2.temp \in Disk!Kinds \X {p} \X Disk!Numbers /\ Alone(d, c2.temp)
  BY <1>1 DEF Fits
<1>4. c2.at = "rename" => dt[d[c2.temp]] = c2.value /\ d[c2.temp] \in sy
  BY DEF Fits
<1> QED
  BY <1>2, <1>3, <1>4 DEF Fits

LEMMA LinkBackupFits ==
    ASSUME DiskInv, NEW p \in Pids, Disk!LinkBackup(p)
    PROVE  DiskInv'
<1>1. /\ proc \in [Pids -> Call] /\ counter \in [Pids -> Nat] /\ used \in 0 .. MaxInodes
      /\ data \in Contents /\ synced \subseteq Disk!Inodes /\ dir \in Directories
  BY DiskTypesOf DEF DiskInv
<1>2. PICK name : name = Disk!Backup(proc[p].backup)
  OBVIOUS
<1>3. /\ proc[p].at = "backup"
      /\ UNCHANGED <<durable, data, synced, used, counter, crashes>>
  BY DEF Disk!LinkBackup
<1>4. CASE dir[name] # 0 /\ proc' = [proc EXCEPT ![p] = Disk!Taken(p)] /\ UNCHANGED dir
  BY <1>3, <1>4, TakenFits
<1>5. CASE /\ dir[name] = 0 /\ dir' = [dir EXCEPT ![name] = dir[Disk!Target]]
           /\ Disk!Goes(p, "rename")
  <2>1. /\ proc[p].backup \in BackupNumbers /\ name \in Disk!Names /\ name # Disk!Target
        /\ Disk!Target \in Disk!Names
    BY <1>1, <1>2, NamesApart DEF Call
  <2>2. /\ proc[p].temp \in Disk!Names /\ proc[p].temp # Disk!Target /\ Alone(dir, proc[p].temp)
        /\ proc[p].at \in Holding
    BY <1>3, OwnTemp DEF Holding
  <2>3. Fits(p, proc[p], dir, data, synced)
    BY DEF DiskInv, DiskCallsFit
  <2>4. dir[Disk!Target] # 0 /\ dir[Disk!Target] \in 0 .. MaxInodes
    BY <1>1, <1>3, <2>1, <2>3 DEF Fits, Directories
  <2>5. /\ dir' \in Directories /\ dir'[name] = dir[Disk!Target] /\ dir'[Disk!Target] = dir[Disk!Target]
        /\ \A n \in Disk!Names : n # name => dir'[n] = dir[n]
    BY <1>1, <1>5, <2>1, <2>4 DEF Directories
  <2>6. ASSUME NEW n \in Disk!Names, Alone(dir, n), n # Disk!Target
        PROVE  Keeps(n, dir, data, synced, dir', data', synced')
    <3>1. n # name /\ dir'[n] = dir[n]
      BY <1>5, <2>5, <2>6 DEF Alone
    <3>2. dir[Disk!Target] # dir[n]
      BY <2>1, <2>6 DEF Alone
    <3>3. \A m \in Disk!Names : dir'[m] = dir[n] => dir[m] = dir[n]
      BY <2>5, <3>2
    <3> QED
      BY <1>3, <3>1, <3>3 DEF Keeps
  <2>7. HasBackup(dir, data, synced) => HasBackup(dir', data', synced')
    <3>1. \A n \in BackupNumbers : dir[Disk!Backup(n)] # 0 => dir'[Disk!Backup(n)] = dir[Disk!Backup(n)]
      BY <1>5, <2>5, NamesApart
    <3> QED
      BY <1>3, <3>1 DEF HasBackup
  <2>8. data'[1] = Disk!Damaged => HasBackup(dir', data', synced')
    <3>1. CASE dir[Disk!Target] = 1 /\ data[1] = Disk!Damaged
      <4>1. dir'[Disk!Backup(proc[p].backup)] = 1
        BY <1>2, <2>5, <3>1
      <4>2. 1 \in synced
        BY <3>1 DEF DiskInv, FilesFit
      <4> QED
        BY <1>3, <2>1, <3>1, <4>1, <4>2 DEF HasBackup
    <3>2. CASE dir[Disk!Target] # 1 /\ data[1] = Disk!Damaged
      BY <2>7, <3>2 DEF DiskInv, Kept
    <3> QED
      BY <1>3, <3>1, <3>2
  <2>9. PICK c : c = [proc[p] EXCEPT !.at = "rename"]
    OBVIOUS
  <2>10. /\ c \in Call /\ c.at = "rename" /\ c.value = proc[p].value
         /\ c.kind = proc[p].kind /\ c.temp = proc[p].temp
    BY <1>1, <2>9 DEF Call, Disk!Steps
  <2>11. proc' = [proc EXCEPT ![p] = c]
    BY <1>1, <1>5, <2>9 DEF Disk!Goes
  <2>12. Fits(p, proc[p], dir', data', synced')
    <3>1. Keeps(proc[p].temp, dir, data, synced, dir', data', synced')
      BY <2>2, <2>6
    <3>2. data' = data /\ proc[p].at # "copy"
      BY <1>3
    <3> QED
      BY <2>3, <2>5, <2>7, <3>1, <3>2, FitsStable
  <2>13. Fits(p, c, dir', data', synced')
    BY <1>3, <2>2, <2>8, <2>10, <2>12, MovesOn
  <2>14. FilesFit'
    <3>1. \A n \in Disk!Names : dir'[n] <= used
      BY <2>1, <2>5 DEF DiskInv, FilesFit
    <3> QED
      BY <1>3, <3>1 DEF DiskInv, FilesFit
  <2>15. Whole(dir', data', synced')
    BY <1>3, <2>5 DEF DiskInv, Whole
  <2>16. data'[1] = Disk!Damaged /\ dir'[Disk!Target] # 1 => HasBackup(dir, data, synced)
    BY <1>3, <2>5 DEF DiskInv, Kept
  <2>17. /\ data' \in Contents /\ synced' \subseteq Disk!Inodes /\ used' \in 0 .. MaxInodes
         /\ counter' \in [Pids -> Nat]
         /\ \A i \in synced : i \in synced' /\ data'[i] = data[i]
    BY <1>1, <1>3
  <2> QED
    BY <1>3, <2>5, <2>6, <2>7, <2>10, <2>11, <2>13, <2>14, <2>15, <2>16, <2>17, FilesMove
<1> QED
  BY <1>2, <1>4, <1>5 DEF Disk!LinkBackup

LEMMA CopyBackupFits ==
    ASSUME DiskInv, NEW p \in Pids, Disk!CopyBackup(p)
    PROVE  DiskInv'
<1>1. /\ proc \in [Pids -> Call] /\ counter \in [Pids -> Nat]
      /\ data \in Contents /\ synced \subseteq Disk!Inodes /\ dir \in Directories
  BY DiskTypesOf DEF DiskInv
<1>2. PICK name : name = Disk!Backup(proc[p].backup)
  OBVIOUS
<1>3. /\ proc[p].at = "backup"
      /\ UNCHANGED <<durable, data, synced, counter, crashes>>
  BY DEF Disk!CopyBackup
<1>4. CASE dir[name] # 0 /\ proc' = [proc EXCEPT ![p] = Disk!Taken(p)] /\ UNCHANGED <<dir, used>>
  BY <1>3, <1>4, TakenFits
<1>5. CASE /\ Disk!Creates(name)
           /\ proc' = [proc EXCEPT ![p].at = "copy", ![p].copied = data[dir[Disk!Target]]]
  <2>1. /\ proc[p].backup \in BackupNumbers /\ name \in Disk!Names /\ name # Disk!Target
        /\ Disk!Target \in Disk!Names
    BY <1>1, <1>2, NamesApart DEF Call
  <2>2. /\ proc[p].temp \in Disk!Names /\ proc[p].temp # Disk!Target /\ Alone(dir, proc[p].temp)
        /\ proc[p].at \in Holding
    BY <1>3, OwnTemp DEF Holding
  <2>3. Fits(p, proc[p], dir, data, synced)
    BY DEF DiskInv, DiskCallsFit
  <2>4. data[dir[Disk!Target]] \in Values \cup {Disk!Damaged, Disk!Torn}
    <3>1. dir[Disk!Target] # 0 /\ dir[Disk!Target] \in 0 .. MaxInodes
      BY <1>1, <1>3, <2>1, <2>3 DEF Fits, Directories
    <3>2. dir[Disk!Target] \in Disk!Inodes
      BY <3>1, DiskParameters DEF Disk!Inodes
    <3> QED
      BY <1>1, <3>2 DEF Contents
  <2>5. /\ dir' \in Directories /\ used' \in 0 .. MaxInodes /\ FilesFit'
        /\ Alone(dir', name) /\ dir'[name] # 1
        /\ dir'[name] \notin synced /\ data[dir'[name]] = Disk!Torn
        /\ \A n \in Disk!Names : n # name => dir'[n] = dir[n]
        /\ \A n \in Disk!Names : Alone(dir, n) => Keeps(n, dir, data, synced, dir', data', synced')
        /\ HasBackup(dir, data, synced) => HasBackup(dir', data', synced')
    BY <1>3, <1>5, <2>1, CreatesFits
  <2>6. dir'[Disk!Target] = dir[Disk!Target] /\ dir[name] = 0
    BY <1>5, <2>1, <2>5 DEF Disk!Creates
  <2>7. PICK c : c = [proc[p] EXCEPT !.at = "copy", !.copied = data[dir[Disk!Target]]]
    OBVIOUS
  <2>8. /\ c \in Call /\ c.at = "copy" /\ c.value = proc[p].value
        /\ c.kind = proc[p].kind /\ c.temp = proc[p].temp /\ c.backup = proc[p].backup
        /\ c.copied = data[dir[Disk!Target]]
    BY <1>1, <2>4, <2>7 DEF Call, Disk!Steps
  <2>9. proc' = [proc EXCEPT ![p] = c]
    BY <1>1, <1>5, <2>7
  <2>10. Fits(p, proc[p], dir', data', synced')
    <3>1. Keeps(proc[p].temp, dir, data, synced, dir', data', synced')
      BY <2>2, <2>5
    <3>2. data' = data /\ proc[p].at # "copy"
      BY <1>3
    <3> QED
      BY <2>3, <2>5, <2>6, <3>1, <3>2, FitsStable
  <2>11. Fits(p, c, dir', data', synced')
    <3>1. /\ c.value \in Values /\ c.kind = "recover" /\ dir'[Disk!Target] # 0
          /\ c.temp \in Disk!Kinds \X {p} \X Disk!Numbers /\ Alone(dir', c.temp)
          /\ data'[dir'[c.temp]] = c.value /\ dir'[c.temp] \in synced'
      BY <1>3, <2>2, <2>8, <2>10 DEF Fits
    <3>2. /\ Alone(dir', Disk!Backup(c.backup))
          /\ dir'[Disk!Backup(c.backup)] # 1 /\ dir'[Disk!Backup(c.backup)] \notin synced'
          /\ data'[dir'[Disk!Backup(c.backup)]] = Disk!Torn
      BY <1>2, <1>3, <2>5, <2>8
    <3>3. data'[1] = Disk!Damaged /\ dir'[Disk!Target] = 1 => c.copied = Disk!Damaged
      BY <1>3, <2>6, <2>8
    <3> QED
      BY <2>8, <3>1, <3>2, <3>3 DEF Fits
  <2>12. Whole(dir', data', synced')
    BY <1>3, <2>6 DEF DiskInv, Whole
  <2>13. data'[1] = Disk!Damaged /\ dir'[Disk!Target] # 1 => HasBackup(dir, data, synced)
    BY <1>3, <2>6 DEF DiskInv, Kept
  <2>14. /\ data' \in Contents /\ synced' \subseteq Disk!Inodes /\ counter' \in [Pids -> Nat]
         /\ \A i \in synced : i \in synced' /\ data'[i] = data[i]
         /\ dir[Disk!Backup(c.backup)] = 0
    BY <1>1, <1>2, <1>3, <2>6, <2>8
  <2> QED
    BY <1>3, <2>5, <2>6, <2>8, <2>9, <2>11, <2>12, <2>13, <2>14, FilesMove
<1> QED
  BY <1>2, <1>4, <1>5 DEF Disk!CopyBackup

\* Removing a temporary, or a copy that was never synced, loses nothing.
LEMMA RemovalFits ==
    ASSUME DiskInv, NEW x \in Disk!Names, x # Disk!Target,
           \A n \in BackupNumbers : x = Disk!Backup(n) => dir[x] \notin synced,
           dir' = [dir EXCEPT ![x] = 0],
           UNCHANGED <<durable, data, synced, used>>
    PROVE  /\ dir' \in Directories /\ FilesFit' /\ dir'[Disk!Target] = dir[Disk!Target]
           /\ HasBackup(dir, data, synced) => HasBackup(dir', data', synced')
           /\ \A n \in Disk!Names : n # x /\ Alone(dir, n) =>
                 Keeps(n, dir, data, synced, dir', data', synced')
<1>1. dir \in Directories /\ used \in 0 .. MaxInodes
  BY DiskTypesOf DEF DiskInv
<1>2. /\ dir' \in Directories /\ dir'[x] = 0
      /\ \A n \in Disk!Names : n # x => dir'[n] = dir[n]
  <2>1. 0 \in 0 .. MaxInodes
    BY DiskParameters
  <2> QED
    BY <1>1, <2>1 DEF Directories
<1>3. dir'[Disk!Target] = dir[Disk!Target]
  BY <1>2, NamesApart
<1>4. FilesFit'
  <2>1. 0 <= used
    BY <1>1, DiskParameters
  <2>2. \A n \in Disk!Names : dir'[n] <= used
    BY <1>2, <2>1 DEF DiskInv, FilesFit
  <2> QED
    BY <2>2 DEF DiskInv, FilesFit
<1>5. HasBackup(dir, data, synced) => HasBackup(dir', data', synced')
  <2>1. \A n \in BackupNumbers :
            dir[Disk!Backup(n)] \in synced => dir'[Disk!Backup(n)] = dir[Disk!Backup(n)]
    BY <1>2, NamesApart
  <2> QED
    BY <2>1 DEF HasBackup
<1>6. ASSUME NEW n \in Disk!Names, n # x, Alone(dir, n)
      PROVE  Keeps(n, dir, data, synced, dir', data', synced')
  <2>1. dir[n] # 0 /\ dir'[n] = dir[n]
    BY <1>2, <1>6 DEF Alone
  <2>2. \A m \in Disk!Names : dir'[m] = dir[n] => dir[m] = dir[n]
    BY <1>2, <2>1
  <2> QED
    BY <2>1, <2>2 DEF Keeps
<1> QED
  BY <1>2, <1>3, <1>4, <1>5, <1>6

LEMMA CopyEndsFits ==
    ASSUME DiskInv, NEW p \in Pids, Disk!CopyEnds(p)
    PROVE  DiskInv'
<1>1. /\ proc \in [Pids -> Call] /\ counter \in [Pids -> Nat] /\ used \in 0 .. MaxInodes
      /\ data \in Contents /\ synced \subseteq Disk!Inodes /\ dir \in Directories
  BY DiskTypesOf DEF DiskInv
<1>2. PICK name : name = Disk!Backup(proc[p].backup)
  OBVIOUS
<1>3. proc[p].at = "copy" /\ UNCHANGED <<durable, used, counter, crashes>>
  BY DEF Disk!CopyEnds
<1>4. /\ proc[p].backup \in BackupNumbers /\ name \in Disk!Names /\ name # Disk!Target
      /\ Disk!Target \in Disk!Names
  BY <1>1, <1>2, NamesApart DEF Call
<1>5. /\ proc[p].temp \in Disk!Names /\ proc[p].temp # Disk!Target /\ Alone(dir, proc[p].temp)
      /\ proc[p].at \in Holding /\ proc[p].temp # name
  BY <1>2, <1>3, <1>4, OwnTemp DEF Holding
<1>6. Fits(p, proc[p], dir, data, synced)
  BY DEF DiskInv, DiskCallsFit
<1>7. /\ Alone(dir, name) /\ dir[name] # 1 /\ dir[name] \notin synced
      /\ data[dir[name]] = Disk!Torn
      /\ data[1] = Disk!Damaged /\ dir[Disk!Target] = 1 => proc[p].copied = Disk!Damaged
  BY <1>2, <1>3, <1>6 DEF Fits
<1>8. dir[name] \in Disk!Inodes
  <2>1. dir[name] \in 0 .. MaxInodes /\ dir[name] # 0
    BY <1>1, <1>4, <1>7 DEF Directories, Alone
  <2> QED
    BY <2>1, DiskParameters DEF Disk!Inodes
<1>9. CASE /\ data' = [data EXCEPT ![dir[name]] = proc[p].copied]
           /\ synced' = synced \cup {dir[name]}
           /\ Disk!Goes(p, "rename")
           /\ UNCHANGED dir
  <2>1. proc[p].copied \in Values \cup {Disk!Damaged, Disk!Torn}
    BY <1>1 DEF Call
  <2>2. /\ data' \in Contents /\ synced' \subseteq Disk!Inodes /\ FilesFit'
        /\ data'[dir[name]] = proc[p].copied
        /\ Whole(dir', data', synced')
        /\ data'[1] = Disk!Damaged => data[1] = Disk!Damaged
        /\ HasBackup(dir, data, synced) => HasBackup(dir', data', synced')
        /\ \A i \in synced : i \in synced' /\ data'[i] = data[i]
        /\ \A n \in Disk!Names : n # name /\ Alone(dir, n) =>
              Keeps(n, dir, data, synced, dir', data', synced')
    BY <1>3, <1>4, <1>7, <1>8, <1>9, <2>1, BytesFit
  <2>3. PICK c : c = [proc[p] EXCEPT !.at = "rename"]
    OBVIOUS
  <2>4. /\ c \in Call /\ c.at = "rename" /\ c.value = proc[p].value
        /\ c.kind = proc[p].kind /\ c.temp = proc[p].temp
    BY <1>1, <2>3 DEF Call, Disk!Steps
  <2>5. proc' = [proc EXCEPT ![p] = c]
    BY <1>1, <1>9, <2>3 DEF Disk!Goes
  <2>6. data'[1] = Disk!Damaged => HasBackup(dir', data', synced')
    <3>1. CASE dir[Disk!Target] = 1 /\ data[1] = Disk!Damaged
      <4>1. /\ dir'[Disk!Backup(proc[p].backup)] # 0
            /\ data'[dir'[Disk!Backup(proc[p].backup)]] = Disk!Damaged
            /\ dir'[Disk!Backup(proc[p].backup)] \in synced'
        <5>1. dir[name] # 0 /\ data'[dir[name]] = Disk!Damaged /\ dir[name] \in synced'
          BY <1>7, <1>9, <2>2, <3>1 DEF Alone
        <5> QED
          BY <1>2, <1>9, <5>1
      <4> QED
        BY <1>4, <4>1 DEF HasBackup
    <3>2. CASE dir[Disk!Target] # 1 /\ data[1] = Disk!Damaged
      BY <2>2, <3>2 DEF DiskInv, Kept
    <3> QED
      BY <2>2, <3>1, <3>2
  <2>7. Fits(p, c, dir', data', synced')
    <3>1. Keeps(proc[p].temp, dir, data, synced, dir', data', synced')
      BY <1>5, <2>2
    <3>2. /\ c.value \in Values /\ c.kind = "recover" /\ dir[Disk!Target] # 0
          /\ c.temp \in Disk!Kinds \X {p} \X Disk!Numbers /\ Alone(dir, c.temp)
          /\ data[dir[c.temp]] = c.value /\ dir[c.temp] \in synced
      BY <1>3, <1>5, <1>6, <2>4 DEF Fits
    <3>3. dir' = dir
      BY <1>9
    <3>4. data'[dir'[c.temp]] = c.value /\ dir'[c.temp] \in synced' /\ Alone(dir', c.temp)
      BY <2>4, <3>1, <3>2, <3>3 DEF Keeps
    <3> QED
      BY <2>4, <2>6, <3>2, <3>3, <3>4 DEF Fits
  <2>8. data'[1] = Disk!Damaged /\ dir'[Disk!Target] # 1 => HasBackup(dir, data, synced)
    BY <1>9, <2>2 DEF DiskInv, Kept
  <2>9. dir' \in Directories /\ used' \in 0 .. MaxInodes /\ counter' \in [Pids -> Nat]
        /\ dir' = dir
    BY <1>1, <1>3, <1>9
  <2> QED
    BY <1>2, <1>3, <2>2, <2>4, <2>5, <2>7, <2>8, <2>9, FilesMove
<1>10. CASE /\ dir' = [dir EXCEPT ![name] = 0]
            /\ Disk!Goes(p, "discard")
            /\ UNCHANGED <<data, synced>>
  <2>1. /\ dir' \in Directories /\ FilesFit' /\ dir'[Disk!Target] = dir[Disk!Target]
        /\ HasBackup(dir, data, synced) => HasBackup(dir', data', synced')
        /\ \A n \in Disk!Names : n # name /\ Alone(dir, n) =>
              Keeps(n, dir, data, synced, dir', data', synced')
    BY <1>3, <1>4, <1>7, <1>10, RemovalFits
  <2>2. PICK c : c = [proc[p] EXCEPT !.at = "discard"]
    OBVIOUS
  <2>3. /\ c \in Call /\ c.at = "discard" /\ c.value = proc[p].value
        /\ c.kind = proc[p].kind /\ c.temp = proc[p].temp
    BY <1>1, <2>2 DEF Call, Disk!Steps
  <2>4. proc' = [proc EXCEPT ![p] = c]
    BY <1>1, <1>10, <2>2 DEF Disk!Goes
  <2>5. Fits(p, c, dir', data', synced')
    <3>1. Keeps(proc[p].temp, dir, data, synced, dir', data', synced')
      BY <1>5, <2>1
    <3>2. Alone(dir', c.temp)
      BY <1>5, <2>3, <3>1 DEF Keeps, Alone
    <3>3. /\ c.value \in Values /\ c.kind = "recover" /\ dir'[Disk!Target] # 0
          /\ c.temp \in Disk!Kinds \X {p} \X Disk!Numbers
      BY <1>3, <1>5, <1>6, <2>1, <2>3 DEF Fits
    <3> QED
      BY <2>3, <3>2, <3>3 DEF Fits
  <2>6. Whole(dir', data', synced')
    BY <1>10, <2>1 DEF DiskInv, Whole
  <2>7. data'[1] = Disk!Damaged /\ dir'[Disk!Target] # 1 => HasBackup(dir, data, synced)
    BY <1>10, <2>1 DEF DiskInv, Kept
  <2>8. /\ data' \in Contents /\ synced' \subseteq Disk!Inodes /\ used' \in 0 .. MaxInodes
        /\ counter' \in [Pids -> Nat] /\ data' = data
        /\ \A i \in synced : i \in synced' /\ data'[i] = data[i]
    BY <1>1, <1>3, <1>10
  <2> QED
    BY <1>2, <1>3, <2>1, <2>3, <2>4, <2>5, <2>6, <2>7, <2>8, FilesMove
<1> QED
  BY <1>2, <1>9, <1>10 DEF Disk!CopyEnds

LEMMA RenameFits ==
    ASSUME DiskInv, NEW p \in Pids, Disk!Rename(p)
    PROVE  DiskInv'
<1>1. /\ proc \in [Pids -> Call] /\ counter \in [Pids -> Nat] /\ used \in 0 .. MaxInodes
      /\ data \in Contents /\ synced \subseteq Disk!Inodes /\ dir \in Directories
  BY DiskTypesOf DEF DiskInv
<1>2. PICK x : x = proc[p].temp
  OBVIOUS
<1>3. /\ proc[p].at = "rename" /\ proc[p].at \in Holding
      /\ UNCHANGED <<durable, data, synced, used, counter, crashes>>
      /\ dir' = [dir EXCEPT ![Disk!Target] = dir[x], ![x] = 0]
      /\ proc' = [proc EXCEPT ![p] = Disk!Idle]
  BY <1>2 DEF Disk!Rename, Holding, Disk!Ends
<1>4. /\ x \in TempNames(p) /\ x \in Disk!Names /\ x # Disk!Target /\ Alone(dir, x)
      /\ dir[x] \in Disk!Inodes /\ proc[p].value \in Values
      /\ \A n \in BackupNumbers : x # Disk!Backup(n)
  BY <1>2, <1>3, OwnTemp
<1>5. Fits(p, proc[p], dir, data, synced)
  BY DEF DiskInv, DiskCallsFit
<1>6. data[dir[x]] = proc[p].value /\ dir[x] \in synced
  BY <1>2, <1>3, <1>5 DEF Fits
<1>7. data[1] = Disk!Damaged => HasBackup(dir, data, synced)
  BY <1>3, <1>5 DEF Fits
<1>8. data[dir[x]] # Disk!Torn /\ data[dir[x]] # Disk!Damaged /\ dir[x] # 0
  BY <1>4, <1>6, DiskParameters DEF Alone
<1>9. /\ dir' \in Directories /\ dir'[x] = 0 /\ dir'[Disk!Target] = dir[x]
      /\ \A n \in Disk!Names : n # x /\ n # Disk!Target => dir'[n] = dir[n]
  <2>1. 0 \in 0 .. MaxInodes /\ dir[x] \in 0 .. MaxInodes
    BY <1>1, <1>4, DiskParameters DEF Directories
  <2> QED
    BY <1>1, <1>3, <1>4, <2>1, NamesApart DEF Directories
<1>10. HasBackup(dir, data, synced) => HasBackup(dir', data', synced')
  <2>1. \A n \in BackupNumbers : dir'[Disk!Backup(n)] = dir[Disk!Backup(n)]
    BY <1>4, <1>9, NamesApart
  <2>2. data' = data /\ synced' = synced
    BY <1>3
  <2> QED
    BY <2>1, <2>2 DEF HasBackup
<1>11. ASSUME NEW n \in Disk!Names, Alone(dir, n), n # Disk!Target, n \notin TempNames(p)
       PROVE  Keeps(n, dir, data, synced, dir', data', synced')
  <2>1. n # x /\ dir'[n] = dir[n] /\ dir[n] # 0 /\ dir[n] # dir[x]
    BY <1>4, <1>9, <1>11 DEF Alone
  <2>2. \A m \in Disk!Names : dir'[m] = dir[n] => dir[m] = dir[n]
    BY <1>9, <2>1
  <2> QED
    BY <1>3, <2>1, <2>2 DEF Keeps
<1>12. FilesFit'
  <2>1. 0 <= used
    BY <1>1, DiskParameters
  <2>2. \A n \in Disk!Names : dir'[n] <= used
    BY <1>4, <1>9, <2>1 DEF DiskInv, FilesFit
  <2> QED
    BY <1>3, <2>2 DEF DiskInv, FilesFit
<1>13. Whole(dir', data', synced')
  BY <1>3, <1>6, <1>8, <1>9 DEF Whole
<1>14. Disk!Idle \in Call /\ Fits(p, Disk!Idle, dir', data', synced') /\ Disk!Idle.at # "copy"
  BY IdleFits DEF Disk!Idle
<1>15. /\ dir'[Disk!Target] # 0 /\ data'[1] = data[1]
       /\ data'[1] = Disk!Damaged => dir'[Disk!Target] # 1
       /\ data'[1] = Disk!Damaged => HasBackup(dir, data, synced)
  BY <1>3, <1>7, <1>8, <1>9
<1>16. /\ data' \in Contents /\ synced' \subseteq Disk!Inodes /\ used' \in 0 .. MaxInodes
       /\ counter' \in [Pids -> Nat]
       /\ \A i \in synced : i \in synced' /\ data'[i] = data[i]
  BY <1>1, <1>3
<1> QED
  BY <1>3, <1>9, <1>10, <1>11, <1>12, <1>13, <1>14, <1>15, <1>16, FilesMove

LEMMA DiscardFits ==
    ASSUME DiskInv, NEW p \in Pids, Disk!Discard(p)
    PROVE  DiskInv'
<1>1. /\ proc \in [Pids -> Call] /\ counter \in [Pids -> Nat] /\ used \in 0 .. MaxInodes
      /\ data \in Contents /\ synced \subseteq Disk!Inodes /\ crashes \in 0 .. MaxCrashes
  BY DiskTypesOf DEF DiskInv
<1>2. PICK x : x = proc[p].temp
  OBVIOUS
<1>3. /\ proc[p].at = "discard" /\ proc[p].at \in Holding
      /\ UNCHANGED <<durable, data, synced, used, counter, crashes>>
      /\ dir' = dir \/ dir' = [dir EXCEPT ![x] = 0]
      /\ proc' = [proc EXCEPT ![p] = Disk!Idle]
  BY <1>2 DEF Disk!Discard, Holding, Disk!Ends
<1>4. /\ x \in TempNames(p) /\ x \in Disk!Names /\ x # Disk!Target
      /\ \A n \in BackupNumbers : x # Disk!Backup(n)
  BY <1>2, <1>3, OwnTemp
<1>5. CASE dir' = dir
  <2>1. Disk!Idle \in Call /\ Fits(p, Disk!Idle, dir, data, synced) /\ Disk!Idle.at # "copy"
    BY IdleFits DEF Disk!Idle
  <2> QED
    BY <1>1, <1>3, <1>5, <2>1, CallMoves
<1>6. CASE dir' = [dir EXCEPT ![x] = 0]
  <2>1. /\ dir' \in Directories /\ FilesFit' /\ dir'[Disk!Target] = dir[Disk!Target]
        /\ HasBackup(dir, data, synced) => HasBackup(dir', data', synced')
        /\ \A n \in Disk!Names : n # x /\ Alone(dir, n) =>
              Keeps(n, dir, data, synced, dir', data', synced')
    BY <1>3, <1>4, <1>6, RemovalFits
  <2>2. Whole(dir', data', synced')
    BY <1>3, <2>1 DEF DiskInv, Whole
  <2>3. data'[1] = Disk!Damaged /\ dir'[Disk!Target] # 1 => HasBackup(dir, data, synced)
    BY <1>3, <2>1 DEF DiskInv, Kept
  <2>4. /\ data' \in Contents /\ synced' \subseteq Disk!Inodes /\ used' \in 0 .. MaxInodes
        /\ counter' \in [Pids -> Nat] /\ data' = data
        /\ \A i \in synced : i \in synced' /\ data'[i] = data[i]
    BY <1>1, <1>3
  <2>5. Disk!Idle \in Call /\ Fits(p, Disk!Idle, dir', data', synced') /\ Disk!Idle.at # "copy"
    BY IdleFits DEF Disk!Idle
  <2> QED
    BY <1>3, <1>4, <2>1, <2>2, <2>3, <2>4, <2>5, FilesMove
<1> QED
  BY <1>3, <1>5, <1>6

-----------------------------------------------------------------------------
(* The operating system *)

LEMMA FlushFits ==
    ASSUME DiskInv, Disk!Flush
    PROVE  DiskInv'
<1>1. durable' = dir /\ UNCHANGED <<dir, data, synced, used, proc, counter, crashes>>
  BY DEF Disk!Flush
<1>2. Disk!TypeOK'
  BY <1>1, DiskTypesOf, DiskTypesNext DEF DiskInv
<1>3. FilesFit'
  BY <1>1 DEF DiskInv, FilesFit
<1>4. DiskCallsFit' /\ CopiesApart'
  BY <1>1 DEF DiskInv, DiskCallsFit, CopiesApart
<1> QED
  BY <1>1, <1>2, <1>3, <1>4 DEF DiskInv

LEMMA PowerFailsFits ==
    ASSUME DiskInv, Disk!PowerFails
    PROVE  DiskInv'
<1>1. /\ dir \in Directories /\ durable \in Directories /\ data \in Contents
      /\ synced \subseteq Disk!Inodes /\ used \in 0 .. MaxInodes /\ crashes \in 0 .. MaxCrashes
  BY DiskTypesOf DEF DiskInv
<1>2. /\ dir' = durable /\ UNCHANGED <<durable, synced, used>>
      /\ proc' = [p \in Pids |-> Disk!Idle] /\ counter' = [p \in Pids |-> 0]
      /\ crashes < MaxCrashes /\ crashes' = crashes + 1
  BY DEF Disk!PowerFails, Disk!Crash
<1>3. PICK lost \in SUBSET {i \in 1 .. used : i \notin synced} :
         data' = [i \in Disk!Inodes |-> IF i \in lost THEN Disk!Torn ELSE data[i]]
  BY DEF Disk!PowerFails
<1>4. /\ \A i \in synced : data'[i] = data[i]
      /\ \A i \in Disk!Inodes : data'[i] = data[i] \/ data'[i] = Disk!Torn
  BY <1>1, <1>3
<1>5. Disk!TypeOK'
  <2>1. data' \in Contents
    BY <1>1, <1>3 DEF Contents
  <2>2. proc' \in [Pids -> Call] /\ counter' \in [Pids -> Nat]
    BY <1>2, IdleFits
  <2>3. crashes' \in 0 .. MaxCrashes
    BY <1>1, <1>2, DiskParameters
  <2> QED
    BY <1>1, <1>2, <2>1, <2>2, <2>3, DiskTypesNext
<1>6. 1 \in Disk!Inodes /\ Disk!Damaged # Disk!Torn
  BY DiskParameters DEF Disk!Inodes, Disk!Damaged, Disk!Torn
<1>7. data'[1] = Disk!Damaged => data[1] = Disk!Damaged
  BY <1>4, <1>6
<1>8. FilesFit'
  <2>1. /\ used # 0 /\ \A n \in Disk!Names : dir[n] <= used /\ durable[n] <= used
        /\ \A i \in Disk!Inodes : i > used => data[i] = Disk!Torn /\ i \notin synced
        /\ data[1] = Disk!Damaged => 1 \in synced
    BY DEF DiskInv, FilesFit
  <2>2. \A i \in Disk!Inodes : i > used => data'[i] = Disk!Torn
    BY <1>4, <2>1
  <2> QED
    BY <1>2, <1>7, <2>1, <2>2 DEF FilesFit
<1>9. DiskCallsFit' /\ CopiesApart'
  <2>1. \A p \in Pids : proc'[p] = Disk!Idle
    BY <1>2
  <2>2. \A p \in Pids : Fits(p, proc'[p], dir', data', synced')
    BY <2>1, IdleFits
  <2>3. Disk!Idle.at # "copy"
    BY DEF Disk!Idle
  <2> QED
    BY <2>1, <2>2, <2>3 DEF DiskCallsFit, CopiesApart
<1>10. Whole(durable, data', synced)
  BY <1>4 DEF DiskInv, Whole
<1>11. Kept(durable, data', synced)
  <2>1. SUFFICES ASSUME data'[1] = Disk!Damaged, durable[Disk!Target] # 1
                 PROVE  HasBackup(durable, data', synced)
    BY DEF Kept
  <2>2. HasBackup(durable, data, synced)
    BY <1>7, <2>1 DEF DiskInv, Kept
  <2> QED
    BY <1>4, <2>2 DEF HasBackup
<1> QED
  BY <1>2, <1>5, <1>8, <1>9, <1>10, <1>11 DEF DiskInv

\* Every step of a client, of the file system and of the power keeps the invariant.
LEMMA DiskStepFits ==
    ASSUME DiskInv, [Disk!Next]_diskVars
    PROVE  DiskInv'
<1>1. CASE Disk!Flush
  BY <1>1, FlushFits
<1>2. CASE Disk!PowerFails
  BY <1>2, PowerFailsFits
<1>3. ASSUME NEW p \in Pids, Disk!Process(p)
      PROVE  DiskInv'
  <2>1. CASE \E v \in Values : Disk!Begin(p, v)
    BY <2>1, BeginFits
  <2>2. CASE Disk!CreateTemp(p)
    BY <2>2, CreateTempFits
  <2>3. CASE Disk!CreateFails(p) \/ Disk!Kill(p)
    BY <2>3, EndFits
  <2>4. CASE Disk!Fill(p)
    BY <2>4, FillFits
  <2>5. CASE Disk!Sync(p)
    BY <2>5, SyncFits
  <2>6. CASE Disk!StepFails(p)
    BY <2>6, StepFailsFits
  <2>7. CASE Disk!LinkBackup(p)
    BY <2>7, LinkBackupFits
  <2>8. CASE Disk!CopyBackup(p)
    BY <2>8, CopyBackupFits
  <2>9. CASE Disk!CopyEnds(p)
    BY <2>9, CopyEndsFits
  <2>10. CASE Disk!Rename(p)
    BY <2>10, RenameFits
  <2>11. CASE Disk!Discard(p)
    BY <2>11, DiscardFits
  <2> QED
    BY <1>3, <2>1, <2>2, <2>3, <2>4, <2>5, <2>6, <2>7, <2>8, <2>9, <2>10, <2>11 DEF Disk!Process
<1>4. CASE UNCHANGED diskVars
  <2>1. Disk!TypeOK' /\ FilesFit' /\ DiskCallsFit' /\ CopiesApart'
    BY <1>4 DEF diskVars, DiskInv, Disk!TypeOK, FilesFit, DiskCallsFit, CopiesApart
  <2> QED
    BY <1>4, <2>1 DEF diskVars, DiskInv
<1> QED
  BY <1>1, <1>2, <1>3, <1>4 DEF Disk!Next

-----------------------------------------------------------------------------

LEMMA DiskHolds == MCSpec => []DiskInv
<1>1. MCInit => DiskInv
  BY DiskInitFits DEF MCInit
<1>2. DiskInv /\ [MCNext]_<<vars, diskVars, part>> => DiskInv'
  <2>1. [MCNext]_<<vars, diskVars, part>> => [Disk!Next]_diskVars
    BY DEF MCNext
  <2> QED
    BY <2>1, DiskStepFits
<1> QED
  BY <1>1, <1>2, PTL DEF MCSpec

\* "An interrupted write cannot leave a half-written or truncated file"
\* (storage/atomicwrite.rs): whatever the processes, kills and power failures, the target is
\* never cut short.
THEOREM NeverTornHolds == MCSpec => []NeverTorn
<1>1. DiskInv => NeverTorn
  BY DEF DiskInv, Whole, NeverTorn, Disk!NeverTorn
<1> QED
  BY <1>1, DiskHolds, PTL

\* A damaged policy file that was replaced is kept under a backup name
\* (recover_malformed_sts), whatever was interrupted and whoever recovered it too.
THEOREM DamageIsKeptHolds == MCSpec => []DamageIsKept
<1>1. DiskInv => DamageIsKept
  BY DEF DiskInv, Kept, HasBackup, DamageIsKept, Disk!DamageIsKept, BackupNumbers
<1> QED
  BY <1>1, DiskHolds, PTL

=============================================================================
