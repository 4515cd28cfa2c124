------------------------ MODULE ConversationsProofs ------------------------
(***************************************************************************)
(* Proofs about what a channel shows.                                      *)
(***************************************************************************)
EXTENDS Channels, FiniteSetTheorems, SequenceTheorems, TLAPS

(***************************************************************************)
(* Types                                                                   *)
(***************************************************************************)

Commands == [cmd : {"JOIN", "PART", "WHO"}, c : Channels] \cup [cmd : {"NICK"}, n : Nicks]

JoinLines == [line : {"JOIN"}, c : Channels, n : Nicks, account : {"yes", "no"}]
PartLines == [line : {"PART", "KICK"}, c : Channels, n : Nicks]
QuitLines == [line : {"QUIT"}, n : Nicks]
NickLines == [line : {"NICK"}, n : Nicks, to : Nicks]
NameLines == [line : {"353", "366"}, c : Channels, names : SUBSET Nicks]
AwayLines == [line : {"AWAY"}, n : Nicks, away : BOOLEAN]
AccountLines == [line : {"ACCOUNT"}, n : Nicks, account : {"yes", "no"}]

Lines == JoinLines \cup PartLines \cup QuitLines \cup NickLines \cup NameLines
           \cup AwayLines \cup AccountLines

Budget == [channels : SUBSET Channels, nicks : SUBSET Nicks,
           moves : Nat, commands : Nat, drops : Nat, stalls : Nat]

\* The types, those of the two queues included, and two nicks that differ.
Typed ==
    /\ TypeOK
    /\ out \in Seq(Commands) /\ wire \in Seq(Lines)
    /\ budget \in Budget
    /\ IsFiniteSet(autojoin)
    /\ nick["me"] # nick["peer"]

\* What a line of each kind has.
LEMMA LineFacts ==
    ASSUME NEW l \in Lines
    PROVE  /\ l.line \in {"JOIN", "PART", "KICK", "QUIT", "NICK", "353", "366", "AWAY", "ACCOUNT"}
           /\ l.line = "JOIN" => l.c \in Channels /\ l.n \in Nicks /\ l.account \in {"yes", "no"}
           /\ l.line \in {"PART", "KICK"} => l.c \in Channels /\ l.n \in Nicks
           /\ l.line = "QUIT" => l.n \in Nicks
           /\ l.line = "NICK" => l.n \in Nicks /\ l.to \in Nicks
           /\ l.line \in {"353", "366"} => l.c \in Channels /\ l.names \subseteq Nicks
           /\ l.line = "AWAY" => l.n \in Nicks /\ l.away \in BOOLEAN
           /\ l.line = "ACCOUNT" => l.n \in Nicks /\ l.account \in {"yes", "no"}
<1>1. CASE l \in JoinLines
  BY <1>1 DEF JoinLines
<1>2. CASE l \in PartLines
  BY <1>2 DEF PartLines
<1>3. CASE l \in QuitLines
  BY <1>3 DEF QuitLines
<1>4. CASE l \in NickLines
  BY <1>4 DEF NickLines
<1>5. CASE l \in NameLines
  BY <1>5 DEF NameLines
<1>6. CASE l \in AwayLines
  BY <1>6 DEF AwayLines
<1>7. CASE l \in AccountLines
  BY <1>7 DEF AccountLines
<1>. QED  BY <1>1, <1>2, <1>3, <1>4, <1>5, <1>6, <1>7 DEF Lines

\* What a command of each kind has.
LEMMA CommandFacts ==
    ASSUME NEW l \in Commands
    PROVE  /\ l.cmd \in {"JOIN", "PART", "WHO", "NICK"}
           /\ l.cmd # "NICK" => l.c \in Channels
           /\ l.cmd = "NICK" => l.n \in Nicks
BY DEF Commands

\* The lines and commands that are made.
LEMMA LinesMade ==
    ASSUME NEW c \in Channels, NEW n \in Nicks, NEW to \in Nicks
    PROVE  /\ \A a \in {"yes", "no"} : [line |-> "JOIN", c |-> c, n |-> n, account |-> a] \in Lines
           /\ [line |-> "PART", c |-> c, n |-> n] \in Lines
           /\ [line |-> "KICK", c |-> c, n |-> n] \in Lines
           /\ [line |-> "QUIT", n |-> n] \in Lines
           /\ [line |-> "NICK", n |-> n, to |-> to] \in Lines
           /\ \A s \in SUBSET Nicks : /\ [line |-> "353", c |-> c, names |-> s] \in Lines
                                      /\ [line |-> "366", c |-> c, names |-> s] \in Lines
           /\ \A b \in BOOLEAN : [line |-> "AWAY", n |-> n, away |-> b] \in Lines
           /\ \A a \in {"yes", "no"} : [line |-> "ACCOUNT", n |-> n, account |-> a] \in Lines
<1>1. \A a \in {"yes", "no"} : [line |-> "JOIN", c |-> c, n |-> n, account |-> a] \in JoinLines
  BY DEF JoinLines
<1>2. /\ [line |-> "PART", c |-> c, n |-> n] \in PartLines
      /\ [line |-> "KICK", c |-> c, n |-> n] \in PartLines
  BY DEF PartLines
<1>3. [line |-> "QUIT", n |-> n] \in QuitLines
  BY DEF QuitLines
<1>4. [line |-> "NICK", n |-> n, to |-> to] \in NickLines
  BY DEF NickLines
<1>5. \A s \in SUBSET Nicks : /\ [line |-> "353", c |-> c, names |-> s] \in NameLines
                              /\ [line |-> "366", c |-> c, names |-> s] \in NameLines
  BY DEF NameLines
<1>6. \A b \in BOOLEAN : [line |-> "AWAY", n |-> n, away |-> b] \in AwayLines
  BY DEF AwayLines
<1>7. \A a \in {"yes", "no"} : [line |-> "ACCOUNT", n |-> n, account |-> a] \in AccountLines
  BY DEF AccountLines
<1>. QED  BY <1>1, <1>2, <1>3, <1>4, <1>5, <1>6, <1>7 DEF Lines

LEMMA CommandsMade ==
    /\ \A c \in Channels : /\ [cmd |-> "JOIN", c |-> c] \in Commands
                           /\ [cmd |-> "PART", c |-> c] \in Commands
                           /\ [cmd |-> "WHO", c |-> c] \in Commands
    /\ \A n \in Nicks : [cmd |-> "NICK", n |-> n] \in Commands
BY DEF Commands

\* A finite set has an order: every member has a place and every place a member.
LEMMA SomeOrderFacts ==
    ASSUME NEW s, IsFiniteSet(s)
    PROVE  /\ Cardinality(s) \in Nat
           /\ SomeOrder(s) \in [1 .. Cardinality(s) -> s]
           /\ \A x \in s : \E i \in 1 .. Cardinality(s) : SomeOrder(s)[i] = x
<1>1. Cardinality(s) \in Nat /\ ExistsBijection(1 .. Cardinality(s), s)
  BY FS_CardinalityType
<1>2. PICK f \in Bijection(1 .. Cardinality(s), s) : TRUE
  BY <1>1 DEF ExistsBijection
<1>3. f \in [1 .. Cardinality(s) -> s] /\ \A x \in s : \E i \in DOMAIN f : f[i] = x
  BY <1>2 DEF Bijection, Surjection, Injection
<1>4. /\ SomeOrder(s) \in [1 .. Cardinality(s) -> s]
      /\ \A x \in s : \E i \in DOMAIN SomeOrder(s) : SomeOrder(s)[i] = x
  BY <1>3 DEF SomeOrder
<1>. QED  BY <1>1, <1>4

\* Names of a channel, and of one the user enters.
LEMMA NamesFacts ==
    ASSUME Typed, NEW c \in Channels
    PROVE  /\ Names(c) \subseteq Nicks
           /\ IsFiniteSet(in[c]) /\ IsFiniteSet(Names(c) \cup {nick["me"]})
           /\ nick["me"] \in Nicks /\ nick["peer"] \in Nicks
           /\ \A n : n \in Names(c) <=> \/ "me" \in in[c] /\ n = nick["me"]
                                        \/ "peer" \in in[c] /\ n = nick["peer"]
<1>1. in[c] \subseteq Users /\ nick \in [Users -> Nicks] /\ "me" \in Users /\ "peer" \in Users
  BY DEF Typed, TypeOK, Users
<1>2. nick["me"] \in Nicks /\ nick["peer"] \in Nicks
  BY <1>1
<1>3. \A n : n \in Names(c) <=> \/ "me" \in in[c] /\ n = nick["me"]
                                \/ "peer" \in in[c] /\ n = nick["peer"]
  BY <1>1 DEF Names, Users
<1>4. IsFiniteSet({"me", "peer"}) /\ IsFiniteSet({nick["me"], nick["peer"]})
  <2>1. \A x, y : IsFiniteSet({x, y})
    <3>. SUFFICES ASSUME NEW x, NEW y  PROVE IsFiniteSet({x, y})
      OBVIOUS
    <3>1. IsFiniteSet({x})
      BY FS_Singleton
    <3>2. IsFiniteSet({x} \cup {y})
      BY <3>1, FS_AddElement
    <3>3. {x, y} = {x} \cup {y}
      OBVIOUS
    <3>. QED  BY <3>2, <3>3
  <2>. QED  BY <2>1
<1>5. IsFiniteSet(in[c])
  BY <1>1, <1>4, FS_Subset DEF Users
<1>6. Names(c) \cup {nick["me"]} \subseteq {nick["me"], nick["peer"]}
  BY <1>3
<1>7. IsFiniteSet(Names(c) \cup {nick["me"]})
  BY <1>6, <1>4, FS_Subset
<1>. QED  BY <1>2, <1>3, <1>5, <1>7

-----------------------------------------------------------------------------
(***************************************************************************)
(* What each step does                                                     *)
(***************************************************************************)

Facts == [away : BOOLEAN, account : {Unknown, "yes", "no"}]

\* A bound is spent.
LEMMA SpendTyped ==
    ASSUME budget \in Budget,
           \/ Spend("moves") \/ Spend("commands") \/ Spend("drops") \/ Spend("stalls")
    PROVE  budget' \in Budget
BY DEF Spend, Budget

LEMMA HeadTyped ==
    ASSUME Typed, wire # <<>>
    PROVE  Head(wire) \in Lines /\ Tail(wire) \in Seq(Lines)
BY DEF Typed

LEMMA SentTyped ==
    ASSUME Typed, NEW x \in Commands
    PROVE  Append(out, x) \in Seq(Commands)
BY AppendProperties DEF Typed

\* One fact about a nick changes.
WithAccount(f, n, a) == [f EXCEPT ![n].account = a]
WithAway(f, n, a) == [f EXCEPT ![n].away = a]

LEMMA AccountFacts ==
    ASSUME NEW f \in [Nicks -> Facts], NEW n \in Nicks, NEW a \in {"yes", "no"}
    PROVE  /\ WithAccount(f, n, a) \in [Nicks -> Facts]
           /\ \A m \in Nicks : WithAccount(f, n, a)[m].away = f[m].away
BY DEF Facts, WithAccount

LEMMA AwayFacts ==
    ASSUME NEW f \in [Nicks -> Facts], NEW n \in Nicks, NEW a \in BOOLEAN
    PROVE  /\ WithAway(f, n, a) \in [Nicks -> Facts]
           /\ \A m \in Nicks : WithAway(f, n, a)[m].away = IF m = n THEN a ELSE f[m].away
BY DEF Facts, WithAway

\* One channel's list changes.
LEMMA OneList ==
    ASSUME NEW ms \in [Channels -> SUBSET Nicks], NEW c \in Channels, NEW s \in SUBSET Nicks,
           NEW g, g = [ms EXCEPT ![c] = s]
    PROVE  g \in [Channels -> SUBSET Nicks] /\ \A d \in Channels : g[d] = IF d = c THEN s ELSE ms[d]
OBVIOUS

\* What reading a line leaves alone.
Untouched == UNCHANGED <<nick, in, peer, up, wish, dismissed, closed, closedStore>>

LEMMA OwnJoinEffect ==
    ASSUME Typed, ReadOwnJoin, NEW l, l = Head(wire)
    PROVE  /\ up /\ wire # <<>> /\ l \in Lines /\ l.line = "JOIN" /\ l.n = current /\ l.c \in Channels
           /\ wire' = Tail(wire) /\ Untouched /\ UNCHANGED <<current, stalled, budget>>
           /\ autojoin' = autojoin \cup {l.c}
           /\ facts' \in [Nicks -> Facts] /\ \A m \in Nicks : facts'[m].away = facts[m].away
           /\ members' \in [Channels -> SUBSET Nicks]
           /\ \A d \in Channels \ {l.c} : members'[d] = members[d]
           /\ hidden' = IF Ensured(l.c) \/ l.c \in cancelled \/ wish[l.c] = "out" THEN hidden \ {l.c} ELSE hidden \cup {l.c}
           /\ l.c \in cancelled =>
                /\ out' = Append(out, [cmd |-> "PART", c |-> l.c])
                /\ cancelled' = cancelled \ {l.c}
                /\ row' = IF l.c \in closed \/ ~ Ensured(l.c) THEN row \ {l.c} ELSE row \cup {l.c}
                /\ joined' = joined \ {l.c} /\ syncing' = syncing \ {l.c}
                /\ members'[l.c] = {}
           /\ l.c \notin cancelled =>
                /\ UNCHANGED <<out, cancelled, syncing>>
                /\ row' = IF Ensured(l.c) THEN row \cup {l.c} ELSE row
                /\ joined' = IF Ensured(l.c) THEN joined \cup {l.c} ELSE joined
                /\ members'[l.c] = IF Ensured(l.c) THEN members[l.c] \cup {current} ELSE members[l.c]
<1>0. up /\ wire # <<>> /\ l.line = "JOIN" /\ l.n = current
  BY DEF ReadOwnJoin, Line
<1>1. l \in Lines
  BY <1>0, HeadTyped
<1>2. l.c \in Channels /\ l.n \in Nicks /\ l.account \in {"yes", "no"}
  BY <1>0, <1>1, LineFacts
<1>3. /\ wire' = Tail(wire) /\ Untouched /\ UNCHANGED <<current, stalled, budget>>
      /\ autojoin' = autojoin \cup {l.c}
      /\ hidden' = IF Ensured(l.c) \/ l.c \in cancelled \/ wish[l.c] = "out" THEN hidden \ {l.c} ELSE hidden \cup {l.c}
  BY DEF ReadOwnJoin, Read, Untouched, server
<1>4. facts' = WithAccount(facts, current, l.account)
  BY DEF ReadOwnJoin, WithAccount
<1>5. facts \in [Nicks -> Facts] /\ members \in [Channels -> SUBSET Nicks] /\ current \in Nicks
  BY DEF Typed, TypeOK, Facts
<1>6. facts' \in [Nicks -> Facts] /\ \A m \in Nicks : facts'[m].away = facts[m].away
  BY <1>2, <1>4, <1>5, AccountFacts
<1>7. CASE l.c \in cancelled
  <2>1. /\ out' = Append(out, [cmd |-> "PART", c |-> l.c])
        /\ cancelled' = cancelled \ {l.c}
        /\ row' = IF l.c \in closed \/ ~ Ensured(l.c) THEN row \ {l.c} ELSE row \cup {l.c}
        /\ joined' = joined \ {l.c} /\ syncing' = syncing \ {l.c}
        /\ members' = [members EXCEPT ![l.c] = {}]
    BY <1>7 DEF ReadOwnJoin, MarkLeft
  <2>2. {} \in SUBSET Nicks
    OBVIOUS
  <2>3. /\ members' \in [Channels -> SUBSET Nicks]
        /\ \A d \in Channels : members'[d] = IF d = l.c THEN {} ELSE members[d]
    BY <1>2, <1>5, <2>1, <2>2, OneList
  <2>. QED  BY <1>0, <1>1, <1>2, <1>3, <1>6, <1>7, <2>1, <2>3
<1>8. CASE l.c \notin cancelled
  <2>1. /\ UNCHANGED <<out, cancelled, syncing>>
        /\ row' = IF Ensured(l.c) THEN row \cup {l.c} ELSE row
        /\ joined' = IF Ensured(l.c) THEN joined \cup {l.c} ELSE joined
        /\ members' = IF Ensured(l.c) THEN [members EXCEPT ![l.c] = members[l.c] \cup {current}] ELSE members
    BY <1>8 DEF ReadOwnJoin
  <2>2. members[l.c] \cup {current} \in SUBSET Nicks
    BY <1>2, <1>5
  <2>3. Ensured(l.c) =>
          /\ members' \in [Channels -> SUBSET Nicks]
          /\ \A d \in Channels : members'[d] = IF d = l.c THEN members[l.c] \cup {current} ELSE members[d]
    BY <1>2, <1>5, <2>1, <2>2, OneList
  <2>4. ~ Ensured(l.c) => members' = members
    BY <2>1
  <2>5. /\ members' \in [Channels -> SUBSET Nicks]
        /\ \A d \in Channels \ {l.c} : members'[d] = members[d]
        /\ members'[l.c] = IF Ensured(l.c) THEN members[l.c] \cup {current} ELSE members[l.c]
    BY <1>2, <1>5, <2>3, <2>4
  <2>. QED  BY <1>0, <1>1, <1>2, <1>3, <1>6, <1>8, <2>1, <2>5
<1>. QED  BY <1>7, <1>8

LEMMA JoinEffect ==
    ASSUME Typed, ReadJoin, NEW l, l = Head(wire)
    PROVE  /\ up /\ wire # <<>> /\ l \in Lines /\ l.line = "JOIN" /\ l.n # current
           /\ l.c \in Channels /\ l.n \in Nicks
           /\ wire' = Tail(wire) /\ Untouched
           /\ UNCHANGED <<current, stalled, budget, autojoin, hidden, out, cancelled, syncing, joined>>
           /\ facts' \in [Nicks -> Facts] /\ \A m \in Nicks : facts'[m].away = facts[m].away
           /\ members' \in [Channels -> SUBSET Nicks]
           /\ row' = IF Ensured(l.c) THEN row \cup {l.c} ELSE row
           /\ \A d \in Channels : members'[d] = IF d = l.c /\ Ensured(l.c) THEN members[d] \cup {l.n} ELSE members[d]
<1>0. up /\ wire # <<>> /\ l.line = "JOIN" /\ l.n # current
  BY DEF ReadJoin, Line
<1>1. l \in Lines
  BY <1>0, HeadTyped
<1>2. l.c \in Channels /\ l.n \in Nicks /\ l.account \in {"yes", "no"}
  BY <1>0, <1>1, LineFacts
<1>3. /\ wire' = Tail(wire) /\ Untouched
      /\ UNCHANGED <<current, stalled, budget, autojoin, hidden, out, cancelled, syncing, joined>>
      /\ row' = IF Ensured(l.c) THEN row \cup {l.c} ELSE row
  BY DEF ReadJoin, Quietly, Read, Untouched, server, marks
<1>4. /\ facts' = WithAccount(facts, l.n, l.account)
      /\ members' = IF Ensured(l.c) THEN [members EXCEPT ![l.c] = members[l.c] \cup {l.n}] ELSE members
  BY DEF ReadJoin, WithAccount
<1>5. facts \in [Nicks -> Facts] /\ members \in [Channels -> SUBSET Nicks] /\ current \in Nicks
  BY DEF Typed, TypeOK, Facts
<1>6. facts' \in [Nicks -> Facts] /\ \A m \in Nicks : facts'[m].away = facts[m].away
  BY <1>2, <1>4, <1>5, AccountFacts
<1>7. members[l.c] \cup {l.n} \in SUBSET Nicks
  BY <1>2, <1>5
<1>8. Ensured(l.c) =>
        /\ members' \in [Channels -> SUBSET Nicks]
        /\ \A d \in Channels : members'[d] = IF d = l.c THEN members[l.c] \cup {l.n} ELSE members[d]
  BY <1>2, <1>5, <1>4, <1>7, OneList
<1>9. ~ Ensured(l.c) => members' = members
  BY <1>4
<1>. QED  BY <1>0, <1>1, <1>2, <1>3, <1>5, <1>6, <1>8, <1>9

LEMMA ForgottenFacts ==
    ASSUME Typed, NEW ms, NEW gone
    PROVE  /\ Forgotten(ms, gone) \in [Nicks -> Facts]
           /\ \A m \in Nicks : m \in Visible(ms) \/ m \notin gone => Forgotten(ms, gone)[m] = facts[m]
           /\ \A m \in Nicks : Forgotten(ms, gone)[m].away => facts[m].away
BY DEF Forgotten, Nothing, Typed, TypeOK, Facts

LEMMA DepartureEffect ==
    ASSUME Typed, ReadDeparture, NEW l, l = Head(wire)
    PROVE  /\ up /\ wire # <<>> /\ l \in Lines /\ l.line \in {"PART", "KICK"}
           /\ l.c \in Channels /\ l.n \in Nicks
           /\ wire' = Tail(wire) /\ Untouched
           /\ UNCHANGED <<current, stalled, budget, hidden, out, cancelled, row>>
           /\ autojoin' = IF l.n = current THEN autojoin \ {l.c} ELSE autojoin
           /\ facts' \in [Nicks -> Facts]
           /\ \A m \in Nicks : facts'[m].away => facts[m].away
           /\ \A m \in Nicks, d \in Channels : m \in members'[d] => facts'[m] = facts[m]
           /\ members' \in [Channels -> SUBSET Nicks]
           /\ \A d \in Channels \ {l.c} : members'[d] = members[d]
           /\ l.c \in row => members'[l.c] = IF l.n = current THEN {} ELSE members[l.c] \ {l.n}
           /\ l.c \notin row => members'[l.c] = members[l.c]
           /\ joined' = IF l.c \in row /\ l.n = current THEN joined \ {l.c} ELSE joined
           /\ syncing' = IF l.c \in row /\ l.n = current THEN syncing \ {l.c} ELSE syncing
<1>0. up /\ wire # <<>> /\ l.line \in {"PART", "KICK"}
  BY DEF ReadDeparture, Line
<1>1. l \in Lines
  BY <1>0, HeadTyped
<1>2. l.c \in Channels /\ l.n \in Nicks
  BY <1>0, <1>1, LineFacts
<1>3. /\ wire' = Tail(wire) /\ Untouched
      /\ UNCHANGED <<current, stalled, budget, hidden, out, cancelled, row>>
      /\ autojoin' = IF l.n = current THEN autojoin \ {l.c} ELSE autojoin
      /\ Departs(l.c, l.n)
  BY DEF ReadDeparture, Quietly, Read, Untouched, server
<1>5. facts \in [Nicks -> Facts] /\ members \in [Channels -> SUBSET Nicks] /\ current \in Nicks
      /\ joined \subseteq row /\ syncing \subseteq row
  BY DEF Typed, TypeOK, Facts
<1>6. CASE l.c \notin row
  <2>1. UNCHANGED <<members, facts, joined, syncing>>
    BY <1>3, <1>6 DEF Departs
  <2>. QED  BY <1>0, <1>1, <1>2, <1>3, <1>5, <1>6, <2>1
<1>7. CASE l.c \in row
  <2>1. PICK s : s = members[l.c] \ Leaving(l.c, l.n)
    OBVIOUS
  <2>2. /\ members' = [members EXCEPT ![l.c] = s]
        /\ facts' = Forgotten(members', Leaving(l.c, l.n))
        /\ joined' = IF l.n = current THEN joined \ {l.c} ELSE joined
        /\ syncing' = IF l.n = current THEN syncing \ {l.c} ELSE syncing
    BY <1>3, <1>7, <2>1 DEF Departs
  <2>3. s = IF l.n = current THEN {} ELSE members[l.c] \ {l.n}
    BY <2>1 DEF Leaving
  <2>4. s \in SUBSET Nicks
    BY <1>2, <1>5, <2>3
  <2>5. /\ members' \in [Channels -> SUBSET Nicks]
        /\ \A d \in Channels : members'[d] = IF d = l.c THEN s ELSE members[d]
    BY <1>2, <1>5, <2>2, <2>4, OneList
  <2>6. \A m \in Nicks, d \in Channels : m \in members'[d] => m \in Visible(members')
    BY DEF Visible
  <2>7. /\ facts' \in [Nicks -> Facts]
        /\ \A m \in Nicks : m \in Visible(members') => facts'[m] = facts[m]
        /\ \A m \in Nicks : facts'[m].away => facts[m].away
    BY <2>2, ForgottenFacts
  <2>8. \A m \in Nicks, d \in Channels : m \in members'[d] => facts'[m] = facts[m]
    BY <2>6, <2>7
  <2>. QED  BY <1>0, <1>1, <1>2, <1>3, <1>7, <2>2, <2>3, <2>5, <2>7, <2>8
<1>. QED  BY <1>6, <1>7

LEMMA QuitEffect ==
    ASSUME Typed, ReadQuit, NEW l, l = Head(wire)
    PROVE  /\ up /\ wire # <<>> /\ l \in Lines /\ l.line = "QUIT" /\ l.n \in Nicks
           /\ wire' = Tail(wire) /\ Untouched
           /\ UNCHANGED <<current, stalled, budget, hidden, out, cancelled, row, autojoin, joined, syncing>>
           /\ facts' \in [Nicks -> Facts]
           /\ \A m \in Nicks : facts'[m].away => facts[m].away
           /\ \A m \in Nicks : m # l.n => facts'[m] = facts[m]
           /\ members' \in [Channels -> SUBSET Nicks]
           /\ \A d \in Channels : members'[d] = members[d] \ {l.n}
<1>0. up /\ wire # <<>> /\ l.line = "QUIT"
  BY DEF ReadQuit, Line
<1>1. l \in Lines
  BY <1>0, HeadTyped
<1>2. l.n \in Nicks
  BY <1>0, <1>1, LineFacts
<1>3. /\ wire' = Tail(wire) /\ Untouched
      /\ UNCHANGED <<current, stalled, budget, hidden, out, cancelled, row, autojoin, joined, syncing>>
      /\ facts' = Forgotten(members', {l.n})
      /\ members' = [c \in Channels |-> members[c] \ {l.n}]
  BY DEF ReadQuit, Quietly, Read, Untouched, server, marks
<1>4. members \in [Channels -> SUBSET Nicks]
  BY DEF Typed, TypeOK
<1>5. members' \in [Channels -> SUBSET Nicks] /\ \A d \in Channels : members'[d] = members[d] \ {l.n}
  BY <1>3, <1>4
<1>6. /\ facts' \in [Nicks -> Facts]
      /\ \A m \in Nicks : m \notin {l.n} => facts'[m] = facts[m]
      /\ \A m \in Nicks : facts'[m].away => facts[m].away
  BY <1>3, ForgottenFacts
<1>7. \A m \in Nicks : m # l.n => facts'[m] = facts[m]
  BY <1>6
<1>. QED  BY <1>0, <1>1, <1>2, <1>3, <1>5, <1>6, <1>7

\* A nick in a list of nicks is another one now.
Renamed(s, from, to) == IF from \in s THEN (s \ {from}) \cup {to} ELSE s

LEMMA RekeyedFacts ==
    ASSUME Typed, NEW from \in Nicks, NEW to \in Nicks
    PROVE  /\ Rekeyed(from, to) \in [Nicks -> Facts]
           /\ from # to => Rekeyed(from, to)[to].away = facts[from].away
           /\ \A m \in Nicks \ {from, to} : Rekeyed(from, to)[m] = facts[m]
           /\ from # to => ~ Rekeyed(from, to)[from].away
BY DEF Rekeyed, Nothing, Typed, TypeOK, Facts

LEMMA NickEffect ==
    ASSUME Typed, ReadNick, NEW l, l = Head(wire)
    PROVE  /\ up /\ wire # <<>> /\ l \in Lines /\ l.line = "NICK" /\ l.n \in Nicks /\ l.to \in Nicks
           /\ wire' = Tail(wire) /\ Untouched
           /\ UNCHANGED <<stalled, budget, hidden, out, cancelled, row, autojoin, joined, syncing>>
           /\ current' = IF l.n = current THEN l.to ELSE current
           /\ facts' \in [Nicks -> Facts]
           /\ l.n # l.to => facts'[l.to].away = facts[l.n].away
           /\ \A m \in Nicks \ {l.n, l.to} : facts'[m] = facts[m]
           /\ members' \in [Channels -> SUBSET Nicks]
           /\ \A d \in Channels : members'[d] = Renamed(members[d], l.n, l.to)
<1>0. up /\ wire # <<>> /\ l.line = "NICK"
  BY DEF ReadNick, Line
<1>1. l \in Lines
  BY <1>0, HeadTyped
<1>2. l.n \in Nicks /\ l.to \in Nicks
  BY <1>0, <1>1, LineFacts
<1>3. /\ wire' = Tail(wire) /\ Untouched
      /\ UNCHANGED <<stalled, budget, hidden, out, cancelled, row, autojoin, joined, syncing>>
      /\ current' = IF l.n = current THEN l.to ELSE current
      /\ facts' = Rekeyed(l.n, l.to)
  BY DEF ReadNick, Quietly, Read, Untouched, server, marks
<1>4. members' = [c \in Channels |-> Renamed(members[c], l.n, l.to)]
  BY DEF ReadNick, Renamed
<1>5. members \in [Channels -> SUBSET Nicks]
  BY DEF Typed, TypeOK
<1>6. \A d \in Channels : Renamed(members[d], l.n, l.to) \in SUBSET Nicks
  BY <1>2, <1>5 DEF Renamed
<1>7. members' \in [Channels -> SUBSET Nicks] /\ \A d \in Channels : members'[d] = Renamed(members[d], l.n, l.to)
  BY <1>4, <1>6
<1>8. /\ facts' \in [Nicks -> Facts]
      /\ l.n # l.to => facts'[l.to].away = facts[l.n].away
      /\ \A m \in Nicks \ {l.n, l.to} : facts'[m] = facts[m]
  BY <1>2, <1>3, RekeyedFacts
<1>. QED  BY <1>0, <1>1, <1>2, <1>3, <1>7, <1>8

LEMMA PresenceEffect ==
    ASSUME Typed, ReadPresence, NEW l, l = Head(wire)
    PROVE  /\ up /\ wire # <<>> /\ l \in Lines /\ l.line \in {"AWAY", "ACCOUNT"} /\ l.n \in Nicks
           /\ wire' = Tail(wire) /\ Untouched
           /\ UNCHANGED <<stalled, budget, hidden, out, cancelled, row, autojoin, joined, syncing, current, members>>
           /\ facts' \in [Nicks -> Facts]
           /\ l.line = "AWAY" => \A m \in Nicks : facts'[m].away = IF m = l.n THEN l.away ELSE facts[m].away
           /\ l.line = "ACCOUNT" => \A m \in Nicks : facts'[m].away = facts[m].away
<1>0. up /\ wire # <<>> /\ l.line \in {"AWAY", "ACCOUNT"}
  BY DEF ReadPresence, Line
<1>1. l \in Lines
  BY <1>0, HeadTyped
<1>2. /\ l.n \in Nicks
      /\ l.line = "AWAY" => l.away \in BOOLEAN
      /\ l.line = "ACCOUNT" => l.account \in {"yes", "no"}
  BY <1>0, <1>1, LineFacts
<1>3. /\ wire' = Tail(wire) /\ Untouched
      /\ UNCHANGED <<stalled, budget, hidden, out, cancelled, row, autojoin, joined, syncing, current, members>>
  BY DEF ReadPresence, Quietly, Read, Untouched, server, marks, rows
<1>4. facts \in [Nicks -> Facts]
  BY DEF Typed, TypeOK, Facts
<1>5. /\ l.line = "AWAY" => facts' = WithAway(facts, l.n, l.away)
      /\ l.line = "ACCOUNT" => facts' = WithAccount(facts, l.n, l.account)
  BY DEF ReadPresence, Line, WithAway, WithAccount
<1>6. CASE l.line = "AWAY"
  <2>1. l.away \in BOOLEAN /\ facts' = WithAway(facts, l.n, l.away)
    BY <1>2, <1>5, <1>6
  <2>2. facts' \in [Nicks -> Facts] /\ \A m \in Nicks : facts'[m].away = IF m = l.n THEN l.away ELSE facts[m].away
    BY <1>2, <1>4, <2>1, AwayFacts
  <2>. QED  BY <1>0, <1>1, <1>2, <1>3, <1>6, <2>2
<1>7. CASE l.line = "ACCOUNT"
  <2>1. l.account \in {"yes", "no"} /\ facts' = WithAccount(facts, l.n, l.account)
    BY <1>2, <1>5, <1>7
  <2>2. facts' \in [Nicks -> Facts] /\ \A m \in Nicks : facts'[m].away = facts[m].away
    BY <1>2, <1>4, <2>1, AccountFacts
  <2>. QED  BY <1>0, <1>1, <1>2, <1>3, <1>7, <2>2
<1>. QED  BY <1>0, <1>6, <1>7

LEMMA NamesEffect ==
    ASSUME Typed, NEW late \in BOOLEAN, ReadNames(late), NEW l, l = Head(wire)
    PROVE  /\ up /\ wire # <<>> /\ l \in Lines /\ l.line \in {"353", "366"}
           /\ l.c \in Channels /\ l.names \subseteq Nicks
           /\ wire' = Tail(wire) /\ Untouched
           /\ UNCHANGED <<hidden, cancelled, autojoin, joined, current, facts>>
           /\ budget' \in Budget
           /\ out' = IF l.line = "366" THEN Append(out, [cmd |-> "WHO", c |-> l.c]) ELSE out
           /\ stalled' = IF late THEN stalled \cup {l.c} ELSE stalled
           /\ members' \in [Channels -> SUBSET Nicks]
           /\ row' = IF Ensured(l.c) THEN row \cup {l.c} ELSE row
           /\ \A d \in Channels \ {l.c} : members'[d] = members[d] /\ (d \in syncing' <=> d \in syncing)
           /\ members'[l.c] = IF Ensured(l.c) THEN Synced(l.c) \cup l.names ELSE members[l.c]
           /\ Ensured(l.c) => (l.c \in syncing' <=> ~ (l.line = "366" \/ late))
           /\ syncing' \subseteq row'
<1>0. up /\ wire # <<>> /\ l.line \in {"353", "366"}
  BY DEF ReadNames, Line
<1>1. l \in Lines
  BY <1>0, HeadTyped
<1>2. l.c \in Channels /\ l.names \subseteq Nicks
  BY <1>0, <1>1, LineFacts
<1>3. /\ wire' = Tail(wire) /\ Untouched
      /\ UNCHANGED <<hidden, cancelled, autojoin, joined, current, facts>>
      /\ out' = IF l.line = "366" THEN Append(out, [cmd |-> "WHO", c |-> l.c]) ELSE out
      /\ stalled' = IF late THEN stalled \cup {l.c} ELSE stalled
      /\ row' = IF Ensured(l.c) THEN row \cup {l.c} ELSE row
  BY DEF ReadNames, Read, Untouched, server, marks
<1>4. budget' \in Budget
  BY SpendTyped DEF ReadNames, Typed
<1>5. members \in [Channels -> SUBSET Nicks] /\ syncing \subseteq row
  BY DEF Typed, TypeOK
<1>6. Synced(l.c) \cup l.names \in SUBSET Nicks
  BY <1>2, <1>5 DEF Synced
<1>7. CASE Ensured(l.c)
  <2>1. /\ members' = [members EXCEPT ![l.c] = Synced(l.c) \cup l.names]
        /\ syncing' = IF l.line = "366" \/ late THEN syncing \ {l.c} ELSE syncing \cup {l.c}
    BY <1>7 DEF ReadNames
  <2>2. /\ members' \in [Channels -> SUBSET Nicks]
        /\ \A d \in Channels : members'[d] = IF d = l.c THEN Synced(l.c) \cup l.names ELSE members[d]
    BY <1>2, <1>5, <1>6, <2>1, OneList
  <2>3. /\ \A d \in Channels \ {l.c} : d \in syncing' <=> d \in syncing
        /\ l.c \in syncing' <=> ~ (l.line = "366" \/ late)
        /\ syncing' \subseteq row'
    BY <1>3, <1>5, <1>7, <2>1
  <2>. QED  BY <1>0, <1>1, <1>2, <1>3, <1>4, <1>7, <2>2, <2>3
<1>8. CASE ~ Ensured(l.c)
  <2>1. UNCHANGED <<row, members, syncing>>
    BY <1>8 DEF ReadNames
  <2>. QED  BY <1>0, <1>1, <1>2, <1>3, <1>4, <1>5, <1>8, <2>1
<1>. QED  BY <1>7, <1>8

LEMMA UserJoinEffect ==
    ASSUME Typed, NEW c \in Channels, Join(c)
    PROVE  /\ up /\ budget' \in Budget /\ out' = Append(out, [cmd |-> "JOIN", c |-> c])
           /\ cancelled' = cancelled \ {c} /\ closed' = closed \ {c} /\ closedStore' = closedStore \ {c}
           /\ row' = row \cup {c} /\ dismissed' = dismissed \ {c}
           /\ wish' \in [Channels -> {"in", "out", "any"}]
           /\ \A d \in Channels : wish'[d] = IF d = c THEN "in" ELSE wish[d]
           /\ UNCHANGED <<joined, syncing, members, facts, autojoin, current, wire, nick, in, peer, up,
                          stalled, hidden>>
<1>1. budget' \in Budget
  BY SpendTyped DEF Join, Typed
<1>2. /\ wish' \in [Channels -> {"in", "out", "any"}]
      /\ \A d \in Channels : wish'[d] = IF d = c THEN "in" ELSE wish[d]
  BY DEF Join, Typed, TypeOK
<1>. QED  BY <1>1, <1>2 DEF Join, server

LEMMA UserPartEffect ==
    ASSUME Typed, NEW c \in Channels, Part(c)
    PROVE  /\ up /\ budget' \in Budget
           /\ wish' \in [Channels -> {"in", "out", "any"}]
           /\ \A d \in Channels : wish'[d] = IF d = c THEN "out" ELSE wish[d]
           /\ UNCHANGED <<row, facts, closed, closedStore, autojoin, current, wire, nick, in, peer, up,
                          dismissed, stalled, hidden>>
           /\ c \in row \ joined =>
                /\ cancelled' = cancelled \cup {c} /\ UNCHANGED <<out, joined, syncing, members>>
           /\ c \notin row \ joined =>
                /\ out' = Append(out, [cmd |-> "PART", c |-> c]) /\ cancelled' = cancelled
                /\ joined' = joined \ {c} /\ syncing' \subseteq syncing
                /\ members' \in [Channels -> SUBSET Nicks]
                /\ \A d \in Channels \ {c} : members'[d] = members[d] /\ (d \in syncing' <=> d \in syncing)
                /\ members'[c] \subseteq members[c]
<1>1. budget' \in Budget
  BY SpendTyped DEF Part, Typed
<1>2. /\ wish' \in [Channels -> {"in", "out", "any"}]
      /\ \A d \in Channels : wish'[d] = IF d = c THEN "out" ELSE wish[d]
  BY DEF Part, Typed, TypeOK
<1>3. /\ up
      /\ UNCHANGED <<row, facts, closed, closedStore, autojoin, current, wire, nick, in, peer, up,
                     dismissed, stalled, hidden>>
  BY DEF Part, server
<1>4. members \in [Channels -> SUBSET Nicks] /\ joined \subseteq row /\ syncing \subseteq row
  BY DEF Typed, TypeOK
<1>5. CASE c \in row \ joined
  <2>1. cancelled' = cancelled \cup {c} /\ UNCHANGED <<out, joined, syncing, members>>
    BY <1>5 DEF Part, Cancels
  <2>. QED  BY <1>1, <1>2, <1>3, <1>5, <2>1
<1>6. CASE c \in joined
  <2>0. c \in row
    BY <1>4, <1>6
  <2>1. /\ out' = Append(out, [cmd |-> "PART", c |-> c]) /\ cancelled' = cancelled
        /\ joined' = joined \ {c} /\ syncing' = syncing \ {c}
        /\ members' = [members EXCEPT ![c] = {}]
    BY <1>6, <2>0 DEF Part, MarkLeft
  <2>2. {} \in SUBSET Nicks
    OBVIOUS
  <2>3. /\ members' \in [Channels -> SUBSET Nicks]
        /\ \A d \in Channels : members'[d] = IF d = c THEN {} ELSE members[d]
    BY <1>4, <2>1, <2>2, OneList
  <2>. QED  BY <1>1, <1>2, <1>3, <1>6, <2>1, <2>3
<1>7. CASE c \notin row
  <2>1. /\ out' = Append(out, [cmd |-> "PART", c |-> c]) /\ cancelled' = cancelled
        /\ UNCHANGED <<joined, syncing, members>>
    BY <1>7 DEF Part
  <2>2. c \notin joined
    BY <1>4, <1>7
  <2>. QED  BY <1>1, <1>2, <1>3, <1>4, <1>7, <2>1, <2>2
<1>. QED  BY <1>5, <1>6, <1>7

LEMMA UserCloseEffect ==
    ASSUME Typed, NEW c \in Channels, Close(c)
    PROVE  /\ c \in row /\ c \notin joined /\ budget' \in Budget
           /\ cancelled' = cancelled \cup {c}
           /\ closed' = closed \cup {c} /\ closedStore' = closedStore \cup {c}
           /\ row' = row \ {c} /\ dismissed' = dismissed \cup {c}
           /\ syncing' = syncing \ {c}
           /\ members' \in [Channels -> SUBSET Nicks]
           /\ \A d \in Channels : members'[d] = IF d = c THEN {} ELSE members[d]
           /\ wish' \in [Channels -> {"in", "out", "any"}]
           /\ \A d \in Channels : wish'[d] = IF d = c THEN "out" ELSE wish[d]
           /\ UNCHANGED <<joined, facts, autojoin, current, out, wire, nick, in, peer, up, stalled, hidden>>
<1>1. budget' \in Budget
  BY SpendTyped DEF Close, Typed
<1>2. /\ wish' \in [Channels -> {"in", "out", "any"}]
      /\ \A d \in Channels : wish'[d] = IF d = c THEN "out" ELSE wish[d]
  BY DEF Close, Typed, TypeOK
<1>3. members \in [Channels -> SUBSET Nicks] /\ members' = [members EXCEPT ![c] = {}]
  BY DEF Typed, TypeOK, Close
<1>4. {} \in SUBSET Nicks
  OBVIOUS
<1>5. /\ members' \in [Channels -> SUBSET Nicks]
      /\ \A d \in Channels : members'[d] = IF d = c THEN {} ELSE members[d]
  BY <1>3, <1>4, OneList
<1>. QED  BY <1>1, <1>2, <1>5 DEF Close, Closable, CancelsClosed, NotesClosed, server

-----------------------------------------------------------------------------
LEMMA TypedRead ==
    ASSUME Typed, \/ ReadOwnJoin \/ ReadJoin \/ ReadDeparture \/ ReadQuit \/ ReadNick \/ ReadPresence
                  \/ \E late \in BOOLEAN : ReadNames(late)
    PROVE  Typed'
<1>. DEFINE l == Head(wire)
<1>0. wire # <<>>
  BY DEF ReadOwnJoin, ReadJoin, ReadDeparture, ReadQuit, ReadNick, ReadPresence, ReadNames, Line
<1>1. Tail(wire) \in Seq(Lines)
  BY <1>0, HeadTyped
<1>2. PICK k : k = l
  OBVIOUS
<1>. HIDE DEF l
<1>3. CASE ReadOwnJoin
  <2>1. /\ k.c \in Channels /\ wire' = Tail(wire) /\ Untouched /\ UNCHANGED <<current, stalled, budget>>
        /\ autojoin' = autojoin \cup {k.c} /\ facts' \in [Nicks -> Facts]
        /\ members' \in [Channels -> SUBSET Nicks]
        /\ hidden' \subseteq hidden \cup {k.c}
    BY <1>2, <1>3, OwnJoinEffect DEF l
  <2>a. /\ k.c \in cancelled =>
             /\ out' = Append(out, [cmd |-> "PART", c |-> k.c])
             /\ cancelled' = cancelled \ {k.c}
             /\ row' = IF k.c \in closed \/ ~ Ensured(k.c) THEN row \ {k.c} ELSE row \cup {k.c}
             /\ joined' = joined \ {k.c} /\ syncing' = syncing \ {k.c}
        /\ k.c \notin cancelled =>
             /\ UNCHANGED <<out, cancelled, syncing>>
             /\ row' = IF Ensured(k.c) THEN row \cup {k.c} ELSE row
             /\ joined' = IF Ensured(k.c) THEN joined \cup {k.c} ELSE joined
    BY <1>2, <1>3, OwnJoinEffect DEF l
  <2>b. joined \subseteq row /\ syncing \subseteq row
    BY DEF Typed, TypeOK
  <2>c. /\ row' \subseteq row \cup {k.c} /\ joined' \subseteq row' /\ syncing' \subseteq row'
        /\ cancelled' \subseteq cancelled
    BY <2>a, <2>b
  <2>2. IsFiniteSet(autojoin')
    BY <2>1, FS_AddElement DEF Typed
  <2>3. out' \in Seq(Commands)
    BY <2>1, <2>a, SentTyped, CommandsMade DEF Typed
  <2>. QED  BY <1>1, <2>1, <2>c, <2>2, <2>3 DEF Typed, TypeOK, Untouched, Facts
<1>4. CASE ReadJoin
  <2>1. /\ k.c \in Channels /\ wire' = Tail(wire) /\ Untouched
        /\ UNCHANGED <<current, stalled, budget, autojoin, hidden, out, cancelled, syncing, joined>>
        /\ facts' \in [Nicks -> Facts] /\ members' \in [Channels -> SUBSET Nicks]
        /\ row' = IF Ensured(k.c) THEN row \cup {k.c} ELSE row
    BY <1>2, <1>4, JoinEffect DEF l
  <2>. QED  BY <1>1, <2>1 DEF Typed, TypeOK, Untouched, Facts
<1>5. CASE ReadDeparture
  <2>1. /\ wire' = Tail(wire) /\ Untouched
        /\ UNCHANGED <<current, stalled, budget, hidden, out, cancelled, row>>
        /\ facts' \in [Nicks -> Facts] /\ members' \in [Channels -> SUBSET Nicks]
        /\ autojoin' \subseteq autojoin /\ joined' \subseteq joined /\ syncing' \subseteq syncing
    BY <1>2, <1>5, DepartureEffect DEF l
  <2>2. IsFiniteSet(autojoin')
    BY <2>1, FS_Subset DEF Typed
  <2>. QED  BY <1>1, <2>1, <2>2 DEF Typed, TypeOK, Untouched, Facts
<1>6. CASE ReadQuit
  <2>1. /\ wire' = Tail(wire) /\ Untouched
        /\ UNCHANGED <<current, stalled, budget, hidden, out, cancelled, row, autojoin, joined, syncing>>
        /\ facts' \in [Nicks -> Facts] /\ members' \in [Channels -> SUBSET Nicks]
    BY <1>2, <1>6, QuitEffect DEF l
  <2>. QED  BY <1>1, <2>1 DEF Typed, TypeOK, Untouched, Facts
<1>7. CASE ReadNick
  <2>1. /\ wire' = Tail(wire) /\ Untouched /\ k.to \in Nicks
        /\ UNCHANGED <<stalled, budget, hidden, out, cancelled, row, autojoin, joined, syncing>>
        /\ current' = IF k.n = current THEN k.to ELSE current
        /\ facts' \in [Nicks -> Facts] /\ members' \in [Channels -> SUBSET Nicks]
    BY <1>2, <1>7, NickEffect DEF l
  <2>. QED  BY <1>1, <2>1 DEF Typed, TypeOK, Untouched, Facts
<1>8. CASE ReadPresence
  <2>1. /\ wire' = Tail(wire) /\ Untouched
        /\ UNCHANGED <<stalled, budget, hidden, out, cancelled, row, autojoin, joined, syncing, current, members>>
        /\ facts' \in [Nicks -> Facts]
    BY <1>2, <1>8, PresenceEffect DEF l
  <2>. QED  BY <1>1, <2>1 DEF Typed, TypeOK, Untouched, Facts
<1>9. ASSUME NEW late \in BOOLEAN, ReadNames(late)
      PROVE  Typed'
  <2>1. /\ wire' = Tail(wire) /\ Untouched /\ k.c \in Channels
        /\ UNCHANGED <<hidden, cancelled, autojoin, joined, current, facts>>
        /\ budget' \in Budget
        /\ out' = IF k.line = "366" THEN Append(out, [cmd |-> "WHO", c |-> k.c]) ELSE out
        /\ stalled' \subseteq stalled \cup {k.c}
        /\ members' \in [Channels -> SUBSET Nicks]
        /\ row' = IF Ensured(k.c) THEN row \cup {k.c} ELSE row
        /\ syncing' \subseteq row'
    BY <1>2, <1>9, NamesEffect DEF l
  <2>2. out' \in Seq(Commands)
    BY <2>1, SentTyped, CommandsMade DEF Typed
  <2>. QED  BY <1>1, <2>1, <2>2 DEF Typed, TypeOK, Untouched, Facts
<1>. QED  BY <1>3, <1>4, <1>5, <1>6, <1>7, <1>8, <1>9

LEMMA TypedUser ==
    ASSUME Typed, \/ \E c \in Channels : Join(c) \/ JoinRefused(c) \/ Part(c) \/ Close(c)
                  \/ \E n \in Nicks : Nick(n)
    PROVE  Typed'
<1>1. ASSUME NEW c \in Channels, Join(c)  PROVE Typed'
  <2>0. /\ up /\ budget' \in Budget /\ out' = Append(out, [cmd |-> "JOIN", c |-> c])
        /\ cancelled' = cancelled \ {c} /\ closed' = closed \ {c} /\ closedStore' = closedStore \ {c}
        /\ row' = row \cup {c} /\ dismissed' = dismissed \ {c}
        /\ wish' \in [Channels -> {"in", "out", "any"}]
        /\ \A d \in Channels : wish'[d] = IF d = c THEN "in" ELSE wish[d]
        /\ UNCHANGED <<joined, syncing, members, facts, autojoin, current, wire, nick, in, peer, up,
                       stalled, hidden>>
    BY <1>1, UserJoinEffect
  <2>1. out' \in Seq(Commands)
    BY <2>0, SentTyped, CommandsMade
  <2>. QED  BY <2>0, <2>1 DEF Typed, TypeOK
<1>2. ASSUME NEW c \in Channels, JoinRefused(c)  PROVE Typed'
  <2>1. budget' \in Budget
    BY <1>2, SpendTyped DEF JoinRefused, Typed
  <2>. QED  BY <1>2, <2>1 DEF JoinRefused, Typed, TypeOK, server, rows
<1>3. ASSUME NEW c \in Channels, Part(c)  PROVE Typed'
  <2>0. /\ up /\ budget' \in Budget
        /\ wish' \in [Channels -> {"in", "out", "any"}]
        /\ \A d \in Channels : wish'[d] = IF d = c THEN "out" ELSE wish[d]
        /\ UNCHANGED <<row, facts, closed, closedStore, autojoin, current, wire, nick, in, peer, up,
                       dismissed, stalled, hidden>>
        /\ c \in row \ joined =>
             /\ cancelled' = cancelled \cup {c} /\ UNCHANGED <<out, joined, syncing, members>>
        /\ c \notin row \ joined =>
             /\ out' = Append(out, [cmd |-> "PART", c |-> c]) /\ cancelled' = cancelled
             /\ joined' = joined \ {c} /\ syncing' \subseteq syncing
             /\ members' \in [Channels -> SUBSET Nicks]
             /\ \A d \in Channels \ {c} : members'[d] = members[d] /\ (d \in syncing' <=> d \in syncing)
             /\ members'[c] \subseteq members[c]
    BY <1>3, UserPartEffect
  <2>1. CASE c \in row \ joined
    BY <2>0, <2>1 DEF Typed, TypeOK
  <2>2. CASE c \notin row \ joined
    <3>1. out' \in Seq(Commands)
      BY <2>0, <2>2, SentTyped, CommandsMade
    <3>. QED  BY <2>0, <2>2, <3>1 DEF Typed, TypeOK
  <2>. QED  BY <2>1, <2>2
<1>4. ASSUME NEW c \in Channels, Close(c)  PROVE Typed'
  BY <1>4, UserCloseEffect DEF Typed, TypeOK
<1>5. ASSUME NEW n \in Nicks, Nick(n)  PROVE Typed'
  <2>1. out' = Append(out, [cmd |-> "NICK", n |-> n]) /\ UNCHANGED <<client, wire, server, ghosts>>
    BY <1>5 DEF Nick
  <2>2. out' \in Seq(Commands)
    BY <2>1, SentTyped, CommandsMade
  <2>3. budget' \in Budget
    BY <1>5, SpendTyped DEF Nick, Typed
  <2>. QED  BY <2>1, <2>2, <2>3 DEF Typed, TypeOK, server, client, rows, marks, ghosts
<1>. QED  BY <1>1, <1>2, <1>3, <1>4, <1>5

-----------------------------------------------------------------------------
(***************************************************************************)
(* Views.  A view is what the server has told the user, or would have if   *)
(* every line had arrived: the own nick, the channels the user is in, who  *)
(* is in them, and who of them is away.  What the server does behind the   *)
(* user's back changes no view.  The lines on the wire lead from the view  *)
(* the client has to the view the server has, one view after each line.    *)
(***************************************************************************)

Views == {v \in [me : Nicks, mine : SUBSET Channels, list : [Channels -> SUBSET Nicks], away : SUBSET Nicks] :
            /\ \A c \in Channels : IF c \in v.mine THEN v.me \in v.list[c] ELSE v.list[c] = {}
            /\ v.me \notin v.away
            /\ \A n \in v.away : \E c \in Channels : n \in v.list[c]}

\* The server's view.
Seen == [me |-> nick["me"],
         mine |-> {c \in Channels : IsIn(c)},
         list |-> [c \in Channels |-> IF IsIn(c) THEN Names(c) ELSE {}],
         away |-> IF peer.away /\ Shared # {} THEN {nick["peer"]} ELSE {}]

\* What a line l says of the view v before it and the view w after it.
Entered(l, v, w) ==
    /\ l.c \notin v.mine /\ w.mine = v.mine \cup {l.c} /\ w.me = v.me
    /\ \A d \in Channels \ {l.c} : w.list[d] = v.list[d]
    /\ w.away = v.away \/ \A d \in Channels : w.away \cap v.list[d] = {}
Came(l, v, w) ==
    /\ l.c \in v.mine /\ w.mine = v.mine /\ w.me = v.me /\ w.away = v.away
    /\ \A d \in Channels : w.list[d] = IF d = l.c THEN v.list[d] \cup {l.n} ELSE v.list[d]
Gone(l, v, w) ==
    /\ l.c \in v.mine /\ w.me = v.me /\ w.away \subseteq v.away
    /\ w.mine = IF l.n = v.me THEN v.mine \ {l.c} ELSE v.mine
    /\ \A d \in Channels : w.list[d] = IF d # l.c THEN v.list[d]
                                       ELSE IF l.n = v.me THEN {} ELSE v.list[d] \ {l.n}
Quits(l, v, w) ==
    /\ l.n # v.me /\ w.me = v.me /\ w.mine = v.mine /\ w.away \subseteq v.away
    /\ \A d \in Channels : w.list[d] = v.list[d] \ {l.n}
Renames(l, v, w) ==
    /\ l.to # v.me /\ l.to # l.n /\ \A d \in Channels : l.to \notin v.list[d]
    /\ w.me = IF l.n = v.me THEN l.to ELSE v.me
    /\ w.mine = v.mine
    /\ \A d \in Channels : w.list[d] = Renamed(v.list[d], l.n, l.to)
    /\ w.away = Renamed(v.away, l.n, l.to)
Named(l, v, w) == w = v /\ l.c \in v.mine /\ l.names \subseteq v.list[l.c]
Aways(l, v, w) ==
    /\ w.me = v.me /\ w.mine = v.mine /\ \A d \in Channels : w.list[d] = v.list[d]
    /\ w.away = IF l.away THEN {l.n} ELSE v.away \ {l.n}

Follows(l, v, w) ==
    /\ l.line = "JOIN" => IF l.n = v.me THEN Entered(l, v, w) ELSE Came(l, v, w)
    /\ l.line \in {"PART", "KICK"} => Gone(l, v, w)
    /\ l.line = "QUIT" => Quits(l, v, w)
    /\ l.line = "NICK" => Renames(l, v, w)
    /\ l.line \in {"353", "366"} => Named(l, v, w)
    /\ l.line = "AWAY" => Aways(l, v, w)
    /\ l.line = "ACCOUNT" => w = v

\* The views h that the lines ls lead through.
Trace(h, ls) ==
    /\ h \in Seq(Views) /\ Len(h) = Len(ls) + 1
    /\ \A i \in 1 .. Len(ls) : Follows(ls[i], h[i], h[i + 1])

\* After the i-th line comes a reply to NAMES of c, to its end, that lists the nicks s.
BurstOf(ls, i, c, s, k) ==
    /\ i + k + 1 <= Len(ls)
    /\ \A j \in i + 1 .. i + k : ls[j].line = "353" /\ ls[j].c = c
    /\ ls[i + k + 1].line = "366" /\ ls[i + k + 1].c = c /\ ls[i + k + 1].names = {}
    /\ \A n \in Nicks : n \in s <=> \E j \in i + 1 .. i + k : n \in ls[j].names
Burst(ls, i, c, s) == \E k \in Nat : BurstOf(ls, i, c, s, k)

\* The user's own JOIN comes with the whole list of names.
Replied(h, ls) ==
    \A i \in 1 .. Len(ls) :
        ls[i].line = "JOIN" /\ ls[i].n = h[i].me => Burst(ls, i, ls[i].c, h[i + 1].list[ls[i].c])
\* A line of names follows another one or the user's own JOIN.
Adjacent(h, ls) ==
    \A i \in 1 .. Len(ls) : i > 1 /\ ls[i].line \in {"353", "366"} =>
        /\ ls[i - 1].line \in {"353", "JOIN"} /\ ls[i - 1].c = ls[i].c
        /\ ls[i - 1].line = "JOIN" => ls[i - 1].n = h[i - 1].me
\* A list of names ends.
Ends(ls) ==
    \A i \in 1 .. Len(ls) : ls[i].line = "353" =>
        \E j \in i + 1 .. Len(ls) : ls[j].line = "366" /\ ls[j].c = ls[i].c
\* The JOIN of somebody away says so.
Announced(h, ls) ==
    \A i \in 1 .. Len(ls) : ls[i].line = "JOIN" /\ ls[i].n \in h[i].away =>
        i + 1 \in 1 .. Len(ls) /\ ls[i + 1].line = "AWAY" /\ ls[i + 1].away

Flow(h, ls) == Trace(h, ls) /\ Replied(h, ls) /\ Adjacent(h, ls) /\ Ends(ls) /\ Announced(h, ls)

-----------------------------------------------------------------------------
LEMMA TailFacts ==
    ASSUME NEW S, NEW s \in Seq(S), s # <<>>
    PROVE  /\ Len(s) \in Nat /\ Len(s) >= 1 /\ Head(s) = s[1] /\ s[1] \in S
           /\ Tail(s) \in Seq(S) /\ Len(Tail(s)) = Len(s) - 1
           /\ \A i \in 1 .. Len(s) - 1 : Tail(s)[i] = s[i + 1]
OBVIOUS

LEMMA ElementFacts ==
    ASSUME NEW S, NEW s \in Seq(S)
    PROVE  Len(s) \in Nat /\ \A i \in 1 .. Len(s) : s[i] \in S
OBVIOUS

\* One line is read: what is left of a flow is a flow.
LEMMA FlowTail ==
    ASSUME NEW ls \in Seq(Lines), ls # <<>>, NEW h, Flow(h, ls)
    PROVE  /\ Flow(Tail(h), Tail(ls))
           /\ Len(h) \in Nat /\ Len(h) >= 2 /\ Len(Tail(h)) = Len(h) - 1
           /\ h[1] \in Views /\ h[2] \in Views /\ Follows(Head(ls), h[1], h[2])
           /\ \A i \in 1 .. Len(h) - 1 : Tail(h)[i] = h[i + 1]
           /\ Tail(h)[1] = h[2]
           /\ Tail(h)[Len(Tail(h))] = h[Len(h)]
<1>1. /\ Len(ls) \in Nat /\ Len(ls) >= 1 /\ Head(ls) = ls[1] /\ Len(Tail(ls)) = Len(ls) - 1
      /\ \A i \in 1 .. Len(ls) - 1 : Tail(ls)[i] = ls[i + 1]
  BY TailFacts
<1>2. h \in Seq(Views) /\ Len(h) = Len(ls) + 1 /\ \A i \in 1 .. Len(ls) : Follows(ls[i], h[i], h[i + 1])
  BY DEF Flow, Trace
<1>3. h # <<>>
  BY <1>1, <1>2
<1>4. /\ Len(h) \in Nat /\ Tail(h) \in Seq(Views) /\ Len(Tail(h)) = Len(h) - 1
      /\ \A i \in 1 .. Len(h) - 1 : Tail(h)[i] = h[i + 1]
  BY <1>2, <1>3, TailFacts
<1>5. PICK g : g = Tail(h)
  OBVIOUS
<1>6. PICK ms : ms = Tail(ls)
  OBVIOUS
<1>7. /\ Len(g) = Len(h) - 1 /\ Len(ms) = Len(ls) - 1
      /\ \A i \in 1 .. Len(h) - 1 : g[i] = h[i + 1]
      /\ \A i \in 1 .. Len(ls) - 1 : ms[i] = ls[i + 1]
  BY <1>1, <1>4, <1>5, <1>6
<1>8. Trace(g, ms)
  <2>1. g \in Seq(Views) /\ Len(g) = Len(ms) + 1
    BY <1>1, <1>2, <1>4, <1>5, <1>7
  <2>2. ASSUME NEW i \in 1 .. Len(ms)  PROVE Follows(ms[i], g[i], g[i + 1])
    <3>1. ms[i] = ls[i + 1] /\ g[i] = h[i + 1] /\ g[i + 1] = h[i + 2] /\ i + 1 \in 1 .. Len(ls)
      BY <1>1, <1>2, <1>7
    <3>2. Follows(ls[i + 1], h[i + 1], h[(i + 1) + 1])
      BY <1>2, <3>1
    <3>3. (i + 1) + 1 = i + 2
      OBVIOUS
    <3>. QED  BY <3>1, <3>2, <3>3
  <2>. QED  BY <2>1, <2>2 DEF Trace
<1>9. ASSUME NEW i \in 1 .. Len(ls), i > 1, NEW c, NEW s, Burst(ls, i, c, s)
      PROVE  Burst(ms, i - 1, c, s)
  <2>0. PICK k \in Nat : BurstOf(ls, i, c, s, k)
    BY <1>9 DEF Burst
  <2>1. /\ i + k + 1 <= Len(ls)
        /\ \A j \in i + 1 .. i + k : ls[j].line = "353" /\ ls[j].c = c
        /\ ls[i + k + 1].line = "366" /\ ls[i + k + 1].c = c /\ ls[i + k + 1].names = {}
        /\ \A n \in Nicks : n \in s <=> \E j \in i + 1 .. i + k : n \in ls[j].names
    BY <2>0 DEF BurstOf
  <2>2. (i - 1) + k + 1 <= Len(ms)
    BY <1>1, <1>7, <2>1
  <2>3. \A j \in (i - 1) + 1 .. (i - 1) + k : j + 1 \in i + 1 .. i + k /\ ms[j] = ls[j + 1]
    BY <1>1, <1>7, <2>1
  <2>4. ms[(i - 1) + k + 1] = ls[i + k + 1]
    BY <1>1, <1>7, <2>1
  <2>5. \A j \in i + 1 .. i + k : j - 1 \in (i - 1) + 1 .. (i - 1) + k /\ ms[j - 1] = ls[j]
    BY <1>1, <1>7, <2>1
  <2>6. \A n \in Nicks : n \in s <=> \E j \in (i - 1) + 1 .. (i - 1) + k : n \in ms[j].names
    BY <2>1, <2>3, <2>5
  <2>7. BurstOf(ms, i - 1, c, s, k)
    BY <2>1, <2>2, <2>3, <2>4, <2>6 DEF BurstOf
  <2>. QED  BY <2>7 DEF Burst
<1>10. Replied(g, ms)
  <2>1. SUFFICES ASSUME NEW i \in 1 .. Len(ms), ms[i].line = "JOIN", ms[i].n = g[i].me
                 PROVE  Burst(ms, i, ms[i].c, g[i + 1].list[ms[i].c])
    BY DEF Replied
  <2>2. ms[i] = ls[i + 1] /\ g[i] = h[i + 1] /\ g[i + 1] = h[(i + 1) + 1] /\ i + 1 \in 1 .. Len(ls) /\ i + 1 > 1
    BY <1>1, <1>2, <1>7
  <2>3. Burst(ls, i + 1, ms[i].c, g[i + 1].list[ms[i].c])
    BY <2>1, <2>2 DEF Flow, Replied
  <2>4. Burst(ms, (i + 1) - 1, ms[i].c, g[i + 1].list[ms[i].c])
    BY <1>9, <2>2, <2>3
  <2>5. (i + 1) - 1 = i
    OBVIOUS
  <2>. QED  BY <2>4, <2>5
<1>11. Adjacent(g, ms)
  <2>1. SUFFICES ASSUME NEW i \in 1 .. Len(ms), i > 1, ms[i].line \in {"353", "366"}
                 PROVE  /\ ms[i - 1].line \in {"353", "JOIN"} /\ ms[i - 1].c = ms[i].c
                        /\ ms[i - 1].line = "JOIN" => ms[i - 1].n = g[i - 1].me
    BY DEF Adjacent
  <2>2. /\ ms[i] = ls[i + 1] /\ ms[i - 1] = ls[(i + 1) - 1] /\ g[i - 1] = h[(i + 1) - 1]
        /\ i + 1 \in 1 .. Len(ls) /\ i + 1 > 1
    <3>1. /\ i - 1 \in 1 .. Len(ms) /\ i + 1 \in 1 .. Len(ls) /\ i + 1 > 1
          /\ (i + 1) - 1 = i /\ (i - 1) + 1 = i
      BY <1>1, <1>7, <2>1
    <3>. QED  BY <1>1, <1>2, <1>7, <2>1, <3>1, SMTT(30)
  <2>. QED  BY <2>1, <2>2 DEF Flow, Adjacent
<1>12. Ends(ms)
  <2>1. SUFFICES ASSUME NEW i \in 1 .. Len(ms), ms[i].line = "353"
                 PROVE  \E j \in i + 1 .. Len(ms) : ms[j].line = "366" /\ ms[j].c = ms[i].c
    BY DEF Ends
  <2>2. ms[i] = ls[i + 1] /\ i + 1 \in 1 .. Len(ls)
    BY <1>1, <1>7
  <2>3. PICK j \in (i + 1) + 1 .. Len(ls) : ls[j].line = "366" /\ ls[j].c = ls[i + 1].c
    BY <2>1, <2>2 DEF Flow, Ends
  <2>4. j - 1 \in i + 1 .. Len(ms) /\ ms[j - 1] = ls[j]
    BY <1>1, <1>7, <2>3
  <2>. QED  BY <2>2, <2>3, <2>4
<1>13. Announced(g, ms)
  <2>1. SUFFICES ASSUME NEW i \in 1 .. Len(ms), ms[i].line = "JOIN", ms[i].n \in g[i].away
                 PROVE  i + 1 \in 1 .. Len(ms) /\ ms[i + 1].line = "AWAY" /\ ms[i + 1].away
    BY DEF Announced
  <2>2. ms[i] = ls[i + 1] /\ g[i] = h[i + 1] /\ i + 1 \in 1 .. Len(ls)
    BY <1>1, <1>2, <1>7
  <2>3. (i + 1) + 1 \in 1 .. Len(ls) /\ ls[(i + 1) + 1].line = "AWAY" /\ ls[(i + 1) + 1].away
    BY <2>1, <2>2 DEF Flow, Announced
  <2>4. i + 1 \in 1 .. Len(ms) /\ ms[i + 1] = ls[(i + 1) + 1]
    BY <1>1, <1>7, <2>3
  <2>. QED  BY <2>3, <2>4
<1>14. Flow(g, ms)
  BY <1>8, <1>10, <1>11, <1>12, <1>13 DEF Flow
<1>15. h[1] \in Views /\ h[2] \in Views /\ Follows(ls[1], h[1], h[2])
  BY <1>1, <1>2
<1>16. g[1] = h[2] /\ g[Len(g)] = h[Len(h)] /\ Len(h) >= 2
  BY <1>1, <1>2, <1>7
<1>. QED  BY <1>1, <1>4, <1>5, <1>6, <1>14, <1>15, <1>16

\* Two flows in a row.
Glue(h, k) == [i \in 1 .. Len(h) + Len(k) - 1 |-> IF i <= Len(h) THEN h[i] ELSE k[i - Len(h) + 1]]

LEMMA GlueFacts ==
    ASSUME NEW h \in Seq(Views), NEW k \in Seq(Views), Len(h) >= 1, Len(k) >= 1, k[1] = h[Len(h)]
    PROVE  /\ Len(h) \in Nat /\ Len(k) \in Nat
           /\ Glue(h, k) \in Seq(Views) /\ Len(Glue(h, k)) = Len(h) + Len(k) - 1
           /\ \A i \in 1 .. Len(h) : Glue(h, k)[i] = h[i]
           /\ \A i \in 1 .. Len(k) : Glue(h, k)[Len(h) + i - 1] = k[i]
<1>1. /\ Len(h) \in Nat /\ Len(k) \in Nat
      /\ \A i \in 1 .. Len(h) : h[i] \in Views
      /\ \A i \in 1 .. Len(k) : k[i] \in Views
  BY ElementFacts
<1>2a. Len(h) + Len(k) - 1 \in Nat
  BY <1>1
<1>2. PICK n \in Nat : n = Len(h) + Len(k) - 1
  BY <1>2a
<1>3. Glue(h, k) \in [1 .. n -> Views]
  BY <1>1, <1>2 DEF Glue
<1>4. Glue(h, k) \in Seq(Views) /\ Len(Glue(h, k)) = n
  BY <1>3
<1>5. \A i \in 1 .. Len(h) : Glue(h, k)[i] = h[i]
  BY <1>1 DEF Glue
<1>6. ASSUME NEW i \in 1 .. Len(k)  PROVE Glue(h, k)[Len(h) + i - 1] = k[i]
  <2>1. CASE i = 1
    BY <1>1, <1>5, <2>1
  <2>2. CASE i # 1
    <3>1. Len(h) + i - 1 \in 1 .. Len(h) + Len(k) - 1 /\ Len(h) + i - 1 > Len(h)
          /\ (Len(h) + i - 1) - Len(h) + 1 = i
      BY <1>1, <2>2
    <3>. QED  BY <1>1, <3>1 DEF Glue
  <2>. QED  BY <2>1, <2>2
<1>. QED  BY <1>1, <1>2, <1>4, <1>5, <1>6

LEMMA ConcatFacts ==
    ASSUME NEW S, NEW s \in Seq(S), NEW t \in Seq(S)
    PROVE  /\ Len(s) \in Nat /\ Len(t) \in Nat /\ s \o t \in Seq(S) /\ Len(s \o t) = Len(s) + Len(t)
           /\ \A i \in 1 .. Len(s) : (s \o t)[i] = s[i]
           /\ \A i \in 1 .. Len(t) : (s \o t)[Len(s) + i] = t[i]
OBVIOUS

\* Lines are put behind others: a flow goes on.
LEMMA FlowGlue ==
    ASSUME NEW ls \in Seq(Lines), NEW ms \in Seq(Lines), NEW h, NEW k, Flow(h, ls), Flow(k, ms),
           k[1] = h[Len(h)],
           ms # <<>> => ms[1].line \notin {"353", "366"}
    PROVE  /\ Flow(Glue(h, k), ls \o ms)
           /\ Len(Glue(h, k)) = Len(h) + Len(k) - 1
           /\ Glue(h, k)[1] = h[1]
           /\ Glue(h, k)[Len(Glue(h, k))] = k[Len(k)]
           /\ \A i \in 1 .. Len(h) : Glue(h, k)[i] = h[i]
<1>1. /\ Len(ls) \in Nat /\ Len(ms) \in Nat /\ Len(ls \o ms) = Len(ls) + Len(ms)
      /\ \A i \in 1 .. Len(ls) : (ls \o ms)[i] = ls[i]
      /\ \A i \in 1 .. Len(ms) : (ls \o ms)[Len(ls) + i] = ms[i]
  BY ConcatFacts
<1>2. /\ h \in Seq(Views) /\ Len(h) = Len(ls) + 1
      /\ k \in Seq(Views) /\ Len(k) = Len(ms) + 1
      /\ \A i \in 1 .. Len(ls) : Follows(ls[i], h[i], h[i + 1])
      /\ \A i \in 1 .. Len(ms) : Follows(ms[i], k[i], k[i + 1])
  BY DEF Flow, Trace
<1>3. PICK g : g = Glue(h, k)
  OBVIOUS
<1>4. PICK w : w = ls \o ms
  OBVIOUS
<1>4a. Len(h) >= 1 /\ Len(k) >= 1
  BY <1>1, <1>2
<1>5. /\ g \in Seq(Views) /\ Len(g) = Len(h) + Len(k) - 1
      /\ \A i \in 1 .. Len(h) : g[i] = h[i]
      /\ \A i \in 1 .. Len(k) : g[Len(h) + i - 1] = k[i]
  BY <1>2, <1>3, <1>4a, GlueFacts
<1>6. PICK N \in Nat : N = Len(ls)
  BY <1>1
<1>7. PICK M \in Nat : M = Len(ms)
  BY <1>1
<1>8. /\ Len(w) = N + M
      /\ \A i \in 1 .. N : w[i] = ls[i]
      /\ \A i \in 1 .. M : w[N + i] = ms[i]
      /\ Len(g) = N + M + 1
      /\ \A i \in 1 .. N + 1 : g[i] = h[i]
      /\ \A i \in 1 .. M + 1 : g[N + i] = k[i]
  <2>1. \A i \in 1 .. M + 1 : Len(h) + i - 1 = N + i
    BY <1>2, <1>6
  <2>2. ASSUME NEW i \in 1 .. M + 1  PROVE g[N + i] = k[i]
    <3>1. i \in 1 .. Len(k)
      BY <1>2, <1>7
    <3>. QED  BY <1>5, <2>1, <3>1
  <2>3. /\ Len(w) = N + M
        /\ \A i \in 1 .. N : w[i] = ls[i]
        /\ \A i \in 1 .. M : w[N + i] = ms[i]
    BY <1>1, <1>4, <1>6, <1>7
  <2>4. Len(g) = N + M + 1 /\ \A i \in 1 .. N + 1 : g[i] = h[i]
    BY <1>2, <1>5, <1>6, <1>7
  <2>. QED  BY <2>2, <2>3, <2>4
<1>9. \A i \in 1 .. N + M : \/ i \in 1 .. N
                            \/ i - N \in 1 .. M /\ i = N + (i - N) /\ i + 1 = N + ((i - N) + 1)
  OBVIOUS
<1>10. Trace(g, w)
  <2>1. ASSUME NEW i \in 1 .. N  PROVE Follows(w[i], g[i], g[i + 1])
    <3>1. i \in 1 .. N + 1 /\ i + 1 \in 1 .. N + 1
      OBVIOUS
    <3>2. w[i] = ls[i] /\ g[i] = h[i] /\ g[i + 1] = h[i + 1]
      BY <1>8, <3>1
    <3>. QED  BY <1>2, <1>6, <3>2
  <2>2. ASSUME NEW i \in 1 .. M  PROVE Follows(w[N + i], g[N + i], g[N + (i + 1)])
    <3>1. i \in 1 .. M + 1 /\ i + 1 \in 1 .. M + 1
      OBVIOUS
    <3>2. w[N + i] = ms[i] /\ g[N + i] = k[i] /\ g[N + (i + 1)] = k[i + 1]
      BY <1>8, <3>1
    <3>. QED  BY <1>2, <1>7, <3>2
  <2>3. ASSUME NEW i \in 1 .. N + M  PROVE Follows(w[i], g[i], g[i + 1])
    BY <1>9, <2>1, <2>2
  <2>. QED  BY <1>5, <1>8, <2>3 DEF Trace
<1>11. ASSUME NEW i \in 1 .. N, NEW c, NEW s, Burst(ls, i, c, s)
       PROVE  Burst(w, i, c, s)
  <2>1. PICK q \in Nat : BurstOf(ls, i, c, s, q)
    BY <1>11 DEF Burst
  <2>2. /\ i + q + 1 <= N
        /\ \A j \in i + 1 .. i + q : ls[j].line = "353" /\ ls[j].c = c
        /\ ls[i + q + 1].line = "366" /\ ls[i + q + 1].c = c /\ ls[i + q + 1].names = {}
        /\ \A n \in Nicks : n \in s <=> \E j \in i + 1 .. i + q : n \in ls[j].names
    BY <1>6, <2>1 DEF BurstOf
  <2>a. w[i + q + 1] = ls[i + q + 1] /\ \A j \in i + 1 .. i + q : w[j] = ls[j]
    BY <1>8, <2>2
  <2>b. i + q + 1 <= Len(w)
    BY <1>8, <2>2
  <2>c. \A n \in Nicks : n \in s <=> \E j \in i + 1 .. i + q : n \in w[j].names
    BY <2>2, <2>a
  <2>3. BurstOf(w, i, c, s, q)
    BY <2>2, <2>a, <2>b, <2>c DEF BurstOf
  <2>. QED  BY <2>3 DEF Burst
<1>12. ASSUME NEW i \in 1 .. M, NEW c, NEW s, Burst(ms, i, c, s)
       PROVE  Burst(w, N + i, c, s)
  <2>1. PICK q \in Nat : BurstOf(ms, i, c, s, q)
    BY <1>12 DEF Burst
  <2>a. /\ i + q + 1 <= M
        /\ \A j \in i + 1 .. i + q : ms[j].line = "353" /\ ms[j].c = c
        /\ ms[i + q + 1].line = "366" /\ ms[i + q + 1].c = c /\ ms[i + q + 1].names = {}
        /\ \A n \in Nicks : n \in s <=> \E j \in i + 1 .. i + q : n \in ms[j].names
    BY <1>7, <2>1 DEF BurstOf
  <2>2. (N + i) + q + 1 <= Len(w) /\ w[(N + i) + q + 1] = ms[i + q + 1]
    BY <1>8, <2>a
  <2>3. \A j \in i + 1 .. i + q : N + j \in (N + i) + 1 .. (N + i) + q /\ w[N + j] = ms[j]
    BY <1>8, <2>a
  <2>4. \A j \in (N + i) + 1 .. (N + i) + q : j - N \in i + 1 .. i + q /\ w[j] = ms[j - N]
    <3>1. \A j \in (N + i) + 1 .. (N + i) + q : j - N \in i + 1 .. i + q /\ N + (j - N) = j
      OBVIOUS
    <3>. QED  BY <2>3, <3>1
  <2>5. \A n \in Nicks : n \in s <=> \E j \in (N + i) + 1 .. (N + i) + q : n \in w[j].names
    BY <2>a, <2>3, <2>4
  <2>6. BurstOf(w, N + i, c, s, q)
    BY <2>a, <2>2, <2>4, <2>5 DEF BurstOf
  <2>. QED  BY <2>6 DEF Burst
<1>13. Replied(g, w)
  <2>1. SUFFICES ASSUME NEW i \in 1 .. N + M, w[i].line = "JOIN", w[i].n = g[i].me
                 PROVE  Burst(w, i, w[i].c, g[i + 1].list[w[i].c])
    BY <1>8 DEF Replied
  <2>2. CASE i \in 1 .. N
    <3>1. w[i] = ls[i] /\ g[i] = h[i] /\ g[i + 1] = h[i + 1]
      BY <1>8, <2>2
    <3>2. Burst(ls, i, w[i].c, g[i + 1].list[w[i].c])
      BY <1>6, <2>1, <2>2, <3>1 DEF Flow, Replied
    <3>. QED  BY <1>11, <2>2, <3>2
  <2>3. CASE i - N \in 1 .. M
    <3>0. PICK j \in 1 .. M : j = i - N
      BY <2>3
    <3>1. i = N + j /\ i + 1 = N + (j + 1)
      BY <3>0
    <3>2. w[i] = ms[j] /\ g[i] = k[j] /\ g[i + 1] = k[j + 1]
      BY <1>8, <3>1
    <3>3. Burst(ms, j, w[i].c, g[i + 1].list[w[i].c])
      BY <1>7, <2>1, <3>2 DEF Flow, Replied
    <3>. QED  BY <1>12, <3>1, <3>3
  <2>. QED  BY <1>9, <2>2, <2>3
<1>14. Adjacent(g, w)
  <2>1. SUFFICES ASSUME NEW i \in 1 .. N + M, i > 1, w[i].line \in {"353", "366"}
                 PROVE  /\ w[i - 1].line \in {"353", "JOIN"} /\ w[i - 1].c = w[i].c
                        /\ w[i - 1].line = "JOIN" => w[i - 1].n = g[i - 1].me
    BY <1>8 DEF Adjacent
  <2>2. CASE i \in 1 .. N
    <3>0. i - 1 \in 1 .. N /\ i - 1 \in 1 .. N + 1
      BY <2>1, <2>2
    <3>1. w[i] = ls[i] /\ w[i - 1] = ls[i - 1] /\ g[i - 1] = h[i - 1]
      BY <1>8, <2>2, <3>0
    <3>. QED  BY <1>6, <2>1, <2>2, <3>1 DEF Flow, Adjacent
  <2>3. CASE i - N \in 1 .. M
    <3>0. PICK j \in 1 .. M : j = i - N
      BY <2>3
    <3>1. w[i] = ms[j]
      BY <1>8, <3>0, SMTT(30)
    <3>2. j > 1
      BY <1>7, <2>1, <3>1
    <3>3. w[i - 1] = ms[j - 1] /\ g[i - 1] = k[j - 1]
      <4>1. i - 1 = N + (j - 1) /\ j - 1 \in 1 .. M /\ j - 1 \in 1 .. M + 1
        BY <3>0, <3>2
      <4>. QED  BY <1>8, <4>1
    <3>. QED  BY <1>7, <2>1, <3>1, <3>2, <3>3 DEF Flow, Adjacent
  <2>. QED  BY <1>9, <2>2, <2>3
<1>15. Ends(w)
  <2>1. SUFFICES ASSUME NEW i \in 1 .. N + M, w[i].line = "353"
                 PROVE  \E j \in i + 1 .. Len(w) : w[j].line = "366" /\ w[j].c = w[i].c
    BY <1>8 DEF Ends
  <2>2. CASE i \in 1 .. N
    <3>1. PICK j \in i + 1 .. N : ls[j].line = "366" /\ ls[j].c = ls[i].c
      BY <1>6, <1>8, <2>1, <2>2 DEF Flow, Ends
    <3>. QED  BY <1>8, <2>2, <3>1
  <2>3. CASE i - N \in 1 .. M
    <3>0. PICK p \in 1 .. M : p = i - N
      BY <2>3
    <3>1. w[i] = ms[p]
      BY <1>8, <3>0, SMTT(30)
    <3>2. PICK j \in p + 1 .. M : ms[j].line = "366" /\ ms[j].c = ms[p].c
      BY <1>7, <2>1, <3>1 DEF Flow, Ends
    <3>3. N + j \in i + 1 .. Len(w) /\ w[N + j] = ms[j]
      <4>1. j \in 1 .. M /\ N + j \in i + 1 .. N + M
        BY <3>0, <3>2
      <4>. QED  BY <1>8, <4>1
    <3>. QED  BY <3>1, <3>2, <3>3
  <2>. QED  BY <1>9, <2>2, <2>3
<1>16. Announced(g, w)
  <2>1. SUFFICES ASSUME NEW i \in 1 .. N + M, w[i].line = "JOIN", w[i].n \in g[i].away
                 PROVE  i + 1 \in 1 .. Len(w) /\ w[i + 1].line = "AWAY" /\ w[i + 1].away
    BY <1>8 DEF Announced
  <2>2. CASE i \in 1 .. N
    <3>1. i + 1 \in 1 .. N /\ ls[i + 1].line = "AWAY" /\ ls[i + 1].away
      <4>1. ls[i].line = "JOIN" /\ ls[i].n \in h[i].away
        BY <1>8, <2>1, <2>2
      <4>. QED  BY <1>6, <2>2, <4>1 DEF Flow, Announced
    <3>. QED  BY <1>8, <2>2, <3>1
  <2>3. CASE i - N \in 1 .. M
    <3>0. PICK p \in 1 .. M : p = i - N
      BY <2>3
    <3>1. w[i] = ms[p] /\ g[i] = k[p]
      BY <1>8, <3>0
    <3>2. p + 1 \in 1 .. M /\ ms[p + 1].line = "AWAY" /\ ms[p + 1].away
      BY <1>7, <2>1, <3>1 DEF Flow, Announced
    <3>3. i + 1 \in 1 .. Len(w) /\ w[i + 1] = ms[p + 1]
      BY <1>8, <3>0, <3>2
    <3>. QED  BY <3>2, <3>3
  <2>. QED  BY <1>9, <2>2, <2>3
<1>17. Flow(g, w)
  BY <1>10, <1>13, <1>14, <1>15, <1>16 DEF Flow
<1>18. g[1] = h[1] /\ g[Len(g)] = k[Len(k)] /\ \A i \in 1 .. Len(h) : g[i] = h[i]
  BY <1>2, <1>5, <1>7, <1>8, SMTT(30)
<1>. QED  BY <1>3, <1>4, <1>5, <1>17, <1>18

-----------------------------------------------------------------------------
(***************************************************************************)
(* The invariant                                                           *)
(***************************************************************************)

\* Some view to come has the user out of c, in c, or nobody in c who is away.
SomeOut(h, c) == \E i \in 1 .. Len(h) : c \notin h[i].mine
SomeIn(h, c) == \E i \in 1 .. Len(h) : c \in h[i].mine
SomeClear(h, c) == \E i \in 1 .. Len(h) : h[i].list[c] \cap h[i].away = {}

\* A command about c is on its way to the server; the last one of those that matter is a PART.
Sends(q, cmd, c) == \E j \in 1 .. Len(q) : q[j].cmd = cmd /\ q[j].c = c
LastPart(q, c) ==
    \E j \in 1 .. Len(q) : /\ q[j].cmd = "PART" /\ q[j].c = c
                           /\ \A k \in j + 1 .. Len(q) : ~ (q[k].cmd = "JOIN" /\ q[k].c = c)

\* The end of a list of names of c, or somebody's going away, is on its way to the client.
EndsNames(ls, c) == \E i \in 1 .. Len(ls) : ls[i].line = "366" /\ ls[i].c = c
SaysAway(ls) == \E i \in 1 .. Len(ls) : ls[i].line = "AWAY" /\ ls[i].away

\* The lines on the wire lead from the view h[1] to the view of the server.
Mirror(h) == Flow(h, wire) /\ h[Len(h)] = Seen

\* What the client has is in its view: nobody is listed who is not there.
Lists(h) ==
    /\ current = h[1].me /\ ~ facts[h[1].me].away
    /\ joined \subseteq h[1].mine
    /\ \A c \in Channels : members[c] \subseteq h[1].list[c]

\* A channel the user is in and that does not say so will be left.
Leaves(h) == \A c \in h[1].mine : c \in joined \cup hidden \/ SomeOut(h, c) \/ Sends(out, "PART", c)

\* A list is complete, or the rest of it is next on the wire.
NamesOf(l, c) == l.line \in {"353", "366"} /\ l.c = c
Filled(h, c) ==
    IF wire # <<>> /\ NamesOf(Head(wire), c)
    THEN \E s \in SUBSET Nicks : Burst(wire, 0, c, s) /\ Synced(c) \cup s = h[1].list[c]
    ELSE members[c] = h[1].list[c]
Fills(h) == \A c \in joined \ stalled : Filled(h, c)

\* Whoever is listed and away is shown away, or a line that says so will come.
Shown(h, c) ==
    \/ \A n \in members[c] \cap h[1].away : facts[n].away
    \/ SaysAway(wire) \/ EndsNames(wire, c) \/ Sends(out, "WHO", c) \/ SomeClear(h, c)
Shows(h) == \A c \in joined : Shown(h, c)

\* A channel on the autojoin list is joined, or will be.
Rejoins(h) == \A c \in autojoin : Sends(out, "JOIN", c) \/ SomeIn(h, c)

\* A channel the user asked to leave will be left: by a PART on its way, because nothing
\* brings the user in, or because the JOIN that will is going to be undone.
Obeyed(h, c) ==
    \/ LastPart(out, c)
    \/ c \notin h[Len(h)].mine /\ ~ Sends(out, "JOIN", c)
    \/ /\ c \in cancelled
       /\ c \in h[Len(h)].mine => SomeOut(h, c) \/ c \in hidden \/ Sends(out, "PART", c)
Obeys(h) == \A c \in Channels : wish[c] = "out" => Obeyed(h, c)

Lagging(h) ==
    Mirror(h) /\ Lists(h) /\ Leaves(h) /\ Fills(h) /\ Shows(h) /\ Rejoins(h) /\ Obeys(h)

\* Without a connection nothing is on its way, and the next welcome will not bring the user
\* back into a channel that was left.
Offline ==
    /\ wire = <<>> /\ out = <<>>
    /\ \A c \in Channels : ~ IsIn(c)
    /\ \A c \in Channels : wish[c] = "out" => c \notin autojoin \/ c \in cancelled

\* A channel the user closed has no row and is noted on disk; without a row nobody is listed.
Shut ==
    /\ row \cap dismissed = {} /\ dismissed \subseteq closedStore
    /\ \A c \in Channels \ row : members[c] = {}

Inv == Typed /\ Shut /\ (up => \E h : Lagging(h)) /\ (~ up => Offline)

-----------------------------------------------------------------------------
LEMMA SendsAppend ==
    ASSUME NEW q \in Seq(Commands), NEW x \in Commands, NEW c, NEW cmd
    PROVE  /\ Sends(Append(q, x), cmd, c) <=> Sends(q, cmd, c) \/ (x.cmd = cmd /\ x.c = c)
           /\ LastPart(q, c) /\ ~ (x.cmd = "JOIN" /\ x.c = c) => LastPart(Append(q, x), c)
           /\ x.cmd = "PART" /\ x.c = c => LastPart(Append(q, x), c)
<1>1. /\ Len(q) \in Nat /\ Len(Append(q, x)) = Len(q) + 1
      /\ \A i \in 1 .. Len(q) : Append(q, x)[i] = q[i]
      /\ Append(q, x)[Len(q) + 1] = x
  OBVIOUS
<1>2. PICK p : p = Append(q, x)
  OBVIOUS
<1>3. PICK N \in Nat : N = Len(q)
  BY <1>1
<1>4. Len(p) = N + 1 /\ (\A i \in 1 .. N : p[i] = q[i]) /\ p[N + 1] = x
  BY <1>1, <1>2, <1>3
<1>5. Sends(p, cmd, c) <=> Sends(q, cmd, c) \/ (x.cmd = cmd /\ x.c = c)
  BY <1>3, <1>4 DEF Sends
<1>6. ASSUME LastPart(q, c), ~ (x.cmd = "JOIN" /\ x.c = c)  PROVE LastPart(p, c)
  <2>1. PICK j \in 1 .. N : /\ q[j].cmd = "PART" /\ q[j].c = c
                            /\ \A k \in j + 1 .. N : ~ (q[k].cmd = "JOIN" /\ q[k].c = c)
    BY <1>3, <1>6 DEF LastPart
  <2>2. \A k \in j + 1 .. N + 1 : ~ (p[k].cmd = "JOIN" /\ p[k].c = c)
    BY <1>4, <1>6, <2>1
  <2>. QED  BY <1>4, <2>1, <2>2 DEF LastPart
<1>7. ASSUME x.cmd = "PART", x.c = c  PROVE LastPart(p, c)
  <2>1. \A k \in (N + 1) + 1 .. N + 1 : FALSE
    OBVIOUS
  <2>2. N + 1 \in 1 .. N + 1
    OBVIOUS
  <2>. QED  BY <1>4, <1>7, <2>1, <2>2 DEF LastPart
<1>. QED  BY <1>2, <1>5, <1>6, <1>7

LEMMA SendsTail ==
    ASSUME NEW q \in Seq(Commands), q # <<>>, NEW c, NEW cmd
    PROVE  /\ Sends(q, cmd, c) => Sends(Tail(q), cmd, c) \/ (Head(q).cmd = cmd /\ Head(q).c = c)
           /\ Sends(Tail(q), cmd, c) => Sends(q, cmd, c)
           /\ LastPart(q, c) => \/ LastPart(Tail(q), c)
                                \/ Head(q).cmd = "PART" /\ Head(q).c = c /\ ~ Sends(Tail(q), "JOIN", c)
<1>1. /\ Len(q) \in Nat /\ Len(q) >= 1 /\ Head(q) = q[1] /\ Len(Tail(q)) = Len(q) - 1
      /\ \A i \in 1 .. Len(q) - 1 : Tail(q)[i] = q[i + 1]
  BY TailFacts
<1>2. PICK p : p = Tail(q)
  OBVIOUS
<1>3. PICK N \in Nat : N = Len(q)
  BY <1>1
<1>4. N >= 1 /\ Len(p) = N - 1 /\ \A i \in 1 .. N - 1 : p[i] = q[i + 1]
  BY <1>1, <1>2, <1>3
<1>5. \A j \in 2 .. N : j - 1 \in 1 .. N - 1 /\ p[j - 1] = q[j]
  BY <1>4
<1>6. Sends(q, cmd, c) => Sends(p, cmd, c) \/ (q[1].cmd = cmd /\ q[1].c = c)
  <2>1. SUFFICES ASSUME NEW j \in 1 .. N, q[j].cmd = cmd, q[j].c = c, j # 1
                 PROVE  Sends(p, cmd, c)
    BY <1>3 DEF Sends
  <2>2. j \in 2 .. N
    BY <2>1
  <2>. QED  BY <1>4, <1>5, <2>1, <2>2 DEF Sends
<1>7. Sends(p, cmd, c) => Sends(q, cmd, c)
  BY <1>3, <1>4 DEF Sends
<1>8. ASSUME LastPart(q, c)
      PROVE  LastPart(p, c) \/ (q[1].cmd = "PART" /\ q[1].c = c /\ ~ Sends(p, "JOIN", c))
  <2>1. PICK j \in 1 .. N : /\ q[j].cmd = "PART" /\ q[j].c = c
                            /\ \A k \in j + 1 .. N : ~ (q[k].cmd = "JOIN" /\ q[k].c = c)
    BY <1>3, <1>8 DEF LastPart
  <2>2. CASE j = 1
    <3>1. \A i \in 1 .. N - 1 : i + 1 \in j + 1 .. N
      BY <2>2
    <3>2. \A i \in 1 .. N - 1 : ~ (p[i].cmd = "JOIN" /\ p[i].c = c)
      BY <1>4, <2>1, <3>1
    <3>3. ~ Sends(p, "JOIN", c)
      BY <1>4, <3>2 DEF Sends
    <3>. QED  BY <2>1, <2>2, <3>3
  <2>3. CASE j # 1
    <3>1. j \in 2 .. N /\ j - 1 \in 1 .. N - 1 /\ p[j - 1] = q[j]
      BY <1>5, <2>3
    <3>2. \A k \in (j - 1) + 1 .. N - 1 : k + 1 \in j + 1 .. N /\ p[k] = q[k + 1]
      BY <1>4, <3>1
    <3>3. \A k \in (j - 1) + 1 .. N - 1 : ~ (p[k].cmd = "JOIN" /\ p[k].c = c)
      BY <2>1, <3>2
    <3>. QED  BY <1>4, <2>1, <3>1, <3>3 DEF LastPart
  <2>. QED  BY <2>2, <2>3
<1>. QED  BY <1>1, <1>2, <1>6, <1>7, <1>8

\* Views to come when one is reached.
LEMMA SomeTail ==
    ASSUME NEW h, NEW g, NEW c, Len(h) \in Nat, Len(g) = Len(h) - 1,
           \A i \in 1 .. Len(h) - 1 : g[i] = h[i + 1]
    PROVE  /\ SomeOut(h, c) => SomeOut(g, c) \/ c \notin h[1].mine
           /\ SomeIn(h, c) => SomeIn(g, c) \/ c \in h[1].mine
           /\ SomeClear(h, c) => SomeClear(g, c) \/ h[1].list[c] \cap h[1].away = {}
<1>1. PICK N \in Nat : N = Len(h)
  OBVIOUS
<1>2. \A i \in 2 .. N : i - 1 \in 1 .. Len(g) /\ g[i - 1] = h[i]
  BY <1>1
<1>3. \A i \in 1 .. N : i = 1 \/ i \in 2 .. N
  OBVIOUS
<1>4. SomeOut(h, c) => SomeOut(g, c) \/ c \notin h[1].mine
  BY <1>1, <1>2, <1>3 DEF SomeOut
<1>5. SomeIn(h, c) => SomeIn(g, c) \/ c \in h[1].mine
  BY <1>1, <1>2, <1>3 DEF SomeIn
<1>6. SomeClear(h, c) => SomeClear(g, c) \/ h[1].list[c] \cap h[1].away = {}
  BY <1>1, <1>2, <1>3 DEF SomeClear
<1>. QED  BY <1>4, <1>5, <1>6

LEMMA SomeMore ==
    ASSUME NEW h, NEW g, NEW c, Len(h) \in Nat, Len(g) \in Nat, Len(g) >= Len(h),
           \A i \in 1 .. Len(h) : g[i] = h[i]
    PROVE  /\ SomeOut(h, c) => SomeOut(g, c)
           /\ SomeIn(h, c) => SomeIn(g, c)
           /\ SomeClear(h, c) => SomeClear(g, c)
<1>1. \A i \in 1 .. Len(h) : i \in 1 .. Len(g)
  OBVIOUS
<1>. QED  BY <1>1 DEF SomeOut, SomeIn, SomeClear

LEMMA SaysTail ==
    ASSUME NEW ls \in Seq(Lines), ls # <<>>, NEW c
    PROVE  /\ EndsNames(ls, c) => EndsNames(Tail(ls), c) \/ (Head(ls).line = "366" /\ Head(ls).c = c)
           /\ SaysAway(ls) => SaysAway(Tail(ls)) \/ (Head(ls).line = "AWAY" /\ Head(ls).away)
<1>1. /\ Len(ls) \in Nat /\ Len(ls) >= 1 /\ Head(ls) = ls[1] /\ Len(Tail(ls)) = Len(ls) - 1
      /\ \A i \in 1 .. Len(ls) - 1 : Tail(ls)[i] = ls[i + 1]
  BY TailFacts
<1>2. PICK p : p = Tail(ls)
  OBVIOUS
<1>3. PICK N \in Nat : N = Len(ls)
  BY <1>1
<1>4. N >= 1 /\ Len(p) = N - 1 /\ \A i \in 1 .. N - 1 : p[i] = ls[i + 1]
  BY <1>1, <1>2, <1>3
<1>5. \A j \in 2 .. N : j - 1 \in 1 .. N - 1 /\ p[j - 1] = ls[j]
  BY <1>4
<1>6. \A i \in 1 .. N : i = 1 \/ i \in 2 .. N
  OBVIOUS
<1>7. EndsNames(ls, c) => EndsNames(p, c) \/ (ls[1].line = "366" /\ ls[1].c = c)
  BY <1>3, <1>4, <1>5, <1>6 DEF EndsNames
<1>8. SaysAway(ls) => SaysAway(p) \/ (ls[1].line = "AWAY" /\ ls[1].away)
  BY <1>3, <1>4, <1>5, <1>6 DEF SaysAway
<1>. QED  BY <1>1, <1>2, <1>7, <1>8

LEMMA SaysMore ==
    ASSUME NEW ls \in Seq(Lines), NEW ms \in Seq(Lines), NEW c
    PROVE  /\ EndsNames(ls, c) => EndsNames(ls \o ms, c)
           /\ SaysAway(ls) \/ SaysAway(ms) => SaysAway(ls \o ms)
<1>1. /\ Len(ls) \in Nat /\ Len(ms) \in Nat /\ Len(ls \o ms) = Len(ls) + Len(ms)
      /\ \A i \in 1 .. Len(ls) : (ls \o ms)[i] = ls[i]
      /\ \A i \in 1 .. Len(ms) : (ls \o ms)[Len(ls) + i] = ms[i]
  BY ConcatFacts
<1>2. PICK p : p = ls \o ms
  OBVIOUS
<1>3. /\ \A i \in 1 .. Len(ls) : i \in 1 .. Len(p) /\ p[i] = ls[i]
      /\ \A i \in 1 .. Len(ms) : Len(ls) + i \in 1 .. Len(p) /\ p[Len(ls) + i] = ms[i]
  BY <1>1, <1>2
<1>4. EndsNames(ls, c) => EndsNames(p, c)
  BY <1>3 DEF EndsNames
<1>5. SaysAway(ls) \/ SaysAway(ms) => SaysAway(p)
  BY <1>3 DEF SaysAway
<1>. QED  BY <1>2, <1>4, <1>5

-----------------------------------------------------------------------------
(***************************************************************************)
(* The view of the server                                                  *)
(***************************************************************************)

LEMMA SeenFacts ==
    ASSUME Typed
    PROVE  /\ Seen \in Views
           /\ Seen.me = nick["me"]
           /\ Seen.mine \subseteq Channels
           /\ \A c \in Channels : c \in Seen.mine <=> IsIn(c)
           /\ \A c \in Channels : Seen.list[c] = IF IsIn(c) THEN Names(c) ELSE {}
           /\ Seen.away = IF peer.away /\ Shared # {} THEN {nick["peer"]} ELSE {}
<1>1. \A c \in Channels : /\ Names(c) \subseteq Nicks
                          /\ \A n : n \in Names(c) <=> \/ "me" \in in[c] /\ n = nick["me"]
                                                       \/ "peer" \in in[c] /\ n = nick["peer"]
  BY NamesFacts
<1>2. nick["me"] \in Nicks /\ nick["peer"] \in Nicks /\ nick["me"] # nick["peer"]
  BY DEF Typed, TypeOK, Users
<1>3. Shared # {} => \E c \in Channels : "me" \in in[c] /\ "peer" \in in[c]
  BY DEF Shared, Users
<1>4. /\ Seen.me = nick["me"]
      /\ Seen.mine = {c \in Channels : IsIn(c)}
      /\ Seen.list = [c \in Channels |-> IF IsIn(c) THEN Names(c) ELSE {}]
      /\ Seen.away = IF peer.away /\ Shared # {} THEN {nick["peer"]} ELSE {}
  BY DEF Seen
<1>5. \A c \in Channels : Seen.list[c] = IF IsIn(c) THEN Names(c) ELSE {}
  BY <1>4
<1>6. Seen \in [me : Nicks, mine : SUBSET Channels, list : [Channels -> SUBSET Nicks], away : SUBSET Nicks]
  <2>1. {c \in Channels : IsIn(c)} \in SUBSET Channels
    OBVIOUS
  <2>2. [c \in Channels |-> IF IsIn(c) THEN Names(c) ELSE {}] \in [Channels -> SUBSET Nicks]
    BY <1>1
  <2>3. (IF peer.away /\ Shared # {} THEN {nick["peer"]} ELSE {}) \in SUBSET Nicks
    BY <1>2
  <2>. QED  BY <1>2, <2>1, <2>2, <2>3 DEF Seen
<1>7. \A c \in Channels : IF c \in Seen.mine THEN Seen.me \in Seen.list[c] ELSE Seen.list[c] = {}
  BY <1>1, <1>4, <1>5 DEF IsIn
<1>8. Seen.me \notin Seen.away
  BY <1>2, <1>4
<1>9. \A n \in Seen.away : \E c \in Channels : n \in Seen.list[c]
  BY <1>1, <1>3, <1>4, <1>5 DEF IsIn
<1>. QED  BY <1>4, <1>5, <1>6, <1>7, <1>8, <1>9 DEF Views

LEMMA SeenKept ==
    ASSUME UNCHANGED <<nick, in, peer>>
    PROVE  Seen' = Seen
BY DEF Seen, IsIn, Names, Shared

LEMMA ViewFacts ==
    ASSUME NEW v \in Views
    PROVE  /\ v.me \in Nicks /\ v.mine \subseteq Channels /\ v.away \subseteq Nicks
           /\ v.list \in [Channels -> SUBSET Nicks]
           /\ \A c \in Channels : v.list[c] \subseteq Nicks
           /\ \A c \in v.mine : v.me \in v.list[c]
           /\ \A c \in Channels \ v.mine : v.list[c] = {}
           /\ v.me \notin v.away
           /\ \A n \in v.away : \E c \in Channels : n \in v.list[c]
BY DEF Views

LEMMA FlowFacts ==
    ASSUME NEW ls \in Seq(Lines), NEW h, Flow(h, ls)
    PROVE  /\ h \in Seq(Views) /\ Len(h) \in Nat /\ Len(h) = Len(ls) + 1 /\ Len(h) >= 1
           /\ h[1] \in Views
           /\ \A i \in 1 .. Len(h) : h[i] \in Views
<1>1. h \in Seq(Views) /\ Len(h) = Len(ls) + 1 /\ Len(ls) \in Nat
  BY ElementFacts DEF Flow, Trace
<1>2. Len(h) \in Nat /\ \A i \in 1 .. Len(h) : h[i] \in Views
  BY <1>1, ElementFacts
<1>. QED  BY <1>1, <1>2

-----------------------------------------------------------------------------
(***************************************************************************)
(* The user's steps                                                        *)
(***************************************************************************)

\* What the user does changes neither the view nor what is on the way to the client.
LEMMA UserKeeps ==
    ASSUME Typed, NEW h, Lagging(h),
           UNCHANGED <<wire, nick, in, peer, current, facts, autojoin, hidden, stalled>>,
           joined' \subseteq joined,
           \A d \in Channels : members'[d] \subseteq members[d],
           \A d \in joined' : members'[d] = members[d] /\ (d \in syncing' <=> d \in syncing),
           \A d, cmd : Sends(out, cmd, d) => Sends(out', cmd, d),
           \A d \in joined \ joined' : Sends(out', "PART", d)
    PROVE  /\ Mirror(h)' /\ Lists(h)' /\ Leaves(h)' /\ Fills(h)' /\ Shows(h)' /\ Rejoins(h)'
<1>0. joined \subseteq Channels
  BY DEF Typed, TypeOK
<1>1. Mirror(h)'
  BY SeenKept DEF Lagging, Mirror
<1>2. Lists(h)'
  BY DEF Lagging, Lists
<1>3. Leaves(h)'
  BY DEF Lagging, Leaves
<1>4. Fills(h)'
  <2>1. SUFFICES ASSUME NEW c \in joined', c \notin stalled  PROVE Filled(h, c)'
    BY DEF Fills
  <2>2. Filled(h, c) /\ Synced(c)' = Synced(c) /\ members'[c] = members[c]
    BY <2>1 DEF Lagging, Fills, Synced
  <2>3. CASE wire # <<>> /\ NamesOf(Head(wire), c)
    BY <2>2, <2>3 DEF Filled
  <2>4. CASE ~ (wire # <<>> /\ NamesOf(Head(wire), c))
    BY <2>2, <2>4 DEF Filled
  <2>. QED  BY <2>3, <2>4
<1>5. Shows(h)'
  <2>1. SUFFICES ASSUME NEW c \in joined'  PROVE Shown(h, c)'
    BY DEF Shows
  <2>2. Shown(h, c) /\ members'[c] = members[c]
    BY <2>1 DEF Lagging, Shows
  <2>. QED  BY <2>2 DEF Shown
<1>6. Rejoins(h)'
  BY DEF Lagging, Rejoins
<1>. QED  BY <1>1, <1>2, <1>3, <1>4, <1>5, <1>6

\* A channel that was asked to be left before is still being left.
LEMMA ObeyedKept ==
    ASSUME NEW h, NEW c, Obeyed(h, c),
           LastPart(out, c) => LastPart(out', c),
           Sends(out', "JOIN", c) => Sends(out, "JOIN", c),
           Sends(out, "PART", c) => Sends(out', "PART", c),
           c \in cancelled => c \in cancelled', c \in hidden => c \in hidden'
    PROVE  Obeyed(h, c)'
BY DEF Obeyed

LEMMA StepUserJoin ==
    ASSUME Typed, NEW h, Lagging(h), NEW c \in Channels, Join(c)
    PROVE  Lagging(h)'
<1>1. /\ out' = Append(out, [cmd |-> "JOIN", c |-> c])
      /\ cancelled' = cancelled \ {c}
      /\ \A d \in Channels : wish'[d] = IF d = c THEN "in" ELSE wish[d]
      /\ UNCHANGED <<joined, syncing, members, facts, autojoin, current, wire, nick, in, peer, stalled, hidden>>
  BY UserJoinEffect
<1>2. PICK x \in Commands : x = [cmd |-> "JOIN", c |-> c]
  BY CommandsMade
<1>3. out \in Seq(Commands) /\ out' = Append(out, x) /\ x.cmd = "JOIN" /\ x.c = c
  BY <1>1, <1>2 DEF Typed
<1>4. \A d, cmd : Sends(out, cmd, d) => Sends(out', cmd, d)
  BY <1>3, SendsAppend
<1>5. Mirror(h)' /\ Lists(h)' /\ Leaves(h)' /\ Fills(h)' /\ Shows(h)' /\ Rejoins(h)'
  BY <1>1, <1>4, UserKeeps
<1>6. Obeys(h)'
  <2>1. SUFFICES ASSUME NEW d \in Channels, wish'[d] = "out"  PROVE Obeyed(h, d)'
    BY DEF Obeys
  <2>2. d # c /\ wish[d] = "out"
    BY <1>1, <2>1
  <2>3. /\ Sends(out', "JOIN", d) => Sends(out, "JOIN", d)
        /\ LastPart(out, d) => LastPart(out', d)
    BY <1>3, <2>2, SendsAppend
  <2>4. Obeyed(h, d)
    BY <2>2 DEF Lagging, Obeys
  <2>. QED  BY <1>1, <1>4, <2>2, <2>3, <2>4, ObeyedKept
<1>. QED  BY <1>5, <1>6 DEF Lagging

LEMMA StepUserNick ==
    ASSUME Typed, NEW h, Lagging(h), NEW n \in Nicks, Nick(n)
    PROVE  Lagging(h)'
<1>1. /\ out' = Append(out, [cmd |-> "NICK", n |-> n])
      /\ UNCHANGED <<cancelled, wish, joined, syncing, members, facts, autojoin, current, wire, nick, in, peer,
                     stalled, hidden>>
  BY DEF Nick, client, rows, marks, server, ghosts
<1>2. PICK x \in Commands : x = [cmd |-> "NICK", n |-> n]
  BY CommandsMade
<1>3. out \in Seq(Commands) /\ out' = Append(out, x) /\ x.cmd = "NICK"
  BY <1>1, <1>2 DEF Typed
<1>4. \A d, cmd : Sends(out, cmd, d) => Sends(out', cmd, d)
  BY <1>3, SendsAppend
<1>5. Mirror(h)' /\ Lists(h)' /\ Leaves(h)' /\ Fills(h)' /\ Shows(h)' /\ Rejoins(h)'
  BY <1>1, <1>4, UserKeeps
<1>6. Obeys(h)'
  <2>1. SUFFICES ASSUME NEW d \in Channels, wish[d] = "out"  PROVE Obeyed(h, d)'
    BY <1>1 DEF Obeys
  <2>3. /\ Sends(out', "JOIN", d) => Sends(out, "JOIN", d)
        /\ LastPart(out, d) => LastPart(out', d)
    BY <1>3, SendsAppend
  <2>4. Obeyed(h, d)
    BY <2>1 DEF Lagging, Obeys
  <2>. QED  BY <1>1, <1>4, <2>3, <2>4, ObeyedKept
<1>. QED  BY <1>5, <1>6 DEF Lagging

LEMMA StepUserRefused ==
    ASSUME Typed, NEW h, Lagging(h), NEW c \in Channels, JoinRefused(c)
    PROVE  Lagging(h)'
<1>1. UNCHANGED <<out, cancelled, wish, joined, syncing, members, facts, autojoin, current, wire, nick, in, peer,
                  stalled, hidden>>
  BY DEF JoinRefused, rows, server
<1>2. Mirror(h)' /\ Lists(h)' /\ Leaves(h)' /\ Fills(h)' /\ Shows(h)' /\ Rejoins(h)'
  BY <1>1, UserKeeps
<1>3. Obeys(h)'
  BY <1>1, ObeyedKept DEF Lagging, Obeys
<1>. QED  BY <1>2, <1>3 DEF Lagging

\* A channel that says it is not joined is left: nobody is in it, or the user will not be.
LEMMA CancelledIsObeyed ==
    ASSUME Typed, NEW h, Lagging(h), NEW c \in Channels, c \notin joined, c \in cancelled',
           out' = out, hidden' = hidden
    PROVE  Obeyed(h, c)'
<1>1. wire \in Seq(Lines) /\ Flow(h, wire)
  BY DEF Typed, Lagging, Mirror
<1>2. Len(h) \in Nat /\ Len(h) >= 1
  BY <1>1, FlowFacts
<1>3. CASE c \in h[1].mine
  BY <1>3 DEF Lagging, Leaves, Obeyed
<1>4. CASE c \notin h[1].mine
  <2>1. SomeOut(h, c)
    BY <1>2, <1>4 DEF SomeOut
  <2>. QED  BY <2>1 DEF Obeyed
<1>. QED  BY <1>3, <1>4

LEMMA StepUserPart ==
    ASSUME Typed, NEW h, Lagging(h), NEW c \in Channels, Part(c)
    PROVE  Lagging(h)'
<1>1. /\ \A d \in Channels : wish'[d] = IF d = c THEN "out" ELSE wish[d]
      /\ UNCHANGED <<facts, autojoin, current, wire, nick, in, peer, stalled, hidden>>
      /\ c \in row \ joined =>
           /\ cancelled' = cancelled \cup {c} /\ UNCHANGED <<out, joined, syncing, members>>
      /\ c \notin row \ joined =>
           /\ out' = Append(out, [cmd |-> "PART", c |-> c]) /\ cancelled' = cancelled
           /\ joined' = joined \ {c}
           /\ \A d \in Channels \ {c} : members'[d] = members[d] /\ (d \in syncing' <=> d \in syncing)
           /\ members'[c] \subseteq members[c]
  BY UserPartEffect
<1>0. joined \subseteq Channels
  BY DEF Typed, TypeOK
<1>2. CASE c \in row \ joined
  <2>1. Mirror(h)' /\ Lists(h)' /\ Leaves(h)' /\ Fills(h)' /\ Shows(h)' /\ Rejoins(h)'
    BY <1>1, <1>2, UserKeeps
  <2>2. ASSUME NEW d \in Channels, wish'[d] = "out"  PROVE Obeyed(h, d)'
    <3>1. CASE d = c
      BY <1>1, <1>2, <3>1, CancelledIsObeyed
    <3>2. CASE d # c
      <4>1. Obeyed(h, d)
        BY <1>1, <2>2, <3>2 DEF Lagging, Obeys
      <4>. QED  BY <1>1, <1>2, <4>1, ObeyedKept
    <3>. QED  BY <3>1, <3>2
  <2>. QED  BY <2>1, <2>2 DEF Lagging, Obeys
<1>3. CASE c \notin row \ joined
  <2>1. PICK x \in Commands : x = [cmd |-> "PART", c |-> c]
    BY CommandsMade
  <2>2. out \in Seq(Commands) /\ out' = Append(out, x) /\ x.cmd = "PART" /\ x.c = c
    BY <1>1, <1>3, <2>1 DEF Typed
  <2>3. /\ \A d, cmd : Sends(out, cmd, d) => Sends(out', cmd, d)
        /\ Sends(out', "PART", c) /\ LastPart(out', c)
        /\ \A d : /\ Sends(out', "JOIN", d) => Sends(out, "JOIN", d)
                  /\ LastPart(out, d) => LastPart(out', d)
    BY <2>2, SendsAppend
  <2>4. /\ \A d \in Channels : members'[d] \subseteq members[d]
        /\ \A d \in joined' : members'[d] = members[d] /\ (d \in syncing' <=> d \in syncing)
        /\ joined' \subseteq joined /\ \A d \in joined \ joined' : Sends(out', "PART", d)
    BY <1>0, <1>1, <1>3, <2>3
  <2>5. Mirror(h)' /\ Lists(h)' /\ Leaves(h)' /\ Fills(h)' /\ Shows(h)' /\ Rejoins(h)'
    BY <1>1, <2>3, <2>4, UserKeeps
  <2>6. ASSUME NEW d \in Channels, wish'[d] = "out"  PROVE Obeyed(h, d)'
    <3>1. CASE d = c
      BY <2>3, <3>1 DEF Obeyed
    <3>2. CASE d # c
      <4>1. Obeyed(h, d)
        BY <1>1, <2>6, <3>2 DEF Lagging, Obeys
      <4>. QED  BY <1>1, <1>3, <2>3, <4>1, ObeyedKept
    <3>. QED  BY <3>1, <3>2
  <2>. QED  BY <2>5, <2>6 DEF Lagging, Obeys
<1>. QED  BY <1>2, <1>3

LEMMA StepUserClose ==
    ASSUME Typed, NEW h, Lagging(h), NEW c \in Channels, Close(c)
    PROVE  Lagging(h)'
<1>1. /\ c \notin joined /\ cancelled' = cancelled \cup {c}
      /\ syncing' = syncing \ {c}
      /\ \A d \in Channels : members'[d] = IF d = c THEN {} ELSE members[d]
      /\ \A d \in Channels : wish'[d] = IF d = c THEN "out" ELSE wish[d]
      /\ UNCHANGED <<joined, facts, autojoin, current, out, wire, nick, in, peer, stalled, hidden>>
  BY UserCloseEffect
<1>0. joined \subseteq Channels
  BY DEF Typed, TypeOK
<1>2. /\ \A d \in Channels : members'[d] \subseteq members[d]
      /\ \A d \in joined' : members'[d] = members[d] /\ (d \in syncing' <=> d \in syncing)
  BY <1>0, <1>1
<1>3. Mirror(h)' /\ Lists(h)' /\ Leaves(h)' /\ Fills(h)' /\ Shows(h)' /\ Rejoins(h)'
  BY <1>1, <1>2, UserKeeps
<1>4. ASSUME NEW d \in Channels, wish'[d] = "out"  PROVE Obeyed(h, d)'
  <2>1. CASE d = c
    BY <1>1, <2>1, CancelledIsObeyed
  <2>2. CASE d # c
    <3>1. Obeyed(h, d)
      BY <1>1, <1>4, <2>2 DEF Lagging, Obeys
    <3>. QED  BY <1>1, <3>1, ObeyedKept
  <2>. QED  BY <2>1, <2>2
<1>. QED  BY <1>3, <1>4 DEF Lagging, Obeys

-----------------------------------------------------------------------------
(***************************************************************************)
(* The client reads a line                                                 *)
(***************************************************************************)

\* The views g are what is left of the views h when the first is passed.
Reached(h, g) ==
    /\ h[1] \in Views /\ h[2] \in Views /\ g[1] = h[2] /\ g[Len(g)] = h[Len(h)]
    /\ Len(g) \in Nat /\ Len(g) >= 1
    /\ \A c : /\ SomeOut(h, c) => SomeOut(g, c) \/ c \notin h[1].mine
              /\ SomeIn(h, c) => SomeIn(g, c) \/ c \in h[1].mine
              /\ SomeClear(h, c) => SomeClear(g, c) \/ h[1].list[c] \cap h[1].away = {}

\* What the first line l on the wire has to do with the rest of it, and with the views.
Precedes(h, l, ls, ms) ==
    /\ Follows(l, h[1], h[2])
    /\ \A c : EndsNames(ls, c) => EndsNames(ms, c) \/ (l.line = "366" /\ l.c = c)
    /\ SaysAway(ls) => SaysAway(ms) \/ (l.line = "AWAY" /\ l.away)
    /\ \A c : ms # <<>> /\ NamesOf(Head(ms), c) =>
         l.line \in {"353", "JOIN"} /\ l.c = c /\ (l.line = "JOIN" => l.n = h[1].me)
    /\ l.line = "JOIN" /\ l.n \in h[1].away => SaysAway(ms)
    /\ l.line = "353" => EndsNames(ms, l.c)

LEMMA Reading ==
    ASSUME NEW ls \in Seq(Lines), ls # <<>>, NEW h, Flow(h, ls), NEW l, l = Head(ls)
    PROVE  /\ Reached(h, Tail(h)) /\ Precedes(h, l, ls, Tail(ls)) /\ Flow(Tail(h), Tail(ls))
           /\ l = ls[1] /\ l \in Lines
<1>1. /\ Len(ls) \in Nat /\ Len(ls) >= 1 /\ l = ls[1] /\ l \in Lines /\ Tail(ls) \in Seq(Lines)
      /\ Len(Tail(ls)) = Len(ls) - 1
      /\ \A i \in 1 .. Len(ls) - 1 : Tail(ls)[i] = ls[i + 1]
  BY TailFacts
<1>2. /\ Flow(Tail(h), Tail(ls))
      /\ Len(h) \in Nat /\ Len(h) >= 2 /\ Len(Tail(h)) = Len(h) - 1
      /\ h[1] \in Views /\ h[2] \in Views /\ Follows(Head(ls), h[1], h[2])
      /\ \A i \in 1 .. Len(h) - 1 : Tail(h)[i] = h[i + 1]
      /\ Tail(h)[1] = h[2]
      /\ Tail(h)[Len(Tail(h))] = h[Len(h)]
  BY FlowTail
<1>3. PICK g : g = Tail(h)
  OBVIOUS
<1>4. PICK ms : ms = Tail(ls)
  OBVIOUS
<1>5. PICK N \in Nat : N = Len(ls)
  BY <1>1
<1>6. /\ N >= 1 /\ Len(ms) = N - 1 /\ ms \in Seq(Lines)
      /\ \A i \in 1 .. N - 1 : ms[i] = ls[i + 1]
  BY <1>1, <1>4, <1>5
<1>7. Reached(h, g)
  <2>0. Len(h) \in Nat /\ Len(g) = Len(h) - 1 /\ \A i \in 1 .. Len(h) - 1 : g[i] = h[i + 1]
    BY <1>2, <1>3
  <2>1. \A c : /\ SomeOut(h, c) => SomeOut(g, c) \/ c \notin h[1].mine
               /\ SomeIn(h, c) => SomeIn(g, c) \/ c \in h[1].mine
               /\ SomeClear(h, c) => SomeClear(g, c) \/ h[1].list[c] \cap h[1].away = {}
    BY <2>0, SomeTail
  <2>2. /\ h[1] \in Views /\ h[2] \in Views /\ g[1] = h[2] /\ g[Len(g)] = h[Len(h)]
        /\ Len(g) \in Nat /\ Len(g) >= 1
    BY <1>2, <1>3
  <2>. QED  BY <2>1, <2>2 DEF Reached
<1>8. Precedes(h, l, ls, ms)
  <2>1. /\ \A c : EndsNames(ls, c) => EndsNames(ms, c) \/ (l.line = "366" /\ l.c = c)
        /\ SaysAway(ls) => SaysAway(ms) \/ (l.line = "AWAY" /\ l.away)
    BY <1>4, SaysTail
  <2>2. ASSUME NEW c, ms # <<>>, NamesOf(Head(ms), c)
        PROVE  l.line \in {"353", "JOIN"} /\ l.c = c /\ (l.line = "JOIN" => l.n = h[1].me)
    <3>1. Len(ms) >= 1 /\ Head(ms) = ms[1]
      BY <1>6, <2>2, TailFacts
    <3>2. 2 \in 1 .. Len(ls) /\ 2 > 1 /\ ms[1] = ls[2] /\ 2 - 1 = 1
      BY <1>5, <1>6, <3>1
    <3>3. ls[2].line \in {"353", "366"} /\ ls[2].c = c
      BY <2>2, <3>1, <3>2 DEF NamesOf
    <3>4. /\ ls[2 - 1].line \in {"353", "JOIN"} /\ ls[2 - 1].c = ls[2].c
          /\ ls[2 - 1].line = "JOIN" => ls[2 - 1].n = h[2 - 1].me
      BY <3>2, <3>3 DEF Flow, Adjacent
    <3>. QED  BY <1>1, <3>2, <3>3, <3>4
  <2>3. ASSUME l.line = "JOIN", l.n \in h[1].away  PROVE SaysAway(ms)
    <3>1. 1 \in 1 .. Len(ls)
      BY <1>1
    <3>2. 1 + 1 \in 1 .. Len(ls) /\ ls[1 + 1].line = "AWAY" /\ ls[1 + 1].away
      BY <1>1, <2>3, <3>1 DEF Flow, Announced
    <3>3. 1 \in 1 .. Len(ms) /\ ms[1] = ls[1 + 1]
      BY <1>5, <1>6, <3>2
    <3>. QED  BY <3>2, <3>3 DEF SaysAway
  <2>4. ASSUME l.line = "353"  PROVE EndsNames(ms, l.c)
    <3>1. 1 \in 1 .. Len(ls)
      BY <1>1
    <3>2. PICK j \in 1 + 1 .. Len(ls) : ls[j].line = "366" /\ ls[j].c = ls[1].c
      BY <1>1, <2>4, <3>1 DEF Flow, Ends
    <3>3. j - 1 \in 1 .. Len(ms) /\ ms[j - 1] = ls[j]
      BY <1>5, <1>6, <3>2
    <3>. QED  BY <1>1, <3>2, <3>3 DEF EndsNames
  <2>. QED  BY <1>2, <2>1, <2>2, <2>3, <2>4 DEF Precedes
<1>. QED  BY <1>1, <1>2, <1>3, <1>4, <1>7, <1>8

LEMMA LastPartSends ==
    ASSUME NEW q, NEW c
    PROVE  LastPart(q, c) => Sends(q, "PART", c)
BY DEF LastPart, Sends

LEMMA LeavesRead ==
    ASSUME NEW h, NEW g, Reached(h, g), Leaves(h),
           \A c : Sends(out, "PART", c) => Sends(out', "PART", c),
           \A c \in h[2].mine :
             \/ c \in h[1].mine /\ (c \in joined \cup hidden => c \in joined' \cup hidden')
             \/ c \in joined' \cup hidden' \/ Sends(out', "PART", c) \/ SomeOut(g, c)
    PROVE  Leaves(g)'
BY DEF Reached, Leaves

LEMMA RejoinsRead ==
    ASSUME NEW h, NEW g, Reached(h, g), Rejoins(h),
           \A c : Sends(out, "JOIN", c) => Sends(out', "JOIN", c),
           \A c \in autojoin' : c \in h[2].mine \/ (c \in autojoin /\ c \notin h[1].mine)
    PROVE  Rejoins(g)'
<1>1. \A c : c \in h[2].mine => SomeIn(g, c)
  BY DEF Reached, SomeIn
<1>. QED  BY <1>1 DEF Reached, Rejoins

LEMMA ObeyedRead ==
    ASSUME NEW h, NEW g, Reached(h, g), NEW c, Obeyed(h, c),
           LastPart(out, c) => LastPart(out', c),
           Sends(out', "JOIN", c) => Sends(out, "JOIN", c),
           Sends(out, "PART", c) => Sends(out', "PART", c),
           c \in cancelled => c \in cancelled', c \in hidden => c \in hidden',
           c \notin h[1].mine => c \notin h[2].mine
    PROVE  Obeyed(g, c)'
<1>1. SomeOut(h, c) => SomeOut(g, c)
  <2>1. c \notin h[2].mine => SomeOut(g, c)
    BY DEF Reached, SomeOut
  <2>. QED  BY <2>1 DEF Reached
<1>2. g[Len(g)] = h[Len(h)]
  BY DEF Reached
<1>. QED  BY <1>1, <1>2 DEF Obeyed

\* A line that neither sends anything nor touches what is to be left: most of them.
LEMMA QuietRead ==
    ASSUME Typed, NEW h, NEW g, Lagging(h), Reached(h, g),
           UNCHANGED <<out, cancelled, hidden, wish>>,
           h[2].mine \subseteq h[1].mine,
           \A c \in h[2].mine : c \in joined => c \in joined',
           \A c \in autojoin' : c \in autojoin /\ (c \in h[1].mine => c \in h[2].mine)
    PROVE  Leaves(g)' /\ Rejoins(g)' /\ Obeys(g)'
<1>1. Leaves(g)'
  BY LeavesRead DEF Lagging
<1>2. Rejoins(g)'
  BY RejoinsRead DEF Lagging
<1>3. Obeys(g)'
  <2>1. SUFFICES ASSUME NEW c \in Channels, wish[c] = "out"  PROVE Obeyed(g, c)'
    BY DEF Obeys
  <2>2. Obeyed(h, c) /\ (c \notin h[1].mine => c \notin h[2].mine)
    BY <2>1 DEF Lagging, Obeys
  <2>. QED  BY <2>2, ObeyedRead
<1>. QED  BY <1>1, <1>2, <1>3

\* A list without a reply to come, before and after a line.
LEMMA FilledAlone ==
    ASSUME NEW h, NEW c, Filled(h, c), wire = <<>> \/ ~ NamesOf(Head(wire), c)
    PROVE  members[c] = h[1].list[c]
BY DEF Filled

LEMMA AloneFilled ==
    ASSUME NEW g, NEW c, wire' = <<>> \/ ~ NamesOf(Head(wire'), c), members'[c] = g[1].list[c]
    PROVE  Filled(g, c)'
BY DEF Filled

\* What a line about somebody else or of another kind does to the lists.
LEMMA FillsRead ==
    ASSUME Typed, NEW h, NEW g, Lagging(h), Reached(h, g), wire # <<>>, wire' = Tail(wire),
           NEW l, l = Head(wire), Precedes(h, l, wire, Tail(wire)), l.line \notin {"353", "366"},
           l.line = "JOIN" => l.n # h[1].me,
           joined' \subseteq joined, stalled' = stalled,
           \A c \in joined' : members[c] = h[1].list[c] => members'[c] = h[2].list[c]
    PROVE  Fills(g)'
<1>1. SUFFICES ASSUME NEW c \in joined', c \notin stalled  PROVE Filled(g, c)'
  BY DEF Fills
<1>2. ~ NamesOf(Head(wire), c)
  BY DEF NamesOf
<1>3. members[c] = h[1].list[c]
  BY <1>1, <1>2, FilledAlone DEF Lagging, Fills
<1>4. wire' = <<>> \/ ~ NamesOf(Head(wire'), c)
  BY DEF Precedes
<1>5. members'[c] = g[1].list[c]
  BY <1>1, <1>3 DEF Reached
<1>. QED  BY <1>4, <1>5, AloneFilled

\* What is shown of those away: while a line reads nothing of it, what was to come is to come.
LEMMA ShownRead ==
    ASSUME NEW h, NEW g, Reached(h, g), wire' = Tail(wire),
           NEW l, Precedes(h, l, wire, Tail(wire)),
           NEW c, Shown(h, c), members[c] \subseteq h[1].list[c],
           Sends(out, "WHO", c) => Sends(out', "WHO", c),
           l.line # "366" \/ l.c # c \/ Sends(out', "WHO", c),
           (l.line = "AWAY" /\ l.away) \/ (\A n \in members[c] \cap h[1].away : facts[n].away)
             => Shown(g, c)'
    PROVE  Shown(g, c)'
<1>1. CASE SaysAway(wire) \/ EndsNames(wire, c) \/ Sends(out, "WHO", c)
  BY <1>1 DEF Shown, Precedes
<1>2. CASE SomeClear(h, c)
  <2>1. SomeClear(g, c) \/ \A n \in members[c] \cap h[1].away : facts[n].away
    BY <1>2 DEF Reached
  <2>. QED  BY <2>1 DEF Shown
<1>3. CASE \A n \in members[c] \cap h[1].away : facts[n].away
  BY <1>3
<1>. QED  BY <1>1, <1>2, <1>3 DEF Shown

\* Where a step that reads a line begins.
LEMMA ReadStart ==
    ASSUME Typed, NEW h, Lagging(h), wire # <<>>, wire' = Tail(wire), UNCHANGED <<nick, in, peer>>,
           NEW g, g = Tail(h), NEW l, l = Head(wire)
    PROVE  /\ Reached(h, g) /\ Precedes(h, l, wire, Tail(wire)) /\ Mirror(g)'
           /\ h[1] \in Views /\ h[2] \in Views /\ g[1] = h[2] /\ Follows(l, h[1], h[2])
           /\ current = h[1].me /\ ~ facts[current].away /\ current \in Nicks
           /\ joined \subseteq h[1].mine /\ joined \subseteq row /\ row \subseteq Channels
           /\ \A c \in Channels : members[c] \subseteq h[1].list[c]
           /\ \A c \in joined : Shown(h, c)
<1>1. wire \in Seq(Lines) /\ Flow(h, wire) /\ h[Len(h)] = Seen
  BY DEF Typed, Lagging, Mirror
<1>2. Reached(h, g) /\ Precedes(h, l, wire, Tail(wire)) /\ Flow(g, wire')
  BY <1>1, Reading
<1>3. Mirror(g)'
  BY <1>1, <1>2, SeenKept DEF Mirror, Reached
<1>4. /\ current = h[1].me /\ ~ facts[current].away /\ current \in Nicks
      /\ joined \subseteq h[1].mine /\ joined \subseteq row /\ row \subseteq Channels
      /\ \A c \in Channels : members[c] \subseteq h[1].list[c]
      /\ \A c \in joined : Shown(h, c)
  BY DEF Lagging, Lists, Typed, TypeOK, Shows
<1>5. h[1] \in Views /\ h[2] \in Views /\ g[1] = h[2] /\ Follows(l, h[1], h[2])
  BY <1>2 DEF Reached, Precedes
<1>. QED  BY <1>2, <1>3, <1>4, <1>5

LEMMA StepReadJoin ==
    ASSUME Typed, NEW h, Lagging(h), ReadJoin
    PROVE  \E g : Lagging(g)'
<1>1. PICK l : l = Head(wire)
  OBVIOUS
<1>2. PICK g : g = Tail(h)
  OBVIOUS
<1>3. /\ wire # <<>> /\ l.line = "JOIN" /\ l.n # current
      /\ l.c \in Channels /\ l.n \in Nicks
      /\ wire' = Tail(wire) /\ Untouched
      /\ UNCHANGED <<current, stalled, autojoin, hidden, out, cancelled, joined>>
      /\ \A m \in Nicks : facts'[m].away = facts[m].away
      /\ \A d \in Channels : members'[d] = IF d = l.c /\ Ensured(l.c) THEN members[d] \cup {l.n} ELSE members[d]
  BY <1>1, JoinEffect
<1>3a. UNCHANGED <<nick, in, peer, wish>>
  BY <1>3 DEF Untouched
<1>4. /\ Reached(h, g) /\ Precedes(h, l, wire, Tail(wire)) /\ Mirror(g)'
      /\ h[1] \in Views /\ h[2] \in Views /\ g[1] = h[2] /\ Follows(l, h[1], h[2])
      /\ current = h[1].me /\ ~ facts[current].away /\ current \in Nicks
      /\ joined \subseteq h[1].mine /\ joined \subseteq row /\ row \subseteq Channels
      /\ \A c \in Channels : members[c] \subseteq h[1].list[c]
      /\ \A c \in joined : Shown(h, c)
  BY <1>1, <1>2, <1>3, <1>3a, ReadStart
<1>5. /\ h[2].mine = h[1].mine /\ h[2].me = h[1].me /\ h[2].away = h[1].away
      /\ \A d \in Channels : h[2].list[d] = IF d = l.c THEN h[1].list[d] \cup {l.n} ELSE h[1].list[d]
  BY <1>3, <1>4 DEF Follows, Came
<1>6. Lists(g)'
  <2>1. ASSUME NEW d \in Channels  PROVE members'[d] \subseteq h[2].list[d]
    <3>1. members[d] \subseteq h[1].list[d]
      BY <1>4
    <3>2. CASE d = l.c
      BY <1>3, <1>5, <3>1, <3>2
    <3>3. CASE d # l.c
      BY <1>3, <1>5, <3>1, <3>3
    <3>. QED  BY <3>2, <3>3
  <2>. QED  BY <1>3, <1>4, <1>5, <2>1 DEF Lists
<1>7. Fills(g)'
  <2>1. \A c \in joined' : members[c] = h[1].list[c] => members'[c] = h[2].list[c]
    BY <1>3, <1>4, <1>5 DEF Ensured
  <2>. QED  BY <1>1, <1>3, <1>4, <2>1, FillsRead
<1>8. ASSUME NEW c \in joined'  PROVE Shown(g, c)'
  <2>1. c \in joined /\ c \in Channels /\ Shown(h, c) /\ members[c] \subseteq h[1].list[c]
    BY <1>3, <1>4, <1>8
  <2>2. ASSUME \A n \in members[c] \cap h[1].away : facts[n].away  PROVE Shown(g, c)'
    <3>1. CASE l.n \in h[1].away
      BY <1>3, <1>4, <3>1 DEF Precedes, Shown
    <3>2. CASE l.n \notin h[1].away
      <4>1. members'[c] \subseteq members[c] \cup {l.n} /\ members[c] \subseteq Nicks
        BY <1>3, <2>1 DEF Typed, TypeOK
      <4>2. \A n \in members'[c] \cap h[2].away : facts'[n].away
        BY <1>3, <1>5, <2>2, <3>2, <4>1
      <4>. QED  BY <1>4, <4>2 DEF Shown
    <3>. QED  BY <3>1, <3>2
  <2>. QED  BY <1>3, <1>4, <2>1, <2>2, ShownRead
<1>9. Leaves(g)' /\ Rejoins(g)' /\ Obeys(g)'
  BY <1>3, <1>3a, <1>4, <1>5, QuietRead
<1>10. Lagging(g)'
  BY <1>4, <1>6, <1>7, <1>8, <1>9 DEF Lagging, Shows
<1>. QED  BY <1>10

LEMMA StepReadDeparture ==
    ASSUME Typed, Shut, NEW h, Lagging(h), ReadDeparture
    PROVE  \E g : Lagging(g)'
<1>1. PICK l : l = Head(wire)
  OBVIOUS
<1>2. PICK g : g = Tail(h)
  OBVIOUS
<1>3. /\ wire # <<>> /\ l.line \in {"PART", "KICK"}
      /\ l.c \in Channels /\ l.n \in Nicks
      /\ wire' = Tail(wire) /\ Untouched
      /\ UNCHANGED <<current, stalled, hidden, out, cancelled>>
      /\ autojoin' = IF l.n = current THEN autojoin \ {l.c} ELSE autojoin
      /\ \A m \in Nicks : facts'[m].away => facts[m].away
      /\ \A m \in Nicks, d \in Channels : m \in members'[d] => facts'[m] = facts[m]
      /\ members' \in [Channels -> SUBSET Nicks]
      /\ \A d \in Channels \ {l.c} : members'[d] = members[d]
      /\ l.c \in row => members'[l.c] = IF l.n = current THEN {} ELSE members[l.c] \ {l.n}
      /\ l.c \notin row => members'[l.c] = members[l.c]
      /\ joined' = IF l.c \in row /\ l.n = current THEN joined \ {l.c} ELSE joined
  BY <1>1, DepartureEffect
<1>3a. UNCHANGED <<nick, in, peer, wish>>
  BY <1>3 DEF Untouched
<1>4. /\ Reached(h, g) /\ Precedes(h, l, wire, Tail(wire)) /\ Mirror(g)'
      /\ h[1] \in Views /\ h[2] \in Views /\ g[1] = h[2] /\ Follows(l, h[1], h[2])
      /\ current = h[1].me /\ ~ facts[current].away /\ current \in Nicks
      /\ joined \subseteq h[1].mine /\ joined \subseteq row /\ row \subseteq Channels
      /\ \A c \in Channels : members[c] \subseteq h[1].list[c]
      /\ \A c \in joined : Shown(h, c)
  BY <1>1, <1>2, <1>3, <1>3a, ReadStart
<1>5. /\ l.c \in h[1].mine /\ h[2].me = h[1].me /\ h[2].away \subseteq h[1].away
      /\ h[2].mine = IF l.n = h[1].me THEN h[1].mine \ {l.c} ELSE h[1].mine
      /\ \A d \in Channels : h[2].list[d] = IF d # l.c THEN h[1].list[d]
                                            ELSE IF l.n = h[1].me THEN {} ELSE h[1].list[d] \ {l.n}
  BY <1>3, <1>4 DEF Follows, Gone
<1>6. \A d \in Channels : members'[d] \subseteq members[d]
  BY <1>3
<1>7. l.c \notin row => members[l.c] = {}
  BY <1>3 DEF Shut
<1>8. Lists(g)'
  <2>1. ASSUME NEW d \in Channels  PROVE members'[d] \subseteq h[2].list[d]
    <3>1. members[d] \subseteq h[1].list[d]
      BY <1>4
    <3>2. CASE d # l.c
      BY <1>3, <1>5, <3>1, <3>2
    <3>3. CASE d = l.c /\ l.n = current
      <4>1. members'[d] = {}
        BY <1>3, <1>7, <3>3
      <4>. QED  BY <4>1
    <3>4. CASE d = l.c /\ l.n # current
      <4>1. members'[d] \subseteq members[d] \ {l.n} /\ h[2].list[d] = h[1].list[d] \ {l.n}
        BY <1>3, <1>4, <1>5, <1>7, <3>4
      <4>. QED  BY <3>1, <4>1
    <3>. QED  BY <3>2, <3>3, <3>4
  <2>2. joined' \subseteq h[2].mine
    BY <1>3, <1>4, <1>5
  <2>. QED  BY <1>3, <1>4, <1>5, <2>1, <2>2 DEF Lists
<1>9. Fills(g)'
  <2>1. ASSUME NEW c \in joined', members[c] = h[1].list[c]  PROVE members'[c] = h[2].list[c]
    <3>1. c \in joined /\ c \in row /\ c \in Channels /\ ~ (c = l.c /\ l.n = current)
      BY <1>3, <1>4, <2>1
    <3>2. CASE c # l.c
      BY <1>3, <1>5, <2>1, <3>1, <3>2
    <3>3. CASE c = l.c
      <4>1. l.n # current /\ l.n # h[1].me /\ l.c \in row
        BY <1>4, <3>1, <3>3
      <4>2. members'[c] = members[c] \ {l.n} /\ h[2].list[c] = h[1].list[c] \ {l.n}
        BY <1>3, <1>5, <3>3, <4>1
      <4>. QED  BY <2>1, <4>2
    <3>. QED  BY <3>2, <3>3
  <2>2. joined' \subseteq joined /\ l.line \notin {"353", "366"} /\ l.line # "JOIN" /\ stalled' = stalled
    BY <1>3
  <2>. QED  BY <1>1, <1>3, <1>4, <2>1, <2>2, FillsRead
<1>10. ASSUME NEW c \in joined'  PROVE Shown(g, c)'
  <2>1. c \in joined /\ c \in Channels /\ Shown(h, c) /\ members[c] \subseteq h[1].list[c]
    BY <1>3, <1>4, <1>10
  <2>2. ASSUME \A n \in members[c] \cap h[1].away : facts[n].away  PROVE Shown(g, c)'
    <3>1. \A n \in members'[c] \cap h[2].away : n \in members[c] \cap h[1].away /\ n \in Nicks
      BY <1>3, <1>5, <1>6, <2>1
    <3>2. \A n \in members'[c] \cap h[2].away : facts'[n].away
      BY <1>3, <2>1, <2>2, <3>1
    <3>. QED  BY <1>4, <3>2 DEF Shown
  <2>3. l.line # "AWAY" /\ l.line # "366" /\ (Sends(out, "WHO", c) => Sends(out', "WHO", c))
    BY <1>3
  <2>. QED  BY <1>3, <1>4, <2>1, <2>2, <2>3, ShownRead
<1>11. Leaves(g)' /\ Rejoins(g)' /\ Obeys(g)'
  BY <1>3, <1>3a, <1>4, <1>5, QuietRead
<1>12. Lagging(g)'
  BY <1>4, <1>8, <1>9, <1>10, <1>11 DEF Lagging, Shows
<1>. QED  BY <1>12

LEMMA StepReadQuit ==
    ASSUME Typed, NEW h, Lagging(h), ReadQuit
    PROVE  \E g : Lagging(g)'
<1>1. PICK l : l = Head(wire)
  OBVIOUS
<1>2. PICK g : g = Tail(h)
  OBVIOUS
<1>3. /\ wire # <<>> /\ l.line = "QUIT" /\ l.n \in Nicks
      /\ wire' = Tail(wire) /\ Untouched
      /\ UNCHANGED <<current, stalled, hidden, out, cancelled, autojoin, joined>>
      /\ \A m \in Nicks : facts'[m].away => facts[m].away
      /\ \A m \in Nicks : m # l.n => facts'[m] = facts[m]
      /\ members' \in [Channels -> SUBSET Nicks]
      /\ \A d \in Channels : members'[d] = members[d] \ {l.n}
  BY <1>1, QuitEffect
<1>3a. UNCHANGED <<nick, in, peer, wish>>
  BY <1>3 DEF Untouched
<1>4. /\ Reached(h, g) /\ Precedes(h, l, wire, Tail(wire)) /\ Mirror(g)'
      /\ h[1] \in Views /\ h[2] \in Views /\ g[1] = h[2] /\ Follows(l, h[1], h[2])
      /\ current = h[1].me /\ ~ facts[current].away /\ current \in Nicks
      /\ joined \subseteq h[1].mine /\ joined \subseteq row /\ row \subseteq Channels
      /\ \A c \in Channels : members[c] \subseteq h[1].list[c]
      /\ \A c \in joined : Shown(h, c)
  BY <1>1, <1>2, <1>3, <1>3a, ReadStart
<1>5. /\ h[2].me = h[1].me /\ h[2].mine = h[1].mine /\ h[2].away \subseteq h[1].away
      /\ \A d \in Channels : h[2].list[d] = h[1].list[d] \ {l.n}
  BY <1>3, <1>4 DEF Follows, Quits
<1>6. Lists(g)'
  BY <1>3, <1>4, <1>5 DEF Lists
<1>7. Fills(g)'
  <2>1. ASSUME NEW c \in joined', members[c] = h[1].list[c]  PROVE members'[c] = h[2].list[c]
    <3>1. c \in Channels
      BY <1>3, <1>4, <2>1
    <3>2. members'[c] = members[c] \ {l.n} /\ h[2].list[c] = h[1].list[c] \ {l.n}
      BY <1>3, <1>5, <3>1
    <3>. QED  BY <2>1, <3>2
  <2>. QED  BY <1>1, <1>3, <1>4, <2>1, FillsRead
<1>8. ASSUME NEW c \in joined'  PROVE Shown(g, c)'
  <2>1. c \in joined /\ c \in Channels /\ Shown(h, c) /\ members[c] \subseteq h[1].list[c]
    BY <1>3, <1>4, <1>8
  <2>2. ASSUME \A n \in members[c] \cap h[1].away : facts[n].away  PROVE Shown(g, c)'
    <3>1. \A n \in members'[c] \cap h[2].away : n \in members[c] \cap h[1].away /\ n \in Nicks /\ n # l.n
      BY <1>3, <1>5, <2>1
    <3>2. \A n \in members'[c] \cap h[2].away : facts'[n].away
      BY <1>3, <2>2, <3>1
    <3>. QED  BY <1>4, <3>2 DEF Shown
  <2>. QED  BY <1>3, <1>4, <2>1, <2>2, ShownRead
<1>9. Leaves(g)' /\ Rejoins(g)' /\ Obeys(g)'
  BY <1>3, <1>3a, <1>4, <1>5, QuietRead
<1>10. Lagging(g)'
  BY <1>4, <1>6, <1>7, <1>8, <1>9 DEF Lagging, Shows
<1>. QED  BY <1>10

LEMMA StepReadNick ==
    ASSUME Typed, NEW h, Lagging(h), ReadNick
    PROVE  \E g : Lagging(g)'
<1>1. PICK l : l = Head(wire)
  OBVIOUS
<1>2. PICK g : g = Tail(h)
  OBVIOUS
<1>3. /\ wire # <<>> /\ l.line = "NICK" /\ l.n \in Nicks /\ l.to \in Nicks
      /\ wire' = Tail(wire) /\ Untouched
      /\ UNCHANGED <<stalled, hidden, out, cancelled, autojoin, joined>>
      /\ current' = IF l.n = current THEN l.to ELSE current
      /\ l.n # l.to => facts'[l.to].away = facts[l.n].away
      /\ \A m \in Nicks \ {l.n, l.to} : facts'[m] = facts[m]
      /\ members' \in [Channels -> SUBSET Nicks]
      /\ \A d \in Channels : members'[d] = Renamed(members[d], l.n, l.to)
  BY <1>1, NickEffect
<1>3a. UNCHANGED <<nick, in, peer, wish>>
  BY <1>3 DEF Untouched
<1>4. /\ Reached(h, g) /\ Precedes(h, l, wire, Tail(wire)) /\ Mirror(g)'
      /\ h[1] \in Views /\ h[2] \in Views /\ g[1] = h[2] /\ Follows(l, h[1], h[2])
      /\ current = h[1].me /\ ~ facts[current].away /\ current \in Nicks
      /\ joined \subseteq h[1].mine /\ joined \subseteq row /\ row \subseteq Channels
      /\ \A c \in Channels : members[c] \subseteq h[1].list[c]
      /\ \A c \in joined : Shown(h, c)
  BY <1>1, <1>2, <1>3, <1>3a, ReadStart
<1>5. /\ l.to # h[1].me /\ l.to # l.n /\ \A d \in Channels : l.to \notin h[1].list[d]
      /\ h[2].me = IF l.n = h[1].me THEN l.to ELSE h[1].me
      /\ h[2].mine = h[1].mine
      /\ \A d \in Channels : h[2].list[d] = Renamed(h[1].list[d], l.n, l.to)
      /\ h[2].away = Renamed(h[1].away, l.n, l.to)
  BY <1>3, <1>4 DEF Follows, Renames
<1>5a. l.to \notin h[1].away
  BY <1>4, <1>5, ViewFacts
<1>6. Lists(g)'
  <2>1. current' = h[2].me
    BY <1>3, <1>4, <1>5
  <2>2. ~ facts'[h[2].me].away
    <3>1. CASE l.n = current
      BY <1>3, <1>4, <1>5, <3>1
    <3>2. CASE l.n # current
      <4>1. current \in Nicks \ {l.n, l.to}
        BY <1>4, <1>5, <3>2
      <4>. QED  BY <1>3, <1>4, <1>5, <3>2, <4>1
    <3>. QED  BY <3>1, <3>2
  <2>3. \A d \in Channels : members'[d] \subseteq h[2].list[d]
    BY <1>3, <1>4, <1>5 DEF Renamed
  <2>. QED  BY <1>3, <1>4, <1>5, <2>1, <2>2, <2>3 DEF Lists
<1>7. Fills(g)'
  <2>1. \A c \in joined' : members[c] = h[1].list[c] => members'[c] = h[2].list[c]
    BY <1>3, <1>4, <1>5
  <2>. QED  BY <1>1, <1>3, <1>4, <2>1, FillsRead
<1>8. ASSUME NEW c \in joined'  PROVE Shown(g, c)'
  <2>1. c \in joined /\ c \in Channels /\ Shown(h, c) /\ members[c] \subseteq h[1].list[c]
    BY <1>3, <1>4, <1>8
  <2>2. ASSUME \A n \in members[c] \cap h[1].away : facts[n].away  PROVE Shown(g, c)'
    <3>1. ASSUME NEW n \in members'[c] \cap h[2].away  PROVE facts'[n].away
      <4>0. n \in Nicks /\ n \in Renamed(members[c], l.n, l.to) /\ n \in Renamed(h[1].away, l.n, l.to)
        BY <1>3, <1>5, <2>1, <3>1
      <4>1. CASE n = l.to
        <5>1. l.n \in members[c] /\ l.n \in h[1].away
          BY <1>5, <1>5a, <2>1, <4>0, <4>1 DEF Renamed
        <5>. QED  BY <1>3, <1>5, <2>2, <4>1, <5>1
      <4>2. CASE n # l.to
        <5>1. n \in members[c] /\ n \in h[1].away /\ n # l.n
          BY <4>0, <4>2 DEF Renamed
        <5>2. n \in Nicks \ {l.n, l.to}
          BY <4>0, <4>2, <5>1
        <5>. QED  BY <1>3, <2>2, <5>1, <5>2
      <4>. QED  BY <4>1, <4>2
    <3>. QED  BY <1>4, <3>1 DEF Shown
  <2>. QED  BY <1>3, <1>4, <2>1, <2>2, ShownRead
<1>9. Leaves(g)' /\ Rejoins(g)' /\ Obeys(g)'
  BY <1>3, <1>3a, <1>4, <1>5, QuietRead
<1>10. Lagging(g)'
  BY <1>4, <1>6, <1>7, <1>8, <1>9 DEF Lagging, Shows
<1>. QED  BY <1>10

LEMMA StepReadPresence ==
    ASSUME Typed, NEW h, Lagging(h), ReadPresence
    PROVE  \E g : Lagging(g)'
<1>1. PICK l : l = Head(wire)
  OBVIOUS
<1>2. PICK g : g = Tail(h)
  OBVIOUS
<1>3. /\ wire # <<>> /\ l \in Lines /\ l.line \in {"AWAY", "ACCOUNT"} /\ l.n \in Nicks
      /\ wire' = Tail(wire) /\ Untouched
      /\ UNCHANGED <<stalled, hidden, out, cancelled, autojoin, joined, current, members>>
      /\ l.line = "AWAY" => \A m \in Nicks : facts'[m].away = IF m = l.n THEN l.away ELSE facts[m].away
      /\ l.line = "ACCOUNT" => \A m \in Nicks : facts'[m].away = facts[m].away
  BY <1>1, PresenceEffect
<1>3a. UNCHANGED <<nick, in, peer, wish>>
  BY <1>3 DEF Untouched
<1>4. /\ Reached(h, g) /\ Precedes(h, l, wire, Tail(wire)) /\ Mirror(g)'
      /\ h[1] \in Views /\ h[2] \in Views /\ g[1] = h[2] /\ Follows(l, h[1], h[2])
      /\ current = h[1].me /\ ~ facts[current].away /\ current \in Nicks
      /\ joined \subseteq h[1].mine /\ joined \subseteq row /\ row \subseteq Channels
      /\ \A c \in Channels : members[c] \subseteq h[1].list[c]
      /\ \A c \in joined : Shown(h, c)
  BY <1>1, <1>2, <1>3, <1>3a, ReadStart
<1>4a. h[2].me \notin h[2].away
  BY <1>4, ViewFacts
<1>5. /\ h[2].me = h[1].me /\ h[2].mine = h[1].mine /\ \A d \in Channels : h[2].list[d] = h[1].list[d]
      /\ l.line = "AWAY" => h[2].away = IF l.away THEN {l.n} ELSE h[1].away \ {l.n}
      /\ l.line = "ACCOUNT" => h[2].away = h[1].away
  BY <1>3, <1>4 DEF Follows, Aways
<1>6. Lists(g)'
  <2>1. ~ facts'[h[2].me].away
    <3>1. l.line = "AWAY" /\ l.away => l.n # h[2].me
      BY <1>4a, <1>5
    <3>. QED  BY <1>3, <1>4, <1>5, <3>1
  <2>. QED  BY <1>3, <1>4, <1>5, <2>1 DEF Lists
<1>7. Fills(g)'
  <2>1. \A c \in joined' : members[c] = h[1].list[c] => members'[c] = h[2].list[c]
    BY <1>3, <1>4, <1>5
  <2>2. l.line \notin {"353", "366"} /\ l.line # "JOIN" /\ joined' \subseteq joined /\ stalled' = stalled
    BY <1>3
  <2>. QED  BY <1>1, <1>3, <1>4, <2>1, <2>2, FillsRead
<1>8. ASSUME NEW c \in joined'  PROVE Shown(g, c)'
  <2>1. c \in joined /\ c \in Channels /\ Shown(h, c) /\ members[c] \subseteq h[1].list[c] /\ members[c] \subseteq Nicks
    BY <1>3, <1>4, <1>8 DEF Typed, TypeOK
  <2>2. ASSUME (l.line = "AWAY" /\ l.away) \/ \A n \in members[c] \cap h[1].away : facts[n].away
        PROVE  Shown(g, c)'
    <3>1. CASE l.line = "AWAY" /\ l.away
      <4>1. \A n \in members'[c] \cap h[2].away : facts'[n].away
        BY <1>3, <1>5, <3>1
      <4>. QED  BY <1>4, <4>1 DEF Shown
    <3>2. CASE l.line = "AWAY" /\ ~ l.away
      <4>1. \A n \in members'[c] \cap h[2].away : n \in members[c] \cap h[1].away /\ n \in Nicks /\ n # l.n
        BY <1>3, <1>5, <2>1, <3>2
      <4>2. \A n \in members'[c] \cap h[2].away : facts'[n].away
        BY <1>3, <2>2, <3>2, <4>1
      <4>. QED  BY <1>4, <4>2 DEF Shown
    <3>3. CASE l.line = "ACCOUNT"
      <4>1. \A n \in members'[c] \cap h[2].away : n \in members[c] \cap h[1].away /\ n \in Nicks
        BY <1>3, <1>5, <2>1, <3>3
      <4>2. \A n \in members'[c] \cap h[2].away : facts'[n].away
        BY <1>3, <2>2, <3>3, <4>1
      <4>. QED  BY <1>4, <4>2 DEF Shown
    <3>. QED  BY <1>3, <3>1, <3>2, <3>3
  <2>3. l.line # "366" /\ (Sends(out, "WHO", c) => Sends(out', "WHO", c))
    BY <1>3
  <2>. QED  BY <1>3, <1>4, <2>1, <2>2, <2>3, ShownRead
<1>9. Leaves(g)' /\ Rejoins(g)' /\ Obeys(g)'
  BY <1>3, <1>3a, <1>4, <1>5, QuietRead
<1>10. Lagging(g)'
  BY <1>4, <1>6, <1>7, <1>8, <1>9 DEF Lagging, Shows
<1>. QED  BY <1>10

-----------------------------------------------------------------------------
\* The reply to NAMES that follows the user's own JOIN is next once that is read.
LEMMA BurstNext ==
    ASSUME NEW ls \in Seq(Lines), ls # <<>>, NEW c, NEW s, Burst(ls, 1, c, s)
    PROVE  /\ Burst(Tail(ls), 0, c, s) /\ EndsNames(Tail(ls), c)
           /\ Tail(ls) # <<>> /\ NamesOf(Head(Tail(ls)), c)
<1>1. /\ Len(ls) \in Nat /\ Len(ls) >= 1 /\ Tail(ls) \in Seq(Lines)
      /\ Len(Tail(ls)) = Len(ls) - 1
      /\ \A i \in 1 .. Len(ls) - 1 : Tail(ls)[i] = ls[i + 1]
  BY TailFacts
<1>2. PICK ms \in Seq(Lines) : ms = Tail(ls)
  BY <1>1
<1>3. PICK N \in Nat : N = Len(ls)
  BY <1>1
<1>4. Len(ms) = N - 1 /\ \A i \in 1 .. N - 1 : ms[i] = ls[i + 1]
  BY <1>1, <1>2, <1>3
<1>5. PICK k \in Nat : BurstOf(ls, 1, c, s, k)
  BY DEF Burst
<1>6. /\ 1 + k + 1 <= N
      /\ \A j \in 1 + 1 .. 1 + k : ls[j].line = "353" /\ ls[j].c = c
      /\ ls[1 + k + 1].line = "366" /\ ls[1 + k + 1].c = c /\ ls[1 + k + 1].names = {}
      /\ \A n \in Nicks : n \in s <=> \E j \in 1 + 1 .. 1 + k : n \in ls[j].names
  BY <1>3, <1>5 DEF BurstOf
<1>7. 0 + k + 1 <= Len(ms) /\ 0 + k + 1 \in 1 .. Len(ms) /\ ms[0 + k + 1] = ls[1 + k + 1]
  BY <1>4, <1>6
<1>8. /\ \A j \in 0 + 1 .. 0 + k : j + 1 \in 1 + 1 .. 1 + k /\ ms[j] = ls[j + 1]
      /\ \A j \in 1 + 1 .. 1 + k : j - 1 \in 0 + 1 .. 0 + k /\ ms[j - 1] = ls[j]
  BY <1>4, <1>6
<1>9. \A n \in Nicks : n \in s <=> \E j \in 0 + 1 .. 0 + k : n \in ms[j].names
  BY <1>6, <1>8
<1>10. BurstOf(ms, 0, c, s, k)
  BY <1>6, <1>7, <1>8, <1>9 DEF BurstOf
<1>11. EndsNames(ms, c)
  BY <1>6, <1>7 DEF EndsNames
<1>12. ms # <<>>
  BY <1>7
<1>13. Head(ms) = ms[1]
  BY <1>12, TailFacts
<1>14. NamesOf(ms[1], c)
  <2>1. CASE k = 0
    <3>1. 0 + k + 1 = 1
      BY <2>1
    <3>. QED  BY <1>6, <1>7, <3>1 DEF NamesOf
  <2>2. CASE k # 0
    <3>1. 1 \in 0 + 1 .. 0 + k /\ 1 + 1 \in 1 + 1 .. 1 + k
      BY <2>2
    <3>. QED  BY <1>6, <1>8, <3>1 DEF NamesOf
  <2>. QED  BY <2>1, <2>2
<1>15. Burst(ms, 0, c, s)
  BY <1>10 DEF Burst
<1>. QED  BY <1>2, <1>11, <1>12, <1>13, <1>14, <1>15

\* One line of a reply is read: the others name the others.
LEMMA BurstRead ==
    ASSUME NEW ls \in Seq(Lines), ls # <<>>, NEW c, NEW s \in SUBSET Nicks, Burst(ls, 0, c, s),
           NEW l, l = Head(ls), l.line \in {"353", "366"}
    PROVE  /\ l.line = "366" => s = {} /\ l.names = {}
           /\ l.line = "353" =>
                /\ Tail(ls) # <<>> /\ NamesOf(Head(Tail(ls)), c)
                /\ \E t \in SUBSET Nicks : Burst(Tail(ls), 0, c, t) /\ s = l.names \cup t
<1>1. /\ Len(ls) \in Nat /\ Len(ls) >= 1 /\ Tail(ls) \in Seq(Lines) /\ l = ls[1] /\ l \in Lines
      /\ Len(Tail(ls)) = Len(ls) - 1
      /\ \A i \in 1 .. Len(ls) - 1 : Tail(ls)[i] = ls[i + 1]
  BY TailFacts
<1>2. PICK ms \in Seq(Lines) : ms = Tail(ls)
  BY <1>1
<1>3. PICK N \in Nat : N = Len(ls)
  BY <1>1
<1>4. Len(ms) = N - 1 /\ \A i \in 1 .. N - 1 : ms[i] = ls[i + 1]
  BY <1>1, <1>2, <1>3
<1>5. PICK k \in Nat : BurstOf(ls, 0, c, s, k)
  BY DEF Burst
<1>6. /\ k + 1 <= N
      /\ \A j \in 1 .. k : ls[j].line = "353" /\ ls[j].c = c
      /\ ls[k + 1].line = "366" /\ ls[k + 1].c = c /\ ls[k + 1].names = {}
      /\ \A n \in Nicks : n \in s <=> \E j \in 1 .. k : n \in ls[j].names
  <2>1. 0 + k + 1 = k + 1 /\ 0 + 1 = 1 /\ 0 + k = k
    OBVIOUS
  <2>. QED  BY <1>3, <1>5, <2>1 DEF BurstOf
<1>7. CASE k = 0
  <2>1. k + 1 = 1 /\ 1 .. k = {}
    BY <1>7
  <2>2. l.line = "366" /\ l.names = {}
    BY <1>1, <1>6, <2>1
  <2>3. s = {}
    BY <1>6, <2>1
  <2>. QED  BY <2>2, <2>3
<1>8. CASE k # 0
  <2>1. 1 \in 1 .. k
    BY <1>8
  <2>2. l.line = "353"
    BY <1>1, <1>6, <2>1
  <2>3. l.names \subseteq Nicks
    BY <1>1, <2>2, LineFacts
  <2>4. PICK p \in Nat : p = k - 1
    BY <1>8
  <2>5. 0 + p + 1 <= Len(ms) /\ 0 + p + 1 \in 1 .. N - 1 /\ ms[0 + p + 1] = ls[k + 1]
    BY <1>4, <1>6, <2>4
  <2>6. /\ \A j \in 0 + 1 .. 0 + p : j + 1 \in 2 .. k /\ ms[j] = ls[j + 1]
        /\ \A j \in 2 .. k : j - 1 \in 0 + 1 .. 0 + p /\ ms[j - 1] = ls[j]
    BY <1>4, <1>6, <2>4
  <2>7. PICK t : t = {n \in Nicks : \E j \in 0 + 1 .. 0 + p : n \in ms[j].names}
    OBVIOUS
  <2>8. \A j \in 2 .. k : j \in 1 .. k
    OBVIOUS
  <2>9a. \A j \in 0 + 1 .. 0 + p : ms[j].line = "353" /\ ms[j].c = c
    BY <1>6, <2>6, <2>8
  <2>9b. \A n \in Nicks : n \in t <=> \E j \in 0 + 1 .. 0 + p : n \in ms[j].names
    BY <2>7
  <2>9. BurstOf(ms, 0, c, t, p)
    BY <1>6, <2>5, <2>9a, <2>9b DEF BurstOf
  <2>10. \A j \in 1 .. k : j = 1 \/ j \in 2 .. k
    OBVIOUS
  <2>11. s = l.names \cup t
    <3>1. ASSUME NEW n \in Nicks  PROVE n \in s <=> n \in l.names \/ n \in t
      <4>1. n \in s <=> n \in ls[1].names \/ \E j \in 2 .. k : n \in ls[j].names
        BY <1>6, <2>1, <2>8, <2>10
      <4>2. n \in t <=> \E j \in 2 .. k : n \in ls[j].names
        BY <2>6, <2>7
      <4>. QED  BY <1>1, <4>1, <4>2
    <3>2. t \subseteq Nicks
      BY <2>7
    <3>. QED  BY <2>3, <3>1, <3>2
  <2>12. ms # <<>>
    BY <1>4, <2>5
  <2>13. Head(ms) = ms[1]
    BY <2>12, TailFacts
  <2>14. NamesOf(ms[1], c)
    <3>1. CASE p = 0
      <4>1. 0 + p + 1 = 1
        BY <3>1
      <4>. QED  BY <1>6, <2>5, <4>1 DEF NamesOf
    <3>2. CASE p # 0
      <4>1. 1 \in 0 + 1 .. 0 + p
        BY <3>2
      <4>. QED  BY <1>6, <2>6, <2>8, <4>1 DEF NamesOf
    <3>. QED  BY <3>1, <3>2
  <2>15. t \in SUBSET Nicks /\ Burst(ms, 0, c, t)
    BY <2>7, <2>9 DEF Burst
  <2>. QED  BY <1>2, <2>2, <2>11, <2>12, <2>13, <2>14, <2>15
<1>. QED  BY <1>7, <1>8

LEMMA StepReadOwnJoin ==
    ASSUME Typed, NEW h, Lagging(h), ReadOwnJoin
    PROVE  \E g : Lagging(g)'
<1>1. PICK l : l = Head(wire)
  OBVIOUS
<1>2. PICK g : g = Tail(h)
  OBVIOUS
<1>3. /\ wire # <<>> /\ l.line = "JOIN" /\ l.n = current /\ l.c \in Channels
      /\ wire' = Tail(wire) /\ Untouched /\ UNCHANGED <<current, stalled>>
      /\ autojoin' = autojoin \cup {l.c}
      /\ \A m \in Nicks : facts'[m].away = facts[m].away
      /\ \A d \in Channels \ {l.c} : members'[d] = members[d]
      /\ hidden' = IF Ensured(l.c) \/ l.c \in cancelled \/ wish[l.c] = "out" THEN hidden \ {l.c} ELSE hidden \cup {l.c}
  BY <1>1, OwnJoinEffect
<1>3b. /\ l.c \in cancelled =>
            /\ out' = Append(out, [cmd |-> "PART", c |-> l.c])
            /\ cancelled' = cancelled \ {l.c}
            /\ joined' = joined \ {l.c} /\ syncing' = syncing \ {l.c}
            /\ members'[l.c] = {}
       /\ l.c \notin cancelled =>
            /\ UNCHANGED <<out, cancelled, syncing>>
            /\ joined' = IF Ensured(l.c) THEN joined \cup {l.c} ELSE joined
            /\ members'[l.c] = IF Ensured(l.c) THEN members[l.c] \cup {current} ELSE members[l.c]
  BY <1>1, OwnJoinEffect
<1>3a. UNCHANGED <<nick, in, peer, wish>>
  BY <1>3 DEF Untouched
<1>4. /\ Reached(h, g) /\ Precedes(h, l, wire, Tail(wire)) /\ Mirror(g)'
      /\ h[1] \in Views /\ h[2] \in Views /\ g[1] = h[2] /\ Follows(l, h[1], h[2])
      /\ current = h[1].me /\ ~ facts[current].away /\ current \in Nicks
      /\ joined \subseteq h[1].mine /\ joined \subseteq row /\ row \subseteq Channels
      /\ \A c \in Channels : members[c] \subseteq h[1].list[c]
      /\ \A c \in joined : Shown(h, c)
  BY <1>1, <1>2, <1>3, <1>3a, ReadStart
<1>5. /\ l.c \notin h[1].mine /\ h[2].mine = h[1].mine \cup {l.c} /\ h[2].me = h[1].me
      /\ \A d \in Channels \ {l.c} : h[2].list[d] = h[1].list[d]
      /\ h[2].away = h[1].away \/ \A d \in Channels : h[2].away \cap h[1].list[d] = {}
  BY <1>3, <1>4 DEF Follows, Entered
<1>6. /\ h[1].list[l.c] = {} /\ members[l.c] = {} /\ l.c \notin joined
      /\ current \in h[2].list[l.c] /\ h[2].list[l.c] \subseteq Nicks
  BY <1>3, <1>4, <1>5, ViewFacts
<1>7. \A d \in joined' : d # l.c => d \in joined /\ d \in Channels
  BY <1>3b, <1>4
<1>8. /\ Burst(wire', 0, l.c, h[2].list[l.c]) /\ EndsNames(wire', l.c)
      /\ wire' # <<>> /\ NamesOf(Head(wire'), l.c)
  <2>1. wire \in Seq(Lines) /\ Flow(h, wire)
    BY DEF Typed, Lagging, Mirror
  <2>2. Len(wire) >= 1 /\ Len(wire) \in Nat /\ l = wire[1]
    BY <1>1, <1>3, <2>1, TailFacts
  <2>3. 1 \in 1 .. Len(wire) /\ 1 + 1 = 2
    BY <2>2
  <2>4. Burst(wire, 1, l.c, h[1 + 1].list[l.c])
    BY <1>3, <1>4, <2>1, <2>2, <2>3 DEF Flow, Replied
  <2>. QED  BY <1>3, <2>1, <2>3, <2>4, BurstNext
<1>9. members'[l.c] \subseteq {current}
  BY <1>3b, <1>6
<1>10. Lists(g)'
  <2>1. ASSUME NEW d \in Channels  PROVE members'[d] \subseteq h[2].list[d]
    <3>1. CASE d = l.c
      BY <1>6, <1>9, <3>1
    <3>2. CASE d # l.c
      BY <1>3, <1>4, <1>5, <3>2
    <3>. QED  BY <3>1, <3>2
  <2>2. joined' \subseteq h[2].mine
    BY <1>4, <1>5, <1>7
  <2>. QED  BY <1>3, <1>4, <1>5, <2>1, <2>2 DEF Lists
<1>11. Fills(g)'
  <2>1. SUFFICES ASSUME NEW c \in joined', c \notin stalled  PROVE Filled(g, c)'
    BY <1>3 DEF Fills
  <2>2. CASE c = l.c
    <3>1. Synced(c)' \subseteq {current}
      BY <1>9, <2>2 DEF Synced
    <3>2. Synced(c)' \cup h[2].list[c] = h[2].list[c] /\ h[2].list[c] \in SUBSET Nicks
      BY <1>6, <2>2, <3>1
    <3>. QED  BY <1>4, <1>8, <2>2, <3>2 DEF Filled
  <2>3. CASE c # l.c
    <3>1. c \in joined /\ c \in Channels /\ ~ NamesOf(Head(wire), c)
      BY <1>1, <1>3, <1>7, <2>1, <2>3 DEF NamesOf
    <3>2. members[c] = h[1].list[c]
      BY <2>1, <3>1, FilledAlone DEF Lagging, Fills
    <3>3. wire' = <<>> \/ ~ NamesOf(Head(wire'), c)
      BY <1>3, <1>4, <2>3 DEF Precedes
    <3>4. members'[c] = g[1].list[c]
      BY <1>3, <1>4, <1>5, <2>3, <3>1, <3>2
    <3>. QED  BY <3>3, <3>4, AloneFilled
  <2>. QED  BY <2>2, <2>3
<1>12. /\ \A d, cmd : Sends(out, cmd, d) => Sends(out', cmd, d)
       /\ \A d : /\ Sends(out', "JOIN", d) => Sends(out, "JOIN", d)
                 /\ LastPart(out, d) => LastPart(out', d)
       /\ l.c \in cancelled => Sends(out', "PART", l.c) /\ LastPart(out', l.c)
  <2>1. CASE l.c \in cancelled
    <3>1. PICK x \in Commands : x = [cmd |-> "PART", c |-> l.c]
      BY <1>3, CommandsMade
    <3>2. out \in Seq(Commands) /\ out' = Append(out, x) /\ x.cmd = "PART" /\ x.c = l.c
      BY <1>3b, <2>1, <3>1 DEF Typed
    <3>. QED  BY <3>2, SendsAppend
  <2>2. CASE l.c \notin cancelled
    BY <1>3b, <2>2
  <2>. QED  BY <2>1, <2>2
<1>13. ASSUME NEW c \in joined'  PROVE Shown(g, c)'
  <2>1. CASE c = l.c
    BY <1>8, <2>1 DEF Shown
  <2>2. CASE c # l.c
    <3>1. c \in joined /\ c \in Channels /\ Shown(h, c) /\ members[c] \subseteq h[1].list[c] /\ members[c] \subseteq Nicks
          /\ members'[c] = members[c]
      BY <1>3, <1>4, <1>7, <1>13, <2>2 DEF Typed, TypeOK
    <3>2. ASSUME \A n \in members[c] \cap h[1].away : facts[n].away  PROVE Shown(g, c)'
      <4>1. \A n \in members'[c] \cap h[2].away : n \in members[c] \cap h[1].away /\ n \in Nicks
        BY <1>5, <3>1
      <4>2. \A n \in members'[c] \cap h[2].away : facts'[n].away
        BY <1>3, <3>2, <4>1
      <4>. QED  BY <1>4, <4>2 DEF Shown
    <3>. QED  BY <1>3, <1>4, <1>12, <3>1, <3>2, ShownRead
  <2>. QED  BY <2>1, <2>2
<1>14. Leaves(g)'
  <2>1. ASSUME NEW c \in h[2].mine
        PROVE  \/ c \in h[1].mine /\ (c \in joined \cup hidden => c \in joined' \cup hidden')
               \/ c \in joined' \cup hidden' \/ Sends(out', "PART", c) \/ SomeOut(g, c)
    <3>0. wish[l.c] = "out" /\ l.c \notin cancelled => Sends(out', "PART", l.c) \/ SomeOut(g, l.c)
      <4>1. g[Len(g)] = h[Len(h)] /\ Len(g) \in 1 .. Len(g)
        BY <1>4 DEF Reached
      <4>2. LastPart(out, l.c) => Sends(out', "PART", l.c)
        <5>1. LastPart(out, l.c) => Sends(out, "PART", l.c)
          BY LastPartSends
        <5>. QED  BY <1>12, <5>1
      <4>. QED  BY <1>3, <4>1, <4>2 DEF Lagging, Obeys, Obeyed, SomeOut
    <3>1. CASE c = l.c
      BY <1>3, <1>3b, <1>12, <3>0, <3>1
    <3>2. CASE c # l.c
      BY <1>3, <1>3b, <1>5, <3>2
    <3>. QED  BY <3>1, <3>2
  <2>. QED  BY <1>4, <1>12, <2>1, LeavesRead DEF Lagging
<1>15. Rejoins(g)'
  BY <1>3, <1>4, <1>5, <1>12, RejoinsRead DEF Lagging
<1>16. Obeys(g)'
  <2>1. SUFFICES ASSUME NEW c \in Channels, wish[c] = "out"  PROVE Obeyed(g, c)'
    BY <1>3a DEF Obeys
  <2>2. Obeyed(h, c)
    BY <2>1 DEF Lagging, Obeys
  <2>3. CASE c # l.c
    <3>1. (c \in cancelled => c \in cancelled') /\ (c \in hidden => c \in hidden') /\ (c \notin h[1].mine => c \notin h[2].mine)
      BY <1>3, <1>3b, <1>5, <2>3
    <3>. QED  BY <1>4, <1>12, <2>2, <3>1, ObeyedRead
  <2>4. CASE c = l.c /\ c \in cancelled
    BY <1>12, <2>4 DEF Obeyed
  <2>5. CASE c = l.c /\ c \notin cancelled
    <3>1. g[Len(g)] = h[Len(h)]
      BY <1>4 DEF Reached
    <3>. QED  BY <1>12, <2>2, <2>5, <3>1 DEF Obeyed
  <2>. QED  BY <2>3, <2>4, <2>5
<1>17. Lagging(g)'
  BY <1>4, <1>10, <1>11, <1>13, <1>14, <1>15, <1>16 DEF Lagging, Shows
<1>. QED  BY <1>17

LEMMA StepReadNames ==
    ASSUME Typed, NEW h, Lagging(h), NEW late \in BOOLEAN, ReadNames(late)
    PROVE  \E g : Lagging(g)'
<1>1. PICK l : l = Head(wire)
  OBVIOUS
<1>2. PICK g : g = Tail(h)
  OBVIOUS
<1>3. /\ wire # <<>> /\ l.line \in {"353", "366"} /\ l.c \in Channels /\ l.names \subseteq Nicks
      /\ wire' = Tail(wire) /\ Untouched
      /\ UNCHANGED <<hidden, cancelled, autojoin, joined, current, facts>>
      /\ out' = IF l.line = "366" THEN Append(out, [cmd |-> "WHO", c |-> l.c]) ELSE out
      /\ stalled' = IF late THEN stalled \cup {l.c} ELSE stalled
      /\ \A d \in Channels \ {l.c} : members'[d] = members[d] /\ (d \in syncing' <=> d \in syncing)
      /\ members'[l.c] = IF Ensured(l.c) THEN Synced(l.c) \cup l.names ELSE members[l.c]
      /\ Ensured(l.c) => (l.c \in syncing' <=> ~ (l.line = "366" \/ late))
  BY <1>1, NamesEffect
<1>3a. UNCHANGED <<nick, in, peer, wish>>
  BY <1>3 DEF Untouched
<1>4. /\ Reached(h, g) /\ Precedes(h, l, wire, Tail(wire)) /\ Mirror(g)'
      /\ h[1] \in Views /\ h[2] \in Views /\ g[1] = h[2] /\ Follows(l, h[1], h[2])
      /\ current = h[1].me /\ ~ facts[current].away /\ current \in Nicks
      /\ joined \subseteq h[1].mine /\ joined \subseteq row /\ row \subseteq Channels
      /\ \A c \in Channels : members[c] \subseteq h[1].list[c]
      /\ \A c \in joined : Shown(h, c)
  BY <1>1, <1>2, <1>3, <1>3a, ReadStart
<1>5. h[2] = h[1] /\ l.c \in h[1].mine /\ l.names \subseteq h[1].list[l.c]
  BY <1>3, <1>4 DEF Follows, Named
<1>6. Lists(g)'
  <2>1. Synced(l.c) \subseteq h[1].list[l.c]
    BY <1>3, <1>4 DEF Synced
  <2>2. \A d \in Channels : members'[d] \subseteq h[2].list[d]
    BY <1>3, <1>4, <1>5, <2>1
  <2>. QED  BY <1>3, <1>4, <1>5, <2>2 DEF Lists
<1>7. Fills(g)'
  <2>1. SUFFICES ASSUME NEW c \in joined', c \notin stalled'  PROVE Filled(g, c)'
    BY DEF Fills
  <2>2. c \in joined /\ c \in row /\ c \in Channels /\ c \notin stalled /\ Filled(h, c)
    BY <1>3, <1>4, <2>1 DEF Lagging, Fills
  <2>3. CASE c = l.c
    <3>1. NamesOf(Head(wire), c) /\ Ensured(l.c) /\ ~ late
      BY <1>1, <1>3, <2>1, <2>2, <2>3 DEF NamesOf, Ensured
    <3>2. PICK s \in SUBSET Nicks : Burst(wire, 0, c, s) /\ Synced(c) \cup s = h[1].list[c]
      BY <1>3, <2>2, <3>1 DEF Filled
    <3>3. wire \in Seq(Lines)
      BY DEF Typed
    <3>4. members'[c] = Synced(c) \cup l.names
      BY <1>3, <2>3, <3>1
    <3>5. CASE l.line = "366"
      <4>a. wire # <<>> /\ l = Head(wire) /\ l.line \in {"353", "366"} /\ Burst(wire, 0, c, s)
        BY <1>1, <1>3, <3>2
      <4>0. l.line = "366" => s = {} /\ l.names = {}
        BY <4>a, <3>3, BurstRead, ZenonT(30)
      <4>1. s = {} /\ l.names = {}
        BY <3>5, <4>0
      <4>2. members'[c] = g[1].list[c]
        BY <1>4, <1>5, <3>2, <3>4, <4>1
      <4>3. wire' = <<>> \/ ~ NamesOf(Head(wire'), c)
        BY <1>3, <1>4, <3>5 DEF Precedes
      <4>. QED  BY <4>2, <4>3, AloneFilled
    <3>6. CASE l.line = "353"
      <4>1. /\ Tail(wire) # <<>> /\ NamesOf(Head(Tail(wire)), c)
            /\ \E t \in SUBSET Nicks : Burst(Tail(wire), 0, c, t) /\ s = l.names \cup t
        BY <1>1, <1>3, <3>2, <3>3, <3>6, BurstRead
      <4>2. PICK t \in SUBSET Nicks : Burst(wire', 0, c, t) /\ s = l.names \cup t
        BY <1>3, <4>1
      <4>3. Synced(c)' = members'[c]
        BY <1>3, <2>3, <3>1, <3>6 DEF Synced
      <4>4. Synced(c)' \cup t = g[1].list[c]
        BY <1>4, <1>5, <3>2, <3>4, <4>2, <4>3
      <4>. QED  BY <1>3, <4>1, <4>2, <4>4 DEF Filled
    <3>. QED  BY <1>3, <3>5, <3>6
  <2>4. CASE c # l.c
    <3>1. ~ NamesOf(Head(wire), c)
      BY <1>1, <2>4 DEF NamesOf
    <3>2. members[c] = h[1].list[c]
      BY <2>2, <3>1, FilledAlone
    <3>3. wire' = <<>> \/ ~ NamesOf(Head(wire'), c)
      BY <1>3, <1>4, <2>4 DEF Precedes
    <3>4. members'[c] = g[1].list[c]
      BY <1>3, <1>4, <1>5, <2>2, <2>4, <3>2
    <3>. QED  BY <3>3, <3>4, AloneFilled
  <2>. QED  BY <2>3, <2>4
<1>8. /\ \A d, cmd : Sends(out, cmd, d) => Sends(out', cmd, d)
      /\ \A d : /\ Sends(out', "JOIN", d) => Sends(out, "JOIN", d)
                /\ LastPart(out, d) => LastPart(out', d)
      /\ l.line = "366" => Sends(out', "WHO", l.c)
  <2>1. CASE l.line = "366"
    <3>1. PICK x \in Commands : x = [cmd |-> "WHO", c |-> l.c]
      BY <1>3, CommandsMade
    <3>2. out \in Seq(Commands) /\ out' = Append(out, x) /\ x.cmd = "WHO" /\ x.c = l.c
      BY <1>3, <2>1, <3>1 DEF Typed
    <3>. QED  BY <3>2, SendsAppend
  <2>2. CASE l.line # "366"
    BY <1>3, <2>2
  <2>. QED  BY <2>1, <2>2
<1>9. ASSUME NEW c \in joined'  PROVE Shown(g, c)'
  <2>1. c \in joined /\ c \in Channels /\ Shown(h, c) /\ members[c] \subseteq h[1].list[c]
    BY <1>3, <1>4, <1>9
  <2>2. CASE c = l.c
    BY <1>3, <1>4, <1>8, <2>2 DEF Shown, Precedes
  <2>3. CASE c # l.c
    <3>1. ASSUME \A n \in members[c] \cap h[1].away : facts[n].away  PROVE Shown(g, c)'
      <4>1. members'[c] = members[c]
        BY <1>3, <2>1, <2>3
      <4>. QED  BY <1>3, <1>4, <1>5, <3>1, <4>1 DEF Shown
    <3>2. l.line # "AWAY"
      BY <1>3
    <3>. QED  BY <1>3, <1>4, <1>8, <2>1, <2>3, <3>1, <3>2, ShownRead
  <2>. QED  BY <2>2, <2>3
<1>10. Leaves(g)'
  BY <1>3, <1>4, <1>5, <1>8, LeavesRead DEF Lagging
<1>11. Rejoins(g)'
  BY <1>3, <1>4, <1>5, <1>8, RejoinsRead DEF Lagging
<1>12. Obeys(g)'
  <2>1. SUFFICES ASSUME NEW c \in Channels, wish[c] = "out"  PROVE Obeyed(g, c)'
    BY <1>3a DEF Obeys
  <2>2. Obeyed(h, c)
    BY <2>1 DEF Lagging, Obeys
  <2>. QED  BY <1>3, <1>4, <1>5, <1>8, <2>2, ObeyedRead
<1>13. Lagging(g)'
  BY <1>4, <1>6, <1>7, <1>9, <1>10, <1>11, <1>12 DEF Lagging, Shows
<1>. QED  BY <1>13

-----------------------------------------------------------------------------
(***************************************************************************)
(* Rows                                                                    *)
(***************************************************************************)

\* A channel that gets a row was not dismissed.
LEMMA ShutGrows ==
    ASSUME Typed, Shut, NEW c \in Channels, UNCHANGED <<dismissed, closedStore>>,
           row' \subseteq row \cup {c}, c \in row' => Ensured(c),
           \A d \in Channels \ {c} : d \in row => d \in row',
           \A d \in Channels \ {c} : members[d] = {} => members'[d] = {},
           c \notin row' => members'[c] = {}
    PROVE  Shut'
<1>1. row' \cap dismissed' = {}
  BY DEF Shut, Ensured
<1>2. \A d \in Channels \ row' : members'[d] = {}
  BY DEF Shut
<1>. QED  BY <1>1, <1>2 DEF Shut

LEMMA ShutRead ==
    ASSUME Typed, Shut, \/ ReadOwnJoin \/ ReadJoin \/ ReadDeparture \/ ReadQuit \/ ReadNick \/ ReadPresence
                        \/ \E late \in BOOLEAN : ReadNames(late)
    PROVE  Shut'
<1>1. PICK l : l = Head(wire)
  OBVIOUS
<1>0. Shut => row \cap dismissed = {} /\ dismissed \subseteq closedStore /\ \A c \in Channels \ row : members[c] = {}
  BY DEF Shut
<1>2. CASE ReadOwnJoin
  <2>1. /\ l.c \in Channels /\ Untouched
        /\ \A d \in Channels \ {l.c} : members'[d] = members[d]
        /\ l.c \in cancelled =>
             /\ row' = IF l.c \in closed \/ ~ Ensured(l.c) THEN row \ {l.c} ELSE row \cup {l.c}
             /\ members'[l.c] = {}
        /\ l.c \notin cancelled =>
             /\ row' = IF Ensured(l.c) THEN row \cup {l.c} ELSE row
             /\ members'[l.c] = IF Ensured(l.c) THEN members[l.c] \cup {current} ELSE members[l.c]
    BY <1>1, <1>2, OwnJoinEffect
  <2>2. UNCHANGED <<dismissed, closedStore>>
    BY <2>1 DEF Untouched
  <2>3. /\ row' \subseteq row \cup {l.c} /\ (l.c \in row' => Ensured(l.c))
        /\ \A d \in Channels \ {l.c} : d \in row => d \in row'
        /\ l.c \notin row' => members'[l.c] = {}
    BY <1>0, <2>1 DEF Ensured
  <2>. QED  BY <2>1, <2>2, <2>3, ShutGrows
<1>3. CASE ReadJoin
  <2>1. /\ l.c \in Channels /\ Untouched
        /\ row' = IF Ensured(l.c) THEN row \cup {l.c} ELSE row
        /\ \A d \in Channels : members'[d] = IF d = l.c /\ Ensured(l.c) THEN members[d] \cup {l.n} ELSE members[d]
    BY <1>1, <1>3, JoinEffect
  <2>2. UNCHANGED <<dismissed, closedStore>>
    BY <2>1 DEF Untouched
  <2>3. /\ row' \subseteq row \cup {l.c} /\ (l.c \in row' => Ensured(l.c))
        /\ \A d \in Channels \ {l.c} : d \in row => d \in row'
        /\ l.c \notin row' => members'[l.c] = {}
    BY <1>0, <2>1 DEF Ensured
  <2>. QED  BY <2>1, <2>2, <2>3, ShutGrows
<1>4. CASE ReadDeparture
  <2>1. /\ l.c \in Channels /\ Untouched /\ row' = row
        /\ \A d \in Channels \ {l.c} : members'[d] = members[d]
        /\ l.c \notin row => members'[l.c] = members[l.c]
    BY <1>1, <1>4, DepartureEffect
  <2>2. \A d \in Channels \ row : members'[d] = {}
    BY <1>0, <2>1
  <2>. QED  BY <1>0, <2>1, <2>2 DEF Shut, Untouched
<1>5. CASE ReadQuit
  <2>1. Untouched /\ row' = row /\ \A d \in Channels : members'[d] = members[d] \ {l.n}
    BY <1>1, <1>5, QuitEffect
  <2>. QED  BY <1>0, <2>1 DEF Shut, Untouched
<1>6. CASE ReadNick
  <2>1. Untouched /\ row' = row /\ \A d \in Channels : members'[d] = Renamed(members[d], l.n, l.to)
    BY <1>1, <1>6, NickEffect
  <2>2. \A d \in Channels \ row : members'[d] = {}
    BY <1>0, <2>1 DEF Renamed
  <2>. QED  BY <1>0, <2>1, <2>2 DEF Shut, Untouched
<1>7. CASE ReadPresence
  <2>1. Untouched /\ row' = row /\ members' = members
    BY <1>1, <1>7, PresenceEffect
  <2>. QED  BY <1>0, <2>1 DEF Shut, Untouched
<1>8. ASSUME NEW late \in BOOLEAN, ReadNames(late)  PROVE Shut'
  <2>1. /\ l.c \in Channels /\ Untouched
        /\ row' = IF Ensured(l.c) THEN row \cup {l.c} ELSE row
        /\ \A d \in Channels \ {l.c} : members'[d] = members[d]
        /\ members'[l.c] = IF Ensured(l.c) THEN Synced(l.c) \cup l.names ELSE members[l.c]
    BY <1>1, <1>8, NamesEffect
  <2>2. UNCHANGED <<dismissed, closedStore>>
    BY <2>1 DEF Untouched
  <2>3. /\ row' \subseteq row \cup {l.c} /\ (l.c \in row' => Ensured(l.c))
        /\ \A d \in Channels \ {l.c} : d \in row => d \in row'
        /\ l.c \notin row' => members'[l.c] = {}
    BY <1>0, <2>1 DEF Ensured
  <2>. QED  BY <2>1, <2>2, <2>3, ShutGrows
<1>. QED  BY <1>2, <1>3, <1>4, <1>5, <1>6, <1>7, <1>8

LEMMA ShutUser ==
    ASSUME Typed, Shut, \/ \E c \in Channels : Join(c) \/ JoinRefused(c) \/ Part(c) \/ Close(c)
                        \/ \E n \in Nicks : Nick(n)
    PROVE  Shut'
<1>0. row \cap dismissed = {} /\ dismissed \subseteq closedStore /\ \A c \in Channels \ row : members[c] = {}
  BY DEF Shut
<1>1. ASSUME NEW c \in Channels, Join(c)  PROVE Shut'
  <2>1. /\ closedStore' = closedStore \ {c} /\ row' = row \cup {c} /\ dismissed' = dismissed \ {c}
        /\ members' = members
    BY <1>1, UserJoinEffect
  <2>. QED  BY <1>0, <2>1 DEF Shut
<1>2. ASSUME NEW c \in Channels, JoinRefused(c)  PROVE Shut'
  <2>1. /\ closedStore \ {c} \subseteq closedStore' /\ dismissed' = dismissed \ {c} /\ UNCHANGED <<row, members>>
    BY <1>2 DEF JoinRefused, rows
  <2>. QED  BY <1>0, <2>1 DEF Shut
<1>3. ASSUME NEW c \in Channels, Part(c)  PROVE Shut'
  <2>1. /\ UNCHANGED <<row, closedStore, dismissed>>
        /\ c \in row \ joined => members' = members
        /\ c \notin row \ joined =>
             /\ \A d \in Channels \ {c} : members'[d] = members[d]
             /\ members'[c] \subseteq members[c]
    BY <1>3, UserPartEffect
  <2>2. \A d \in Channels : members'[d] \subseteq members[d]
    BY <2>1
  <2>. QED  BY <1>0, <2>1, <2>2 DEF Shut
<1>4. ASSUME NEW c \in Channels, Close(c)  PROVE Shut'
  <2>1. /\ closedStore' = closedStore \cup {c} /\ row' = row \ {c} /\ dismissed' = dismissed \cup {c}
        /\ \A d \in Channels : members'[d] = IF d = c THEN {} ELSE members[d]
    BY <1>4, UserCloseEffect
  <2>. QED  BY <1>0, <2>1 DEF Shut
<1>5. ASSUME NEW n \in Nicks, Nick(n)  PROVE Shut'
  BY <1>0, <1>5 DEF Nick, client, rows, marks, ghosts, Shut
<1>. QED  BY <1>1, <1>2, <1>3, <1>4, <1>5

-----------------------------------------------------------------------------
(***************************************************************************)
(* The server's steps                                                      *)
(***************************************************************************)

\* A reply that is next is still next when more is put behind it.
LEMMA BurstKept ==
    ASSUME NEW ls \in Seq(Lines), NEW ms \in Seq(Lines), NEW c, NEW s, Burst(ls, 0, c, s)
    PROVE  Burst(ls \o ms, 0, c, s)
<1>1. /\ Len(ls) \in Nat /\ Len(ms) \in Nat /\ Len(ls \o ms) = Len(ls) + Len(ms)
      /\ \A i \in 1 .. Len(ls) : (ls \o ms)[i] = ls[i]
  BY ConcatFacts
<1>2. PICK w : w = ls \o ms
  OBVIOUS
<1>3. PICK q \in Nat : BurstOf(ls, 0, c, s, q)
  BY DEF Burst
<1>4. PICK N \in Nat : N = Len(ls)
  BY <1>1
<1>5. /\ 0 + q + 1 <= N
      /\ \A j \in 0 + 1 .. 0 + q : ls[j].line = "353" /\ ls[j].c = c
      /\ ls[0 + q + 1].line = "366" /\ ls[0 + q + 1].c = c /\ ls[0 + q + 1].names = {}
      /\ \A n \in Nicks : n \in s <=> \E j \in 0 + 1 .. 0 + q : n \in ls[j].names
  BY <1>3, <1>4 DEF BurstOf
<1>6. 0 + q + 1 \in 1 .. N /\ \A j \in 0 + 1 .. 0 + q : j \in 1 .. N
  BY <1>5
<1>7. w[0 + q + 1] = ls[0 + q + 1] /\ \A j \in 0 + 1 .. 0 + q : w[j] = ls[j]
  BY <1>1, <1>2, <1>4, <1>6
<1>8. 0 + q + 1 <= Len(w)
  BY <1>1, <1>2, <1>4, <1>5
<1>9. \A n \in Nicks : n \in s <=> \E j \in 0 + 1 .. 0 + q : n \in w[j].names
  BY <1>5, <1>7
<1>10. BurstOf(w, 0, c, s, q)
  BY <1>5, <1>7, <1>8, <1>9 DEF BurstOf
<1>. QED  BY <1>2, <1>10 DEF Burst

\* The server tells the lines ms, and they lead from the view it had to the view it has.
Sent(ms, k) ==
    /\ ms \in Seq(Lines) /\ wire' = wire \o ms
    /\ Flow(k, ms) /\ k[1] = Seen /\ k[Len(k)] = Seen'
    /\ ms # <<>> => ms[1].line \notin {"353", "366"}

\* The command it answers, if it does, has the effect the client counts on.
Answers(ms) ==
    \A c \in Channels :
        /\ \A cmd : Sends(out', cmd, c) => Sends(out, cmd, c)
        /\ Sends(out, "PART", c) => Sends(out', "PART", c) \/ c \notin Seen'.mine
        /\ Sends(out, "JOIN", c) => Sends(out', "JOIN", c) \/ c \in Seen'.mine
        /\ Sends(out, "WHO", c) => Sends(out', "WHO", c) \/ SaysAway(ms) \/ Seen'.list[c] \cap Seen'.away = {}
        /\ wish'[c] = "out" =>
             /\ wish[c] = "out"
             /\ LastPart(out, c) => LastPart(out', c) \/ (c \notin Seen'.mine /\ ~ Sends(out', "JOIN", c))
             /\ c \in Seen'.mine => c \in Seen.mine \/ Sends(out, "JOIN", c)

LEMMA ServerKeeps ==
    ASSUME Typed, NEW h, Lagging(h), NEW ms, NEW k, Sent(ms, k), Answers(ms),
           UNCHANGED <<joined, syncing, members, facts, autojoin, cancelled, current, stalled, hidden>>
    PROVE  \E g : Lagging(g)'
<1>1. /\ ms \in Seq(Lines) /\ wire' = wire \o ms
      /\ Flow(k, ms) /\ k[1] = Seen /\ k[Len(k)] = Seen'
      /\ ms # <<>> => ms[1].line \notin {"353", "366"}
  BY DEF Sent
<1>2. wire \in Seq(Lines) /\ Flow(h, wire) /\ h[Len(h)] = Seen
  BY DEF Typed, Lagging, Mirror
<1>3. PICK g : g = Glue(h, k)
  OBVIOUS
<1>4. /\ Flow(g, wire') /\ Len(g) = Len(h) + Len(k) - 1 /\ g[1] = h[1] /\ g[Len(g)] = Seen'
      /\ \A i \in 1 .. Len(h) : g[i] = h[i]
  <2>1. /\ Flow(Glue(h, k), wire \o ms) /\ Len(Glue(h, k)) = Len(h) + Len(k) - 1
        /\ Glue(h, k)[1] = h[1] /\ Glue(h, k)[Len(Glue(h, k))] = k[Len(k)]
        /\ \A i \in 1 .. Len(h) : Glue(h, k)[i] = h[i]
    BY <1>1, <1>2, FlowGlue, SMTT(30)
  <2>. QED  BY <1>1, <1>3, <2>1
<1>5. Len(h) \in Nat /\ Len(h) >= 1 /\ Len(k) \in Nat /\ Len(k) >= 1 /\ h[1] \in Views
  BY <1>1, <1>2, FlowFacts
<1>6. Len(g) \in Nat /\ Len(g) >= Len(h) /\ Len(g) \in 1 .. Len(g)
  BY <1>4, <1>5
<1>7. \A c : /\ SomeOut(h, c) => SomeOut(g, c)
             /\ SomeIn(h, c) => SomeIn(g, c)
             /\ SomeClear(h, c) => SomeClear(g, c)
  BY <1>4, <1>5, <1>6, SomeMore
<1>8. \A c : /\ c \notin Seen'.mine => SomeOut(g, c)
             /\ c \in Seen'.mine => SomeIn(g, c)
             /\ Seen'.list[c] \cap Seen'.away = {} => SomeClear(g, c)
             /\ c \notin Seen.mine => SomeOut(h, c)
  <2>1. Len(h) \in 1 .. Len(h)
    BY <1>5
  <2>. QED  BY <1>2, <1>4, <1>6, <2>1 DEF SomeOut, SomeIn, SomeClear
<1>9. /\ \A c : EndsNames(wire, c) => EndsNames(wire', c)
      /\ SaysAway(wire) \/ SaysAway(ms) => SaysAway(wire')
  BY <1>1, <1>2, SaysMore
<1>10. Mirror(g)'
  BY <1>4 DEF Mirror
<1>11. Lists(g)'
  BY <1>4 DEF Lagging, Lists
<1>12. Leaves(g)'
  <2>1. SUFFICES ASSUME NEW c \in h[1].mine
                 PROVE  c \in joined \cup hidden \/ SomeOut(g, c) \/ Sends(out', "PART", c)
    BY <1>4 DEF Leaves
  <2>2. c \in joined \cup hidden \/ SomeOut(h, c) \/ Sends(out, "PART", c)
    BY <2>1 DEF Lagging, Leaves
  <2>3. c \in Channels
    BY <1>5, <2>1, ViewFacts
  <2>. QED  BY <1>7, <1>8, <2>2, <2>3 DEF Answers
<1>13. Fills(g)'
  <2>1. SUFFICES ASSUME NEW c \in joined, c \notin stalled  PROVE Filled(g, c)'
    BY DEF Fills
  <2>2. Filled(h, c) /\ Synced(c)' = Synced(c) /\ members' = members
    BY <2>1 DEF Lagging, Fills, Synced
  <2>3. CASE wire # <<>>
    <3>1. wire' # <<>> /\ Head(wire') = Head(wire)
      BY <1>1, <1>2, <2>3
    <3>2. \A s : Burst(wire, 0, c, s) => Burst(wire', 0, c, s)
      BY <1>1, <1>2, BurstKept
    <3>3. CASE NamesOf(Head(wire), c)
      <4>1. \E s \in SUBSET Nicks : Burst(wire, 0, c, s) /\ Synced(c) \cup s = h[1].list[c]
        BY <2>2, <2>3, <3>3 DEF Filled
      <4>2. \E s \in SUBSET Nicks : Burst(wire', 0, c, s) /\ Synced(c)' \cup s = g[1].list[c]
        BY <1>4, <2>2, <3>2, <4>1
      <4>3. wire' # <<>> /\ NamesOf(Head(wire'), c)
        BY <3>1, <3>3
      <4>. QED  BY <4>2, <4>3 DEF Filled
    <3>4. CASE ~ NamesOf(Head(wire), c)
      <4>1. members'[c] = g[1].list[c]
        BY <1>4, <2>2, <3>4, FilledAlone
      <4>. QED  BY <3>1, <3>4, <4>1, AloneFilled
    <3>. QED  BY <3>3, <3>4
  <2>4. CASE wire = <<>>
    <3>1. members'[c] = g[1].list[c]
      BY <1>4, <2>2, <2>4, FilledAlone
    <3>2. wire' = ms
      BY <1>1, <2>4
    <3>3. wire' = <<>> \/ ~ NamesOf(Head(wire'), c)
      <4>1. ms # <<>> => Head(ms) = ms[1]
        BY <1>1, TailFacts
      <4>. QED  BY <1>1, <3>2, <4>1 DEF NamesOf
    <3>. QED  BY <3>1, <3>3, AloneFilled
  <2>. QED  BY <2>3, <2>4
<1>14. Shows(g)'
  <2>1. SUFFICES ASSUME NEW c \in joined  PROVE Shown(g, c)'
    BY DEF Shows
  <2>2. c \in Channels /\ Shown(h, c)
    BY <2>1 DEF Lagging, Shows, Typed, TypeOK
  <2>3. CASE \A n \in members[c] \cap h[1].away : facts[n].away
    BY <1>4, <2>3 DEF Shown
  <2>4. CASE SaysAway(wire) \/ EndsNames(wire, c) \/ SomeClear(h, c)
    BY <1>7, <1>9, <2>4 DEF Shown
  <2>5. CASE Sends(out, "WHO", c)
    <3>1. Sends(out', "WHO", c) \/ SaysAway(ms) \/ Seen'.list[c] \cap Seen'.away = {}
      BY <2>2, <2>5 DEF Answers
    <3>. QED  BY <1>8, <1>9, <3>1 DEF Shown
  <2>. QED  BY <2>2, <2>3, <2>4, <2>5 DEF Shown
<1>15. Rejoins(g)'
  <2>1. SUFFICES ASSUME NEW c \in autojoin  PROVE Sends(out', "JOIN", c) \/ SomeIn(g, c)
    BY DEF Rejoins
  <2>2. c \in Channels /\ (Sends(out, "JOIN", c) \/ SomeIn(h, c))
    BY <2>1 DEF Lagging, Rejoins, Typed, TypeOK
  <2>. QED  BY <1>7, <1>8, <2>2 DEF Answers
<1>16. Obeys(g)'
  <2>1. SUFFICES ASSUME NEW c \in Channels, wish'[c] = "out"  PROVE Obeyed(g, c)'
    BY DEF Obeys
  <2>2. /\ Sends(out', "JOIN", c) => Sends(out, "JOIN", c)
        /\ Sends(out, "PART", c) => Sends(out', "PART", c) \/ c \notin Seen'.mine
        /\ wish[c] = "out"
        /\ LastPart(out, c) => LastPart(out', c) \/ (c \notin Seen'.mine /\ ~ Sends(out', "JOIN", c))
        /\ c \in Seen'.mine => c \in Seen.mine \/ Sends(out, "JOIN", c)
    BY <2>1 DEF Answers
  <2>3. Obeyed(h, c)
    BY <2>2 DEF Lagging, Obeys
  <2>4. g[Len(g)] = Seen' /\ h[Len(h)] = Seen
    BY <1>2, <1>4
  <2>5. CASE LastPart(out, c)
    BY <2>2, <2>4, <2>5 DEF Obeyed
  <2>6. CASE c \notin Seen.mine /\ ~ Sends(out, "JOIN", c)
    BY <2>2, <2>4, <2>6 DEF Obeyed
  <2>7. CASE /\ c \in cancelled
             /\ c \in Seen.mine => SomeOut(h, c) \/ c \in hidden \/ Sends(out, "PART", c)
    <3>1. c \in Seen'.mine => SomeOut(g, c) \/ c \in hidden \/ Sends(out', "PART", c)
      BY <1>7, <1>8, <2>2, <2>7
    <3>. QED  BY <2>4, <2>7, <3>1 DEF Obeyed
  <2>. QED  BY <2>3, <2>4, <2>5, <2>6, <2>7 DEF Obeyed
<1>17. Lagging(g)'
  BY <1>10, <1>11, <1>12, <1>13, <1>14, <1>15, <1>16 DEF Lagging
<1>. QED  BY <1>17

-----------------------------------------------------------------------------
\* The view of a server with these nicks, members and other person.
ViewOf(nk, inn, p) ==
    [me |-> nk["me"],
     mine |-> {c \in Channels : "me" \in inn[c]},
     list |-> [c \in Channels |-> IF "me" \in inn[c] THEN {nk[u] : u \in inn[c]} ELSE {}],
     away |-> IF p.away /\ (\E c \in Channels : Users \subseteq inn[c]) THEN {nk["peer"]} ELSE {}]

LEMMA SeenIs ==
    /\ Seen = ViewOf(nick, in, peer)
    /\ Seen' = ViewOf(nick', in', peer')
<1>1. Seen = ViewOf(nick, in, peer)
  <2>1. (Shared # {}) = (\E c \in Channels : Users \subseteq in[c])
    BY DEF Shared
  <2>. QED  BY <2>1 DEF Seen, ViewOf, IsIn, Names
<1>2. Seen' = ViewOf(nick', in', peer')
  <2>1. (Shared' # {}) = (\E c \in Channels : Users \subseteq in'[c])
    BY DEF Shared
  <2>. QED  BY <2>1 DEF Seen, ViewOf, IsIn, Names
<1>. QED  BY <1>1, <1>2

Peers == [on : BOOLEAN, away : BOOLEAN, account : {"yes", "no"}]

LEMMA ViewOfFacts ==
    ASSUME NEW nk \in [Users -> Nicks], nk["me"] # nk["peer"],
           NEW inn \in [Channels -> SUBSET Users], NEW p \in Peers,
           NEW v, v = ViewOf(nk, inn, p)
    PROVE  /\ v \in Views /\ v.me = nk["me"]
           /\ \A c : c \in v.mine <=> c \in Channels /\ "me" \in inn[c]
           /\ \A c \in Channels : \A n : n \in v.list[c] <=>
                "me" \in inn[c] /\ (n = nk["me"] \/ ("peer" \in inn[c] /\ n = nk["peer"]))
           /\ \A n : n \in v.away <=>
                /\ p.away /\ n = nk["peer"]
                /\ \E c \in Channels : "me" \in inn[c] /\ "peer" \in inn[c]
<1>1. /\ v.me = nk["me"]
      /\ v.mine = {c \in Channels : "me" \in inn[c]}
      /\ v.list = [c \in Channels |-> IF "me" \in inn[c] THEN {nk[u] : u \in inn[c]} ELSE {}]
      /\ v.away = IF p.away /\ (\E c \in Channels : Users \subseteq inn[c]) THEN {nk["peer"]} ELSE {}
  BY DEF ViewOf
<1>2. \A c \in Channels : inn[c] \subseteq {"me", "peer"}
  BY DEF Users
<1>3. nk["me"] \in Nicks /\ nk["peer"] \in Nicks /\ \A u \in Users : nk[u] \in Nicks
  BY DEF Users
<1>4. \A c \in Channels : \A n : n \in v.list[c] <=>
         "me" \in inn[c] /\ (n = nk["me"] \/ ("peer" \in inn[c] /\ n = nk["peer"]))
  <2>. SUFFICES ASSUME NEW c \in Channels, NEW n
                PROVE  n \in v.list[c] <=>
                         "me" \in inn[c] /\ (n = nk["me"] \/ ("peer" \in inn[c] /\ n = nk["peer"]))
    OBVIOUS
  <2>1. v.list[c] = IF "me" \in inn[c] THEN {nk[u] : u \in inn[c]} ELSE {}
    BY <1>1
  <2>. QED  BY <1>2, <2>1
<1>5. \A c \in Channels : Users \subseteq inn[c] <=> "me" \in inn[c] /\ "peer" \in inn[c]
  BY <1>2 DEF Users
<1>6. \A n : n \in v.away <=>
         /\ p.away /\ n = nk["peer"]
         /\ \E c \in Channels : "me" \in inn[c] /\ "peer" \in inn[c]
  BY <1>1, <1>5
<1>7. v \in [me : Nicks, mine : SUBSET Channels, list : [Channels -> SUBSET Nicks], away : SUBSET Nicks]
  <2>1. {c \in Channels : "me" \in inn[c]} \in SUBSET Channels
    OBVIOUS
  <2>2. [c \in Channels |-> IF "me" \in inn[c] THEN {nk[u] : u \in inn[c]} ELSE {}] \in [Channels -> SUBSET Nicks]
    BY <1>3 DEF Users
  <2>3. (IF p.away /\ (\E c \in Channels : Users \subseteq inn[c]) THEN {nk["peer"]} ELSE {}) \in SUBSET Nicks
    BY <1>3
  <2>. QED  BY <1>3, <2>1, <2>2, <2>3 DEF ViewOf
<1>8. \A c \in Channels : IF c \in v.mine THEN v.me \in v.list[c] ELSE v.list[c] = {}
  BY <1>1, <1>4
<1>9. v.me \notin v.away
  BY <1>1, <1>6
<1>10. \A n \in v.away : \E c \in Channels : n \in v.list[c]
  BY <1>4, <1>6
<1>11. v \in Views
  BY <1>7, <1>8, <1>9, <1>10 DEF Views
<1>. QED  BY <1>1, <1>4, <1>6, <1>11

LEMMA SameView ==
    ASSUME NEW v \in Views, NEW w \in Views, v.me = w.me, \A c : c \in v.mine <=> c \in w.mine,
           \A c \in Channels : \A n : n \in v.list[c] <=> n \in w.list[c],
           \A n : n \in v.away <=> n \in w.away
    PROVE  v = w
<1>1. /\ v \in [me : Nicks, mine : SUBSET Channels, list : [Channels -> SUBSET Nicks], away : SUBSET Nicks]
      /\ w \in [me : Nicks, mine : SUBSET Channels, list : [Channels -> SUBSET Nicks], away : SUBSET Nicks]
  BY DEF Views
<1>2. v.mine = w.mine /\ v.away = w.away
  OBVIOUS
<1>3. v.list = w.list
  <2>1. v.list \in [Channels -> SUBSET Nicks] /\ w.list \in [Channels -> SUBSET Nicks]
    BY <1>1
  <2>2. \A c \in Channels : v.list[c] = w.list[c]
    OBVIOUS
  <2>. QED  BY <2>1, <2>2
<1>. QED  BY <1>1, <1>2, <1>3

-----------------------------------------------------------------------------
(* Short flows *)

LEMMA FlowNone ==
    ASSUME NEW v \in Views
    PROVE  Flow(<<v>>, <<>>)
<1>1. Len(<<>>) = 0 /\ Len(<<v>>) = 1 /\ <<v>> \in Seq(Views)
  OBVIOUS
<1>2. 1 .. 0 = {}
  OBVIOUS
<1>. QED  BY <1>1, <1>2 DEF Flow, Trace, Replied, Adjacent, Ends, Announced

\* One line, not one of a reply to NAMES.
LEMMA FlowOne ==
    ASSUME NEW v \in Views, NEW w \in Views, NEW l, Follows(l, v, w), l.line \notin {"353", "366"},
           l.line = "JOIN" => l.n # v.me /\ l.n \notin v.away
    PROVE  Flow(<<v, w>>, <<l>>)
<1>1. /\ Len(<<l>>) = 1 /\ Len(<<v, w>>) = 2 /\ <<v, w>> \in Seq(Views)
      /\ <<l>>[1] = l /\ <<v, w>>[1] = v /\ <<v, w>>[2] = w
  OBVIOUS
<1>2. PICK ls : ls = <<l>>
  OBVIOUS
<1>3. PICK h : h = <<v, w>>
  OBVIOUS
<1>4. Len(ls) = 1 /\ ls[1] = l /\ Len(h) = 2 /\ h \in Seq(Views) /\ h[1] = v /\ h[2] = w
  BY <1>1, <1>2, <1>3
<1>5. \A i \in 1 .. 1 : i = 1
  OBVIOUS
<1>6. Trace(h, ls)
  <2>1. ASSUME NEW i \in 1 .. Len(ls)  PROVE Follows(ls[i], h[i], h[i + 1])
    <3>1. i = 1 /\ i + 1 = 2
      BY <1>4
    <3>. QED  BY <1>4, <3>1
  <2>. QED  BY <1>4, <2>1 DEF Trace
<1>7. Replied(h, ls) /\ Adjacent(h, ls) /\ Ends(ls) /\ Announced(h, ls)
  BY <1>4, <1>5 DEF Replied, Adjacent, Ends, Announced
<1>. QED  BY <1>2, <1>3, <1>6, <1>7 DEF Flow

\* The JOIN of somebody away, and that.
LEMMA FlowTwo ==
    ASSUME NEW v \in Views, NEW w \in Views, NEW x \in Views, NEW l, NEW m,
           Follows(l, v, w), Follows(m, w, x), l.line = "JOIN", l.n # v.me, m.line = "AWAY", m.away
    PROVE  Flow(<<v, w, x>>, <<l, m>>)
<1>1. PICK ls : ls = <<l, m>>
  OBVIOUS
<1>2. PICK h : h = <<v, w, x>>
  OBVIOUS
<1>3. /\ Len(ls) = 2 /\ ls[1] = l /\ ls[2] = m
      /\ Len(h) = 3 /\ h \in Seq(Views) /\ h[1] = v /\ h[2] = w /\ h[3] = x
  BY <1>1, <1>2
<1>4. \A i \in 1 .. 2 : i = 1 \/ i = 2
  OBVIOUS
<1>5. Trace(h, ls)
  <2>1. ASSUME NEW i \in 1 .. Len(ls)  PROVE Follows(ls[i], h[i], h[i + 1])
    <3>1. (i = 1 /\ i + 1 = 2) \/ (i = 2 /\ i + 1 = 3)
      BY <1>3
    <3>. QED  BY <1>3, <3>1
  <2>. QED  BY <1>3, <2>1 DEF Trace
<1>6. Replied(h, ls)
  BY <1>3, <1>4 DEF Replied
<1>7. Adjacent(h, ls) /\ Ends(ls)
  BY <1>3, <1>4 DEF Adjacent, Ends
<1>8. Announced(h, ls)
  <2>1. 1 + 1 = 2 /\ 2 \in 1 .. 2
    OBVIOUS
  <2>. QED  BY <1>3, <1>4, <2>1 DEF Announced
<1>. QED  BY <1>1, <1>2, <1>5, <1>6, <1>7, <1>8 DEF Flow

\* The reply to WHO, which changes nothing.
Same(v, N) == [i \in 1 .. N |-> v]

LEMMA FlowSame ==
    ASSUME NEW v \in Views, NEW ms \in Seq(Lines),
           \A i \in 1 .. Len(ms) : ms[i].line = "AWAY" /\ Aways(ms[i], v, v)
    PROVE  /\ Flow(Same(v, Len(ms) + 1), ms)
           /\ Same(v, Len(ms) + 1)[1] = v
           /\ Same(v, Len(ms) + 1)[Len(Same(v, Len(ms) + 1))] = v
<1>1. PICK N \in Nat : N = Len(ms)
  BY ElementFacts
<1>2. N + 1 \in Nat
  OBVIOUS
<1>3. PICK k : k = Same(v, N + 1)
  OBVIOUS
<1>4. k \in [1 .. N + 1 -> Views] /\ \A i \in 1 .. N + 1 : k[i] = v
  BY <1>3 DEF Same
<1>5. k \in Seq(Views) /\ Len(k) = N + 1
  BY <1>2, <1>4
<1>6. \A i \in 1 .. N : i \in 1 .. N + 1 /\ i + 1 \in 1 .. N + 1
  OBVIOUS
<1>7. Trace(k, ms)
  <2>1. ASSUME NEW i \in 1 .. Len(ms)  PROVE Follows(ms[i], k[i], k[i + 1])
    <3>1. k[i] = v /\ k[i + 1] = v
      BY <1>1, <1>4, <1>6
    <3>2. ms[i].line = "AWAY" /\ Aways(ms[i], v, v)
      BY <2>1
    <3>. QED  BY <3>1, <3>2 DEF Follows
  <2>. QED  BY <1>1, <1>5, <2>1 DEF Trace
<1>8. Replied(k, ms) /\ Adjacent(k, ms) /\ Ends(ms) /\ Announced(k, ms)
  BY DEF Replied, Adjacent, Ends, Announced
<1>9. 1 \in 1 .. N + 1 /\ N + 1 \in 1 .. N + 1
  OBVIOUS
<1>. QED  BY <1>1, <1>3, <1>4, <1>5, <1>7, <1>8, <1>9 DEF Flow

\* The user's own JOIN and the names: N of them, and the end.
Twice(v, w, N) == [i \in 1 .. N |-> IF i = 1 THEN v ELSE w]

\* The N places of q have the members of s; the lines ms are a JOIN of c and those names.
Orders(q, N, s) == \A n : n \in s <=> \E i \in 1 .. N : n = q[i]
Batch(ms, c, q, N) ==
    /\ Len(ms) = N + 2
    /\ ms[1].line = "JOIN" /\ ms[1].c = c
    /\ \A i \in 1 .. N : ms[i + 1].line = "353" /\ ms[i + 1].c = c /\ ms[i + 1].names = {q[i]}
    /\ ms[N + 2].line = "366" /\ ms[N + 2].c = c /\ ms[N + 2].names = {}

\* They bring the user from the view v to the view w; the views k do that along the lines ms.
Brings(v, w, ms, c, q, N) ==
    /\ v \in Views /\ w \in Views /\ ms \in Seq(Lines) /\ N \in Nat
    /\ Batch(ms, c, q, N) /\ Orders(q, N, w.list[c]) /\ c \in w.mine
    /\ ms[1].n = v.me /\ Entered(ms[1], v, w) /\ ms[1].n \notin v.away
Leads(k, v, w, ms) == Flow(k, ms) /\ k[1] = v /\ k[Len(k)] = w

LEMMA FlowBurst ==
    ASSUME NEW v, NEW w, NEW ms, NEW N, NEW c, NEW q, Brings(v, w, ms, c, q, N)
    PROVE  Leads(Twice(v, w, N + 3), v, w, ms)
<1>. SUFFICES ASSUME v \in Views, w \in Views, ms \in Seq(Lines), N \in Nat,
                     Batch(ms, c, q, N), Orders(q, N, w.list[c]), c \in w.mine,
                     ms[1].n = v.me, Entered(ms[1], v, w), ms[1].n \notin v.away
              PROVE  /\ Flow(Twice(v, w, N + 3), ms)
                     /\ Twice(v, w, N + 3)[1] = v
                     /\ Twice(v, w, N + 3)[Len(Twice(v, w, N + 3))] = w
  BY DEF Brings, Leads
<1>0. /\ Len(ms) = N + 2
      /\ ms[1].line = "JOIN" /\ ms[1].c = c
      /\ \A i \in 1 .. N : ms[i + 1].line = "353" /\ ms[i + 1].c = c /\ ms[i + 1].names = {q[i]}
      /\ ms[N + 2].line = "366" /\ ms[N + 2].c = c /\ ms[N + 2].names = {}
      /\ \A n : n \in w.list[c] <=> \E i \in 1 .. N : n = q[i]
  BY DEF Batch, Orders
<1>1. N + 3 \in Nat
  OBVIOUS
<1>2. PICK k : k = Twice(v, w, N + 3)
  OBVIOUS
<1>3. k \in [1 .. N + 3 -> Views] /\ k[1] = v /\ \A i \in 2 .. N + 3 : k[i] = w
  BY <1>2 DEF Twice
<1>4. k \in Seq(Views) /\ Len(k) = N + 3
  BY <1>1, <1>3
<1>5. /\ \A i \in 1 .. N + 2 : i = 1 \/ i \in 2 .. N + 1 \/ i = N + 2
      /\ \A i \in 2 .. N + 1 : i - 1 \in 1 .. N /\ (i - 1) + 1 = i
  OBVIOUS
<1>6. \A i \in 2 .. N + 1 : ms[i].line = "353" /\ ms[i].c = c /\ ms[i].names = {q[i - 1]}
  BY <1>0, <1>5
<1>7. Trace(k, ms)
  <2>1. ASSUME NEW i \in 1 .. N + 2  PROVE Follows(ms[i], k[i], k[i + 1])
    <3>1. CASE i = 1
      <4>1. k[i] = v /\ k[i + 1] = w
        BY <1>3, <3>1
      <4>. QED  BY <1>0, <3>1, <4>1 DEF Follows
    <3>2. CASE i \in 2 .. N + 1
      <4>1. k[i] = w /\ k[i + 1] = w
        BY <1>3, <3>2
      <4>2. ms[i].line = "353" /\ ms[i].c = c /\ ms[i].names = {q[i - 1]}
        BY <1>6, <3>2
      <4>3. q[i - 1] \in w.list[c]
        BY <1>0, <1>5, <3>2
      <4>. QED  BY <4>1, <4>2, <4>3 DEF Follows, Named
    <3>3. CASE i = N + 2
      <4>1. k[i] = w /\ k[i + 1] = w
        BY <1>3, <3>3
      <4>. QED  BY <1>0, <3>3, <4>1 DEF Follows, Named
    <3>. QED  BY <1>5, <3>1, <3>2, <3>3
  <2>. QED  BY <1>0, <1>4, <2>1 DEF Trace
<1>8. BurstOf(ms, 1, c, w.list[c], N)
  <2>1. 1 + N + 1 = N + 2 /\ 1 + 1 = 2 /\ 1 + N = N + 1
    OBVIOUS
  <2>2. \A i \in 1 .. N : i + 1 \in 2 .. N + 1 /\ (i + 1) - 1 = i
    OBVIOUS
  <2>3. \A n \in Nicks : n \in w.list[c] <=> \E j \in 2 .. N + 1 : n \in ms[j].names
    <3>1. ASSUME NEW n \in Nicks, n \in w.list[c]  PROVE \E j \in 2 .. N + 1 : n \in ms[j].names
      <4>1. PICK i \in 1 .. N : n = q[i]
        BY <1>0, <3>1
      <4>2. i + 1 \in 2 .. N + 1 /\ ms[i + 1].names = {q[i]}
        BY <1>0, <2>2
      <4>. QED  BY <4>1, <4>2
    <3>2. ASSUME NEW n \in Nicks, NEW j \in 2 .. N + 1, n \in ms[j].names  PROVE n \in w.list[c]
      BY <1>0, <1>5, <1>6, <3>2
    <3>. QED  BY <3>1, <3>2
  <2>4. /\ 1 + N + 1 <= Len(ms)
        /\ \A j \in 1 + 1 .. 1 + N : ms[j].line = "353" /\ ms[j].c = c
        /\ ms[1 + N + 1].line = "366" /\ ms[1 + N + 1].c = c /\ ms[1 + N + 1].names = {}
        /\ \A n \in Nicks : n \in w.list[c] <=> \E j \in 1 + 1 .. 1 + N : n \in ms[j].names
    BY <1>0, <1>6, <2>1, <2>3
  <2>. QED  BY <2>4 DEF BurstOf
<1>9. Replied(k, ms)
  <2>1. SUFFICES ASSUME NEW i \in 1 .. N + 2, ms[i].line = "JOIN"
                 PROVE  Burst(ms, i, ms[i].c, k[i + 1].list[ms[i].c])
    BY <1>0 DEF Replied
  <2>2. i = 1
    BY <1>0, <1>5, <1>6, <2>1
  <2>3. k[i + 1] = w
    BY <1>3, <2>2
  <2>. QED  BY <1>0, <1>8, <2>2, <2>3 DEF Burst
<1>10. Adjacent(k, ms)
  <2>1. SUFFICES ASSUME NEW i \in 1 .. N + 2, i > 1
                 PROVE  /\ ms[i - 1].line \in {"353", "JOIN"} /\ ms[i - 1].c = ms[i].c
                        /\ ms[i - 1].line = "JOIN" => ms[i - 1].n = k[i - 1].me
    BY <1>0 DEF Adjacent
  <2>2. ms[i].c = c
    BY <1>0, <1>5, <1>6, <2>1
  <2>3. CASE i = 2
    <3>1. i - 1 = 1
      BY <2>3
    <3>. QED  BY <1>0, <1>3, <2>2, <3>1
  <2>4. CASE i # 2
    <3>1. i - 1 \in 2 .. N + 1
      BY <2>1, <2>4
    <3>. QED  BY <1>6, <2>2, <3>1
  <2>. QED  BY <2>3, <2>4
<1>11. Ends(ms)
  <2>1. SUFFICES ASSUME NEW i \in 1 .. N + 2, ms[i].line = "353"
                 PROVE  \E j \in i + 1 .. Len(ms) : ms[j].line = "366" /\ ms[j].c = ms[i].c
    BY <1>0 DEF Ends
  <2>2. i \in 2 .. N + 1
    BY <1>0, <1>5, <2>1
  <2>3. N + 2 \in i + 1 .. Len(ms) /\ ms[i].c = c
    BY <1>0, <1>6, <2>2
  <2>. QED  BY <1>0, <2>3
<1>12. Announced(k, ms)
  <2>1. SUFFICES ASSUME NEW i \in 1 .. N + 2, ms[i].line = "JOIN", ms[i].n \in k[i].away  PROVE FALSE
    BY <1>0 DEF Announced
  <2>2. i = 1
    BY <1>0, <1>5, <1>6, <2>1
  <2>. QED  BY <1>3, <2>1, <2>2
<1>13. 1 \in 1 .. N + 3 /\ N + 3 \in 2 .. N + 3
  OBVIOUS
<1>. QED  BY <1>2, <1>3, <1>4, <1>7, <1>9, <1>10, <1>11, <1>12, <1>13 DEF Flow

-----------------------------------------------------------------------------
(* What the server tells *)

ServerTypes == /\ nick' \in [Users -> Nicks] /\ nick'["me"] # nick'["peer"]
               /\ in' \in [Channels -> SUBSET Users] /\ peer' \in Peers

LEMMA TwoViews ==
    ASSUME Typed, ServerTypes
    PROVE  /\ Seen \in Views /\ Seen.me = nick["me"]
           /\ \A c : c \in Seen.mine <=> c \in Channels /\ "me" \in in[c]
           /\ \A c \in Channels : \A n : n \in Seen.list[c] <=>
                "me" \in in[c] /\ (n = nick["me"] \/ ("peer" \in in[c] /\ n = nick["peer"]))
           /\ \A n : n \in Seen.away <=>
                /\ peer.away /\ n = nick["peer"]
                /\ \E c \in Channels : "me" \in in[c] /\ "peer" \in in[c]
           /\ Seen' \in Views /\ Seen'.me = nick'["me"]
           /\ \A c : c \in Seen'.mine <=> c \in Channels /\ "me" \in in'[c]
           /\ \A c \in Channels : \A n : n \in Seen'.list[c] <=>
                "me" \in in'[c] /\ (n = nick'["me"] \/ ("peer" \in in'[c] /\ n = nick'["peer"]))
           /\ \A n : n \in Seen'.away <=>
                /\ peer'.away /\ n = nick'["peer"]
                /\ \E c \in Channels : "me" \in in'[c] /\ "peer" \in in'[c]
<1>1. /\ nick \in [Users -> Nicks] /\ nick["me"] # nick["peer"]
      /\ in \in [Channels -> SUBSET Users] /\ peer \in Peers
  BY DEF Typed, TypeOK, Peers
<1>2. PICK v : v = ViewOf(nick, in, peer)
  OBVIOUS
<1>3. PICK w : w = ViewOf(nick', in', peer')
  OBVIOUS
<1>4. v = Seen /\ w = Seen'
  BY <1>2, <1>3, SeenIs
<1>5. /\ v \in Views /\ v.me = nick["me"]
      /\ \A c : c \in v.mine <=> c \in Channels /\ "me" \in in[c]
      /\ \A c \in Channels : \A n : n \in v.list[c] <=>
           "me" \in in[c] /\ (n = nick["me"] \/ ("peer" \in in[c] /\ n = nick["peer"]))
      /\ \A n : n \in v.away <=>
           /\ peer.away /\ n = nick["peer"]
           /\ \E c \in Channels : "me" \in in[c] /\ "peer" \in in[c]
  BY <1>1, <1>2, ViewOfFacts
<1>6. /\ w \in Views /\ w.me = nick'["me"]
      /\ \A c : c \in w.mine <=> c \in Channels /\ "me" \in in'[c]
      /\ \A c \in Channels : \A n : n \in w.list[c] <=>
           "me" \in in'[c] /\ (n = nick'["me"] \/ ("peer" \in in'[c] /\ n = nick'["peer"]))
      /\ \A n : n \in w.away <=>
           /\ peer'.away /\ n = nick'["peer"]
           /\ \E c \in Channels : "me" \in in'[c] /\ "peer" \in in'[c]
  BY <1>3, ViewOfFacts DEF ServerTypes
<1>. QED  BY <1>4, <1>5, <1>6

LEMMA SentNone ==
    ASSUME Typed, wire' = wire, Seen' = Seen
    PROVE  Sent(<<>>, <<Seen>>)
<1>1. Seen \in Views
  BY SeenFacts
<1>2. Flow(<<Seen>>, <<>>)
  BY <1>1, FlowNone
<1>3. wire \o <<>> = wire /\ <<>> \in Seq(Lines)
  BY DEF Typed
<1>4. <<Seen>>[1] = Seen /\ Len(<<Seen>>) = 1
  OBVIOUS
<1>. QED  BY <1>2, <1>3, <1>4 DEF Sent

LEMMA SentOne ==
    ASSUME Seen \in Views, Seen' \in Views, NEW l \in Lines, wire' = wire \o <<l>>, Follows(l, Seen, Seen'),
           l.line \notin {"353", "366"}, l.line = "JOIN" => l.n # Seen.me /\ l.n \notin Seen.away
    PROVE  Sent(<<l>>, <<Seen, Seen'>>)
<1>1. Flow(<<Seen, Seen'>>, <<l>>)
  BY FlowOne
<1>2. /\ <<l>> \in Seq(Lines) /\ <<l>>[1] = l
      /\ <<Seen, Seen'>>[1] = Seen /\ Len(<<Seen, Seen'>>) = 2 /\ <<Seen, Seen'>>[2] = Seen'
  OBVIOUS
<1>. QED  BY <1>1, <1>2 DEF Sent

\* No command is answered.
LEMMA AnswersAlone ==
    ASSUME NEW ms, out' = out,
           \A c \in Channels : wish'[c] = "out" => wish[c] = "out" /\ (c \in Seen'.mine => c \in Seen.mine)
    PROVE  Answers(ms)
BY DEF Answers

\* The first command is answered.
LEMMA AnswersFirst ==
    ASSUME Typed, NEW ms, out # <<>>, out' = Tail(out), wish' = wish, NEW x, x = Head(out),
           x.cmd = "PART" => x.c \notin Seen'.mine,
           x.cmd = "JOIN" => x.c \in Seen'.mine,
           x.cmd = "WHO" => SaysAway(ms) \/ Seen'.list[x.c] \cap Seen'.away = {},
           \A c \in Channels : c \in Seen'.mine => c \in Seen.mine \/ (x.cmd = "JOIN" /\ x.c = c)
    PROVE  Answers(ms)
<1>1. out \in Seq(Commands)
  BY DEF Typed
<1>2. \A c, cmd : /\ Sends(out, cmd, c) => Sends(out', cmd, c) \/ (x.cmd = cmd /\ x.c = c)
                  /\ Sends(out', cmd, c) => Sends(out, cmd, c)
                  /\ LastPart(out, c) => \/ LastPart(out', c)
                                         \/ x.cmd = "PART" /\ x.c = c /\ ~ Sends(out', "JOIN", c)
  BY <1>1, SendsTail
<1>3. \A c, cmd : x.cmd = cmd /\ x.c = c => Sends(out, cmd, c)
  <2>1. Len(out) \in Nat /\ Len(out) >= 1 /\ x = out[1]
    BY <1>1, TailFacts
  <2>. QED  BY <2>1 DEF Sends
<1>4. SUFFICES ASSUME NEW c \in Channels
      PROVE  /\ \A cmd : Sends(out', cmd, c) => Sends(out, cmd, c)
             /\ Sends(out, "PART", c) => Sends(out', "PART", c) \/ c \notin Seen'.mine
             /\ Sends(out, "JOIN", c) => Sends(out', "JOIN", c) \/ c \in Seen'.mine
             /\ Sends(out, "WHO", c) => Sends(out', "WHO", c) \/ SaysAway(ms) \/ Seen'.list[c] \cap Seen'.away = {}
             /\ wish'[c] = "out" =>
                  /\ wish[c] = "out"
                  /\ LastPart(out, c) => LastPart(out', c) \/ (c \notin Seen'.mine /\ ~ Sends(out', "JOIN", c))
                  /\ c \in Seen'.mine => c \in Seen.mine \/ Sends(out, "JOIN", c)
  BY DEF Answers
<1>5. Sends(out, "PART", c) => Sends(out', "PART", c) \/ c \notin Seen'.mine
  BY <1>2
<1>6. Sends(out, "JOIN", c) => Sends(out', "JOIN", c) \/ c \in Seen'.mine
  BY <1>2
<1>7. Sends(out, "WHO", c) => Sends(out', "WHO", c) \/ SaysAway(ms) \/ Seen'.list[c] \cap Seen'.away = {}
  BY <1>2
<1>8. LastPart(out, c) => LastPart(out', c) \/ (c \notin Seen'.mine /\ ~ Sends(out', "JOIN", c))
  BY <1>2
<1>9. c \in Seen'.mine => c \in Seen.mine \/ Sends(out, "JOIN", c)
  BY <1>3
<1>. QED  BY <1>2, <1>5, <1>6, <1>7, <1>8, <1>9

\* The lines of the answer to a JOIN.
JoinBatch(c, q) ==
    <<[line |-> "JOIN", c |-> c, n |-> nick["me"], account |-> "no"]>>
      \o [i \in 1 .. Len(q) |-> [line |-> "353", c |-> c, names |-> {q[i]}]]
      \o <<[line |-> "366", c |-> c, names |-> {}]>>

LEMMA JoinBatchFacts ==
    ASSUME Typed, NEW c \in Channels, NEW N \in Nat, NEW q \in [1 .. N -> Nicks]
    PROVE  /\ JoinBatch(c, q) \in Seq(Lines) /\ Len(JoinBatch(c, q)) = N + 2
           /\ JoinBatch(c, q)[1] = [line |-> "JOIN", c |-> c, n |-> nick["me"], account |-> "no"]
           /\ \A i \in 1 .. N : JoinBatch(c, q)[i + 1] = [line |-> "353", c |-> c, names |-> {q[i]}]
           /\ JoinBatch(c, q)[N + 2] = [line |-> "366", c |-> c, names |-> {}]
<1>0. nick["me"] \in Nicks
  BY NamesFacts
<1>1. PICK j \in Lines : j = [line |-> "JOIN", c |-> c, n |-> nick["me"], account |-> "no"]
  BY <1>0, LinesMade
<1>2. PICK e \in Lines : e = [line |-> "366", c |-> c, names |-> {}]
  BY <1>0, LinesMade
<1>3. Len(q) = N
  OBVIOUS
<1>4. PICK b : b = [i \in 1 .. N |-> [line |-> "353", c |-> c, names |-> {q[i]}]]
  OBVIOUS
<1>5. b \in [1 .. N -> Lines] /\ \A i \in 1 .. N : b[i] = [line |-> "353", c |-> c, names |-> {q[i]}]
  <2>1. \A i \in 1 .. N : {q[i]} \in SUBSET Nicks
    OBVIOUS
  <2>2. \A i \in 1 .. N : [line |-> "353", c |-> c, names |-> {q[i]}] \in Lines
    BY <1>0, <2>1, LinesMade
  <2>. QED  BY <1>4, <2>2
<1>6. b \in Seq(Lines) /\ Len(b) = N
  BY <1>5
<1>7. JoinBatch(c, q) = <<j>> \o b \o <<e>>
  BY <1>1, <1>2, <1>3, <1>4 DEF JoinBatch
<1>8. <<j>> \in Seq(Lines) /\ Len(<<j>>) = 1 /\ <<j>>[1] = j /\ <<e>> \in Seq(Lines) /\ Len(<<e>>) = 1 /\ <<e>>[1] = e
  OBVIOUS
<1>9. PICK a : a = <<j>> \o b
  OBVIOUS
<1>10. /\ a \in Seq(Lines) /\ Len(a) = N + 1 /\ a[1] = j
       /\ \A i \in 1 .. N : a[i + 1] = b[i]
  <2>1. /\ <<j>> \o b \in Seq(Lines) /\ Len(<<j>> \o b) = 1 + N
        /\ \A i \in 1 .. 1 : (<<j>> \o b)[i] = <<j>>[i]
        /\ \A i \in 1 .. N : (<<j>> \o b)[1 + i] = b[i]
    BY <1>6, <1>8, ConcatFacts
  <2>2. \A i \in 1 .. N : 1 + i = i + 1
    OBVIOUS
  <2>3. 1 \in 1 .. 1 /\ 1 + N = N + 1
    OBVIOUS
  <2>. QED  BY <1>8, <1>9, <2>1, <2>2, <2>3
<1>11. /\ a \o <<e>> \in Seq(Lines) /\ Len(a \o <<e>>) = (N + 1) + 1
       /\ \A i \in 1 .. N + 1 : (a \o <<e>>)[i] = a[i]
       /\ \A i \in 1 .. 1 : (a \o <<e>>)[(N + 1) + i] = <<e>>[i]
  BY <1>8, <1>10, ConcatFacts
<1>12. /\ (N + 1) + 1 = N + 2 /\ 1 \in 1 .. 1 /\ 1 \in 1 .. N + 1
       /\ \A i \in 1 .. N : i + 1 \in 1 .. N + 1
  OBVIOUS
<1>13. JoinBatch(c, q) = a \o <<e>>
  BY <1>7, <1>9
<1>14. (a \o <<e>>)[1] = j /\ (a \o <<e>>)[N + 2] = e
  BY <1>8, <1>10, <1>11, <1>12
<1>15. \A i \in 1 .. N : (a \o <<e>>)[i + 1] = b[i]
  BY <1>10, <1>11, <1>12
<1>. QED  BY <1>1, <1>2, <1>5, <1>11, <1>12, <1>13, <1>14, <1>15

\* The user enters a channel: what the server tells, and what it leaves alone.
LEMMA ServeJoinEffect ==
    ASSUME Typed, NEW c \in Channels, ServeJoin(c), UNCHANGED <<nick, peer>>
    PROVE  /\ ServerTypes /\ \E ms, k : Sent(ms, k)
           /\ \A d \in Channels : d \in Seen'.mine <=> d \in Seen.mine \/ d = c
<1>0. /\ nick \in [Users -> Nicks] /\ nick["me"] # nick["peer"]
      /\ in \in [Channels -> SUBSET Users] /\ peer \in Peers /\ "me" \in Users
  BY DEF Typed, TypeOK, Peers, Users
<1>1. CASE IsIn(c)
  <2>1. in' = in /\ wire' = wire
    BY <1>1 DEF ServeJoin
  <2>2. Seen' = Seen
    BY <2>1, SeenKept
  <2>3. ServerTypes
    BY <1>0, <2>1 DEF ServerTypes
  <2>4. Sent(<<>>, <<Seen>>)
    BY <2>1, <2>2, SentNone
  <2>5. c \in Seen.mine
    BY <1>1, SeenFacts
  <2>. QED  BY <2>2, <2>3, <2>4, <2>5
<1>2. CASE ~ IsIn(c)
  <2>1. PICK q : q = SomeOrder(Names(c) \cup {nick["me"]})
    OBVIOUS
  <2>2. in' = [in EXCEPT ![c] = @ \cup {"me"}] /\ wire' = wire \o JoinBatch(c, q)
    BY <1>2, <2>1 DEF ServeJoin, Tell, JoinBatch
  <2>3. in' \in [Channels -> SUBSET Users] /\ \A d \in Channels : in'[d] = IF d = c THEN in[d] \cup {"me"} ELSE in[d]
    BY <1>0, <2>2
  <2>4. ServerTypes
    BY <1>0, <2>3 DEF ServerTypes
  <2>5. /\ Names(c) \subseteq Nicks /\ IsFiniteSet(Names(c) \cup {nick["me"]}) /\ nick["me"] \in Nicks
        /\ \A n : n \in Names(c) <=> \/ "me" \in in[c] /\ n = nick["me"]
                                     \/ "peer" \in in[c] /\ n = nick["peer"]
    BY NamesFacts
  <2>5a. PICK s : s = Names(c) \cup {nick["me"]}
    OBVIOUS
  <2>5b. IsFiniteSet(s) /\ q = SomeOrder(s)
    BY <2>1, <2>5, <2>5a
  <2>5c. /\ Cardinality(s) \in Nat /\ q \in [1 .. Cardinality(s) -> s]
         /\ \A x \in s : \E i \in 1 .. Cardinality(s) : q[i] = x
    BY <2>5b, SomeOrderFacts
  <2>6. PICK N \in Nat : N = Cardinality(s)
    BY <2>5c
  <2>7. q \in [1 .. N -> s] /\ \A x \in s : \E i \in 1 .. N : q[i] = x
    BY <2>5c, <2>6
  <2>8. q \in [1 .. N -> Nicks]
    BY <2>5, <2>5a, <2>7
  <2>9. PICK ms : ms = JoinBatch(c, q)
    OBVIOUS
  <2>10. /\ ms \in Seq(Lines) /\ Len(ms) = N + 2
         /\ ms[1] = [line |-> "JOIN", c |-> c, n |-> nick["me"], account |-> "no"]
         /\ \A i \in 1 .. N : ms[i + 1] = [line |-> "353", c |-> c, names |-> {q[i]}]
         /\ ms[N + 2] = [line |-> "366", c |-> c, names |-> {}]
    BY <2>8, <2>9, JoinBatchFacts
  <2>11. /\ Seen \in Views /\ Seen.me = nick["me"]
         /\ \A d : d \in Seen.mine <=> d \in Channels /\ "me" \in in[d]
         /\ \A d \in Channels : \A n : n \in Seen.list[d] <=>
              "me" \in in[d] /\ (n = nick["me"] \/ ("peer" \in in[d] /\ n = nick["peer"]))
         /\ \A n : n \in Seen.away <=>
              /\ peer.away /\ n = nick["peer"]
              /\ \E d \in Channels : "me" \in in[d] /\ "peer" \in in[d]
    BY <2>4, TwoViews
  <2>12. /\ Seen' \in Views /\ Seen'.me = nick["me"]
         /\ \A d : d \in Seen'.mine <=> d \in Channels /\ "me" \in in'[d]
         /\ \A d \in Channels : \A n : n \in Seen'.list[d] <=>
              "me" \in in'[d] /\ (n = nick["me"] \/ ("peer" \in in'[d] /\ n = nick["peer"]))
         /\ \A n : n \in Seen'.away <=>
              /\ peer.away /\ n = nick["peer"]
              /\ \E d \in Channels : "me" \in in'[d] /\ "peer" \in in'[d]
    BY <2>4, TwoViews
  <2>13. "me" \notin in[c] /\ "me" \in in'[c] /\ ("peer" \in in'[c] <=> "peer" \in in[c])
    BY <1>2, <2>3 DEF IsIn
  <2>14. \A d \in Channels : d # c => in'[d] = in[d]
    BY <2>3
  <2>15. \A d \in Channels : d \in Seen'.mine <=> d \in Seen.mine \/ d = c
    BY <2>11, <2>12, <2>13, <2>14
  <2>16. \A n : n \in Seen'.list[c] <=> \E i \in 1 .. N : n = q[i]
    <3>1. \A n : n \in Seen'.list[c] <=> n \in s
      BY <2>5, <2>5a, <2>12, <2>13
    <3>. QED  BY <2>7, <3>1
  <2>17. Entered(ms[1], Seen, Seen')
    <3>1. ms[1].c = c
      BY <2>10
    <3>2. c \notin Seen.mine /\ Seen'.mine = Seen.mine \cup {c} /\ Seen'.me = Seen.me
      BY <2>11, <2>12, <2>13, <2>15
    <3>3. ASSUME NEW d \in Channels \ {c}  PROVE Seen'.list[d] = Seen.list[d]
      <4>1. \A n : n \in Seen'.list[d] <=> n \in Seen.list[d]
        BY <2>11, <2>12, <2>14, <3>3
      <4>. QED  BY <4>1
    <3>4. Seen'.away = Seen.away \/ \A d \in Channels : Seen'.away \cap Seen.list[d] = {}
      <4>1. CASE \E d \in Channels : "me" \in in[d] /\ "peer" \in in[d]
        <5>1. \E d \in Channels : "me" \in in'[d] /\ "peer" \in in'[d]
          BY <2>13, <2>14, <4>1
        <5>. QED  BY <2>11, <2>12, <4>1, <5>1
      <4>2. CASE ~ \E d \in Channels : "me" \in in[d] /\ "peer" \in in[d]
        <5>1. \A d \in Channels : nick["peer"] \notin Seen.list[d]
          BY <1>0, <2>11, <4>2
        <5>. QED  BY <2>12, <5>1
      <4>. QED  BY <4>1, <4>2
    <3>. QED  BY <3>1, <3>2, <3>3, <3>4 DEF Entered
  <2>18. Batch(ms, c, q, N) /\ ms[1].n = Seen.me /\ ms[1].n \notin Seen.away /\ c \in Seen'.mine
    <3>1. c \in Seen'.mine /\ nick["me"] \notin Seen.away
      BY <1>0, <2>11, <2>12, <2>13
    <3>2. ASSUME NEW i \in 1 .. N
          PROVE  ms[i + 1].line = "353" /\ ms[i + 1].c = c /\ ms[i + 1].names = {q[i]}
      <4>1. PICK x : x = ms[i + 1]
        OBVIOUS
      <4>2. x = [line |-> "353", c |-> c, names |-> {q[i]}]
        BY <2>10, <4>1
      <4>. QED  BY <4>1, <4>2
    <3>3. ms[N + 2].line = "366" /\ ms[N + 2].c = c /\ ms[N + 2].names = {}
      BY <2>10
    <3>4. ms[1].line = "JOIN" /\ ms[1].n = nick["me"] /\ ms[1].c = c
      BY <2>10
    <3>. QED  BY <2>10, <2>11, <3>1, <3>2, <3>3, <3>4 DEF Batch
  <2>19. PICK v \in Views : v = Seen
    BY <2>11
  <2>20. PICK w \in Views : w = Seen'
    BY <2>12
  <2>21. /\ Flow(Twice(v, w, N + 3), ms)
         /\ Twice(v, w, N + 3)[1] = v
         /\ Twice(v, w, N + 3)[Len(Twice(v, w, N + 3))] = w
    <3>1. /\ ms \in Seq(Lines) /\ Batch(ms, c, q, N)
          /\ ms[1].n = v.me /\ ms[1].n \notin v.away
          /\ Entered(ms[1], v, w) /\ c \in w.mine
      BY <2>10, <2>17, <2>18, <2>19, <2>20
    <3>2. Orders(q, N, w.list[c])
      BY <2>16, <2>20 DEF Orders
    <3>3. Brings(v, w, ms, c, q, N)
      BY <3>1, <3>2 DEF Brings
    <3>4. Leads(Twice(v, w, N + 3), v, w, ms)
      BY <3>3, FlowBurst
    <3>. QED  BY <3>4 DEF Leads
  <2>22. Sent(ms, Twice(v, w, N + 3))
    <3>1. ms[1].line = "JOIN"
      BY <2>18 DEF Batch
    <3>. QED  BY <2>2, <2>9, <2>10, <2>19, <2>20, <2>21, <3>1 DEF Sent
  <2>. QED  BY <2>4, <2>15, <2>22
<1>. QED  BY <1>1, <1>2

\* The user leaves a channel or is thrown out of it.
LEMMA LeaveEffect ==
    ASSUME Typed, NEW c \in Channels, UNCHANGED <<nick, peer>>, in' = [in EXCEPT ![c] = @ \ {"me"}],
           NEW kind \in {"PART", "KICK"},
           IF IsIn(c) THEN wire' = wire \o <<[line |-> kind, c |-> c, n |-> nick["me"]]>> ELSE wire' = wire
    PROVE  /\ ServerTypes /\ \E ms, k : Sent(ms, k)
           /\ \A d \in Channels : d \in Seen'.mine <=> d \in Seen.mine /\ d # c
<1>0. /\ nick \in [Users -> Nicks] /\ nick["me"] # nick["peer"] /\ nick["me"] \in Nicks
      /\ in \in [Channels -> SUBSET Users] /\ peer \in Peers /\ "me" \in Users
  BY DEF Typed, TypeOK, Peers, Users
<1>1. in' \in [Channels -> SUBSET Users] /\ \A d \in Channels : in'[d] = IF d = c THEN in[d] \ {"me"} ELSE in[d]
  BY <1>0
<1>2. ServerTypes
  BY <1>0, <1>1 DEF ServerTypes
<1>3. /\ Seen \in Views /\ Seen.me = nick["me"]
      /\ \A d : d \in Seen.mine <=> d \in Channels /\ "me" \in in[d]
      /\ \A d \in Channels : \A n : n \in Seen.list[d] <=>
           "me" \in in[d] /\ (n = nick["me"] \/ ("peer" \in in[d] /\ n = nick["peer"]))
      /\ \A n : n \in Seen.away <=>
           /\ peer.away /\ n = nick["peer"]
           /\ \E d \in Channels : "me" \in in[d] /\ "peer" \in in[d]
  BY <1>2, TwoViews
<1>4. /\ Seen' \in Views /\ Seen'.me = nick["me"]
      /\ \A d : d \in Seen'.mine <=> d \in Channels /\ "me" \in in'[d]
      /\ \A d \in Channels : \A n : n \in Seen'.list[d] <=>
           "me" \in in'[d] /\ (n = nick["me"] \/ ("peer" \in in'[d] /\ n = nick["peer"]))
      /\ \A n : n \in Seen'.away <=>
           /\ peer.away /\ n = nick["peer"]
           /\ \E d \in Channels : "me" \in in'[d] /\ "peer" \in in'[d]
  BY <1>2, TwoViews
<1>5. \A d \in Channels : d \in Seen'.mine <=> d \in Seen.mine /\ d # c
  BY <1>1, <1>3, <1>4
<1>6. "me" \notin in'[c] /\ \A d \in Channels : d # c => in'[d] = in[d]
  BY <1>1
<1>7. CASE ~ IsIn(c)
  <2>1. \A d \in Channels : in'[d] = in[d]
    BY <1>1, <1>7 DEF IsIn
  <2>2. \A d : d \in Seen.mine <=> d \in Seen'.mine
    BY <1>3, <1>4, <2>1
  <2>3. \A d \in Channels : \A n : n \in Seen.list[d] <=> n \in Seen'.list[d]
    BY <1>3, <1>4, <2>1
  <2>4. \A n : n \in Seen.away <=> n \in Seen'.away
    BY <1>3, <1>4, <2>1
  <2>5. Seen' = Seen
    BY <1>3, <1>4, <2>2, <2>3, <2>4, SameView
  <2>6. Sent(<<>>, <<Seen>>)
    BY <1>7, <2>5, SentNone
  <2>. QED  BY <1>2, <1>5, <2>6
<1>8. CASE IsIn(c)
  <2>1. PICK l \in Lines : l = [line |-> kind, c |-> c, n |-> nick["me"]]
    BY <1>0, LinesMade
  <2>2. l.line = kind /\ l.c = c /\ l.n = nick["me"]
    BY <2>1
  <2>3. Gone(l, Seen, Seen')
    <3>1. c \in Seen.mine /\ Seen'.me = Seen.me /\ Seen'.mine = Seen.mine \ {c}
      BY <1>3, <1>4, <1>5, <1>8 DEF IsIn
    <3>2. Seen'.away \subseteq Seen.away
      BY <1>3, <1>4, <1>6
    <3>3. Seen'.list[c] = {}
      BY <1>4, <1>6
    <3>4. ASSUME NEW d \in Channels, d # c  PROVE Seen'.list[d] = Seen.list[d]
      <4>1. \A n : n \in Seen'.list[d] <=> n \in Seen.list[d]
        BY <1>3, <1>4, <1>6, <3>4
      <4>. QED  BY <4>1
    <3>. QED  BY <1>3, <2>2, <3>1, <3>2, <3>3, <3>4 DEF Gone
  <2>4. Follows(l, Seen, Seen')
    BY <2>2, <2>3 DEF Follows
  <2>5. Sent(<<l>>, <<Seen, Seen'>>)
    BY <1>3, <1>4, <1>8, <2>1, <2>2, <2>4, SentOne
  <2>. QED  BY <1>2, <1>5, <2>5
<1>. QED  BY <1>7, <1>8

\* The answer to WHO.
LEMMA WhoEffect ==
    ASSUME Typed, NEW c \in Channels, UNCHANGED <<nick, in, peer>>,
           IF IsIn(c) THEN wire' = wire \o WhoReply(c) ELSE wire' = wire
    PROVE  /\ ServerTypes /\ Seen' = Seen
           /\ \E ms, k : Sent(ms, k) /\ (SaysAway(ms) \/ Seen.list[c] \cap Seen.away = {})
<1>0. /\ nick \in [Users -> Nicks] /\ nick["me"] # nick["peer"]
      /\ in \in [Channels -> SUBSET Users] /\ peer \in Peers
  BY DEF Typed, TypeOK, Peers
<1>1. ServerTypes
  BY <1>0 DEF ServerTypes
<1>2. Seen' = Seen
  BY SeenKept
<1>3. /\ Seen \in Views /\ Seen.me = nick["me"]
      /\ \A d \in Channels : \A n : n \in Seen.list[d] <=>
           "me" \in in[d] /\ (n = nick["me"] \/ ("peer" \in in[d] /\ n = nick["peer"]))
      /\ \A n : n \in Seen.away <=>
           /\ peer.away /\ n = nick["peer"]
           /\ \E d \in Channels : "me" \in in[d] /\ "peer" \in in[d]
  BY <1>1, TwoViews
<1>4. CASE ~ IsIn(c)
  <2>1. Sent(<<>>, <<Seen>>)
    BY <1>2, <1>4, SentNone
  <2>2. Seen.list[c] = {}
    BY <1>3, <1>4 DEF IsIn
  <2>. QED  BY <1>1, <1>2, <2>1, <2>2
<1>5. CASE IsIn(c)
  <2>1. IsFiniteSet(in[c])
    BY NamesFacts
  <2>2. PICK q : q = SomeOrder(in[c])
    OBVIOUS
  <2>3. /\ Cardinality(in[c]) \in Nat /\ q \in [1 .. Cardinality(in[c]) -> in[c]]
        /\ \A x \in in[c] : \E i \in 1 .. Cardinality(in[c]) : q[i] = x
    BY <2>1, <2>2, SomeOrderFacts
  <2>4. PICK N \in Nat : N = Cardinality(in[c])
    BY <2>3
  <2>5. q \in [1 .. N -> in[c]] /\ \A x \in in[c] : \E i \in 1 .. N : q[i] = x
    BY <2>3, <2>4
  <2>6. PICK ms : ms = WhoReply(c)
    OBVIOUS
  <2>7. ms = [i \in 1 .. N |-> [line |-> "AWAY", n |-> nick[q[i]], away |-> q[i] = "peer" /\ peer.away]]
    BY <2>2, <2>4, <2>6 DEF WhoReply
  <2>8. \A i \in 1 .. N : q[i] \in Users /\ nick[q[i]] \in Nicks
    BY <1>0, <2>5
  <2>9. ASSUME NEW i \in 1 .. N
        PROVE  /\ ms[i] \in Lines /\ ms[i].line = "AWAY" /\ ms[i].n = nick[q[i]]
               /\ ms[i].away = (q[i] = "peer" /\ peer.away)
    <3>1. ms[i] = [line |-> "AWAY", n |-> nick[q[i]], away |-> q[i] = "peer" /\ peer.away]
      BY <2>7
    <3>2. PICK b \in BOOLEAN : b = (q[i] = "peer" /\ peer.away)
      OBVIOUS
    <3>3. PICK m \in Nicks : m = nick[q[i]]
      BY <2>8
    <3>4. [line |-> "AWAY", n |-> m, away |-> b] \in Lines
      BY LinesMade
    <3>5. ms[i] = [line |-> "AWAY", n |-> m, away |-> b]
      BY <3>1, <3>2, <3>3
    <3>. QED  BY <3>2, <3>3, <3>4, <3>5
  <2>10. ms \in [1 .. N -> Lines]
    BY <2>7, <2>9
  <2>11. ms \in Seq(Lines) /\ Len(ms) = N
    BY <2>10
  <2>12. PICK v \in Views : v = Seen
    BY <1>3
  <2>13. ASSUME NEW i \in 1 .. N  PROVE Aways(ms[i], v, v)
    <3>1. q[i] \in {"me", "peer"} /\ q[i] \in in[c]
      BY <2>5, <2>8 DEF Users
    <3>2. v.away = IF ms[i].away THEN {ms[i].n} ELSE v.away \ {ms[i].n}
      <4>1. CASE ms[i].away
        <5>1. q[i] = "peer" /\ peer.away /\ ms[i].n = nick["peer"]
          BY <2>9, <4>1
        <5>2. "me" \in in[c] /\ "peer" \in in[c]
          BY <1>5, <3>1, <5>1 DEF IsIn
        <5>3. \A n : n \in v.away <=> n = nick["peer"]
          BY <1>3, <2>12, <5>1, <5>2
        <5>4. v.away = {ms[i].n}
          BY <5>1, <5>3
        <5>. QED  BY <4>1, <5>4
      <4>2. CASE ~ ms[i].away
        <5>1. ms[i].n \notin v.away
          BY <1>0, <1>3, <2>9, <2>12, <3>1, <4>2
        <5>2. v.away \ {ms[i].n} = v.away
          BY <5>1
        <5>. QED  BY <4>2, <5>2
      <4>. QED  BY <4>1, <4>2
    <3>. QED  BY <3>2 DEF Aways
  <2>14. \A i \in 1 .. Len(ms) : ms[i].line = "AWAY" /\ Aways(ms[i], v, v)
    BY <2>9, <2>11, <2>13
  <2>15. /\ Flow(Same(v, Len(ms) + 1), ms)
         /\ Same(v, Len(ms) + 1)[1] = v
         /\ Same(v, Len(ms) + 1)[Len(Same(v, Len(ms) + 1))] = v
    BY <2>11, <2>14, FlowSame
  <2>16. ms # <<>> => ms[1].line = "AWAY"
    <3>1. ms # <<>> => 1 \in 1 .. Len(ms)
      BY <2>11
    <3>. QED  BY <2>14, <3>1
  <2>17. Sent(ms, Same(v, Len(ms) + 1))
    BY <1>2, <1>5, <2>6, <2>11, <2>12, <2>15, <2>16 DEF Sent
  <2>18. SaysAway(ms) \/ Seen.list[c] \cap Seen.away = {}
    <3>1. CASE "peer" \in in[c] /\ peer.away
      <4>1. PICK i \in 1 .. N : q[i] = "peer"
        BY <2>5, <3>1
      <4>2. ms[i].line = "AWAY" /\ ms[i].away
        BY <2>9, <3>1, <4>1
      <4>. QED  BY <2>11, <4>2 DEF SaysAway
    <3>2. CASE ~ ("peer" \in in[c] /\ peer.away)
      <4>1. \A n : ~ (n \in Seen.list[c] /\ n \in Seen.away)
        BY <1>0, <1>3, <3>2
      <4>. QED  BY <4>1
    <3>. QED  BY <3>1, <3>2
  <2>. QED  BY <1>1, <1>2, <2>17, <2>18
<1>. QED  BY <1>4, <1>5

\* Somebody, the user included, has another nick.
LEMMA RenameEffect ==
    ASSUME Typed, NEW u \in Users, NEW n \in Nicks, n # nick["me"], n # nick["peer"],
           UNCHANGED <<in, peer>>, nick' = [nick EXCEPT ![u] = n],
           IF u = "me" \/ (\E c \in Channels : "me" \in in[c] /\ "peer" \in in[c])
           THEN wire' = wire \o <<[line |-> "NICK", n |-> nick[u], to |-> n]>> ELSE wire' = wire
    PROVE  /\ ServerTypes /\ \E ms, k : Sent(ms, k)
           /\ \A d \in Channels : d \in Seen'.mine <=> d \in Seen.mine
<1>0. /\ nick \in [Users -> Nicks] /\ nick["me"] # nick["peer"] /\ nick[u] \in Nicks
      /\ in \in [Channels -> SUBSET Users] /\ peer \in Peers /\ u \in {"me", "peer"}
  BY DEF Typed, TypeOK, Peers, Users
<1>1. /\ nick' \in [Users -> Nicks]
      /\ nick'["me"] = IF u = "me" THEN n ELSE nick["me"]
      /\ nick'["peer"] = IF u = "peer" THEN n ELSE nick["peer"]
  BY <1>0 DEF Users
<1>1a. nick'["me"] # nick'["peer"]
  BY <1>0, <1>1
<1>2. ServerTypes
  BY <1>0, <1>1, <1>1a DEF ServerTypes
<1>3. /\ Seen \in Views /\ Seen.me = nick["me"]
      /\ \A d : d \in Seen.mine <=> d \in Channels /\ "me" \in in[d]
      /\ \A d \in Channels : \A m : m \in Seen.list[d] <=>
           "me" \in in[d] /\ (m = nick["me"] \/ ("peer" \in in[d] /\ m = nick["peer"]))
      /\ \A m : m \in Seen.away <=>
           /\ peer.away /\ m = nick["peer"]
           /\ \E d \in Channels : "me" \in in[d] /\ "peer" \in in[d]
  BY <1>2, TwoViews
<1>4. /\ Seen' \in Views /\ Seen'.me = nick'["me"]
      /\ \A d : d \in Seen'.mine <=> d \in Channels /\ "me" \in in[d]
      /\ \A d \in Channels : \A m : m \in Seen'.list[d] <=>
           "me" \in in[d] /\ (m = nick'["me"] \/ ("peer" \in in[d] /\ m = nick'["peer"]))
      /\ \A m : m \in Seen'.away <=>
           /\ peer.away /\ m = nick'["peer"]
           /\ \E d \in Channels : "me" \in in[d] /\ "peer" \in in[d]
  BY <1>2, TwoViews
<1>5. \A d : d \in Seen'.mine <=> d \in Seen.mine
  BY <1>3, <1>4
<1>6. CASE ~ (u = "me" \/ (\E c \in Channels : "me" \in in[c] /\ "peer" \in in[c]))
  <2>1. Seen.me = Seen'.me
    BY <1>0, <1>1, <1>3, <1>4, <1>6
  <2>2. \A d \in Channels : \A m : m \in Seen.list[d] <=> m \in Seen'.list[d]
    BY <1>0, <1>1, <1>3, <1>4, <1>6
  <2>3. \A m : m \in Seen.away <=> m \in Seen'.away
    BY <1>3, <1>4, <1>6
  <2>4. Seen = Seen'
    BY <1>3, <1>4, <1>5, <2>1, <2>2, <2>3, SameView
  <2>5. Sent(<<>>, <<Seen>>)
    BY <1>6, <2>4, SentNone
  <2>. QED  BY <1>2, <1>5, <2>5
<1>7. CASE u = "me" \/ (\E c \in Channels : "me" \in in[c] /\ "peer" \in in[c])
  <2>0. [line |-> "NICK", n |-> nick[u], to |-> n] \in NickLines
    BY <1>0 DEF NickLines
  <2>1. PICK l \in Lines : l = [line |-> "NICK", n |-> nick[u], to |-> n]
    BY <2>0 DEF Lines
  <2>2. l.line = "NICK" /\ l.n = nick[u] /\ l.to = n
    BY <2>1
  <2>3. Renames(l, Seen, Seen')
    <3>1. l.to # Seen.me /\ l.to # l.n /\ \A d \in Channels : l.to \notin Seen.list[d]
      BY <1>0, <1>3, <2>2
    <3>2. Seen'.me = IF l.n = Seen.me THEN l.to ELSE Seen.me
      BY <1>0, <1>1, <1>3, <1>4, <2>2
    <3>3. Seen'.mine = Seen.mine
      BY <1>5
    <3>4. ASSUME NEW d \in Channels  PROVE Seen'.list[d] = Renamed(Seen.list[d], l.n, l.to)
      <4>1. CASE u = "me"
        <5>1. \A m : m \in Seen'.list[d] <=> m \in Renamed(Seen.list[d], l.n, l.to)
          BY <1>0, <1>1, <1>3, <1>4, <2>2, <4>1 DEF Renamed
        <5>. QED  BY <5>1
      <4>2. CASE u = "peer"
        <5>1. \A m : m \in Seen'.list[d] <=> m \in Renamed(Seen.list[d], l.n, l.to)
          BY <1>0, <1>1, <1>3, <1>4, <2>2, <4>2 DEF Renamed
        <5>. QED  BY <5>1
      <4>. QED  BY <1>0, <4>1, <4>2
    <3>5. Seen'.away = Renamed(Seen.away, l.n, l.to)
      <4>1. \A m : m \in Seen'.away <=> m \in Renamed(Seen.away, l.n, l.to)
        BY <1>0, <1>1, <1>3, <1>4, <2>2 DEF Renamed
      <4>. QED  BY <4>1
    <3>. QED  BY <3>1, <3>2, <3>3, <3>4, <3>5 DEF Renames
  <2>4. Follows(l, Seen, Seen')
    BY <2>2, <2>3 DEF Follows
  <2>5. Sent(<<l>>, <<Seen, Seen'>>)
    BY <1>3, <1>4, <1>7, <2>1, <2>2, <2>4, SentOne
  <2>. QED  BY <1>2, <1>5, <2>5
<1>. QED  BY <1>6, <1>7

-----------------------------------------------------------------------------
\* The server's part of the types.
LEMMA TypedServer ==
    ASSUME Typed, ServerTypes, NEW ms, NEW k, Sent(ms, k), out' \in Seq(Commands), budget' \in Budget,
           wish' \in [Channels -> {"in", "out", "any"}],
           UNCHANGED <<client, up, dismissed, stalled, hidden>>
    PROVE  Typed'
<1>1. wire' \in Seq(Lines)
  BY ConcatFacts DEF Sent, Typed
<1>. QED  BY <1>1 DEF Typed, TypeOK, ServerTypes, Peers, client, rows, marks

LEMMA StepServe ==
    ASSUME Typed, NEW h, Lagging(h), Serve
    PROVE  Typed' /\ \E g : Lagging(g)'
<1>1. /\ out # <<>> /\ out' = Tail(out) /\ UNCHANGED <<client, peer, up, ghosts, budget>>
  BY DEF Serve
<1>2. /\ UNCHANGED <<joined, syncing, members, facts, autojoin, cancelled, current, stalled, hidden>>
      /\ wish' = wish /\ peer' = peer
  BY <1>1 DEF client, rows, marks, ghosts
<1>3. PICK x : x = Head(out)
  OBVIOUS
<1>4. out \in Seq(Commands) /\ out' \in Seq(Commands) /\ x \in Commands
  BY <1>1, <1>3, TailFacts DEF Typed
<1>5. /\ x.cmd \in {"JOIN", "PART", "WHO", "NICK"}
      /\ x.cmd # "NICK" => x.c \in Channels
      /\ x.cmd = "NICK" => x.n \in Nicks
  BY <1>4, CommandFacts
<1>6. SUFFICES ServerTypes /\ \E ms, k : Sent(ms, k) /\ Answers(ms)
  <2>1. PICK ms, k : Sent(ms, k) /\ Answers(ms)
    BY <1>6
  <2>2. Typed'
    BY <1>1, <1>2, <1>4, <1>6, <2>1, TypedServer DEF ghosts, Typed, TypeOK
  <2>. QED  BY <1>2, <2>1, <2>2, ServerKeeps
<1>7. CASE x.cmd = "JOIN"
  <2>1. ServeJoin(x.c) /\ nick' = nick
    BY <1>3, <1>7 DEF Serve
  <2>2. /\ ServerTypes /\ \E ms, k : Sent(ms, k)
        /\ \A d \in Channels : d \in Seen'.mine <=> d \in Seen.mine \/ d = x.c
    BY <1>2, <1>5, <1>7, <2>1, ServeJoinEffect
  <2>3. \A ms : Answers(ms)
    BY <1>1, <1>2, <1>3, <1>5, <1>7, <2>2, AnswersFirst
  <2>. QED  BY <2>2, <2>3
<1>8. CASE x.cmd = "PART"
  <2>1. /\ in' = [in EXCEPT ![x.c] = @ \ {"me"}] /\ nick' = nick
        /\ IF IsIn(x.c) THEN wire' = wire \o <<[line |-> "PART", c |-> x.c, n |-> nick["me"]]>> ELSE wire' = wire
    BY <1>3, <1>8 DEF Serve, Tell
  <2>2. /\ ServerTypes /\ \E ms, k : Sent(ms, k)
        /\ \A d \in Channels : d \in Seen'.mine <=> d \in Seen.mine /\ d # x.c
    BY <1>2, <1>5, <1>8, <2>1, LeaveEffect
  <2>3. \A ms : Answers(ms)
    BY <1>1, <1>2, <1>3, <1>5, <1>8, <2>2, AnswersFirst
  <2>. QED  BY <2>2, <2>3
<1>9. CASE x.cmd = "WHO"
  <2>1. /\ UNCHANGED <<in, nick>>
        /\ IF IsIn(x.c) THEN wire' = wire \o WhoReply(x.c) ELSE wire' = wire
    BY <1>3, <1>9 DEF Serve, Tell
  <2>2. /\ ServerTypes /\ Seen' = Seen
        /\ \E ms, k : Sent(ms, k) /\ (SaysAway(ms) \/ Seen.list[x.c] \cap Seen.away = {})
    BY <1>2, <1>5, <1>9, <2>1, WhoEffect
  <2>3. PICK ms, k : Sent(ms, k) /\ (SaysAway(ms) \/ Seen.list[x.c] \cap Seen.away = {})
    BY <2>2
  <2>4. Answers(ms)
    BY <1>1, <1>2, <1>3, <1>9, <2>2, <2>3, AnswersFirst
  <2>. QED  BY <2>2, <2>3, <2>4
<1>10. CASE x.cmd = "NICK"
  <2>1. in' = in
    BY <1>3, <1>10 DEF Serve
  <2>2. CASE \E u \in Users : nick[u] = x.n
    <3>1. UNCHANGED <<nick, wire>>
      BY <1>3, <1>10, <2>2 DEF Serve
    <3>2. Seen' = Seen
      BY <1>2, <2>1, <3>1, SeenKept
    <3>3. ServerTypes
      BY <1>2, <2>1, <3>1 DEF ServerTypes, Typed, TypeOK, Peers
    <3>4. Sent(<<>>, <<Seen>>)
      BY <3>1, <3>2, SentNone
    <3>5. Answers(<<>>)
      BY <1>1, <1>2, <1>3, <1>10, <3>2, AnswersFirst
    <3>. QED  BY <3>3, <3>4, <3>5
  <2>3. CASE ~ \E u \in Users : nick[u] = x.n
    <3>1. /\ nick' = [nick EXCEPT !["me"] = x.n]
          /\ wire' = wire \o <<[line |-> "NICK", n |-> nick["me"], to |-> x.n]>>
      BY <1>3, <1>10, <2>3 DEF Serve, Tell
    <3>2. "me" \in Users /\ x.n # nick["me"] /\ x.n # nick["peer"]
      BY <2>3 DEF Users
    <3>3. /\ ServerTypes /\ \E ms, k : Sent(ms, k)
          /\ \A d \in Channels : d \in Seen'.mine <=> d \in Seen.mine
      BY <1>2, <1>5, <1>10, <2>1, <3>1, <3>2, RenameEffect
    <3>4. \A ms : Answers(ms)
      BY <1>1, <1>2, <1>3, <1>10, <3>3, AnswersFirst
    <3>. QED  BY <3>3, <3>4
  <2>. QED  BY <2>2, <2>3
<1>. QED  BY <1>5, <1>7, <1>8, <1>9, <1>10

LEMMA StepForced ==
    ASSUME Typed, NEW h, Lagging(h), NEW c \in Channels, Forced(c)
    PROVE  Typed' /\ \E g : Lagging(g)'
<1>1. /\ out' = out /\ UNCHANGED <<client, nick, peer, up, dismissed, stalled, hidden>>
      /\ wish' = [wish EXCEPT ![c] = "any"]
  BY DEF Forced
<1>2. UNCHANGED <<joined, syncing, members, facts, autojoin, cancelled, current, stalled, hidden>>
  BY <1>1 DEF client, rows, marks
<1>3. /\ wish' \in [Channels -> {"in", "out", "any"}]
      /\ \A d \in Channels : wish'[d] = IF d = c THEN "any" ELSE wish[d]
  BY <1>1 DEF Typed, TypeOK
<1>4. budget' \in Budget /\ out' \in Seq(Commands)
  BY <1>1, SpendTyped DEF Forced, Typed
<1>5. /\ ServerTypes /\ \E ms, k : Sent(ms, k)
      /\ \A d \in Channels : d # c /\ d \in Seen'.mine => d \in Seen.mine
  <2>1. CASE IsIn(c)
    <3>1. /\ in' = [in EXCEPT ![c] = @ \ {"me"}]
          /\ wire' = wire \o <<[line |-> "KICK", c |-> c, n |-> nick["me"]]>>
      BY <2>1 DEF Forced, Tell
    <3>. QED  BY <1>1, <2>1, <3>1, LeaveEffect
  <2>2. CASE ~ IsIn(c)
    <3>1. ServeJoin(c)
      BY <2>2 DEF Forced
    <3>. QED  BY <1>1, <3>1, ServeJoinEffect
  <2>. QED  BY <2>1, <2>2
<1>6. PICK ms, k : Sent(ms, k)
  BY <1>5
<1>7. Answers(ms)
  <2>1. \A d \in Channels : wish'[d] = "out" => wish[d] = "out" /\ (d \in Seen'.mine => d \in Seen.mine)
    BY <1>3, <1>5
  <2>. QED  BY <1>1, <2>1, AnswersAlone
<1>8. Typed'
  BY <1>1, <1>3, <1>4, <1>5, <1>6, TypedServer
<1>. QED  BY <1>2, <1>6, <1>7, <1>8, ServerKeeps

-----------------------------------------------------------------------------
(* The other person *)

LEMMA TwoLines ==
    ASSUME NEW S, NEW a \in S, NEW b \in S
    PROVE  <<a>> \o <<b>> = <<a, b>>
<1>1. /\ <<a>> \in Seq(S) /\ Len(<<a>>) = 1 /\ <<a>>[1] = a
      /\ <<b>> \in Seq(S) /\ Len(<<b>>) = 1 /\ <<b>>[1] = b
      /\ <<a, b>> \in Seq(S) /\ Len(<<a, b>>) = 2 /\ <<a, b>>[1] = a /\ <<a, b>>[2] = b
  OBVIOUS
<1>2. PICK s : s = <<a>>
  OBVIOUS
<1>3. PICK t : t = <<b>>
  OBVIOUS
<1>4. PICK r : r = <<a, b>>
  OBVIOUS
<1>5. /\ s \in Seq(S) /\ t \in Seq(S) /\ r \in Seq(S)
      /\ Len(s) = 1 /\ s[1] = a /\ Len(t) = 1 /\ t[1] = b /\ Len(r) = 2 /\ r[1] = a /\ r[2] = b
  BY <1>1, <1>2, <1>3, <1>4
<1>6. /\ s \o t \in Seq(S) /\ Len(s \o t) = Len(s) + Len(t)
      /\ \A i \in 1 .. Len(s) : (s \o t)[i] = s[i]
      /\ \A i \in 1 .. Len(t) : (s \o t)[Len(s) + i] = t[i]
  <2>1. s \in Seq(S) /\ t \in Seq(S)
    BY <1>5
  <2>. QED  BY <2>1, ConcatFacts
<1>7. PICK q : q = s \o t
  OBVIOUS
<1>8. q \in Seq(S) /\ Len(q) = 2 /\ q[1] = a /\ q[1 + 1] = b
  BY <1>5, <1>6, <1>7
<1>9. q = r
  <2>1. \A i \in 1 .. Len(q) : i = 1 \/ i = 1 + 1
    BY <1>8
  <2>2. \A i \in 1 .. Len(q) : q[i] = r[i]
    BY <1>5, <1>8, <2>1
  <2>. QED  BY <1>5, <1>8, <2>2, SeqEqual
<1>. QED  BY <1>2, <1>3, <1>4, <1>7, <1>9

LEMMA PeerStep ==
    ASSUME Inv, ServerTypes, NEW ms, NEW k, Sent(ms, k), UNCHANGED <<client, out, up, ghosts>>, budget' \in Budget,
           \A d \in Channels : "me" \in in'[d] <=> "me" \in in[d],
           (\A d \in Channels : ~ IsIn(d)) => wire' = wire
    PROVE  Inv'
<1>1. UNCHANGED <<joined, syncing, members, facts, autojoin, cancelled, current, stalled, hidden, row,
                  closedStore, wish, dismissed, up, out>>
  BY DEF client, rows, marks, ghosts
<1>2. Typed'
  <2>1. Typed /\ out' \in Seq(Commands) /\ wish' \in [Channels -> {"in", "out", "any"}]
    BY <1>1 DEF Inv, Typed, TypeOK
  <2>. QED  BY <1>1, <2>1, TypedServer
<1>3. Shut'
  BY <1>1 DEF Inv, Shut
<1>4. CASE up
  <2>1. PICK h : Lagging(h)
    BY <1>4 DEF Inv
  <2>2. \A d \in Channels : d \in Seen'.mine <=> d \in Seen.mine
    BY TwoViews DEF Inv
  <2>3. Answers(ms)
    BY <1>1, <2>2, AnswersAlone
  <2>4. \E g : Lagging(g)'
    BY <1>1, <2>1, <2>3, ServerKeeps DEF Inv
  <2>. QED  BY <1>1, <1>2, <1>3, <1>4, <2>4 DEF Inv
<1>5. CASE ~ up
  <2>1. Offline
    BY <1>5 DEF Inv
  <2>2. wire' = wire
    BY <2>1 DEF Offline
  <2>3. Offline'
    BY <1>1, <2>1, <2>2 DEF Offline, IsIn
  <2>. QED  BY <1>1, <1>2, <1>3, <1>5, <2>3 DEF Inv
<1>. QED  BY <1>4, <1>5

LEMMA StepPeerMoves ==
    ASSUME Inv, NEW c \in Channels, PeerMoves(c)
    PROVE  Inv'
<1>0. /\ nick \in [Users -> Nicks] /\ nick["me"] # nick["peer"] /\ nick["me"] \in Nicks /\ nick["peer"] \in Nicks
      /\ in \in [Channels -> SUBSET Users] /\ peer \in Peers /\ "peer" \in Users /\ peer.account \in {"yes", "no"}
  BY DEF Inv, Typed, TypeOK, Peers, Users
<1>1. UNCHANGED <<client, out, nick, peer, up, ghosts>> /\ budget' \in Budget
  BY SpendTyped DEF PeerMoves, Inv, Typed
<1>2. CASE "peer" \in in[c]
  <2>1. /\ in' = [in EXCEPT ![c] = @ \ {"peer"}]
        /\ IF IsIn(c) THEN wire' = wire \o <<[line |-> "PART", c |-> c, n |-> nick["peer"]]>> ELSE wire' = wire
    BY <1>2 DEF PeerMoves, Tell
  <2>2. in' \in [Channels -> SUBSET Users] /\ \A d \in Channels : in'[d] = IF d = c THEN in[d] \ {"peer"} ELSE in[d]
    BY <1>0, <2>1
  <2>3. /\ \A d \in Channels : "me" \in in'[d] <=> "me" \in in[d]
        /\ \A d \in Channels : "peer" \in in'[d] <=> "peer" \in in[d] /\ d # c
    BY <2>2
  <2>4. ServerTypes
    BY <1>0, <1>1, <2>2 DEF ServerTypes
  <2>5. /\ Seen \in Views /\ Seen.me = nick["me"]
        /\ \A d : d \in Seen.mine <=> d \in Channels /\ "me" \in in[d]
        /\ \A d \in Channels : \A n : n \in Seen.list[d] <=>
             "me" \in in[d] /\ (n = nick["me"] \/ ("peer" \in in[d] /\ n = nick["peer"]))
        /\ \A n : n \in Seen.away <=>
             /\ peer.away /\ n = nick["peer"]
             /\ \E d \in Channels : "me" \in in[d] /\ "peer" \in in[d]
    BY <2>4, TwoViews DEF Inv
  <2>6. /\ Seen' \in Views /\ Seen'.me = nick["me"]
        /\ \A d : d \in Seen'.mine <=> d \in Channels /\ "me" \in in'[d]
        /\ \A d \in Channels : \A n : n \in Seen'.list[d] <=>
             "me" \in in'[d] /\ (n = nick["me"] \/ ("peer" \in in'[d] /\ n = nick["peer"]))
        /\ \A n : n \in Seen'.away <=>
             /\ peer.away /\ n = nick["peer"]
             /\ \E d \in Channels : "me" \in in'[d] /\ "peer" \in in'[d]
    BY <1>1, <2>4, TwoViews DEF Inv
  <2>7. \A d : d \in Seen.mine <=> d \in Seen'.mine
    BY <2>3, <2>5, <2>6
  <2>8. CASE IsIn(c)
    <3>1. PICK l \in Lines : l = [line |-> "PART", c |-> c, n |-> nick["peer"]]
      BY <1>0, LinesMade
    <3>2. l.line = "PART" /\ l.c = c /\ l.n = nick["peer"]
      BY <3>1
    <3>3. Gone(l, Seen, Seen')
      <4>1. c \in Seen.mine /\ Seen'.me = Seen.me /\ Seen'.mine = Seen.mine /\ l.n # Seen.me
        BY <1>0, <2>5, <2>6, <2>7, <2>8, <3>2 DEF IsIn
      <4>2. Seen'.away \subseteq Seen.away
        BY <2>3, <2>5, <2>6
      <4>3. Seen'.list[c] = Seen.list[c] \ {l.n}
        <5>1. \A n : n \in Seen'.list[c] <=> n \in Seen.list[c] \ {l.n}
          BY <1>0, <2>3, <2>5, <2>6, <3>2
        <5>. QED  BY <5>1
      <4>4. ASSUME NEW d \in Channels, d # c  PROVE Seen'.list[d] = Seen.list[d]
        <5>1. \A n : n \in Seen'.list[d] <=> n \in Seen.list[d]
          BY <2>3, <2>5, <2>6, <4>4
        <5>. QED  BY <5>1
      <4>. QED  BY <3>2, <4>1, <4>2, <4>3, <4>4 DEF Gone
    <3>4. Follows(l, Seen, Seen')
      BY <3>2, <3>3 DEF Follows
    <3>5. Sent(<<l>>, <<Seen, Seen'>>)
      BY <2>1, <2>5, <2>6, <2>8, <3>1, <3>2, <3>4, SentOne
    <3>. QED  BY <1>1, <2>3, <2>4, <2>8, <3>5, PeerStep
  <2>9. CASE ~ IsIn(c)
    <3>1. \A d \in Channels : \A n : n \in Seen.list[d] <=> n \in Seen'.list[d]
      BY <2>3, <2>5, <2>6, <2>9 DEF IsIn
    <3>2. \A n : n \in Seen.away <=> n \in Seen'.away
      BY <2>3, <2>5, <2>6, <2>9 DEF IsIn
    <3>3. Seen = Seen'
      BY <2>5, <2>6, <2>7, <3>1, <3>2, SameView
    <3>4. Sent(<<>>, <<Seen>>)
      BY <2>1, <2>9, <3>3, SentNone DEF Inv
    <3>. QED  BY <1>1, <2>1, <2>3, <2>4, <2>9, <3>4, PeerStep
  <2>. QED  BY <2>8, <2>9
<1>3. CASE "peer" \notin in[c]
  <2>1. /\ in' = [in EXCEPT ![c] = @ \cup {"peer"}]
        /\ IsIn(c) /\ peer.away =>
             wire' = wire \o (<<[line |-> "JOIN", c |-> c, n |-> nick["peer"], account |-> peer.account]>>
                              \o <<[line |-> "AWAY", n |-> nick["peer"], away |-> TRUE]>>)
        /\ IsIn(c) /\ ~ peer.away =>
             wire' = wire \o (<<[line |-> "JOIN", c |-> c, n |-> nick["peer"], account |-> peer.account]>> \o <<>>)
        /\ ~ IsIn(c) => wire' = wire
    BY <1>3 DEF PeerMoves, Tell
  <2>2. in' \in [Channels -> SUBSET Users] /\ \A d \in Channels : in'[d] = IF d = c THEN in[d] \cup {"peer"} ELSE in[d]
    BY <1>0, <2>1
  <2>3. /\ \A d \in Channels : "me" \in in'[d] <=> "me" \in in[d]
        /\ \A d \in Channels : "peer" \in in'[d] <=> "peer" \in in[d] \/ d = c
    BY <2>2
  <2>4. ServerTypes
    BY <1>0, <1>1, <2>2 DEF ServerTypes
  <2>5. /\ Seen \in Views /\ Seen.me = nick["me"]
        /\ \A d : d \in Seen.mine <=> d \in Channels /\ "me" \in in[d]
        /\ \A d \in Channels : \A n : n \in Seen.list[d] <=>
             "me" \in in[d] /\ (n = nick["me"] \/ ("peer" \in in[d] /\ n = nick["peer"]))
        /\ \A n : n \in Seen.away <=>
             /\ peer.away /\ n = nick["peer"]
             /\ \E d \in Channels : "me" \in in[d] /\ "peer" \in in[d]
    BY <2>4, TwoViews DEF Inv
  <2>6. /\ Seen' \in Views /\ Seen'.me = nick["me"]
        /\ \A d : d \in Seen'.mine <=> d \in Channels /\ "me" \in in'[d]
        /\ \A d \in Channels : \A n : n \in Seen'.list[d] <=>
             "me" \in in'[d] /\ (n = nick["me"] \/ ("peer" \in in'[d] /\ n = nick["peer"]))
        /\ \A n : n \in Seen'.away <=>
             /\ peer.away /\ n = nick["peer"]
             /\ \E d \in Channels : "me" \in in'[d] /\ "peer" \in in'[d]
    BY <1>1, <2>4, TwoViews DEF Inv
  <2>7. \A d : d \in Seen.mine <=> d \in Seen'.mine
    BY <2>3, <2>5, <2>6
  <2>8. CASE ~ IsIn(c)
    <3>1. \A d \in Channels : \A n : n \in Seen.list[d] <=> n \in Seen'.list[d]
      BY <2>3, <2>5, <2>6, <2>8 DEF IsIn
    <3>2. \A n : n \in Seen.away <=> n \in Seen'.away
      BY <2>3, <2>5, <2>6, <2>8 DEF IsIn
    <3>3. Seen = Seen'
      BY <2>5, <2>6, <2>7, <3>1, <3>2, SameView
    <3>4. Sent(<<>>, <<Seen>>)
      BY <2>1, <2>8, <3>3, SentNone DEF Inv
    <3>. QED  BY <1>1, <2>1, <2>3, <2>4, <2>8, <3>4, PeerStep
  <2>9. CASE IsIn(c)
    <3>1. PICK l \in Lines : l = [line |-> "JOIN", c |-> c, n |-> nick["peer"], account |-> peer.account]
      BY <1>0, LinesMade
    <3>2. l.line = "JOIN" /\ l.c = c /\ l.n = nick["peer"] /\ l.n # Seen.me /\ c \in Seen.mine
      BY <1>0, <2>5, <2>9, <3>1 DEF IsIn
    <3>3. \A d \in Channels : Seen'.list[d] = IF d = c THEN Seen.list[d] \cup {l.n} ELSE Seen.list[d]
      <4>1. Seen'.list[c] = Seen.list[c] \cup {l.n}
        <5>1. \A n : n \in Seen'.list[c] <=> n \in Seen.list[c] \cup {l.n}
          BY <2>3, <2>5, <2>6, <2>9, <3>2 DEF IsIn
        <5>. QED  BY <5>1
      <4>2. ASSUME NEW d \in Channels, d # c  PROVE Seen'.list[d] = Seen.list[d]
        <5>1. \A n : n \in Seen'.list[d] <=> n \in Seen.list[d]
          BY <2>3, <2>5, <2>6, <4>2
        <5>. QED  BY <5>1
      <4>. QED  BY <4>1, <4>2
    <3>4. CASE ~ peer.away
      <4>1. Seen.away = {} /\ Seen'.away = {}
        BY <2>5, <2>6, <3>4
      <4>2. Seen'.mine = Seen.mine
        BY <2>7
      <4>3. Came(l, Seen, Seen')
        BY <2>5, <2>6, <3>2, <3>3, <4>1, <4>2 DEF Came
      <4>4. Follows(l, Seen, Seen')
        BY <3>2, <4>3 DEF Follows
      <4>5. wire' = wire \o <<l>>
        <5>1. <<l>> \o <<>> = <<l>>
          OBVIOUS
        <5>. QED  BY <2>1, <2>9, <3>1, <3>4, <5>1
      <4>6. Sent(<<l>>, <<Seen, Seen'>>)
        BY <2>5, <2>6, <3>2, <4>1, <4>4, <4>5, SentOne
      <4>. QED  BY <1>1, <2>3, <2>4, <2>9, <4>6, PeerStep
    <3>5. CASE peer.away
      <4>1. PICK m \in Lines : m = [line |-> "AWAY", n |-> nick["peer"], away |-> TRUE]
        BY <1>0, LinesMade
      <4>2. m.line = "AWAY" /\ m.n = nick["peer"] /\ m.away
        BY <4>1
      <4>3. PICK w : w = [me |-> Seen.me, mine |-> Seen.mine, list |-> Seen'.list, away |-> Seen.away]
        OBVIOUS
      <4>4. w.me = Seen.me /\ w.mine = Seen.mine /\ w.list = Seen'.list /\ w.away = Seen.away
        BY <4>3
      <4>5. w \in Views
        <5>1. /\ Seen.me \in Nicks /\ Seen.mine \subseteq Channels /\ Seen.away \subseteq Nicks
              /\ Seen'.list \in [Channels -> SUBSET Nicks]
              /\ Seen.me \notin Seen.away
              /\ \A n \in Seen.away : \E d \in Channels : n \in Seen.list[d]
          BY <2>5, <2>6, ViewFacts
        <5>2. w \in [me : Nicks, mine : SUBSET Channels, list : [Channels -> SUBSET Nicks], away : SUBSET Nicks]
          BY <4>3, <5>1
        <5>3. \A d \in Channels : IF d \in w.mine THEN w.me \in w.list[d] ELSE w.list[d] = {}
          <6>1. \A d \in Channels : d \in Seen.mine => Seen.me \in Seen'.list[d]
            BY <2>3, <2>5, <2>6
          <6>2. \A d \in Channels : d \notin Seen.mine => Seen'.list[d] = {}
            BY <2>3, <2>5, <2>6
          <6>. QED  BY <4>4, <6>1, <6>2
        <5>4. \A n \in w.away : \E d \in Channels : n \in w.list[d]
          BY <3>3, <4>4, <5>1
        <5>. QED  BY <4>4, <5>1, <5>2, <5>3, <5>4 DEF Views
      <4>6. Follows(l, Seen, w)
        <5>1. Came(l, Seen, w)
          BY <3>2, <3>3, <4>4 DEF Came
        <5>. QED  BY <3>2, <5>1 DEF Follows
      <4>7. Follows(m, w, Seen')
        <5>1. Seen'.away = {m.n}
          <6>1. \E d \in Channels : "me" \in in'[d] /\ "peer" \in in'[d]
            BY <2>3, <2>9 DEF IsIn
          <6>2. \A n : n \in Seen'.away <=> n = m.n
            BY <2>6, <3>5, <4>2, <6>1
          <6>. QED  BY <6>2
        <5>2. Seen'.me = w.me /\ Seen'.mine = w.mine
          BY <2>5, <2>6, <2>7, <4>4
        <5>3. Aways(m, w, Seen')
          BY <4>2, <4>4, <5>1, <5>2 DEF Aways
        <5>. QED  BY <4>2, <5>3 DEF Follows
      <4>8. Flow(<<Seen, w, Seen'>>, <<l, m>>)
        BY <2>5, <2>6, <3>2, <4>2, <4>5, <4>6, <4>7, FlowTwo
      <4>9. wire' = wire \o <<l, m>>
        <5>1. <<l>> \o <<m>> = <<l, m>>
          BY TwoLines
        <5>. QED  BY <2>1, <2>9, <3>1, <3>5, <4>1, <5>1
      <4>10. /\ <<l, m>> \in Seq(Lines) /\ <<l, m>>[1] = l
             /\ <<Seen, w, Seen'>>[1] = Seen /\ Len(<<Seen, w, Seen'>>) = 3 /\ <<Seen, w, Seen'>>[3] = Seen'
        OBVIOUS
      <4>11. Sent(<<l, m>>, <<Seen, w, Seen'>>)
        BY <3>2, <4>8, <4>9, <4>10 DEF Sent
      <4>. QED  BY <1>1, <2>3, <2>4, <2>9, <4>11, PeerStep
    <3>. QED  BY <3>4, <3>5
  <2>. QED  BY <2>8, <2>9
<1>. QED  BY <1>2, <1>3

LEMMA ToldMeans ==
    ASSUME Typed
    PROVE  /\ Shared # {} <=> \E d \in Channels : "me" \in in[d] /\ "peer" \in in[d]
           /\ Shared # {} => \E d \in Channels : IsIn(d)
BY DEF Shared, Users, IsIn

LEMMA StepPeerAway ==
    ASSUME Inv, budget' \in Budget, UNCHANGED <<client, out, up, ghosts, nick, in>>,
           peer' = [peer EXCEPT !.away = ~ @],
           Told([line |-> "AWAY", n |-> nick["peer"], away |-> ~ peer.away])
    PROVE  Inv'
<1>0. /\ nick \in [Users -> Nicks] /\ nick["me"] # nick["peer"] /\ nick["peer"] \in Nicks
      /\ in \in [Channels -> SUBSET Users] /\ peer \in Peers
      /\ Shared # {} <=> \E d \in Channels : "me" \in in[d] /\ "peer" \in in[d]
      /\ Shared # {} => \E d \in Channels : IsIn(d)
  BY ToldMeans DEF Inv, Typed, TypeOK, Peers, Users
<1>1. peer' \in Peers /\ peer'.away = ~ peer.away /\ peer.away \in BOOLEAN
  BY <1>0 DEF Peers
<1>2. ServerTypes
  BY <1>0, <1>1 DEF ServerTypes
<1>3. /\ Seen \in Views /\ Seen.me = nick["me"]
      /\ \A d : d \in Seen.mine <=> d \in Channels /\ "me" \in in[d]
      /\ \A d \in Channels : \A n : n \in Seen.list[d] <=>
           "me" \in in[d] /\ (n = nick["me"] \/ ("peer" \in in[d] /\ n = nick["peer"]))
      /\ \A n : n \in Seen.away <=>
           /\ peer.away /\ n = nick["peer"]
           /\ \E d \in Channels : "me" \in in[d] /\ "peer" \in in[d]
  BY <1>2, TwoViews DEF Inv
<1>4. /\ Seen' \in Views /\ Seen'.me = nick["me"]
      /\ \A d : d \in Seen'.mine <=> d \in Channels /\ "me" \in in[d]
      /\ \A d \in Channels : \A n : n \in Seen'.list[d] <=>
           "me" \in in[d] /\ (n = nick["me"] \/ ("peer" \in in[d] /\ n = nick["peer"]))
      /\ \A n : n \in Seen'.away <=>
           /\ ~ peer.away /\ n = nick["peer"]
           /\ \E d \in Channels : "me" \in in[d] /\ "peer" \in in[d]
  BY <1>1, <1>2, TwoViews DEF Inv
<1>5. /\ Seen'.me = Seen.me
      /\ \A d : d \in Seen.mine <=> d \in Seen'.mine
      /\ \A d \in Channels : \A n : n \in Seen.list[d] <=> n \in Seen'.list[d]
  BY <1>3, <1>4
<1>6. CASE Shared # {}
  <2>0. [line |-> "AWAY", n |-> nick["peer"], away |-> ~ peer.away] \in AwayLines
    BY <1>0, <1>1 DEF AwayLines
  <2>1. PICK l \in Lines : l = [line |-> "AWAY", n |-> nick["peer"], away |-> ~ peer.away]
    BY <2>0 DEF Lines
  <2>2. l.line = "AWAY" /\ l.n = nick["peer"] /\ l.away = ~ peer.away
    BY <2>1
  <2>3. wire' = wire \o <<l>>
    BY <1>6, <2>1 DEF Told, Tell
  <2>4. Aways(l, Seen, Seen')
    <3>1. Seen'.mine = Seen.mine /\ \A d \in Channels : Seen'.list[d] = Seen.list[d]
      BY <1>5
    <3>2. CASE peer.away
      <4>1. \A n : n \in Seen'.away <=> n \in Seen.away \ {l.n}
        BY <1>3, <1>4, <2>2, <3>2
      <4>2. Seen'.away = Seen.away \ {l.n}
        BY <4>1
      <4>. QED  BY <1>5, <2>2, <3>1, <3>2, <4>2 DEF Aways
    <3>3. CASE ~ peer.away
      <4>1. \A n : n \in Seen'.away <=> n \in {l.n}
        BY <1>0, <1>4, <1>6, <2>2, <3>3
      <4>2. Seen'.away = {l.n}
        BY <4>1
      <4>. QED  BY <1>5, <2>2, <3>1, <3>3, <4>2 DEF Aways
    <3>. QED  BY <3>2, <3>3
  <2>5. Follows(l, Seen, Seen')
    BY <2>2, <2>4 DEF Follows
  <2>6. Sent(<<l>>, <<Seen, Seen'>>)
    BY <1>3, <1>4, <2>2, <2>3, <2>5, SentOne
  <2>. QED  BY <1>0, <1>2, <1>6, <2>6, PeerStep
<1>7. CASE Shared = {}
  <2>1. \A n : n \in Seen.away <=> n \in Seen'.away
    BY <1>0, <1>3, <1>4, <1>7
  <2>2. Seen = Seen'
    BY <1>3, <1>4, <1>5, <2>1, SameView
  <2>3. wire' = wire
    BY <1>7 DEF Told
  <2>4. Sent(<<>>, <<Seen>>)
    BY <2>2, <2>3, SentNone DEF Inv
  <2>. QED  BY <1>2, <2>3, <2>4, PeerStep
<1>. QED  BY <1>6, <1>7

\* What a person's account is changes nothing the view has.
LEMMA StepPeerSame ==
    ASSUME Inv, budget' \in Budget, UNCHANGED <<client, out, up, ghosts, nick, in>>,
           peer' \in Peers, peer'.away = peer.away,
           \/ wire' = wire
           \/ \E a \in {"yes", "no"} : Told([line |-> "ACCOUNT", n |-> nick["peer"], account |-> a])
    PROVE  Inv'
<1>0. /\ nick \in [Users -> Nicks] /\ nick["me"] # nick["peer"] /\ nick["peer"] \in Nicks
      /\ in \in [Channels -> SUBSET Users]
      /\ Shared # {} => \E d \in Channels : IsIn(d)
  BY ToldMeans DEF Inv, Typed, TypeOK, Users
<1>1. ServerTypes
  BY <1>0 DEF ServerTypes
<1>2. Seen \in Views /\ Seen' \in Views
  BY <1>1, TwoViews DEF Inv
<1>3. Seen' = Seen
  BY DEF Seen, IsIn, Names, Shared
<1>4. CASE wire' = wire
  <2>1. Sent(<<>>, <<Seen>>)
    BY <1>3, <1>4, SentNone DEF Inv
  <2>. QED  BY <1>1, <1>4, <2>1, PeerStep
<1>5. CASE wire' # wire
  <2>1. PICK a \in {"yes", "no"} : Told([line |-> "ACCOUNT", n |-> nick["peer"], account |-> a])
    BY <1>5
  <2>2. Shared # {} /\ wire' = wire \o <<[line |-> "ACCOUNT", n |-> nick["peer"], account |-> a]>>
    BY <1>5, <2>1 DEF Told, Tell
  <2>3. [line |-> "ACCOUNT", n |-> nick["peer"], account |-> a] \in AccountLines
    BY <1>0 DEF AccountLines
  <2>4. PICK l \in Lines : l = [line |-> "ACCOUNT", n |-> nick["peer"], account |-> a]
    BY <2>3 DEF Lines
  <2>5. l.line = "ACCOUNT"
    BY <2>4
  <2>6. Follows(l, Seen, Seen')
    BY <1>3, <2>5 DEF Follows
  <2>7. Sent(<<l>>, <<Seen, Seen'>>)
    BY <1>2, <2>2, <2>4, <2>5, <2>6, SentOne
  <2>. QED  BY <1>0, <1>1, <2>2, <2>7, PeerStep
<1>. QED  BY <1>4, <1>5

LEMMA StepPeerQuits ==
    ASSUME Inv, budget' \in Budget, UNCHANGED <<client, out, up, ghosts, nick>>,
           peer' = [on |-> FALSE, away |-> FALSE, account |-> "no"],
           Told([line |-> "QUIT", n |-> nick["peer"]]),
           in' = [c \in Channels |-> in[c] \ {"peer"}]
    PROVE  Inv'
<1>0. /\ nick \in [Users -> Nicks] /\ nick["me"] # nick["peer"] /\ nick["peer"] \in Nicks
      /\ in \in [Channels -> SUBSET Users] /\ peer \in Peers
      /\ Shared # {} <=> \E d \in Channels : "me" \in in[d] /\ "peer" \in in[d]
      /\ Shared # {} => \E d \in Channels : IsIn(d)
  BY ToldMeans DEF Inv, Typed, TypeOK, Peers, Users
<1>1. peer' \in Peers /\ ~ peer'.away
  BY DEF Peers
<1>1a. /\ in' \in [Channels -> SUBSET Users]
       /\ \A d \in Channels : ("me" \in in'[d] <=> "me" \in in[d]) /\ "peer" \notin in'[d]
  BY <1>0
<1>2. ServerTypes
  BY <1>0, <1>1, <1>1a DEF ServerTypes
<1>3. /\ Seen \in Views /\ Seen.me = nick["me"]
      /\ \A d : d \in Seen.mine <=> d \in Channels /\ "me" \in in[d]
      /\ \A d \in Channels : \A n : n \in Seen.list[d] <=>
           "me" \in in[d] /\ (n = nick["me"] \/ ("peer" \in in[d] /\ n = nick["peer"]))
      /\ \A n : n \in Seen.away <=>
           /\ peer.away /\ n = nick["peer"]
           /\ \E d \in Channels : "me" \in in[d] /\ "peer" \in in[d]
  BY <1>2, TwoViews DEF Inv
<1>4. /\ Seen' \in Views /\ Seen'.me = nick["me"]
      /\ \A d : d \in Seen'.mine <=> d \in Channels /\ "me" \in in'[d]
      /\ \A d \in Channels : \A n : n \in Seen'.list[d] <=>
           "me" \in in'[d] /\ (n = nick["me"] \/ ("peer" \in in'[d] /\ n = nick["peer"]))
      /\ \A n : n \notin Seen'.away
  BY <1>1, <1>2, TwoViews DEF Inv
<1>5. /\ Seen'.me = Seen.me
      /\ \A d : d \in Seen.mine <=> d \in Seen'.mine
      /\ \A d \in Channels : \A n : n \in Seen'.list[d] <=> "me" \in in[d] /\ n = nick["me"]
  BY <1>1a, <1>3, <1>4
<1>6. CASE Shared # {}
  <2>0. [line |-> "QUIT", n |-> nick["peer"]] \in QuitLines
    BY <1>0 DEF QuitLines
  <2>1. PICK l \in Lines : l = [line |-> "QUIT", n |-> nick["peer"]]
    BY <2>0 DEF Lines
  <2>2. l.line = "QUIT" /\ l.n = nick["peer"]
    BY <2>1
  <2>3. wire' = wire \o <<l>>
    BY <1>6, <2>1 DEF Told, Tell
  <2>4. Quits(l, Seen, Seen')
    <3>1. Seen'.mine = Seen.mine /\ Seen'.away \subseteq Seen.away /\ l.n # Seen.me
      BY <1>0, <1>3, <1>4, <1>5, <2>2
    <3>2. ASSUME NEW d \in Channels  PROVE Seen'.list[d] = Seen.list[d] \ {l.n}
      <4>1. \A n : n \in Seen'.list[d] <=> n \in Seen.list[d] \ {l.n}
        BY <1>0, <1>3, <1>5, <2>2
      <4>. QED  BY <4>1
    <3>. QED  BY <1>5, <3>1, <3>2 DEF Quits
  <2>5. Follows(l, Seen, Seen')
    BY <2>2, <2>4 DEF Follows
  <2>6. Sent(<<l>>, <<Seen, Seen'>>)
    BY <1>3, <1>4, <2>2, <2>3, <2>5, SentOne
  <2>. QED  BY <1>0, <1>1a, <1>2, <1>6, <2>6, PeerStep
<1>7. CASE Shared = {}
  <2>1. \A n : n \in Seen.away <=> n \in Seen'.away
    BY <1>0, <1>3, <1>4, <1>7
  <2>1a. \A d \in Channels : \A n : n \in Seen.list[d] <=> n \in Seen'.list[d]
    BY <1>0, <1>3, <1>5, <1>7
  <2>2. Seen = Seen'
    BY <1>3, <1>4, <1>5, <2>1, <2>1a, SameView
  <2>3. wire' = wire
    BY <1>7 DEF Told
  <2>4. Sent(<<>>, <<Seen>>)
    BY <2>2, <2>3, SentNone DEF Inv
  <2>. QED  BY <1>1a, <1>2, <2>3, <2>4, PeerStep
<1>. QED  BY <1>6, <1>7

LEMMA StepPeerChanges ==
    ASSUME Inv, PeerChanges
    PROVE  Inv'
<1>1. UNCHANGED <<client, out, up, ghosts>> /\ budget' \in Budget /\ budget \in Budget /\ Typed
  BY SpendTyped DEF PeerChanges, Inv, Typed
<1>2. CASE /\ peer' = [peer EXCEPT !.away = ~ @]
           /\ Told([line |-> "AWAY", n |-> nick["peer"], away |-> ~ peer.away])
           /\ UNCHANGED <<nick, in>>
  BY <1>1, <1>2, StepPeerAway
<1>3. CASE /\ peer' = [peer EXCEPT !.account = IF @ = "yes" THEN "no" ELSE "yes"]
           /\ Told([line |-> "ACCOUNT", n |-> nick["peer"], account |-> peer'.account])
           /\ UNCHANGED <<nick, in>>
  <2>1. peer' \in Peers /\ peer'.away = peer.away /\ peer'.account \in {"yes", "no"}
    BY <1>1, <1>3 DEF Typed, TypeOK, Peers
  <2>. QED  BY <1>1, <1>3, <2>1, StepPeerSame
<1>4. CASE /\ peer' = [on |-> FALSE, away |-> FALSE, account |-> "no"]
           /\ Told([line |-> "QUIT", n |-> nick["peer"]])
           /\ in' = [c \in Channels |-> in[c] \ {"peer"}]
           /\ UNCHANGED nick
  BY <1>1, <1>4, StepPeerQuits
<1>5. ASSUME NEW n \in budget.nicks \ {nick["me"], nick["peer"]},
             nick' = [nick EXCEPT !["peer"] = n],
             Told([line |-> "NICK", n |-> nick["peer"], to |-> n]),
             UNCHANGED <<peer, in>>
      PROVE  Inv'
  <2>1. n \in Nicks /\ n # nick["me"] /\ n # nick["peer"] /\ "peer" \in Users /\ "peer" # "me"
    BY <1>1, <1>5 DEF Budget, Users
  <2>2. /\ Shared # {} <=> \E d \in Channels : "me" \in in[d] /\ "peer" \in in[d]
        /\ Shared # {} => \E d \in Channels : IsIn(d)
    BY <1>1, ToldMeans
  <2>3. IF "peer" = "me" \/ (\E c \in Channels : "me" \in in[c] /\ "peer" \in in[c])
        THEN wire' = wire \o <<[line |-> "NICK", n |-> nick["peer"], to |-> n]>> ELSE wire' = wire
    BY <1>5, <2>1, <2>2 DEF Told, Tell
  <2>4. ServerTypes /\ \E ms, k : Sent(ms, k)
    BY <1>1, <1>5, <2>1, <2>3, RenameEffect
  <2>5. PICK ms, k : Sent(ms, k)
    BY <2>4
  <2>6. (\A d \in Channels : ~ IsIn(d)) => wire' = wire
    BY <1>5, <2>2 DEF Told
  <2>. QED  BY <1>1, <1>5, <2>4, <2>5, <2>6, PeerStep
<1>. QED  BY <1>2, <1>3, <1>4, <1>5 DEF PeerChanges

LEMMA StepPeerReturns ==
    ASSUME Inv, PeerReturns
    PROVE  Inv'
<1>1. UNCHANGED <<client, out, wire, nick, in, up, ghosts>> /\ budget' \in Budget /\ peer \in Peers
  BY SpendTyped DEF PeerReturns, Inv, Typed, TypeOK, Peers
<1>2. peer' \in Peers /\ peer'.away = peer.away
  BY <1>1 DEF PeerReturns, Peers
<1>. QED  BY <1>1, <1>2, StepPeerSame

-----------------------------------------------------------------------------
(***************************************************************************)
(* The connection                                                          *)
(***************************************************************************)

\* Nothing is on its way: the client has the view of the server.
LEMMA QuietViews ==
    ASSUME Typed, NEW h, Lagging(h), out = <<>>, wire = <<>>
    PROVE  /\ Len(h) = 1 /\ h[1] = Seen /\ h[Len(h)] = Seen
           /\ \A cmd, c : ~ Sends(out, cmd, c)
           /\ \A c : ~ LastPart(out, c) /\ ~ EndsNames(wire, c)
           /\ ~ SaysAway(wire)
           /\ \A c : SomeOut(h, c) => c \notin Seen.mine
           /\ \A c : SomeIn(h, c) => c \in Seen.mine
           /\ \A c : SomeClear(h, c) => Seen.list[c] \cap Seen.away = {}
<1>1. Len(out) = 0 /\ Len(wire) = 0
  OBVIOUS
<1>2. wire \in Seq(Lines) /\ Flow(h, wire) /\ h[Len(h)] = Seen
  BY DEF Typed, Lagging, Mirror
<1>3. Len(h) = Len(wire) + 1
  BY <1>2, FlowFacts
<1>4. Len(h) = 1
  BY <1>1, <1>3
<1>5. h[1] = Seen /\ \A i \in 1 .. Len(h) : h[i] = Seen
  BY <1>2, <1>4
<1>6. \A i \in 1 .. Len(out) : FALSE
  BY <1>1
<1>7. \A i \in 1 .. Len(wire) : FALSE
  BY <1>1
<1>8. (\A cmd, c : ~ Sends(out, cmd, c)) /\ \A c : ~ LastPart(out, c)
  BY <1>6 DEF Sends, LastPart
<1>9. ~ SaysAway(wire) /\ \A c : ~ EndsNames(wire, c)
  BY <1>7 DEF SaysAway, EndsNames
<1>10. /\ \A c : SomeOut(h, c) => c \notin Seen.mine
       /\ \A c : SomeIn(h, c) => c \in Seen.mine
       /\ \A c : SomeClear(h, c) => Seen.list[c] \cap Seen.away = {}
  BY <1>5 DEF SomeOut, SomeIn, SomeClear
<1>. QED  BY <1>2, <1>4, <1>5, <1>8, <1>9, <1>10

LEMMA StepDrop ==
    ASSUME Inv, Drop
    PROVE  Inv'
<1>1. /\ up /\ up' = FALSE /\ out' = <<>> /\ wire' = <<>>
      /\ in' = [c \in Channels |-> in[c] \ {"me"}]
      /\ wish' = [c \in Channels |-> IF out = <<>> /\ wire = <<>> THEN wish[c] ELSE "any"]
      /\ hidden' = {}
      /\ UNCHANGED <<client, nick, peer, dismissed, stalled>>
      /\ Typed /\ Shut /\ budget' \in Budget
  BY SpendTyped DEF Drop, Inv, Typed
<1>2. UNCHANGED <<row, joined, syncing, members, facts, closed, closedStore, cancelled, autojoin, current>>
  BY <1>1 DEF client, rows, marks
<1>3. /\ wish' \in [Channels -> {"in", "out", "any"}]
      /\ \A c \in Channels : wish'[c] = "out" => out = <<>> /\ wire = <<>> /\ wish[c] = "out"
  BY <1>1 DEF Typed, TypeOK
<1>4. in' \in [Channels -> SUBSET Users] /\ \A c \in Channels : "me" \notin in'[c]
  BY <1>1 DEF Typed, TypeOK
<1>5. out' \in Seq(Commands) /\ wire' \in Seq(Lines)
  BY <1>1
<1>6. Typed'
  BY <1>1, <1>2, <1>3, <1>4, <1>5 DEF Typed, TypeOK
<1>7. Shut'
  BY <1>1, <1>2 DEF Shut
<1>8. ASSUME NEW c \in Channels, wish'[c] = "out"  PROVE c \notin autojoin \/ c \in cancelled
  <2>1. out = <<>> /\ wire = <<>> /\ wish[c] = "out"
    BY <1>3, <1>8
  <2>2. PICK h : Lagging(h)
    BY <1>1 DEF Inv
  <2>3. /\ h[Len(h)] = Seen /\ ~ Sends(out, "JOIN", c) /\ ~ LastPart(out, c)
        /\ SomeIn(h, c) => c \in Seen.mine
    BY <1>1, <2>1, <2>2, QuietViews
  <2>4. Obeyed(h, c)
    BY <2>1, <2>2 DEF Lagging, Obeys
  <2>5. c \in autojoin => SomeIn(h, c)
    BY <2>2, <2>3 DEF Lagging, Rejoins
  <2>. QED  BY <2>3, <2>4, <2>5 DEF Obeyed
<1>9. Offline'
  BY <1>1, <1>2, <1>4, <1>8 DEF Offline, IsIn
<1>. QED  BY <1>1, <1>6, <1>7, <1>9 DEF Inv

\* A connection that begins: the user is nowhere, nobody is listed, and what is asked for is
\* the channels on the autojoin list.
Fresh ==
    /\ wire = <<>> /\ joined = {} /\ \A c \in Channels : members[c] = {}
    /\ current = nick["me"] /\ ~ facts[current].away
    /\ \A c \in Channels : ~ IsIn(c)
    /\ \A c \in autojoin : Sends(out, "JOIN", c)
    /\ \A c \in Channels : wish[c] = "out" => c \in cancelled \/ ~ Sends(out, "JOIN", c)

LEMMA FreshInv == Typed /\ Shut /\ up /\ Fresh => Inv
<1>1. SUFFICES ASSUME Typed, Shut, up, Fresh  PROVE Inv
  OBVIOUS
<1>2. /\ Seen \in Views /\ Seen.me = nick["me"] /\ Seen.mine \subseteq Channels
      /\ \A c \in Channels : c \in Seen.mine <=> IsIn(c)
  BY <1>1, SeenFacts
<1>3. \A c : c \notin Seen.mine
  BY <1>1, <1>2 DEF Fresh
<1>4. <<Seen>>[1] = Seen /\ Len(<<Seen>>) = 1
  OBVIOUS
<1>5. PICK h : h = <<Seen>>
  OBVIOUS
<1>6. h[1] = Seen /\ Len(h) = 1 /\ h[Len(h)] = Seen
  BY <1>4, <1>5
<1>7. Mirror(h)
  BY <1>1, <1>2, <1>5, <1>6, FlowNone DEF Mirror, Fresh
<1>8. Lists(h)
  BY <1>1, <1>2, <1>6 DEF Lists, Fresh
<1>9. Leaves(h)
  BY <1>3, <1>6 DEF Leaves
<1>10. Fills(h) /\ Shows(h)
  BY <1>1 DEF Fills, Shows, Fresh
<1>11. Rejoins(h)
  BY <1>1 DEF Rejoins, Fresh
<1>12. Obeys(h)
  BY <1>1, <1>3, <1>6 DEF Obeys, Obeyed, Fresh
<1>13. Lagging(h)
  BY <1>7, <1>8, <1>9, <1>10, <1>11, <1>12 DEF Lagging
<1>. QED  BY <1>1, <1>13 DEF Inv

LEMMA StepWelcome ==
    ASSUME Inv, Welcome
    PROVE  Inv'
<1>1. /\ ~ up /\ up' = TRUE
      /\ closed' = {} /\ joined' = {} /\ syncing' = {}
      /\ members' = [c \in Channels |-> {}]
      /\ facts' = [n \in Nicks |-> Nothing]
      /\ current' = nick["me"]
      /\ out' = [i \in 1 .. Cardinality(autojoin) |-> [cmd |-> "JOIN", c |-> SomeOrder(autojoin)[i]]]
      /\ stalled' = {}
      /\ UNCHANGED <<row, closedStore, cancelled, autojoin, wire, nick, in, peer, wish, dismissed, hidden, budget>>
      /\ Typed /\ Shut /\ Offline
  BY DEF Welcome, Inv
<1>2. /\ Cardinality(autojoin) \in Nat /\ autojoin \subseteq Channels
      /\ SomeOrder(autojoin) \in [1 .. Cardinality(autojoin) -> autojoin]
      /\ \A x \in autojoin : \E i \in 1 .. Cardinality(autojoin) : SomeOrder(autojoin)[i] = x
  BY <1>1, SomeOrderFacts DEF Typed, TypeOK
<1>3. PICK N \in Nat : N = Cardinality(autojoin)
  BY <1>2
<1>4. PICK q : q = SomeOrder(autojoin)
  OBVIOUS
<1>5. q \in [1 .. N -> autojoin] /\ \A x \in autojoin : \E i \in 1 .. N : q[i] = x
  BY <1>2, <1>3, <1>4
<1>6. out' = [i \in 1 .. N |-> [cmd |-> "JOIN", c |-> q[i]]]
  BY <1>1, <1>3, <1>4
<1>7. \A i \in 1 .. N : [cmd |-> "JOIN", c |-> q[i]] \in Commands
  BY <1>2, <1>5, CommandsMade
<1>8. out' \in [1 .. N -> Commands]
  BY <1>6, <1>7
<1>9. out' \in Seq(Commands) /\ Len(out') = N /\ \A i \in 1 .. N : out'[i].cmd = "JOIN" /\ out'[i].c = q[i]
  BY <1>6, <1>8
<1>10. \A c : Sends(out', "JOIN", c) <=> c \in autojoin
  BY <1>5, <1>9 DEF Sends
<1>11. /\ nick["me"] \in Nicks
       /\ facts' \in [Nicks -> [away : BOOLEAN, account : {Unknown, "yes", "no"}]]
       /\ ~ facts'[nick["me"]].away
       /\ members' \in [Channels -> SUBSET Nicks] /\ \A c \in Channels : members'[c] = {}
  BY <1>1, NamesFacts DEF Nothing, Typed, TypeOK, Users
<1>12. Typed'
  BY <1>1, <1>9, <1>11 DEF Typed, TypeOK
<1>13. Shut'
  BY <1>1, <1>11 DEF Shut
<1>14. Fresh'
  <2>1. \A c \in Channels : ~ IsIn(c)'
    BY <1>1 DEF Offline, IsIn
  <2>2. \A c \in autojoin' : Sends(out', "JOIN", c)
    BY <1>1, <1>10
  <2>3. \A c \in Channels : wish'[c] = "out" => c \in cancelled' \/ ~ Sends(out', "JOIN", c)
    BY <1>1, <1>10 DEF Offline
  <2>4. wire' = <<>>
    BY <1>1 DEF Offline
  <2>. QED  BY <1>1, <1>11, <2>1, <2>2, <2>3, <2>4 DEF Fresh
<1>15. up'
  BY <1>1
<1>. QED  BY <1>12, <1>13, <1>14, <1>15, FreshInv, PTL

LEMMA InitInv == Init => Inv
<1>1. SUFFICES ASSUME Init  PROVE Inv
  OBVIOUS
<1>2. /\ MyNick \in Nicks /\ PeerNick \in Nicks /\ MyNick # PeerNick /\ budget \in Budget
  BY <1>1, ChannelsAssumption DEF Init, Budget
<1>3. /\ nick \in [Users -> Nicks] /\ nick["me"] = MyNick /\ nick["peer"] = PeerNick
  BY <1>1, <1>2 DEF Init, Users
<1>4. /\ in \in [Channels -> SUBSET Users] /\ \A c \in Channels : "me" \notin in[c]
  BY <1>1 DEF Init, Users
<1>5. peer \in [on : BOOLEAN, away : BOOLEAN, account : {"yes", "no"}]
  BY <1>1 DEF Init
<1>6. /\ facts \in [Nicks -> [away : BOOLEAN, account : {Unknown, "yes", "no"}]] /\ ~ facts[MyNick].away
      /\ members \in [Channels -> SUBSET Nicks] /\ \A c \in Channels : members[c] = {}
      /\ wish \in [Channels -> {"in", "out", "any"}] /\ \A c \in Channels : wish[c] # "out"
  BY <1>1, <1>2 DEF Init, Nothing
<1>7. out \in Seq(Commands) /\ wire \in Seq(Lines)
  BY <1>1 DEF Init
<1>8. IsFiniteSet(autojoin)
  BY <1>1, FS_EmptySet DEF Init
<1>9. Typed
  <2>1. /\ row = {} /\ joined = {} /\ syncing = {} /\ closed = {} /\ closedStore = {} /\ cancelled = {}
        /\ autojoin = {} /\ current = MyNick /\ up = TRUE /\ dismissed = {} /\ stalled = {} /\ hidden = {}
    BY <1>1 DEF Init
  <2>2. TypeOK
    BY <1>2, <1>3, <1>4, <1>5, <1>6, <2>1 DEF TypeOK
  <2>. QED  BY <1>2, <1>3, <1>7, <1>8, <2>2 DEF Typed
<1>10. Shut
  BY <1>1, <1>6 DEF Init, Shut
<1>11. Fresh
  BY <1>1, <1>3, <1>4, <1>6 DEF Init, Fresh, IsIn
<1>12. up
  BY <1>1 DEF Init
<1>. QED  BY <1>9, <1>10, <1>11, <1>12, FreshInv

-----------------------------------------------------------------------------
(***************************************************************************)
(* The theorems                                                            *)
(***************************************************************************)

LEMMA StepRead ==
    ASSUME Inv, \/ ReadOwnJoin \/ ReadJoin \/ ReadDeparture \/ ReadQuit \/ ReadNick \/ ReadPresence
                \/ \E late \in BOOLEAN : ReadNames(late)
    PROVE  Inv'
<1>1. Typed /\ Shut /\ up /\ up' = up
  BY DEF Inv, ReadOwnJoin, ReadJoin, ReadDeparture, ReadQuit, ReadNick, ReadPresence, ReadNames, Line,
         Quietly, Read, server
<1>2. PICK h : Lagging(h)
  BY <1>1 DEF Inv
<1>3. Typed'
  BY <1>1, TypedRead
<1>4. Shut'
  BY <1>1, ShutRead
<1>5. \E g : Lagging(g)'
  <2>1. CASE ReadOwnJoin
    BY <1>1, <1>2, <2>1, StepReadOwnJoin
  <2>2. CASE ReadJoin
    BY <1>1, <1>2, <2>2, StepReadJoin
  <2>3. CASE ReadDeparture
    BY <1>1, <1>2, <2>3, StepReadDeparture
  <2>4. CASE ReadQuit
    BY <1>1, <1>2, <2>4, StepReadQuit
  <2>5. CASE ReadNick
    BY <1>1, <1>2, <2>5, StepReadNick
  <2>6. CASE ReadPresence
    BY <1>1, <1>2, <2>6, StepReadPresence
  <2>7. ASSUME NEW late \in BOOLEAN, ReadNames(late)  PROVE \E g : Lagging(g)'
    BY <1>1, <1>2, <2>7, StepReadNames
  <2>. QED  BY <2>1, <2>2, <2>3, <2>4, <2>5, <2>6, <2>7
<1>. QED  BY <1>1, <1>3, <1>4, <1>5 DEF Inv

LEMMA StepUser ==
    ASSUME Inv, \/ \E c \in Channels : Join(c) \/ JoinRefused(c) \/ Part(c) \/ Close(c)
                \/ \E n \in Nicks : Nick(n)
    PROVE  Inv'
<1>1. Typed /\ Shut
  BY DEF Inv
<1>2. Typed'
  BY <1>1, TypedUser
<1>3. Shut'
  BY <1>1, ShutUser
<1>4. up' = up
  BY DEF Join, JoinRefused, Part, Close, Nick, server
<1>5. CASE up
  <2>1. PICK h : Lagging(h)
    BY <1>5 DEF Inv
  <2>2. ASSUME NEW c \in Channels, Join(c)  PROVE Lagging(h)'
    BY <1>1, <2>1, <2>2, StepUserJoin
  <2>3. ASSUME NEW c \in Channels, JoinRefused(c)  PROVE Lagging(h)'
    BY <1>1, <2>1, <2>3, StepUserRefused
  <2>4. ASSUME NEW c \in Channels, Part(c)  PROVE Lagging(h)'
    BY <1>1, <2>1, <2>4, StepUserPart
  <2>5. ASSUME NEW c \in Channels, Close(c)  PROVE Lagging(h)'
    BY <1>1, <2>1, <2>5, StepUserClose
  <2>6. ASSUME NEW n \in Nicks, Nick(n)  PROVE Lagging(h)'
    BY <1>1, <2>1, <2>6, StepUserNick
  <2>7. Lagging(h)'
    BY <2>2, <2>3, <2>4, <2>5, <2>6
  <2>. QED  BY <1>2, <1>3, <1>4, <1>5, <2>7 DEF Inv
<1>6. CASE ~ up
  <2>1. Offline
    BY <1>6 DEF Inv
  <2>2. ASSUME NEW c \in Channels, JoinRefused(c)  PROVE Offline'
    BY <2>1, <2>2 DEF JoinRefused, Offline, IsIn, server
  <2>3. ASSUME NEW c \in Channels, Close(c)  PROVE Offline'
    <3>1. /\ cancelled' = cancelled \cup {c}
          /\ \A d \in Channels : wish'[d] = IF d = c THEN "out" ELSE wish[d]
          /\ UNCHANGED <<autojoin, out, wire, in>>
      BY <1>1, <2>3, UserCloseEffect
    <3>. QED  BY <2>1, <3>1 DEF Offline, IsIn
  <2>4. \E c \in Channels : JoinRefused(c) \/ Close(c)
    BY <1>6 DEF Join, Part, Nick
  <2>5. Offline'
    BY <2>2, <2>3, <2>4
  <2>. QED  BY <1>2, <1>3, <1>4, <1>6, <2>5 DEF Inv
<1>. QED  BY <1>5, <1>6

LEMMA StepServer ==
    ASSUME Inv, \/ Serve
                \/ \E c \in Channels : Forced(c)
    PROVE  Inv'
<1>1. Typed /\ Shut /\ up /\ up' = up
  BY DEF Inv, Serve, Forced
<1>2. PICK h : Lagging(h)
  BY <1>1 DEF Inv
<1>3. Typed' /\ \E g : Lagging(g)'
  BY <1>1, <1>2, StepServe, StepForced
<1>4. UNCHANGED <<row, members, dismissed, closedStore>>
  BY DEF Serve, Forced, client, rows, marks, ghosts
<1>5. Shut'
  BY <1>1, <1>4 DEF Shut
<1>. QED  BY <1>1, <1>3, <1>5 DEF Inv

LEMMA StepInv == Inv /\ [Next]_vars => Inv'
<1>1. SUFFICES ASSUME Inv, [Next]_vars  PROVE Inv'
  OBVIOUS
<1>2. budget.channels \subseteq Channels /\ budget.nicks \subseteq Nicks
  BY <1>1 DEF Inv, Typed, Budget
<1>3. CASE \/ ReadOwnJoin \/ ReadJoin \/ ReadDeparture \/ ReadQuit \/ ReadNick \/ ReadPresence
           \/ \E late \in BOOLEAN : ReadNames(late)
  BY <1>1, <1>3, StepRead
<1>4. CASE Drop
  BY <1>1, <1>4, StepDrop
<1>5. CASE Welcome
  BY <1>1, <1>5, StepWelcome
<1>6. CASE Serve
  BY <1>1, <1>6, StepServer
<1>7. CASE PeerChanges
  BY <1>1, <1>7, StepPeerChanges
<1>8. CASE PeerReturns
  BY <1>1, <1>8, StepPeerReturns
<1>9. ASSUME NEW c \in budget.channels, Join(c) \/ JoinRefused(c) \/ Part(c) \/ Close(c)  PROVE Inv'
  BY <1>1, <1>2, <1>9, StepUser
<1>10. ASSUME NEW c \in budget.channels, Forced(c)  PROVE Inv'
  BY <1>1, <1>2, <1>10, StepServer
<1>11. ASSUME NEW c \in budget.channels, PeerMoves(c)  PROVE Inv'
  BY <1>1, <1>2, <1>11, StepPeerMoves
<1>12. ASSUME NEW n \in budget.nicks, Nick(n)  PROVE Inv'
  BY <1>1, <1>2, <1>12, StepUser
<1>13. CASE UNCHANGED vars
  <2>1. UNCHANGED <<nick, in, peer, up, wish, dismissed, stalled, hidden, row, joined, syncing, members, facts,
                    closed, closedStore, cancelled, autojoin, current, out, wire, budget>>
    BY <1>13 DEF vars, client, rows, marks, server, ghosts
  <2>2. Typed' /\ Shut'
    BY <1>1, <2>1 DEF Inv, Typed, TypeOK, Shut
  <2>3. Offline => Offline'
    BY <2>1 DEF Offline, IsIn
  <2>4. ASSUME NEW h, Lagging(h)  PROVE Lagging(h)'
    <3>1. Mirror(h)'
      BY <2>1, <2>4, SeenKept DEF Lagging, Mirror
    <3>2. Lists(h)' /\ Leaves(h)' /\ Rejoins(h)' /\ Obeys(h)'
      BY <2>1, <2>4 DEF Lagging, Lists, Leaves, Rejoins, Obeys, Obeyed
    <3>3. Fills(h)' /\ Shows(h)'
      BY <2>1, <2>4 DEF Lagging, Fills, Filled, Synced, Shows, Shown
    <3>. QED  BY <3>1, <3>2, <3>3 DEF Lagging
  <2>. QED  BY <1>1, <2>1, <2>2, <2>3, <2>4 DEF Inv
<1>. QED  BY <1>1, <1>3, <1>4, <1>5, <1>6, <1>7, <1>8, <1>9, <1>10, <1>11, <1>12, <1>13 DEF Next

\* For every set of channels and nicks, and however often anything happens: the invariant.
THEOREM Invariance == Spec => []Inv
BY InitInv, StepInv, PTL DEF Spec

\* The types, and the user is not listed as joined to a channel without a conversation:
\* joined and syncing are kept inside the rows by every handler of dispatch.rs and the reducer.
THEOREM TypeCorrect == Spec => []TypeOK
<1>1. Inv => TypeOK
  BY DEF Inv, Typed
<1>. QED  BY <1>1, Invariance, PTL

\* Once every line is read, a channel says it is joined exactly when it is, and lists exactly
\* the people in it: what the reducer's handlers keep through cancelled joins, nick changes,
\* kicks, replies to NAMES cut short and reconnections.
THEOREM RosterHolds == Spec => []RosterIsTrue
<1>1. Inv => RosterIsTrue
  <2>1. SUFFICES ASSUME Inv, up, out = <<>>, wire = <<>>, NEW c \in row
                 PROVE  /\ c \in joined => IsIn(c)
                        /\ IsIn(c) => c \in joined \cup hidden
                        /\ members[c] \subseteq Names(c)
                        /\ c \in joined \ stalled => members[c] = Names(c)
    BY DEF RosterIsTrue, Quiet
  <2>2. Typed /\ c \in Channels
    BY <2>1 DEF Inv, Typed, TypeOK
  <2>3. PICK h : Lagging(h)
    BY <2>1 DEF Inv
  <2>4. /\ h[1] = Seen /\ ~ Sends(out, "PART", c)
        /\ SomeOut(h, c) => c \notin Seen.mine
    BY <2>1, <2>2, <2>3, QuietViews
  <2>5. /\ c \in Seen.mine <=> IsIn(c)
        /\ Seen.list[c] = IF IsIn(c) THEN Names(c) ELSE {}
    BY <2>2, SeenFacts
  <2>6. joined \subseteq Seen.mine /\ members[c] \subseteq Seen.list[c]
    BY <2>2, <2>3, <2>4 DEF Lagging, Lists
  <2>7. c \in Seen.mine => c \in joined \cup hidden
    BY <2>3, <2>4 DEF Lagging, Leaves
  <2>8. c \in joined \ stalled => members[c] = Seen.list[c]
    BY <2>1, <2>3, <2>4 DEF Lagging, Fills, Filled
  <2>. QED  BY <2>5, <2>6, <2>7, <2>8
<1>. QED  BY <1>1, Invariance, PTL

\* A channel the user left or closed is left once nothing is on its way: dispatch_part's
\* cancellation undoes the JOIN that was, and the autojoin of handle_welcome does not bring it
\* back.  One that was closed has no row until the user joins it again.
THEOREM LeftHolds == Spec => []LeftIsLeft
<1>1. Inv => LeftIsLeft
  <2>1. SUFFICES ASSUME Inv
                 PROVE  LeftIsLeft
    OBVIOUS
  <2>2. row \cap dismissed = {}
    BY <2>1 DEF Inv, Shut
  <2>3. ASSUME Quiet, NEW c \in Channels \ hidden, wish[c] = "out"  PROVE ~ IsIn(c)
    <3>1. Typed /\ up /\ out = <<>> /\ wire = <<>>
      BY <2>1, <2>3 DEF Inv, Quiet
    <3>2. PICK h : Lagging(h)
      BY <2>1, <3>1 DEF Inv
    <3>3. /\ h[Len(h)] = Seen /\ ~ Sends(out, "PART", c) /\ ~ LastPart(out, c)
          /\ SomeOut(h, c) => c \notin Seen.mine
      BY <3>1, <3>2, QuietViews
    <3>4. Obeyed(h, c)
      BY <2>3, <3>2 DEF Lagging, Obeys
    <3>5. c \notin Seen.mine
      BY <2>3, <3>3, <3>4 DEF Obeyed
    <3>. QED  BY <3>1, <3>5, SeenFacts
  <2>. QED  BY <2>2, <2>3 DEF LeftIsLeft
<1>. QED  BY <1>1, Invariance, PTL

\* Once every line is read, whoever is listed and away is shown away, and the user never is:
\* what NetworkPresence keeps through forget_unseen, rekey and the WHO after each list.
THEOREM AwayHolds == Spec => []AwayIsTrue
<1>1. Inv => AwayIsTrue
  <2>1. SUFFICES ASSUME Inv, up, out = <<>>, wire = <<>>, NEW c \in joined
                 PROVE  /\ nick["peer"] \in members[c] /\ peer.away => facts[nick["peer"]].away
                        /\ ~ facts[nick["me"]].away
    BY DEF AwayIsTrue, Quiet
  <2>2. Typed /\ c \in Channels /\ nick["me"] # nick["peer"]
    BY <2>1 DEF Inv, Typed, TypeOK
  <2>3. PICK h : Lagging(h)
    BY <2>1 DEF Inv
  <2>4. /\ h[1] = Seen /\ ~ Sends(out, "WHO", c) /\ ~ EndsNames(wire, c) /\ ~ SaysAway(wire)
        /\ SomeClear(h, c) => Seen.list[c] \cap Seen.away = {}
    BY <2>1, <2>2, <2>3, QuietViews
  <2>5. /\ Seen.me = nick["me"] /\ (c \in Seen.mine <=> IsIn(c))
        /\ Seen.list[c] = IF IsIn(c) THEN Names(c) ELSE {}
        /\ Seen.away = IF peer.away /\ Shared # {} THEN {nick["peer"]} ELSE {}
    BY <2>2, SeenFacts
  <2>6. c \in Seen.mine /\ members[c] \subseteq Seen.list[c] /\ ~ facts[Seen.me].away
    BY <2>1, <2>2, <2>3, <2>4 DEF Lagging, Lists
  <2>7. ASSUME nick["peer"] \in members[c], peer.away  PROVE facts[nick["peer"]].away
    <3>1. nick["peer"] \in Names(c) /\ IsIn(c)
      BY <2>5, <2>6, <2>7
    <3>2. "peer" \in in[c] /\ "me" \in in[c]
      BY <2>2, <3>1, NamesFacts DEF IsIn
    <3>3. Shared # {}
      BY <2>2, <3>2, ToldMeans
    <3>4. nick["peer"] \in Seen.away /\ nick["peer"] \in Seen.list[c]
      BY <2>5, <2>7, <3>1, <3>3
    <3>5. Shown(h, c)
      BY <2>1, <2>3 DEF Lagging, Shows
    <3>6. \A n \in members[c] \cap Seen.away : facts[n].away
      BY <2>4, <3>4, <3>5 DEF Shown
    <3>. QED  BY <2>7, <3>4, <3>6
  <2>. QED  BY <2>5, <2>6, <2>7
<1>. QED  BY <1>1, Invariance, PTL

=============================================================================
