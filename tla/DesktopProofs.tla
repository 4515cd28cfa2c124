---------------------------- MODULE DesktopProofs ----------------------------
(***************************************************************************)
(* The away ledger, /list, /monitor and the window's socket are right for  *)
(* every set of networks, masks, nicks and programs and every bound.       *)
(*                                                                         *)
(* What the server will have for a network depends on the AWAY commands on *)
(* its way and on what it has now, so the argument is about one queue      *)
(* first: what appending a command and serving one do to its outcome.  The *)
(* invariant then needs one more part, that nothing is on its way to or    *)
(* from a network whose session is not registered: a welcome would inherit *)
(* it otherwise.                                                           *)
(*                                                                         *)
(* The other parts have their arguments below.                             *)
(***************************************************************************)
EXTENDS MCDesktop, FiniteSetTheorems, SequenceTheorems, TLAPS

\* What a server that has a will have once it has obeyed the commands of s.
Outcome(s, a) ==
    IF s = <<>> THEN a ELSE IF IsBack(s[Len(s)]) THEN "no" ELSE s[Len(s)]

\* What one command leaves the server with.
Obeyed(command) == IF IsBack(command) THEN "no" ELSE command

\* No command of s lets auto-away replace an away by hand.
Keeps(s, a) ==
    \A i \in 1 .. Len(s) : s[i] = "auto" =>
        (IF i > 1 THEN s[i - 1] ELSE IF a = "no" THEN "back" ELSE a) # "manual"

States == {"auto", "manual", "no"}

\* Nothing is on its way to or from a network without a session.
Quiet == \A n \in Networks \ reg : out[n] = <<>> /\ away[n] = "no" /\ replies[n] = <<>>

IInv == TypeOK /\ LedgerIsTrue /\ ManualIsKept /\ Quiet

-----------------------------------------------------------------------------
(* One queue of AWAY commands *)

\* What Append, Head and Tail do to a queue of commands.
LEMMA QueueFacts ==
    ASSUME NEW s \in Seq(Commands), NEW c \in Commands
    PROVE  /\ Append(s, c) \in Seq(Commands) /\ Append(s, c) # <<>>
           /\ Len(Append(s, c)) = Len(s) + 1
           /\ Append(s, c)[Len(s) + 1] = c
           /\ \A i \in 1 .. Len(s) : Append(s, c)[i] = s[i]
           /\ s # <<>> => /\ Len(s) \in Nat /\ Len(s) > 0 /\ Head(s) = s[1] /\ Head(s) \in Commands
                          /\ Tail(s) \in Seq(Commands) /\ Len(Tail(s)) = Len(s) - 1
                          /\ \A i \in 1 .. Len(s) - 1 : Tail(s)[i] = s[i + 1]
OBVIOUS

\* The newest command decides the outcome, whatever is before it.
LEMMA NewestDecides ==
    ASSUME NEW s \in Seq(Commands), NEW c \in Commands, NEW a \in States
    PROVE  Outcome(Append(s, c), a) = Obeyed(c)
BY QueueFacts DEF Outcome, Obeyed

\* A command by hand, one that brings back, and an auto-away for a network that will not be
\* away by hand keep the queue in order.
LEMMA AppendKeeps ==
    ASSUME NEW s \in Seq(Commands), NEW c \in Commands, NEW a \in States,
           Keeps(s, a), c = "auto" => Outcome(s, a) # "manual"
    PROVE  Keeps(Append(s, c), a)
<1>1. SUFFICES ASSUME NEW i \in 1 .. Len(s) + 1, Append(s, c)[i] = "auto"
               PROVE  (IF i > 1 THEN Append(s, c)[i - 1] ELSE IF a = "no" THEN "back" ELSE a)
                          # "manual"
  BY QueueFacts DEF Keeps
<1>2. Len(s) \in Nat
  OBVIOUS
<1>3. CASE i \in 1 .. Len(s)
  <2>1. s[i] = "auto" /\ (i > 1 => Append(s, c)[i - 1] = s[i - 1])
    BY <1>1, <1>2, <1>3, QueueFacts
  <2> QED
    BY <1>3, <2>1 DEF Keeps
<1>4. CASE i = Len(s) + 1
  <2>1. Outcome(s, a) # "manual"
    BY <1>1, <1>4, QueueFacts
  <2>2. CASE s = <<>>
    BY <1>4, <2>1, <2>2 DEF Outcome, States
  <2>3. CASE s # <<>>
    <3>1. i > 1 /\ Append(s, c)[i - 1] = s[Len(s)]
      BY <1>2, <1>4, <2>3, QueueFacts
    <3>2. s[Len(s)] # "manual"
      BY <2>1, <2>3 DEF Outcome, IsBack
    <3> QED
      BY <3>1, <3>2
  <2> QED
    BY <2>2, <2>3
<1> QED
  BY <1>2, <1>3, <1>4

\* Obeying the first command changes neither the outcome nor the order.
LEMMA ServeKeeps ==
    ASSUME NEW s \in Seq(Commands), s # <<>>, NEW a \in States
    PROVE  /\ Outcome(Tail(s), Obeyed(Head(s))) = Outcome(s, a)
           /\ Keeps(s, a) => Keeps(Tail(s), Obeyed(Head(s)))
           /\ Obeyed(Head(s)) \in States
<1>1. /\ Len(s) \in Nat /\ Len(s) > 0 /\ Head(s) = s[1] /\ Head(s) \in Commands
      /\ Tail(s) \in Seq(Commands) /\ Len(Tail(s)) = Len(s) - 1
      /\ \A i \in 1 .. Len(s) - 1 : Tail(s)[i] = s[i + 1]
  BY QueueFacts, "auto" \in Commands DEF Commands
<1>2. Outcome(Tail(s), Obeyed(Head(s))) = Outcome(s, a)
  <2>1. CASE Len(s) = 1
    <3>1. \A t \in Seq(Commands) : t # <<>> => Len(t) # 0
      BY EmptySeq
    <3>2. Tail(s) \in Seq(Commands) /\ Len(Tail(s)) = 0
      BY <1>1, <2>1
    <3>3. Tail(s) = <<>>
      BY <3>1, <3>2, Zenon
    <3> QED
      BY <1>1, <2>1, <3>3 DEF Outcome, Obeyed
  <2>2. CASE Len(s) # 1
    <3>1. Tail(s) # <<>> /\ Tail(s)[Len(Tail(s))] = s[Len(s)]
      BY <1>1, <2>2
    <3> QED
      BY <1>1, <3>1 DEF Outcome
  <2> QED
    BY <2>1, <2>2
<1>3. ASSUME Keeps(s, a)
      PROVE  Keeps(Tail(s), Obeyed(Head(s)))
  <2>1. SUFFICES ASSUME NEW i \in 1 .. Len(s) - 1, Tail(s)[i] = "auto"
                 PROVE  (IF i > 1 THEN Tail(s)[i - 1]
                         ELSE IF Obeyed(Head(s)) = "no" THEN "back" ELSE Obeyed(Head(s)))
                            # "manual"
    BY <1>1 DEF Keeps
  <2>2. s[i + 1] = "auto" /\ i + 1 \in 1 .. Len(s) /\ i + 1 > 1 /\ (i + 1) - 1 = i
    BY <1>1, <2>1
  <2>3. s[i] # "manual"
    BY <1>3, <2>2 DEF Keeps
  <2>4. CASE i > 1
    BY <1>1, <2>3, <2>4
  <2>5. CASE i = 1
    BY <1>1, <2>3, <2>5 DEF Obeyed, IsBack
  <2> QED
    BY <1>1, <2>4, <2>5
<1>4. Obeyed(Head(s)) \in States
  BY <1>1 DEF Obeyed, IsBack, Commands, States
<1> QED
  BY <1>2, <1>3, <1>4


-----------------------------------------------------------------------------
(* The queues of all networks *)

\* The two invariants say of each network's queue what the lemmas above are about, in a
\* state and in the next one.
LEMMA Restated ==
    /\ LedgerIsTrue <=>
          \A n \in reg : /\ Outcome(out[n], away[n]) = "auto" <=> n \in autoAway
                         /\ Outcome(out[n], away[n]) = "manual" <=> n \in manualAway
    /\ ManualIsKept <=> \A n \in Networks : Keeps(out[n], away[n])
    /\ LedgerIsTrue' <=>
          \A n \in reg' : /\ Outcome(out'[n], away'[n]) = "auto" <=> n \in autoAway'
                          /\ Outcome(out'[n], away'[n]) = "manual" <=> n \in manualAway'
    /\ ManualIsKept' <=> \A n \in Networks : Keeps(out'[n], away'[n])
<1>1. LedgerIsTrue <=>
        \A n \in reg : /\ Outcome(out[n], away[n]) = "auto" <=> n \in autoAway
                       /\ Outcome(out[n], away[n]) = "manual" <=> n \in manualAway
  BY DEF LedgerIsTrue, Effective, Outcome
<1>2. LedgerIsTrue' <=>
        \A n \in reg' : /\ Outcome(out'[n], away'[n]) = "auto" <=> n \in autoAway'
                        /\ Outcome(out'[n], away'[n]) = "manual" <=> n \in manualAway'
  BY DEF LedgerIsTrue, Effective, Outcome
<1>3. ManualIsKept <=> \A n \in Networks : Keeps(out[n], away[n])
  BY Zenon DEF ManualIsKept, Before, Keeps
<1>4. ManualIsKept' <=> \A n \in Networks : Keeps(out'[n], away'[n])
  BY Zenon DEF ManualIsKept, Before, Keeps
<1> QED
  BY <1>1, <1>2, <1>3, <1>4

\* A command sent to some networks is the last of their queues, and no other queue changes.
LEMMA SendFacts ==
    ASSUME NEW o \in [Networks -> Seq(Commands)], NEW W, NEW c \in Commands
    PROVE  /\ Sending(o, W, c) \in [Networks -> Seq(Commands)]
           /\ \A n \in Networks : Sending(o, W, c)[n] = IF n \in W THEN Append(o[n], c) ELSE o[n]
BY QueueFacts DEF Sending

\* Sending a command to registered networks, an auto-away only to networks that are not away
\* by hand: the queues stay in order, and the outcome is the command's where it is sent.
LEMMA SendKeeps ==
    ASSUME IInv, NEW W \in SUBSET reg, NEW c \in Commands,
           c = "auto" => \A n \in W : n \notin manualAway,
           out' = Sending(out, W, c), away' = away, replies' = replies, reg' = reg
    PROVE  /\ out' \in [Networks -> Seq(Commands)]
           /\ ManualIsKept' /\ Quiet'
           /\ \A n \in W : Outcome(out'[n], away'[n]) = Obeyed(c)
           /\ \A n \in Networks \ W : out'[n] = out[n]
<1> USE DEF IInv
<1>1. /\ out \in [Networks -> Seq(Commands)] /\ away \in [Networks -> States]
      /\ reg \subseteq Networks
  BY DEF TypeOK, States
<1>2. /\ out' \in [Networks -> Seq(Commands)]
      /\ \A n \in Networks : out'[n] = IF n \in W THEN Append(out[n], c) ELSE out[n]
  BY <1>1, SendFacts
<1>3. \A n \in W : Outcome(out'[n], away'[n]) = Obeyed(c)
  BY <1>1, <1>2, NewestDecides, ZenonT(30)
<1>4. \A n \in Networks : Keeps(out[n], away[n])
  BY Restated
<1>5. \A n \in W : c = "auto" => Outcome(out[n], away[n]) # "manual"
  <2>1. \A n \in reg : Outcome(out[n], away[n]) = "manual" <=> n \in manualAway
    BY Restated
  <2> QED
    BY <2>1
<1>6. ASSUME NEW n \in Networks
      PROVE  Keeps(out'[n], away'[n])
  <2>1. CASE n \in W
    <3>1. Keeps(Append(out[n], c), away[n])
      BY <1>1, <1>4, <1>5, <2>1, AppendKeeps
    <3> QED
      BY <1>2, <2>1, <3>1
  <2>2. CASE n \notin W
    BY <1>2, <1>4, <2>2
  <2> QED
    BY <2>1, <2>2
<1>7. ManualIsKept'
  BY <1>6, Restated
<1>8. Quiet'
  BY <1>1, <1>2 DEF Quiet
<1> QED
  BY <1>2, <1>3, <1>7, <1>8

-----------------------------------------------------------------------------
(* One lemma per action that sends *)

\* A step that sends c to the networks of W and changes no connection keeps the invariant when
\* the ledger follows: the networks of W are entered where c leaves them, the others stay.
LEMMA SendStep ==
    ASSUME IInv, NEW W \in SUBSET reg, NEW c \in Commands,
           c = "auto" => \A n \in W : n \notin manualAway,
           out' = Sending(out, W, c), UNCHANGED <<reg, server>>,
           \A n \in reg : n \notin W =>
               (n \in autoAway' <=> n \in autoAway) /\ (n \in manualAway' <=> n \in manualAway),
           \A n \in W : (n \in autoAway' <=> c = "auto") /\ (n \in manualAway' <=> c = "manual")
    PROVE  /\ out' \in [Networks -> Seq(Commands)]
           /\ LedgerIsTrue' /\ ManualIsKept' /\ Quiet'
<1>1. /\ out' \in [Networks -> Seq(Commands)]
      /\ ManualIsKept' /\ Quiet'
      /\ \A n \in W : Outcome(out'[n], away'[n]) = Obeyed(c)
      /\ \A n \in Networks \ W : out'[n] = out[n]
  BY SendKeeps DEF server
<1>2. reg' = reg /\ away' = away /\ reg \subseteq Networks
  BY DEF server, IInv, TypeOK
<1>3. \A n \in reg : /\ Outcome(out[n], away[n]) = "auto" <=> n \in autoAway
                     /\ Outcome(out[n], away[n]) = "manual" <=> n \in manualAway
  BY Restated DEF IInv
<1>4. Obeyed(c) = "auto" <=> c = "auto"
  BY DEF Obeyed, IsBack
<1>5. Obeyed(c) = "manual" <=> c = "manual"
  BY DEF Obeyed, IsBack
<1>6. ASSUME NEW n \in reg'
      PROVE  /\ Outcome(out'[n], away'[n]) = "auto" <=> n \in autoAway'
             /\ Outcome(out'[n], away'[n]) = "manual" <=> n \in manualAway'
  <2>1. CASE n \in W
    BY <1>1, <1>4, <1>5, <2>1
  <2>2. CASE n \notin W
    <3>1. out'[n] = out[n] /\ n \in reg
      BY <1>1, <1>2, <2>2
    <3> QED
      BY <1>2, <1>3, <2>2, <3>1
  <2> QED
    BY <2>1, <2>2
<1>7. LedgerIsTrue'
  BY <1>6, Restated
<1> QED
  BY <1>1, <1>7

\* A step that leaves the connections, the commands and the ledger alone.
LEMMA QuietStep ==
    ASSUME IInv, UNCHANGED <<out, away, replies, reg, autoAway, manualAway>>
    PROVE  LedgerIsTrue' /\ ManualIsKept' /\ Quiet'
<1>1. LedgerIsTrue'
  BY Restated DEF IInv
<1>2. ManualIsKept'
  BY Restated DEF IInv
<1>3. Quiet'
  BY DEF Quiet, IInv
<1> QED
  BY <1>1, <1>2, <1>3

\* On a registered network the two sets exclude one another.
LEMMA OneReason ==
    ASSUME IInv
    PROVE  \A n \in reg : ~ (n \in autoAway /\ n \in manualAway)
<1>1. \A n \in reg : /\ Outcome(out[n], away[n]) = "auto" <=> n \in autoAway
                     /\ Outcome(out[n], away[n]) = "manual" <=> n \in manualAway
  BY Restated DEF IInv
<1> QED
  BY <1>1

LEMMA IdleFiresKeeps == IInv /\ IdleFires => IInv'
<1> SUFFICES ASSUME IInv, IdleFires PROVE IInv'
  OBVIOUS
<1>1. TypeOK'
  BY DEF IInv, TypeOK, IdleFires, ledger, server
<1>2. UNCHANGED <<out, away, replies, reg, autoAway, manualAway>>
  BY DEF IdleFires, ledger, server
<1> QED
  BY <1>1, <1>2, QuietStep DEF IInv

LEMMA GraceFiresKeeps == IInv /\ GraceFires => IInv'
<1> SUFFICES ASSUME IInv, GraceFires PROVE IInv'
  OBVIOUS
<1>1. /\ Eligible \in SUBSET reg /\ "auto" \in Commands
      /\ \A n \in Eligible : n \notin manualAway
  BY DEF Eligible, Commands
<1>2. /\ out' = Sending(out, Eligible, "auto") /\ UNCHANGED <<reg, server>>
      /\ autoAway' = autoAway \cup Eligible /\ manualAway' = manualAway
  BY DEF GraceFires
<1>3. out' \in [Networks -> Seq(Commands)] /\ LedgerIsTrue' /\ ManualIsKept' /\ Quiet'
  BY <1>1, <1>2, SendStep
<1>4. TypeOK'
  BY <1>1, <1>3 DEF IInv, TypeOK, GraceFires, server
<1> QED
  BY <1>3, <1>4 DEF IInv

LEMMA AwayKeeps == ASSUME NEW n \in Networks PROVE IInv /\ Away(n) => IInv'
<1> SUFFICES ASSUME IInv, Away(n) PROVE IInv'
  OBVIOUS
<1>1. {n} \in SUBSET reg /\ "manual" \in Commands
  BY DEF Away, Commands
<1>2. /\ out' = Sending(out, {n}, "manual") /\ UNCHANGED <<reg, server>>
      /\ autoAway' = autoAway \ {n} /\ manualAway' = manualAway \cup {n}
  BY DEF Away
<1>3. out' \in [Networks -> Seq(Commands)] /\ LedgerIsTrue' /\ ManualIsKept' /\ Quiet'
  BY <1>1, <1>2, SendStep
<1>4. TypeOK'
  BY <1>3 DEF IInv, TypeOK, Away, settings, server
<1> QED
  BY <1>3, <1>4 DEF IInv

LEMMA BackKeeps == ASSUME NEW n \in Networks PROVE IInv /\ Back(n) => IInv'
<1> SUFFICES ASSUME IInv, Back(n) PROVE IInv'
  OBVIOUS
<1>1. {n} \in SUBSET reg /\ "back" \in Commands
  BY DEF Back, Commands
<1>2. /\ out' = Sending(out, {n}, "back") /\ UNCHANGED <<reg, server>>
      /\ autoAway' = autoAway \ {n} /\ manualAway' = manualAway \ {n}
  BY DEF Back
<1>3. out' \in [Networks -> Seq(Commands)] /\ LedgerIsTrue' /\ ManualIsKept' /\ Quiet'
  BY <1>1, <1>2, SendStep
<1>4. TypeOK'
  BY <1>3 DEF IInv, TypeOK, Back, settings, server
<1> QED
  BY <1>3, <1>4 DEF IInv

\* Telling the auto-away networks a reason again.
LEMMA ReasonStep ==
    ASSUME IInv, out' = Sending(out, autoAway \cap reg, "auto"),
           UNCHANGED <<ledger, reg, server>>
    PROVE  out' \in [Networks -> Seq(Commands)] /\ LedgerIsTrue' /\ ManualIsKept' /\ Quiet'
<1>1. /\ autoAway \cap reg \in SUBSET reg /\ "auto" \in Commands
      /\ \A n \in autoAway \cap reg : n \notin manualAway
  BY OneReason DEF Commands
<1>2. autoAway' = autoAway /\ manualAway' = manualAway
  BY DEF ledger
<1> QED
  BY <1>1, <1>2, SendStep

LEMMA EnableKeeps == ASSUME NEW newReason \in BOOLEAN PROVE IInv /\ Enable(newReason) => IInv'
<1> SUFFICES ASSUME IInv, Enable(newReason) PROVE IInv'
  OBVIOUS
<1>1. UNCHANGED <<ledger, reg, server>>
  BY DEF Enable
<1>2. out' \in [Networks -> Seq(Commands)] /\ LedgerIsTrue' /\ ManualIsKept' /\ Quiet'
  <2>1. CASE newReason /\ tripped
    BY <1>1, <2>1, ReasonStep DEF Enable
  <2>2. CASE ~ (newReason /\ tripped)
    <3>1. UNCHANGED <<out, away, replies, reg, autoAway, manualAway>>
      BY <2>2 DEF Enable, ledger, server
    <3> QED
      BY <3>1, QuietStep DEF IInv, TypeOK
  <2> QED
    BY <2>1, <2>2
<1>3. TypeOK'
  BY <1>2 DEF IInv, TypeOK, Enable, ArmedOnEnable, ledger, server
<1> QED
  BY <1>2, <1>3 DEF IInv

LEMMA SetReasonKeeps == IInv /\ SetReason => IInv'
<1> SUFFICES ASSUME IInv, SetReason PROVE IInv'
  OBVIOUS
<1>1. out' \in [Networks -> Seq(Commands)] /\ LedgerIsTrue' /\ ManualIsKept' /\ Quiet'
  BY ReasonStep DEF SetReason
<1>2. TypeOK'
  BY <1>1 DEF IInv, TypeOK, SetReason, settings, ledger, server
<1> QED
  BY <1>1, <1>2 DEF IInv

LEMMA DisableKeeps == IInv /\ Disable => IInv'
<1> SUFFICES ASSUME IInv, Disable PROVE IInv'
  OBVIOUS
<1>1. autoAway \cap reg \in SUBSET reg /\ "back" \in Commands
  BY DEF Commands
<1>2. /\ out' = Sending(out, autoAway \cap reg, "back") /\ UNCHANGED <<reg, server>>
      /\ autoAway' = {} /\ manualAway' = manualAway
  BY DEF Disable
<1>3. out' \in [Networks -> Seq(Commands)] /\ LedgerIsTrue' /\ ManualIsKept' /\ Quiet'
  BY <1>1, <1>2, OneReason, SendStep
<1>4. TypeOK'
  BY <1>3 DEF IInv, TypeOK, Disable, server
<1> QED
  BY <1>3, <1>4 DEF IInv

-----------------------------------------------------------------------------
(* A chat line sends at most one command per network *)

\* The networks a chat line on n brings back, n itself among them when it is known to be away
\* and was not brought back before.
Unaways(n) == n \in selfAway /\ n \notin (unawaySent \cup Returning(n))

\* The line to n itself is an "unaway" only when the line sent no "back" to n.
LEMMA ChatSends ==
    ASSUME IInv, NEW n \in Networks, Chat(n), NEW m \in Networks
    PROVE  /\ out' \in [Networks -> Seq(Commands)]
           /\ m \in Returning(n) => out'[m] = Append(out[m], "back")
           /\ m = n /\ Unaways(n) => out'[m] = Append(out[m], "unaway")
           /\ m \notin Returning(n) /\ ~ (m = n /\ Unaways(n)) => out'[m] = out[m]
<1> DEFINE returned == Sending(out, Returning(n), "back")
<1>1. out \in [Networks -> Seq(Commands)] /\ "back" \in Commands /\ "unaway" \in Commands
  BY DEF IInv, TypeOK, Commands
<1>2. /\ returned \in [Networks -> Seq(Commands)]
      /\ returned[m] = IF m \in Returning(n) THEN Append(out[m], "back") ELSE out[m]
  BY <1>1, SendFacts
<1>3. out' = IF Unaways(n) THEN Sending(returned, {n}, "unaway") ELSE returned
  BY DEF Chat, Unaways
<1>4. /\ Sending(returned, {n}, "unaway") \in [Networks -> Seq(Commands)]
      /\ Sending(returned, {n}, "unaway")[m] =
            IF m \in {n} THEN Append(returned[m], "unaway") ELSE returned[m]
  <2>1. \A o \in [Networks -> Seq(Commands)] :
          /\ Sending(o, {n}, "unaway") \in [Networks -> Seq(Commands)]
          /\ Sending(o, {n}, "unaway")[m] = IF m \in {n} THEN Append(o[m], "unaway") ELSE o[m]
    BY <1>1, SendFacts
  <2> HIDE DEF returned
  <2> QED
    BY <1>2, <2>1
<1>5. Unaways(n) => n \notin Returning(n)
  BY DEF Unaways
<1> HIDE DEF returned
<1>6. CASE Unaways(n)
  BY <1>2, <1>3, <1>4, <1>5, <1>6
<1>7. CASE ~ Unaways(n)
  BY <1>2, <1>3, <1>7
<1> QED
  BY <1>6, <1>7

LEMMA ChatKeeps == ASSUME NEW n \in Networks PROVE IInv /\ Chat(n) => IInv'
<1> SUFFICES ASSUME IInv, Chat(n) PROVE IInv'
  OBVIOUS
<1>1. /\ out \in [Networks -> Seq(Commands)] /\ away \in [Networks -> States]
      /\ reg \subseteq Networks /\ "back" \in Commands /\ "unaway" \in Commands
  BY DEF IInv, TypeOK, Commands, States
<1>2. /\ reg' = reg /\ away' = away /\ replies' = replies /\ autoAway' = {}
      /\ manualAway' = IF Unaways(n) THEN manualAway \ {n} ELSE manualAway
      /\ n \in reg /\ Returning(n) = autoAway \cap reg
  BY DEF Chat, Unaways, server, Returning
<1>3. \A m \in reg : /\ Outcome(out[m], away[m]) = "auto" <=> m \in autoAway
                     /\ Outcome(out[m], away[m]) = "manual" <=> m \in manualAway
  BY Restated DEF IInv
<1>4. \A m \in Networks : Keeps(out[m], away[m])
  BY Restated DEF IInv
<1>5. \A m \in Networks : m \notin reg => out'[m] = out[m]
  BY <1>2, ChatSends
<1>6. ASSUME NEW m \in Networks
      PROVE  /\ Keeps(out'[m], away'[m])
             /\ m \in reg => /\ Outcome(out'[m], away'[m]) # "auto"
                             /\ Outcome(out'[m], away'[m]) = "manual" <=> m \in manualAway'
  <2>1. ASSUME NEW c \in Commands, IsBack(c), out'[m] = Append(out[m], c)
        PROVE  Keeps(out'[m], away'[m]) /\ Outcome(out'[m], away'[m]) = "no"
    <3>1. c # "auto"
      BY <2>1 DEF IsBack
    <3>2. Keeps(Append(out[m], c), away[m])
      BY <1>1, <1>4, <3>1, AppendKeeps
    <3>3. Outcome(Append(out[m], c), away[m]) = Obeyed(c)
      BY <1>1, NewestDecides
    <3> QED
      BY <1>2, <2>1, <3>2, <3>3 DEF Obeyed
  <2>2. CASE m \in Returning(n)
    <3>1. out'[m] = Append(out[m], "back") /\ IsBack("back")
      BY <2>2, ChatSends DEF IsBack
    <3>2. Keeps(out'[m], away'[m]) /\ Outcome(out'[m], away'[m]) = "no"
      BY <1>1, <2>1, <3>1
    <3>3. m \notin manualAway /\ m \notin manualAway'
      BY <1>2, <2>2, OneReason
    <3> QED
      BY <3>2, <3>3
  <2>3. CASE m = n /\ Unaways(n)
    <3>1. out'[m] = Append(out[m], "unaway") /\ IsBack("unaway")
      BY <2>3, ChatSends DEF IsBack
    <3>2. Keeps(out'[m], away'[m]) /\ Outcome(out'[m], away'[m]) = "no"
      BY <1>1, <2>1, <3>1
    <3> QED
      BY <1>2, <2>3, <3>2
  <2>4. CASE m \notin Returning(n) /\ ~ (m = n /\ Unaways(n))
    <3>1. out'[m] = out[m]
      BY <2>4, ChatSends
    <3>2. m \in manualAway' <=> m \in manualAway
      BY <1>2, <2>4
    <3>3. m \in reg => m \notin autoAway
      BY <1>2, <2>4
    <3> QED
      BY <1>2, <1>3, <1>4, <3>1, <3>2, <3>3
  <2> QED
    BY <2>2, <2>3, <2>4
<1>7. LedgerIsTrue' /\ ManualIsKept'
  <2>1. \A m \in reg' : /\ Outcome(out'[m], away'[m]) = "auto" <=> m \in autoAway'
                        /\ Outcome(out'[m], away'[m]) = "manual" <=> m \in manualAway'
    BY <1>1, <1>2, <1>6
  <2>2. \A m \in Networks : Keeps(out'[m], away'[m])
    BY <1>6
  <2> QED
    BY <2>1, <2>2, Restated
<1>8. Quiet'
  BY <1>2, <1>5 DEF Quiet, IInv
<1>9. TypeOK'
  <2>1. out' \in [Networks -> Seq(Commands)]
    BY ChatSends
  <2>2. unawaySent' \subseteq Networks
    BY DEF Chat, Returning, IInv, TypeOK
  <2>3. manualAway' \subseteq Networks
    BY <1>2 DEF IInv, TypeOK
  <2> QED
    BY <2>1, <2>2, <2>3 DEF IInv, TypeOK, Chat, server
<1> QED
  BY <1>7, <1>8, <1>9 DEF IInv

-----------------------------------------------------------------------------
(* Connections, answers and the server *)

LEMMA DropKeeps == ASSUME NEW n \in Networks PROVE IInv /\ Drop(n) => IInv'
<1> SUFFICES ASSUME IInv, Drop(n) PROVE IInv'
  OBVIOUS
<1>1. TypeOK'
  BY DEF IInv, TypeOK, Drop, settings, ledger
<1>2. /\ \A m \in Networks \ {n} : out'[m] = out[m] /\ away'[m] = away[m] /\ replies'[m] = replies[m]
      /\ out'[n] = <<>> /\ away'[n] = "no" /\ replies'[n] = <<>>
      /\ reg' = reg \ {n} /\ reg \subseteq Networks
      /\ autoAway' = autoAway /\ manualAway' = manualAway
  BY DEF IInv, TypeOK, Drop, ledger
<1>3. \A m \in reg : /\ Outcome(out[m], away[m]) = "auto" <=> m \in autoAway
                     /\ Outcome(out[m], away[m]) = "manual" <=> m \in manualAway
  BY Restated DEF IInv
<1>4. \A m \in reg' : /\ Outcome(out'[m], away'[m]) = "auto" <=> m \in autoAway'
                      /\ Outcome(out'[m], away'[m]) = "manual" <=> m \in manualAway'
  BY <1>2, <1>3
<1>5. \A m \in Networks : Keeps(out[m], away[m])
  BY Restated DEF IInv
<1>6. Keeps(<<>>, "no")
  BY DEF Keeps
<1>7. \A m \in Networks : Keeps(out'[m], away'[m])
  BY <1>2, <1>5, <1>6
<1>8. Quiet'
  BY <1>2 DEF Quiet, IInv
<1> QED
  BY <1>1, <1>4, <1>7, <1>8, Restated DEF IInv

\* The welcome finds an empty queue and a server that has the user as present, so the two sets
\* are right with what it tells: nothing, or an auto-away.
LEMMA RegisteredKeeps == ASSUME NEW n \in Networks PROVE IInv /\ Registered(n) => IInv'
<1> SUFFICES ASSUME IInv, Registered(n) PROVE IInv'
  OBVIOUS
<1>1. /\ out \in [Networks -> Seq(Commands)] /\ away \in [Networks -> States]
      /\ reg \subseteq Networks /\ "auto" \in Commands
  BY DEF IInv, TypeOK, Commands, States
<1>2. /\ n \notin reg /\ reg' = reg \cup {n} /\ away' = away /\ replies' = replies
      /\ manualAway' = manualAway \ {n}
  BY DEF Registered, server, Forgets
<1>3. out[n] = <<>> /\ away[n] = "no"
  BY <1>2 DEF IInv, Quiet
<1>4. /\ out' \in [Networks -> Seq(Commands)]
      /\ \A m \in Networks \ {n} : out'[m] = out[m]
      /\ out'[n] = IF Marks THEN Append(out[n], "auto") ELSE out[n]
  BY <1>1, SendFacts DEF Registered
<1>5. /\ n \in autoAway' <=> Marks
      /\ \A m \in Networks \ {n} : m \in autoAway' <=> m \in autoAway
  BY DEF Registered, Forgets, Marks, IInv, TypeOK
<1>6. Outcome(out[n], away[n]) = "no"
  BY <1>3 DEF Outcome
<1>7. Outcome(out'[n], away'[n]) = IF Marks THEN "auto" ELSE "no"
  <2>1. Outcome(Append(out[n], "auto"), away[n]) = Obeyed("auto")
    BY <1>1, NewestDecides
  <2>2. Obeyed("auto") = "auto"
    BY DEF Obeyed, IsBack
  <2> QED
    BY <1>2, <1>4, <1>6, <2>1, <2>2
<1>8. \A m \in reg : /\ Outcome(out[m], away[m]) = "auto" <=> m \in autoAway
                     /\ Outcome(out[m], away[m]) = "manual" <=> m \in manualAway
  BY Restated DEF IInv
<1>9. ASSUME NEW m \in reg'
      PROVE  /\ Outcome(out'[m], away'[m]) = "auto" <=> m \in autoAway'
             /\ Outcome(out'[m], away'[m]) = "manual" <=> m \in manualAway'
  <2>1. CASE m = n
    BY <1>2, <1>5, <1>7, <2>1
  <2>2. CASE m # n
    <3>1. m \in reg /\ m \in Networks \ {n} /\ out'[m] = out[m] /\ away'[m] = away[m]
      BY <1>1, <1>2, <1>4, <2>2
    <3> QED
      BY <1>2, <1>5, <1>8, <3>1
  <2> QED
    BY <2>1, <2>2
<1>10. \A m \in Networks : Keeps(out[m], away[m])
  BY Restated DEF IInv
<1>11. ASSUME NEW m \in Networks
       PROVE  Keeps(out'[m], away'[m])
  <2>1. Keeps(Append(out[n], "auto"), away[n])
    BY <1>1, <1>6, <1>10, AppendKeeps
  <2>2. CASE m = n
    BY <1>2, <1>4, <1>10, <2>1, <2>2
  <2>3. CASE m # n
    BY <1>2, <1>4, <1>10, <2>3
  <2> QED
    BY <2>2, <2>3
<1>12. Quiet'
  BY <1>2, <1>4 DEF IInv, Quiet
<1>13. TypeOK'
  BY <1>4 DEF IInv, TypeOK, Registered, Forgets, settings, server
<1> QED
  BY <1>9, <1>11, <1>12, <1>13, Restated DEF IInv

LEMMA AnsweredKeeps == ASSUME NEW n \in Networks PROVE IInv /\ Answered(n) => IInv'
<1> SUFFICES ASSUME IInv, Answered(n) PROVE IInv'
  OBVIOUS
<1>1. UNCHANGED <<out, away, reg, autoAway, manualAway>> /\ n \in reg
  BY DEF Answered
<1>2. LedgerIsTrue' /\ ManualIsKept'
  BY <1>1, Restated DEF IInv
<1>3. replies' \in [Networks -> Seq(BOOLEAN)] /\ \A m \in Networks \ {n} : replies'[m] = replies[m]
  <2>1. replies \in [Networks -> Seq(BOOLEAN)] /\ replies[n] # <<>>
    BY DEF Answered, IInv, TypeOK
  <2>2. Tail(replies[n]) \in Seq(BOOLEAN)
    BY <2>1
  <2> QED
    BY <2>1, <2>2 DEF Answered
<1>4. Quiet'
  BY <1>1, <1>3 DEF IInv, Quiet
<1>5. TypeOK'
  BY <1>3 DEF IInv, TypeOK, Answered, settings
<1> QED
  BY <1>2, <1>4, <1>5 DEF IInv

LEMMA ServeStepKeeps == ASSUME NEW n \in Networks PROVE IInv /\ Serve(n) => IInv'
<1> SUFFICES ASSUME IInv, Serve(n) PROVE IInv'
  OBVIOUS
<1>1. /\ out \in [Networks -> Seq(Commands)] /\ away \in [Networks -> States]
      /\ reg \subseteq Networks /\ replies \in [Networks -> Seq(BOOLEAN)]
  BY DEF IInv, TypeOK, States
<1>2. /\ out[n] # <<>> /\ out[n] \in Seq(Commands) /\ away[n] \in States
      /\ out' = [out EXCEPT ![n] = Tail(out[n])]
      /\ away' = [away EXCEPT ![n] = Obeyed(Head(out[n]))]
      /\ replies' = [replies EXCEPT ![n] = Append(replies[n], ~ IsBack(Head(out[n])))]
      /\ UNCHANGED <<reg, autoAway, manualAway>>
  BY <1>1 DEF Serve, Obeyed, ledger
<1>3. /\ Outcome(Tail(out[n]), Obeyed(Head(out[n]))) = Outcome(out[n], away[n])
      /\ Keeps(out[n], away[n]) => Keeps(Tail(out[n]), Obeyed(Head(out[n])))
      /\ Obeyed(Head(out[n])) \in States
  BY <1>2, ServeKeeps
<1>4. Tail(out[n]) \in Seq(Commands)
  BY <1>2
<1>5. /\ out'[n] = Tail(out[n]) /\ away'[n] = Obeyed(Head(out[n]))
      /\ \A m \in Networks \ {n} : out'[m] = out[m] /\ away'[m] = away[m] /\ replies'[m] = replies[m]
      /\ out' \in [Networks -> Seq(Commands)] /\ away' \in [Networks -> States]
  BY <1>1, <1>2, <1>3, <1>4
<1>6. replies' \in [Networks -> Seq(BOOLEAN)]
  <2>1. (~ IsBack(Head(out[n]))) \in BOOLEAN
    BY Zenon DEF IsBack
  <2>2. Append(replies[n], ~ IsBack(Head(out[n]))) \in Seq(BOOLEAN)
    BY <1>1, <2>1
  <2> QED
    BY <1>1, <1>2, <2>2
<1>7. n \in reg
  BY <1>2 DEF IInv, Quiet
<1>8. Quiet'
  BY <1>2, <1>5, <1>7 DEF IInv, Quiet
<1>9. \A m \in reg : /\ Outcome(out[m], away[m]) = "auto" <=> m \in autoAway
                     /\ Outcome(out[m], away[m]) = "manual" <=> m \in manualAway
  BY Restated DEF IInv
<1>10. \A m \in Networks : Keeps(out[m], away[m])
  BY Restated DEF IInv
<1>11. \A m \in Networks : /\ Outcome(out'[m], away'[m]) = Outcome(out[m], away[m])
                           /\ Keeps(out'[m], away'[m])
  BY <1>3, <1>5, <1>10
<1>12. LedgerIsTrue' /\ ManualIsKept'
  BY <1>1, <1>2, <1>9, <1>11, Restated
<1>13. TypeOK'
  BY <1>5, <1>6 DEF IInv, TypeOK, Serve, settings, ledger, States
<1> QED
  BY <1>8, <1>12, <1>13 DEF IInv

\* A fresh start knows of no network, and no server knows of the user.
LEMMA FreshHolds ==
    /\ Init => IInv
    /\ IInv /\ Relaunch => IInv'
<1>1. Keeps(<<>>, "no") /\ Outcome(<<>>, "no") = "no"
  BY DEF Keeps, Outcome
<1>2. ASSUME Init PROVE IInv
  <2>1. TypeOK /\ Quiet
    <3>1. 0 \in 0 .. MaxLaunches /\ <<>> \in Seq(Commands) /\ <<>> \in Seq(BOOLEAN)
      BY AutoAwayBounds
    <3>2. TypeOK
      BY <1>2, <3>1 DEF Init, TypeOK
    <3>3. Quiet
      BY <1>2 DEF Init, Quiet
    <3> QED
      BY <3>2, <3>3
  <2>2. LedgerIsTrue /\ ManualIsKept
    BY <1>1, <1>2, Restated DEF Init
  <2> QED
    BY <2>1, <2>2 DEF IInv
<1>3. ASSUME IInv, Relaunch PROVE IInv'
  <2>1. TypeOK' /\ Quiet'
    <3>1. launches' \in 0 .. MaxLaunches /\ <<>> \in Seq(Commands) /\ <<>> \in Seq(BOOLEAN)
      BY <1>3, AutoAwayBounds DEF IInv, TypeOK, Relaunch
    <3>2. TypeOK'
      BY <1>3, <3>1 DEF IInv, Relaunch, TypeOK
    <3>3. Quiet'
      BY <1>3 DEF Relaunch, Quiet
    <3> QED
      BY <3>2, <3>3
  <2>2. LedgerIsTrue' /\ ManualIsKept'
    BY <1>1, <1>3, Restated DEF Relaunch
  <2> QED
    BY <2>1, <2>2 DEF IInv
<1> QED
  BY <1>2, <1>3

-----------------------------------------------------------------------------
(* The theorems *)

LEMMA Invariance == Spec => []IInv
<1>1. IInv /\ [Next]_vars => IInv'
  <2> SUFFICES ASSUME IInv, [Next]_vars PROVE IInv'
    OBVIOUS
  <2>1. CASE UNCHANGED vars
    <3>1. UNCHANGED <<out, away, replies, reg, autoAway, manualAway>>
      BY <2>1 DEF vars, ledger, server
    <3>2. TypeOK'
      BY <2>1 DEF IInv, TypeOK, vars, settings, ledger, server
    <3> QED
      BY <3>1, <3>2, QuietStep DEF IInv
  <2>2. CASE IdleFires \/ GraceFires \/ Disable \/ SetReason \/ Relaunch
    BY <2>2, IdleFiresKeeps, GraceFiresKeeps, DisableKeeps, SetReasonKeeps, FreshHolds
  <2>3. CASE \E newReason \in BOOLEAN : Enable(newReason)
    BY <2>3, EnableKeeps
  <2>4. ASSUME NEW n \in Networks,
               Chat(n) \/ Away(n) \/ Back(n) \/ Drop(n) \/ Registered(n) \/ Answered(n) \/ Serve(n)
        PROVE  IInv'
    BY <2>4, ChatKeeps, AwayKeeps, BackKeeps, DropKeeps, RegisteredKeeps, AnsweredKeeps,
       ServeStepKeeps
  <2> QED
    BY <2>1, <2>2, <2>3, <2>4 DEF Next
<1> QED
  BY <1>1, FreshHolds, PTL DEF Spec

\* The types, and that a tripped auto-away counts no idle time.
THEOREM TypeCorrect == Spec => []TypeOK
<1>1. IInv => TypeOK
  BY DEF IInv
<1> QED
  BY <1>1, Invariance, PTL

\* Whatever the order of commands, trips, reconnections and late answers, on however many
\* networks, the controller's two sets (autoawayruntime.rs) say of every registered network
\* what its server will have.
THEOREM LedgerHolds == Spec => []LedgerIsTrue
<1>1. IInv => LedgerIsTrue
  BY DEF IInv
<1> QED
  BY <1>1, Invariance, PTL

\* No trip, welcome or new reason ever replaces an away the user asked for.
THEOREM ManualHolds == Spec => []ManualIsKept
<1>1. IInv => ManualIsKept
  BY DEF IInv
<1> QED
  BY <1>1, Invariance, PTL

-----------------------------------------------------------------------------
(* /list.  The invariant is about the order in which LISTs are answered: u *)
(* are the LISTs on their way to the server, q the lines on their way      *)
(* back, and n the number of the last LIST.                                *)

\* LISTs are answered in the order they were sent, and nothing follows the end of an answer.
InOrder(u, q, n) ==
    /\ \A i \in 1 .. Len(u) : 0 < u[i] /\ u[i] <= n /\ \A j \in 1 .. i - 1 : u[j] < u[i]
    /\ \A i \in 1 .. Len(q) :
          /\ 0 < q[i].number /\ q[i].number <= n
          /\ \A j \in 1 .. Len(u) : q[i].number < u[j]
          /\ \A j \in 1 .. i - 1 : /\ q[j].number <= q[i].number
                                   /\ q[j].what # "row" => q[j].number < q[i].number

OnItsWay(u, q, m) ==
    (\E i \in 1 .. Len(u) : u[i] = m) \/ (\E i \in 1 .. Len(q) : q[i].number = m)

\* Nothing but LIST m is unanswered.
OnlyOwn(u, q, m) == \A k \in Nat : OnItsWay(u, q, k) => k = m

\* A load is that of the last LIST.  If no other was unanswered when it began, only its own
\* rows come; if no more than the one whose end is drained, the end that completes it is its own.
LoadFits(l, u, q, n, isLate, isMixed) ==
    /\ l.loading => l.number = n /\ ~ l.complete
    /\ l.loading /\ ~ isLate => l.rows \subseteq {n} /\ OnlyOwn(u, q, n)
    /\ l.loading /\ ~ isMixed =>
          /\ ~ l.drain => OnlyOwn(u, q, n)
          /\ l.drain => \E s : \A k \in Nat : OnItsWay(u, q, k) => k \in {s, n}
    /\ l.complete /\ ~ isMixed => l.ended = l.number
    /\ l.complete /\ ~ isLate => l.rows \subseteq {l.number}

\* An open overlay shows the request.
ViewFits(l, v) ==
    v.open /\ l.known => /\ v.mask = l.mask /\ v.rows = l.rows
                         /\ v.loading = l.loading /\ v.complete = l.complete

ListInv ==
    /\ Lists!TypeOK
    /\ InOrder(asked, lines, lists)
    /\ LoadFits(list, asked, lines, lists, late, mixed)
    /\ ViewFits(list, view)

\* The session sends a LIST.
LEMMA SendsList ==
    ASSUME NEW u \in Seq(Nat), NEW q \in Seq(Lists!Lines), NEW n \in Nat, InOrder(u, q, n),
           NEW v, v = Append(u, n + 1), \A i \in 1 .. Len(q) : q[i].number \in Nat
    PROVE  /\ InOrder(v, q, n + 1)
           /\ \A k \in Nat : OnItsWay(v, q, k) => OnItsWay(u, q, k) \/ k = n + 1
<1>1. /\ Len(u) \in Nat /\ Len(v) = Len(u) + 1 /\ v[Len(u) + 1] = n + 1
      /\ \A i \in 1 .. Len(u) : v[i] = u[i] /\ u[i] \in Nat
  OBVIOUS
<1>2. ASSUME NEW i \in 1 .. Len(v)
      PROVE  0 < v[i] /\ v[i] <= n + 1 /\ \A j \in 1 .. i - 1 : v[j] < v[i]
  <2>1. CASE i \in 1 .. Len(u)
    BY <1>1, <2>1 DEF InOrder
  <2>2. CASE i = Len(u) + 1
    BY <1>1, <2>2 DEF InOrder
  <2> QED
    BY <1>1, <2>1, <2>2, SMTT(30)
<1>3. ASSUME NEW i \in 1 .. Len(q)
      PROVE  /\ q[i].number <= n + 1
             /\ \A j \in 1 .. Len(v) : q[i].number < v[j]
  <2>1. q[i].number \in Nat /\ q[i].number <= n
    BY DEF InOrder
  <2>3. q[i].number <= n + 1
    BY <2>1
  <2>2. ASSUME NEW j \in 1 .. Len(v)
        PROVE  q[i].number < v[j]
    <3>1. CASE j \in 1 .. Len(u)
      BY <1>1, <3>1 DEF InOrder
    <3>2. CASE j = Len(u) + 1
      BY <1>1, <2>1, <3>2
    <3> QED
      BY <1>1, <3>1, <3>2, SMTT(30)
  <2> QED
    BY <2>2, <2>3
<1>4. InOrder(v, q, n + 1)
  BY <1>2, <1>3 DEF InOrder
<1>5. ASSUME NEW k \in Nat, OnItsWay(v, q, k)
      PROVE  OnItsWay(u, q, k) \/ k = n + 1
  BY <1>1, <1>5 DEF OnItsWay
<1> QED
  BY <1>4, <1>5

\* The session reads a line.
LEMMA ReadsLine ==
    ASSUME NEW u \in Seq(Nat), NEW q \in Seq(Lists!Lines), NEW n \in Nat, InOrder(u, q, n),
           q # <<>>, NEW r, r = Tail(q), \A i \in 1 .. Len(q) : q[i].number \in Nat
    PROVE  /\ InOrder(u, r, n)
           /\ OnItsWay(u, q, Head(q).number) /\ Head(q).number <= n
           /\ \A k \in Nat : OnItsWay(u, r, k) =>
                 /\ OnItsWay(u, q, k) /\ k <= n
                 /\ Head(q).what # "row" => Head(q).number < k
<1>1. /\ Len(q) \in Nat /\ Len(q) > 0 /\ Head(q) = q[1] /\ Len(r) = Len(q) - 1
      /\ \A i \in 1 .. Len(r) : r[i] = q[i + 1] /\ i + 1 \in 1 .. Len(q)
      /\ \A i \in 1 .. Len(r) : \A j \in 1 .. i - 1 : j + 1 \in 1 .. (i + 1) - 1 /\ r[j] = q[j + 1]
  OBVIOUS
<1>2. InOrder(u, r, n)
  <2>1. ASSUME NEW i \in 1 .. Len(r)
        PROVE  /\ 0 < r[i].number /\ r[i].number <= n
               /\ \A j \in 1 .. Len(u) : r[i].number < u[j]
    BY <1>1 DEF InOrder
  <2>2. ASSUME NEW i \in 1 .. Len(r), NEW j \in 1 .. i - 1
        PROVE  r[j].number <= r[i].number /\ (r[j].what # "row" => r[j].number < r[i].number)
    <3>1. i + 1 \in 1 .. Len(q) /\ j + 1 \in 1 .. (i + 1) - 1 /\ r[i] = q[i + 1]
          /\ r[j] = q[j + 1]
      BY <1>1
    <3> QED
      BY <3>1 DEF InOrder
  <2> QED
    BY <2>1, <2>2 DEF InOrder
<1>3. OnItsWay(u, q, Head(q).number) /\ Head(q).number <= n
  <2>1. 1 \in 1 .. Len(q)
    BY <1>1
  <2> QED
    BY <1>1, <2>1 DEF OnItsWay, InOrder
<1>4. ASSUME NEW k \in Nat, OnItsWay(u, r, k)
      PROVE  /\ OnItsWay(u, q, k) /\ k <= n
             /\ Head(q).what # "row" => Head(q).number < k
  <2>1. CASE \E i \in 1 .. Len(u) : u[i] = k
    <3>1. PICK i \in 1 .. Len(u) : u[i] = k
      BY <2>1
    <3>2. 1 \in 1 .. Len(q)
      BY <1>1
    <3> QED
      BY <1>1, <3>1, <3>2 DEF InOrder, OnItsWay
  <2>2. CASE \E i \in 1 .. Len(r) : r[i].number = k
    <3>1. PICK i \in 1 .. Len(r) : r[i].number = k
      BY <2>2
    <3>2. q[i + 1].number = k /\ i + 1 \in 1 .. Len(q) /\ 1 \in 1 .. (i + 1) - 1
      BY <1>1, <3>1
    <3> QED
      BY <1>1, <3>2 DEF InOrder, OnItsWay
  <2> QED
    BY <1>4, <2>1, <2>2 DEF OnItsWay
<1> QED
  BY <1>2, <1>3, <1>4

\* The server answers the next LIST, with s.
LEMMA AnswersList ==
    ASSUME NEW u \in Seq(Nat), NEW q \in Seq(Lists!Lines), NEW n \in Nat, InOrder(u, q, n),
           u # <<>>, NEW s \in Seq(Lists!Lines), NEW r, r = q \o s, NEW v, v = Tail(u),
           \A i \in 1 .. Len(q) : q[i].number \in Nat,
           \A i \in 1 .. Len(s) : /\ s[i].number = Head(u)
                                  /\ \A j \in 1 .. i - 1 : s[j].what = "row"
    PROVE  /\ InOrder(v, r, n)
           /\ \A k \in Nat : OnItsWay(v, r, k) => OnItsWay(u, q, k)
<1>1. /\ Len(u) \in Nat /\ Len(u) > 0 /\ Head(u) = u[1] /\ Head(u) \in Nat /\ Len(v) = Len(u) - 1
      /\ \A i \in 1 .. Len(u) : u[i] \in Nat
      /\ \A i \in 1 .. Len(v) : v[i] = u[i + 1] /\ i + 1 \in 1 .. Len(u) /\ 1 \in 1 .. (i + 1) - 1
      /\ \A i \in 1 .. Len(v) : \A j \in 1 .. i - 1 : j + 1 \in 1 .. (i + 1) - 1 /\ v[j] = u[j + 1]
      /\ 1 \in 1 .. Len(u)
  OBVIOUS
<1>2. /\ Len(q) \in Nat /\ Len(s) \in Nat /\ Len(r) = Len(q) + Len(s)
      /\ \A i \in 1 .. Len(q) : r[i] = q[i]
      /\ \A i \in 1 .. Len(r) : i \notin 1 .. Len(q) =>
            i - Len(q) \in 1 .. Len(s) /\ r[i] = s[i - Len(q)]
  OBVIOUS
<1>3. ASSUME NEW i \in 1 .. Len(v)
      PROVE  0 < v[i] /\ v[i] <= n /\ Head(u) < v[i] /\ \A j \in 1 .. i - 1 : v[j] < v[i]
  <2>1. 0 < v[i] /\ v[i] <= n /\ Head(u) < v[i]
    BY <1>1 DEF InOrder
  <2>2. ASSUME NEW j \in 1 .. i - 1
        PROVE  v[j] < v[i]
    <3>1. i + 1 \in 1 .. Len(u) /\ j + 1 \in 1 .. (i + 1) - 1 /\ v[i] = u[i + 1]
          /\ v[j] = u[j + 1]
      BY <1>1
    <3> QED
      BY <3>1 DEF InOrder
  <2> QED
    BY <2>1, <2>2
<1>4. 0 < Head(u) /\ Head(u) <= n
  BY <1>1 DEF InOrder
<1>5. ASSUME NEW i \in 1 .. Len(q)
      PROVE  0 < q[i].number /\ q[i].number <= n /\ q[i].number < Head(u)
  BY <1>1 DEF InOrder
<1>6. ASSUME NEW i \in 1 .. Len(r)
      PROVE  /\ 0 < r[i].number /\ r[i].number <= n /\ r[i].number <= Head(u)
             /\ r[i].number \in Nat
  <2>1. CASE i \in 1 .. Len(q)
    BY <1>1, <1>2, <1>5, <2>1
  <2>2. CASE i \notin 1 .. Len(q)
    <3>1. r[i].number = Head(u)
      BY <1>2, <2>2
    <3> QED
      BY <1>1, <1>4, <3>1
  <2> QED
    BY <2>1, <2>2
<1>7. ASSUME NEW i \in 1 .. Len(r), NEW j \in 1 .. Len(v)
      PROVE  r[i].number < v[j]
  <2>1. v[j] \in Nat /\ Head(u) < v[j]
    BY <1>1, <1>3
  <2> QED
    BY <1>1, <1>6, <2>1, SMTT(30)
<1>8. ASSUME NEW i \in 1 .. Len(r), NEW j \in 1 .. i - 1
      PROVE  r[j].number <= r[i].number /\ (r[j].what # "row" => r[j].number < r[i].number)
  <2>1. CASE i \in 1 .. Len(q)
    <3>1. j \in 1 .. Len(q)
      BY <1>2, <2>1
    <3> QED
      BY <1>2, <2>1, <3>1 DEF InOrder
  <2>2. CASE i \notin 1 .. Len(q) /\ j \in 1 .. Len(q)
    <3>1. r[i].number = Head(u) /\ r[j] = q[j]
      BY <1>2, <2>2
    <3>2. q[j].number < Head(u) /\ q[j].number \in Nat
      BY <1>5, <2>2
    <3>3. PICK h \in Nat : h = Head(u)
      BY <1>1
    <3>4. q[j].number <= h /\ q[j].number < h
      BY <3>2, <3>3, SMTT(30)
    <3> QED
      BY <3>1, <3>3, <3>4
  <2>3. CASE i \notin 1 .. Len(q) /\ j \notin 1 .. Len(q)
    <3>1. j \in 1 .. Len(r)
      BY <1>2
    <3>2. /\ r[i].number = Head(u) /\ r[j].number = Head(u)
          /\ j - Len(q) \in 1 .. (i - Len(q)) - 1
      BY <1>2, <2>3, <3>1
    <3>3. r[j].what = "row"
      BY <1>2, <2>3, <3>1, <3>2
    <3> QED
      BY <1>1, <3>2, <3>3
  <2> QED
    BY <2>1, <2>2, <2>3
<1>9. InOrder(v, r, n)
  BY <1>3, <1>6, <1>7, <1>8 DEF InOrder
<1>10. ASSUME NEW k \in Nat, OnItsWay(v, r, k)
       PROVE  OnItsWay(u, q, k)
  <2>1. CASE \E i \in 1 .. Len(v) : v[i] = k
    BY <1>1, <2>1 DEF OnItsWay
  <2>2. CASE \E i \in 1 .. Len(r) : r[i].number = k
    <3>1. PICK i \in 1 .. Len(r) : r[i].number = k
      BY <2>2
    <3>2. CASE i \in 1 .. Len(q)
      BY <1>2, <3>1, <3>2 DEF OnItsWay
    <3>3. CASE i \notin 1 .. Len(q)
      BY <1>1, <1>2, <3>1, <3>3 DEF OnItsWay
    <3> QED
      BY <3>2, <3>3
  <2> QED
    BY <1>10, <2>1, <2>2 DEF OnItsWay
<1> QED
  BY <1>9, <1>10

LEMMA ListTypes ==
    ASSUME Lists!TypeOK
    PROVE  /\ asked \in Seq(Nat) /\ asked \in Seq(Lists!Numbers)
           /\ lines \in Seq(Lists!Lines) /\ \A i \in 1 .. Len(lines) : lines[i].number \in Nat
           /\ list \in Lists!ListStates /\ view \in Lists!Views
           /\ lists \in Nat /\ lists <= MaxLists /\ lists \in 0 .. MaxLists
<1>1. /\ asked \in Seq(Lists!Numbers) /\ lines \in Seq(Lists!Lines)
      /\ list \in Lists!ListStates /\ view \in Lists!Views /\ lists \in 0 .. MaxLists
  BY DEF Lists!TypeOK
<1>2. \A m \in Lists!Numbers : m \in Nat
  BY ListBounds DEF Lists!Numbers
<1>3. asked \in Seq(Nat)
  BY <1>1, <1>2
<1>4. ASSUME NEW i \in 1 .. Len(lines) PROVE lines[i].number \in Nat
  <2>1. lines[i] \in Lists!Lines
    BY <1>1
  <2> QED
    BY <1>2, <2>1 DEF Lists!Lines
<1> QED
  BY <1>1, <1>3, <1>4, ListBounds

LEMMA UnansweredFacts ==
    ASSUME Lists!TypeOK
    PROVE  /\ Lists!Unanswered \subseteq Lists!Numbers
           /\ \A k : OnItsWay(asked, lines, k) => k \in Lists!Unanswered
<1>1. asked \in Seq(Lists!Numbers) /\ lines \in Seq(Lists!Lines)
  BY ListTypes
<1>2. /\ \A i \in DOMAIN asked : asked[i] \in Lists!Numbers
      /\ \A i \in DOMAIN lines : lines[i] \in Lists!Lines
      /\ DOMAIN asked = 1 .. Len(asked) /\ DOMAIN lines = 1 .. Len(lines)
  BY <1>1
<1>3. Lists!Unanswered \subseteq Lists!Numbers
  BY <1>2 DEF Lists!Unanswered, Lists!Range, Lists!Lines
<1>4. ASSUME NEW k, OnItsWay(asked, lines, k)
      PROVE  k \in Lists!Unanswered
  BY <1>2, <1>4 DEF OnItsWay, Lists!Unanswered, Lists!Range
<1> QED
  BY <1>3, <1>4

\* What the size of a set of LISTs says of its members.
LEMMA FewLeft ==
    ASSUME NEW S, S \subseteq Lists!Numbers
    PROVE  /\ ~ (Lists!Cardinality(S) > 0) => S = {}
           /\ ~ (Lists!Cardinality(S) > 1) => \E s : S \subseteq {s}
<1>1. Lists!Cardinality(S) = Cardinality(S)
  BY DEF Lists!Cardinality, Cardinality
<1>2. IsFiniteSet(S)
  <2>1. IsFiniteSet(1 .. MaxLists)
    BY ListBounds, FS_Interval
  <2> QED
    BY <2>1, FS_Subset DEF Lists!Numbers
<1>3. Cardinality(S) \in Nat /\ (Cardinality(S) = 0 <=> S = {})
  BY <1>2, FS_CardinalityType, FS_EmptySet
<1>4. Cardinality(S) = 1 <=> \E s : S = {s}
  BY <1>2, FS_Singleton
<1> QED
  BY <1>1, <1>3, <1>4

\* A load begins: l is the request before it, q the lines after the step, and S the LISTs that
\* may still be answered.
LEMMA BeginsFits ==
    ASSUME ListInv, NEW l \in Lists!ListStates, NEW mask \in Masks, NEW S,
           Lists!Begins(l, mask, S), S \subseteq Lists!Numbers,
           NEW q \in Seq(Lists!Lines), lines' = q, online' \in BOOLEAN,
           \A i \in 1 .. Len(q) : q[i].number \in Nat,
           InOrder(asked, q, lists), \A k \in Nat : OnItsWay(asked, q, k) => k \in S
    PROVE  ListInv'
<1>1. /\ asked \in Seq(Nat) /\ asked \in Seq(Lists!Numbers) /\ lists \in Nat
      /\ view \in Lists!Views
  BY ListTypes DEF ListInv
<1>2. PICK b : b = Lists!Starts(l, mask)
  OBVIOUS
<1>3. PICK v : v = Append(asked, lists + 1)
  OBVIOUS
<1>4. /\ lists < MaxLists /\ list' = b /\ view' = Lists!Shows(view, b)
      /\ lists' = lists + 1 /\ asked' = v /\ trouble' = trouble
      /\ late' = (S # {})
      /\ mixed' = (Lists!Cardinality(S) > IF l.drain THEN 1 ELSE 0)
  BY <1>2, <1>3 DEF Lists!Begins
<1>5. /\ b.known /\ b.mask = mask /\ b.rows = {} /\ b.loading /\ ~ b.complete
      /\ b.drain = l.drain /\ b.number = lists + 1 /\ b.drain \in BOOLEAN
  BY <1>2 DEF Lists!Starts, Lists!NoList, Lists!ListStates
<1>6. b \in Lists!ListStates
  <2>1. lists + 1 \in 0 .. MaxLists /\ 0 \in 0 .. MaxLists
    BY <1>1, <1>4, ListBounds
  <2>2. l.drain \in BOOLEAN
    BY DEF Lists!ListStates
  <2>3. b = [known |-> TRUE, mask |-> mask, rows |-> {}, complete |-> FALSE, loading |-> TRUE,
             pending |-> Lists!NoMask, drain |-> l.drain, number |-> lists + 1, ended |-> 0]
    BY <1>2 DEF Lists!Starts, Lists!NoList
  <2> QED
    BY <2>1, <2>2, <2>3 DEF Lists!ListStates
<1>7. /\ Lists!Shows(view, b) \in Lists!Views
      /\ ViewFits(b, Lists!Shows(view, b))
  BY <1>1, <1>6 DEF Lists!Shows, Lists!Views, Lists!ListStates, ViewFits
<1>8. /\ InOrder(v, q, lists + 1)
      /\ \A k \in Nat : OnItsWay(v, q, k) => OnItsWay(asked, q, k) \/ k = lists + 1
  BY <1>1, <1>3, SendsList
<1>9. Lists!TypeOK'
  <2>1. lists + 1 \in Lists!Numbers /\ lists' \in 0 .. MaxLists
    BY <1>1, <1>4, ListBounds DEF Lists!Numbers
  <2>2. asked' \in Seq(Lists!Numbers)
    BY <1>1, <1>3, <1>4, <2>1
  <2>3. trouble' \in 0 .. MaxTrouble
    BY <1>4 DEF ListInv, Lists!TypeOK
  <2> QED
    BY <1>4, <1>6, <1>7, <2>1, <2>2, <2>3 DEF Lists!TypeOK
<1>10. S = {} => OnlyOwn(v, q, lists + 1)
  BY <1>8 DEF OnlyOwn
<1>11. ~ mixed' => /\ ~ b.drain => OnlyOwn(v, q, lists + 1)
                   /\ b.drain => \E s : \A k \in Nat : OnItsWay(v, q, k) => k \in {s, lists + 1}
  <2>1. CASE ~ l.drain
    BY <1>4, <1>5, <1>10, <2>1, FewLeft
  <2>2. CASE l.drain /\ ~ mixed'
    <3>1. PICK s : S \subseteq {s}
      BY <1>4, <2>2, FewLeft
    <3>2. \A k \in Nat : OnItsWay(v, q, k) => k \in {s, lists + 1}
      BY <1>8, <3>1
    <3> QED
      BY <1>5, <2>2, <3>2
  <2> QED
    BY <1>4, <2>1, <2>2
<1>12. LoadFits(b, v, q, lists + 1, late', mixed')
  <2>1. ~ late' => OnlyOwn(v, q, lists + 1)
    BY <1>4, <1>10
  <2> QED
    BY <1>5, <1>11, <2>1 DEF LoadFits
<1> QED
  BY <1>4, <1>7, <1>8, <1>9, <1>12 DEF ListInv

\* The request is unwound, or the network removed.
LEMMA UnwindsFits ==
    ASSUME ListInv, list' = Lists!NoList, view' = Lists!NoView, NEW u, asked' = u,
           NEW q, lines' = q, u \in Seq(Lists!Numbers), q \in Seq(Lists!Lines),
           InOrder(u, q, lists), UNCHANGED <<lists, late, mixed>>,
           online' \in BOOLEAN, trouble' \in 0 .. MaxTrouble
    PROVE  ListInv'
<1>1. Lists!NoList \in Lists!ListStates /\ Lists!NoView \in Lists!Views
  BY ListBounds DEF Lists!NoList, Lists!NoView, Lists!ListStates, Lists!Views
<1>2. Lists!TypeOK'
  BY <1>1 DEF ListInv, Lists!TypeOK
<1>3. LoadFits(Lists!NoList, u, q, lists, late, mixed) /\ ViewFits(Lists!NoList, Lists!NoView)
  BY DEF LoadFits, ViewFits, Lists!NoList, Lists!NoView
<1> QED
  BY <1>2, <1>3 DEF ListInv

\* A step that begins no load: the request becomes l, and what is on its way was so before.
LEMMA ListMoves ==
    ASSUME ListInv, NEW l \in Lists!ListStates, list' = l,
           NEW v \in Lists!Views, view' = v,
           NEW u \in Seq(Lists!Numbers), asked' = u, NEW q \in Seq(Lists!Lines), lines' = q,
           InOrder(u, q, lists), UNCHANGED <<lists, late, mixed>>,
           online' \in BOOLEAN, trouble' \in 0 .. MaxTrouble,
           LoadFits(l, u, q, lists, late, mixed), ViewFits(l, v)
    PROVE  ListInv'
<1>1. Lists!TypeOK'
  BY DEF ListInv, Lists!TypeOK
<1> QED
  BY <1>1 DEF ListInv

\* A load still fits when less is on its way.
LEMMA LessOnItsWay ==
    ASSUME NEW l, NEW u, NEW q, NEW n, NEW isLate, NEW isMixed,
           LoadFits(l, u, q, n, isLate, isMixed), NEW v, NEW r,
           \A k \in Nat : OnItsWay(v, r, k) => OnItsWay(u, q, k)
    PROVE  LoadFits(l, v, r, n, isLate, isMixed)
BY DEF LoadFits, OnlyOwn

LEMMA ListStarts == Lists!Init => ListInv
<1> SUFFICES ASSUME Lists!Init PROVE ListInv
  OBVIOUS
<1>1. Lists!NoList \in Lists!ListStates /\ Lists!NoView \in Lists!Views
  BY ListBounds DEF Lists!NoList, Lists!NoView, Lists!ListStates, Lists!Views
<1>2. Lists!TypeOK
  <2>1. 0 \in 0 .. MaxLists /\ 0 \in 0 .. MaxTrouble
    BY ListBounds
  <2>2. <<>> \in Seq(Lists!Numbers) /\ <<>> \in Seq(Lists!Lines)
    OBVIOUS
  <2> QED
    BY <1>1, <2>1, <2>2 DEF Lists!TypeOK, Lists!Init
<1>3. LoadFits(list, asked, lines, lists, late, mixed) /\ ViewFits(list, view)
  BY DEF LoadFits, ViewFits, Lists!Init, Lists!NoList, Lists!NoView
<1>4. InOrder(asked, lines, lists)
  BY DEF InOrder, Lists!Init
<1> QED
  BY <1>2, <1>3, <1>4 DEF ListInv

\* What every step finds.
LEMMA ListFacts ==
    ASSUME ListInv
    PROVE  /\ asked \in Seq(Nat) /\ asked \in Seq(Lists!Numbers)
           /\ lines \in Seq(Lists!Lines) /\ \A i \in 1 .. Len(lines) : lines[i].number \in Nat
           /\ list \in Lists!ListStates /\ view \in Lists!Views
           /\ lists \in Nat /\ online \in BOOLEAN /\ trouble \in 0 .. MaxTrouble
           /\ InOrder(asked, lines, lists)
           /\ LoadFits(list, asked, lines, lists, late, mixed) /\ ViewFits(list, view)
           /\ list.loading \in BOOLEAN /\ list.drain \in BOOLEAN
<1>1. online \in BOOLEAN /\ trouble \in 0 .. MaxTrouble
  BY DEF ListInv, Lists!TypeOK
<1>2. list.loading \in BOOLEAN /\ list.drain \in BOOLEAN
  BY DEF ListInv, Lists!TypeOK, Lists!ListStates
<1> QED
  BY <1>1, <1>2, ListTypes DEF ListInv

LEMMA SpendsFits ==
    ASSUME ListInv, Lists!Spends
    PROVE  trouble' \in 0 .. MaxTrouble
BY ListFacts, ListBounds DEF Lists!Spends

\* A line is read: r is what is left, h the LIST it answers.
LEMMA ReceivesLine ==
    ASSUME ListInv, NEW what, Lists!Receives(what), NEW h, h = Head(lines).number
    PROVE  /\ lines' \in Seq(Lists!Lines) /\ \A i \in 1 .. Len(lines') : lines'[i].number \in Nat
           /\ InOrder(asked, lines', lists)
           /\ h \in Nat /\ h \in Lists!Numbers /\ h <= lists /\ OnItsWay(asked, lines, h)
           /\ \A k \in Nat : OnItsWay(asked, lines', k) =>
                 /\ OnItsWay(asked, lines, k) /\ k <= lists
                 /\ what # "row" => h < k
<1>1. lines # <<>> /\ Head(lines).what = what /\ lines' = Tail(lines)
  BY DEF Lists!Receives
<1>2. lines' \in Seq(Lists!Lines) /\ Head(lines) \in Lists!Lines
  BY <1>1, ListFacts
<1>3. \A m \in Lists!Numbers : m \in Nat
  BY ListBounds DEF Lists!Numbers
<1>4. h \in Nat /\ h \in Lists!Numbers
  BY <1>2, <1>3 DEF Lists!Lines
<1>5. ASSUME NEW i \in 1 .. Len(lines') PROVE lines'[i].number \in Nat
  <2>1. lines'[i] \in Lists!Lines
    BY <1>2
  <2> QED
    BY <1>3, <2>1 DEF Lists!Lines
<1>6. /\ InOrder(asked, lines', lists)
      /\ OnItsWay(asked, lines, Head(lines).number) /\ Head(lines).number <= lists
      /\ \A k \in Nat : OnItsWay(asked, lines', k) =>
            /\ OnItsWay(asked, lines, k) /\ k <= lists
            /\ Head(lines).what # "row" => Head(lines).number < k
  BY <1>1, ListFacts, ReadsLine
<1> QED
  BY <1>1, <1>2, <1>4, <1>5, <1>6

\* start_channel_list.
LEMMA ListFits ==
    ASSUME ListInv, NEW mask \in Masks, Lists!List(mask)
    PROVE  ListInv'
<1>1. online' = online /\ lines' = lines
  BY DEF Lists!List
<1>2. CASE /\ list.loading
           /\ list' = Lists!Waits(list, mask) /\ view' = Lists!Shows(view, Lists!Waits(list, mask))
           /\ UNCHANGED <<lists, asked, trouble, late, mixed>>
  <2>1. PICK l : l = Lists!Waits(list, mask)
    OBVIOUS
  <2>2. /\ l \in Lists!ListStates /\ l.mask = list.mask /\ l.rows = list.rows
        /\ l.loading = list.loading /\ l.complete = list.complete /\ l.drain = list.drain
        /\ l.number = list.number /\ l.ended = list.ended
    BY <2>1, ListFacts DEF Lists!Waits, Lists!ListStates
  <2>3. Lists!Shows(view, l) \in Lists!Views /\ ViewFits(l, Lists!Shows(view, l))
    BY <2>2, ListFacts DEF Lists!Shows, Lists!Views, Lists!ListStates, ViewFits
  <2>4. LoadFits(l, asked, lines, lists, late, mixed)
    BY <2>2, ListFacts DEF LoadFits
  <2> QED
    BY <1>1, <1>2, <2>1, <2>2, <2>3, <2>4, ListFacts, ListMoves
<1>3. CASE /\ ~ list.loading /\ Lists!Cached(mask)
           /\ view' = Lists!Shows(view, list)
           /\ UNCHANGED <<list, lists, asked, trouble, late, mixed>>
  <2>1. Lists!Shows(view, list) \in Lists!Views /\ ViewFits(list, Lists!Shows(view, list))
    BY ListFacts DEF Lists!Shows, Lists!Views, Lists!ListStates, ViewFits
  <2> QED
    BY <1>1, <1>3, <2>1, ListFacts, ListMoves
<1>4. CASE Lists!Begins(list, mask, Lists!Unanswered)
  <2>1. /\ Lists!Unanswered \subseteq Lists!Numbers
        /\ \A k : OnItsWay(asked, lines, k) => k \in Lists!Unanswered
    BY UnansweredFacts DEF ListInv
  <2> QED
    BY <1>1, <1>4, <2>1, ListFacts, BeginsFits
<1>5. CASE Lists!Unwinds
  <2>1. trouble' \in 0 .. MaxTrouble
    BY <1>5, SpendsFits DEF Lists!Unwinds
  <2> QED
    BY <1>1, <1>5, <2>1, ListFacts, UnwindsFits DEF Lists!Unwinds
<1> QED
  BY <1>2, <1>3, <1>4, <1>5 DEF Lists!List

LEMMA DismissFits ==
    ASSUME ListInv, Lists!Dismiss
    PROVE  ListInv'
<1>1. PICK v : v = [view EXCEPT !.open = FALSE]
  OBVIOUS
<1>2. v \in Lists!Views /\ ~ v.open
  BY <1>1, ListFacts DEF Lists!Views
<1>3. ViewFits(list, v)
  BY <1>2 DEF ViewFits
<1>4. trouble' \in 0 .. MaxTrouble
  BY SpendsFits DEF Lists!Dismiss
<1> QED
  BY <1>1, <1>2, <1>3, <1>4, ListFacts, ListMoves DEF Lists!Dismiss

\* Nothing is on its way on a connection that is gone.
LEMMA NothingOnItsWay ==
    /\ \A n : InOrder(<<>>, <<>>, n)
    /\ \A k : ~ OnItsWay(<<>>, <<>>, k)
    /\ <<>> \in Seq(Lists!Numbers) /\ <<>> \in Seq(Lists!Lines)
BY DEF InOrder, OnItsWay

\* forget_channel_list.
LEMMA RemoveFits ==
    ASSUME ListInv, Lists!Remove
    PROVE  ListInv'
<1>1. trouble' \in 0 .. MaxTrouble
  BY SpendsFits DEF Lists!Remove
<1> QED
  BY <1>1, NothingOnItsWay, UnwindsFits DEF Lists!Remove

LEMMA DisconnectFits ==
    ASSUME ListInv, Lists!Disconnect
    PROVE  ListInv'
<1>1. trouble' \in 0 .. MaxTrouble
  BY SpendsFits DEF Lists!Disconnect
<1>2. LoadFits(list, <<>>, <<>>, lists, late, mixed)
  BY ListFacts, NothingOnItsWay, LessOnItsWay
<1> QED
  BY <1>1, <1>2, NothingOnItsWay, ListFacts, ListMoves DEF Lists!Disconnect

LEMMA RegisterFits ==
    ASSUME ListInv, Lists!Register
    PROVE  ListInv'
BY ListFacts, ListMoves DEF Lists!Register

\* 322.
LEMMA RowFits ==
    ASSUME ListInv, Lists!Row
    PROVE  ListInv'
<1>1. PICK h : h = Head(lines).number
  OBVIOUS
<1>2. Lists!Receives("row") /\ UNCHANGED <<online, asked, lists, trouble, late, mixed>>
  BY DEF Lists!Row
<1>3. /\ lines' \in Seq(Lists!Lines) /\ InOrder(asked, lines', lists)
      /\ h \in Nat /\ h \in Lists!Numbers /\ OnItsWay(asked, lines, h)
      /\ \A k \in Nat : OnItsWay(asked, lines', k) => OnItsWay(asked, lines, k)
  BY <1>1, <1>2, ReceivesLine
<1>4. PICK l : l = IF list.loading THEN [list EXCEPT !.rows = list.rows \cup {h}] ELSE list
  OBVIOUS
<1>5. PICK v : v = IF view.open /\ view.loading THEN [view EXCEPT !.rows = view.rows \cup {h}]
                                                ELSE view
  OBVIOUS
<1>6. list' = l /\ view' = v
  BY <1>1, <1>4, <1>5 DEF Lists!Row
<1>7. /\ l \in Lists!ListStates /\ l.known = list.known /\ l.mask = list.mask
      /\ l.rows = IF list.loading THEN list.rows \cup {h} ELSE list.rows
      /\ l.loading = list.loading /\ l.complete = list.complete /\ l.drain = list.drain
      /\ l.number = list.number /\ l.ended = list.ended
  BY <1>3, <1>4, ListFacts DEF Lists!ListStates
<1>8. /\ v \in Lists!Views /\ v.open = view.open /\ v.mask = view.mask
      /\ v.rows = IF view.open /\ view.loading THEN view.rows \cup {h} ELSE view.rows
      /\ v.loading = view.loading /\ v.complete = view.complete
  BY <1>3, <1>5, ListFacts DEF Lists!Views
<1>9. ViewFits(l, v)
  BY <1>7, <1>8, ListFacts DEF ViewFits
<1>10. LoadFits(list, asked, lines', lists, late, mixed)
  BY <1>3, ListFacts, LessOnItsWay
<1>11. list.loading /\ ~ late => h = lists
  BY <1>3, ListFacts DEF LoadFits, OnlyOwn
<1>12. LoadFits(l, asked, lines', lists, late, mixed)
  BY <1>7, <1>10, <1>11 DEF LoadFits
<1> QED
  BY <1>2, <1>3, <1>6, <1>7, <1>8, <1>9, <1>12, ListFacts, ListMoves

LEMMA FailedFits ==
    ASSUME ListInv, list.loading, NEW timedOut \in BOOLEAN,
           list' = Lists!FailedList(list, timedOut), view' = Lists!FailedView(view),
           NEW q \in Seq(Lists!Lines), lines' = q, InOrder(asked, q, lists),
           UNCHANGED <<online, asked, lists, trouble, late, mixed>>
    PROVE  ListInv'
<1>1. PICK l : l = Lists!FailedList(list, timedOut)
  OBVIOUS
<1>2. PICK v : v = Lists!FailedView(view)
  OBVIOUS
<1>3. /\ l \in Lists!ListStates /\ l.known = list.known /\ l.mask = list.mask
      /\ l.rows = list.rows /\ ~ l.loading /\ ~ l.complete
      /\ l.loading = FALSE /\ l.complete = FALSE
  BY <1>1, ListFacts DEF Lists!FailedList, Lists!ListStates
<1>4. /\ v \in Lists!Views /\ v.open = view.open /\ v.mask = view.mask /\ v.rows = view.rows
      /\ v.loading = FALSE /\ v.complete = FALSE
  BY <1>2, ListFacts DEF Lists!FailedView, Lists!Views
<1>5. LoadFits(l, asked, q, lists, late, mixed)
  BY <1>3 DEF LoadFits
<1>6. ViewFits(l, v)
  BY <1>3, <1>4, ListFacts DEF ViewFits
<1> QED
  BY <1>1, <1>2, <1>3, <1>4, <1>5, <1>6, ListFacts, ListMoves

\* 263, 416 or an error that names LIST.
LEMMA RefusalFits ==
    ASSUME ListInv, Lists!Refusal
    PROVE  ListInv'
<1>1. Lists!Receives("refusal") /\ UNCHANGED <<online, asked, lists, trouble, late, mixed>>
  BY DEF Lists!Refusal
<1>2. /\ lines' \in Seq(Lists!Lines) /\ InOrder(asked, lines', lists)
      /\ \A k \in Nat : OnItsWay(asked, lines', k) => OnItsWay(asked, lines, k)
  BY <1>1, ReceivesLine
<1>3. CASE list.loading
  BY <1>1, <1>2, <1>3, FailedFits DEF Lists!Refusal
<1>4. CASE ~ list.loading
  <2>1. LoadFits(list, asked, lines', lists, late, mixed)
    BY <1>2, ListFacts, LessOnItsWay
  <2> QED
    BY <1>1, <1>2, <1>4, <2>1, ListFacts, ListMoves DEF Lists!Refusal
<1> QED
  BY <1>3, <1>4

\* run_channel_list_expiry.
LEMMA ExpireFits ==
    ASSUME ListInv, Lists!Expire
    PROVE  ListInv'
BY ListFacts, FailedFits DEF Lists!Expire

\* 323.
LEMMA EndFits ==
    ASSUME ListInv, Lists!End
    PROVE  ListInv'
<1>1. PICK h : h = Head(lines).number
  OBVIOUS
<1>2. Lists!Receives("end") /\ online' = online
  BY DEF Lists!End
<1>3. /\ lines' \in Seq(Lists!Lines) /\ \A i \in 1 .. Len(lines') : lines'[i].number \in Nat
      /\ InOrder(asked, lines', lists)
      /\ h \in Nat /\ h \in Lists!Numbers /\ h <= lists /\ OnItsWay(asked, lines, h)
      /\ \A k \in Nat : OnItsWay(asked, lines', k) =>
            OnItsWay(asked, lines, k) /\ k <= lists /\ h < k
  BY <1>1, <1>2, ReceivesLine
<1>4. LoadFits(list, asked, lines', lists, late, mixed)
  BY <1>3, ListFacts, LessOnItsWay
<1>5. CASE ~ list.loading \/ list.drain
  <2>1. PICK l : l = [list EXCEPT !.drain = FALSE]
    OBVIOUS
  <2>2. list' = l /\ UNCHANGED <<view, lists, asked, trouble, late, mixed>>
    BY <1>5, <2>1 DEF Lists!End
  <2>3. /\ l \in Lists!ListStates /\ l.known = list.known /\ l.mask = list.mask
        /\ l.rows = list.rows /\ l.loading = list.loading /\ l.complete = list.complete
        /\ ~ l.drain /\ l.number = list.number /\ l.ended = list.ended
    BY <2>1, ListFacts DEF Lists!ListStates
  <2>4. list.loading /\ ~ mixed => OnlyOwn(asked, lines', lists)
    <3> SUFFICES ASSUME list.loading, ~ mixed PROVE OnlyOwn(asked, lines', lists)
      OBVIOUS
    <3>1. PICK s : \A k \in Nat : OnItsWay(asked, lines, k) => k \in {s, lists}
      BY <1>5, ListFacts DEF LoadFits
    <3>2. ASSUME NEW k \in Nat, OnItsWay(asked, lines', k) PROVE k = lists
      <4>1. k \in {s, lists} /\ h \in {s, lists} /\ h < k /\ k <= lists
        BY <1>3, <3>1, <3>2
      <4> QED
        BY <1>3, <4>1, ListFacts
    <3> QED
      BY <3>2 DEF OnlyOwn
  <2>5. LoadFits(l, asked, lines', lists, late, mixed)
    BY <1>4, <2>3, <2>4 DEF LoadFits
  <2>6. ViewFits(l, view)
    BY <2>3, ListFacts DEF ViewFits
  <2> QED
    BY <1>2, <1>3, <2>2, <2>3, <2>5, <2>6, ListFacts, ListMoves
<1>6. CASE list.loading /\ ~ list.drain
  <2>1. PICK l : l = Lists!Completed(list, h)
    OBVIOUS
  <2>2. /\ l \in Lists!ListStates /\ l.known = list.known /\ l.mask = list.mask
        /\ l.rows = list.rows /\ l.loading = FALSE /\ l.complete = TRUE
        /\ l.number = list.number /\ l.ended = h
    <3>1. h \in 0 .. MaxLists
      BY <1>3, ListBounds DEF Lists!Numbers
    <3> QED
      BY <2>1, <3>1, ListFacts DEF Lists!Completed, Lists!ListStates
  <2>3. CASE Lists!MaskToLoad(list) # Lists!NoMask /\ online
    <3>1. PICK mask : mask = Lists!MaskToLoad(list)
      OBVIOUS
    <3>2. mask \in Masks
      BY <2>3, <3>1, ListFacts DEF Lists!MaskToLoad, Lists!ListStates
    <3>3. PICK S : S = Lists!Unanswered \ {h}
      OBVIOUS
    <3>4. CASE Lists!Begins(l, mask, S)
      <4>1. /\ Lists!Unanswered \subseteq Lists!Numbers
            /\ \A k : OnItsWay(asked, lines, k) => k \in Lists!Unanswered
        BY UnansweredFacts DEF ListInv
      <4>2. ASSUME NEW k \in Nat, OnItsWay(asked, lines', k) PROVE k \in S
        <5>1. k \in Lists!Unanswered /\ h < k
          BY <1>3, <4>1, <4>2
        <5>2. k # h
          BY <1>3, <5>1
        <5> QED
          BY <3>3, <5>1, <5>2
      <4>3. S \subseteq Lists!Numbers
        BY <3>3, <4>1
      <4> QED
        BY <1>2, <1>3, <2>2, <3>2, <3>4, <4>2, <4>3, ListFacts, BeginsFits
    <3>5. CASE Lists!Unwinds
      <4>1. trouble' \in 0 .. MaxTrouble
        BY <3>5, SpendsFits DEF Lists!Unwinds
      <4> QED
        BY <1>2, <1>3, <3>5, <4>1, ListFacts, UnwindsFits DEF Lists!Unwinds
    <3>6. Lists!Begins(l, mask, S) \/ Lists!Unwinds
      BY <1>1, <1>6, <2>1, <2>3, <3>1, <3>3 DEF Lists!End
    <3> QED
      BY <3>4, <3>5, <3>6
  <2>4. CASE ~ (Lists!MaskToLoad(list) # Lists!NoMask /\ online)
    <3>1. PICK v : v = [Lists!Shows(view, l) EXCEPT !.open = view.open]
      OBVIOUS
    <3>2. list' = l /\ view' = v /\ UNCHANGED <<lists, asked, trouble, late, mixed>>
      BY <1>1, <1>6, <2>1, <2>4, <3>1 DEF Lists!End
    <3>3. v \in Lists!Views /\ ViewFits(l, v)
      BY <2>2, <3>1, ListFacts DEF Lists!Shows, Lists!Views, Lists!ListStates, ViewFits
    <3>4. ~ mixed => h = list.number
      BY <1>3, <1>6, ListFacts DEF LoadFits, OnlyOwn
    <3>5. ~ late => list.rows \subseteq {list.number}
      BY <1>6, ListFacts DEF LoadFits
    <3>6. LoadFits(l, asked, lines', lists, late, mixed)
      BY <2>2, <3>4, <3>5 DEF LoadFits
    <3> QED
      BY <1>2, <1>3, <2>2, <3>2, <3>3, <3>6, ListFacts, ListMoves
  <2> QED
    BY <2>3, <2>4
<1> QED
  BY <1>5, <1>6, ListFacts

\* The server answers a LIST.
LEMMA AnswerFits ==
    ASSUME ListInv, Lists!Answer
    PROVE  ListInv'
<1>1. PICK n : n = Head(asked)
  OBVIOUS
<1>2. PICK reply \in {<<Lists!Line("row", n), Lists!Line("end", n)>>, <<Lists!Line("end", n)>>,
                      <<Lists!Line("refusal", n)>>, <<>>} : lines' = lines \o reply
  BY <1>1 DEF Lists!Answer
<1>3. /\ asked # <<>> /\ asked' = Tail(asked)
      /\ UNCHANGED <<list, view, online, lists, trouble, late, mixed>>
  BY DEF Lists!Answer
<1>4. n \in Lists!Numbers /\ asked' \in Seq(Lists!Numbers)
  BY <1>1, <1>3, ListFacts
<1>5. /\ \A w \in {"row", "end", "refusal"} : /\ Lists!Line(w, n) \in Lists!Lines
                                              /\ Lists!Line(w, n).what = w
                                              /\ Lists!Line(w, n).number = n
  BY <1>4 DEF Lists!Line, Lists!Lines
<1>6. /\ reply \in Seq(Lists!Lines)
      /\ \A i \in 1 .. Len(reply) : /\ reply[i].number = n
                                    /\ \A j \in 1 .. i - 1 : reply[j].what = "row"
  <2>1. CASE reply = <<Lists!Line("row", n), Lists!Line("end", n)>>
    BY <1>5, <2>1
  <2>2. CASE reply = <<Lists!Line("end", n)>>
    BY <1>5, <2>2
  <2>3. CASE reply = <<Lists!Line("refusal", n)>>
    BY <1>5, <2>3
  <2>4. CASE reply = <<>>
    BY <2>4
  <2> QED
    BY <1>2, <2>1, <2>2, <2>3, <2>4
<1>7. lines' \in Seq(Lists!Lines)
  BY <1>2, <1>6, ListFacts
<1>8. /\ InOrder(asked', lines', lists)
      /\ \A k \in Nat : OnItsWay(asked', lines', k) => OnItsWay(asked, lines, k)
  BY <1>1, <1>2, <1>3, <1>6, ListFacts, AnswersList
<1>9. LoadFits(list, asked', lines', lists, late, mixed)
  BY <1>8, ListFacts, LessOnItsWay
<1> QED
  BY <1>3, <1>4, <1>7, <1>8, <1>9, ListFacts, ListMoves

LEMMA ListSteps == ListInv /\ [Lists!Next]_listVars => ListInv'
<1> SUFFICES ASSUME ListInv, [Lists!Next]_listVars PROVE ListInv'
  OBVIOUS
<1>1. CASE UNCHANGED listVars
  BY <1>1, ListFacts, ListMoves DEF listVars
<1>2. CASE Lists!Next
  BY <1>2, ListFits, DismissFits, RemoveFits, RowFits, EndFits, RefusalFits, ExpireFits,
     AnswerFits, DisconnectFits, RegisterFits DEF Lists!Next
<1> QED
  BY <1>1, <1>2

\* A finished /list is the answer to its own LIST: no more stale ends than the one that is
\* drained, the end that completed it is its own, and when nothing was unanswered so are its
\* rows; an open overlay shows the request (start_channel_list, finish_channel_list,
\* run_channel_list_expiry).
THEOREM ListIsOwnHolds == MCSpec => []ListIsOwn
<1>1. MCInit => ListInv
  BY ListStarts DEF MCInit
<1>2. ListInv /\ [MCNext]_<<vars, listVars, watchVars, socketVars, part>> => ListInv'
  <2>1. [MCNext]_<<vars, listVars, watchVars, socketVars, part>> => [Lists!Next]_listVars
    BY DEF MCNext
  <2> QED
    BY <2>1, ListSteps
<1>3. ListInv => ListIsOwn
  BY DEF ListInv, LoadFits, ViewFits, ListIsOwn, Lists!ListIsOwn
<1> QED
  BY <1>1, <1>2, <1>3, PTL DEF MCSpec

-----------------------------------------------------------------------------
(* /monitor.  A queue of commands or of reports is read per nick: what it  *)
(* has of the nick, and which is the last.                                 *)

Has(q, e) == \E i \in 1 .. Len(q) : q[i] = e

Silent(q, n) == \A i \in 1 .. Len(q) : q[i].nick # n

LastIs(q, e) == \E i \in 1 .. Len(q) : q[i] = e /\ \A j \in i + 1 .. Len(q) : q[j].nick # e.nick

Once(q, e) == \A i, j \in 1 .. Len(q) : q[i] = e /\ q[j] = e => i = j

\* Where n is, when hs are online (Whereabouts).
At(n, hs) == IF n \in hs THEN "online" ELSE "offline"

\* What holds of nick n on a connection that has sent its list.  ls are the listed, ws the
\* watched, cs the cut and xs the crossed nicks, c and r the two queues, p what is known.
NickFits(n, ls, c, r, ws, cs, xs, p, hs) ==
    \* The server is yet to be asked, has accepted and told, or has refused and said so.
    /\ n \in ls /\ n \notin cs =>
          \/ LastIs(c, Watching!Command("+", n))
          \/ /\ Silent(c, n) /\ n \in ws
             /\ LastIs(r, Watching!Report(At(n, hs), n)) \/ (Silent(r, n) /\ p[n] = At(n, hs))
          \/ Silent(c, n) /\ n \notin ws /\ LastIs(r, Watching!Report("full", n))
    \* Nothing was ever said of a nick that was cut off.
    /\ n \in cs => /\ n \in ls /\ n \notin xs /\ Silent(c, n) /\ n \notin ws
                   /\ ~ Has(r, Watching!Report("full", n))
    \* The server will forget what is not listed.
    /\ n \notin xs /\ n \notin ls => /\ ~ LastIs(c, Watching!Command("+", n))
                                     /\ n \in ws => Has(c, Watching!Command("-", n))
    \* A refusal answers the last request.
    /\ n \notin xs => /\ Once(c, Watching!Command("+", n))
                      /\ Has(r, Watching!Report("full", n)) =>
                            n \notin ws /\ ~ Has(c, Watching!Command("+", n))

WatchCommands == [sign : {"+", "-"}, nick : Nicks]
WatchReports == [what : {"online", "offline", "full"}, nick : Nicks]

\* No connection, or one that is not welcome yet.
Unwelcome == /\ ~ welcomed /\ commands = <<>> /\ watched = {}
        /\ \/ reports = <<>>
           \/ /\ reports = <<Watching!Report("001", Watching!Nobody),
                             Watching!Report("005", Watching!Nobody)>>
              /\ cut = {} /\ crossed = {}

\* Welcome, and the 005 not read yet: only removals are sent.
Greeted == /\ welcomed /\ ~ subscribed /\ limit = Watching!NotAdvertised
           /\ watched = {} /\ cut = {} /\ crossed = {}
           /\ reports = <<Watching!Report("005", Watching!Nobody)>>
           /\ \A i \in 1 .. Len(commands) :
                 commands[i].sign = "-" /\ commands[i].nick \notin Watching!Listed

\* The list was sent.
Watches == /\ welcomed /\ subscribed /\ reports \in Seq(WatchReports)
           /\ \A n \in Nicks :
                 NickFits(n, Watching!Listed, commands, reports, watched, cut, crossed, presence, here)

WatchTypes == /\ stored \in Seq(Nicks)
              /\ \A i, j \in 1 .. Len(stored) : stored[i] = stored[j] => i = j
              /\ presence \in [Nicks -> Watching!States] /\ capacity \in Limits
              /\ commands \in Seq(WatchCommands)
              /\ watched \subseteq Nicks /\ cut \subseteq Nicks /\ crossed \subseteq Nicks

WatchInv == WatchTypes /\ (Unwelcome \/ Greeted \/ Watches)

\* v is q with f appended.
Longer(q, f, v) == /\ Len(q) \in Nat /\ Len(v) = Len(q) + 1 /\ v[Len(q) + 1] = f
                   /\ \A i \in 1 .. Len(q) : v[i] = q[i]

\* A queue grows by f.
LEMMA QueueGrows ==
    ASSUME NEW q, NEW f, NEW v, Longer(q, f, v)
    PROVE  /\ \A e : Has(v, e) <=> Has(q, e) \/ e = f
           /\ \A n : Silent(v, n) <=> Silent(q, n) /\ f.nick # n
           /\ \A e : LastIs(v, e) <=> e = f \/ (LastIs(q, e) /\ f.nick # e.nick)
           /\ \A e : Once(q, e) /\ (e = f => ~ Has(q, e)) => Once(v, e)
<1>1. /\ Len(q) \in Nat /\ Len(v) = Len(q) + 1 /\ v[Len(q) + 1] = f
      /\ \A i \in 1 .. Len(q) : v[i] = q[i] /\ i \in 1 .. Len(v)
      /\ \A i \in 1 .. Len(v) : i \in 1 .. Len(q) \/ i = Len(q) + 1
      /\ Len(q) + 1 \in 1 .. Len(v)
  BY DEF Longer
<1>2. ASSUME NEW e PROVE Has(v, e) <=> Has(q, e) \/ e = f
  BY <1>1 DEF Has
<1>3. ASSUME NEW n PROVE Silent(v, n) <=> Silent(q, n) /\ f.nick # n
  BY <1>1 DEF Silent
<1>4. ASSUME NEW e PROVE LastIs(v, e) <=> e = f \/ (LastIs(q, e) /\ f.nick # e.nick)
  <2>1. ASSUME LastIs(v, e), e # f PROVE LastIs(q, e) /\ f.nick # e.nick
    <3>1. PICK i \in 1 .. Len(v) : v[i] = e /\ \A j \in i + 1 .. Len(v) : v[j].nick # e.nick
      BY <2>1 DEF LastIs
    <3>2. i \in 1 .. Len(q) /\ q[i] = e /\ Len(q) + 1 \in i + 1 .. Len(v)
      BY <1>1, <2>1, <3>1
    <3>3. \A j \in i + 1 .. Len(q) : j \in i + 1 .. Len(v) /\ v[j] = q[j]
      BY <1>1, <3>2
    <3> QED
      BY <1>1, <3>1, <3>2, <3>3 DEF LastIs
  <2>2. ASSUME e = f PROVE LastIs(v, e)
    <3>1. \A j \in (Len(q) + 1) + 1 .. Len(v) : v[j].nick # e.nick
      BY <1>1
    <3> QED
      BY <1>1, <2>2, <3>1 DEF LastIs
  <2>3. ASSUME LastIs(q, e), f.nick # e.nick PROVE LastIs(v, e)
    <3>1. PICK i \in 1 .. Len(q) : q[i] = e /\ \A j \in i + 1 .. Len(q) : q[j].nick # e.nick
      BY <2>3 DEF LastIs
    <3>2. ASSUME NEW j \in i + 1 .. Len(v) PROVE v[j].nick # e.nick
      <4>1. CASE j = Len(q) + 1
        BY <1>1, <2>3, <4>1
      <4>2. CASE j \in i + 1 .. Len(q)
        BY <1>1, <3>1, <4>2
      <4> QED
        BY <1>1, <4>1, <4>2
    <3> QED
      BY <1>1, <3>1, <3>2 DEF LastIs
  <2> QED
    BY <2>1, <2>2, <2>3
<1>5. ASSUME NEW e, Once(q, e), e = f => ~ Has(q, e) PROVE Once(v, e)
  <2>1. ASSUME NEW i \in 1 .. Len(v), NEW j \in 1 .. Len(v), v[i] = e, v[j] = e PROVE i = j
    <3>1. CASE i \in 1 .. Len(q) /\ j \in 1 .. Len(q)
      BY <1>1, <1>5, <2>1, <3>1 DEF Once
    <3>2. CASE i = Len(q) + 1 /\ j \in 1 .. Len(q)
      BY <1>1, <1>5, <2>1, <3>2 DEF Has
    <3>3. CASE i \in 1 .. Len(q) /\ j = Len(q) + 1
      BY <1>1, <1>5, <2>1, <3>3 DEF Has
    <3> QED
      BY <1>1, <3>1, <3>2, <3>3
  <2> QED
    BY <2>1 DEF Once
<1> QED
  BY <1>2, <1>3, <1>4, <1>5

\* The first of a queue is read.
LEMMA QueueShrinks ==
    ASSUME NEW T, NEW q \in Seq(T), q # <<>>, NEW v, v = Tail(q)
    PROVE  /\ \A e : Has(q, e) <=> Has(v, e) \/ e = Head(q)
           /\ \A n : Silent(q, n) <=> Silent(v, n) /\ Head(q).nick # n
           /\ \A e : LastIs(q, e) <=> LastIs(v, e) \/ (e = Head(q) /\ Silent(v, e.nick))
           /\ \A e : Once(q, e) => Once(v, e) /\ (e = Head(q) => ~ Has(v, e))
<1>1. /\ Len(q) \in Nat /\ Len(q) > 0 /\ Head(q) = q[1] /\ Len(v) = Len(q) - 1
      /\ \A i \in 1 .. Len(v) : v[i] = q[i + 1] /\ i + 1 \in 1 .. Len(q)
      /\ \A i \in 1 .. Len(q) : i = 1 \/ (i - 1 \in 1 .. Len(v) /\ q[i] = v[i - 1])
      /\ 1 \in 1 .. Len(q)
  OBVIOUS
<1>2. ASSUME NEW e PROVE Has(q, e) <=> Has(v, e) \/ e = Head(q)
  BY <1>1 DEF Has
<1>3. ASSUME NEW n PROVE Silent(q, n) <=> Silent(v, n) /\ Head(q).nick # n
  BY <1>1 DEF Silent
<1>4. ASSUME NEW e PROVE LastIs(q, e) <=> LastIs(v, e) \/ (e = Head(q) /\ Silent(v, e.nick))
  <2>1. ASSUME LastIs(q, e), ~ LastIs(v, e) PROVE e = Head(q) /\ Silent(v, e.nick)
    <3>1. PICK i \in 1 .. Len(q) : q[i] = e /\ \A j \in i + 1 .. Len(q) : q[j].nick # e.nick
      BY <2>1 DEF LastIs
    <3>2. CASE i = 1
      <4>1. \A j \in 1 .. Len(v) : j + 1 \in i + 1 .. Len(q) /\ v[j] = q[j + 1]
        BY <1>1, <3>2
      <4> QED
        BY <1>1, <3>1, <3>2, <4>1 DEF Silent
    <3>3. CASE i - 1 \in 1 .. Len(v) /\ q[i] = v[i - 1]
      <4>1. \A j \in (i - 1) + 1 .. Len(v) : /\ j + 1 \in i + 1 .. Len(q) /\ j \in 1 .. Len(v)
                                             /\ v[j] = q[j + 1]
        BY <1>1, <3>3
      <4>2. LastIs(v, e)
        BY <3>1, <3>3, <4>1 DEF LastIs
      <4> QED
        BY <2>1, <4>2
    <3> QED
      BY <1>1, <3>2, <3>3
  <2>2. ASSUME LastIs(v, e) PROVE LastIs(q, e)
    <3>1. PICK i \in 1 .. Len(v) : v[i] = e /\ \A j \in i + 1 .. Len(v) : v[j].nick # e.nick
      BY <2>2 DEF LastIs
    <3>2. \A j \in (i + 1) + 1 .. Len(q) : j - 1 \in i + 1 .. Len(v) /\ q[j] = v[j - 1]
      BY <1>1
    <3>3. i + 1 \in 1 .. Len(q) /\ q[i + 1] = e
      BY <1>1, <3>1
    <3>4. \A j \in (i + 1) + 1 .. Len(q) : q[j].nick # e.nick
      BY <3>1, <3>2
    <3> QED
      BY <3>3, <3>4 DEF LastIs
  <2>3. ASSUME e = Head(q), Silent(v, e.nick) PROVE LastIs(q, e)
    <3>1. \A j \in 1 + 1 .. Len(q) : j - 1 \in 1 .. Len(v) /\ q[j] = v[j - 1]
      BY <1>1
    <3> QED
      BY <1>1, <2>3, <3>1 DEF LastIs, Silent
  <2> QED
    BY <2>1, <2>2, <2>3
<1>5. ASSUME NEW e, Once(q, e) PROVE Once(v, e) /\ (e = Head(q) => ~ Has(v, e))
  <2>1. ASSUME NEW i \in 1 .. Len(v), NEW j \in 1 .. Len(v), v[i] = e, v[j] = e PROVE i = j
    <3>1. i + 1 = j + 1
      BY <1>1, <1>5, <2>1 DEF Once
    <3> QED
      BY <3>1
  <2>2. ASSUME e = Head(q), NEW i \in 1 .. Len(v), v[i] = e PROVE FALSE
    <3>1. i + 1 = 1
      BY <1>1, <1>5, <2>2 DEF Once
    <3> QED
      BY <3>1
  <2> QED
    BY <2>1, <2>2 DEF Once, Has
<1> QED
  BY <1>2, <1>3, <1>4, <1>5

\* CaseListStore::remove.
LEMMA WithoutFacts ==
    ASSUME WatchTypes, NEW n \in Nicks
    PROVE  /\ Watching!Without(n) \in Seq(Nicks)
           /\ Watching!ToSet(Watching!Without(n)) = Watching!Listed \ {n}
           /\ \A i, j \in 1 .. Len(Watching!Without(n)) :
                 Watching!Without(n)[i] = Watching!Without(n)[j] => i = j
<1>1. /\ stored \in Seq(Nicks) /\ Len(stored) \in Nat /\ DOMAIN stored = 1 .. Len(stored)
      /\ \A i, j \in 1 .. Len(stored) : stored[i] = stored[j] => i = j
  BY DEF WatchTypes
<1>2. Watching!Listed = {stored[i] : i \in 1 .. Len(stored)}
  BY <1>1 DEF Watching!Listed, Watching!ToSet
<1>3. CASE n \notin Watching!Listed
  <2>1. Watching!Without(n) = stored
    BY <1>3 DEF Watching!Without
  <2> QED
    BY <1>1, <1>3, <2>1 DEF Watching!Listed
<1>4. CASE n \in Watching!Listed
  <2>1. PICK k : k = CHOOSE i \in DOMAIN stored : stored[i] = n
    OBVIOUS
  <2>2. k \in 1 .. Len(stored) /\ stored[k] = n
    BY <1>1, <1>2, <1>4, <2>1
  <2>3. PICK t : t = Watching!Without(n)
    OBVIOUS
  <2>4. t = SubSeq(stored, 1, k - 1) \o SubSeq(stored, k + 1, Len(stored))
    BY <1>4, <2>1, <2>3 DEF Watching!Without, Watching!RemoveAt
  <2>5. /\ t \in Seq(Nicks) /\ Len(t) = Len(stored) - 1
        /\ \A i \in 1 .. Len(t) : t[i] = IF i < k THEN stored[i] ELSE stored[i + 1]
    <3>1. PICK a : a = SubSeq(stored, 1, k - 1)
      OBVIOUS
    <3>2. PICK b : b = SubSeq(stored, k + 1, Len(stored))
      OBVIOUS
    <3>3. a \in Seq(Nicks) /\ Len(a) = k - 1 /\ \A i \in 1 .. k - 1 : a[i] = stored[i]
      BY <1>1, <2>2, <3>1
    <3>4. /\ b \in Seq(Nicks) /\ Len(b) = Len(stored) - k
          /\ \A i \in 1 .. Len(stored) - k : b[i] = stored[k + i]
      <4>1. k + 1 \in Int /\ Len(stored) \in Int /\ \A i \in k + 1 .. Len(stored) : stored[i] \in Nicks
        BY <1>1, <2>2
      <4>2. /\ b \in Seq(Nicks)
            /\ Len(b) = IF k + 1 <= Len(stored) THEN Len(stored) - (k + 1) + 1 ELSE 0
            /\ \A i \in 1 .. Len(stored) - (k + 1) + 1 : b[i] = stored[(k + 1) + i - 1]
        BY <3>2, <4>1, SubSeqProperties
      <4>3. Len(stored) - (k + 1) + 1 = Len(stored) - k
        BY <1>1, <2>2
      <4>4. Len(b) = Len(stored) - k
        <5>1. CASE k + 1 <= Len(stored)
          BY <4>2, <4>3, <5>1
        <5>2. CASE ~ (k + 1 <= Len(stored))
          <6>1. PICK m \in Nat : m = Len(stored)
            BY <1>1
          <6>2. k \in 1 .. m
            BY <2>2, <6>1
          <6>3. m - k = 0
            BY <5>2, <6>1, <6>2
          <6> QED
            BY <4>2, <5>2, <6>1, <6>3
        <5> QED
          BY <5>1, <5>2
      <4>5. ASSUME NEW i \in 1 .. Len(stored) - k PROVE b[i] = stored[k + i]
        <5>1. b[i] = stored[(k + 1) + i - 1]
          BY <4>2, <4>3
        <5>2. (k + 1) + i - 1 = k + i
          BY <2>2
        <5> QED
          BY <5>1, <5>2
      <4> QED
        BY <4>2, <4>4, <4>5
    <3>5. /\ t \in Seq(Nicks) /\ Len(t) = (k - 1) + (Len(stored) - k)
          /\ \A i \in 1 .. (k - 1) + (Len(stored) - k) : t[i] = IF i <= k - 1 THEN a[i] ELSE b[i - (k - 1)]
      <4>1. t = a \o b
        BY <2>4, <3>1, <3>2
      <4>2. /\ t \in Seq(Nicks) /\ Len(t) = Len(a) + Len(b)
            /\ \A i \in 1 .. Len(a) + Len(b) : t[i] = IF i <= Len(a) THEN a[i] ELSE b[i - Len(a)]
        BY <3>3, <3>4, <4>1, ConcatProperties
      <4> QED
        BY <3>3, <3>4, <4>2
    <3>6. ASSUME NEW i \in 1 .. Len(t) PROVE t[i] = IF i < k THEN stored[i] ELSE stored[i + 1]
      <4>1. CASE i < k
        <5>1. i \in 1 .. k - 1 /\ i <= k - 1
          BY <2>2, <4>1
        <5> QED
          BY <3>3, <3>5, <4>1, <5>1
      <4>2. CASE ~ (i < k)
        <5>1. i - (k - 1) \in 1 .. Len(stored) - k /\ k + (i - (k - 1)) = i + 1 /\ ~ (i <= k - 1)
          BY <1>1, <2>2, <3>5, <4>2
        <5> QED
          BY <3>4, <3>5, <4>2, <5>1
      <4> QED
        BY <4>1, <4>2
    <3> QED
      BY <1>1, <2>2, <3>5, <3>6
  <2>6. \A i, j \in 1 .. Len(t) : t[i] = t[j] => i = j
    BY <1>1, <2>2, <2>5
  <2>7. \A i \in 1 .. Len(t) : t[i] \in Watching!Listed /\ t[i] # n
    BY <1>1, <1>2, <2>2, <2>5
  <2>8. ASSUME NEW m \in Watching!Listed, m # n PROVE \E i \in 1 .. Len(t) : t[i] = m
    <3>1. PICK i \in 1 .. Len(stored) : stored[i] = m
      BY <1>2
    <3>2. CASE i < k
      BY <1>1, <2>2, <2>5, <3>1, <3>2
    <3>3. CASE i > k
      <4>1. i - 1 \in 1 .. Len(t) /\ t[i - 1] = stored[(i - 1) + 1] /\ (i - 1) + 1 = i
        BY <1>1, <2>2, <2>5, <3>3
      <4> QED
        BY <3>1, <4>1
    <3> QED
      BY <2>2, <2>8, <3>1, <3>2, <3>3
  <2>9. Watching!ToSet(t) = {t[i] : i \in 1 .. Len(t)}
    BY <2>5 DEF Watching!ToSet
  <2> QED
    BY <2>3, <2>5, <2>6, <2>7, <2>8, <2>9
<1> QED
  BY <1>3, <1>4

LEMMA Words ==
    /\ \A s, n : Watching!Command(s, n).nick = n /\ Watching!Report(s, n).nick = n
    /\ \A s, n, t, m : Watching!Command(s, n) = Watching!Command(t, m) <=> s = t /\ n = m
    /\ \A s, n, t, m : Watching!Report(s, n) = Watching!Report(t, m) <=> s = t /\ n = m
    /\ \A e \in WatchCommands : e = Watching!Command(e.sign, e.nick) /\ e.nick \in Nicks
    /\ \A e \in WatchReports : e = Watching!Report(e.what, e.nick) /\ e.nick \in Nicks
    /\ \A n \in Nicks : \A s \in {"+", "-"} : Watching!Command(s, n) \in WatchCommands
    /\ \A n \in Nicks : \A s \in {"online", "offline", "full"} : Watching!Report(s, n) \in WatchReports
BY DEF Watching!Command, Watching!Report, WatchCommands, WatchReports

\* The server obeys a command on x.
LEMMA ServerObeys ==
    ASSUME NEW n \in Nicks, NEW c \in Seq(WatchCommands), c # <<>>, NEW v, v = Tail(c),
           NEW r \in Seq(WatchReports), NEW x, x = Head(c).nick,
           NEW ls, NEW ws, NEW cs, NEW xs, NEW p, NEW hs,
           NickFits(n, ls, c, r, ws, cs, xs, p, hs)
    PROVE  /\ Head(c).sign = "-" => NickFits(n, ls, v, r, ws \ {x}, cs, xs, p, hs)
           /\ \A s : Head(c).sign = "+" /\ s = Append(r, Watching!Report(At(x, hs), x)) =>
                 NickFits(n, ls, v, s, ws \cup {x}, cs, xs, p, hs)
           /\ \A s : Head(c).sign = "+" /\ x \notin ws /\ s = Append(r, Watching!Report("full", x)) =>
                 NickFits(n, ls, v, s, ws, cs, xs, p, hs)
<1> DEFINE plus == Watching!Command("+", n)
           minus == Watching!Command("-", n)
           full == Watching!Report("full", n)
           told == Watching!Report(At(n, hs), n)
<1>1. /\ Has(c, plus) <=> Has(v, plus) \/ plus = Head(c)
      /\ Has(c, minus) <=> Has(v, minus) \/ minus = Head(c)
      /\ Silent(c, n) <=> Silent(v, n) /\ x # n
      /\ LastIs(c, plus) <=> LastIs(v, plus) \/ (plus = Head(c) /\ Silent(v, n))
      /\ Once(c, plus) => Once(v, plus) /\ (plus = Head(c) => ~ Has(v, plus))
  <2>1. plus.nick = n
    BY Words
  <2> HIDE DEF plus, minus
  <2>2. /\ \A e : Has(c, e) <=> Has(v, e) \/ e = Head(c)
        /\ \A m : Silent(c, m) <=> Silent(v, m) /\ Head(c).nick # m
        /\ \A e : LastIs(c, e) <=> LastIs(v, e) \/ (e = Head(c) /\ Silent(v, e.nick))
        /\ \A e : Once(c, e) => Once(v, e) /\ (e = Head(c) => ~ Has(v, e))
    BY QueueShrinks
  <2> QED
    BY <2>1, <2>2
<1>2. /\ Head(c) \in WatchCommands /\ Head(c) = Watching!Command(Head(c).sign, x)
      /\ v \in Seq(WatchCommands)
  BY Words
<1>3. ASSUME Head(c).sign = "-"
      PROVE  NickFits(n, ls, v, r, ws \ {x}, cs, xs, p, hs)
  <2>1. plus # Head(c) /\ (minus = Head(c) <=> x = n)
    BY <1>2, <1>3, Words
  <2> HIDE DEF plus, minus, full, told
  <2>2. CASE x = n
    BY <1>1, <2>1, <2>2 DEF NickFits, plus, minus, full, told
  <2>3. CASE x # n
    BY <1>1, <2>1, <2>3 DEF NickFits, plus, minus, full, told
  <2> QED
    BY <2>2, <2>3
<1>4. ASSUME NEW s, Head(c).sign = "+", s = Append(r, Watching!Report(At(x, hs), x))
      PROVE  NickFits(n, ls, v, s, ws \cup {x}, cs, xs, p, hs)
  <2>1. minus # Head(c) /\ (plus = Head(c) <=> x = n)
    BY <1>2, <1>4, Words
  <2>2. /\ Has(s, full) <=> Has(r, full)
        /\ x = n => LastIs(s, told)
        /\ x # n => (Silent(s, n) <=> Silent(r, n)) /\ (LastIs(s, told) <=> LastIs(r, told))
        /\ x # n => (LastIs(s, full) <=> LastIs(r, full))
    <3>0. PICK f : f = Watching!Report(At(x, hs), x)
      OBVIOUS
    <3>1. f # full /\ (x = n => told = f)
      BY <3>0, Words DEF At
    <3> QED
      <4>1. f.nick = x /\ full.nick = n /\ told.nick = n /\ Longer(r, f, s)
        BY <1>4, <3>0, Words DEF Longer
      <4> HIDE DEF full, told
      <4>2. /\ \A e : Has(s, e) <=> Has(r, e) \/ e = f
            /\ \A m : Silent(s, m) <=> Silent(r, m) /\ f.nick # m
            /\ \A e : LastIs(s, e) <=> e = f \/ (LastIs(r, e) /\ f.nick # e.nick)
        BY <4>1, QueueGrows
      <4> QED
        BY <3>1, <4>1, <4>2
  <2>3. CASE x = n
    <3>1. ~ LastIs(v, plus) /\ ~ Silent(v, n) /\ ~ Has(v, plus) => Has(v, minus)
      <4>1. SUFFICES ASSUME ~ Silent(v, n), ~ Has(v, plus) PROVE Has(v, minus)
        OBVIOUS
      <4>2. PICK i \in 1 .. Len(v) : v[i].nick = n
        BY <4>1 DEF Silent
      <4>3. v[i] \in WatchCommands
        BY <1>2
      <4>4. v[i] = plus \/ v[i] = minus
        BY <4>2, <4>3, Words DEF WatchCommands
      <4> QED
        BY <4>1, <4>4 DEF Has
    <3> HIDE DEF plus, minus, full, told
    <3> QED
      BY <1>1, <2>1, <2>2, <2>3, <3>1 DEF NickFits, plus, minus, full, told
  <2>4. CASE x # n
    <3> HIDE DEF plus, minus, full, told
    <3> QED
      BY <1>1, <2>1, <2>2, <2>4 DEF NickFits, plus, minus, full, told
  <2> QED
    BY <2>3, <2>4
<1>5. ASSUME NEW s, Head(c).sign = "+", x \notin ws, s = Append(r, Watching!Report("full", x))
      PROVE  NickFits(n, ls, v, s, ws, cs, xs, p, hs)
  <2>1. minus # Head(c) /\ (plus = Head(c) <=> x = n)
    BY <1>2, <1>5, Words
  <2>2. /\ x = n => LastIs(s, full)
        /\ x # n => (Silent(s, n) <=> Silent(r, n)) /\ (LastIs(s, told) <=> LastIs(r, told))
        /\ x # n => (LastIs(s, full) <=> LastIs(r, full)) /\ (Has(s, full) <=> Has(r, full))
    <3>0. PICK f : f = Watching!Report("full", x)
      OBVIOUS
    <3>1. x = n <=> full = f
      BY <3>0, Words
    <3> QED
      <4>1. f.nick = x /\ full.nick = n /\ told.nick = n /\ Longer(r, f, s)
        BY <1>5, <3>0, Words DEF Longer
      <4> HIDE DEF full, told
      <4>2. /\ \A e : Has(s, e) <=> Has(r, e) \/ e = f
            /\ \A m : Silent(s, m) <=> Silent(r, m) /\ f.nick # m
            /\ \A e : LastIs(s, e) <=> e = f \/ (LastIs(r, e) /\ f.nick # e.nick)
        BY <4>1, QueueGrows
      <4> QED
        BY <3>1, <4>1, <4>2
  <2> HIDE DEF plus, minus, full, told
  <2>3. CASE x = n
    BY <1>1, <1>5, <2>1, <2>2, <2>3 DEF NickFits, plus, minus, full, told
  <2>4. CASE x # n
    BY <1>1, <2>1, <2>2, <2>4 DEF NickFits, plus, minus, full, told
  <2> QED
    BY <2>3, <2>4
<1> QED
  BY <1>3, <1>4, <1>5

\* What an appended f says of the nick of e.
LEMMA SaysOne ==
    ASSUME NEW q, NEW f, NEW v, Longer(q, f, v), NEW e, NEW n, e.nick = n
    PROVE  /\ Has(v, e) <=> Has(q, e) \/ e = f
           /\ Silent(v, n) <=> Silent(q, n) /\ f.nick # n
           /\ LastIs(v, e) <=> e = f \/ (LastIs(q, e) /\ f.nick # n)
           /\ Once(q, e) /\ (e = f => ~ Has(q, e)) => Once(v, e)
BY QueueGrows

\* What is left of q once its first is read, of the nick of e.
LEMMA ReadsOne ==
    ASSUME NEW T, NEW q \in Seq(T), q # <<>>, NEW v, v = Tail(q), NEW e, NEW n, e.nick = n
    PROVE  /\ Has(q, e) <=> Has(v, e) \/ e = Head(q)
           /\ Silent(q, n) <=> Silent(v, n) /\ Head(q).nick # n
           /\ LastIs(q, e) <=> LastIs(v, e) \/ (e = Head(q) /\ Silent(v, n))
BY QueueShrinks

\* x, who is watched, comes or goes, and js are online then.
LEMMA SomebodyMoves ==
    ASSUME NEW n \in Nicks, NEW c, NEW r \in Seq(WatchReports), NEW x,
           NEW ls, NEW ws, NEW cs, NEW xs, NEW p, NEW hs, NEW js,
           \A m : m # x => (m \in hs <=> m \in js),
           NickFits(n, ls, c, r, ws, cs, xs, p, hs)
    PROVE  /\ x \notin ws => NickFits(n, ls, c, r, ws, cs, xs, p, js)
           /\ \A s : x \in ws /\ s = Append(r, Watching!Report(At(x, js), x)) =>
                 NickFits(n, ls, c, s, ws, cs, xs, p, js)
<1>1. n # x => At(n, hs) = At(n, js)
  BY DEF At
<1>2. x \notin ws => NickFits(n, ls, c, r, ws, cs, xs, p, js)
  <2>1. CASE n = x
    BY <2>1 DEF NickFits
  <2>2. CASE n # x
    BY <1>1, <2>2 DEF NickFits
  <2> QED
    BY <2>1, <2>2
<1>3. ASSUME NEW s, x \in ws, s = Append(r, Watching!Report(At(x, js), x))
      PROVE  NickFits(n, ls, c, s, ws, cs, xs, p, js)
  <2>1. PICK f : f = Watching!Report(At(x, js), x)
    OBVIOUS
  <2>2. PICK full : full = Watching!Report("full", n)
    OBVIOUS
  <2>3. PICK told : told = Watching!Report(At(n, js), n)
    OBVIOUS
  <2>4. /\ f.nick = x /\ full.nick = n /\ told.nick = n /\ f # full
        /\ (x = n => told = f) /\ Longer(r, f, s)
    BY <1>3, <2>1, <2>2, <2>3, Words DEF At, Longer
  <2>5. /\ Has(s, full) <=> Has(r, full)
        /\ LastIs(s, full) <=> LastIs(r, full) /\ x # n
        /\ Silent(s, n) <=> Silent(r, n) /\ x # n
        /\ x # n => (LastIs(s, told) <=> LastIs(r, told))
        /\ x = n => LastIs(s, told)
    <3>1. /\ Has(s, full) <=> Has(r, full) \/ full = f
          /\ LastIs(s, full) <=> full = f \/ (LastIs(r, full) /\ f.nick # n)
          /\ Silent(s, n) <=> Silent(r, n) /\ f.nick # n
      BY <2>4, SaysOne
    <3>2. LastIs(s, told) <=> told = f \/ (LastIs(r, told) /\ f.nick # n)
      BY <2>4, SaysOne
    <3> QED
      BY <2>4, <3>1, <3>2
  <2>6. CASE n = x
    BY <1>3, <2>2, <2>3, <2>5, <2>6 DEF NickFits
  <2>7. CASE n # x
    BY <1>1, <2>2, <2>3, <2>5, <2>7 DEF NickFits
  <2> QED
    BY <2>6, <2>7
<1> QED
  BY <1>2, <1>3

\* A 730 or 731 is read.
LEMMA PresenceIsRead ==
    ASSUME NEW n \in Nicks, NEW c, NEW r \in Seq(WatchReports), r # <<>>, NEW s, s = Tail(r),
           NEW x, x = Head(r).nick, NEW what \in {"online", "offline"}, Head(r).what = what,
           NEW ls, NEW ws, NEW cs, NEW xs, NEW p \in [Nicks -> Watching!States], NEW hs,
           NEW z, z = IF x \in ls THEN [p EXCEPT ![x] = what] ELSE p,
           NickFits(n, ls, c, r, ws, cs, xs, p, hs)
    PROVE  NickFits(n, ls, c, s, ws, cs, xs, z, hs)
<1>2. PICK full : full = Watching!Report("full", n)
  OBVIOUS
<1>3. PICK told : told = Watching!Report(At(n, hs), n)
  OBVIOUS
<1>4. Head(r) \in WatchReports /\ Head(r) = Watching!Report(what, x) /\ x \in Nicks
  BY Words
<1>5. /\ full.nick = n /\ told.nick = n /\ full # Head(r)
      /\ told = Head(r) => x = n /\ what = At(n, hs)
  BY <1>2, <1>3, <1>4, Words
<1>6. /\ Has(r, full) <=> Has(s, full)
      /\ LastIs(r, full) <=> LastIs(s, full)
      /\ Silent(r, n) <=> Silent(s, n) /\ x # n
      /\ LastIs(r, told) <=> LastIs(s, told) \/ (told = Head(r) /\ Silent(s, n))
  <2>1. /\ Has(r, full) <=> Has(s, full) \/ full = Head(r)
        /\ LastIs(r, full) <=> LastIs(s, full) \/ (full = Head(r) /\ Silent(s, n))
        /\ Silent(r, n) <=> Silent(s, n) /\ Head(r).nick # n
    BY <1>5, ReadsOne
  <2>2. LastIs(r, told) <=> LastIs(s, told) \/ (told = Head(r) /\ Silent(s, n))
    BY <1>5, ReadsOne
  <2> QED
    BY <1>5, <2>1, <2>2
<1>7. (x # n => z[n] = p[n]) /\ (x = n /\ n \in ls => z[n] = what)
  BY <1>4
<1>8. CASE n = x
  BY <1>2, <1>3, <1>5, <1>6, <1>7, <1>8 DEF NickFits
<1>9. CASE n # x
  BY <1>2, <1>3, <1>5, <1>6, <1>7, <1>9 DEF NickFits
<1> QED
  BY <1>8, <1>9

\* A 734 is read.
LEMMA RefusalIsRead ==
    ASSUME NEW n \in Nicks, NEW c \in Seq(WatchCommands), NEW r \in Seq(WatchReports), r # <<>>,
           NEW s, s = Tail(r), NEW x, x = Head(r).nick, Head(r).what = "full",
           NEW ls, NEW ws, NEW cs, NEW xs, NEW p \in [Nicks -> Watching!States], NEW hs,
           NickFits(n, ls, c, r, ws, cs, xs, p, hs)
    PROVE  NickFits(n, ls \ {x}, c, s, ws, cs, xs, [p EXCEPT ![x] = "unknown"], hs)
<1>1. PICK plus : plus = Watching!Command("+", n)
  OBVIOUS
<1>2. PICK full : full = Watching!Report("full", n)
  OBVIOUS
<1>3. PICK told : told = Watching!Report(At(n, hs), n)
  OBVIOUS
<1>4. Head(r) \in WatchReports /\ Head(r) = Watching!Report("full", x) /\ x \in Nicks
  BY Words
<1>5. full.nick = n /\ told.nick = n /\ told # Head(r) /\ (full = Head(r) <=> x = n)
  BY <1>2, <1>3, <1>4, Words DEF At
<1>6. /\ Has(r, full) <=> Has(s, full) \/ x = n
      /\ LastIs(r, full) <=> LastIs(s, full) \/ (x = n /\ Silent(s, n))
      /\ Silent(r, n) <=> Silent(s, n) /\ x # n
      /\ LastIs(r, told) <=> LastIs(s, told)
  <2>1. /\ Has(r, full) <=> Has(s, full) \/ full = Head(r)
        /\ LastIs(r, full) <=> LastIs(s, full) \/ (full = Head(r) /\ Silent(s, n))
        /\ Silent(r, n) <=> Silent(s, n) /\ Head(r).nick # n
    BY <1>5, ReadsOne
  <2>2. LastIs(r, told) <=> LastIs(s, told) \/ (told = Head(r) /\ Silent(s, n))
    BY <1>5, ReadsOne
  <2> QED
    BY <1>5, <2>1, <2>2
<1>7. LastIs(c, plus) => Has(c, plus)
  BY DEF LastIs, Has
<1>8. CASE n = x
  BY <1>1, <1>2, <1>3, <1>6, <1>7, <1>8 DEF NickFits
<1>9. CASE n # x
  <2>1. PICK z : z = [p EXCEPT ![x] = "unknown"]
    OBVIOUS
  <2>2. z[n] = p[n]
    BY <1>9, <2>1
  <2>3. n \in ls \ {x} <=> n \in ls
    BY <1>9
  <2>4. NickFits(n, ls \ {x}, c, s, ws, cs, xs, z, hs)
    BY <1>1, <1>2, <1>3, <1>6, <1>9, <2>2, <2>3 DEF NickFits
  <2> QED
    BY <2>1, <2>4
<1> QED
  BY <1>8, <1>9

\* /monitor x.
LEMMA NickIsAdded ==
    ASSUME NEW n \in Nicks, NEW c \in Seq(WatchCommands), NEW r, NEW x, NEW ls, x \notin ls,
           NEW d, d = Append(c, Watching!Command("+", x)),
           NEW ws, NEW cs, NEW xs, NEW p, NEW hs, NEW ys,
           ys = IF Has(c, Watching!Command("+", x)) \/ Has(r, Watching!Report("full", x))
                THEN xs \cup {x} ELSE xs,
           NickFits(n, ls, c, r, ws, cs, xs, p, hs)
    PROVE  NickFits(n, ls \cup {x}, d, r, ws, cs, ys, p, hs)
<1>1. PICK plus : plus = Watching!Command("+", n)
  OBVIOUS
<1>2. PICK minus : minus = Watching!Command("-", n)
  OBVIOUS
<1>3. PICK f : f = Watching!Command("+", x)
  OBVIOUS
<1>4. /\ f.nick = x /\ plus.nick = n /\ minus.nick = n /\ f # minus /\ (f = plus <=> x = n)
      /\ Longer(c, f, d)
  BY <1>1, <1>2, <1>3, Words DEF Longer
<1>5. /\ Has(d, plus) <=> Has(c, plus) \/ x = n
      /\ LastIs(d, plus) <=> x = n \/ LastIs(c, plus)
      /\ Silent(d, n) <=> Silent(c, n) /\ x # n
      /\ Once(c, plus) /\ (x = n => ~ Has(c, plus)) => Once(d, plus)
      /\ Has(d, minus) <=> Has(c, minus)
  <2>1. /\ Has(d, plus) <=> Has(c, plus) \/ plus = f
        /\ LastIs(d, plus) <=> plus = f \/ (LastIs(c, plus) /\ f.nick # n)
        /\ Silent(d, n) <=> Silent(c, n) /\ f.nick # n
        /\ Once(c, plus) /\ (plus = f => ~ Has(c, plus)) => Once(d, plus)
    BY <1>4, SaysOne
  <2>2. Has(d, minus) <=> Has(c, minus) \/ minus = f
    BY <1>4, SaysOne
  <2> QED
    BY <1>4, <2>1, <2>2
<1>6. CASE n = x
  BY <1>1, <1>2, <1>5, <1>6 DEF NickFits
<1>7. CASE n # x
  <2>1. (n \in ls \cup {x} <=> n \in ls) /\ (n \in ys <=> n \in xs)
    BY <1>7
  <2> QED
    BY <1>1, <1>2, <1>5, <1>7, <2>1 DEF NickFits
<1> QED
  BY <1>6, <1>7

\* /unmonitor x.
LEMMA NickIsRemoved ==
    ASSUME NEW n \in Nicks, NEW c \in Seq(WatchCommands), NEW r, NEW x \in Nicks, NEW ls,
           NEW d, d = Append(c, Watching!Command("-", x)),
           NEW ws, NEW cs, NEW xs, NEW p \in [Nicks -> Watching!States], NEW hs,
           NickFits(n, ls, c, r, ws, cs, xs, p, hs)
    PROVE  NickFits(n, ls \ {x}, d, r, ws, cs \ {x}, xs, [p EXCEPT ![x] = "unknown"], hs)
<1>1. PICK plus : plus = Watching!Command("+", n)
  OBVIOUS
<1>2. PICK minus : minus = Watching!Command("-", n)
  OBVIOUS
<1>3. PICK f : f = Watching!Command("-", x)
  OBVIOUS
<1>4. /\ f.nick = x /\ plus.nick = n /\ minus.nick = n /\ f # plus /\ (f = minus <=> x = n)
      /\ Longer(c, f, d)
  BY <1>1, <1>2, <1>3, Words DEF Longer
<1>5. /\ Has(d, plus) <=> Has(c, plus)
      /\ LastIs(d, plus) <=> LastIs(c, plus) /\ x # n
      /\ Silent(d, n) <=> Silent(c, n) /\ x # n
      /\ Once(c, plus) => Once(d, plus)
      /\ Has(d, minus) <=> Has(c, minus) \/ x = n
  <2>1. /\ Has(d, plus) <=> Has(c, plus) \/ plus = f
        /\ LastIs(d, plus) <=> plus = f \/ (LastIs(c, plus) /\ f.nick # n)
        /\ Silent(d, n) <=> Silent(c, n) /\ f.nick # n
        /\ Once(c, plus) /\ (plus = f => ~ Has(c, plus)) => Once(d, plus)
    BY <1>4, SaysOne
  <2>2. Has(d, minus) <=> Has(c, minus) \/ minus = f
    BY <1>4, SaysOne
  <2> QED
    BY <1>4, <2>1, <2>2
<1>6. CASE n = x
  BY <1>1, <1>2, <1>5, <1>6 DEF NickFits
<1>7. CASE n # x
  <2>1. PICK z : z = [p EXCEPT ![x] = "unknown"]
    OBVIOUS
  <2>2. z[n] = p[n]
    BY <1>7, <2>1
  <2>3. (n \in ls \ {x} <=> n \in ls) /\ (n \in cs \ {x} <=> n \in cs)
    BY <1>7
  <2>4. NickFits(n, ls \ {x}, d, r, ws, cs \ {x}, xs, z, hs)
    BY <1>1, <1>2, <1>5, <1>7, <2>2, <2>3 DEF NickFits
  <2> QED
    BY <2>1, <2>4
<1> QED
  BY <1>6, <1>7

\* The stored list is sent, its first k nicks: nothing but removals of others is on its way.
LEMMA ListIsSent ==
    ASSUME NEW n \in Nicks, NEW c \in Seq(WatchCommands), NEW t \in Seq(Nicks),
           \A i, j \in 1 .. Len(t) : t[i] = t[j] => i = j,
           NEW ls, ls = {t[i] : i \in 1 .. Len(t)},
           \A i \in 1 .. Len(c) : c[i].sign = "-" /\ c[i].nick \notin ls,
           NEW k \in 0 .. Len(t), NEW d, Len(d) = Len(c) + k,
           \A i \in 1 .. Len(c) : d[i] = c[i],
           \A i \in 1 .. k : d[Len(c) + i] = Watching!Command("+", t[i]),
           NEW cs, cs = ls \ {t[i] : i \in 1 .. k}, NEW p, NEW hs
    PROVE  NickFits(n, ls, d, <<>>, {}, cs, {}, p, hs)
<1>1. PICK plus : plus = Watching!Command("+", n)
  OBVIOUS
<1>2. plus.nick = n /\ \A m : plus = Watching!Command("+", m) <=> m = n
  BY <1>1, Words
<1>3. \A i \in 1 .. Len(c) : c[i] # plus
  BY <1>1 DEF Watching!Command
<1>4. /\ Len(c) \in Nat /\ Len(t) \in Nat /\ k \in Nat
      /\ \A i \in 1 .. Len(d) : i \in 1 .. Len(c) \/ i - Len(c) \in 1 .. k
      /\ \A i \in 1 .. k : i \in 1 .. Len(t) /\ Len(c) + i \in 1 .. Len(d)
  OBVIOUS
<1>5. ASSUME NEW i \in 1 .. Len(d), i - Len(c) \in 1 .. k
      PROVE  d[i] = Watching!Command("+", t[i - Len(c)]) /\ d[i].nick = t[i - Len(c)]
  <2>1. Len(c) + (i - Len(c)) = i
    BY <1>4
  <2> QED
    BY <1>5, <2>1, Words
<1>6. ~ Has(<<>>, Watching!Report("full", n))
  BY DEF Has
<1>7. Once(d, plus)
  <2>1. ASSUME NEW i \in 1 .. Len(d), NEW j \in 1 .. Len(d), d[i] = plus, d[j] = plus
        PROVE  i = j
    <3>1. i - Len(c) \in 1 .. k /\ j - Len(c) \in 1 .. k
      BY <1>3, <1>4, <2>1
    <3>2. t[i - Len(c)] = n /\ t[j - Len(c)] = n
      BY <1>2, <1>5, <2>1, <3>1
    <3>3. i - Len(c) = j - Len(c)
      BY <1>4, <3>1, <3>2
    <3> QED
      BY <1>4, <3>3
  <2> QED
    BY <2>1 DEF Once
<1>8. CASE \E i \in 1 .. k : t[i] = n
  <2>1. PICK i \in 1 .. k : t[i] = n
    BY <1>8
  <2>2. d[Len(c) + i] = plus /\ Len(c) + i \in 1 .. Len(d)
    BY <1>1, <1>4, <2>1
  <2>3. ASSUME NEW j \in (Len(c) + i) + 1 .. Len(d) PROVE d[j].nick # n
    <3>1. j \in 1 .. Len(d) /\ j - Len(c) \in 1 .. k /\ j - Len(c) # i
      BY <1>4, <2>3
    <3>2. t[j - Len(c)] # n
      BY <1>4, <2>1, <3>1
    <3> QED
      BY <1>5, <3>1, <3>2
  <2>4. LastIs(d, plus)
    BY <1>2, <2>2, <2>3 DEF LastIs
  <2>5. n \in ls /\ n \notin cs
    BY <1>4, <2>1
  <2> QED
    BY <1>1, <1>6, <1>7, <2>4, <2>5 DEF NickFits
<1>9. CASE ~ (\E i \in 1 .. k : t[i] = n)
  <2>1. \A i \in 1 .. Len(d) : d[i] # plus
    BY <1>2, <1>3, <1>4, <1>5, <1>9
  <2>2. ~ LastIs(d, plus)
    BY <2>1 DEF LastIs
  <2>3. n \in ls => n \in cs /\ Silent(d, n)
    <3>1. ASSUME n \in ls, NEW i \in 1 .. Len(d) PROVE d[i].nick # n
      <4>1. CASE i \in 1 .. Len(c)
        BY <3>1, <4>1
      <4>2. CASE i - Len(c) \in 1 .. k
        BY <1>5, <1>9, <4>2
      <4> QED
        BY <1>4, <4>1, <4>2
    <3> QED
      BY <1>9, <3>1 DEF Silent
  <2>4. n \in cs => n \in ls
    OBVIOUS
  <2> QED
    BY <1>1, <1>6, <1>7, <2>2, <2>3, <2>4 DEF NickFits
<1> QED
  BY <1>8, <1>9

LEMMA IssuesOne ==
    ASSUME WatchTypes, NEW sign \in {"+", "-"}, NEW n \in Nicks, Watching!Issue(sign, <<n>>)
    PROVE  /\ commands' = Append(commands, Watching!Command(sign, n))
           /\ commands' \in Seq(WatchCommands)
<1>1. PICK f : f = Watching!Command(sign, n)
  OBVIOUS
<1>2. f \in WatchCommands /\ commands \in Seq(WatchCommands)
  BY <1>1, Words DEF WatchTypes
<1>3. [i \in DOMAIN <<n>> |-> Watching!Command(sign, <<n>>[i])] = <<f>>
  BY <1>1
<1>4. commands' = commands \o <<f>>
  BY <1>3 DEF Watching!Issue
<1>5. commands \o <<f>> = Append(commands, f) /\ Append(commands, f) \in Seq(WatchCommands)
  BY <1>2
<1> QED
  BY <1>1, <1>4, <1>5

LEMMA WatchStarts == Watching!Init => WatchInv
<1> SUFFICES ASSUME Watching!Init PROVE WatchInv
  OBVIOUS
<1>1. WatchTypes
  BY DEF WatchTypes, Watching!Init, Watching!Unknown, Watching!States
<1>2. Unwelcome
  BY DEF Unwelcome, Watching!Init
<1> QED
  BY <1>1, <1>2 DEF WatchInv

\* Nothing is read from a connection that is not there, and nothing sent to it.
LEMMA SomeConnection ==
    ASSUME WatchInv
    PROVE  /\ commands # <<>> \/ (reports # <<>> /\ Head(reports).what \notin {"001", "005"})
                 => Greeted \/ Watches
           /\ watched # {} => Watches
<1>1. ASSUME reports = <<Watching!Report("001", Watching!Nobody),
                         Watching!Report("005", Watching!Nobody)>>
      PROVE  Head(reports).what = "001"
  BY <1>1 DEF Watching!Report
<1> QED
  BY <1>1 DEF WatchInv, Unwelcome, Greeted, Watches

LEMMA GreetedReads ==
    ASSUME Greeted
    PROVE  reports # <<>> /\ Head(reports).what = "005" /\ Tail(reports) = <<>>
<1>1. PICK f : f = Watching!Report("005", Watching!Nobody)
  OBVIOUS
<1>2. f.what = "005" /\ reports = <<f>>
  BY <1>1 DEF Greeted, Watching!Report
<1> QED
  BY <1>2

LEMMA UnwelcomeReads ==
    ASSUME Unwelcome, reports # <<>>
    PROVE  /\ Head(reports).what = "001" /\ cut = {} /\ crossed = {}
           /\ Tail(reports) = <<Watching!Report("005", Watching!Nobody)>>
<1>1. PICK f : f = Watching!Report("001", Watching!Nobody)
  OBVIOUS
<1>2. PICK g : g = Watching!Report("005", Watching!Nobody)
  OBVIOUS
<1>3. f.what = "001"
  BY <1>1 DEF Watching!Report
<1>4. reports = <<f, g>> /\ cut = {} /\ crossed = {}
  BY <1>1, <1>2 DEF Unwelcome
<1>5. Head(<<f, g>>) = f /\ Tail(<<f, g>>) = <<g>>
  OBVIOUS
<1> QED
  BY <1>2, <1>3, <1>4, <1>5

LEMMA WatchesReads ==
    ASSUME Watches, reports # <<>>
    PROVE  /\ Head(reports) \in WatchReports /\ Head(reports).nick \in Nicks
           /\ Head(reports).what \in {"online", "offline", "full"}
           /\ Tail(reports) \in Seq(WatchReports)
<1>1. Head(reports) \in WatchReports /\ Tail(reports) \in Seq(WatchReports)
  BY DEF Watches
<1> QED
  BY <1>1 DEF WatchReports

\* A step that changes neither the state of the connection nor the list: what is left is that
\* each nick fits.
LEMMA StaysWatched ==
    ASSUME Watches, UNCHANGED <<welcomed, subscribed>>, reports' \in Seq(WatchReports),
           \A n \in Nicks : NickFits(n, Watching!Listed', commands', reports', watched', cut',
                                     crossed', presence', here')
    PROVE  Watches'
BY DEF Watches

LEMMA ListedIs ==
    ASSUME WatchTypes
    PROVE  /\ Watching!Listed = {stored[i] : i \in 1 .. Len(stored)}
           /\ stored \in Seq(Nicks) /\ Len(stored) \in Nat /\ Watching!Listed \subseteq Nicks
<1>1. stored \in Seq(Nicks) /\ Len(stored) \in Nat /\ DOMAIN stored = 1 .. Len(stored)
  BY DEF WatchTypes
<1>2. Watching!Listed = {stored[i] : i \in 1 .. Len(stored)}
  BY <1>1 DEF Watching!Listed, Watching!ToSet
<1> QED
  BY <1>1, <1>2

LEMMA DueIs ==
    ASSUME WatchTypes, Watches, NEW n
    PROVE  Watching!AnswerIsDue(n) <=> \/ Has(commands, Watching!Command("+", n))
                                       \/ Has(reports, Watching!Report("full", n))
<1>1. DOMAIN commands = 1 .. Len(commands) /\ DOMAIN reports = 1 .. Len(reports)
  BY DEF WatchTypes, Watches
<1> QED
  BY <1>1 DEF Watching!AnswerIsDue, Has

\* add_monitored.
LEMMA AddMonitoredFits ==
    ASSUME WatchInv, NEW x \in Nicks, Watching!AddMonitored(x)
    PROVE  WatchInv'
<1>1. WatchTypes
  BY DEF WatchInv
<1>2. Watches
  BY DEF WatchInv, Unwelcome, Greeted, Watching!AddMonitored
<1>3. /\ x \notin Watching!Listed /\ stored' = Append(stored, x)
      /\ commands' = Append(commands, Watching!Command("+", x))
      /\ commands' \in Seq(WatchCommands)
      /\ UNCHANGED <<subscribed, presence, welcomed, reports, watched, capacity, here, cut>>
  BY <1>1, IssuesOne DEF Watching!AddMonitored
<1>4. crossed' = IF Has(commands, Watching!Command("+", x)) \/ Has(reports, Watching!Report("full", x))
                 THEN crossed \cup {x} ELSE crossed
  BY <1>1, <1>2, DueIs DEF Watching!AddMonitored
<1>5. /\ stored' \in Seq(Nicks) /\ Len(stored') = Len(stored) + 1 /\ stored'[Len(stored) + 1] = x
      /\ \A i \in 1 .. Len(stored) : stored'[i] = stored[i]
  BY <1>1, <1>3, ListedIs
<1>6. \A i, j \in 1 .. Len(stored') : stored'[i] = stored'[j] => i = j
  <2>1. ASSUME NEW i \in 1 .. Len(stored'), NEW j \in 1 .. Len(stored'), stored'[i] = stored'[j]
        PROVE  i = j
    <3>1. \A m \in 1 .. Len(stored) : stored[m] # x
      BY <1>1, <1>3, ListedIs
    <3>2. /\ i \in 1 .. Len(stored) \/ i = Len(stored) + 1
          /\ j \in 1 .. Len(stored) \/ j = Len(stored) + 1
      BY <1>1, <1>5, ListedIs
    <3> QED
      BY <1>1, <1>5, <2>1, <3>1, <3>2 DEF WatchTypes
  <2> QED
    BY <2>1
<1>7. WatchTypes'
  BY <1>1, <1>3, <1>4, <1>5, <1>6 DEF WatchTypes
<1>8. Watching!Listed' = Watching!Listed \cup {x}
  <2>1. Watching!Listed' = {stored'[i] : i \in 1 .. Len(stored')}
    BY <1>5 DEF Watching!Listed, Watching!ToSet
  <2>2. Len(stored) \in Nat
    BY <1>1, ListedIs
  <2> QED
    BY <1>1, <1>5, <2>1, <2>2, ListedIs
<1>9. ASSUME NEW n \in Nicks
      PROVE  NickFits(n, Watching!Listed', commands', reports', watched', cut', crossed', presence',
                      here')
  <2>1. NickFits(n, Watching!Listed, commands, reports, watched, cut, crossed, presence, here)
    BY <1>2 DEF Watches
  <2>2. commands \in Seq(WatchCommands)
    BY <1>1 DEF WatchTypes
  <2>3. NickFits(n, Watching!Listed \cup {x}, commands', reports, watched, cut, crossed', presence,
                 here)
    BY <1>3, <1>4, <2>1, <2>2, NickIsAdded
  <2> QED
    BY <1>3, <1>8, <2>3
<1>10. Watches'
  BY <1>2, <1>3, <1>9, StaysWatched DEF Watches
<1> QED
  BY <1>7, <1>10 DEF WatchInv

\* remove_monitored.
LEMMA RemoveMonitoredFits ==
    ASSUME WatchInv, NEW x \in Nicks, Watching!RemoveMonitored(x)
    PROVE  WatchInv'
<1>1. WatchTypes /\ commands \in Seq(WatchCommands) /\ presence \in [Nicks -> Watching!States]
  BY DEF WatchInv, WatchTypes
<1>2. /\ welcomed /\ stored' = Watching!Without(x) /\ presence' = [presence EXCEPT ![x] = "unknown"]
      /\ commands' = Append(commands, Watching!Command("-", x))
      /\ commands' \in Seq(WatchCommands) /\ cut' = cut \ {x}
      /\ UNCHANGED <<subscribed, limit, welcomed, reports, watched, capacity, here, crossed>>
  BY <1>1, IssuesOne DEF Watching!RemoveMonitored, Watching!Forgotten
<1>3. Watching!Listed' = Watching!Listed \ {x}
  BY <1>1, <1>2, WithoutFacts DEF Watching!Listed
<1>4. WatchTypes'
  <2>1. presence' \in [Nicks -> Watching!States]
    BY <1>1, <1>2 DEF Watching!States
  <2>2. /\ stored' \in Seq(Nicks)
        /\ \A i, j \in 1 .. Len(stored') : stored'[i] = stored'[j] => i = j
    BY <1>1, <1>2, WithoutFacts
  <2> QED
    BY <1>1, <1>2, <2>1, <2>2 DEF WatchTypes
<1>5. CASE Watches
  <2>1. ASSUME NEW n \in Nicks
        PROVE  NickFits(n, Watching!Listed', commands', reports', watched', cut', crossed', presence',
                        here')
    <3>1. NickFits(n, Watching!Listed, commands, reports, watched, cut, crossed, presence, here)
      BY <1>5 DEF Watches
    <3>2. NickFits(n, Watching!Listed \ {x}, commands', reports, watched, cut \ {x}, crossed,
                   [presence EXCEPT ![x] = "unknown"], here)
      BY <1>1, <1>2, <3>1, NickIsRemoved
    <3> QED
      BY <1>2, <1>3, <3>2
  <2> QED
    BY <1>2, <1>4, <1>5, <2>1, StaysWatched DEF WatchInv, Watches
<1>6. CASE Greeted
  <2>1. PICK f : f = Watching!Command("-", x)
    OBVIOUS
  <2>2. f.sign = "-" /\ f.nick = x
    BY <2>1 DEF Watching!Command
  <2>3. /\ Len(commands) \in Nat /\ Len(commands') = Len(commands) + 1
        /\ commands'[Len(commands) + 1] = f
        /\ \A i \in 1 .. Len(commands) : commands'[i] = commands[i]
    BY <1>1, <1>2, <2>1
  <2>4. ASSUME NEW i \in 1 .. Len(commands')
        PROVE  commands'[i].sign = "-" /\ commands'[i].nick \notin Watching!Listed'
    <3>1. CASE i = Len(commands) + 1
      BY <1>3, <2>2, <2>3, <3>1
    <3>2. CASE i \in 1 .. Len(commands)
      BY <1>3, <1>6, <2>3, <3>2 DEF Greeted
    <3> QED
      BY <2>3, <3>1, <3>2
  <2>5. cut' = {}
    BY <1>2, <1>6 DEF Greeted
  <2>6. Greeted'
    BY <1>2, <1>6, <2>4, <2>5 DEF Greeted
  <2> QED
    BY <1>4, <2>6 DEF WatchInv
<1> QED
  BY <1>2, <1>5, <1>6 DEF WatchInv, Unwelcome

\* 001.
LEMMA WelcomeFits ==
    ASSUME WatchInv, Watching!Welcome
    PROVE  WatchInv'
<1>1. /\ reports # <<>> /\ Head(reports).what = "001" /\ reports' = Tail(reports)
      /\ welcomed' /\ limit' = Watching!NotAdvertised /\ ~ subscribed'
      /\ presence' = Watching!Unknown
      /\ UNCHANGED <<stored, commands, watched, capacity, here, cut, crossed>>
  BY DEF Watching!Welcome, Watching!Receives, Watching!SubscriptionForgotten
<1>2. Unwelcome
  BY <1>1, GreetedReads, WatchesReads DEF WatchInv
<1>3. /\ cut' = {} /\ crossed' = {} /\ commands' = <<>> /\ watched' = {}
      /\ reports' = <<Watching!Report("005", Watching!Nobody)>>
  BY <1>1, <1>2, UnwelcomeReads DEF Unwelcome
<1>4. WatchTypes'
  <2>1. presence' \in [Nicks -> Watching!States]
    BY <1>1 DEF Watching!Unknown, Watching!States
  <2> QED
    BY <1>1, <2>1 DEF WatchInv, WatchTypes
<1>5. Greeted'
  <2>1. ~ \E i \in 1 .. Len(commands') : TRUE
    BY <1>3
  <2> QED
    BY <1>1, <1>3, <2>1 DEF Greeted
<1> QED
  BY <1>4, <1>5 DEF WatchInv

\* apply_isupport and monitor_subscribe.
LEMMA IsupportFits ==
    ASSUME WatchInv, Watching!Isupport
    PROVE  WatchInv'
<1>1. /\ reports # <<>> /\ Head(reports).what = "005" /\ reports' = Tail(reports)
      /\ UNCHANGED <<stored, welcomed, watched, capacity, here, crossed>>
  BY DEF Watching!Isupport, Watching!Receives
<1>2. Greeted
  BY <1>1, UnwelcomeReads, WatchesReads DEF WatchInv
<1>3. /\ WatchTypes /\ stored \in Seq(Nicks) /\ Len(stored) \in Nat /\ capacity \in Nat
      /\ commands \in Seq(WatchCommands)
      /\ \A i, j \in 1 .. Len(stored) : stored[i] = stored[j] => i = j
  <2>1. WatchTypes
    BY DEF WatchInv
  <2>2. capacity \in Limits /\ commands \in Seq(WatchCommands)
        /\ \A i, j \in 1 .. Len(stored) : stored[i] = stored[j] => i = j
    BY <2>1 DEF WatchTypes
  <2> QED
    BY <2>1, <2>2, WatchLimits, ListedIs
<1>4. PICK k : k = IF Len(stored) < capacity THEN Len(stored) ELSE capacity
  OBVIOUS
<1>5. k \in 0 .. Len(stored)
  BY <1>3, <1>4
<1>6. PICK nicks : nicks = SubSeq(stored, 1, k)
  OBVIOUS
<1>7. /\ subscribed' /\ presence' = Watching!Unknown /\ Watching!Issue("+", nicks)
      /\ cut' = Watching!Listed \ Watching!ToSet(nicks)
  BY <1>2, <1>4, <1>6 DEF Watching!Isupport, Greeted
<1>8. /\ nicks \in Seq(Nicks) /\ Len(nicks) = k /\ DOMAIN nicks = 1 .. k
      /\ \A i \in 1 .. k : nicks[i] = stored[i]
  BY <1>3, <1>5, <1>6
<1>9. PICK g : g = [i \in 1 .. k |-> Watching!Command("+", nicks[i])]
  OBVIOUS
<1>10. g \in Seq(WatchCommands) /\ Len(g) = k /\ \A i \in 1 .. k : g[i] = Watching!Command("+", stored[i])
  <2>1. \A i \in 1 .. k : Watching!Command("+", nicks[i]) \in WatchCommands
    BY <1>8, Words
  <2>2. g \in [1 .. k -> WatchCommands] /\ k \in Nat
    BY <1>5, <1>9, <2>1
  <2>3. g \in Seq(WatchCommands) /\ Len(g) = k
    BY <2>2
  <2> QED
    BY <1>8, <1>9, <2>3
<1>11. commands' = commands \o g
  BY <1>7, <1>8, <1>9 DEF Watching!Issue
<1>12. /\ commands' \in Seq(WatchCommands) /\ Len(commands') = Len(commands) + k
       /\ \A i \in 1 .. Len(commands) : commands'[i] = commands[i]
       /\ \A i \in 1 .. k : commands'[Len(commands) + i] = Watching!Command("+", stored[i])
  <2>1. /\ commands' \in Seq(WatchCommands) /\ Len(commands') = Len(commands) + Len(g)
        /\ \A i \in 1 .. Len(commands) + Len(g) : commands'[i] =
              IF i <= Len(commands) THEN commands[i] ELSE g[i - Len(commands)]
    BY <1>3, <1>10, <1>11, ConcatProperties, ZenonT(30)
  <2>2. Len(commands) \in Nat /\ k \in Nat
    BY <1>3, <1>5
  <2>3. ASSUME NEW i \in 1 .. Len(commands) PROVE commands'[i] = commands[i]
    BY <1>10, <2>1, <2>2
  <2>4. ASSUME NEW i \in 1 .. k
        PROVE  commands'[Len(commands) + i] = Watching!Command("+", stored[i])
    <3>1. /\ Len(commands) + i \in 1 .. Len(commands) + Len(g)
          /\ ~ (Len(commands) + i <= Len(commands)) /\ (Len(commands) + i) - Len(commands) = i
      BY <1>10, <2>2
    <3> QED
      BY <1>10, <2>1, <3>1
  <2> QED
    BY <1>10, <2>1, <2>3, <2>4
<1>13. /\ Watching!Listed = {stored[i] : i \in 1 .. Len(stored)}
       /\ cut' = Watching!Listed \ {stored[i] : i \in 1 .. k}
  <2>1. Watching!ToSet(nicks) = {stored[i] : i \in 1 .. k}
    BY <1>8 DEF Watching!ToSet
  <2> QED
    BY <1>3, <1>7, <2>1, ListedIs
<1>14. WatchTypes'
  <2>1. presence' \in [Nicks -> Watching!States]
    BY <1>7 DEF Watching!Unknown, Watching!States
  <2>2. cut' \subseteq Nicks
    BY <1>3, <1>13, ListedIs
  <2> QED
    BY <1>1, <1>3, <1>12, <2>1, <2>2 DEF WatchTypes
<1>15. reports' = <<>> /\ watched' = {} /\ crossed' = {} /\ welcomed'
  BY <1>1, <1>2, GreetedReads DEF Greeted
<1>16. ASSUME NEW n \in Nicks
       PROVE  NickFits(n, Watching!Listed', commands', reports', watched', cut', crossed', presence',
                       here')
  <2>1. \A i \in 1 .. Len(commands) : commands[i].sign = "-" /\ commands[i].nick \notin Watching!Listed
    BY <1>2 DEF Greeted
  <2>2. NickFits(n, Watching!Listed, commands', <<>>, {}, cut', {}, presence', here')
    BY <1>3, <1>5, <1>12, <1>13, <2>1, ListIsSent
  <2>3. Watching!Listed' = Watching!Listed
    BY <1>1 DEF Watching!Listed
  <2> QED
    BY <1>15, <2>2, <2>3
<1>17. Watches'
  <2>1. reports' \in Seq(WatchReports)
    BY <1>15
  <2> QED
    BY <1>7, <1>15, <1>16, <2>1 DEF Watches
<1> QED
  BY <1>14, <1>17 DEF WatchInv

\* handle_monitor_presence.
LEMMA PresenceFits ==
    ASSUME WatchInv, NEW what \in {"online", "offline"}, Watching!Presence(what)
    PROVE  WatchInv'
<1>1. /\ reports # <<>> /\ Head(reports).what = what /\ reports' = Tail(reports)
      /\ UNCHANGED <<stored, subscribed, limit, welcomed, commands, watched, capacity, here, cut,
                     crossed>>
  BY DEF Watching!Presence, Watching!Receives
<1>2. Watches
  BY <1>1, UnwelcomeReads, GreetedReads DEF WatchInv
<1>3. PICK x : x = Head(reports).nick
  OBVIOUS
<1>4. x \in Nicks /\ reports' \in Seq(WatchReports)
  BY <1>1, <1>2, <1>3, WatchesReads
<1>5. presence' = IF x \in Watching!Listed THEN [presence EXCEPT ![x] = what] ELSE presence
  BY <1>3 DEF Watching!Presence, Watching!Named
<1>6. WatchTypes /\ presence \in [Nicks -> Watching!States] /\ reports \in Seq(WatchReports)
  BY <1>2 DEF WatchInv, WatchTypes, Watches
<1>7. WatchTypes'
  <2>1. presence' \in [Nicks -> Watching!States]
    BY <1>4, <1>5, <1>6 DEF Watching!States
  <2> QED
    BY <1>1, <1>6, <2>1 DEF WatchTypes
<1>8. Watching!Listed' = Watching!Listed
  BY <1>1 DEF Watching!Listed
<1>9. ASSUME NEW n \in Nicks
      PROVE  NickFits(n, Watching!Listed', commands', reports', watched', cut', crossed', presence',
                      here')
  <2>1. NickFits(n, Watching!Listed, commands, reports, watched, cut, crossed, presence, here)
    BY <1>2 DEF Watches
  <2>2. NickFits(n, Watching!Listed, commands, reports', watched, cut, crossed, presence', here)
    BY <1>1, <1>3, <1>5, <1>6, <2>1, PresenceIsRead
  <2> QED
    BY <1>1, <1>8, <2>2
<1> QED
  BY <1>1, <1>2, <1>4, <1>7, <1>9, StaysWatched DEF WatchInv

\* handle_monitor_list_full.
LEMMA ListFullFits ==
    ASSUME WatchInv, Watching!ListFull
    PROVE  WatchInv'
<1>1. /\ reports # <<>> /\ Head(reports).what = "full" /\ reports' = Tail(reports)
      /\ UNCHANGED <<subscribed, limit, welcomed, commands, watched, capacity, here, cut, crossed>>
  BY DEF Watching!ListFull, Watching!Receives
<1>2. Watches
  BY <1>1, UnwelcomeReads, GreetedReads DEF WatchInv
<1>3. PICK x : x = Head(reports).nick
  OBVIOUS
<1>4. x \in Nicks /\ reports' \in Seq(WatchReports)
  BY <1>1, <1>2, <1>3, WatchesReads
<1>5. stored' = Watching!Without(x) /\ presence' = [presence EXCEPT ![x] = "unknown"]
  BY <1>3 DEF Watching!ListFull, Watching!Named, Watching!Forgotten
<1>6. /\ WatchTypes /\ presence \in [Nicks -> Watching!States] /\ reports \in Seq(WatchReports)
      /\ commands \in Seq(WatchCommands)
  BY <1>2 DEF WatchInv, WatchTypes, Watches
<1>7. WatchTypes'
  <2>1. presence' \in [Nicks -> Watching!States]
    BY <1>4, <1>5, <1>6 DEF Watching!States
  <2>2. /\ stored' \in Seq(Nicks)
        /\ \A i, j \in 1 .. Len(stored') : stored'[i] = stored'[j] => i = j
    BY <1>4, <1>5, <1>6, WithoutFacts
  <2> QED
    BY <1>1, <1>6, <2>1, <2>2 DEF WatchTypes
<1>8. Watching!Listed' = Watching!Listed \ {x}
  BY <1>4, <1>5, <1>6, WithoutFacts DEF Watching!Listed
<1>9. ASSUME NEW n \in Nicks
      PROVE  NickFits(n, Watching!Listed', commands', reports', watched', cut', crossed', presence',
                      here')
  <2>1. NickFits(n, Watching!Listed, commands, reports, watched, cut, crossed, presence, here)
    BY <1>2 DEF Watches
  <2>2. NickFits(n, Watching!Listed \ {x}, commands, reports', watched, cut, crossed,
                 [presence EXCEPT ![x] = "unknown"], here)
    BY <1>1, <1>3, <1>6, <2>1, RefusalIsRead
  <2> QED
    BY <1>1, <1>5, <1>8, <2>2
<1> QED
  BY <1>1, <1>2, <1>4, <1>7, <1>9, StaysWatched DEF WatchInv

\* The server obeys a command.
LEMMA ObeyFits ==
    ASSUME WatchInv, Watching!Obey
    PROVE  WatchInv'
<1>1. /\ commands # <<>> /\ commands' = Tail(commands)
      /\ UNCHANGED <<stored, subscribed, presence, limit, welcomed, capacity, here, cut, crossed>>
  BY DEF Watching!Obey
<1>2. PICK x : x = Head(commands).nick
  OBVIOUS
<1>3. \/ Head(commands).sign = "-" /\ watched' = watched \ {x} /\ reports' = reports
      \/ /\ Head(commands).sign = "+" /\ watched' = watched \cup {x}
         /\ reports' = Append(reports, Watching!Report(At(x, here), x))
      \/ /\ Head(commands).sign = "+" /\ x \notin watched /\ watched' = watched
         /\ reports' = Append(reports, Watching!Report("full", x))
  BY <1>2 DEF Watching!Obey, Watching!Tells, Watching!Whereabouts, At
<1>4. WatchTypes /\ commands \in Seq(WatchCommands)
  BY DEF WatchInv, WatchTypes
<1>5. /\ Head(commands) \in WatchCommands /\ x \in Nicks
      /\ commands' \in Seq(WatchCommands)
  BY <1>1, <1>2, <1>4, Words
<1>6. WatchTypes'
  BY <1>1, <1>3, <1>4, <1>5 DEF WatchTypes
<1>7. Watching!Listed' = Watching!Listed
  BY <1>1 DEF Watching!Listed
<1>8. CASE Greeted
  <2>1. /\ Len(commands) \in Nat /\ Head(commands) = commands[1] /\ 1 \in 1 .. Len(commands)
        /\ \A i \in 1 .. Len(commands') : commands'[i] = commands[i + 1] /\ i + 1 \in 1 .. Len(commands)
    BY <1>1, <1>4
  <2>2. Head(commands).sign = "-"
    BY <1>8, <2>1 DEF Greeted
  <2>3. watched' = {} /\ reports' = reports
    BY <1>3, <1>8, <2>2 DEF Greeted
  <2>4. \A i \in 1 .. Len(commands') :
            commands'[i].sign = "-" /\ commands'[i].nick \notin Watching!Listed'
    BY <1>7, <1>8, <2>1 DEF Greeted
  <2>5. Greeted'
    BY <1>1, <1>8, <2>3, <2>4 DEF Greeted
  <2> QED
    BY <1>6, <2>5 DEF WatchInv
<1>9. CASE Watches
  <2>1. reports \in Seq(WatchReports)
    BY <1>9 DEF Watches
  <2>2. reports' \in Seq(WatchReports)
    <3>1. At(x, here) \in {"online", "offline", "full"}
      BY DEF At
    <3>2. /\ Watching!Report(At(x, here), x) \in WatchReports
          /\ Watching!Report("full", x) \in WatchReports
      BY <1>5, <3>1, Words
    <3> QED
      BY <1>3, <2>1, <3>2
  <2>3. ASSUME NEW n \in Nicks
        PROVE  NickFits(n, Watching!Listed', commands', reports', watched', cut', crossed', presence',
                        here')
    <3>1. NickFits(n, Watching!Listed, commands, reports, watched, cut, crossed, presence, here)
      BY <1>9 DEF Watches
    <3>2. /\ Head(commands).sign = "-" =>
                NickFits(n, Watching!Listed, commands', reports, watched \ {x}, cut, crossed, presence,
                         here)
          /\ \A s : Head(commands).sign = "+" /\ s = Append(reports, Watching!Report(At(x, here), x)) =>
                NickFits(n, Watching!Listed, commands', s, watched \cup {x}, cut, crossed, presence,
                         here)
          /\ \A s : (Head(commands).sign = "+" /\ x \notin watched
                     /\ s = Append(reports, Watching!Report("full", x))) =>
                NickFits(n, Watching!Listed, commands', s, watched, cut, crossed, presence, here)
      BY <1>1, <1>2, <1>4, <2>1, <3>1, ServerObeys
    <3>3. NickFits(n, Watching!Listed, commands', reports', watched', cut, crossed, presence, here)
      BY <1>3, <3>2
    <3> QED
      BY <1>1, <1>7, <3>3
  <2> QED
    BY <1>1, <1>6, <1>9, <2>2, <2>3, StaysWatched DEF WatchInv
<1> QED
  BY <1>1, <1>8, <1>9, SomeConnection

\* Somebody comes or goes.
LEMMA MoveFits ==
    ASSUME WatchInv, NEW x \in Nicks, Watching!Move(x)
    PROVE  WatchInv'
<1>1. /\ here' = IF x \in here THEN here \ {x} ELSE here \cup {x}
      /\ UNCHANGED <<stored, subscribed, presence, limit, welcomed, commands, watched, capacity, cut,
                     crossed>>
      /\ x \notin watched => reports' = reports
      /\ x \in watched => reports' = Append(reports, Watching!Report(At(x, here'), x))
  <2>1. here' = IF x \in here THEN here \ {x} ELSE here \cup {x}
    BY DEF Watching!Move
  <2>2. At(x, here') = IF x \in here THEN "offline" ELSE "online"
    BY <2>1 DEF At
  <2> QED
    BY <2>1, <2>2 DEF Watching!Move, Watching!Tells
<1>2. WatchTypes'
  BY <1>1 DEF WatchInv, WatchTypes
<1>3. Watching!Listed' = Watching!Listed
  BY <1>1 DEF Watching!Listed
<1>4. CASE Unwelcome
  <2>1. reports' = reports
    BY <1>1, <1>4 DEF Unwelcome
  <2>2. Unwelcome'
    BY <1>1, <1>4, <2>1 DEF Unwelcome
  <2> QED
    BY <1>2, <2>2 DEF WatchInv
<1>5. CASE Greeted
  <2>1. reports' = reports
    BY <1>1, <1>5 DEF Greeted
  <2>2. Greeted'
    BY <1>1, <1>3, <1>5, <2>1 DEF Greeted
  <2> QED
    BY <1>2, <2>2 DEF WatchInv
<1>6. CASE Watches
  <2>1. reports \in Seq(WatchReports)
    BY <1>6 DEF Watches
  <2>2. reports' \in Seq(WatchReports)
    <3>1. At(x, here') \in {"online", "offline", "full"}
      BY DEF At
    <3>2. Watching!Report(At(x, here'), x) \in WatchReports
      BY <3>1, Words
    <3> QED
      BY <1>1, <2>1, <3>2
  <2>3. ASSUME NEW n \in Nicks
        PROVE  NickFits(n, Watching!Listed', commands', reports', watched', cut', crossed', presence',
                        here')
    <3>1. NickFits(n, Watching!Listed, commands, reports, watched, cut, crossed, presence, here)
      BY <1>6 DEF Watches
    <3>2. \A m : m # x => (m \in here <=> m \in here')
      BY <1>1
    <3>3. /\ x \notin watched =>
                NickFits(n, Watching!Listed, commands, reports, watched, cut, crossed, presence, here')
          /\ \A s : x \in watched /\ s = Append(reports, Watching!Report(At(x, here'), x)) =>
                NickFits(n, Watching!Listed, commands, s, watched, cut, crossed, presence, here')
      BY <2>1, <3>1, <3>2, SomebodyMoves
    <3>4. NickFits(n, Watching!Listed, commands, reports', watched, cut, crossed, presence, here')
      BY <1>1, <3>3
    <3> QED
      BY <1>1, <1>3, <3>4
  <2> QED
    BY <1>1, <1>2, <1>6, <2>2, <2>3, StaysWatched DEF WatchInv
<1> QED
  BY <1>4, <1>5, <1>6 DEF WatchInv

\* The connection comes and goes.
LEMMA ConnectionFits ==
    ASSUME WatchInv, Watching!Register \/ Watching!Disconnect
    PROVE  WatchInv'
<1>1. CASE Watching!Register
  <2>1. Unwelcome
    BY <1>1 DEF WatchInv, Greeted, Watches, Watching!Register
  <2>2. Unwelcome'
    BY <1>1, <2>1 DEF Unwelcome, Watching!Register
  <2>3. WatchTypes'
    BY <1>1 DEF WatchInv, WatchTypes, Watching!Register
  <2> QED
    BY <2>2, <2>3 DEF WatchInv
<1>2. CASE Watching!Disconnect
  <2>1. Unwelcome'
    BY <1>2 DEF Unwelcome, Watching!Disconnect
  <2>2. WatchTypes'
    BY <1>2 DEF WatchInv, WatchTypes, Watching!Disconnect
  <2> QED
    BY <2>1, <2>2 DEF WatchInv
<1> QED
  BY <1>1, <1>2

LEMMA WatchSteps == WatchInv /\ [Watching!Next]_watchVars => WatchInv'
<1> SUFFICES ASSUME WatchInv, [Watching!Next]_watchVars PROVE WatchInv'
  OBVIOUS
<1>1. CASE UNCHANGED watchVars
  <2>1. UNCHANGED <<stored, subscribed, presence, limit, welcomed, commands, reports, watched,
                    capacity, here, cut, crossed>>
    BY <1>1 DEF watchVars
  <2>2. Watching!Listed' = Watching!Listed
    BY <2>1 DEF Watching!Listed
  <2> QED
    BY <2>1, <2>2 DEF WatchInv, WatchTypes, Unwelcome, Greeted, Watches
<1>2. CASE Watching!Next
  BY <1>2, AddMonitoredFits, RemoveMonitoredFits, MoveFits, PresenceFits, WelcomeFits, IsupportFits,
     ListFullFits, ObeyFits, ConnectionFits DEF Watching!Next
<1> QED
  BY <1>1, <1>2

\* Once nothing is on its way, the nicks that are listed, but for those cut off and those whose
\* refusal crossed a second request, are those the server watches, and each is shown where it is
\* (monitor_subscribe, add_monitored, handle_monitor_list_full).
THEOREM WatchIsTrueHolds == MCSpec => []WatchIsTrue
<1>1. MCInit => WatchInv
  BY WatchStarts DEF MCInit
<1>2. WatchInv /\ [MCNext]_<<vars, listVars, watchVars, socketVars, part>> => WatchInv'
  <2>1. [MCNext]_<<vars, listVars, watchVars, socketVars, part>> => [Watching!Next]_watchVars
    BY DEF MCNext
  <2> QED
    BY <2>1, WatchSteps
<1>3. WatchInv => WatchIsTrue
  <2> SUFFICES ASSUME WatchInv, Watching!Quiet
               PROVE  /\ Watching!Listed \ crossed = (watched \cup cut) \ crossed
                      /\ \A n \in Watching!Listed \ cut : presence[n] = Watching!Whereabouts(n)
    BY DEF WatchIsTrue, Watching!WatchIsTrue
  <2>1. welcomed /\ commands = <<>> /\ reports = <<>>
    BY DEF Watching!Quiet
  <2>2. Watches
    BY <2>1, GreetedReads DEF WatchInv, Unwelcome
  <2>3. Watching!Listed \subseteq Nicks /\ watched \subseteq Nicks /\ cut \subseteq Nicks
    BY ListedIs DEF WatchInv, WatchTypes
  <2>4. \A e : ~ LastIs(<<>>, e) /\ ~ Has(<<>>, e)
    BY DEF LastIs, Has
  <2>5. ASSUME NEW n \in Nicks
        PROVE  /\ n \in Watching!Listed /\ n \notin cut => n \in watched /\ presence[n] = At(n, here)
               /\ n \in cut => n \in Watching!Listed
               /\ n \notin crossed /\ n \notin Watching!Listed => n \notin watched
    <3>1. NickFits(n, Watching!Listed, <<>>, <<>>, watched, cut, crossed, presence, here)
      BY <2>1, <2>2 DEF Watches
    <3> QED
      BY <2>4, <3>1 DEF NickFits
  <2>6. \A n \in Watching!Listed \ cut : presence[n] = Watching!Whereabouts(n)
    BY <2>3, <2>5 DEF At, Watching!Whereabouts
  <2> QED
    BY <2>3, <2>5, <2>6
<1> QED
  BY <1>1, <1>2, <1>3, PTL DEF MCSpec

-----------------------------------------------------------------------------
(* The window and its socket.  That there is one window rests on the lock  *)
(* alone: who has passed it holds it.  The exit status is an argument      *)
(* about one request: where it can be (on its connection, in the queue of  *)
(* a UI thread, carried out) at each step of the program that waits for    *)
(* it, and about the two deadlines: while that program waits, the thread   *)
(* in the window has not given up.                                         *)

\* The launches that have got the lock.
Owning == {"locked", "unlinked", "window", "closing"}

LockIsOwned ==
    \A p \in Launches : /\ launch[p].at \in Owning => lock = p
                        /\ launch[p].at \in {"window", "closing"} => path = p

\* A launch tries the ping at most CLAIM_ATTEMPTS times, and connects only to send it.
LaunchFits(p) ==
    /\ launch[p].at = "new" => launch[p].tries = 0
    /\ launch[p].at = "notify" => launch[p].tries < Window!CLAIM_ATTEMPTS
    /\ launch[p].at # "secondary" => conn[p].at = "none"

Queued(r) == \E p \in Launches : \E i \in 1 .. Len(jobs[p]) : jobs[p][i] = r

\* A request is queued once, in the window its connection leads to, after it was read.
JobsFit ==
    \A p \in Launches : \A i \in 1 .. Len(jobs[p]) :
        /\ conn[jobs[p][i]].to = p /\ conn[jobs[p][i]].sent
        /\ conn[jobs[p][i]].at \in {"waiting", "replied", "shut"}
        /\ \A j \in 1 .. Len(jobs[p]) : jobs[p][i] = jobs[p][j] => i = j

\* A request that was not written, or is not answered yet, is not carried out.
ConnFits(r) ==
    /\ conn[r].at = "none" <=> conn[r].to = Window!Nobody
    /\ conn[r].at = "none" => ~ conn[r].sent
    /\ ~ conn[r].sent => conn[r].at \in {"none", "backlog", "reading", "shut"}
    /\ ~ conn[r].sent \/ conn[r].at \in {"none", "backlog", "reading", "waiting"} =>
          r \notin done /\ conn[r].answer = "none"
    /\ conn[r].answer = "ok" => r \in done

\* Where the request of a send can be at each step of `omairc send`.
StatusFits(k) ==
    /\ status[k].at = "new" => conn[k].at = "none"
    /\ status[k].at = "connected" => conn[k].at # "none" /\ ~ conn[k].sent
    /\ status[k].at = "waiting" =>
          /\ now <= status[k].due /\ status[k].due <= now + Window!RESPONSE_TIMEOUT
          /\ conn[k].sent
          /\ conn[k].at = "waiting" => status[k].due < conn[k].due
          /\ conn[k].answer = "error" => k \notin done /\ ~ Queued(k)
    /\ status[k].at = "ok" => k \in done
    /\ status[k].at = "failed" => k \notin done /\ ~ Queued(k) /\ conn[k].at \in {"none", "shut"}

WindowInv ==
    /\ Window!TypeOK
    /\ LockIsOwned
    /\ \A p \in Launches : LaunchFits(p)
    /\ JobsFit
    /\ \A r \in Window!Requests : ConnFits(r)
    /\ \A k \in Sends : StatusFits(k)

Conns == [to : Launches \cup {Window!Nobody}, at : Window!Stages, sent : BOOLEAN, due : Nat,
          answer : Window!Answers]

-----------------------------------------------------------------------------
(* The queues of the UI threads *)

\* The queues have requests in them, and only those.
LEMMA QueuedIsRequest ==
    ASSUME Window!TypeOK, NEW p \in Launches, NEW i \in 1 .. Len(jobs[p])
    PROVE  jobs[p][i] \in Window!Requests /\ Queued(jobs[p][i])
<1>1. jobs[p] \in Seq(Window!Requests)
  BY DEF Window!TypeOK
<1>2. jobs[p][i] \in Window!Requests
  BY <1>1
<1> QED
  BY <1>2 DEF Queued

\* Nothing is queued or taken: the connections of the queued requests may go on.
LEMMA JobsStay ==
    ASSUME WindowInv, jobs' = jobs,
           \A r \in Window!Requests : Queued(r) => /\ conn'[r].to = conn[r].to /\ conn'[r].sent
                                                   /\ conn'[r].at \in {"waiting", "replied", "shut"}
    PROVE  JobsFit' /\ \A r : Queued(r)' <=> Queued(r)
<1>1. \A r : Queued(r)' <=> Queued(r)
  BY DEF Queued
<1>2. ASSUME NEW p \in Launches, NEW i \in 1 .. Len(jobs[p])
      PROVE  /\ conn'[jobs[p][i]].to = p /\ conn'[jobs[p][i]].sent
             /\ conn'[jobs[p][i]].at \in {"waiting", "replied", "shut"}
  <2>1. jobs[p][i] \in Window!Requests /\ Queued(jobs[p][i])
    BY QueuedIsRequest DEF WindowInv
  <2>2. conn[jobs[p][i]].to = p
    BY DEF WindowInv, JobsFit
  <2> QED
    BY <2>1, <2>2
<1>3. \A p \in Launches : \A i, j \in 1 .. Len(jobs[p]) : jobs[p][i] = jobs[p][j] => i = j
  BY DEF WindowInv, JobsFit
<1> QED
  BY <1>1, <1>2, <1>3 DEF JobsFit

\* The UI thread takes the next request, and it is not queued a second time.
LEMMA JobsTaken ==
    ASSUME WindowInv, NEW p \in Launches, jobs[p] # <<>>,
           jobs' = [jobs EXCEPT ![p] = Tail(jobs[p])],
           \A r \in Window!Requests : Queued(r) => /\ conn'[r].to = conn[r].to /\ conn'[r].sent
                                                   /\ conn'[r].at \in {"waiting", "replied", "shut"}
    PROVE  /\ JobsFit' /\ jobs' \in [Launches -> Seq(Window!Requests)]
           /\ \A r : Queued(r)' => Queued(r) /\ r # Head(jobs[p])
           /\ Head(jobs[p]) \in Window!Requests /\ Queued(Head(jobs[p]))
<1>1. /\ jobs \in [Launches -> Seq(Window!Requests)] /\ jobs[p] \in Seq(Window!Requests)
      /\ \A q \in Launches : Len(jobs[q]) \in Nat
  BY DEF WindowInv, Window!TypeOK
<1>2. /\ Len(jobs[p]) > 0 /\ Head(jobs[p]) = jobs[p][1] /\ Tail(jobs[p]) \in Seq(Window!Requests)
      /\ Len(Tail(jobs[p])) = Len(jobs[p]) - 1
      /\ \A i \in 1 .. Len(jobs[p]) - 1 : Tail(jobs[p])[i] = jobs[p][i + 1]
  BY <1>1
<1>3. jobs' \in [Launches -> Seq(Window!Requests)] /\ jobs'[p] = Tail(jobs[p])
  BY <1>1, <1>2
<1>4. \A q \in Launches : q # p => jobs'[q] = jobs[q]
  BY <1>1
\* Each place of a new queue is a place of the old one, further back in p's.
<1>5. ASSUME NEW q \in Launches, NEW i \in 1 .. Len(jobs'[q])
      PROVE  LET j == IF q = p THEN i + 1 ELSE i
             IN  j \in 1 .. Len(jobs[q]) /\ jobs'[q][i] = jobs[q][j]
  <2>1. CASE q = p
    BY <1>1, <1>2, <1>3, <2>1
  <2>2. CASE q # p
    BY <1>1, <1>4, <2>2
  <2> QED
    BY <2>1, <2>2
<1>6. /\ \A q \in Launches : \A i \in 1 .. Len(jobs[q]) : conn[jobs[q][i]].to = q
      /\ \A q \in Launches : \A i, j \in 1 .. Len(jobs[q]) : jobs[q][i] = jobs[q][j] => i = j
  BY DEF WindowInv, JobsFit
<1>7. Head(jobs[p]) \in Window!Requests /\ Queued(Head(jobs[p]))
  BY <1>1, <1>2, QueuedIsRequest DEF WindowInv
<1>8. conn[Head(jobs[p])].to = p
  BY <1>1, <1>2, <1>6
<1>9. ASSUME NEW q \in Launches, NEW i \in 1 .. Len(jobs'[q])
      PROVE  /\ jobs'[q][i] \in Window!Requests /\ Queued(jobs'[q][i]) /\ jobs'[q][i] # Head(jobs[p])
             /\ conn'[jobs'[q][i]].to = q /\ conn'[jobs'[q][i]].sent
             /\ conn'[jobs'[q][i]].at \in {"waiting", "replied", "shut"}
  <2>1. PICK j \in 1 .. Len(jobs[q]) : jobs'[q][i] = jobs[q][j] /\ (q = p => j # 1)
    BY <1>1, <1>5
  <2>2. jobs[q][j] \in Window!Requests /\ Queued(jobs[q][j])
    BY QueuedIsRequest DEF WindowInv
  <2>3. conn[jobs[q][j]].to = q
    BY <1>6
  <2>4. jobs[q][j] # Head(jobs[p])
    <3>1. CASE q = p
      BY <1>1, <1>2, <1>6, <2>1, <3>1
    <3>2. CASE q # p
      BY <1>8, <2>3, <3>2
    <3> QED
      BY <3>1, <3>2
  <2> QED
    BY <2>1, <2>2, <2>3, <2>4
<1>10. \A q \in Launches : \A i, j \in 1 .. Len(jobs'[q]) : jobs'[q][i] = jobs'[q][j] => i = j
  <2> SUFFICES ASSUME NEW q \in Launches, NEW i \in 1 .. Len(jobs'[q]),
                      NEW j \in 1 .. Len(jobs'[q]), jobs'[q][i] = jobs'[q][j]
               PROVE  i = j
    OBVIOUS
  <2>1. CASE q = p
    <3>1. /\ i + 1 \in 1 .. Len(jobs[q]) /\ j + 1 \in 1 .. Len(jobs[q])
          /\ jobs[q][i + 1] = jobs[q][j + 1]
      BY <1>5, <2>1
    <3>2. i + 1 = j + 1
      BY <1>6, <3>1
    <3> QED
      BY <3>2, <1>3
  <2>2. CASE q # p
    BY <1>4, <1>6, <2>2
  <2> QED
    BY <2>1, <2>2
<1>11. JobsFit'
  <2>1. ASSUME NEW q \in Launches, NEW i \in 1 .. Len(jobs'[q])
        PROVE  /\ conn'[jobs'[q][i]].to = q /\ conn'[jobs'[q][i]].sent
               /\ conn'[jobs'[q][i]].at \in {"waiting", "replied", "shut"}
               /\ \A j \in 1 .. Len(jobs'[q]) : jobs'[q][i] = jobs'[q][j] => i = j
    <3>1. \A j \in 1 .. Len(jobs'[q]) : jobs'[q][i] = jobs'[q][j] => i = j
      BY <1>10
    <3> QED
      BY <1>9, <3>1
  <2> QED
    BY <2>1 DEF JobsFit
<1>12. \A r : Queued(r)' => Queued(r) /\ r # Head(jobs[p])
  <2> SUFFICES ASSUME NEW r, Queued(r)' PROVE Queued(r) /\ r # Head(jobs[p])
    OBVIOUS
  <2>1. PICK q \in Launches : \E i \in 1 .. Len(jobs'[q]) : jobs'[q][i] = r
    BY DEF Queued
  <2>2. PICK i \in 1 .. Len(jobs'[q]) : jobs'[q][i] = r
    BY <2>1
  <2> QED
    BY <1>9, <2>2
<1> QED
  BY <1>3, <1>7, <1>11, <1>12

\* serve_client queues a request that is nowhere queued, in the window of its connection.
LEMMA JobsAdded ==
    ASSUME WindowInv, NEW r \in Window!Requests, ~ Queued(r), NEW p \in Launches,
           jobs' = [jobs EXCEPT ![p] = Append(jobs[p], r)],
           conn'[r].to = p, conn'[r].sent, conn'[r].at = "waiting",
           \A q \in Window!Requests \ {r} : conn'[q] = conn[q]
    PROVE  /\ JobsFit' /\ jobs' \in [Launches -> Seq(Window!Requests)]
           /\ \A x : Queued(x)' => Queued(x) \/ x = r
<1>1. /\ jobs \in [Launches -> Seq(Window!Requests)] /\ jobs[p] \in Seq(Window!Requests)
      /\ \A q \in Launches : Len(jobs[q]) \in Nat
  BY DEF WindowInv, Window!TypeOK
<1>2. /\ Append(jobs[p], r) \in Seq(Window!Requests)
      /\ Len(Append(jobs[p], r)) = Len(jobs[p]) + 1
      /\ Append(jobs[p], r)[Len(jobs[p]) + 1] = r
      /\ \A i \in 1 .. Len(jobs[p]) : Append(jobs[p], r)[i] = jobs[p][i]
  BY <1>1
<1>3. jobs' \in [Launches -> Seq(Window!Requests)] /\ jobs'[p] = Append(jobs[p], r)
  BY <1>1, <1>2
<1>4. \A q \in Launches : q # p => jobs'[q] = jobs[q]
  BY <1>1
<1>5. ASSUME NEW q \in Launches, NEW i \in 1 .. Len(jobs'[q])
      PROVE  \/ i \in 1 .. Len(jobs[q]) /\ jobs'[q][i] = jobs[q][i]
             \/ q = p /\ i = Len(jobs[p]) + 1 /\ jobs'[q][i] = r
  <2>1. CASE q = p
    BY <1>1, <1>2, <1>3, <2>1
  <2>2. CASE q # p
    BY <1>1, <1>4, <2>2
  <2> QED
    BY <2>1, <2>2
<1>6. ASSUME NEW q \in Launches, NEW i \in 1 .. Len(jobs[q])
      PROVE  /\ jobs[q][i] \in Window!Requests \ {r} /\ Queued(jobs[q][i])
             /\ conn[jobs[q][i]].to = q /\ conn[jobs[q][i]].sent
             /\ conn[jobs[q][i]].at \in {"waiting", "replied", "shut"}
             /\ \A j \in 1 .. Len(jobs[q]) : jobs[q][i] = jobs[q][j] => i = j
  <2>1. jobs[q][i] \in Window!Requests /\ Queued(jobs[q][i])
    BY QueuedIsRequest DEF WindowInv
  <2> QED
    BY <2>1 DEF WindowInv, JobsFit
<1>7. ASSUME NEW q \in Launches, NEW i \in 1 .. Len(jobs'[q])
      PROVE  /\ conn'[jobs'[q][i]].to = q /\ conn'[jobs'[q][i]].sent
             /\ conn'[jobs'[q][i]].at \in {"waiting", "replied", "shut"}
             /\ Queued(jobs'[q][i]) \/ jobs'[q][i] = r
  <2>1. CASE i \in 1 .. Len(jobs[q]) /\ jobs'[q][i] = jobs[q][i]
    BY <1>6, <2>1
  <2>2. CASE q = p /\ jobs'[q][i] = r
    BY <2>2
  <2> QED
    BY <1>5, <2>1, <2>2
<1>8. ASSUME NEW q \in Launches, NEW i \in 1 .. Len(jobs'[q]), NEW j \in 1 .. Len(jobs'[q]),
             jobs'[q][i] = jobs'[q][j]
      PROVE  i = j
  <2>1. CASE /\ i \in 1 .. Len(jobs[q]) /\ jobs'[q][i] = jobs[q][i]
             /\ j \in 1 .. Len(jobs[q]) /\ jobs'[q][j] = jobs[q][j]
    BY <1>6, <1>8, <2>1
  <2>2. CASE i \in 1 .. Len(jobs[q]) /\ jobs'[q][i] = jobs[q][i] /\ jobs'[q][j] = r
    BY <1>6, <1>8, <2>2
  <2>3. CASE j \in 1 .. Len(jobs[q]) /\ jobs'[q][j] = jobs[q][j] /\ jobs'[q][i] = r
    BY <1>6, <1>8, <2>3
  <2>4. CASE i = Len(jobs[p]) + 1 /\ j = Len(jobs[p]) + 1
    BY <2>4
  <2> QED
    BY <1>5, <2>1, <2>2, <2>3, <2>4
<1>9. JobsFit'
  BY <1>7, <1>8 DEF JobsFit
<1>10. ASSUME NEW x, Queued(x)' PROVE Queued(x) \/ x = r
  <2>1. PICK q \in Launches : \E i \in 1 .. Len(jobs'[q]) : jobs'[q][i] = x
    BY <1>10 DEF Queued
  <2>2. PICK i \in 1 .. Len(jobs'[q]) : jobs'[q][i] = x
    BY <2>1
  <2> QED
    BY <1>7, <2>2
<1> QED
  BY <1>3, <1>9, <1>10

\* A process ends and its queue with it.
LEMMA JobsDropped ==
    ASSUME WindowInv, NEW p \in Launches, jobs' = [jobs EXCEPT ![p] = <<>>],
           \A r \in Window!Requests : conn[r].to # p => conn'[r] = conn[r]
    PROVE  /\ JobsFit' /\ jobs' \in [Launches -> Seq(Window!Requests)]
           /\ \A r : Queued(r)' => Queued(r)
<1>1. jobs \in [Launches -> Seq(Window!Requests)]
  BY DEF WindowInv, Window!TypeOK
<1>2. /\ jobs' \in [Launches -> Seq(Window!Requests)] /\ jobs'[p] = <<>> /\ Len(jobs'[p]) = 0
      /\ \A q \in Launches : q # p => jobs'[q] = jobs[q]
  BY <1>1
<1>3. ASSUME NEW q \in Launches, NEW i \in 1 .. Len(jobs'[q])
      PROVE  /\ q # p /\ i \in 1 .. Len(jobs[q]) /\ jobs'[q][i] = jobs[q][i]
             /\ jobs[q][i] \in Window!Requests /\ Queued(jobs[q][i])
             /\ conn'[jobs[q][i]] = conn[jobs[q][i]]
  <2>1. q # p /\ i \in 1 .. Len(jobs[q]) /\ jobs'[q][i] = jobs[q][i]
    BY <1>2
  <2>2. jobs[q][i] \in Window!Requests /\ Queued(jobs[q][i])
    BY <2>1, QueuedIsRequest DEF WindowInv
  <2>3. conn[jobs[q][i]].to = q
    BY <2>1 DEF WindowInv, JobsFit
  <2> QED
    BY <2>1, <2>2, <2>3
<1>4. JobsFit'
  <2>1. ASSUME NEW q \in Launches, NEW i \in 1 .. Len(jobs'[q])
        PROVE  /\ conn'[jobs'[q][i]].to = q /\ conn'[jobs'[q][i]].sent
               /\ conn'[jobs'[q][i]].at \in {"waiting", "replied", "shut"}
               /\ \A j \in 1 .. Len(jobs'[q]) : jobs'[q][i] = jobs'[q][j] => i = j
    <3>1. /\ conn[jobs[q][i]].to = q /\ conn[jobs[q][i]].sent
          /\ conn[jobs[q][i]].at \in {"waiting", "replied", "shut"}
          /\ \A j \in 1 .. Len(jobs[q]) : jobs[q][i] = jobs[q][j] => i = j
      BY <1>3 DEF WindowInv, JobsFit
    <3> QED
      BY <1>2, <1>3, <3>1
  <2> QED
    BY <2>1 DEF JobsFit
<1>5. ASSUME NEW r, Queued(r)' PROVE Queued(r)
  <2>1. PICK q \in Launches : \E i \in 1 .. Len(jobs'[q]) : jobs'[q][i] = r
    BY <1>5 DEF Queued
  <2>2. PICK i \in 1 .. Len(jobs'[q]) : jobs'[q][i] = r
    BY <2>1
  <2> QED
    BY <1>3, <2>2
<1> QED
  BY <1>2, <1>4, <1>5

-----------------------------------------------------------------------------
(* The launches *)

Moved == [at : Window!Phases, tries : 0 .. Window!CLAIM_ATTEMPTS]

\* A step that leaves the connections, the queues and the sends alone.
LEMMA RequestsStay ==
    ASSUME WindowInv, UNCHANGED <<jobs, conn, status, done, now>>
    PROVE  JobsFit' /\ (\A r \in Window!Requests : ConnFits(r)') /\ (\A k \in Sends : StatusFits(k)')
<1>1. \A r : Queued(r)' <=> Queued(r)
  BY DEF Queued
<1>2. JobsFit'
  BY DEF WindowInv, JobsFit
<1>3. \A r \in Window!Requests : ConnFits(r)'
  BY DEF WindowInv, ConnFits
<1>4. \A k \in Sends : StatusFits(k)'
  BY <1>1 DEF WindowInv, StatusFits
<1> QED
  BY <1>2, <1>3, <1>4

\* A step of one launch: what becomes of the lock and the path when it moves.
LEMMA LaunchStep ==
    ASSUME WindowInv, NEW p \in Launches,
           \/ Window!TryLock(p) \/ Window!RemoveStale(p) \/ Window!Bind(p) \/ Window!BindFails(p)
           \/ Window!NotifyFails(p) \/ Window!Close(p)
    PROVE  WindowInv'
<1>1. /\ launch \in [Launches -> Moved]
      /\ \A q \in Launches : LaunchFits(q)
      /\ lock \in Launches \cup {Window!Nobody} /\ path \in Launches \cup {Window!Nobody}
  BY DEF WindowInv, Window!TypeOK, Moved
<1>2. UNCHANGED <<jobs, conn, status, done, now>>
  BY DEF Window!TryLock, Window!RemoveStale, Window!Bind, Window!BindFails, Window!NotifyFails,
     Window!Close
<1>3. /\ launch' \in [Launches -> Moved] /\ \A q \in Launches \ {p} : launch'[q] = launch[q]
      /\ launch'[p].at = "notify" => launch'[p].tries < Window!CLAIM_ATTEMPTS
      /\ launch'[p].at \notin {"new", "secondary"} /\ launch[p].at # "secondary"
  BY <1>1 DEF Window!TryLock, Window!RemoveStale, Window!Bind, Window!BindFails,
     Window!NotifyFails, Window!Close, Window!Moves, LaunchFits, Moved,
              Window!Phases, Window!CLAIM_ATTEMPTS
<1>4. Window!TypeOK'
  <2>1. lock' \in Launches \cup {Window!Nobody} /\ path' \in Launches \cup {Window!Nobody}
    BY <1>1 DEF Window!TryLock, Window!RemoveStale, Window!Bind, Window!BindFails,
       Window!NotifyFails, Window!Close
  <2>2. accepts' \subseteq Launches
    BY DEF Window!TryLock, Window!RemoveStale, Window!Bind, Window!BindFails, Window!NotifyFails,
       Window!Close, WindowInv, Window!TypeOK
  <2> QED
    BY <1>2, <1>3, <2>1, <2>2 DEF WindowInv, Window!TypeOK, Moved
<1>5. \A q \in Launches : LaunchFits(q)'
  BY <1>1, <1>2, <1>3 DEF LaunchFits
<1>6. LockIsOwned'
  <2>1. /\ \A q \in Launches : launch[q].at \in Owning => lock = q
        /\ \A q \in Launches : launch[q].at \in {"window", "closing"} => path = q
        /\ Window!Nobody \notin Launches
    BY WindowNames DEF WindowInv, LockIsOwned
  <2>2. CASE Window!TryLock(p)
    BY <1>1, <1>3, <2>1, <2>2 DEF Window!TryLock, Window!LockIsFree, Window!Moves, LockIsOwned,
       Owning, Moved
  <2>3. CASE Window!RemoveStale(p)
    BY <1>1, <1>3, <2>1, <2>3 DEF Window!RemoveStale, Window!Moves, LockIsOwned, Owning, Moved
  <2>4. CASE Window!Bind(p)
    BY <1>1, <1>3, <2>1, <2>4 DEF Window!Bind, Window!Moves, LockIsOwned, Owning, Moved
  <2>5. CASE Window!BindFails(p)
    BY <1>1, <1>3, <2>1, <2>5 DEF Window!BindFails, Window!Moves, LockIsOwned, Owning, Moved
  <2>6. CASE Window!NotifyFails(p)
    BY <1>1, <1>3, <2>1, <2>6 DEF Window!NotifyFails, LockIsOwned, Owning, Moved
  <2>7. CASE Window!Close(p)
    BY <1>1, <1>3, <2>1, <2>7 DEF Window!Close, Window!Moves, LockIsOwned, Owning, Moved
  <2> QED
    BY <2>2, <2>3, <2>4, <2>5, <2>6, <2>7
<1> QED
  BY <1>2, <1>4, <1>5, <1>6, RequestsStay DEF WindowInv

\* A step that moves no launch.
LEMMA LaunchesStay ==
    ASSUME WindowInv, UNCHANGED <<launch, lock, path>>,
           \A p \in Launches : launch[p].at # "secondary" => conn'[p].at = conn[p].at
    PROVE  LockIsOwned' /\ \A p \in Launches : LaunchFits(p)'
<1>1. LockIsOwned'
  BY DEF WindowInv, LockIsOwned
<1>2. \A p \in Launches : LaunchFits(p)'
  BY DEF WindowInv, LaunchFits
<1> QED
  BY <1>1, <1>2

-----------------------------------------------------------------------------
(* The connections *)

\* A connection that is not there yet is not queued, and a request that is not read yet is not.
LEMMA NotQueued ==
    ASSUME WindowInv, NEW r \in Window!Requests, conn[r].at \in {"none", "backlog", "reading"}
    PROVE  ~ Queued(r)
BY DEF WindowInv, JobsFit, Queued

\* The connection of r is made: nothing was asked on it before.
LEMMA ConnectStep ==
    ASSUME WindowInv, NEW r \in Window!Requests, NEW sent \in BOOLEAN, Window!Listening,
           conn[r].at = "none", conn' = [conn EXCEPT ![r] = Window!Connects(r, sent)],
           UNCHANGED <<jobs, done, now>>
    PROVE  /\ conn' \in [Window!Requests -> Conns] /\ JobsFit' /\ \A q \in Window!Requests : ConnFits(q)'
           /\ \A q : Queued(q)' <=> Queued(q)
           /\ conn'[r].at = "backlog" /\ conn'[r].sent = sent /\ conn'[r].answer = "none"
           /\ \A q \in Window!Requests \ {r} : conn'[q] = conn[q]
<1>1. conn \in [Window!Requests -> Conns] /\ path \in Launches
  BY DEF WindowInv, Window!TypeOK, Conns, Window!Listening
<1>2. /\ Window!Connects(r, sent) \in Conns /\ Window!Connects(r, sent).at = "backlog"
      /\ Window!Connects(r, sent).sent = sent /\ Window!Connects(r, sent).answer = "none"
      /\ Window!Connects(r, sent).to = path
  BY <1>1 DEF Window!Connects, Window!NoConn, Conns, Window!Stages, Window!Answers
<1>3. /\ conn' \in [Window!Requests -> Conns] /\ conn'[r] = Window!Connects(r, sent)
      /\ \A q \in Window!Requests \ {r} : conn'[q] = conn[q]
  BY <1>1, <1>2
<1>4. ~ Queued(r)
  BY NotQueued
<1>5. JobsFit' /\ \A q : Queued(q)' <=> Queued(q)
  <2>1. \A q \in Window!Requests : Queued(q) => conn'[q] = conn[q]
    BY <1>3, <1>4
  <2>2. \A q \in Window!Requests : Queued(q) => /\ conn[q].sent
                                                /\ conn[q].at \in {"waiting", "replied", "shut"}
    BY DEF WindowInv, JobsFit, Queued
  <2> QED
    BY <2>1, <2>2, JobsStay
<1>6. ASSUME NEW q \in Window!Requests PROVE ConnFits(q)'
  <2>1. ConnFits(q) /\ ConnFits(r)
    BY DEF WindowInv
  <2>2. CASE q = r
    BY <1>1, <1>2, <1>3, <2>1, <2>2, WindowNames DEF ConnFits
  <2>3. CASE q # r
    BY <1>3, <2>1, <2>3 DEF ConnFits
  <2> QED
    BY <2>2, <2>3
<1> QED
  BY <1>2, <1>3, <1>5, <1>6

LEMMA NotifyKeeps ==
    ASSUME WindowInv, NEW p \in Launches, Window!Notify(p)
    PROVE  WindowInv'
<1>1. /\ launch \in [Launches -> Moved] /\ p \in Window!Requests /\ p \notin Sends
      /\ launch[p].at = "notify" /\ Window!Listening
      /\ conn[p].at = "none"
  BY WindowNames DEF WindowInv, Window!TypeOK, Moved, Window!Notify, Window!Moves, LaunchFits,
     Window!Requests
<1>2. /\ conn' \in [Window!Requests -> Conns] /\ JobsFit' /\ \A q \in Window!Requests : ConnFits(q)'
      /\ \A q : Queued(q)' <=> Queued(q)
      /\ \A q \in Window!Requests \ {p} : conn'[q] = conn[q]
  BY <1>1, ConnectStep DEF Window!Notify
<1>3. /\ launch' \in [Launches -> Moved] /\ launch'[p].at = "secondary"
      /\ \A q \in Launches \ {p} : launch'[q] = launch[q]
  BY <1>1 DEF Window!Notify, Window!Moves, Moved, Window!Phases
<1>4. Window!TypeOK'
  BY <1>2, <1>3 DEF WindowInv, Window!TypeOK, Window!Notify, Moved, Conns
<1>5. LockIsOwned'
  BY <1>3 DEF WindowInv, LockIsOwned, Window!Notify, Owning
<1>6. \A q \in Launches : LaunchFits(q)'
  BY <1>2, <1>3 DEF WindowInv, LaunchFits, Window!Requests
<1>7. \A k \in Sends : StatusFits(k)'
  <2>1. \A k \in Sends : conn'[k] = conn[k]
    BY <1>1, <1>2 DEF Window!Requests
  <2> QED
    BY <1>2, <2>1 DEF WindowInv, StatusFits, Window!Notify
<1> QED
  BY <1>2, <1>4, <1>5, <1>6, <1>7 DEF WindowInv

-----------------------------------------------------------------------------
(* The threads of a window *)

\* A queued request has been read.
LEMMA QueuedFacts ==
    ASSUME WindowInv
    PROVE  \A r \in Window!Requests : Queued(r) => /\ conn[r].sent
                                                   /\ conn[r].at \in {"waiting", "replied", "shut"}
BY DEF WindowInv, JobsFit, Queued

\* The connection of r goes on by a step of the window that takes no request from a queue: it
\* is read, answered with an error after a time-out, or closed.  Only a program that has gone
\* can be told of a time-out.
LEMMA ConnStep ==
    ASSUME WindowInv, NEW r \in Window!Requests, NEW c \in Conns,
           conn' = [conn EXCEPT ![r] = c],
           UNCHANGED <<launch, lock, path, jobs, status, done, now>>, accepts' \subseteq Launches,
           conn[r].at \in {"backlog", "reading", "waiting", "replied"},
           c.to = conn[r].to, c.sent = conn[r].sent,
           conn[r].at = "backlog" => c.at \in {"reading", "shut"},
           conn[r].at # "backlog" => c.at \in {"replied", "shut"},
           c.at = "replied" => conn[r].at = "waiting",
           c.answer = conn[r].answer \/
             /\ c.answer = "error" /\ conn[r].at = "waiting"
             /\ r \in Sends => status[r].at # "waiting"
    PROVE  WindowInv'
<1>1. conn \in [Window!Requests -> Conns]
  BY DEF WindowInv, Window!TypeOK, Conns
<1>2. /\ conn' \in [Window!Requests -> Conns] /\ conn'[r] = c
      /\ \A q \in Window!Requests \ {r} : conn'[q] = conn[q]
  BY <1>1
<1>3. JobsFit' /\ \A q : Queued(q)' <=> Queued(q)
  <2>1. \A q \in Window!Requests : Queued(q) => /\ conn'[q].to = conn[q].to /\ conn'[q].sent
                                                /\ conn'[q].at \in {"waiting", "replied", "shut"}
    BY <1>2, QueuedFacts
  <2> QED
    BY <2>1, JobsStay
<1>4. \A q \in Window!Requests : ConnFits(q)'
  BY <1>2 DEF WindowInv, ConnFits
<1>5. ASSUME NEW k \in Sends PROVE StatusFits(k)'
  <2>1. k \in Window!Requests /\ StatusFits(k) /\ ConnFits(k)
    BY DEF Window!Requests, WindowInv
  <2>2. CASE k = r
    BY <1>2, <1>3, <2>1, <2>2 DEF StatusFits
  <2>3. CASE k # r
    BY <1>2, <1>3, <2>1, <2>3 DEF StatusFits
  <2> QED
    BY <2>2, <2>3
<1>6. Window!TypeOK'
  BY <1>2 DEF WindowInv, Window!TypeOK, Conns
<1>7. LockIsOwned' /\ \A p \in Launches : LaunchFits(p)'
  <2>1. \A p \in Launches : launch[p].at # "secondary" => conn'[p].at = conn[p].at
    BY <1>2 DEF WindowInv, LaunchFits, Window!Requests
  <2> QED
    BY <2>1, LaunchesStay
<1> QED
  BY <1>3, <1>4, <1>5, <1>6, <1>7 DEF WindowInv

LEMMA ShutFacts ==
    ASSUME NEW c \in Conns
    PROVE  /\ Window!Shut(c) \in Conns /\ Window!Shut(c).at = "shut" /\ Window!Shut(c).to = c.to
           /\ Window!Shut(c).sent = c.sent /\ Window!Shut(c).answer = c.answer
BY DEF Window!Shut, Conns, Window!Stages

\* A connection that is in a stage until t.
Until(c, stage, t) == [c EXCEPT !.at = stage, !.due = t]

LEMMA StageFacts ==
    ASSUME NEW c \in Conns, NEW stage \in Window!Stages, NEW t \in Nat
    PROVE  /\ Until(c, stage, t) \in Conns
           /\ Until(c, stage, t).at = stage /\ Until(c, stage, t).due = t
           /\ Until(c, stage, t).to = c.to /\ Until(c, stage, t).sent = c.sent
           /\ Until(c, stage, t).answer = c.answer
BY DEF Conns, Until

LEMMA RespondsFacts ==
    ASSUME NEW c \in Conns, NEW answer \in {"ok", "error"}
    PROVE  /\ Window!Responds(c, answer) \in Conns
           /\ Window!Responds(c, answer).to = c.to /\ Window!Responds(c, answer).sent = c.sent
           /\ c.at = "waiting" => /\ Window!Responds(c, answer).at = "replied"
                                  /\ Window!Responds(c, answer).answer = answer
           /\ c.at # "waiting" => Window!Responds(c, answer) = c
BY DEF Window!Responds, Conns, Window!Stages, Window!Answers

LEMMA ThreadKeeps ==
    ASSUME WindowInv, NEW r \in Window!Requests,
           Window!Accept(r) \/ Window!IdleClient(r) \/ Window!WriteReply(r)
    PROVE  WindowInv'
<1>1. /\ conn \in [Window!Requests -> Conns] /\ conn[r] \in Conns /\ now \in Nat
      /\ accepts \subseteq Launches
  BY DEF WindowInv, Window!TypeOK, Conns
<1>2. CASE Window!Accept(r)
  <2>1. now + Window!IDLE_TIMEOUT \in Nat /\ "reading" \in Window!Stages
    BY <1>1 DEF Window!IDLE_TIMEOUT, Window!Stages
  <2>2. PICK c \in Conns : /\ conn' = [conn EXCEPT ![r] = c] /\ c.at \in {"reading", "shut"}
                           /\ c.to = conn[r].to /\ c.sent = conn[r].sent
                           /\ c.answer = conn[r].answer
    <3>1. CASE Window!Cardinality(Window!Served(conn[r].to)) >= MaxClients
      <4>1. conn' = [conn EXCEPT ![r] = Window!Shut(conn[r])]
        BY <1>1, <1>2, <3>1 DEF Window!Accept
      <4> QED
        BY <1>1, <4>1, ShutFacts
    <3>2. CASE ~ (Window!Cardinality(Window!Served(conn[r].to)) >= MaxClients)
      <4>1. conn' = [conn EXCEPT ![r] = Until(conn[r], "reading", now + Window!IDLE_TIMEOUT)]
        BY <1>1, <1>2, <3>2 DEF Window!Accept, Until
      <4> DEFINE c == Until(conn[r], "reading", now + Window!IDLE_TIMEOUT)
      <4>2. /\ c \in Conns /\ c.at = "reading" /\ c.to = conn[r].to /\ c.sent = conn[r].sent
            /\ c.answer = conn[r].answer
        BY <1>1, <2>1, StageFacts
      <4> QED
        BY <4>1, <4>2
    <3> QED
      BY <3>1, <3>2
  <2>3. conn[r].at = "backlog" /\ UNCHANGED <<launch, lock, path, accepts, jobs, status, done, now>>
    BY <1>2 DEF Window!Accept
  <2> QED
    BY <1>1, <2>2, <2>3, ConnStep
<1>3. CASE Window!IdleClient(r)
  <2>1. /\ conn[r].at = "reading" /\ conn' = [conn EXCEPT ![r] = Window!Shut(conn[r])]
        /\ UNCHANGED <<launch, lock, path, accepts, jobs, status, done, now>>
    BY <1>1, <1>3 DEF Window!IdleClient
  <2> QED
    BY <1>1, <2>1, ShutFacts, ConnStep
<1>4. CASE Window!WriteReply(r)
  <2>1. /\ conn[r].at = "replied" /\ conn' = [conn EXCEPT ![r] = Window!Shut(conn[r])]
        /\ UNCHANGED <<launch, lock, path, accepts, jobs, status, done, now>>
    BY <1>1, <1>4 DEF Window!WriteReply
  <2> QED
    BY <1>1, <2>1, ShutFacts, ConnStep
<1> QED
  BY <1>2, <1>3, <1>4

\* recv_timeout ends after send_request has given up: the second deadline is the later one.
LEMMA ReplyTimesOutKeeps ==
    ASSUME WindowInv, NEW r \in Window!Requests, Window!ReplyTimesOut(r)
    PROVE  WindowInv'
<1>1. conn \in [Window!Requests -> Conns] /\ conn[r] \in Conns /\ now \in Nat
  BY DEF WindowInv, Window!TypeOK, Conns
<1>2. /\ conn[r].at = "waiting" /\ now >= conn[r].due
      /\ conn' = [conn EXCEPT ![r] = Window!Responds(conn[r], "error")]
      /\ UNCHANGED <<launch, lock, path, accepts, jobs, status, done, now>>
  BY <1>1 DEF Window!ReplyTimesOut
<1>3. r \in Sends => status[r].at # "waiting"
  <2>1. SUFFICES ASSUME r \in Sends, status[r].at = "waiting" PROVE FALSE
    OBVIOUS
  <2>2. now <= status[r].due /\ status[r].due < conn[r].due
    BY <1>2, <2>1 DEF WindowInv, StatusFits
  <2>3. status[r].due \in Nat /\ conn[r].due \in Nat
    BY <1>1, <2>1 DEF WindowInv, Window!TypeOK, Conns
  <2> QED
    BY <1>1, <1>2, <2>2, <2>3
<1>4. accepts' \subseteq Launches
  BY <1>2 DEF WindowInv, Window!TypeOK
<1> QED
  BY <1>1, <1>2, <1>3, <1>4, RespondsFacts, ConnStep

\* serve_client queues r: whoever waits for it has written it, and gives up first.
LEMMA QueueKeeps ==
    ASSUME WindowInv, NEW r \in Window!Requests, Window!Queue(r)
    PROVE  WindowInv'
<1>1. /\ conn \in [Window!Requests -> Conns] /\ conn[r] \in Conns /\ now \in Nat
      /\ conn[r].at = "reading" /\ conn[r].sent
      /\ UNCHANGED <<launch, lock, path, accepts, status, done, now>>
  BY DEF WindowInv, Window!TypeOK, Conns, Window!Queue
<1>2. /\ conn' \in [Window!Requests -> Conns]
      /\ \A q \in Window!Requests \ {r} : conn'[q] = conn[q]
      /\ conn'[r].to = conn[r].to /\ conn'[r].sent /\ conn'[r].answer = conn[r].answer
      /\ conn'[r].at = "waiting" /\ conn'[r].due = now + Window!REPLY_TIMEOUT
  <2>1. conn' = [conn EXCEPT ![r] = Until(conn[r], "waiting", Window!ReplyDue)]
    BY <1>1 DEF Window!Queue, Until
  <2>2. Window!ReplyDue = now + Window!REPLY_TIMEOUT /\ Window!ReplyDue \in Nat /\ "waiting" \in Window!Stages
    BY <1>1 DEF Window!ReplyDue, Window!REPLY_TIMEOUT, Window!Stages
  <2>3. PICK c \in Conns : /\ conn' = [conn EXCEPT ![r] = c] /\ c.at = "waiting"
                           /\ c.due = Window!ReplyDue /\ c.to = conn[r].to /\ c.sent = conn[r].sent
                           /\ c.answer = conn[r].answer
    <3> DEFINE c == Until(conn[r], "waiting", Window!ReplyDue)
    <3>1. /\ c \in Conns /\ c.at = "waiting" /\ c.due = Window!ReplyDue /\ c.to = conn[r].to
          /\ c.sent = conn[r].sent /\ c.answer = conn[r].answer
      <4>1. conn[r] \in Conns /\ Window!ReplyDue \in Nat /\ "waiting" \in Window!Stages
        BY <1>1, <2>2
      <4> QED
        BY <4>1, StageFacts
    <3> QED
      BY <2>1, <3>1
  <2> QED
    BY <1>1, <2>2, <2>3
<1>3. conn[r].to \in Launches
  <2>1. conn[r].to \in Launches \cup {Window!Nobody}
    BY <1>1 DEF Conns
  <2>2. conn[r].to # Window!Nobody
    BY <1>1 DEF WindowInv, ConnFits
  <2> QED
    BY <2>1, <2>2
<1>4. ~ Queued(r)
  BY <1>1, NotQueued
<1>5. /\ JobsFit' /\ jobs' \in [Launches -> Seq(Window!Requests)]
      /\ \A x : Queued(x)' => Queued(x) \/ x = r
  BY <1>1, <1>2, <1>3, <1>4, JobsAdded DEF Window!Queue
<1>6. \A q \in Window!Requests : ConnFits(q)'
  BY <1>1, <1>2 DEF WindowInv, ConnFits
<1>7. ASSUME NEW k \in Sends PROVE StatusFits(k)'
  <2>1. k \in Window!Requests /\ StatusFits(k) /\ ConnFits(k) /\ status[k].due \in Nat
    BY DEF Window!Requests, WindowInv, Window!TypeOK
  <2>2. CASE k = r
    BY <1>1, <1>2, <2>1, <2>2 DEF StatusFits, ConnFits, Window!REPLY_TIMEOUT,
       Window!RESPONSE_TIMEOUT
  <2>3. CASE k # r
    BY <1>1, <1>2, <1>5, <2>1, <2>3 DEF StatusFits
  <2> QED
    BY <2>2, <2>3
<1>8. Window!TypeOK'
  BY <1>1, <1>2, <1>5 DEF WindowInv, Window!TypeOK, Conns
<1>9. LockIsOwned' /\ \A p \in Launches : LaunchFits(p)'
  <2>1. \A p \in Launches : launch[p].at # "secondary" => conn'[p].at = conn[p].at
    BY <1>1, <1>2 DEF WindowInv, LaunchFits, Window!Requests
  <2> QED
    BY <1>1, <2>1, LaunchesStay
<1> QED
  BY <1>5, <1>6, <1>7, <1>8, <1>9 DEF WindowInv

\* A UI thread takes the next request: it is carried out and answered "ok", or it is not and
\* answered "error".  An answer reaches only a thread that still waits.
LEMMA TakeKeeps ==
    ASSUME WindowInv, NEW p \in Launches, Window!Serve(p) \/ Window!Refuse(p)
    PROVE  WindowInv'
<1>1. /\ conn \in [Window!Requests -> Conns] /\ jobs[p] # <<>>
      /\ jobs \in [Launches -> Seq(Window!Requests)]
      /\ jobs' = [jobs EXCEPT ![p] = Tail(jobs[p])]
      /\ UNCHANGED <<launch, lock, path, accepts, status, now>>
  BY DEF WindowInv, Window!TypeOK, Conns, Window!Serve, Window!Refuse
<1>2. PICK r \in Window!Requests : r = Head(jobs[p]) /\ Queued(r)
  <2>1. jobs[p] \in Seq(Window!Requests)
    BY <1>1
  <2>2. Len(jobs[p]) \in Nat /\ 1 \in 1 .. Len(jobs[p]) /\ Head(jobs[p]) = jobs[p][1]
    BY <1>1, <2>1
  <2> QED
    BY <2>2, QueuedIsRequest DEF WindowInv
<1>3. conn[r].sent /\ conn[r].at \in {"waiting", "replied", "shut"} /\ conn[r] \in Conns
  BY <1>1, <1>2, QueuedFacts
<1>4. PICK answer \in {"ok", "error"} :
        /\ conn' = [conn EXCEPT ![r] = Window!Responds(conn[r], answer)]
        /\ done' = IF answer = "ok" THEN done \cup {r} ELSE done
  <2>1. CASE Window!Serve(p)
    BY <1>1, <1>2, <2>1 DEF Window!Serve
  <2>2. CASE Window!Refuse(p)
    BY <1>1, <1>2, <2>2 DEF Window!Refuse
  <2> QED
    BY <2>1, <2>2
<1>5. /\ conn' \in [Window!Requests -> Conns] /\ \A q \in Window!Requests \ {r} : conn'[q] = conn[q]
      /\ conn'[r].to = conn[r].to /\ conn'[r].sent
      /\ conn[r].at = "waiting" => conn'[r].at = "replied" /\ conn'[r].answer = answer
      /\ conn[r].at # "waiting" => conn'[r] = conn[r]
  <2>1. conn' = [conn EXCEPT ![r] = Window!Responds(conn[r], answer)]
    BY <1>4
  <2>2. /\ Window!Responds(conn[r], answer) \in Conns
        /\ Window!Responds(conn[r], answer).to = conn[r].to
        /\ Window!Responds(conn[r], answer).sent = conn[r].sent
        /\ conn[r].at = "waiting" => /\ Window!Responds(conn[r], answer).at = "replied"
                                     /\ Window!Responds(conn[r], answer).answer = answer
        /\ conn[r].at # "waiting" => Window!Responds(conn[r], answer) = conn[r]
    <3>1. conn[r] \in Conns
      BY <1>3
    <3> QED
      BY <3>1, RespondsFacts
  <2> QED
    BY <1>1, <1>2, <1>3, <2>1, <2>2
<1>6. /\ JobsFit' /\ jobs' \in [Launches -> Seq(Window!Requests)]
      /\ \A q : Queued(q)' => Queued(q) /\ q # r
  <2>1. \A q \in Window!Requests : Queued(q) => /\ conn'[q].to = conn[q].to /\ conn'[q].sent
                                                /\ conn'[q].at \in {"waiting", "replied", "shut"}
    BY <1>3, <1>5, QueuedFacts
  <2> QED
    BY <1>1, <1>2, <2>1, JobsTaken
<1>7. \A q \in Window!Requests : ConnFits(q)'
  <2>1. \A q \in Window!Requests \ {r} : ConnFits(q)'
    BY <1>4, <1>5 DEF WindowInv, ConnFits
  <2>2. ConnFits(r)'
    <3>1. ConnFits(r)
      BY <1>2 DEF WindowInv
    <3>2. CASE conn[r].at = "waiting"
      BY <1>3, <1>4, <1>5, <3>1, <3>2 DEF ConnFits
    <3>3. CASE conn[r].at # "waiting"
      BY <1>3, <1>4, <1>5, <3>1, <3>3 DEF ConnFits
    <3> QED
      BY <3>2, <3>3
  <2> QED
    BY <2>1, <2>2
<1>8. ASSUME NEW k \in Sends PROVE StatusFits(k)'
  <2>1. k \in Window!Requests /\ StatusFits(k) /\ ConnFits(k)
    BY DEF Window!Requests, WindowInv
  <2>2. CASE k # r
    BY <1>1, <1>4, <1>5, <1>6, <2>1, <2>2 DEF StatusFits
  <2>3. CASE k = r /\ conn[r].at = "waiting"
    BY <1>1, <1>2, <1>4, <1>5, <1>6, <2>1, <2>3 DEF StatusFits, ConnFits
  <2>4. CASE k = r /\ conn[r].at # "waiting"
    BY <1>1, <1>2, <1>3, <1>4, <1>5, <1>6, <2>1, <2>4 DEF StatusFits
  <2> QED
    BY <2>2, <2>3, <2>4
<1>9. Window!TypeOK'
  <2>1. done' \subseteq Window!Requests
    BY <1>2, <1>4 DEF WindowInv, Window!TypeOK
  <2> QED
    BY <1>1, <1>5, <1>6, <2>1 DEF WindowInv, Window!TypeOK, Conns
<1>10. LockIsOwned' /\ \A q \in Launches : LaunchFits(q)'
  <2>1. \A q \in Launches : launch[q].at # "secondary" => conn'[q].at = conn[q].at
    BY <1>3, <1>5 DEF WindowInv, LaunchFits, Window!Requests
  <2> QED
    BY <1>1, <2>1, LaunchesStay
<1> QED
  BY <1>6, <1>7, <1>8, <1>9, <1>10 DEF WindowInv

\* The connections that end do so without an answer, and no queue gains a request: whoever
\* waits is left uncertain, whoever has given up stays right.
LEMMA ShutAll ==
    ASSUME WindowInv, NEW S \in SUBSET Window!Requests,
           conn' \in [Window!Requests -> Conns], JobsFit',
           \A r \in Window!Requests \ S : conn'[r] = conn[r],
           \A r \in S : /\ conn[r].at # "none" /\ conn[r].to # Window!Nobody
                        /\ conn'[r].at = "shut" /\ conn'[r].to = conn[r].to
                        /\ conn'[r].sent = conn[r].sent /\ conn'[r].answer = "none",
           \A r : Queued(r)' => Queued(r),
           UNCHANGED <<status, done, now>>
    PROVE  /\ \A r \in Window!Requests : ConnFits(r)'
           /\ \A k \in Sends : StatusFits(k)'
<1>1. ASSUME NEW r \in Window!Requests PROVE ConnFits(r)'
  <2>1. ConnFits(r)
    BY DEF WindowInv
  <2>2. CASE r \in S
    BY <2>1, <2>2 DEF ConnFits
  <2>3. CASE r \notin S
    BY <2>1, <2>3 DEF ConnFits
  <2> QED
    BY <2>2, <2>3
<1>2. ASSUME NEW k \in Sends PROVE StatusFits(k)'
  <2>1. k \in Window!Requests /\ StatusFits(k)
    BY DEF WindowInv, Window!Requests
  <2>2. CASE k \in S
    BY <2>1, <2>2 DEF StatusFits
  <2>3. CASE k \notin S
    BY <2>1, <2>3 DEF StatusFits
  <2> QED
    BY <2>2, <2>3
<1> QED
  BY <1>1, <1>2

LEMMA AcceptEndsKeeps ==
    ASSUME WindowInv, NEW p \in Launches, Window!AcceptEnds(p)
    PROVE  WindowInv'
<1> DEFINE S == {r \in Window!Requests : conn[r].to = p /\ conn[r].at = "backlog"}
<1>1. /\ conn \in [Window!Requests -> Conns] /\ accepts' \subseteq Launches
      /\ UNCHANGED <<launch, lock, path, jobs, status, done, now>>
      /\ conn' = [r \in Window!Requests |-> IF r \in S THEN Window!Shut(conn[r]) ELSE conn[r]]
  BY DEF WindowInv, Window!TypeOK, Conns, Window!AcceptEnds
<1>2. \A r \in S : /\ r \in Window!Requests /\ conn[r].at = "backlog" /\ conn[r].to # Window!Nobody
                   /\ conn[r].answer = "none"
  BY WindowNames DEF WindowInv, ConnFits
<1>3. S \in SUBSET Window!Requests
  OBVIOUS
<1> HIDE DEF S
<1>4. /\ conn' \in [Window!Requests -> Conns] /\ \A r \in Window!Requests \ S : conn'[r] = conn[r]
      /\ \A r \in S : /\ conn'[r].at = "shut" /\ conn'[r].to = conn[r].to
                      /\ conn'[r].sent = conn[r].sent /\ conn'[r].answer = conn[r].answer
  BY <1>1, <1>3, ShutFacts
<1>5. JobsFit' /\ \A r : Queued(r)' <=> Queued(r)
  <2>1. \A r \in Window!Requests : Queued(r) => r \notin S
    BY <1>2, QueuedFacts
  <2> QED
    BY <1>1, <1>4, <2>1, QueuedFacts, JobsStay
<1>6. (\A r \in Window!Requests : ConnFits(r)') /\ (\A k \in Sends : StatusFits(k)')
  BY <1>1, <1>2, <1>3, <1>4, <1>5, ShutAll
<1>7. Window!TypeOK'
  BY <1>1, <1>4 DEF WindowInv, Window!TypeOK, Conns
<1>8. LockIsOwned' /\ \A q \in Launches : LaunchFits(q)'
  <2>1. \A q \in Launches : launch[q].at # "secondary" => conn'[q].at = conn[q].at
    BY <1>2, <1>4 DEF WindowInv, LaunchFits, Window!Requests
  <2> QED
    BY <1>1, <2>1, LaunchesStay
<1> QED
  BY <1>5, <1>6, <1>7, <1>8 DEF WindowInv

\* A connection that ends with its process: an answer that was not written is lost.
Broken(c) == [Window!Shut(c) EXCEPT !.answer = "none"]

LEMMA BrokenFacts ==
    ASSUME NEW c \in Conns
    PROVE  /\ Broken(c) \in Conns /\ Broken(c).at = "shut" /\ Broken(c).to = c.to
           /\ Broken(c).sent = c.sent /\ Broken(c).answer = "none"
BY DEF Broken, Window!Shut, Conns, Window!Stages, Window!Answers

LEMMA EndsKeeps ==
    ASSUME WindowInv, NEW p \in Launches, Window!Ends(p)
    PROVE  WindowInv'
<1> DEFINE S == {r \in Window!Requests : conn[r].to = p /\ conn[r].at # "shut"}
<1>1. /\ conn \in [Window!Requests -> Conns] /\ launch \in [Launches -> Moved]
      /\ launch[p].at \in Owning /\ launch' = [launch EXCEPT ![p].at = "gone"]
      /\ lock' = IF lock = p THEN Window!Nobody ELSE lock
      /\ jobs' = [jobs EXCEPT ![p] = <<>>]
      /\ accepts' = accepts \ {p} /\ UNCHANGED <<path, status, done, now>>
  BY DEF WindowInv, Window!TypeOK, Conns, Moved, Window!Ends, Owning
<1>2. conn' = [r \in Window!Requests |-> IF r \in S THEN Broken(conn[r]) ELSE conn[r]]
  BY DEF Window!Ends, Broken
<1>3. \A r \in S : r \in Window!Requests /\ conn[r].to = p /\ conn[r].to # Window!Nobody /\ conn[r].at # "none"
  BY WindowNames DEF WindowInv, ConnFits
<1>4. S \in SUBSET Window!Requests
  OBVIOUS
<1>5. \A r \in Window!Requests : conn[r].to # p => r \notin S
  OBVIOUS
<1> HIDE DEF S
<1>6. /\ conn' \in [Window!Requests -> Conns] /\ \A r \in Window!Requests \ S : conn'[r] = conn[r]
      /\ \A r \in S : /\ conn'[r].at = "shut" /\ conn'[r].to = conn[r].to
                      /\ conn'[r].sent = conn[r].sent /\ conn'[r].answer = "none"
  BY <1>1, <1>2, <1>4, BrokenFacts
<1>7. /\ JobsFit' /\ jobs' \in [Launches -> Seq(Window!Requests)]
      /\ \A r : Queued(r)' => Queued(r)
  BY <1>1, <1>5, <1>6, JobsDropped
<1>8. (\A r \in Window!Requests : ConnFits(r)') /\ (\A k \in Sends : StatusFits(k)')
  BY <1>1, <1>3, <1>4, <1>6, <1>7, ShutAll
<1>9. /\ launch' \in [Launches -> Moved] /\ launch'[p].at = "gone"
      /\ \A q \in Launches \ {p} : launch'[q] = launch[q]
  BY <1>1 DEF Moved, Window!Phases
<1>10. Window!TypeOK'
  BY <1>1, <1>6, <1>7, <1>9 DEF WindowInv, Window!TypeOK, Conns, Moved
<1>11. LockIsOwned'
  BY <1>1, <1>9 DEF WindowInv, LockIsOwned, Owning
<1>12. \A q \in Launches : LaunchFits(q)'
  <2>1. \A q \in Launches : launch[q].at # "secondary" => conn'[q].at = "none"
    BY <1>3, <1>6 DEF WindowInv, LaunchFits, Window!Requests
  <2>2. launch[p].at # "secondary"
    BY <1>1 DEF Owning
  <2> QED
    BY <1>9, <2>1, <2>2 DEF WindowInv, LaunchFits
<1> QED
  BY <1>7, <1>8, <1>10, <1>11, <1>12 DEF WindowInv

-----------------------------------------------------------------------------
(* omairc send *)

\* A step that only moves the program k: the others wait as before.
LEMMA ExitStep ==
    ASSUME WindowInv, NEW k \in Sends, NEW how \in Window!Statuses, NEW from \in Window!Statuses,
           Window!Exits(k, from, how),
           UNCHANGED <<launch, lock, path, accepts, jobs, conn, done, now>>,
           how \in {"ok", "failed", "uncertain"},
           how = "ok" => k \in done,
           how = "failed" => k \notin done /\ ~ Queued(k) /\ conn[k].at \in {"none", "shut"}
    PROVE  WindowInv'
<1>1. /\ status \in [Sends -> [at : Window!Statuses, due : Nat]]
      /\ status' = [status EXCEPT ![k] = [at |-> how, due |-> 0]]
  BY DEF WindowInv, Window!TypeOK, Window!Exits
<1>2. /\ status' \in [Sends -> [at : Window!Statuses, due : Nat]] /\ status'[k].at = how
      /\ \A j \in Sends \ {k} : status'[j] = status[j]
  BY <1>1
<1>3. \A r : Queued(r)' <=> Queued(r)
  BY DEF Queued
<1>4. \A j \in Sends : StatusFits(j)'
  BY <1>2, <1>3 DEF WindowInv, StatusFits
<1>5. Window!TypeOK'
  BY <1>2 DEF WindowInv, Window!TypeOK
<1>6. JobsFit' /\ \A r \in Window!Requests : ConnFits(r)'
  BY DEF WindowInv, JobsFit, ConnFits
<1>7. LockIsOwned' /\ \A p \in Launches : LaunchFits(p)'
  BY LaunchesStay
<1> QED
  BY <1>4, <1>5, <1>6, <1>7 DEF WindowInv

LEMMA ConnectKeeps ==
    ASSUME WindowInv, NEW k \in Sends, Window!Connect(k)
    PROVE  WindowInv'
<1>1. /\ k \in Window!Requests /\ k \notin Launches /\ status[k].at = "new" /\ conn[k].at = "none"
      /\ status \in [Sends -> [at : Window!Statuses, due : Nat]]
      /\ "new" \in Window!Statuses /\ "failed" \in Window!Statuses
  BY WindowNames DEF WindowInv, Window!TypeOK, StatusFits, Window!Requests, Window!Connect,
     Window!Exits, Window!Statuses
<1>2. CASE ~ Window!Listening
  <2>1. k \notin done /\ ~ Queued(k)
    BY <1>1, NotQueued DEF WindowInv, ConnFits
  <2>2. /\ Window!Exits(k, "new", "failed")
        /\ UNCHANGED <<launch, lock, path, accepts, jobs, conn, done, now>>
    BY <1>2 DEF Window!Connect
  <2> QED
    BY <1>1, <2>1, <2>2, ExitStep
<1>3. CASE Window!Listening
  <2>1. /\ conn' = [conn EXCEPT ![k] = Window!Connects(k, FALSE)]
        /\ UNCHANGED <<launch, lock, path, accepts, jobs, done, now>>
        /\ status' = [status EXCEPT ![k] = [at |-> "connected", due |-> 0]]
    BY <1>3 DEF Window!Connect, Window!Exits
  <2>2. /\ conn' \in [Window!Requests -> Conns] /\ JobsFit' /\ \A q \in Window!Requests : ConnFits(q)'
        /\ \A q : Queued(q)' <=> Queued(q)
        /\ conn'[k].at = "backlog" /\ conn'[k].sent = FALSE
        /\ \A q \in Window!Requests \ {k} : conn'[q] = conn[q]
    BY <1>1, <1>3, <2>1, ConnectStep
  <2>3. /\ status' \in [Sends -> [at : Window!Statuses, due : Nat]] /\ status'[k].at = "connected"
        /\ \A j \in Sends \ {k} : status'[j] = status[j]
    BY <1>1, <2>1 DEF Window!Statuses
  <2>4. Window!TypeOK'
    BY <2>1, <2>2, <2>3 DEF WindowInv, Window!TypeOK, Conns
  <2>5. LockIsOwned' /\ \A p \in Launches : LaunchFits(p)'
    <3>1. \A p \in Launches : conn'[p].at = conn[p].at
      BY <1>1, <2>2 DEF Window!Requests
    <3> QED
      BY <2>1, <3>1, LaunchesStay
  <2>6. ASSUME NEW j \in Sends PROVE StatusFits(j)'
    <3>1. CASE j = k
      BY <2>2, <2>3, <3>1 DEF StatusFits
    <3>2. CASE j # k
      BY <2>1, <2>2, <2>3, <3>2 DEF WindowInv, StatusFits, Window!Requests
    <3> QED
      BY <3>1, <3>2
  <2> QED
    BY <2>2, <2>4, <2>5, <2>6 DEF WindowInv
<1> QED
  BY <1>2, <1>3

LEMMA WriteRequestKeeps ==
    ASSUME WindowInv, NEW k \in Sends, Window!WriteRequest(k)
    PROVE  WindowInv'
<1>1. /\ k \in Window!Requests /\ k \notin Launches /\ status[k].at = "connected"
      /\ conn[k].at # "none" /\ ~ conn[k].sent
      /\ status \in [Sends -> [at : Window!Statuses, due : Nat]]
      /\ conn \in [Window!Requests -> Conns] /\ now \in Nat
      /\ "connected" \in Window!Statuses /\ "failed" \in Window!Statuses
      /\ ConnFits(k)
  BY WindowNames DEF WindowInv, Window!TypeOK, StatusFits, Window!Requests, Window!WriteRequest,
     Window!Statuses, Conns
<1>2. k \notin done /\ conn[k].answer = "none" /\ ~ Queued(k)
  BY <1>1, QueuedFacts DEF ConnFits
<1>3. CASE conn[k].at = "shut"
  <2>1. /\ Window!Exits(k, "connected", "failed")
        /\ UNCHANGED <<launch, lock, path, accepts, jobs, conn, done, now>>
    BY <1>3 DEF Window!WriteRequest
  <2> QED
    BY <1>1, <1>2, <1>3, <2>1, ExitStep
<1>4. CASE conn[k].at # "shut"
  <2>1. /\ conn' = [conn EXCEPT ![k].sent = TRUE]
        /\ UNCHANGED <<launch, lock, path, accepts, jobs, done, now>>
        /\ status' = [status EXCEPT ![k] = [at |-> "waiting", due |-> now + Window!RESPONSE_TIMEOUT]]
    BY <1>4 DEF Window!WriteRequest
  <2>2. /\ conn' \in [Window!Requests -> Conns] /\ \A q \in Window!Requests \ {k} : conn'[q] = conn[q]
        /\ conn'[k].at = conn[k].at /\ conn'[k].to = conn[k].to /\ conn'[k].sent
        /\ conn'[k].answer = "none"
    BY <1>1, <1>2, <2>1 DEF Conns
  <2>3. /\ status' \in [Sends -> [at : Window!Statuses, due : Nat]] /\ status'[k].at = "waiting"
        /\ status'[k].due = now + Window!RESPONSE_TIMEOUT
        /\ \A j \in Sends \ {k} : status'[j] = status[j]
    BY <1>1, <2>1 DEF Window!Statuses, Window!RESPONSE_TIMEOUT
  <2>4. JobsFit' /\ \A q : Queued(q)' <=> Queued(q)
    <3>1. \A q \in Window!Requests : Queued(q) => conn'[q] = conn[q]
      BY <1>2, <2>2
    <3> QED
      BY <2>1, <3>1, QueuedFacts, JobsStay
  <2>5. ASSUME NEW q \in Window!Requests PROVE ConnFits(q)'
    <3>1. CASE q = k
      BY <1>1, <1>2, <1>4, <2>1, <2>2, <3>1 DEF ConnFits
    <3>2. CASE q # k
      BY <2>1, <2>2, <3>2 DEF WindowInv, ConnFits
    <3> QED
      BY <3>1, <3>2
  <2>6. ASSUME NEW j \in Sends PROVE StatusFits(j)'
    <3>1. CASE j = k
      <4>1. conn[k].at # "waiting"
        BY <1>1 DEF ConnFits
      <4> QED
        BY <1>1, <2>1, <2>2, <2>3, <3>1, <4>1 DEF StatusFits, Window!RESPONSE_TIMEOUT
    <3>2. CASE j # k
      BY <2>1, <2>2, <2>3, <2>4, <3>2 DEF WindowInv, StatusFits, Window!Requests
    <3> QED
      BY <3>1, <3>2
  <2>7. Window!TypeOK'
    BY <2>1, <2>2, <2>3 DEF WindowInv, Window!TypeOK, Conns
  <2>8. LockIsOwned' /\ \A p \in Launches : LaunchFits(p)'
    <3>1. \A p \in Launches : conn'[p].at = conn[p].at
      BY <1>1, <2>2 DEF Window!Requests
    <3> QED
      BY <2>1, <3>1, LaunchesStay
  <2> QED
    BY <2>4, <2>5, <2>6, <2>7, <2>8 DEF WindowInv
<1> QED
  BY <1>3, <1>4

\* The program believes the answer it reads: "ok" was carried out, and an "error" that comes
\* while it waits is not a time-out, so the request is neither done nor queued.
LEMMA ReadKeeps ==
    ASSUME WindowInv, NEW k \in Sends, Window!ReadReply(k) \/ Window!NoReply(k)
    PROVE  WindowInv'
<1>1. /\ k \in Window!Requests /\ ConnFits(k) /\ StatusFits(k) /\ conn[k].answer \in Window!Answers
      /\ {"waiting", "ok", "failed", "uncertain"} \subseteq Window!Statuses
  BY DEF WindowInv, Window!TypeOK, Window!Requests, Window!Statuses
<1>2. CASE Window!ReadReply(k)
  <2>1. /\ status[k].at = "waiting" /\ conn[k].at = "shut" /\ conn[k].answer # "none"
        /\ UNCHANGED <<launch, lock, path, accepts, jobs, conn, done, now>>
    BY <1>2 DEF Window!ReadReply, Window!Exits
  <2>2. CASE conn[k].answer = "ok"
    <3>1. Window!Exits(k, "waiting", "ok") /\ k \in done
      BY <1>1, <1>2, <2>2 DEF Window!ReadReply, ConnFits
    <3> QED
      BY <1>1, <2>1, <3>1, ExitStep
  <2>3. CASE conn[k].answer = "error"
    <3>1. Window!Exits(k, "waiting", "failed") /\ k \notin done /\ ~ Queued(k)
      BY <1>1, <1>2, <2>1, <2>3 DEF Window!ReadReply, StatusFits
    <3> QED
      BY <1>1, <2>1, <3>1, ExitStep
  <2> QED
    BY <1>1, <2>1, <2>2, <2>3 DEF Window!Answers
<1>3. CASE Window!NoReply(k)
  <2>1. /\ Window!Exits(k, "waiting", "uncertain")
        /\ UNCHANGED <<launch, lock, path, accepts, jobs, conn, done, now>>
    BY <1>3 DEF Window!NoReply
  <2> QED
    BY <1>1, <2>1, ExitStep
<1> QED
  BY <1>2, <1>3

LEMMA TickKeeps == ASSUME WindowInv, Window!Tick PROVE WindowInv'
<1>1. /\ now \in Nat /\ now' = now + 1 /\ now < MaxTime /\ MaxTime \in Nat
      /\ UNCHANGED <<launch, lock, path, accepts, jobs, conn, status, done>>
      /\ \A k \in Sends : status[k].at = "waiting" => now < status[k].due
      /\ status \in [Sends -> [at : Window!Statuses, due : Nat]]
  BY WindowNames DEF WindowInv, Window!TypeOK, Window!Tick
<1>2. Window!TypeOK'
  BY <1>1 DEF WindowInv, Window!TypeOK
<1>3. \A r : Queued(r)' <=> Queued(r)
  BY <1>1 DEF Queued
<1>4. \A k \in Sends : StatusFits(k)'
  BY <1>1, <1>3 DEF WindowInv, StatusFits, Window!RESPONSE_TIMEOUT
<1>5. JobsFit' /\ \A r \in Window!Requests : ConnFits(r)'
  BY <1>1 DEF WindowInv, JobsFit, ConnFits
<1>6. LockIsOwned' /\ \A p \in Launches : LaunchFits(p)'
  BY <1>1, LaunchesStay
<1> QED
  BY <1>2, <1>4, <1>5, <1>6 DEF WindowInv

-----------------------------------------------------------------------------
(* The theorems *)

LEMMA WindowStarts == ASSUME Window!Init PROVE WindowInv
<1>1. /\ \A r \in Window!Requests : conn[r] = Window!NoConn
      /\ \A p \in Launches : launch[p] = [at |-> "new", tries |-> 0] /\ jobs[p] = <<>>
      /\ \A k \in Sends : status[k] = [at |-> "new", due |-> 0]
      /\ done = {} /\ Launches \subseteq Window!Requests /\ Sends \subseteq Window!Requests
  BY DEF Window!Init, Window!Requests
<1>2. Window!TypeOK
  <2>1. Window!NoConn \in Conns
    BY DEF Window!NoConn, Conns, Window!Stages, Window!Answers
  <2>2. conn \in [Window!Requests -> Conns]
    BY <2>1 DEF Window!Init
  <2>3. launch \in [Launches -> [at : Window!Phases, tries : 0 .. Window!CLAIM_ATTEMPTS]]
    BY DEF Window!Init, Window!Phases, Window!CLAIM_ATTEMPTS
  <2>4. status \in [Sends -> [at : Window!Statuses, due : Nat]]
    BY DEF Window!Init, Window!Statuses
  <2>5. jobs \in [Launches -> Seq(Window!Requests)]
    BY DEF Window!Init
  <2> QED
    BY <2>2, <2>3, <2>4, <2>5, WindowNames DEF Window!Init, Window!TypeOK, Conns
<1>3. LockIsOwned /\ \A p \in Launches : LaunchFits(p)
  BY <1>1 DEF LockIsOwned, LaunchFits, Owning, Window!NoConn, Window!CLAIM_ATTEMPTS
<1>4. JobsFit /\ \A r \in Window!Requests : ConnFits(r)
  BY <1>1 DEF JobsFit, ConnFits, Window!NoConn
<1>5. \A k \in Sends : StatusFits(k)
  BY <1>1 DEF StatusFits, Window!NoConn
<1> QED
  BY <1>2, <1>3, <1>4, <1>5 DEF WindowInv

LEMMA WindowSteps == WindowInv /\ [Window!Next]_socketVars => WindowInv'
<1> SUFFICES ASSUME WindowInv, [Window!Next]_socketVars PROVE WindowInv'
  OBVIOUS
<1>1. CASE UNCHANGED socketVars
  <2>1. UNCHANGED <<launch, lock, path, accepts, jobs, conn, status, done, now>>
    BY <1>1 DEF socketVars
  <2>2. Window!TypeOK'
    BY <2>1 DEF WindowInv, Window!TypeOK
  <2> QED
    BY <2>1, <2>2, RequestsStay, LaunchesStay DEF WindowInv
<1>2. ASSUME NEW p \in Launches,
             \/ Window!TryLock(p) \/ Window!RemoveStale(p) \/ Window!Bind(p) \/ Window!BindFails(p)
             \/ Window!Notify(p) \/ Window!NotifyFails(p) \/ Window!AcceptEnds(p)
             \/ Window!Serve(p) \/ Window!Refuse(p) \/ Window!Close(p) \/ Window!Ends(p)
      PROVE  WindowInv'
  BY <1>2, LaunchStep, NotifyKeeps, AcceptEndsKeeps, TakeKeeps, EndsKeeps
<1>3. ASSUME NEW r \in Window!Requests,
             \/ Window!Accept(r) \/ Window!Queue(r) \/ Window!IdleClient(r)
             \/ Window!ReplyTimesOut(r) \/ Window!WriteReply(r)
      PROVE  WindowInv'
  BY <1>3, ThreadKeeps, QueueKeeps, ReplyTimesOutKeeps
<1>4. ASSUME NEW k \in Sends, \/ Window!Connect(k) \/ Window!WriteRequest(k)
                              \/ Window!ReadReply(k) \/ Window!NoReply(k)
      PROVE  WindowInv'
  BY <1>4, ConnectKeeps, WriteRequestKeeps, ReadKeeps
<1>5. CASE Window!Tick
  BY <1>5, TickKeeps
<1> QED
  BY <1>1, <1>2, <1>3, <1>4, <1>5 DEF Window!Next

LEMMA WindowHolds == MCSpec => []WindowInv
<1>1. MCInit => WindowInv
  BY WindowStarts DEF MCInit
<1>2. WindowInv /\ [MCNext]_<<vars, listVars, watchVars, socketVars, part>> => WindowInv'
  <2>1. [MCNext]_<<vars, listVars, watchVars, socketVars, part>> => [Window!Next]_socketVars
    BY DEF MCNext
  <2> QED
    BY <2>1, WindowSteps
<1> QED
  BY <1>1, <1>2, PTL DEF MCSpec

\* However many launches race for the lock, are killed at any step and start again, at most
\* one process is past the lock, and the path leads to its socket (singleinstance::acquire).
THEOREM OneWindowHolds == MCSpec => []OneWindow
<1>1. WindowInv => OneWindow
  BY DEF WindowInv, LockIsOwned, OneWindow, Window!OneWindow, Owning
<1> QED
  BY <1>1, WindowHolds, PTL

\* However slow the window is, whenever it closes or is killed and however many programs wait:
\* after exit 0 the message was sent, after exit 1 it was not and never will be
\* (send_request of cli.rs).
THEOREM ExitIsHonestHolds == MCSpec => []ExitIsHonest
<1>1. WindowInv => ExitIsHonest
  BY DEF WindowInv, StatusFits, ExitIsHonest, Window!ExitIsHonest
<1> QED
  BY <1>1, WindowHolds, PTL

=============================================================================
