------------------------------ MODULE Monitor ------------------------------
(***************************************************************************)
(* /monitor on one network (client/src/controller/monitorcoordinator.rs,   *)
(* with the welcome and the 005 of controller.rs and the stored list of    *)
(* storage/lists.rs): the nicks the user wants watched, what is known of   *)
(* each, and a server that keeps the list of this connection, reports the  *)
(* people on it as they come and go, and refuses what its list does not    *)
(* hold.                                                                   *)
(*                                                                         *)
(* Commands and reports cross on the wire, each way in order.  The stored  *)
(* list outlives the connection, and so does what was known: nothing but   *)
(* the next welcome clears it.                                             *)
(***************************************************************************)
EXTENDS Naturals, Sequences, FiniteSets, SequencesExt

CONSTANTS Nicks,
          Limits,       \* the MONITOR limits a server may advertise
          MaxCommands,  \* bound: /monitor and /unmonitor commands
          MaxComings,   \* bound: how often somebody comes or goes
          MaxWelcomes   \* bound: connections

VARIABLES stored,      \* the nicks of the MonitorStore, in the order they were added
          subscribed,  \* the list was sent on this connection
          presence,    \* per nick, the last report
          limit,       \* what the 005 of this connection said, or none yet
          welcomed,    \* the session is Registered
          commands,    \* MONITOR commands on their way
          reports,     \* numerics on their way
          watched,     \* the server's list for this connection
          capacity,    \* how many nicks it holds
          here,        \* the people who are online
          cut,         \* history: nicks the advertised limit kept off this connection
          crossed,     \* history: nicks added again before an earlier answer was read
          count        \* how many commands, comings and welcomes there were

vars == <<stored, subscribed, presence, limit, welcomed, commands, reports, watched, capacity,
          here, cut, crossed, count>>

NotAdvertised == 0
States == {"unknown", "online", "offline"}
Command(sign, nick) == [sign |-> sign, nick |-> nick]
Report(what, nick) == [what |-> what, nick |-> nick]
Nobody == "nobody"

TypeOK ==
    /\ stored \in Seq(Nicks) /\ IsInjective(stored)
    /\ subscribed \in BOOLEAN /\ welcomed \in BOOLEAN
    /\ presence \in [Nicks -> States]
    /\ limit \in Limits \cup {NotAdvertised} /\ capacity \in Limits
    /\ commands \in Seq([sign : {"+", "-"}, nick : Nicks])
    /\ reports \in Seq([what : {"001", "005", "online", "offline", "full"},
                        nick : Nicks \cup {Nobody}])
    /\ watched \subseteq Nicks /\ here \subseteq Nicks
    /\ cut \subseteq Nicks /\ crossed \subseteq Nicks
    /\ count \in [commands : 0 .. MaxCommands, comings : 0 .. MaxComings,
                  welcomes : 0 .. MaxWelcomes]

Unknown == [n \in Nicks |-> "unknown"]

Init ==
    /\ stored = <<>> /\ subscribed = FALSE /\ presence = Unknown
    /\ limit = NotAdvertised /\ welcomed = FALSE
    /\ commands = <<>> /\ reports = <<>>
    /\ watched = {} /\ capacity \in Limits /\ here = {}
    /\ cut = {} /\ crossed = {}
    /\ count = [commands |-> 0, comings |-> 0, welcomes |-> 0]

Counts(what, bound) ==
    count[what] < bound /\ count' = [count EXCEPT ![what] = @ + 1]

Listed == ToSet(stored)

\* CaseListStore::remove.  No nick is stored twice.
Without(n) ==
    IF n \in Listed THEN RemoveAt(stored, CHOOSE i \in DOMAIN stored : stored[i] = n) ELSE stored

Issue(sign, nicks) == commands' = commands \o [i \in DOMAIN nicks |-> Command(sign, nicks[i])]

-----------------------------------------------------------------------------
(* The user *)

\* Some answer to an earlier + of n is still to be read.
AnswerIsDue(n) ==
    \/ \E i \in DOMAIN commands : commands[i] = Command("+", n)
    \/ \E i \in DOMAIN reports : reports[i] = Report("full", n)

\* add_monitored, when it adds.  A network without MONITOR, a nick that is listed and a full
\* list are reported and change nothing.
AddMonitored(n) ==
    /\ welcomed /\ limit # NotAdvertised
    /\ n \notin Listed /\ Len(stored) < limit
    /\ Counts("commands", MaxCommands)
    /\ stored' = Append(stored, n)
    /\ Issue("+", <<n>>)
    /\ crossed' = IF AnswerIsDue(n) THEN crossed \cup {n} ELSE crossed
    /\ UNCHANGED <<subscribed, presence, limit, welcomed, reports, watched, capacity, here, cut>>

Forgotten(n) == [presence EXCEPT ![n] = "unknown"]

\* remove_monitored, when it removes.
RemoveMonitored(n) ==
    /\ welcomed /\ n \in Listed
    /\ Counts("commands", MaxCommands)
    /\ stored' = Without(n)
    /\ presence' = Forgotten(n)
    /\ Issue("-", <<n>>)
    /\ cut' = cut \ {n}
    /\ UNCHANGED <<subscribed, limit, welcomed, reports, watched, capacity, here, crossed>>

-----------------------------------------------------------------------------
(* What comes in *)

Receives(what) == reports # <<>> /\ Head(reports).what = what /\ reports' = Tail(reports)
Named == Head(reports).nick

\* Variant: the welcome leaves the subscription of the last connection standing.
SubscriptionKept == subscribed

\* monitor_forget_presence.
SubscriptionForgotten == FALSE

\* 001: the session is Registered, its features and what was known are gone.
Welcome ==
    /\ Receives("001")
    /\ welcomed' = TRUE /\ limit' = NotAdvertised
    /\ subscribed' = SubscriptionForgotten /\ presence' = Unknown
    /\ UNCHANGED <<stored, commands, watched, capacity, here, cut, crossed, count>>

\* apply_isupport and monitor_subscribe: the stored list is sent, as much of it as fits.
Isupport ==
    /\ Receives("005")
    /\ limit' = capacity
    /\ IF subscribed
       THEN UNCHANGED <<subscribed, presence, commands, cut>>
       ELSE LET nicks == SubSeq(stored, 1, IF Len(stored) < capacity THEN Len(stored) ELSE capacity)
            IN /\ subscribed' = TRUE /\ presence' = Unknown
               /\ Issue("+", nicks)
               /\ cut' = Listed \ ToSet(nicks)
    /\ UNCHANGED <<stored, welcomed, watched, capacity, here, crossed, count>>

\* handle_monitor_presence: 730 or 731.
Presence(what) ==
    /\ Receives(what)
    /\ presence' = IF Named \in Listed THEN [presence EXCEPT ![Named] = what] ELSE presence
    /\ UNCHANGED <<stored, subscribed, limit, welcomed, commands, watched, capacity, here, cut,
                   crossed, count>>

\* handle_monitor_list_full: 734 takes the nick off the stored list.
ListFull ==
    /\ Receives("full")
    /\ stored' = Without(Named)
    /\ presence' = Forgotten(Named)
    /\ UNCHANGED <<subscribed, limit, welcomed, commands, watched, capacity, here, cut, crossed,
                   count>>

-----------------------------------------------------------------------------
(* The server and the connection *)

Tells(what, n) == reports' = Append(reports, Report(what, n))
Whereabouts(n) == IF n \in here THEN "online" ELSE "offline"

\* The list may hold less than was advertised.
Obey ==
    /\ commands # <<>>
    /\ commands' = Tail(commands)
    /\ LET n == Head(commands).nick
       IN \/ /\ Head(commands).sign = "-"
             /\ watched' = watched \ {n} /\ UNCHANGED reports
          \/ /\ Head(commands).sign = "+"
             /\ n \in watched \/ Cardinality(watched) < capacity
             /\ watched' = watched \cup {n} /\ Tells(Whereabouts(n), n)
          \/ /\ Head(commands).sign = "+" /\ n \notin watched
             /\ Tells("full", n) /\ UNCHANGED watched
    /\ UNCHANGED <<stored, subscribed, presence, limit, welcomed, capacity, here, cut, crossed,
                   count>>

\* Somebody comes or goes.
Move(n) ==
    /\ Counts("comings", MaxComings)
    /\ here' = IF n \in here THEN here \ {n} ELSE here \cup {n}
    /\ IF n \in watched THEN Tells(IF n \in here THEN "offline" ELSE "online", n)
                        ELSE UNCHANGED reports
    /\ UNCHANGED <<stored, subscribed, presence, limit, welcomed, commands, watched, capacity, cut,
                   crossed>>

\* A connection registers: its list is empty and may hold another number of nicks.
Register ==
    /\ ~ welcomed /\ reports = <<>>
    /\ Counts("welcomes", MaxWelcomes)
    /\ capacity' \in Limits
    /\ reports' = <<Report("001", Nobody), Report("005", Nobody)>>
    /\ cut' = {} /\ crossed' = {}
    /\ UNCHANGED <<stored, subscribed, presence, limit, welcomed, commands, watched, here>>

\* The connection is lost, with what is on its way.
Disconnect ==
    /\ welcomed
    /\ welcomed' = FALSE
    /\ commands' = <<>> /\ reports' = <<>> /\ watched' = {}
    /\ UNCHANGED <<stored, subscribed, presence, limit, capacity, here, cut, crossed, count>>

-----------------------------------------------------------------------------

Next ==
    \/ \E n \in Nicks : AddMonitored(n) \/ RemoveMonitored(n) \/ Move(n)
    \/ \E what \in {"online", "offline"} : Presence(what)
    \/ Welcome \/ Isupport \/ ListFull \/ Obey \/ Register \/ Disconnect

Spec == Init /\ [][Next]_vars

-----------------------------------------------------------------------------
(* Properties *)

Quiet == welcomed /\ commands = <<>> /\ reports = <<>>

\* Once nothing is on its way, the list the user sees is the one the server keeps, and it
\* shows where each nick is: through additions, removals, refusals, people coming and going
\* and reconnections with another limit.  Two cases are excepted.  A nick the limit cut off
\* stays listed and unwatched for the connection, even when others are removed.  A refusal
\* read after the nick was removed and added again takes it off the list, while the server
\* may have accepted the second request.
WatchIsTrue ==
    Quiet => /\ Listed \ crossed = (watched \cup cut) \ crossed
             /\ \A n \in Listed \ cut : presence[n] = Whereabouts(n)

=============================================================================
