----------------------------- MODULE MCDesktop -----------------------------
(***************************************************************************)
(* Small instances of four parts of the desktop client that share nothing  *)
(* but the UI thread: away by hand and by idleness, /list, /monitor, and   *)
(* the lock and the control socket of the window.  A behaviour is one of   *)
(* one part.                                                               *)
(***************************************************************************)
EXTENDS AutoAway

CONSTANTS Masks, MaxLists, MaxTrouble,
          Nicks, Limits, MaxCommands, MaxComings, MaxWelcomes,
          Launches, Sends, MaxClients, MaxTime

VARIABLES list, view, online, asked, lines, lists, trouble, late, mixed,
          stored, subscribed, presence, limit, welcomed, commands, reports, watched, capacity,
          here, cut, crossed, count,
          launch, lock, path, accepts, jobs, conn, status, done, now,
          part   \* which of the four moves

Lists == INSTANCE ChannelList
Watching == INSTANCE Monitor
Window == INSTANCE Ipc

\* A launch is not a send, and neither is no one.
ASSUME WindowNames ==
    Window!Nobody \notin Launches /\ Launches \cap Sends = {} /\ MaxTime \in Nat

\* The bounds on LISTs and the limits of the servers are numbers.
ASSUME ListBounds == MaxLists \in Nat /\ MaxTrouble \in Nat
ASSUME WatchLimits == Limits \subseteq Nat

listVars == <<list, view, online, asked, lines, lists, trouble, late, mixed>>
watchVars == <<stored, subscribed, presence, limit, welcomed, commands, reports, watched, capacity,
               here, cut, crossed, count>>
socketVars == <<launch, lock, path, accepts, jobs, conn, status, done, now>>

MCInit ==
    /\ Init /\ Lists!Init /\ Watching!Init /\ Window!Init
    /\ part \in {"away", "list", "monitor", "socket"}
    /\ part # "monitor" => capacity = CHOOSE c \in Limits : TRUE

MCNext ==
    /\ UNCHANGED part
    /\ \/ part = "away" /\ Next /\ UNCHANGED <<listVars, watchVars, socketVars>>
       \/ part = "list" /\ Lists!Next /\ UNCHANGED <<vars, watchVars, socketVars>>
       \/ part = "monitor" /\ Watching!Next /\ UNCHANGED <<vars, listVars, socketVars>>
       \/ part = "socket" /\ Window!Next /\ UNCHANGED <<vars, listVars, watchVars>>

MCSpec == MCInit /\ [][MCNext]_<<vars, listVars, watchVars, socketVars, part>>

\* A finished /list is the answer to its own LIST (controller/channellist.rs).
ListIsOwn == Lists!ListIsOwn

\* Once nothing is on its way, the /monitor list is the one the server keeps
\* (controller/monitorcoordinator.rs).
WatchIsTrue == Watching!WatchIsTrue

\* At most one process serves the endpoint, and the path leads to it (singleinstance::acquire).
OneWindow == Window!OneWindow

\* The exit status of `omairc send` tells whether the message was sent (send_request).
ExitIsHonest == Window!ExitIsHonest

=============================================================================
