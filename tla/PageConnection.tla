--------------------------- MODULE PageConnection ---------------------------
(***************************************************************************)
(* The life of a web page's connection: Loader, which evaluates the        *)
(* scripts one after the other and starts the WebApp, Messenger, which     *)
(* holds the websocket, and ReconnectInfo, the panel with the countdown    *)
(* that covers the page while it is disconnected.  A page runs one event   *)
(* handler at a time, so every action is a whole handler.  FilePanel       *)
(* composes these actions with the panels of the page's terminals.         *)
(*                                                                         *)
(* Websockets are numbered in the order of createWs().  messenger.websocket*)
(* is always the newest: onWsClose() is called with the socket as `this`,  *)
(* so its assignment of null does not reach the messenger.                 *)
(***************************************************************************)
EXTENDS Naturals, Sequences, FiniteSets

CONSTANTS
    Scripts,    \* the number of scripts Loader includes
    Countdown,  \* seconds until a reconnect: 10 in the code
    MaxFaults,  \* bound: websockets that fail or break
    MaxClicks   \* bound: clicks on the reconnect button

ASSUME PageConnectionAssumption ==
    /\ Scripts \in Nat \ {0} /\ Countdown \in Nat \ {0}
    /\ MaxFaults \in Nat /\ MaxClicks \in Nat

VARIABLES
    loadCount,  \* scripts that are loaded
    sockets,    \* the state of each websocket created so far
    timer,      \* the seconds shown while reconnectTimeout is set, else 0
    panel,      \* is the reconnect panel shown, and the manager hidden?
    listed,     \* websockets whose hosts and terminals the page shows
    faults, clicks

connVars == <<loadCount, sockets, timer, panel, listed, faults, clicks>>

SocketState == {"connecting", "open", "closed"}

PageConnectionTypeOK ==
    /\ loadCount \in 0 .. Scripts
    /\ sockets \in Seq(SocketState)
    /\ timer \in 0 .. Countdown
    /\ panel \in BOOLEAN
    /\ listed \subseteq DOMAIN sockets
    /\ faults \in 0 .. MaxFaults
    /\ clicks \in 0 .. MaxClicks

ConnInit ==
    /\ loadCount = 0
    /\ sockets = <<>>
    /\ timer = 0
    /\ panel = FALSE
    /\ listed = {}
    /\ faults = 0
    /\ clicks = 0

Open(s) == s \in DOMAIN sockets /\ sockets[s] = "open"
Connecting(s) == s \in DOMAIN sockets /\ sockets[s] = "connecting"

\* messenger.websocket
Current == Len(sockets)
-----------------------------------------------------------------------------
\* Mutant: a new websocket is only made when no other is open.
createWsUnlessOpen ==
    sockets' = IF \E s \in DOMAIN sockets : Open(s)
               THEN sockets
               ELSE Append(sockets, "connecting")

createWs == sockets' = Append(sockets, "connecting")

\* The next script is included when the one before has been loaded; the last
\* one starts the WebApp, which connects.
onScriptLoaded ==
    /\ loadCount < Scripts
    /\ loadCount' = loadCount + 1
    /\ IF loadCount + 1 = Scripts THEN createWs ELSE UNCHANGED sockets
    /\ UNCHANGED <<timer, panel, listed, faults, clicks>>

\* ReconnectInfo.disable() and enable()
disable == panel' = FALSE /\ timer' = 0

\* Mutant: a timeout that was set before is taken for running: reconnectTimeout
\* keeps the id of a timeout that has fired.
enableOnce == panel' = TRUE /\ timer' = IF faults > 0 THEN timer ELSE Countdown

enable == panel' = TRUE /\ timer' = Countdown

\* onopen
onConnected(s) ==
    /\ Connecting(s)
    /\ sockets' = [sockets EXCEPT ![s] = "open"]
    /\ disable
    /\ UNCHANGED <<loadCount, listed, faults, clicks>>

\* Mutant: the page keeps what it shows.
clearNothing == listed' = listed

\* TerminalManager.clear()
clear == listed' = {}

\* Mutant: only the newest websocket counts.
onDisconnectedIfCurrent(s) ==
    /\ Connecting(s) \/ Open(s)
    /\ faults < MaxFaults
    /\ faults' = faults + 1
    /\ sockets' = [sockets EXCEPT ![s] = "closed"]
    /\ IF s = Current THEN enable ELSE UNCHANGED <<panel, timer>>
    /\ clear
    /\ UNCHANGED <<loadCount, clicks>>

\* onclose, of a connection that failed or broke: whichever it was, the page is
\* cleared and the countdown starts.
onDisconnected(s) ==
    /\ Connecting(s) \/ Open(s)
    /\ faults < MaxFaults
    /\ faults' = faults + 1
    /\ sockets' = [sockets EXCEPT ![s] = "closed"]
    /\ enable
    /\ clear
    /\ UNCHANGED <<loadCount, clicks>>

\* onmessage: a host or a terminal of the session of websocket s is shown.
onWsMessage(s) ==
    /\ Open(s)
    /\ listed' = listed \cup {s}
    /\ UNCHANGED <<loadCount, sockets, timer, panel, faults, clicks>>

\* Mutant: the timeout that has fired starts again when it reconnects.
updateReconnectionCounterAgain ==
    /\ timer > 0
    /\ timer' = IF timer > 1 THEN timer - 1 ELSE Countdown
    /\ IF timer > 1 THEN UNCHANGED sockets ELSE createWs
    /\ UNCHANGED <<loadCount, panel, listed, faults, clicks>>

\* The timeout fires.
updateReconnectionCounter ==
    /\ timer > 0
    /\ timer' = timer - 1
    /\ IF timer > 1 THEN UNCHANGED sockets ELSE createWs
    /\ UNCHANGED <<loadCount, panel, listed, faults, clicks>>

\* The button with the countdown.
onReconnectClicked ==
    /\ panel
    /\ clicks < MaxClicks
    /\ clicks' = clicks + 1
    /\ createWs
    /\ UNCHANGED <<loadCount, timer, panel, listed, faults>>
-----------------------------------------------------------------------------
\* A page that shows the countdown is about to try again: its timer runs, or an
\* attempt is under way, however the clicks, the timeouts and the ends of
\* several websockets interleave (reconnect.info.js updateReconnectionCounter).
NeverStuck ==
    panel => timer > 0 \/ \E s \in DOMAIN sockets : Connecting(s)

\* The panel is away only while a connection is open, or before the first
\* attempt has been decided (web.app.js onConnected, onDisconnected).
PanelAwayOnlyWhenOpen ==
    (~panel /\ sockets # <<>>) =>
        \/ \E s \in DOMAIN sockets : Open(s)
        \/ Len(sockets) = 1 /\ Connecting(1)

\* The hosts and terminals on the page come from connections that are still
\* open: nothing of a session the server has given up can be clicked.
NothingOfClosedSessions == \A s \in listed : Open(s)

\* One loss causes one attempt: the timer never makes more attempts than there
\* were losses, clicks aside, although a click leaves it running.
OneAttemptPerLoss ==
    Len(sockets) <= 1 + faults + clicks
=============================================================================
