--------------------------- MODULE ControlSystem ---------------------------
(***************************************************************************)
(* The whole system: the control server (WebAppServer and TerminalServer), *)
(* the terminal clients, the pages.  Every action is one step of one       *)
(* thread; a step of one component leaves the state of the others alone.   *)
(***************************************************************************)
EXTENDS WebAppServer, TerminalServer, TerminalClient

vars == <<netVars, waVars, tsVars, tcVars>>

TypeOK ==
    /\ NetworkTypeOK
    /\ WebAppServerTypeOK
    /\ TerminalServerTypeOK
    /\ TerminalClientTypeOK

\* The terminals of a session are finitely many (InOrder lists them).
SessionsFinite == \A c \in DOMAIN sessions : IsFiniteSet(DOMAIN sessions[c])

Init ==
    /\ NetworkInit
    /\ WebAppServerInit
    /\ TerminalServerInit
    /\ TerminalClientInit
-----------------------------------------------------------------------------
\* Steps of each thread.
WebAppOnly   == UNCHANGED <<tsVars, tcVars>>
TerminalOnly == UNCHANGED <<waVars, tcVars>>
ClientOnly   == UNCHANGED <<waVars, tsVars>>

Pages ==
    \/ \E c \in WebClients : OnWsClientConnected(c) /\ WebAppOnly
    \/ \E c \in WebClients : OnWsClientMessage(c) /\ WebAppOnly
    \/ \E c \in WebClients : OnWsClientClosed(c) /\ WebAppOnly

WebAppLoop ==
    \/ AddClient /\ WebAppOnly
    \/ RemoveClient /\ WebAppOnly
    \/ OnTerminalAddReq /\ WebAppOnly
    \/ OnTerminalResizeReq /\ WebAppOnly
    \/ OnTerminalDelReq /\ WebAppOnly
    \/ OnTerminalKeyEvent /\ WebAppOnly
    \/ OnRemoteHostInfoReceived /\ WebAppOnly
    \/ OnTerminalClientClosed /\ WebAppOnly
    \/ OnTerminalCreated /\ WebAppOnly
    \/ OnTerminalOutput /\ WebAppOnly
    \/ OnTerminalClosed /\ WebAppOnly

TerminalLoop ==
    \/ CreateNewTerminal /\ TerminalOnly
    \/ ResizeTerminal /\ TerminalOnly
    \/ DeleteTerminal /\ TerminalOnly
    \/ SendKeyEvent /\ TerminalOnly
    \/ OnClientClosed /\ TerminalOnly
    \/ HandleTerminalCreated /\ TerminalOnly
    \/ HandleTerminalRead /\ TerminalOnly
    \/ HandleTerminalEnd /\ TerminalOnly

ServerConnection ==
    \/ \E h \in Hosts : ServerOnClientRead(h) /\ TerminalOnly
    \/ \E h \in Hosts : ServerOnClientClosed(h) /\ TerminalOnly
    \/ \E h \in Hosts : ServerOnClientUnresponsive(h) /\ TerminalOnly

ClientConnection ==
    \/ \E m \in Machines, h \in Hosts : ClientOnClientConnected(m, h) /\ ClientOnly
    \/ \E m \in Machines : ClientOnClientRead(m) /\ ClientOnly
    \/ \E m \in Machines : HandleDisconnected(m) /\ ClientOnly

ClientLoop(m) ==
    \/ HandleCreateTerminal(m) /\ ClientOnly
    \/ SendCreated(m) /\ ClientOnly
    \/ HandleDeleteTerminal(m) /\ ClientOnly
    \/ HandleResizeTerminal(m) /\ ClientOnly
    \/ HandleTerminalWrite(m) /\ ClientOnly
    \/ DeleteTerminals(m) /\ ClientOnly
    \/ EnableReadFromTerminals(m) /\ ClientOnly
    \/ OnTerminalEnd(m) /\ ClientOnly

Shells ==
    \/ \E m \in Machines, t \in 1 .. idCounter : OnTerminalRead(m, t) /\ ClientOnly
    \/ \E m \in Machines, t \in 1 .. idCounter : ShellExit(m, t) /\ ClientOnly

Next ==
    \/ Pages
    \/ WebAppLoop
    \/ TerminalLoop
    \/ ServerConnection
    \/ ClientConnection
    \/ \E m \in Machines : ClientLoop(m)
    \/ Shells

Spec == Init /\ [][Next]_vars
-----------------------------------------------------------------------------
(***************************************************************************)
(* Who owns a terminal.                                                    *)
(***************************************************************************)
Created(t) == t \in 1 .. Len(owner)
OwnedBy(t, c) == Created(t) /\ owner[t].c = c
RunsOn(t, h) == Created(t) /\ owner[t].h = h

\* A page is only ever told of terminals it asked for itself: neither the
\* output nor the end of another page's terminal reaches it, although routing
\* goes through two maps on two threads and hosts report stale terminals after
\* they reconnect (TerminalServer.cpp GetAppClinetId, WebAppServer.cpp
\* OnTerminalCreated, OnTerminalOutput, OnTerminalClosed).
PagesSeeOwnTerminals ==
    \A c \in WebClients :
        \A t \in told[c].added \cup told[c].output \cup told[c].closed : OwnedBy(t, c)

\* What the server remembers of a terminal, and every command it sends for it,
\* names the host the terminal was created on and the page that asked for it
\* (_terminal_ids of the session against _remote_hosts of TerminalServer).
RoutesAgree ==
    /\ \A c \in DOMAIN sessions : \A t \in DOMAIN sessions[c] :
          OwnedBy(t, c) /\ RunsOn(t, sessions[c][t])
    /\ \A h \in DOMAIN remoteHosts : \A t \in DOMAIN remoteHosts[h] :
          OwnedBy(t, remoteHosts[h][t]) /\ RunsOn(t, h)
    /\ \A h \in Hosts : \A i \in DOMAIN down[h] :
          down[h][i].type # "ON_TERMINAL_READ_ACK" => RunsOn(down[h][i].t, h)

\* The system implements TerminalService.  Among what it promises: no terminal
\* is started twice, and a page hears of an end, through four queues and three
\* threads, only after it heard of the creation and when the terminal is gone
\* (TerminalHandler.cpp OnTerminalEnd deletes before it reports).
Running == UNION {terminals[m] : m \in Machines}

Service == INSTANCE TerminalService WITH
    Pages   <- WebClients,
    asked   <- owner,
    running <- Running,
    ended   <- started \ Running,
    added   <- [c \in WebClients |-> told[c].added],
    output  <- [c \in WebClients |-> told[c].output],
    closed  <- [c \in WebClients |-> told[c].closed]

ImplementsService == Service!Spec

\* The terminal clients never see the server do anything TerminalHosts does not
\* consider, so what is shown of them there holds in the whole system: the
\* TerminalServer half implements the arbitrary server of TerminalHosts. Its
\* Spec does not use the two bounds.
AnyServer == INSTANCE TerminalHosts WITH
    waLoop       <- <<>>,
    tsLoop       <- <<>>,
    ordered      <- [t \in 1 .. Len(owner) |-> owner[t].h],
    Commands     <- {"DELETE_TERMINAL", "RESIZE_TERMINAL", "ON_TERMINAL_WRITE"},
    MaxTerminals <- 0,
    MaxQueue     <- 0

ImplementsAnyServer == AnyServer!Spec

(***************************************************************************)
(* Hosts that come and go.                                                 *)
(***************************************************************************)
Queued(loop_, fn, h) == \E i \in DOMAIN loop_ : loop_[i].fn = fn /\ loop_[i].h = h

\* Once every report about a host has been handled, the host list of each page
\* shows the host exactly when it has introduced itself and is connected:
\* CLIENT_INFO goes straight to WebAppServer while the close goes through
\* TerminalServer's thread first (TerminalServer.cpp HandleClientInfo,
\* OnClientClosed).
HostListsCurrent ==
    /\ \A c \in DOMAIN sessions : told[c].hosts = activeHosts
    /\ \A h \in Hosts :
          \/ Queued(waLoop, "OnRemoteHostInfoReceived", h)
          \/ Queued(waLoop, "OnTerminalClientClosed", h)
          \/ Queued(tsLoop, "OnClientClosed", h)
          \/ h \in activeHosts <=> (h \in monitored /\ GetClient(h))

\* _remote_hosts keeps no host that is gone: a terminal requested while the
\* connection closes does not bring the erased entry back
\* (TerminalServer.cpp CreateNewTerminal, OnClientClosed).
NoStaleRemoteHost ==
    \A h \in DOMAIN remoteHosts : GetClient(h) \/ Queued(tsLoop, "OnClientClosed", h)

\* A page hears of a terminal only while it lists the terminal's host: no report
\* of a terminal, delayed in two loops, arrives after the loss of its host has
\* been told (WebAppServer.cpp OnTerminalCreated, OnTerminalClosed,
\* OnTerminalClientClosed).  WebPage relies on it.
NewsOfListedHosts ==
    [][\A c \in WebClients :
          \A t \in (told'[c].added \ told[c].added) \cup (told'[c].closed \ told[c].closed) :
              owner[t].h \in told[c].hosts]_vars

(***************************************************************************)
(* No terminal is forgotten.                                               *)
(***************************************************************************)
Task(queue, fns, t) ==
    \E i \in DOMAIN queue : queue[i].fn \in fns /\ queue[i].t = t
Message(queue, type, t) ==
    \E i \in DOMAIN queue : queue[i].type = type /\ queue[i].t = t

CreationUnderWay(m, t) ==
    \/ Task(loop[m], {"SendCreated"}, t)
    \/ \E h \in Hosts : Message(up[h], "ON_TERMINAL_CREATED", t)
    \/ Task(tsLoop, {"HandleTerminalCreated"}, t)
    \/ Task(waLoop, {"OnTerminalCreated"}, t)

RemovalUnderWay(m, t) ==
    \/ Task(tsLoop, {"DeleteTerminal"}, t)
    \/ \E h \in Hosts : Message(down[h], "DELETE_TERMINAL", t)
    \/ Task(loop[m], {"HandleDeleteTerminal", "OnTerminalEnd"}, t)

LinkUp(h) == GetClient(h) /\ cliEnd[h]

\* A terminal that exists on a connected host can be used and closed by a page
\* (it is in a session), or the report of its creation or its removal is under
\* way; the one way to lose it is a page that leaves before the creation is
\* reported (WebAppServer.cpp OnTerminalCreated finds no session).
NoForgottenTerminal ==
    \A m \in Machines : \A t \in terminals[m] :
        \/ \E c \in DOMAIN sessions : t \in DOMAIN sessions[c]
        \/ CreationUnderWay(m, t)
        \/ RemovalUnderWay(m, t)
        \/ t \in late
        \/ ~LinkUp(owner[t].h)

(***************************************************************************)
(* Liveness.  The loops and the connection threads run; a connection one   *)
(* end of which is gone is noticed by the other end (TCP, or the pings of  *)
(* ConnectionChecker).  Nothing is assumed of pages, shells and failures.  *)
(***************************************************************************)
Fairness ==
    /\ WF_vars(WebAppLoop)
    /\ WF_vars(TerminalLoop)
    /\ \A h \in Hosts : WF_vars(ServerOnClientRead(h) /\ TerminalOnly)
    /\ \A h \in Hosts : WF_vars(~cliEnd[h] /\ ServerOnClientClosed(h) /\ TerminalOnly)
    /\ \A m \in Machines : WF_vars(ClientOnClientRead(m) /\ ClientOnly)
    /\ \A m \in Machines : WF_vars(ClientLoop(m))
    /\ \A m \in Machines :
          WF_vars(/\ Connected(m)
                  /\ ~GetClient(client[m])
                  /\ HandleDisconnected(m)
                  /\ ClientOnly)

FairSpec == Spec /\ Fairness

Terminals == 1 .. MaxRequests

\* A page that asked for a terminal is told of it, unless the page left or the
\* connection broke (TERMINAL_ADD through both loops, the host and back).
RequestAnswered ==
    \A t \in Terminals :
        Created(t) ~> /\ Created(t)
                      /\ \/ t \in told[owner[t].c].added
                         \/ ws[owner[t].c] = "closed"
                         \/ ~LinkUp(owner[t].h)

\* A host that is lost disappears from the list of every page and stays away.
HostLossPropagates ==
    \A h \in Hosts :
        (h \in monitored /\ ~LinkUp(h)) ~>
            [](/\ h \notin activeHosts
               /\ \A c \in DOMAIN sessions : h \notin told[c].hosts)

\* The terminals of a page that left are deleted on their hosts, except those
\* whose creation had not been reported when it left.
ClosedPageReleasesTerminals ==
    \A c \in WebClients :
        ws[c] = "closed" ~>
            \A m \in Machines : \A t \in terminals[m] : OwnedBy(t, c) => t \in late
=============================================================================
