------------------------------ MODULE WebPage ------------------------------
(***************************************************************************)
(* The page of the web application: TerminalManager, RemoteHostList with   *)
(* its RemoteHosts and their buttons, and TerminalView.  The methods are   *)
(* operators on the record `page`; a handler of a message or of a click is *)
(* an action that runs them to their end, or to the TypeError that aborts  *)
(* the handler: what was assigned before it stays, the rest is not done.   *)
(*                                                                         *)
(* The server is the one of ControlSystem as a page sees it: one stream of *)
(* messages per session, in which a host comes first, then the news of its *)
(* terminals, and nothing of it after its loss (NewsOfListedHosts).        *)
(***************************************************************************)
EXTENDS Naturals, Sequences, SequencesExt, StdMap

CONSTANTS
    Hosts,        \* ids of connections of terminal clients
    NoHost,
    ButtonLimit,  \* buttons a host may have before it gets another: 4
    MaxClicks,    \* bound: clicks of the user
    MaxSessions,  \* bound: sessions of the page
    MaxQueue      \* bound: messages on their way when another is sent

ASSUME WebPageAssumption ==
    /\ NoHost \notin Hosts
    /\ ButtonLimit \in Nat /\ MaxClicks \in Nat /\ MaxSessions \in Nat
    /\ MaxQueue \in Nat \ {0}

VARIABLES
    page,      \* the objects of the page
    linked,    \* has the page a session?
    sessions,  \* sessions so far
    clicks,    \* clicks so far
    up, gone,  \* hosts that are connected, and that were
    ordered,   \* the host of each terminal asked for
    starting,  \* terminals whose creation is not reported yet
    live,      \* terminals of the session that run
    toPage     \* messages on their way to the page

serverVars == <<up, gone, ordered, starting, live>>
vars == <<page, linked, sessions, clicks, serverVars, toPage>>

\* Terminals are numbered from 1; 0 is null, and the terminal of the button that
\* adds one.
TerminalId == Nat \ {0}
NoTerminal == 0
AddBt == NoTerminal

\* A terminal's button is named by its terminal.  selected holds the buttons
\* whose flag is set, files those in the state FILE_LIST; all other terminal
\* buttons are in TERMINAL.  connectingBt tells whether the host has an add
\* button, and its state.
RemoteHost == [activeTerminal : Nat, selectedBt : Nat, buttons : Seq(Nat),
               connectingBt : {"none", "IDLE", "ACTIVATING"},
               selected : SUBSET TerminalId, files : SUBSET TerminalId]

Request == [type : {"terminal_req"}, h : Hosts] \cup [type : {"terminal_del"}, t : TerminalId]

Message == [type : {"host_connected", "host_disconnected"}, h : Hosts]
           \cup [type : {"terminal_added", "terminal_closed"}, h : Hosts, t : TerminalId]

\* terminals: the keys of TerminalView.terminals, the terminals that have a node;
\* attached: those whose node is in the view; info: is noTerminalsInfo shown in
\* place of the list and the view?  out and ok belong to a running handler: what
\* it sends, which is one request at most, and whether it has thrown.
WebPageTypeOK ==
    /\ DOMAIN page.hosts \subseteq Hosts
    /\ \A h \in DOMAIN page.hosts : page.hosts[h] \in RemoteHost
    /\ page.currentHost \in Hosts \cup {NoHost}
    /\ page.terminals \subseteq TerminalId
    /\ page.currentTerminal \in Nat
    /\ page.attached \subseteq page.terminals
    /\ page.info \in BOOLEAN
    /\ page.out = {} /\ page.ok
    /\ linked \in BOOLEAN
    /\ up \subseteq Hosts /\ gone \subseteq Hosts
    /\ ordered \in Seq(Hosts)
    /\ starting \subseteq DOMAIN ordered /\ live \subseteq DOMAIN ordered
    /\ toPage \in Seq(Message)

Init ==
    /\ page = [hosts |-> EmptyMap, currentHost |-> NoHost, terminals |-> {},
               currentTerminal |-> NoTerminal, attached |-> {}, info |-> TRUE,
               out |-> {}, ok |-> TRUE]
    /\ linked = FALSE
    /\ sessions = 0
    /\ clicks = 0
    /\ up = {} /\ gone = {}
    /\ ordered = <<>>
    /\ starting = {} /\ live = {}
    /\ toPage = <<>>
-----------------------------------------------------------------------------
\* A TypeError: the callers of the method stop.
Throw(p) == [p EXCEPT !.ok = FALSE]

Send(p, req) == [p EXCEPT !.out = @ \cup {req}]

\* View.  The node of a terminal that was removed is null, and null can neither
\* be removed from the view nor be added to it.
removeObj(p, t) ==
    IF t \in p.attached THEN [p EXCEPT !.attached = @ \ {t}] ELSE Throw(p)

addObj(p, t) ==
    IF t \in p.terminals THEN [p EXCEPT !.attached = @ \cup {t}] ELSE Throw(p)

deleteNode(p, t) == [p EXCEPT !.attached = @ \ {t}, !.terminals = @ \ {t}]

\* TerminalView
createTerminalNode(p, t) == [p EXCEPT !.terminals = @ \cup {t}]

setTerminal(p, t) ==
    LET q == IF p.currentTerminal = NoTerminal THEN p ELSE removeObj(p, p.currentTerminal)
        r == [q EXCEPT !.currentTerminal = t]
    IN  IF ~q.ok THEN q
        ELSE IF t = NoTerminal THEN r
        ELSE addObj(r, t)

\* Mutant: the node of a removed terminal stays in the view.
removeTerminalKeepingNode(p, t) ==
    IF t \notin p.terminals THEN p
    ELSE [p EXCEPT !.currentTerminal = NoTerminal, !.terminals = @ \ {t}]

\* The condition on currentTerminal is an assignment (=), so that whatever is
\* shown, no terminal is the current one afterwards.
removeTerminal(p, t) ==
    IF t \notin p.terminals THEN p
    ELSE [deleteNode(p, t) EXCEPT !.currentTerminal = NoTerminal]

\* TerminalView.clear()
clearView(p) ==
    [p EXCEPT !.terminals = {}, !.currentTerminal = NoTerminal, !.attached = {}]

\* RemoteHostTermButton.  Its setState() goes with the switchView() of its
\* terminal.
setState(host, t, state) ==
    [host EXCEPT !.files = IF state = "FILE_LIST" THEN @ \cup {t} ELSE @ \ {t}]

onSelected(host, t) == [host EXCEPT !.selected = @ \cup {t}]
onDeselected(host, t) == [host EXCEPT !.selected = @ \ {t}]

\* RemoteHost.  A click on the selected button, and a selection of it by the
\* code, switches between the terminal and its files.
selectTermBt(p, h, t) ==
    LET host == p.hosts[h]
        other == IF t \in host.files THEN "TERMINAL" ELSE "FILE_LIST"
        selected == [onDeselected(host, host.selectedBt) EXCEPT !.selectedBt = t,
                                                                !.activeTerminal = t]
    IN  IF host.selectedBt = t
        THEN [p EXCEPT !.hosts[h] = setState(host, t, other)]
        ELSE setTerminal([p EXCEPT !.hosts[h] = onSelected(selected, t)], t)

addTermBt(host) == [host EXCEPT !.buttons = Append(@, AddBt), !.connectingBt = "IDLE"]

\* Mutant: the button that waited stays the one that adds.
addTerminalKeepingConnecting(p, h, t) ==
    LET host == p.hosts[h] IN
    IF host.connectingBt = "none"
    THEN [p EXCEPT !.hosts[h] =
             addTermBt(onSelected([host EXCEPT !.activeTerminal = t, !.selectedBt = t,
                                               !.buttons = Append(@, t)], t))]
    ELSE selectTermBt(
             [p EXCEPT !.hosts[h].buttons =
                 [i \in DOMAIN @ |-> IF @[i] = AddBt THEN t ELSE @[i]]], h, t)

\* The first terminal gets a button of its own; a later one takes the button
\* that adds, and a host with few buttons gets the next one.
addTerminal(p, h, t) ==
    LET host == p.hosts[h]
        first == [host EXCEPT !.activeTerminal = t, !.selectedBt = t,
                              !.buttons = Append(@, t)]
        taken == [host EXCEPT !.connectingBt = "none",
                              !.buttons = [i \in DOMAIN @ |->
                                              IF @[i] = AddBt THEN t ELSE @[i]]]
        q == selectTermBt([p EXCEPT !.hosts[h] = taken], h, t)
    IN  IF host.connectingBt = "none"
        THEN [p EXCEPT !.hosts[h] = addTermBt(onSelected(first, t))]
        ELSE IF q.ok /\ Len(taken.buttons) < ButtonLimit
        THEN [q EXCEPT !.hosts[h] = addTermBt(@)]
        ELSE q

\* RemoteHostList.onHostEmpty and TerminalManager.onHostEmpty
onHostEmpty(p, h) == IF p.currentHost = h THEN setTerminal(p, NoTerminal) ELSE p

\* The button of t, which is one of them.
indexOf(buttons, t) == CHOOSE i \in DOMAIN buttons : buttons[i] = t

\* Mutant: the last button is selected, which is the one that adds.
removeTerminalButtonOffByOne(p, h, t) ==
    LET host == [p.hosts[h] EXCEPT !.buttons = RemoveAt(@, indexOf(@, t))]
        left == IF host.connectingBt = "none" THEN addTermBt(host) ELSE host
        q == [p EXCEPT !.hosts[h] = left]
        n == Len(left.buttons)
    IN  IF n > 1 THEN selectTermBt(q, h, left.buttons[n]) ELSE onHostEmpty(q, h)

\* The last but one button is that of a terminal: the last one adds.
removeTerminalButton(p, h, t) ==
    LET host == [p.hosts[h] EXCEPT !.buttons = RemoveAt(@, indexOf(@, t))]
        left == IF host.connectingBt = "none" THEN addTermBt(host) ELSE host
        q == [p EXCEPT !.hosts[h] = left]
        n == Len(left.buttons)
    IN  IF n > 1 THEN selectTermBt(q, h, left.buttons[n - 1]) ELSE onHostEmpty(q, h)

removeTerminalById(p, h, t) ==
    LET host == p.hosts[h] IN
    IF t \in Range(host.buttons)
    THEN removeTerminalButton(
             [p EXCEPT !.hosts[h].activeTerminal = IF @ = t THEN NoTerminal ELSE @], h, t)
    ELSE p

\* RemoteHostList
NewHost == [activeTerminal |-> NoTerminal, selectedBt |-> NoTerminal, buttons |-> <<>>,
            connectingBt |-> "none", selected |-> {}, files |-> {}]

hasHost(p, h) == h \in DOMAIN p.hosts

size(p) == Cardinality(DOMAIN p.hosts)

addHost(p, h) ==
    LET q == [p EXCEPT !.hosts = Assign(@, h, NewHost)]
    IN  IF size(q) = 1 THEN [q EXCEPT !.currentHost = h] ELSE q

\* Mutant: a host that is lost stays the current one.
removeHostKeepingCurrent(p, h) ==
    IF ~hasHost(p, h) THEN p
    ELSE Throw([p EXCEPT !.hosts = Erase(@, h)])

\* A RemoteHost has no `terminals`: the loop that would delete them throws.
removeHost(p, h) ==
    IF ~hasHost(p, h) THEN p
    ELSE Throw([p EXCEPT !.hosts = Erase(@, h),
                         !.currentHost = IF @ = h THEN NoHost ELSE @])

addTerminalForHost(p, h, t) == IF hasHost(p, h) THEN addTerminal(p, h, t) ELSE p

removeTerminalForHost(p, h, t) == IF hasHost(p, h) THEN removeTerminalById(p, h, t) ELSE p

makeCurrent(p, h) == [p EXCEPT !.currentHost = h]

\* RemoteHostList.clear()
clearHosts(p) == [p EXCEPT !.hosts = EmptyMap, !.currentHost = NoHost]
-----------------------------------------------------------------------------
\* The handlers of WebApp and TerminalManager.
showNoTerminalsInfo(p) == [p EXCEPT !.info = TRUE]
hideNoTerminalsInfo(p) == [p EXCEPT !.info = FALSE]

sendNewTerminalRequest(p, h) == Send(p, [type |-> "terminal_req", h |-> h])
terminalCloseRequested(p, t) == Send(p, [type |-> "terminal_del", t |-> t])

\* A host that is the only one is asked for a terminal right away.
onHostConnected(p, h) ==
    LET q == addHost(p, h)
    IN  IF size(q) = 1 THEN hideNoTerminalsInfo(sendNewTerminalRequest(q, h)) ELSE q

onHostDisconnected(p, h) ==
    LET q == removeHost(p, h)
    IN  IF q.ok /\ size(q) = 0 THEN showNoTerminalsInfo(q) ELSE q

\* The event HostSelected, to the list and then to the manager.
onHostSelected(p, h) ==
    LET q == makeCurrent(p, h)
    IN  IF q.hosts[h].activeTerminal # NoTerminal
        THEN setTerminal(q, q.hosts[h].activeTerminal)
        ELSE sendNewTerminalRequest(q, h)

\* The event TerminalAdded.  currentHost is not checked for null.
onTerminalAdded(p, h, t) ==
    LET q == addTerminalForHost(createTerminalNode(p, t), h, t)
    IN  IF t \in p.terminals THEN p
        ELSE IF ~q.ok THEN q
        ELSE IF q.currentHost = NoHost THEN Throw(q)
        ELSE IF q.currentHost = h THEN setTerminal(q, q.hosts[h].activeTerminal)
        ELSE q

\* The event TerminalClosed, to the list and then to the manager.
onTerminalClosed(p, h, t) ==
    LET q == removeTerminalForHost(p, h, t)
    IN  IF q.ok THEN removeTerminal(q, t) ELSE q

onTermBtAddClicked(p, h) ==
    [sendNewTerminalRequest(p, h) EXCEPT !.hosts[h].connectingBt = "ACTIVATING"]

onTermBtCloseClicked(p, h, t) ==
    LET q == removeTerminalButton(p, h, t)
    IN  IF q.ok THEN terminalCloseRequested(q, t) ELSE q

\* Mutant: what the view showed last is still there after a reconnect.
clearHostsOnly(p) == [clearHosts(p) EXCEPT !.attached = {}]

clear(p) == clearView(clearHosts(p))

onMessage(p, m) ==
    CASE m.type = "host_connected"    -> onHostConnected(p, m.h)
      [] m.type = "host_disconnected" -> onHostDisconnected(p, m.h)
      [] m.type = "terminal_added"    -> onTerminalAdded(p, m.h, m.t)
      [] m.type = "terminal_closed"   -> onTerminalClosed(p, m.h, m.t)
-----------------------------------------------------------------------------
\* The server.  It takes a request when it is sent: what a delay of the request
\* can change is the order of messages to the page, which toPage delays anyway.
Tell(m) == Len(toPage) < MaxQueue /\ toPage' = Append(toPage, m)

Takes(requests) ==
    LET orders == {r.h : r \in {x \in requests : x.type = "terminal_req" /\ x.h \in up}}
        deletes == {r.t : r \in {x \in requests : x.type = "terminal_del"}}
    IN  /\ \E order \in SetToSeqs(orders) :
              /\ ordered' = ordered \o order
              /\ starting' = starting \cup {Len(ordered) + i : i \in DOMAIN order}
        /\ live' = live \ deletes

HostConnects(h) ==
    /\ h \notin up \cup gone
    /\ up' = up \cup {h}
    /\ IF linked THEN Tell([type |-> "host_connected", h |-> h]) ELSE UNCHANGED toPage
    /\ UNCHANGED <<page, linked, sessions, clicks, gone, ordered, starting, live>>

Of(h, ts) == {t \in ts : ordered[t] = h}

HostLost(h) ==
    /\ h \in up
    /\ up' = up \ {h}
    /\ gone' = gone \cup {h}
    /\ starting' = starting \ Of(h, starting)
    /\ live' = live \ Of(h, live)
    /\ IF linked THEN Tell([type |-> "host_disconnected", h |-> h]) ELSE UNCHANGED toPage
    /\ UNCHANGED <<page, linked, sessions, clicks, ordered>>

TerminalCreated(t) ==
    /\ t \in starting
    /\ starting' = starting \ {t}
    /\ live' = live \cup {t}
    /\ Tell([type |-> "terminal_added", h |-> ordered[t], t |-> t])
    /\ UNCHANGED <<page, linked, sessions, clicks, up, gone, ordered>>

ShellEnds(t) ==
    /\ t \in live
    /\ live' = live \ {t}
    /\ Tell([type |-> "terminal_closed", h |-> ordered[t], t |-> t])
    /\ UNCHANGED <<page, linked, sessions, clicks, up, gone, ordered, starting>>

\* A session starts with the hosts that are connected, and ends with everything
\* that is on its way; its terminals are deleted.
Connected ==
    /\ ~linked
    /\ sessions < MaxSessions
    /\ linked' = TRUE
    /\ sessions' = sessions + 1
    /\ \E order \in SetToSeqs(up) :
          toPage' = [i \in DOMAIN order |-> [type |-> "host_connected", h |-> order[i]]]
    /\ UNCHANGED <<page, clicks, serverVars>>

onDisconnected ==
    /\ linked
    /\ linked' = FALSE
    /\ page' = clear(page)
    /\ toPage' = <<>>
    /\ starting' = {}
    /\ live' = {}
    /\ UNCHANGED <<sessions, clicks, up, gone, ordered>>
-----------------------------------------------------------------------------
\* The page.
Handle(p) ==
    /\ page' = [p EXCEPT !.out = {}, !.ok = TRUE]
    /\ Takes(p.out)

onWsMessage ==
    /\ toPage # <<>>
    /\ toPage' = Tail(toPage)
    /\ Handle(onMessage(page, Head(toPage)))
    /\ UNCHANGED <<linked, sessions, clicks, up, gone>>

Click(p) ==
    /\ linked
    /\ clicks < MaxClicks
    /\ clicks' = clicks + 1
    /\ Handle(p)
    /\ UNCHANGED <<linked, sessions, up, gone, toPage>>

\* Only the buttons of the current host are displayed.
Buttons(h) ==
    IF h = page.currentHost THEN Range(page.hosts[h].buttons) \ {AddBt} ELSE {}

HostClicked(h) == Click(onHostSelected(page, h))

TermBtSelectClicked(h, t) == t \in Buttons(h) /\ Click(selectTermBt(page, h, t))

\* The circle that closes is displayed on buttons that are selected.
TermBtCloseClicked(h, t) ==
    /\ t \in Buttons(h)
    /\ t \in page.hosts[h].selected
    /\ Click(onTermBtCloseClicked(page, h, t))

TermBtAddClicked(h) ==
    /\ h = page.currentHost
    /\ page.hosts[h].connectingBt = "IDLE"
    /\ Click(onTermBtAddClicked(page, h))

User ==
    \E h \in DOMAIN page.hosts :
        \/ HostClicked(h)
        \/ \E t \in Buttons(h) : TermBtSelectClicked(h, t)
        \/ \E t \in Buttons(h) : TermBtCloseClicked(h, t)
        \/ TermBtAddClicked(h)

Next ==
    \/ \E h \in Hosts : HostConnects(h)
    \/ \E h \in Hosts : HostLost(h)
    \/ \E t \in starting : TerminalCreated(t)
    \/ \E t \in live : ShellEnds(t)
    \/ Connected
    \/ onDisconnected
    \/ onWsMessage
    \/ User

Spec == Init /\ [][Next]_vars

\* Messages arrive and are handled (onWsMessage), and hosts report the terminals
\* they create (TerminalCreated).  Nothing is assumed of the user and of hosts
\* that come and go.
MessageHandled == toPage # <<>> /\ toPage' = Tail(toPage)
TerminalReported == \E t \in starting : starting' = starting \ {t}

Fairness == WF_toPage(MessageHandled) /\ WF_starting(TerminalReported)

FairSpec == Spec /\ Fairness
-----------------------------------------------------------------------------
\* The buttons of a host are its terminals, each once, and at most one more, the
\* last, that adds; connectingBt knows it.  So the last but one button, which is
\* selected after a removal, is a terminal's (remote.host.js addTerminal,
\* removeTerminalButton).
ButtonsInOrder ==
    \A h \in DOMAIN page.hosts :
        LET host == page.hosts[h]
            n == Len(host.buttons)
        IN  /\ \A i, j \in 1 .. n : host.buttons[i] = host.buttons[j] => i = j
            /\ \A i \in 1 .. n : host.buttons[i] = AddBt => i = n
            /\ host.connectingBt # "none" <=> (n > 0 /\ host.buttons[n] = AddBt)
            /\ \A i \in 1 .. n : host.buttons[i] # AddBt => ordered[host.buttons[i]] = h

Announced(t) == \E i \in DOMAIN toPage : toPage[i].type = "terminal_added" /\ toPage[i].t = t

\* setTerminal() throws as long as the current terminal has no node.
Wedged == page.currentTerminal # NoTerminal /\ page.currentTerminal \notin page.terminals

\* A terminal that runs for this page can be reached: the list is displayed, the
\* terminal's host is listed and has a button for it; or the page has not heard
\* of the terminal yet.
Reachable(t) ==
    \/ Announced(t)
    \/ /\ ~page.info
       /\ ordered[t] \in DOMAIN page.hosts
       /\ t \in Range(page.hosts[ordered[t]].buttons)

\* Only a wedged page loses a terminal that runs: there the handler of the button
\* that closes throws before the request is sent (remote.host.js
\* onTermBtCloseClicked).  A lost terminal stays lost when the page recovers, so
\* this is said of the step that loses it.
OnlyWedgedPageLoses ==
    [][\A t \in live' : (t \in live => Reachable(t)) => Reachable(t)' \/ Wedged]_vars

\* The list never forgets which host is the current one: it is one it shows.
\* Clicks, terminals that are added and lost hosts all use it
\* (remote.host.list.js removeHost, onHostSelected).
CurrentHostListed == page.currentHost # NoHost => page.currentHost \in DOMAIN page.hosts

\* A host with terminals has one of them selected, and it is the one a click on
\* the host brings into view, whichever button was closed last and by whom
\* (remote.host.js selectTermBt, removeTerminalById, removeTerminalButton).
ActiveIsSelected ==
    \A h \in DOMAIN page.hosts :
        LET host == page.hosts[h]
            shown == Range(host.buttons) \ {AddBt}
        IN  shown # {} => host.selectedBt \in shown /\ host.activeTerminal = host.selectedBt

\* A button that waits for its terminal gets it, or disappears with its host or
\* with the session.
AddIsAnswered ==
    \A h \in Hosts :
        (h \in DOMAIN page.hosts /\ page.hosts[h].connectingBt = "ACTIVATING") ~>
            ~(h \in DOMAIN page.hosts /\ page.hosts[h].connectingBt = "ACTIVATING")
=============================================================================
