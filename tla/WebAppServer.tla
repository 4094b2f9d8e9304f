---------------------------- MODULE WebAppServer ----------------------------
(***************************************************************************)
(* WebAppServer: the half of the control server that talks to the browser  *)
(* pages.  Its websocket callbacks run on the connection thread and post   *)
(* to _thread_loop; everything below them runs on that thread, one task at *)
(* a time.  It calls TerminalServer by posting to TerminalServer::_thread. *)
(*                                                                         *)
(* The pages are the environment: a page sends any request about a host it *)
(* was told of and about any terminal some page was told of (the server    *)
(* itself checks who owns a terminal, it does not rely on the page).       *)
(***************************************************************************)
EXTENDS ActiveSessions, FiniteSets

CONSTANTS
    PageRequests,  \* the kinds of request the pages send
    MaxRequests    \* bound: requests of all the pages together

ASSUME WebAppServerAssumption ==
    /\ PageRequests \subseteq {"OnTerminalAddReq", "OnTerminalResizeReq",
                               "OnTerminalDelReq", "OnTerminalKeyEvent"}
    /\ MaxRequests \in Nat

VARIABLES
    activeHosts,  \* keys of _active_remote_hosts
    ws,           \* the websocket of each page
    told,         \* history: what has been sent to each page
    late,         \* history: terminals whose page had left when they were created
    sent          \* requests the pages have sent

waVars == <<sessions, activeHosts, ws, told, late, sent>>

\* hosts: the host list the page shows; seen: all hosts it ever showed;
\* added, output, closed: terminals it got TERMINAL_ADD, output, a close for
ToldType == [hosts : SUBSET Hosts, seen : SUBSET Hosts,
             added : SUBSET TerminalId, output : SUBSET TerminalId,
             closed : SUBSET TerminalId]

WebAppServerTypeOK ==
    /\ SessionsTypeOK
    /\ activeHosts \in SUBSET Hosts
    /\ ws \in [WebClients -> {"new", "open", "closed"}]
    /\ told \in [WebClients -> ToldType]
    /\ late \in SUBSET TerminalId
    /\ sent \in Nat

WebAppServerInit ==
    /\ SessionsInit
    /\ activeHosts = {}
    /\ ws = [c \in WebClients |-> "new"]
    /\ told = [c \in WebClients |-> [hosts |-> {}, seen |-> {}, added |-> {},
                                     output |-> {}, closed |-> {}]]
    /\ late = {}
    /\ sent = 0
-----------------------------------------------------------------------------
\* The connection thread: the callbacks of WebsocketServer post to the loop.
PostWA(task) == waLoop' = Append(waLoop, task)

OnWsClientConnected(c) ==
    /\ ws[c] = "new"
    /\ ws' = [ws EXCEPT ![c] = "open"]
    /\ PostWA([fn |-> "AddClient", c |-> c])
    /\ UNCHANGED <<tsLoop, srvEnd, cliEnd, up, down,
                   sessions, activeHosts, told, late, sent>>

OnWsClientClosed(c) ==
    /\ ws[c] = "open"
    /\ ws' = [ws EXCEPT ![c] = "closed"]
    /\ PostWA([fn |-> "RemoveClient", c |-> c])
    /\ UNCHANGED <<tsLoop, srvEnd, cliEnd, up, down,
                   sessions, activeHosts, told, late, sent>>

KnownTerminals == UNION {told[c].added : c \in WebClients}

PageMessage(c) ==
         [fn : {"OnTerminalAddReq"}, c : {c}, h : told[c].seen]
    \cup [fn : {"OnTerminalResizeReq", "OnTerminalDelReq", "OnTerminalKeyEvent"},
          c : {c}, t : KnownTerminals]

OnWsClientMessage(c) ==
    /\ ws[c] = "open"
    /\ sent < MaxRequests
    /\ sent' = sent + 1
    /\ \E message \in PageMessage(c) :
          /\ message.fn \in PageRequests
          /\ PostWA(message)
    /\ UNCHANGED <<tsLoop, srvEnd, cliEnd, up, down,
                   sessions, activeHosts, ws, told, late>>
-----------------------------------------------------------------------------
\* The thread of _thread_loop.  TakeWA removes the task that runs.
TakeWA(fn) == Runs(waLoop, fn) /\ waLoop' = Tail(waLoop)

PostTS(task) == tsLoop' = Append(tsLoop, task)

AddClient ==
    /\ TakeWA("AddClient")
    /\ LET c == Head(waLoop).c IN
          /\ CreateWebAppSession(c)
          /\ told' = [told EXCEPT ![c].hosts = activeHosts, ![c].seen = activeHosts]
    /\ UNCHANGED <<tsLoop, srvEnd, cliEnd, up, down, activeHosts, ws, late, sent>>

\* Mutant: the loop over the map stops one terminal short.
InOrderButLast(keys) ==
    {s \in [1 .. Cardinality(keys) - 1 -> keys] :
        \A i, j \in DOMAIN s : i < j => s[i] < s[j]}

\* The order in which std::map iterates over its keys.
InOrder(keys) ==
    {s \in [1 .. Cardinality(keys) -> keys] :
        \A i, j \in DOMAIN s : i < j => s[i] < s[j]}

RemoveClient ==
    /\ TakeWA("RemoveClient")
    /\ LET c == Head(waLoop).c IN
          \/ /\ ~HasSession(c)
             /\ UNCHANGED <<sessions, tsLoop>>
          \/ /\ HasSession(c)
             /\ \E ts \in InOrder(DOMAIN sessions[c]) :
                   tsLoop' = tsLoop \o
                       [i \in DOMAIN ts |-> [fn |-> "DeleteTerminal",
                                             h |-> sessions[c][ts[i]], t |-> ts[i]]]
             /\ EraseWebAppSession(c)
    /\ UNCHANGED <<srvEnd, cliEnd, up, down, activeHosts, ws, told, late, sent>>

OnTerminalAddReq ==
    /\ TakeWA("OnTerminalAddReq")
    /\ PostTS([fn |-> "CreateNewTerminal", c |-> Head(waLoop).c, h |-> Head(waLoop).h])
    /\ UNCHANGED <<srvEnd, cliEnd, up, down, waVars>>

\* A request for a terminal is passed on to its host only for its owner.
OwnedRequest(c, t, fn) ==
    \/ /\ IsWebAppClientOwningTerminal(c, t)
       /\ PostTS([fn |-> fn, h |-> GetRemoteHostByTerminal(c, t), t |-> t])
    \/ /\ ~IsWebAppClientOwningTerminal(c, t)
       /\ UNCHANGED tsLoop

OnTerminalResizeReq ==
    /\ TakeWA("OnTerminalResizeReq")
    /\ OwnedRequest(Head(waLoop).c, Head(waLoop).t, "ResizeTerminal")
    /\ UNCHANGED <<srvEnd, cliEnd, up, down, waVars>>

OnTerminalKeyEvent ==
    /\ TakeWA("OnTerminalKeyEvent")
    /\ OwnedRequest(Head(waLoop).c, Head(waLoop).t, "SendKeyEvent")
    /\ UNCHANGED <<srvEnd, cliEnd, up, down, waVars>>

OnTerminalDelReq ==
    /\ TakeWA("OnTerminalDelReq")
    /\ LET c == Head(waLoop).c
           t == Head(waLoop).t
       IN  /\ OwnedRequest(c, t, "DeleteTerminal")
           /\ IF IsWebAppClientOwningTerminal(c, t)
              THEN SessionDeleteTerminal(c, t)
              ELSE UNCHANGED sessions
    /\ UNCHANGED <<srvEnd, cliEnd, up, down, activeHosts, ws, told, late, sent>>

OnRemoteHostInfoReceived ==
    /\ TakeWA("OnRemoteHostInfoReceived")
    /\ LET h == Head(waLoop).h IN
          /\ activeHosts' = activeHosts \cup {h}
          /\ told' = [c \in WebClients |->
                         IF HasSession(c)
                         THEN [told[c] EXCEPT !.hosts = @ \cup {h}, !.seen = @ \cup {h}]
                         ELSE told[c]]
    /\ UNCHANGED <<tsLoop, srvEnd, cliEnd, up, down, sessions, ws, late, sent>>

OnTerminalClientClosed ==
    /\ TakeWA("OnTerminalClientClosed")
    /\ LET h == Head(waLoop).h IN
          /\ activeHosts' = activeHosts \ {h}
          /\ told' = [c \in WebClients |->
                         IF HasSession(c)
                         THEN [told[c] EXCEPT !.hosts = @ \ {h}]
                         ELSE told[c]]
    /\ UNCHANGED <<tsLoop, srvEnd, cliEnd, up, down, sessions, ws, late, sent>>

\* The success flag is not looked at.
OnTerminalCreated ==
    /\ TakeWA("OnTerminalCreated")
    /\ LET c == Head(waLoop).c
           t == Head(waLoop).t
       IN  \/ /\ ~HasSession(c)
              /\ late' = late \cup {t}
              /\ UNCHANGED <<sessions, told>>
           \/ /\ HasSession(c)
              /\ SessionAddTerminal(c, t, Head(waLoop).h)
              /\ told' = [told EXCEPT ![c].added = @ \cup {t}]
              /\ UNCHANGED late
    /\ UNCHANGED <<tsLoop, srvEnd, cliEnd, up, down, activeHosts, ws, sent>>

OnTerminalOutput ==
    /\ TakeWA("OnTerminalOutput")
    /\ LET c == Head(waLoop).c IN
          told' = IF HasSession(c)
                  THEN [told EXCEPT ![c].output = @ \cup {Head(waLoop).t}]
                  ELSE told
    /\ UNCHANGED <<tsLoop, srvEnd, cliEnd, up, down,
                   sessions, activeHosts, ws, late, sent>>

\* The terminal stays in the session.
OnTerminalClosed ==
    /\ TakeWA("OnTerminalClosed")
    /\ LET c == Head(waLoop).c IN
          told' = IF HasSession(c)
                  THEN [told EXCEPT ![c].closed = @ \cup {Head(waLoop).t}]
                  ELSE told
    /\ UNCHANGED <<tsLoop, srvEnd, cliEnd, up, down,
                   sessions, activeHosts, ws, late, sent>>
=============================================================================
