--------------------------- MODULE TerminalServer ---------------------------
(***************************************************************************)
(* TerminalServer: the half of the control server that talks to the        *)
(* terminal clients.  Callbacks of the connection thread (ServerOn...)     *)
(* post to _thread; the tasks of _thread run one at a time and call        *)
(* WebAppServer by posting to its loop.  HandleClientInfo is the exception *)
(* that runs on the connection thread and posts to WebAppServer directly.  *)
(***************************************************************************)
EXTENDS Network, StdMap

VARIABLES
    remoteHosts,  \* _remote_hosts : host -> (terminal -> web client)
    idCounter,    \* _id_counter
    monitored,    \* hosts ConnectionChecker::MonitorClient was called for
    owner         \* history: who asked for each terminal and on which host

tsVars == <<remoteHosts, idCounter, monitored, owner>>

TerminalServerTypeOK ==
    /\ DOMAIN remoteHosts \subseteq Hosts
    /\ \A h \in DOMAIN remoteHosts :
          /\ DOMAIN remoteHosts[h] \subseteq TerminalId
          /\ \A t \in DOMAIN remoteHosts[h] : remoteHosts[h][t] \in WebClients
    /\ idCounter \in Nat
    /\ monitored \in SUBSET Hosts
    /\ owner \in Seq([c : WebClients, h : Hosts])

TerminalServerInit ==
    /\ remoteHosts = EmptyMap
    /\ idCounter = 0
    /\ monitored = {}
    /\ owner = <<>>
-----------------------------------------------------------------------------
\* The connection thread.
TaskOf(h, msg) ==
    CASE msg.type = "ON_TERMINAL_CREATED" ->
            [fn |-> "HandleTerminalCreated", h |-> h, t |-> msg.t, ok |-> msg.ok]
      [] msg.type = "ON_TERMINAL_READ" ->
            [fn |-> "HandleTerminalRead", h |-> h, t |-> msg.t]
      [] msg.type = "ON_TERMINAL_END" ->
            [fn |-> "HandleTerminalEnd", h |-> h, t |-> msg.t]

ServerOnClientRead(h) ==
    /\ Delivers(h)
    /\ up[h] # <<>>
    /\ up' = [up EXCEPT ![h] = Tail(@)]
    /\ LET msg == Head(up[h]) IN
          \/ /\ msg.type = "CLIENT_INFO"
             /\ monitored' = monitored \cup {h}
             /\ waLoop' = Append(waLoop, [fn |-> "OnRemoteHostInfoReceived", h |-> h])
             /\ UNCHANGED <<tsLoop, down>>
          \/ /\ msg.type \in {"ON_TERMINAL_CREATED", "ON_TERMINAL_END"}
             /\ tsLoop' = Append(tsLoop, TaskOf(h, msg))
             /\ UNCHANGED <<waLoop, down, monitored>>
          \/ /\ msg.type = "ON_TERMINAL_READ"
             /\ SendDown(h, [type |-> "ON_TERMINAL_READ_ACK"])
             /\ tsLoop' = Append(tsLoop, TaskOf(h, msg))
             /\ UNCHANGED <<waLoop, monitored>>
    /\ UNCHANGED <<srvEnd, cliEnd, remoteHosts, idCounter, owner>>

\* The server's end of a connection breaks: nothing more is read from it.
ServerOnClientClosed(h) ==
    /\ Delivers(h)
    /\ srvEnd' = [srvEnd EXCEPT ![h] = "closed"]
    /\ up' = [up EXCEPT ![h] = <<>>]
    /\ tsLoop' = Append(tsLoop, [fn |-> "OnClientClosed", h |-> h])
    /\ UNCHANGED <<waLoop, cliEnd, down, tsVars>>

\* The ConnectionChecker got no answer to its pings from a monitored host.
ServerOnClientUnresponsive(h) ==
    /\ h \in monitored
    /\ GetClient(h)
    /\ srvEnd' = [srvEnd EXCEPT ![h] = "removed"]
    /\ tsLoop' = Append(tsLoop, [fn |-> "OnClientClosed", h |-> h])
    /\ UNCHANGED <<waLoop, cliEnd, up, down, tsVars>>
-----------------------------------------------------------------------------
\* The thread of _thread.
TakeTS(fn) == Runs(tsLoop, fn) /\ tsLoop' = Tail(tsLoop)

\* Mutant: the counter is incremented after it is read.
NextIdPostIncrement == idCounter

NextId == idCounter + 1

\* Mutant: the two fields of TerminalInfo are swapped.
AddTerminalSwapped(h, t, c) ==
    remoteHosts' = Assign(remoteHosts, c, Insert(Entry(remoteHosts, c), t, h))

\* Mutant: insert() of a new RemoteHost, which keeps the one that is there.
AddTerminalToNewHost(h, t, c) ==
    remoteHosts' = Insert(remoteHosts, h, Assign(EmptyMap, t, c))

AddTerminal(h, t, c) ==
    remoteHosts' = Assign(remoteHosts, h, Insert(Entry(remoteHosts, h), t, c))

\* Mutant: the terminal is registered although its host is gone.
CreateNewTerminalUnchecked ==
    /\ TakeTS("CreateNewTerminal")
    /\ LET c == Head(tsLoop).c
           h == Head(tsLoop).h
       IN  /\ idCounter' = NextId
           /\ AddTerminal(h, NextId, c)
           /\ owner' = Append(owner, [c |-> c, h |-> h])
           /\ SendDown(h, [type |-> "CREATE_TERMINAL", t |-> NextId])
    /\ UNCHANGED <<waLoop, srvEnd, cliEnd, up, monitored>>

CreateNewTerminal ==
    /\ TakeTS("CreateNewTerminal")
    /\ LET c == Head(tsLoop).c
           h == Head(tsLoop).h
       IN  \/ /\ ~GetClient(h)
              /\ UNCHANGED <<down, remoteHosts, idCounter, owner>>
           \/ /\ GetClient(h)
              /\ idCounter' = NextId
              /\ AddTerminal(h, NextId, c)
              /\ owner' = Append(owner, [c |-> c, h |-> h])
              /\ SendDown(h, [type |-> "CREATE_TERMINAL", t |-> NextId])
    /\ UNCHANGED <<waLoop, srvEnd, cliEnd, up, monitored>>

\* Mutant: a command is sent on whatever connection the host had.
CommandUnchecked(fn, type) ==
    /\ TakeTS(fn)
    /\ SendDown(Head(tsLoop).h, [type |-> type, t |-> Head(tsLoop).t])
    /\ UNCHANGED <<waLoop, srvEnd, cliEnd, up, tsVars>>

\* Resize, delete and key event send one message to a host that is connected.
Command(fn, type) ==
    /\ TakeTS(fn)
    /\ LET h == Head(tsLoop).h IN
          \/ ~GetClient(h) /\ UNCHANGED down
          \/ GetClient(h) /\ SendDown(h, [type |-> type, t |-> Head(tsLoop).t])
    /\ UNCHANGED <<waLoop, srvEnd, cliEnd, up, tsVars>>

ResizeTerminal == Command("ResizeTerminal", "RESIZE_TERMINAL")
DeleteTerminal == Command("DeleteTerminal", "DELETE_TERMINAL")
SendKeyEvent   == Command("SendKeyEvent", "ON_TERMINAL_WRITE")

\* Mutant: only a host with terminals is reported as closed.
OnClientClosedIfUsed ==
    /\ TakeTS("OnClientClosed")
    /\ remoteHosts' = Erase(remoteHosts, Head(tsLoop).h)
    /\ waLoop' = IF Head(tsLoop).h \in DOMAIN remoteHosts
                 THEN Append(waLoop, [fn |-> "OnTerminalClientClosed",
                                      h |-> Head(tsLoop).h])
                 ELSE waLoop
    /\ UNCHANGED <<srvEnd, cliEnd, up, down, idCounter, monitored, owner>>

\* Mutant: the terminals of the host are still looked up.
OnClientClosedKeepRoutes ==
    /\ TakeTS("OnClientClosed")
    /\ waLoop' = Append(waLoop, [fn |-> "OnTerminalClientClosed", h |-> Head(tsLoop).h])
    /\ UNCHANGED <<srvEnd, cliEnd, up, down, tsVars>>

OnClientClosed ==
    /\ TakeTS("OnClientClosed")
    /\ remoteHosts' = Erase(remoteHosts, Head(tsLoop).h)
    /\ waLoop' = Append(waLoop, [fn |-> "OnTerminalClientClosed", h |-> Head(tsLoop).h])
    /\ UNCHANGED <<srvEnd, cliEnd, up, down, idCounter, monitored, owner>>

HasAppClient(h, t) == h \in DOMAIN remoteHosts /\ t \in DOMAIN remoteHosts[h]

\* Mutant: the page of the first terminal of the host.
GetFirstAppClient(h, t) ==
    remoteHosts[h][CHOOSE first \in DOMAIN remoteHosts[h] :
                      \A other \in DOMAIN remoteHosts[h] : first <= other]

GetAppClinetId(h, t) == remoteHosts[h][t]

\* What a host reports about a terminal goes on to the page that asked for it.
Report(fn, task) ==
    /\ TakeTS(fn)
    /\ waLoop' = IF HasAppClient(Head(tsLoop).h, Head(tsLoop).t)
                 THEN Append(waLoop, task)
                 ELSE waLoop
    /\ UNCHANGED <<srvEnd, cliEnd, up, down, tsVars>>

HandleTerminalCreated ==
    LET h == Head(tsLoop).h
        t == Head(tsLoop).t
    IN  Report("HandleTerminalCreated",
               [fn |-> "OnTerminalCreated", c |-> GetAppClinetId(h, t), t |-> t,
                h |-> h, ok |-> Head(tsLoop).ok])

HandleTerminalRead ==
    LET h == Head(tsLoop).h
        t == Head(tsLoop).t
    IN  Report("HandleTerminalRead",
               [fn |-> "OnTerminalOutput", c |-> GetAppClinetId(h, t), t |-> t])

HandleTerminalEnd ==
    LET h == Head(tsLoop).h
        t == Head(tsLoop).t
    IN  Report("HandleTerminalEnd",
               [fn |-> "OnTerminalClosed", c |-> GetAppClinetId(h, t), t |-> t,
                h |-> h])
=============================================================================
