------------------------------ MODULE Network ------------------------------
(***************************************************************************)
(* What the processes of html_terminal share: the two task queues of the   *)
(* control server (the ThreadLoop of WebAppServer and the one of           *)
(* TerminalServer), and the TCP connections between the control server and *)
(* the terminal clients.  The library that implements them (the "common"   *)
(* submodule) is not in the repository: it is modelled from its callers.   *)
(*                                                                         *)
(* A host is one accepted connection (Client::GetId() of the server side), *)
(* so a machine that reconnects is a new host.  A connection has two ends  *)
(* that break independently, and a FIFO of messages in each direction.     *)
(***************************************************************************)
EXTENDS Naturals, Sequences

CONSTANTS
    WebClients,  \* ids of the browser pages' websocket clients
    Hosts,       \* ids of the connections of terminal clients
    Machines,    \* the machines that run a terminal client
    NoHost       \* _client of a terminal client that never connected

ASSUME NetworkAssumption == NoHost \notin Hosts

VARIABLES
    waLoop,   \* tasks posted to WebAppServer::_thread_loop
    tsLoop,   \* tasks posted to TerminalServer::_thread
    srvEnd,   \* server's end of each connection
    cliEnd,   \* is the terminal client's end of each connection open?
    up,       \* messages from the terminal client to the server
    down      \* messages from the server to the terminal client

netVars == <<waLoop, tsLoop, srvEnd, cliEnd, up, down>>

TerminalId == Nat \ {0}

\* "removed": Server::RemoveClient was called, the socket may still deliver
EndState == {"none", "up", "removed", "closed"}

UpMsg ==
         [type : {"CLIENT_INFO"}]
    \cup [type : {"ON_TERMINAL_CREATED"}, t : TerminalId, ok : BOOLEAN]
    \cup [type : {"ON_TERMINAL_READ", "ON_TERMINAL_END"}, t : TerminalId]

DownMsg ==
         [type : {"CREATE_TERMINAL", "DELETE_TERMINAL", "RESIZE_TERMINAL",
                  "ON_TERMINAL_WRITE"}, t : TerminalId]
    \cup [type : {"ON_TERMINAL_READ_ACK"}]

\* A task is named after the member function its std::bind calls; the
\* OnWsClientMessage tasks after the handler the message's JSON type selects.
WebAppTask ==
         [fn : {"AddClient", "RemoveClient"}, c : WebClients]
    \cup [fn : {"OnTerminalAddReq"}, c : WebClients, h : Hosts]
    \cup [fn : {"OnTerminalResizeReq", "OnTerminalDelReq", "OnTerminalKeyEvent"},
          c : WebClients, t : TerminalId]
    \cup [fn : {"OnRemoteHostInfoReceived", "OnTerminalClientClosed"}, h : Hosts]
    \cup [fn : {"OnTerminalCreated"}, c : WebClients, t : TerminalId, h : Hosts,
          ok : BOOLEAN]
    \cup [fn : {"OnTerminalOutput"}, c : WebClients, t : TerminalId]
    \cup [fn : {"OnTerminalClosed"}, c : WebClients, t : TerminalId, h : Hosts]

TerminalTask ==
         [fn : {"CreateNewTerminal"}, c : WebClients, h : Hosts]
    \cup [fn : {"ResizeTerminal", "DeleteTerminal", "SendKeyEvent"},
          h : Hosts, t : TerminalId]
    \cup [fn : {"OnClientClosed"}, h : Hosts]
    \cup [fn : {"HandleTerminalCreated"}, h : Hosts, t : TerminalId, ok : BOOLEAN]
    \cup [fn : {"HandleTerminalRead", "HandleTerminalEnd"}, h : Hosts, t : TerminalId]

NetworkTypeOK ==
    /\ waLoop \in Seq(WebAppTask)
    /\ tsLoop \in Seq(TerminalTask)
    /\ srvEnd \in [Hosts -> EndState]
    /\ cliEnd \in [Hosts -> BOOLEAN]
    /\ up \in [Hosts -> Seq(UpMsg)]
    /\ down \in [Hosts -> Seq(DownMsg)]

NetworkInit ==
    /\ waLoop = <<>>
    /\ tsLoop = <<>>
    /\ srvEnd = [h \in Hosts |-> "none"]
    /\ cliEnd = [h \in Hosts |-> FALSE]
    /\ up = [h \in Hosts |-> <<>>]
    /\ down = [h \in Hosts |-> <<>>]
-----------------------------------------------------------------------------
\* ThreadLoop runs its tasks one at a time, in the order they were posted.
Runs(loop, fn) == loop # <<>> /\ Head(loop).fn = fn

\* Server::GetClient finds a connection until it is removed or closed.
GetClient(h) == srvEnd[h] = "up"

\* The connection thread delivers what is received on a removed connection too.
Delivers(h) == srvEnd[h] \in {"up", "removed"}

\* Client::Send: what is sent on a broken connection is lost.
SendDown(h, msg) ==
    down' = IF cliEnd[h] THEN [down EXCEPT ![h] = Append(@, msg)] ELSE down

SendUp(h, msg) ==
    up' = IF h \in Hosts /\ cliEnd[h] /\ Delivers(h)
          THEN [up EXCEPT ![h] = Append(@, msg)]
          ELSE up
=============================================================================
