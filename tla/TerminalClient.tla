--------------------------- MODULE TerminalClient ---------------------------
(***************************************************************************)
(* The terminal client of each machine: TerminalClient and its             *)
(* TerminalHandler.  Three threads meet here: the connection thread (reads *)
(* and connection events), the thread of _thread (its tasks), and the      *)
(* thread on which the Terminal objects report output and end of shells.   *)
(*                                                                         *)
(* ConnectionChecker::MointorUrl reconnects a client whose connection was  *)
(* lost; the new connection is a new host for the server.                  *)
(***************************************************************************)
EXTENDS Network, Integers

CONSTANTS
    READ_BLOCK_HIGH,  \* more unacknowledged output blocks reading
    READ_BLOCK_LOW,   \* less unacknowledged output resumes it
    MaxReads          \* bound: pieces of output the shells of a machine write

ASSUME TerminalClientAssumption ==
    /\ READ_BLOCK_HIGH \in Nat
    /\ READ_BLOCK_LOW \in Nat
    /\ READ_BLOCK_LOW <= READ_BLOCK_HIGH
    /\ MaxReads \in Nat

VARIABLES
    alive,        \* does the process of the machine run?
    client,       \* _client : the connection, possibly broken
    handler,      \* has _term_handler been created?
    terminals,    \* keys of TerminalHandler::_terminals
    shells,       \* those whose shell runs
    blocked,      \* those told EnableRead(false)
    readEnabled,  \* TerminalHandler::_read_enabled
    pending,      \* _pending_msg_counter
    loop,         \* tasks posted to _thread
    reads,        \* pieces of output the shells have written
    started       \* history: terminals that were ever created on a machine

tcVars == <<alive, client, handler, terminals, shells, blocked, readEnabled,
            pending, loop, reads, started>>

\* "SendCreated" is the rest of HandleCreateTerminal, after the shell started.
ClientTask ==
         [fn : {"HandleCreateTerminal", "HandleDeleteTerminal",
                "HandleResizeTerminal", "HandleTerminalWrite", "OnTerminalEnd"},
          t : TerminalId]
    \cup [fn : {"SendCreated"}, t : TerminalId, ok : BOOLEAN]
    \cup [fn : {"DeleteTerminals"}]
    \cup [fn : {"EnableReadFromTerminals"}, enabled : BOOLEAN]

TerminalClientTypeOK ==
    /\ alive \in [Machines -> BOOLEAN]
    /\ client \in [Machines -> Hosts \cup {NoHost}]
    /\ handler \in [Machines -> BOOLEAN]
    /\ terminals \in [Machines -> SUBSET TerminalId]
    /\ shells \in [Machines -> SUBSET TerminalId]
    /\ blocked \in [Machines -> SUBSET TerminalId]
    /\ readEnabled \in [Machines -> BOOLEAN]
    /\ pending \in [Machines -> Int]
    /\ loop \in [Machines -> Seq(ClientTask)]
    /\ reads \in [Machines -> Nat]
    /\ started \in SUBSET TerminalId

TerminalClientInit ==
    /\ alive = [m \in Machines |-> TRUE]
    /\ client = [m \in Machines |-> NoHost]
    /\ handler = [m \in Machines |-> FALSE]
    /\ terminals = [m \in Machines |-> {}]
    /\ shells = [m \in Machines |-> {}]
    /\ blocked = [m \in Machines |-> {}]
    /\ readEnabled = [m \in Machines |-> TRUE]
    /\ pending = [m \in Machines |-> 0]
    /\ loop = [m \in Machines |-> <<>>]
    /\ reads = [m \in Machines |-> 0]
    /\ started = {}
-----------------------------------------------------------------------------
Connected(m) == client[m] \in Hosts /\ cliEnd[client[m]]

\* A connection is made: both ends are up, the client introduces itself.
ClientOnClientConnected(m, h) ==
    /\ alive[m]
    /\ ~Connected(m)
    /\ srvEnd[h] = "none"
    /\ srvEnd' = [srvEnd EXCEPT ![h] = "up"]
    /\ cliEnd' = [cliEnd EXCEPT ![h] = TRUE]
    /\ client' = [client EXCEPT ![m] = h]
    /\ up' = [up EXCEPT ![h] = <<[type |-> "CLIENT_INFO"]>>]
    /\ UNCHANGED <<waLoop, tsLoop, down, alive, handler, terminals, shells,
                   blocked, readEnabled, pending, loop, reads, started>>

\* Tasks that blocking and resuming the reads of all terminals posts.
ReadControl(counter) ==
    IF counter > READ_BLOCK_HIGH
    THEN <<[fn |-> "EnableReadFromTerminals", enabled |-> FALSE]>>
    ELSE IF counter < READ_BLOCK_LOW
         THEN <<[fn |-> "EnableReadFromTerminals", enabled |-> TRUE]>>
         ELSE <<>>

ResolvePendingMsgUpdated(m, counter) ==
    /\ pending' = [pending EXCEPT ![m] = counter]
    /\ loop' = [loop EXCEPT ![m] = @ \o ReadControl(counter)]

HandlerOf(type) ==
    CASE type = "CREATE_TERMINAL" -> "HandleCreateTerminal"
      [] type = "RESIZE_TERMINAL" -> "HandleResizeTerminal"
      [] type = "DELETE_TERMINAL" -> "HandleDeleteTerminal"
      [] type = "ON_TERMINAL_WRITE" -> "HandleTerminalWrite"

ClientOnClientRead(m) ==
    /\ alive[m]
    /\ Connected(m)
    /\ down[client[m]] # <<>>
    /\ down' = [down EXCEPT ![client[m]] = Tail(@)]
    /\ LET msg == Head(down[client[m]]) IN
          \/ /\ msg.type = "ON_TERMINAL_READ_ACK"
             /\ ResolvePendingMsgUpdated(m, pending[m] - 1)
          \/ /\ msg.type # "ON_TERMINAL_READ_ACK"
             /\ loop' = [loop EXCEPT ![m] =
                            Append(@, [fn |-> HandlerOf(msg.type), t |-> msg.t])]
             /\ UNCHANGED pending
    /\ UNCHANGED <<waLoop, tsLoop, srvEnd, cliEnd, up, alive, client, handler,
                   terminals, shells, blocked, readEnabled, reads, started>>

\* Mutant: the terminals are left to the next connection.
HandleDisconnectedKeepTerminals(m) ==
    /\ alive[m]
    /\ Connected(m)
    /\ cliEnd' = [cliEnd EXCEPT ![client[m]] = FALSE]
    /\ down' = [down EXCEPT ![client[m]] = <<>>]
    /\ pending' = [pending EXCEPT ![m] = 0]
    /\ UNCHANGED <<waLoop, tsLoop, srvEnd, up, alive, client, handler, loop,
                   terminals, shells, blocked, readEnabled, reads, started>>

\* The client's end breaks (OnClientClosed), or the ConnectionChecker gave the
\* server up (OnClientUnresponsive): the terminals are deleted on the loop.
HandleDisconnected(m) ==
    /\ alive[m]
    /\ Connected(m)
    /\ cliEnd' = [cliEnd EXCEPT ![client[m]] = FALSE]
    /\ down' = [down EXCEPT ![client[m]] = <<>>]
    /\ pending' = [pending EXCEPT ![m] = 0]
    /\ loop' = [loop EXCEPT ![m] = Append(@, [fn |-> "DeleteTerminals"])]
    /\ UNCHANGED <<waLoop, tsLoop, srvEnd, up, alive, client, handler,
                   terminals, shells, blocked, readEnabled, reads, started>>
-----------------------------------------------------------------------------
\* The thread of _thread.
Take(m, fn) ==
    /\ alive[m]
    /\ Runs(loop[m], fn)
    /\ loop' = [loop EXCEPT ![m] = Tail(@)]

\* The shell starts, and may already write, before ON_TERMINAL_CREATED is sent.
HandleCreateTerminal(m) ==
    /\ alive[m]
    /\ Runs(loop[m], "HandleCreateTerminal")
    /\ handler' = [handler EXCEPT ![m] = TRUE]
    /\ LET t == Head(loop[m]).t IN
          \E ok \in BOOLEAN :
             /\ \/ /\ t \in terminals[m]
                   /\ ~ok
                   /\ UNCHANGED <<terminals, shells, started>>
                \/ /\ t \notin terminals[m]
                   /\ terminals' = [terminals EXCEPT ![m] = @ \cup {t}]
                   /\ started' = started \cup {t}
                   /\ shells' = IF ok THEN [shells EXCEPT ![m] = @ \cup {t}] ELSE shells
             /\ loop' = [loop EXCEPT ![m] =
                            <<[fn |-> "SendCreated", t |-> t, ok |-> ok]>> \o Tail(@)]
    /\ UNCHANGED <<netVars, alive, client, blocked, readEnabled, pending, reads>>

SendCreated(m) ==
    /\ Take(m, "SendCreated")
    /\ SendUp(client[m], [type |-> "ON_TERMINAL_CREATED", t |-> Head(loop[m]).t,
                          ok |-> Head(loop[m]).ok])
    /\ UNCHANGED <<waLoop, tsLoop, srvEnd, cliEnd, down, alive, client, handler,
                   terminals, shells, blocked, readEnabled, pending, reads, started>>

\* Erasing a Terminal destroys it: its shell ends, it reports nothing more.
Remove(m, ts) ==
    /\ terminals' = [terminals EXCEPT ![m] = @ \ ts]
    /\ shells' = [shells EXCEPT ![m] = @ \ ts]
    /\ blocked' = [blocked EXCEPT ![m] = @ \ ts]

HandleDeleteTerminal(m) ==
    /\ Take(m, "HandleDeleteTerminal")
    /\ Remove(m, {Head(loop[m]).t})
    /\ UNCHANGED <<netVars, alive, client, handler, readEnabled, pending, reads, started>>

\* What a resize or a key does to a shell is not modelled: only that the
\* message is consumed.
HandleResizeTerminal(m) ==
    /\ Take(m, "HandleResizeTerminal")
    /\ UNCHANGED <<netVars, alive, client, handler, terminals, shells, blocked,
                   readEnabled, pending, reads, started>>

HandleTerminalWrite(m) ==
    /\ Take(m, "HandleTerminalWrite")
    /\ UNCHANGED <<netVars, alive, client, handler, terminals, shells, blocked,
                   readEnabled, pending, reads, started>>

\* _term_handler is dereferenced unchecked: without one the process is killed,
\* and with it its end of a connection it has made in the meantime.
DeleteTerminals(m) ==
    /\ Take(m, "DeleteTerminals")
    /\ \/ /\ handler[m]
          /\ Remove(m, terminals[m])
          /\ UNCHANGED <<alive, cliEnd, down>>
       \/ /\ ~handler[m]
          /\ alive' = [alive EXCEPT ![m] = FALSE]
          /\ cliEnd' = [h \in Hosts |-> cliEnd[h] /\ h # client[m]]
          /\ down' = [h \in Hosts |-> IF h = client[m] THEN <<>> ELSE down[h]]
          /\ UNCHANGED <<terminals, shells, blocked>>
    /\ UNCHANGED <<waLoop, tsLoop, srvEnd, up, client, handler, readEnabled, pending, reads, started>>

EnableReadFromTerminals(m) ==
    /\ Take(m, "EnableReadFromTerminals")
    /\ LET enabled == Head(loop[m]).enabled IN
          \/ /\ ~handler[m] \/ readEnabled[m] = enabled
             /\ UNCHANGED <<readEnabled, blocked>>
          \/ /\ handler[m] /\ readEnabled[m] # enabled
             /\ readEnabled' = [readEnabled EXCEPT ![m] = enabled]
             /\ blocked' = [blocked EXCEPT ![m] = IF enabled THEN {} ELSE terminals[m]]
    /\ UNCHANGED <<netVars, alive, client, handler, terminals, shells, pending, reads, started>>

\* Mutant: the end of a shell is reported, its terminal is kept.
OnTerminalEndKeepTerminal(m) ==
    /\ Take(m, "OnTerminalEnd")
    /\ SendUp(client[m], [type |-> "ON_TERMINAL_END", t |-> Head(loop[m]).t])
    /\ UNCHANGED <<waLoop, tsLoop, srvEnd, cliEnd, down, alive, client, handler,
                   terminals, shells, blocked, readEnabled, pending, reads, started>>

OnTerminalEnd(m) ==
    /\ Take(m, "OnTerminalEnd")
    /\ LET t == Head(loop[m]).t IN
          /\ Remove(m, {t})
          /\ SendUp(client[m], [type |-> "ON_TERMINAL_END", t |-> t])
    /\ UNCHANGED <<waLoop, tsLoop, srvEnd, cliEnd, down, alive, client, handler,
                   readEnabled, pending, reads, started>>
-----------------------------------------------------------------------------
\* The terminals: output, and the end of a shell.
OnTerminalRead(m, t) ==
    /\ alive[m]
    /\ t \in shells[m] \ blocked[m]
    /\ reads[m] < MaxReads
    /\ reads' = [reads EXCEPT ![m] = @ + 1]
    /\ SendUp(client[m], [type |-> "ON_TERMINAL_READ", t |-> t])
    /\ ResolvePendingMsgUpdated(m, pending[m] + 1)
    /\ UNCHANGED <<waLoop, tsLoop, srvEnd, cliEnd, down, alive, client, handler,
                   terminals, shells, blocked, readEnabled, started>>

ShellExit(m, t) ==
    /\ alive[m]
    /\ t \in shells[m]
    /\ shells' = [shells EXCEPT ![m] = @ \ {t}]
    /\ loop' = [loop EXCEPT ![m] = Append(@, [fn |-> "OnTerminalEnd", t |-> t])]
    /\ UNCHANGED <<netVars, alive, client, handler, terminals, blocked,
                   readEnabled, pending, reads, started>>
=============================================================================
