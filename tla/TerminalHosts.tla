--------------------------- MODULE TerminalHosts ---------------------------
(***************************************************************************)
(* The terminal clients with a server of which only the interface is kept: *)
(* it orders terminals under fresh ids, sends commands for terminals it    *)
(* ordered on a connection to that connection, acknowledges output when it *)
(* reads it, and closes or gives up connections.  ControlSystem checks     *)
(* that the real server does no more than this (ImplementsAnyServer), so   *)
(* the clients can be studied here with two connections and more output    *)
(* than the whole system leaves room for.  Spec orders and commands        *)
(* without end; BoundedSpec is its part that TLC can exhaust.              *)
(***************************************************************************)
EXTENDS TerminalClient

CONSTANTS
    Commands,      \* the commands the server sends for existing terminals
    MaxTerminals,  \* bound: terminals the server orders
    MaxQueue       \* bound: messages on a connection when a command follows

ASSUME TerminalHostsAssumption ==
    /\ Commands \subseteq {"DELETE_TERMINAL", "RESIZE_TERMINAL", "ON_TERMINAL_WRITE"}
    /\ MaxTerminals \in Nat
    /\ MaxQueue \in Nat

VARIABLE ordered  \* the host each terminal was ordered on

hostsVars == <<netVars, tcVars, ordered>>

TerminalHostsTypeOK ==
    /\ NetworkTypeOK
    /\ TerminalClientTypeOK
    /\ ordered \in Seq(Hosts)

Init ==
    /\ NetworkInit
    /\ TerminalClientInit
    /\ ordered = <<>>
-----------------------------------------------------------------------------
\* The server.
\* Mutant: the first terminal gets the id 0.
NewIdFromZero == Len(ordered)

NewId == Len(ordered) + 1

ServerOrders(h) ==
    /\ GetClient(h)
    /\ ordered' = Append(ordered, h)
    /\ SendDown(h, [type |-> "CREATE_TERMINAL", t |-> NewId])
    /\ UNCHANGED <<waLoop, tsLoop, srvEnd, cliEnd, up, tcVars>>

ServerCommands(h) ==
    /\ GetClient(h)
    /\ \E type \in Commands, t \in DOMAIN ordered :
          /\ ordered[t] = h
          /\ SendDown(h, [type |-> type, t |-> t])
    /\ UNCHANGED <<waLoop, tsLoop, srvEnd, cliEnd, up, tcVars, ordered>>

ServerReads(h) ==
    /\ Delivers(h)
    /\ up[h] # <<>>
    /\ up' = [up EXCEPT ![h] = Tail(@)]
    /\ \/ /\ Head(up[h]).type = "ON_TERMINAL_READ"
          /\ SendDown(h, [type |-> "ON_TERMINAL_READ_ACK"])
       \/ /\ Head(up[h]).type # "ON_TERMINAL_READ"
          /\ UNCHANGED down
    /\ UNCHANGED <<waLoop, tsLoop, srvEnd, cliEnd, tcVars, ordered>>

ServerCloses(h) ==
    /\ Delivers(h)
    /\ srvEnd' = [srvEnd EXCEPT ![h] = "closed"]
    /\ up' = [up EXCEPT ![h] = <<>>]
    /\ UNCHANGED <<waLoop, tsLoop, cliEnd, down, tcVars, ordered>>

ServerRemoves(h) ==
    /\ GetClient(h)
    /\ srvEnd' = [srvEnd EXCEPT ![h] = "removed"]
    /\ UNCHANGED <<waLoop, tsLoop, cliEnd, up, down, tcVars, ordered>>

ClientStep(m) ==
    \/ \E h \in Hosts : ClientOnClientConnected(m, h) /\ UNCHANGED ordered
    \/ ClientOnClientRead(m) /\ UNCHANGED ordered
    \/ HandleDisconnected(m) /\ UNCHANGED ordered
    \/ HandleCreateTerminal(m) /\ UNCHANGED ordered
    \/ SendCreated(m) /\ UNCHANGED ordered
    \/ HandleDeleteTerminal(m) /\ UNCHANGED ordered
    \/ HandleResizeTerminal(m) /\ UNCHANGED ordered
    \/ HandleTerminalWrite(m) /\ UNCHANGED ordered
    \/ DeleteTerminals(m) /\ UNCHANGED ordered
    \/ EnableReadFromTerminals(m) /\ UNCHANGED ordered
    \/ OnTerminalEnd(m) /\ UNCHANGED ordered
    \/ \E t \in DOMAIN ordered : OnTerminalRead(m, t) /\ UNCHANGED ordered
    \/ \E t \in DOMAIN ordered : ShellExit(m, t) /\ UNCHANGED ordered

\* Steps that use up what was ordered and sent.
Reaction ==
    \/ \E h \in Hosts : ServerReads(h)
    \/ \E h \in Hosts : ServerCloses(h)
    \/ \E h \in Hosts : ServerRemoves(h)
    \/ \E m \in Machines : ClientStep(m)

Next ==
    \/ \E h \in Hosts : ServerOrders(h)
    \/ \E h \in Hosts : ServerCommands(h)
    \/ Reaction

Spec == Init /\ [][Next]_hostsVars

\* What keeps the instances of TLC finite.
Room(h) ==
    /\ Len(down[h]) + Len(up[h]) < MaxQueue
    /\ \A m \in Machines : Len(loop[m]) < MaxQueue

BoundedNext ==
    \/ Len(ordered) < MaxTerminals /\ \E h \in Hosts : ServerOrders(h)
    \/ \E h \in Hosts : Room(h) /\ ServerCommands(h)
    \/ Reaction

BoundedSpec == Init /\ [][BoundedNext]_hostsVars
-----------------------------------------------------------------------------
\* Terminals of an earlier connection live on a machine only until the
\* DeleteTerminals task that the disconnect posted has run: a reconnect never
\* mixes the terminals of two connections for good (TerminalClient.cpp
\* HandleDisconnected, DeleteTerminals).
OldTerminalsPendingDeletion ==
    \A m \in Machines : \A t \in terminals[m] :
        \/ Connected(m) /\ ordered[t] = client[m]
        \/ \E i \in DOMAIN loop[m] : loop[m][i].fn = "DeleteTerminals"

\* What a disconnected client does is not to crash: losing the connection is
\* handled in the same way whether or not a terminal was ever created, as the
\* null check of _term_handler in the other handlers intends
\* (TerminalClient.cpp:210, 232, 253, 308).
SurvivesDisconnect == \A m \in Machines : alive[m]
=============================================================================
