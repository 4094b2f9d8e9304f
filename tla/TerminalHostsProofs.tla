------------------------- MODULE TerminalHostsProofs -------------------------
(***************************************************************************)
(* The terminals of a machine belong to its connection, whatever the       *)
(* server orders, commands, acknowledges or gives up, and in whatever      *)
(* order.  An order is a message, then a task, then a terminal; a          *)
(* disconnect can come between any two of them.                            *)
(***************************************************************************)
EXTENDS TerminalHosts, ClientProofs

\* Terminal t was ordered on the connection machine m has.
Current(m, t) == Connected(m) /\ ordered[t] = client[m]

\* At or after place k of its loop, machine m deletes all its terminals.
DeletionFrom(m, k) ==
    \E j \in DOMAIN loop[m] : j >= k /\ loop[m][j].fn = "DeleteTerminals"

\* A message orders a terminal on its connection.
OrdersFit ==
    \A h \in Hosts : \A i \in DOMAIN down[h] :
        down[h][i].type = "CREATE_TERMINAL"
            => down[h][i].t \in DOMAIN ordered /\ ordered[down[h][i].t] = h

\* What a machine creates for an old connection is deleted by a later task.
TasksFit(m) ==
    \A i \in DOMAIN loop[m] :
        loop[m][i].fn = "HandleCreateTerminal"
            => /\ loop[m][i].t \in DOMAIN ordered
               /\ Current(m, loop[m][i].t) \/ DeletionFrom(m, i + 1)

TerminalsFit(m) ==
    \A t \in terminals[m] : t \in DOMAIN ordered /\ (Current(m, t) \/ DeletionFrom(m, 1))

Fit(m) ==
    /\ client[m] \in Hosts => srvEnd[client[m]] # "none"
    /\ terminals[m] # {} => alive[m] /\ handler[m]
    /\ TerminalsFit(m)
    /\ alive[m] => TasksFit(m)

\* A connection is that of one machine.
OwnConnections ==
    \A m, n \in Machines : client[m] \in Hosts /\ client[m] = client[n] => m = n

\* The inductive invariant.
ClientsInv ==
    /\ TerminalHostsTypeOK
    /\ OwnConnections
    /\ OrdersFit
    /\ \A m \in Machines : Fit(m)
-----------------------------------------------------------------------------
LEMMA OrderedTypes ==
    ASSUME TerminalHostsTypeOK
    PROVE  /\ ClientTypes
           /\ ordered \in Seq(Hosts) /\ DOMAIN ordered = 1 .. Len(ordered)
           /\ \A t \in DOMAIN ordered : t \in TerminalId /\ ordered[t] \in Hosts
<1>1. ordered \in Seq(Hosts)
  BY DEF TerminalHostsTypeOK
<1>2. DOMAIN ordered = 1 .. Len(ordered) /\ Len(ordered) \in Nat
  BY <1>1
<1>3. ASSUME NEW t \in DOMAIN ordered PROVE t \in TerminalId /\ ordered[t] \in Hosts
  BY <1>1, <1>2 DEF TerminalId
<1> QED BY <1>1, <1>2, <1>3 DEF TerminalHostsTypeOK, ClientTypes

\* The clients' steps are those of ClientProofs.
LEMMA ClientSteps ==
    ASSUME NEW m \in Machines, ClientStep(m)
    PROVE  /\ UNCHANGED ordered
           /\ \/ ConnectionStep(m)
              \/ TaskStep(m)
              \/ \E t \in DOMAIN ordered : ShellStep(m, t)
  BY DEF ClientStep, ConnectionStep, TaskStep, ShellStep

LEMMA NextTyped == ASSUME TerminalHostsTypeOK, [Next]_hostsVars PROVE TerminalHostsTypeOK'
<1> USE OrderedTypes
<1>1. \A h \in Hosts : up[h] # <<>> => Tail(up[h]) \in Seq(UpMsg)
  BY HeadAndTail DEF TerminalHostsTypeOK, NetworkTypeOK
<1>2. CASE \E h \in Hosts : ServerOrders(h)
  <2>1. PICK h \in Hosts : ServerOrders(h)
    BY <1>2
  <2>2. ordered' \in Seq(Hosts)
    BY <2>1 DEF ServerOrders
  <2>3. NewId \in TerminalId
    BY DEF NewId, TerminalId
  <2>4. [type |-> "CREATE_TERMINAL", t |-> NewId] \in DownMsg
    BY <2>3, SentMessages
  <2>5. down' \in [Hosts -> Seq(DownMsg)]
    BY <2>1, <2>4, SendDownType DEF ServerOrders, ClientTypes
  <2> QED
    BY <2>1, <2>2, <2>5 DEF ServerOrders, TerminalHostsTypeOK, NetworkTypeOK, TerminalClientTypeOK, tcVars
<1>3. CASE \E h \in Hosts : ServerCommands(h)
  <2>1. PICK h \in Hosts : ServerCommands(h)
    BY <1>3
  <2>2. PICK type \in Commands, t \in DOMAIN ordered : SendDown(h, [type |-> type, t |-> t])
    BY <2>1 DEF ServerCommands
  <2>3. [type |-> type, t |-> t] \in DownMsg
    <3>1. type \in {"DELETE_TERMINAL", "RESIZE_TERMINAL", "ON_TERMINAL_WRITE"}
      BY TerminalHostsAssumption
    <3> QED BY <3>1, SentMessages
  <2>4. down' \in [Hosts -> Seq(DownMsg)]
    BY <2>2, <2>3, SendDownType DEF ClientTypes
  <2> QED
    BY <2>1, <2>4 DEF ServerCommands, TerminalHostsTypeOK, NetworkTypeOK, TerminalClientTypeOK, tcVars
<1>4. CASE \E h \in Hosts : ServerReads(h)
  <2>1. PICK h \in Hosts : ServerReads(h)
    BY <1>4
  <2>2. up' \in [Hosts -> Seq(UpMsg)]
    BY <1>1, <2>1 DEF ServerReads, TerminalHostsTypeOK, NetworkTypeOK
  <2>3. down' \in [Hosts -> Seq(DownMsg)]
    <3>1. CASE SendDown(h, [type |-> "ON_TERMINAL_READ_ACK"])
      BY <3>1, SendDownType, SentMessages DEF ClientTypes
    <3>2. CASE UNCHANGED down
      BY <3>2 DEF TerminalHostsTypeOK, NetworkTypeOK
    <3> QED BY <2>1, <3>1, <3>2 DEF ServerReads
  <2> QED
    BY <2>1, <2>2, <2>3 DEF ServerReads, TerminalHostsTypeOK, NetworkTypeOK, TerminalClientTypeOK, tcVars
<1>5. CASE \E h \in Hosts : ServerCloses(h) \/ ServerRemoves(h)
  <2>1. PICK h \in Hosts : ServerCloses(h) \/ ServerRemoves(h)
    BY <1>5
  <2>2. up' \in [Hosts -> Seq(UpMsg)]
    <3>1. up \in [Hosts -> Seq(UpMsg)] /\ <<>> \in Seq(UpMsg)
      BY DEF TerminalHostsTypeOK, NetworkTypeOK
    <3>2. up' = up \/ up' = [up EXCEPT ![h] = <<>>]
      BY <2>1 DEF ServerCloses, ServerRemoves
    <3> QED BY <3>1, <3>2
  <2>3. srvEnd' \in [Hosts -> EndState]
    BY <2>1 DEF ServerCloses, ServerRemoves, TerminalHostsTypeOK, NetworkTypeOK, EndState
  <2> QED
    BY <2>1, <2>2, <2>3
    DEF ServerCloses, ServerRemoves, TerminalHostsTypeOK, NetworkTypeOK, TerminalClientTypeOK, tcVars
<1>6. CASE \E m \in Machines : ClientStep(m)
  <2>1. PICK m \in Machines : ClientStep(m)
    BY <1>6
  <2>2. UNCHANGED ordered
    BY <2>1, ClientSteps
  <2>3. ClientTypes'
    BY <2>1, ClientSteps, ConnectionStepType, TaskStepType, ShellStepType
  <2> QED BY <2>2, <2>3 DEF TerminalHostsTypeOK, ClientTypes
<1>7. CASE UNCHANGED hostsVars
  BY <1>7 DEF hostsVars, netVars, tcVars, TerminalHostsTypeOK, NetworkTypeOK, TerminalClientTypeOK
<1> QED BY <1>2, <1>3, <1>4, <1>5, <1>6, <1>7 DEF Next, Reaction
-----------------------------------------------------------------------------
(***************************************************************************)
(* What a machine keeps.                                                   *)
(***************************************************************************)
\* Orders are never revised, connections never made a second time.
LEMMA Monotone ==
    ASSUME TerminalHostsTypeOK, [Next]_hostsVars
    PROVE  /\ \A t \in DOMAIN ordered : t \in DOMAIN ordered' /\ ordered'[t] = ordered[t]
           /\ \A h \in Hosts : srvEnd[h] # "none" => srvEnd'[h] # "none"
<1> USE OrderedTypes
<1>1. CASE \E h \in Hosts : ServerOrders(h)
  BY <1>1 DEF ServerOrders
<1>2. CASE \E h \in Hosts : ServerCommands(h) \/ ServerReads(h)
  BY <1>2 DEF ServerCommands, ServerReads
<1>3. CASE \E h \in Hosts : ServerCloses(h) \/ ServerRemoves(h)
  <2>1. UNCHANGED ordered
    BY <1>3 DEF ServerCloses, ServerRemoves
  <2>2. \E h \in Hosts, e \in {"closed", "removed"} : srvEnd' = [srvEnd EXCEPT ![h] = e]
    BY <1>3 DEF ServerCloses, ServerRemoves
  <2>3. srvEnd \in [Hosts -> EndState]
    BY DEF TerminalHostsTypeOK, NetworkTypeOK
  <2> QED BY <2>1, <2>2, <2>3
<1>4. CASE \E m \in Machines : ClientStep(m)
  <2>1. UNCHANGED ordered
    BY <1>4, ClientSteps
  <2>2. \/ UNCHANGED srvEnd
        \/ \E h \in Hosts : srvEnd' = [srvEnd EXCEPT ![h] = "up"]
    BY <1>4 DEF ClientStep, ClientOnClientConnected, ClientOnClientRead, HandleDisconnected,
       HandleCreateTerminal, SendCreated, HandleDeleteTerminal, HandleResizeTerminal,
       HandleTerminalWrite, DeleteTerminals, EnableReadFromTerminals, OnTerminalEnd,
       OnTerminalRead, ShellExit, netVars
  <2>3. srvEnd \in [Hosts -> EndState]
    BY DEF TerminalHostsTypeOK, NetworkTypeOK
  <2> QED BY <2>1, <2>2, <2>3
<1>5. CASE UNCHANGED hostsVars
  BY <1>5 DEF hostsVars, netVars
<1> QED BY <1>1, <1>2, <1>3, <1>4, <1>5 DEF Next, Reaction

\* What is current stays so as long as the connection does.
LEMMA CurrentStays ==
    ASSUME TerminalHostsTypeOK, [Next]_hostsVars, NEW m \in Machines, NEW t \in DOMAIN ordered,
           client'[m] = client[m], Connected(m) => Connected(m)', Current(m, t)
    PROVE  Current(m, t)'
<1>1. ordered'[t] = ordered[t]
  BY Monotone
<1> QED BY <1>1 DEF Current

\* A machine that takes no step stays fit, whatever the others do.
LEMMA OthersFit ==
    ASSUME TerminalHostsTypeOK, [Next]_hostsVars, NEW m \in Machines, Fit(m),
           client'[m] = client[m], alive'[m] = alive[m], handler'[m] = handler[m],
           terminals'[m] = terminals[m], loop'[m] = loop[m], Connected(m) => Connected(m)'
    PROVE  Fit(m)'
<1>1. \A t \in DOMAIN ordered : t \in DOMAIN ordered' /\ (Current(m, t) => Current(m, t)')
  BY Monotone, CurrentStays
<1>2. \A k : DeletionFrom(m, k) => DeletionFrom(m, k)'
  BY DEF DeletionFrom
<1>3. client[m] \in Hosts => srvEnd'[client[m]] # "none"
  BY Monotone DEF Fit
<1>4. TerminalsFit(m)'
  BY <1>1, <1>2 DEF Fit, TerminalsFit
<1>5. alive[m] => TasksFit(m)'
  BY <1>1, <1>2 DEF Fit, TasksFit
<1> QED BY <1>3, <1>4, <1>5 DEF Fit
-----------------------------------------------------------------------------
(***************************************************************************)
(* The steps of a machine.                                                 *)
(***************************************************************************)
\* Posting a task that creates nothing, or creates for the current connection.
LEMMA PostedFit ==
    ASSUME ClientsInv, [Next]_hostsVars, NEW m \in Machines, NEW r \in Seq(ClientTask),
           loop'[m] = loop[m] \o r,
           client'[m] = client[m], alive'[m] = alive[m], handler'[m] = handler[m],
           terminals'[m] = terminals[m], Connected(m) => Connected(m)',
           \A i \in DOMAIN r : r[i].fn = "HandleCreateTerminal"
               => r[i].t \in DOMAIN ordered /\ Current(m, r[i].t)
    PROVE  Fit(m)'
<1>1. TerminalHostsTypeOK /\ Fit(m) /\ loop[m] \in Seq(ClientTask)
  BY DEF ClientsInv, TerminalHostsTypeOK, TerminalClientTypeOK
<1>2. \A t \in DOMAIN ordered : t \in DOMAIN ordered' /\ (Current(m, t) => Current(m, t)')
  BY <1>1, Monotone, CurrentStays
<1>3. /\ \A i \in DOMAIN loop[m] : i \in DOMAIN loop'[m] /\ loop'[m][i] = loop[m][i]
      /\ \A i \in DOMAIN loop'[m] :
            \/ i \in DOMAIN loop[m]
            \/ i - Len(loop[m]) \in DOMAIN r /\ loop'[m][i] = r[i - Len(loop[m])]
  BY <1>1, Joined
<1>4. \A k : DeletionFrom(m, k) => DeletionFrom(m, k)'
  BY <1>3 DEF DeletionFrom
<1>5. client[m] \in Hosts => srvEnd'[client[m]] # "none"
  BY <1>1, Monotone DEF Fit
<1>6. TerminalsFit(m)'
  BY <1>1, <1>2, <1>4 DEF Fit, TerminalsFit
<1>7. ASSUME alive[m], NEW i \in DOMAIN loop'[m], NEW t, t = loop'[m][i].t,
             loop'[m][i].fn = "HandleCreateTerminal"
      PROVE  t \in DOMAIN ordered' /\ (Current(m, t)' \/ DeletionFrom(m, i + 1)')
  <2>1. CASE i \in DOMAIN loop[m]
    <3>1. t = loop[m][i].t /\ loop[m][i].fn = "HandleCreateTerminal"
      BY <1>3, <1>7, <2>1
    <3>2. t \in DOMAIN ordered /\ (Current(m, t) \/ DeletionFrom(m, i + 1))
      BY <1>1, <1>7, <2>1, <3>1 DEF Fit, TasksFit
    <3> QED BY <1>2, <1>4, <3>2
  <2>2. CASE i \notin DOMAIN loop[m]
    <3>1. t \in DOMAIN ordered /\ Current(m, t)
      BY <1>3, <1>7, <2>2
    <3> QED BY <1>2, <3>1
  <2> QED BY <2>1, <2>2
<1>8. alive[m] => TasksFit(m)'
  BY <1>7 DEF TasksFit
<1> QED BY <1>1, <1>5, <1>6, <1>8 DEF Fit

\* A task that is done leaves the loop; a task that creates has become a
\* terminal.
LEMMA TakenFit ==
    ASSUME ClientsInv, [Next]_hostsVars, NEW m \in Machines, loop[m] # <<>>,
           loop'[m] = Tail(loop[m]), Head(loop[m]).fn # "DeleteTerminals",
           client'[m] = client[m], alive'[m] = alive[m], handler'[m] = handler[m],
           terminals'[m] \subseteq terminals[m], Connected(m) => Connected(m)'
    PROVE  Fit(m)'
<1>1. TerminalHostsTypeOK /\ Fit(m) /\ loop[m] \in Seq(ClientTask)
  BY DEF ClientsInv, TerminalHostsTypeOK, TerminalClientTypeOK
<1>2. \A t \in DOMAIN ordered : t \in DOMAIN ordered' /\ (Current(m, t) => Current(m, t)')
  BY <1>1, Monotone, CurrentStays
<1>3. /\ \A i \in DOMAIN loop'[m] : /\ i \in Nat /\ i >= 1 /\ i + 1 \in DOMAIN loop[m]
                                    /\ loop'[m][i] = loop[m][i + 1]
      /\ \A j \in DOMAIN loop[m] : j \in Nat /\ j >= 1
      /\ \A j \in DOMAIN loop[m] :
            j > 1 => j - 1 \in DOMAIN loop'[m] /\ loop'[m][j - 1] = loop[m][j]
      /\ loop[m][1] = Head(loop[m])
  BY <1>1
<1>4. ASSUME NEW k \in Nat, k > 1, DeletionFrom(m, k)
      PROVE  DeletionFrom(m, k - 1)'
  <2>1. PICK j \in DOMAIN loop[m] : j >= k /\ loop[m][j].fn = "DeleteTerminals"
    BY <1>4 DEF DeletionFrom
  <2>2. j > 1 /\ j \in Nat
    BY <1>3, <1>4, <2>1
  <2>3. j - 1 \in DOMAIN loop'[m] /\ loop'[m][j - 1].fn = "DeleteTerminals"
    BY <1>3, <2>1, <2>2
  <2>4. j - 1 >= k - 1
    BY <2>1, <2>2, <1>4
  <2> QED BY <2>3, <2>4 DEF DeletionFrom
<1>5. DeletionFrom(m, 1) => DeletionFrom(m, 1)'
  <2> SUFFICES ASSUME DeletionFrom(m, 1) PROVE DeletionFrom(m, 1)'
    OBVIOUS
  <2>1. PICK j \in DOMAIN loop[m] : j >= 1 /\ loop[m][j].fn = "DeleteTerminals"
    BY DEF DeletionFrom
  <2>2. j # 1 /\ j \in Nat
    BY <1>3, <2>1
  <2>3. j >= 2
    BY <2>1, <2>2
  <2>4. DeletionFrom(m, 2)
    BY <2>1, <2>3 DEF DeletionFrom
  <2>5. DeletionFrom(m, 2 - 1)'
    BY <1>4, <2>4
  <2> QED BY <2>5
<1>6. client[m] \in Hosts => srvEnd'[client[m]] # "none"
  BY <1>1, Monotone DEF Fit
<1>7. TerminalsFit(m)'
  BY <1>1, <1>2, <1>5 DEF Fit, TerminalsFit
<1>8. ASSUME alive[m], NEW i \in DOMAIN loop'[m], NEW t, t = loop'[m][i].t,
             loop'[m][i].fn = "HandleCreateTerminal"
      PROVE  t \in DOMAIN ordered' /\ (Current(m, t)' \/ DeletionFrom(m, i + 1)')
  <2>1. /\ i \in Nat /\ i >= 1 /\ i + 1 \in DOMAIN loop[m]
        /\ t = loop[m][i + 1].t /\ loop[m][i + 1].fn = "HandleCreateTerminal"
    BY <1>3, <1>8
  <2>2. t \in DOMAIN ordered /\ (Current(m, t) \/ DeletionFrom(m, i + 1 + 1))
    BY <1>1, <1>8, <2>1 DEF Fit, TasksFit
  <2>3. DeletionFrom(m, i + 1 + 1) => DeletionFrom(m, i + 1)'
    <3>1. i + 1 + 1 \in Nat /\ i + 1 + 1 > 1 /\ i + 1 + 1 - 1 = i + 1
      BY <2>1
    <3>2. PICK k : k = i + 1 + 1
      OBVIOUS
    <3>3. DeletionFrom(m, k) => DeletionFrom(m, k - 1)'
      BY <1>4, <3>1, <3>2
    <3>4. k - 1 = i + 1
      BY <3>1, <3>2
    <3> QED BY <3>2, <3>3, <3>4
  <2> QED BY <1>2, <2>2, <2>3
<1>9. alive[m] => TasksFit(m)'
  BY <1>8 DEF TasksFit
<1> QED BY <1>1, <1>6, <1>7, <1>9 DEF Fit

\* A new connection finds everything of the old one on its way out.
LEMMA ConnectedFit ==
    ASSUME ClientsInv, [Next]_hostsVars, NEW m \in Machines, NEW h \in Hosts,
           ClientOnClientConnected(m, h)
    PROVE  Fit(m)'
<1>1. TerminalHostsTypeOK /\ Fit(m)
  BY DEF ClientsInv
<1>2. /\ ~Connected(m) /\ client'[m] = h /\ srvEnd'[h] = "up"
      /\ UNCHANGED <<alive, handler, terminals, loop>>
  BY <1>1 DEF ClientOnClientConnected, TerminalHostsTypeOK, NetworkTypeOK, TerminalClientTypeOK
<1>3. \A t \in DOMAIN ordered : t \in DOMAIN ordered'
  BY <1>1, Monotone
<1>4. \A k : DeletionFrom(m, k) => DeletionFrom(m, k)'
  BY <1>2 DEF DeletionFrom
<1>5. TerminalsFit(m)'
  BY <1>1, <1>2, <1>3, <1>4 DEF Fit, TerminalsFit, Current
<1>6. alive[m] => TasksFit(m)'
  BY <1>1, <1>2, <1>3, <1>4 DEF Fit, TasksFit, Current
<1> QED BY <1>1, <1>2, <1>5, <1>6 DEF Fit

\* After a disconnect a task waits that deletes what there is by then.
LEMMA DisconnectedFit ==
    ASSUME ClientsInv, [Next]_hostsVars, NEW m \in Machines, HandleDisconnected(m)
    PROVE  Fit(m)'
<1>1. TerminalHostsTypeOK /\ Fit(m) /\ loop[m] \in Seq(ClientTask)
  BY DEF ClientsInv, TerminalHostsTypeOK, TerminalClientTypeOK
<1>2. PICK k : k = [fn |-> "DeleteTerminals"]
  OBVIOUS
<1>3. loop'[m] = Append(loop[m], k) /\ UNCHANGED <<alive, client, handler, terminals>>
  BY <1>1, <1>2 DEF HandleDisconnected, TerminalHostsTypeOK, TerminalClientTypeOK
<1>4. \A t \in DOMAIN ordered : t \in DOMAIN ordered'
  BY <1>1, Monotone
<1>5. PICK n \in Nat : n = Len(loop[m])
  BY <1>1
<1>6. /\ n + 1 \in DOMAIN loop'[m] /\ loop'[m][n + 1] = k
      /\ \A i \in DOMAIN loop'[m] : i \in Nat /\ i >= 1 /\ i <= n + 1
      /\ \A i \in DOMAIN loop'[m] : i # n + 1 => i \in DOMAIN loop[m] /\ loop'[m][i] = loop[m][i]
  BY <1>1, <1>3, <1>5
<1>7. \A i \in Nat : i <= n + 1 => DeletionFrom(m, i)'
  BY <1>2, <1>6 DEF DeletionFrom
<1>8. DeletionFrom(m, 1)'
  BY <1>5, <1>7
<1>9. client[m] \in Hosts => srvEnd'[client[m]] # "none"
  BY <1>1, Monotone DEF Fit
<1>10. TerminalsFit(m)'
  BY <1>1, <1>3, <1>4, <1>8 DEF Fit, TerminalsFit
<1>11. ASSUME alive[m], NEW i \in DOMAIN loop'[m], loop'[m][i].fn = "HandleCreateTerminal"
       PROVE  loop'[m][i].t \in DOMAIN ordered' /\ DeletionFrom(m, i + 1)'
  <2>1. i # n + 1
    BY <1>2, <1>6, <1>11
  <2>2. i \in DOMAIN loop[m] /\ loop'[m][i] = loop[m][i]
    BY <1>6, <2>1
  <2>3. loop'[m][i].t \in DOMAIN ordered
    BY <1>1, <1>11, <2>2 DEF Fit, TasksFit
  <2>4. i + 1 \in Nat /\ i + 1 <= n + 1
    BY <1>5, <1>6, <2>1
  <2> QED BY <1>4, <1>7, <2>3, <2>4
<1>12. alive[m] => TasksFit(m)'
  BY <1>11 DEF TasksFit
<1> QED BY <1>1, <1>3, <1>9, <1>10, <1>12 DEF Fit

\* A task becomes a terminal, and the rest of the task takes its place.
LEMMA CreatedFit ==
    ASSUME ClientsInv, [Next]_hostsVars, NEW m \in Machines, HandleCreateTerminal(m)
    PROVE  Fit(m)'
<1>1. TerminalHostsTypeOK /\ Fit(m) /\ loop[m] \in Seq(ClientTask)
  BY DEF ClientsInv, TerminalHostsTypeOK, TerminalClientTypeOK
<1>2. PICK t : t = Head(loop[m]).t
  OBVIOUS
<1>3. PICK k : /\ k.fn = "SendCreated"
               /\ loop'[m] = <<k>> \o Tail(loop[m])
  <2>1. PICK ok \in BOOLEAN :
           loop' = [loop EXCEPT ![m] = <<[fn |-> "SendCreated", t |-> Head(loop[m]).t, ok |-> ok]>>
                                           \o Tail(@)]
    BY DEF HandleCreateTerminal
  <2>2. loop'[m] = <<[fn |-> "SendCreated", t |-> Head(loop[m]).t, ok |-> ok]>> \o Tail(loop[m])
    BY <2>1 DEF ClientsInv, TerminalHostsTypeOK, TerminalClientTypeOK
  <2> QED BY <2>2
<1>4. /\ alive[m] /\ loop[m] # <<>> /\ Head(loop[m]).fn = "HandleCreateTerminal"
      /\ UNCHANGED <<alive, client, cliEnd>>
      /\ handler'[m] /\ terminals'[m] \subseteq terminals[m] \cup {t}
  <2>1. handler \in [Machines -> BOOLEAN] /\ terminals \in [Machines -> SUBSET TerminalId]
    BY <1>1 DEF TerminalHostsTypeOK, TerminalClientTypeOK
  <2> QED BY <1>2, <2>1 DEF HandleCreateTerminal, Runs, netVars
<1>5. Connected(m) => Connected(m)'
  BY <1>4 DEF Connected
<1>6. \A u \in DOMAIN ordered : u \in DOMAIN ordered' /\ (Current(m, u) => Current(m, u)')
  BY <1>1, <1>4, <1>5, Monotone, CurrentStays
<1>7. /\ loop[m][1] = Head(loop[m]) /\ 1 \in DOMAIN loop[m]
      /\ loop'[m][1] = k /\ DOMAIN loop'[m] = DOMAIN loop[m]
      /\ \A i \in DOMAIN loop[m] : i # 1 => loop'[m][i] = loop[m][i]
  <2>1. PICK q \in Seq(ClientTask) : q = loop[m]
    BY <1>1
  <2>2. q # <<>> /\ Tail(q) \in Seq(ClientTask)
    BY <1>4, <2>1
  <2>3. PICK r : r = <<k>> \o Tail(q)
    OBVIOUS
  <2>4. DOMAIN r = DOMAIN q /\ r[1] = k /\ \A i \in DOMAIN q : i # 1 => r[i] = q[i]
    BY <2>1, <2>2, <2>3
  <2>5. q[1] = Head(q) /\ 1 \in DOMAIN q
    BY <2>1, <2>2
  <2> QED BY <1>3, <2>1, <2>3, <2>4, <2>5
<1>8. \A j \in DOMAIN loop[m] : loop[m][j].fn = "DeleteTerminals"
         => j # 1 /\ loop'[m][j] = loop[m][j]
  BY <1>4, <1>7
<1>9. \A n : DeletionFrom(m, n) => DeletionFrom(m, n)'
  BY <1>7, <1>8 DEF DeletionFrom
<1>10. client[m] \in Hosts => srvEnd'[client[m]] # "none"
  BY <1>1, Monotone DEF Fit
<1>11. t \in DOMAIN ordered /\ (Current(m, t) \/ DeletionFrom(m, 1))
  <2>1. t \in DOMAIN ordered /\ (Current(m, t) \/ DeletionFrom(m, 1 + 1))
    BY <1>1, <1>2, <1>4, <1>7 DEF Fit, TasksFit
  <2>2. DeletionFrom(m, 1 + 1) => DeletionFrom(m, 1)
    <3>1. \A j \in DOMAIN loop[m] : j >= 1 + 1 => j >= 1
      BY <1>1
    <3> QED BY <3>1 DEF DeletionFrom
  <2> QED BY <2>1, <2>2
<1>12. TerminalsFit(m)'
  BY <1>1, <1>4, <1>6, <1>9, <1>11 DEF Fit, TerminalsFit
<1>13. ASSUME NEW i \in DOMAIN loop'[m], NEW u, u = loop'[m][i].t,
              loop'[m][i].fn = "HandleCreateTerminal"
       PROVE  u \in DOMAIN ordered' /\ (Current(m, u)' \/ DeletionFrom(m, i + 1)')
  <2>1. i \in DOMAIN loop[m] /\ loop'[m][i] = loop[m][i]
    BY <1>3, <1>7, <1>13
  <2>2. u \in DOMAIN ordered /\ (Current(m, u) \/ DeletionFrom(m, i + 1))
    BY <1>1, <1>4, <1>13, <2>1 DEF Fit, TasksFit
  <2> QED BY <1>6, <1>9, <2>2
<1>14. TasksFit(m)'
  BY <1>13 DEF TasksFit
<1> QED BY <1>4, <1>10, <1>12, <1>14 DEF Fit
\* The task that deletes all terminals leaves none, or the process ends.
LEMMA DeletedFit ==
    ASSUME ClientsInv, [Next]_hostsVars, NEW m \in Machines, DeleteTerminals(m)
    PROVE  Fit(m)'
<1>1. TerminalHostsTypeOK /\ Fit(m) /\ loop[m] \in Seq(ClientTask)
  BY DEF ClientsInv, TerminalHostsTypeOK, TerminalClientTypeOK
<1>2. /\ alive[m] /\ loop[m] # <<>> /\ loop'[m] = Tail(loop[m])
      /\ UNCHANGED <<client, handler>>
  BY <1>1 DEF DeleteTerminals, Take, Runs, TerminalHostsTypeOK, TerminalClientTypeOK
<1>3. terminals'[m] = {}
  <2>1. CASE Remove(m, terminals[m])
    BY <1>1, <2>1 DEF Remove, TerminalHostsTypeOK, TerminalClientTypeOK
  <2>2. CASE ~handler[m] /\ UNCHANGED terminals
    BY <1>1, <2>2 DEF Fit
  <2> QED BY <2>1, <2>2 DEF DeleteTerminals
<1>4. client[m] \in Hosts => srvEnd'[client[m]] # "none"
  BY <1>1, Monotone DEF Fit
<1>5. TerminalsFit(m)'
  BY <1>3 DEF TerminalsFit
<1>6. ASSUME alive'[m], NEW i \in DOMAIN loop'[m], NEW t, t = loop'[m][i].t,
             loop'[m][i].fn = "HandleCreateTerminal"
      PROVE  t \in DOMAIN ordered' /\ (Current(m, t)' \/ DeletionFrom(m, i + 1)')
  <2>1. /\ i \in Nat /\ i >= 1 /\ i + 1 \in DOMAIN loop[m] /\ loop'[m][i] = loop[m][i + 1]
        /\ \A j \in DOMAIN loop[m] : j > 1 => j - 1 \in DOMAIN loop'[m] /\ loop'[m][j - 1] = loop[m][j]
        /\ \A j \in DOMAIN loop[m] : j \in Nat
    BY <1>1, <1>2
  <2>2. t \in DOMAIN ordered /\ (Current(m, t) \/ DeletionFrom(m, i + 1 + 1))
    BY <1>1, <1>2, <1>6, <2>1 DEF Fit, TasksFit
  <2>3. CASE Current(m, t)
    <3>1. UNCHANGED cliEnd
      <4>1. ~(alive' = [alive EXCEPT ![m] = FALSE])
        BY <1>1, <1>6 DEF TerminalHostsTypeOK, TerminalClientTypeOK
      <4> QED BY <4>1 DEF DeleteTerminals
    <3>2. Connected(m) => Connected(m)'
      BY <1>2, <3>1 DEF Connected
    <3> QED BY <1>1, <1>2, <2>2, <2>3, <3>2, CurrentStays, Monotone
  <2>4. CASE DeletionFrom(m, i + 1 + 1)
    <3>1. PICK j \in DOMAIN loop[m] : j >= i + 1 + 1 /\ loop[m][j].fn = "DeleteTerminals"
      BY <2>4 DEF DeletionFrom
    <3>2. j > 1 /\ j - 1 >= i + 1
      BY <2>1, <3>1
    <3>3. j - 1 \in DOMAIN loop'[m] /\ loop'[m][j - 1].fn = "DeleteTerminals"
      BY <2>1, <3>1, <3>2
    <3>4. DeletionFrom(m, i + 1)'
      BY <3>2, <3>3 DEF DeletionFrom
    <3> QED BY <1>1, <2>2, <3>4, Monotone
  <2> QED BY <2>2, <2>3, <2>4
<1>7. alive'[m] => TasksFit(m)'
  BY <1>6 DEF TasksFit
<1> QED BY <1>2, <1>3, <1>4, <1>5, <1>7 DEF Fit

\* The machine that takes a step stays fit.
LEMMA StepFit ==
    ASSUME ClientsInv, [Next]_hostsVars, NEW m \in Machines, ClientStep(m)
    PROVE  Fit(m)'
<1>1. TerminalHostsTypeOK /\ loop[m] \in Seq(ClientTask)
  BY DEF ClientsInv, TerminalHostsTypeOK, TerminalClientTypeOK
<1>2. loop \in [Machines -> Seq(ClientTask)] /\ terminals \in [Machines -> SUBSET TerminalId]
  BY <1>1 DEF TerminalHostsTypeOK, TerminalClientTypeOK
<1>3. ASSUME NEW h \in Hosts, ClientOnClientConnected(m, h) PROVE Fit(m)'
  BY <1>3, ConnectedFit
<1>4. CASE ClientOnClientRead(m)
  <2>1. /\ Connected(m) /\ Connected(m)' /\ client[m] \in Hosts
        /\ down[client[m]] # <<>>
        /\ UNCHANGED <<client, alive, handler, terminals>>
    BY <1>4 DEF ClientOnClientRead, Connected
  <2>2. PICK msg \in DownMsg : msg = Head(down[client[m]])
    BY <1>1, <2>1, HeadAndTail DEF TerminalHostsTypeOK, NetworkTypeOK
  <2>3. CASE msg.type = "ON_TERMINAL_READ_ACK"
    <3>1. PICK r \in Seq(ClientTask) : r = ReadControl(pending[m] - 1)
      BY <1>1, ReadControlType DEF TerminalHostsTypeOK, TerminalClientTypeOK
    <3>2. loop'[m] = loop[m] \o r
      BY <1>2, <1>4, <2>2, <2>3, <3>1 DEF ClientOnClientRead, ResolvePendingMsgUpdated
    <3>3. \A i \in DOMAIN r : r[i].fn # "HandleCreateTerminal"
      BY <3>1 DEF ReadControl
    <3> QED BY <2>1, <3>2, <3>3, PostedFit
  <2>4. CASE msg.type # "ON_TERMINAL_READ_ACK"
    <3>1. PICK k : k = [fn |-> HandlerOf(msg.type), t |-> msg.t]
      OBVIOUS
    <3>2. k \in ClientTask /\ (k.fn = "HandleCreateTerminal" => msg.type = "CREATE_TERMINAL")
      <4>1. msg.t \in TerminalId /\ msg.type \in {"CREATE_TERMINAL", "DELETE_TERMINAL",
                                                  "RESIZE_TERMINAL", "ON_TERMINAL_WRITE"}
        BY <2>4, MessageFields
      <4> QED BY <3>1, <4>1, SentMessages DEF HandlerOf
    <3>3. loop'[m] = Append(loop[m], k)
      BY <1>2, <1>4, <2>2, <2>4, <3>1 DEF ClientOnClientRead
    <3>4. PICK r \in Seq(ClientTask) : r = <<k>>
      BY <3>2, SingletonType
    <3>5. loop'[m] = loop[m] \o r
      BY <1>1, <3>2, <3>3, <3>4
    <3>6. k.fn = "HandleCreateTerminal" => k.t \in DOMAIN ordered /\ Current(m, k.t)
      <4>1. 1 \in DOMAIN down[client[m]] /\ down[client[m]][1] = msg
        BY <1>1, <2>1, <2>2 DEF TerminalHostsTypeOK, NetworkTypeOK
      <4>2. msg.type = "CREATE_TERMINAL" => msg.t \in DOMAIN ordered /\ ordered[msg.t] = client[m]
        BY <2>1, <4>1 DEF ClientsInv, OrdersFit
      <4> QED BY <2>1, <3>1, <3>2, <4>2 DEF Current
    <3>7. \A i \in DOMAIN r : r[i] = k
      BY <3>4
    <3> QED BY <2>1, <3>5, <3>6, <3>7, PostedFit
  <2> QED BY <2>3, <2>4
<1>5. CASE HandleDisconnected(m)
  BY <1>5, DisconnectedFit
<1>6. CASE HandleCreateTerminal(m)
  BY <1>6, CreatedFit
<1>7. CASE DeleteTerminals(m)
  BY <1>7, DeletedFit
<1>8. CASE \/ SendCreated(m) \/ HandleDeleteTerminal(m) \/ HandleResizeTerminal(m)
           \/ HandleTerminalWrite(m) \/ EnableReadFromTerminals(m) \/ OnTerminalEnd(m)
  <2>1. /\ loop[m] # <<>> /\ loop' = [loop EXCEPT ![m] = Tail(@)]
        /\ Head(loop[m]).fn # "DeleteTerminals"
        /\ UNCHANGED <<client, alive, handler, cliEnd>>
        /\ terminals' = terminals \/ \E ts : terminals' = [terminals EXCEPT ![m] = @ \ ts]
    BY <1>8 DEF SendCreated, HandleDeleteTerminal, HandleResizeTerminal, HandleTerminalWrite,
       EnableReadFromTerminals, OnTerminalEnd, Take, Runs, Remove, netVars
  <2>2. loop'[m] = Tail(loop[m]) /\ terminals'[m] \subseteq terminals[m]
    BY <1>2, <2>1
  <2>3. Connected(m) => Connected(m)'
    BY <2>1 DEF Connected
  <2> QED BY <2>1, <2>2, <2>3, TakenFit
<1>9. ASSUME NEW t \in DOMAIN ordered, OnTerminalRead(m, t) PROVE Fit(m)'
  <2>1. UNCHANGED <<client, alive, handler, terminals, cliEnd>>
    BY <1>9 DEF OnTerminalRead
  <2>2. PICK r \in Seq(ClientTask) : r = ReadControl(pending[m] + 1)
    BY <1>1, ReadControlType DEF TerminalHostsTypeOK, TerminalClientTypeOK
  <2>3. loop'[m] = loop[m] \o r
    BY <1>2, <1>9, <2>2 DEF OnTerminalRead, ResolvePendingMsgUpdated
  <2>4. \A i \in DOMAIN r : r[i].fn # "HandleCreateTerminal"
    BY <2>2 DEF ReadControl
  <2>5. Connected(m) => Connected(m)'
    BY <2>1 DEF Connected
  <2> QED BY <2>1, <2>3, <2>4, <2>5, PostedFit
<1>10. ASSUME NEW t \in DOMAIN ordered, ShellExit(m, t) PROVE Fit(m)'
  <2>1. UNCHANGED <<client, alive, handler, terminals, cliEnd>>
    BY <1>10 DEF ShellExit, netVars
  <2>2. PICK k : k = [fn |-> "OnTerminalEnd", t |-> t]
    OBVIOUS
  <2>3. k \in ClientTask
    BY <1>1, <2>2, SentMessages, OrderedTypes
  <2>4. PICK r \in Seq(ClientTask) : r = <<k>>
    BY <2>3, SingletonType
  <2>5. loop'[m] = Append(loop[m], k)
    BY <1>2, <1>10, <2>2 DEF ShellExit
  <2>6. loop'[m] = loop[m] \o r
    BY <1>1, <2>3, <2>4, <2>5
  <2>7. \A i \in DOMAIN r : r[i].fn # "HandleCreateTerminal"
    BY <2>2, <2>4
  <2>8. Connected(m) => Connected(m)'
    BY <2>1 DEF Connected
  <2> QED BY <2>1, <2>6, <2>7, <2>8, PostedFit
<1> QED BY <1>3, <1>4, <1>5, <1>6, <1>7, <1>8, <1>9, <1>10 DEF ClientStep

\* A machine's step touches its own state and, of the connections, its own.
LEMMA StepAlone ==
    ASSUME ClientsInv, NEW m \in Machines, ClientStep(m), NEW n \in Machines, n # m
    PROVE  /\ client'[n] = client[n] /\ alive'[n] = alive[n] /\ handler'[n] = handler[n]
           /\ terminals'[n] = terminals[n] /\ loop'[n] = loop[n]
           /\ Connected(n) => Connected(n)'
<1> USE DEF TerminalHostsTypeOK, TerminalClientTypeOK, NetworkTypeOK
<1>1. TerminalHostsTypeOK
  BY DEF ClientsInv
<1>2. /\ client' = client \/ \E x : client' = [client EXCEPT ![m] = x]
      /\ alive' = alive \/ \E x : alive' = [alive EXCEPT ![m] = x]
      /\ handler' = handler \/ \E x : handler' = [handler EXCEPT ![m] = x]
      /\ terminals' = terminals \/ \E x : terminals' = [terminals EXCEPT ![m] = x]
      /\ loop' = loop \/ \E x : loop' = [loop EXCEPT ![m] = x]
  BY DEF ClientStep, ClientOnClientConnected, ClientOnClientRead, HandleDisconnected,
     HandleCreateTerminal, SendCreated, HandleDeleteTerminal, HandleResizeTerminal,
     HandleTerminalWrite, DeleteTerminals, EnableReadFromTerminals, OnTerminalEnd,
     OnTerminalRead, ShellExit, netVars, Take, Remove, ResolvePendingMsgUpdated
<1>3. /\ client'[n] = client[n] /\ alive'[n] = alive[n] /\ handler'[n] = handler[n]
      /\ terminals'[n] = terminals[n] /\ loop'[n] = loop[n]
  BY <1>1, <1>2
<1>4. ASSUME Connected(n) PROVE cliEnd'[client[n]]
  <2>1. client[n] \in Hosts /\ cliEnd[client[n]] /\ client[n] # client[m]
    BY <1>4 DEF Connected, ClientsInv, OwnConnections
  <2>2. \/ cliEnd' = cliEnd
        \/ \E h \in Hosts : cliEnd' = [cliEnd EXCEPT ![h] = TRUE]
        \/ cliEnd' = [cliEnd EXCEPT ![client[m]] = FALSE]
        \/ cliEnd' = [h \in Hosts |-> cliEnd[h] /\ h # client[m]]
    BY DEF ClientStep, ClientOnClientConnected, ClientOnClientRead, HandleDisconnected,
       HandleCreateTerminal, SendCreated, HandleDeleteTerminal, HandleResizeTerminal,
       HandleTerminalWrite, DeleteTerminals, EnableReadFromTerminals, OnTerminalEnd,
       OnTerminalRead, ShellExit, netVars
  <2> QED BY <1>1, <2>1, <2>2
<1> QED BY <1>3, <1>4 DEF Connected

\* No two machines share a connection.
LEMMA ConnectionsStayOwn ==
    ASSUME ClientsInv, [Next]_hostsVars
    PROVE  OwnConnections'
<1>1. TerminalHostsTypeOK /\ OwnConnections /\ \A m \in Machines : Fit(m)
  BY DEF ClientsInv
<1>2. \/ UNCHANGED client
      \/ \E m \in Machines, h \in Hosts : srvEnd[h] = "none" /\ client' = [client EXCEPT ![m] = h]
  BY DEF Next, Reaction, ServerOrders, ServerCommands, ServerReads, ServerCloses, ServerRemoves,
     ClientStep, ClientOnClientConnected, ClientOnClientRead, HandleDisconnected,
     HandleCreateTerminal, SendCreated, HandleDeleteTerminal, HandleResizeTerminal,
     HandleTerminalWrite, DeleteTerminals, EnableReadFromTerminals, OnTerminalEnd,
     OnTerminalRead, ShellExit, hostsVars, tcVars
<1>3. CASE UNCHANGED client
  BY <1>1, <1>3 DEF OwnConnections
<1>4. ASSUME NEW m \in Machines, NEW h \in Hosts, srvEnd[h] = "none",
             client' = [client EXCEPT ![m] = h]
      PROVE  OwnConnections'
  <2>1. \A n \in Machines : client[n] # h
    BY <1>1, <1>4 DEF Fit
  <2>2. \A n \in Machines : client'[n] = IF n = m THEN h ELSE client[n]
    BY <1>1, <1>4 DEF TerminalHostsTypeOK, TerminalClientTypeOK
  <2> QED BY <1>1, <2>1, <2>2 DEF OwnConnections
<1> QED BY <1>2, <1>3, <1>4

\* What a message orders stays ordered on its connection.
LEMMA OrdersStayFit ==
    ASSUME ClientsInv, [Next]_hostsVars
    PROVE  OrdersFit'
<1>1. TerminalHostsTypeOK /\ OrdersFit /\ down \in [Hosts -> Seq(DownMsg)]
  BY DEF ClientsInv, TerminalHostsTypeOK, NetworkTypeOK
<1>2. \A t \in DOMAIN ordered : t \in DOMAIN ordered' /\ ordered'[t] = ordered[t]
  BY <1>1, Monotone
<1>3. ASSUME NEW h \in Hosts, NEW msg \in DownMsg, SendDown(h, msg),
             msg.type = "CREATE_TERMINAL" => msg.t \in DOMAIN ordered' /\ ordered'[msg.t] = h
      PROVE  OrdersFit'
  <2>1. CASE down' = down
    BY <1>1, <1>2, <2>1 DEF OrdersFit
  <2>2. CASE down' = [down EXCEPT ![h] = Append(@, msg)]
    <3>1. ASSUME NEW d \in Hosts, NEW i \in DOMAIN down'[d]
          PROVE  \/ i \in DOMAIN down[d] /\ down'[d][i] = down[d][i]
                 \/ d = h /\ down'[d][i] = msg
      BY <1>1, <2>2
    <3> QED BY <1>1, <1>2, <1>3, <3>1 DEF OrdersFit
  <2> QED BY <1>3, <2>1, <2>2 DEF SendDown
<1>4. CASE \E h \in Hosts : ServerOrders(h)
  <2>1. PICK h \in Hosts : ServerOrders(h)
    BY <1>4
  <2>2. PICK msg : msg = [type |-> "CREATE_TERMINAL", t |-> NewId]
    OBVIOUS
  <2>3. msg \in DownMsg
    <3>1. NewId \in TerminalId
      BY <1>1, OrderedTypes DEF NewId, TerminalId
    <3> QED BY <2>2, <3>1, SentMessages
  <2>4. NewId \in DOMAIN ordered' /\ ordered'[NewId] = h
    BY <1>1, <2>1, OrderedTypes DEF ServerOrders, NewId
  <2> QED BY <1>3, <2>1, <2>2, <2>3, <2>4 DEF ServerOrders
<1>5. CASE \E h \in Hosts : ServerCommands(h)
  <2>1. PICK h \in Hosts : ServerCommands(h)
    BY <1>5
  <2>2. PICK type \in Commands, t \in DOMAIN ordered : SendDown(h, [type |-> type, t |-> t])
    BY <2>1 DEF ServerCommands
  <2>3. type \in {"DELETE_TERMINAL", "RESIZE_TERMINAL", "ON_TERMINAL_WRITE"}
    BY TerminalHostsAssumption
  <2>4. PICK msg : msg = [type |-> type, t |-> t]
    OBVIOUS
  <2>5. msg \in DownMsg /\ msg.type # "CREATE_TERMINAL"
    BY <1>1, <2>3, <2>4, SentMessages, OrderedTypes
  <2> QED BY <1>3, <2>2, <2>4, <2>5
<1>6. CASE \E h \in Hosts : ServerReads(h)
  <2>1. PICK h \in Hosts : ServerReads(h)
    BY <1>6
  <2>2. PICK msg : msg = [type |-> "ON_TERMINAL_READ_ACK"]
    OBVIOUS
  <2>3. msg \in DownMsg /\ msg.type # "CREATE_TERMINAL"
    BY <2>2, SentMessages
  <2>4. CASE UNCHANGED down
    BY <1>1, <1>2, <2>4 DEF OrdersFit
  <2> QED BY <1>3, <2>1, <2>2, <2>3, <2>4 DEF ServerReads
<1>7. ASSUME \A h \in Hosts : down'[h] \in {down[h], <<>>} PROVE OrdersFit'
  BY <1>1, <1>2, <1>7 DEF OrdersFit
<1>8. CASE \E h \in Hosts : ServerCloses(h) \/ ServerRemoves(h)
  BY <1>7, <1>8 DEF ServerCloses, ServerRemoves
<1>9. CASE \E m \in Machines : ClientOnClientRead(m)
  <2>1. PICK m \in Machines : ClientOnClientRead(m)
    BY <1>9
  <2>2. PICK c \in Hosts : c = client[m] /\ down[c] # <<>> /\ down' = [down EXCEPT ![c] = Tail(@)]
    BY <2>1 DEF ClientOnClientRead, Connected
  <2>3. ASSUME NEW d \in Hosts, NEW i \in DOMAIN down'[d]
        PROVE  \E j \in DOMAIN down[d] : down'[d][i] = down[d][j]
    <3>1. CASE d = c
      <4>1. down'[d] = Tail(down[d]) /\ down[d] \in Seq(DownMsg) /\ down[d] # <<>>
        BY <1>1, <2>2, <3>1
      <4>2. i + 1 \in DOMAIN down[d] /\ down'[d][i] = down[d][i + 1]
        BY <2>3, <4>1
      <4> QED BY <4>2
    <3>2. CASE d # c
      BY <1>1, <2>2, <2>3, <3>2
    <3> QED BY <3>1, <3>2
  <2> QED BY <1>1, <1>2, <2>3 DEF OrdersFit
<1>10. CASE \E m \in Machines : ClientStep(m) /\ ~ClientOnClientRead(m)
  <2>1. \/ UNCHANGED down
        \/ \E m \in Machines : down' = [down EXCEPT ![client[m]] = <<>>]
        \/ \E m \in Machines : down' = [h \in Hosts |-> IF h = client[m] THEN <<>> ELSE down[h]]
    BY <1>10 DEF ClientStep, ClientOnClientConnected, HandleDisconnected,
       HandleCreateTerminal, SendCreated, HandleDeleteTerminal, HandleResizeTerminal,
       HandleTerminalWrite, DeleteTerminals, EnableReadFromTerminals, OnTerminalEnd,
       OnTerminalRead, ShellExit, netVars
  <2> QED BY <1>1, <1>7, <2>1
<1>11. CASE UNCHANGED hostsVars
  BY <1>7, <1>11 DEF hostsVars, netVars
<1> QED BY <1>4, <1>5, <1>6, <1>8, <1>9, <1>10, <1>11 DEF Next, Reaction
-----------------------------------------------------------------------------
(***************************************************************************)
(* The invariant, and what it says of the clients.                         *)
(***************************************************************************)
LEMMA InitFit == ASSUME Init PROVE ClientsInv
<1>1. TerminalHostsTypeOK
  <2>1. NetworkTypeOK
    BY DEF Init, NetworkInit, NetworkTypeOK, EndState
  <2>2. TerminalClientTypeOK
    BY DEF Init, TerminalClientInit, TerminalClientTypeOK
  <2> QED BY <2>1, <2>2 DEF Init, TerminalHostsTypeOK
<1>2. OwnConnections
  BY NetworkAssumption DEF Init, TerminalClientInit, OwnConnections
<1>3. OrdersFit
  BY DEF Init, NetworkInit, OrdersFit
<1>4. ASSUME NEW m \in Machines PROVE Fit(m)
  BY NetworkAssumption
  DEF Init, TerminalClientInit, Fit, TerminalsFit, TasksFit
<1> QED BY <1>1, <1>2, <1>3, <1>4 DEF ClientsInv

LEMMA NextFit == ASSUME ClientsInv, [Next]_hostsVars PROVE ClientsInv'
<1>1. TerminalHostsTypeOK /\ \A m \in Machines : Fit(m)
  BY DEF ClientsInv
<1>2. ASSUME NEW m \in Machines PROVE Fit(m)'
  <2>1. CASE ClientStep(m)
    BY <2>1, StepFit
  <2>2. CASE \E n \in Machines : ClientStep(n) /\ n # m
    <3>1. PICK n \in Machines : ClientStep(n) /\ m # n
      BY <2>2
    <3> QED BY <1>1, <3>1, StepAlone, OthersFit
  <2>3. CASE UNCHANGED <<tcVars, cliEnd>>
    <3>1. Connected(m) => Connected(m)'
      BY <2>3 DEF tcVars, Connected
    <3> QED BY <1>1, <2>3, <3>1, OthersFit DEF tcVars
  <2> QED
    BY <2>1, <2>2, <2>3
    DEF Next, Reaction, ServerOrders, ServerCommands, ServerReads, ServerCloses, ServerRemoves,
        hostsVars, netVars
<1>3. TerminalHostsTypeOK' /\ OwnConnections' /\ OrdersFit'
  BY <1>1, NextTyped, ConnectionsStayOwn, OrdersStayFit
<1> QED BY <1>2, <1>3 DEF ClientsInv

THEOREM ClientsStayFit == Spec => []ClientsInv
<1>1. Init => ClientsInv
  BY InitFit
<1>2. ClientsInv /\ [Next]_hostsVars => ClientsInv'
  BY NextFit
<1> QED BY <1>1, <1>2, PTL DEF Spec

\* The bounds of the instances leave steps out and add none, so that what
\* holds of every server holds of the one TLC explores.
LEMMA BoundedIsPart == BoundedNext => Next
  BY DEF BoundedNext, Next

THEOREM BoundedClientsStayFit == BoundedSpec => []ClientsInv
<1>1. Init => ClientsInv
  BY InitFit
<1>2. ClientsInv /\ [BoundedNext]_hostsVars => ClientsInv'
  BY NextFit, BoundedIsPart
<1> QED BY <1>1, <1>2, PTL DEF BoundedSpec

\* The state of the clients stays well-formed with any server that respects
\* the interface: messages, tasks, terminals and counters keep their kinds
\* (TerminalClient.h:63-73, TerminalHandler.h).
THEOREM TerminalHostsTypeCorrect == Spec => []TerminalHostsTypeOK
<1>1. ClientsInv => TerminalHostsTypeOK
  BY DEF ClientsInv
<1> QED BY <1>1, ClientsStayFit, PTL

\* Losing a connection never leaves its terminals behind: any terminal that is
\* not of the present connection has a DeleteTerminals task of its machine
\* still to come, whenever the disconnect fell between the order, the task and
\* the fork (TerminalClient.cpp HandleDisconnected, DeleteTerminals).
THEOREM OldTerminalsGo == Spec => []OldTerminalsPendingDeletion
<1>1. ClientsInv => OldTerminalsPendingDeletion
  BY DEF ClientsInv, Fit, TerminalsFit, Current, DeletionFrom, OldTerminalsPendingDeletion
<1> QED BY <1>1, ClientsStayFit, PTL

\* No two machines ever use the same connection: each connects on its own, and
\* an ended connection is not taken up again (TerminalClient.cpp _client).
THEOREM ConnectionsOwn == Spec => []OwnConnections
<1>1. ClientsInv => OwnConnections
  BY DEF ClientsInv
<1> QED BY <1>1, ClientsStayFit, PTL
=============================================================================
