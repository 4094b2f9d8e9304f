---------------------------- MODULE ClientProofs ----------------------------
(***************************************************************************)
(* What the steps of the terminal clients do to the types.  The clients    *)
(* are part of two specifications, ControlSystem and TerminalHosts, whose  *)
(* proofs both start from here.                                            *)
(***************************************************************************)
EXTENDS TerminalClient, TLAPS

\* The messages of both directions and the client's tasks are well formed, and
\* have the fields their types say.
LEMMA MessageFields ==
    /\ \A msg \in UpMsg : msg.type # "CLIENT_INFO" => msg.t \in TerminalId
    /\ \A msg \in UpMsg : msg.type \in {"CLIENT_INFO", "ON_TERMINAL_CREATED",
                                        "ON_TERMINAL_READ", "ON_TERMINAL_END"}
    /\ \A msg \in UpMsg : msg.type = "ON_TERMINAL_CREATED" => msg.ok \in BOOLEAN
    /\ \A msg \in DownMsg : msg.type # "ON_TERMINAL_READ_ACK" =>
          /\ msg.t \in TerminalId
          /\ msg.type \in {"CREATE_TERMINAL", "DELETE_TERMINAL", "RESIZE_TERMINAL",
                           "ON_TERMINAL_WRITE"}
    /\ \A k \in ClientTask : k.fn \notin {"DeleteTerminals", "EnableReadFromTerminals"}
                                => k.t \in TerminalId
    /\ \A k \in ClientTask : k.fn = "SendCreated" => k.ok \in BOOLEAN
    /\ \A k \in ClientTask : k.fn = "EnableReadFromTerminals" => k.enabled \in BOOLEAN
  BY DEF UpMsg, DownMsg, ClientTask

LEMMA SentMessages ==
    /\ [type |-> "CLIENT_INFO"] \in UpMsg
    /\ [type |-> "ON_TERMINAL_READ_ACK"] \in DownMsg
    /\ [fn |-> "DeleteTerminals"] \in ClientTask
    /\ \A b \in BOOLEAN : [fn |-> "EnableReadFromTerminals", enabled |-> b] \in ClientTask
    /\ \A t \in TerminalId, b \in BOOLEAN :
          /\ [type |-> "ON_TERMINAL_CREATED", t |-> t, ok |-> b] \in UpMsg
          /\ [fn |-> "SendCreated", t |-> t, ok |-> b] \in ClientTask
    /\ \A t \in TerminalId :
          /\ [type |-> "ON_TERMINAL_READ", t |-> t] \in UpMsg
          /\ [type |-> "ON_TERMINAL_END", t |-> t] \in UpMsg
          /\ [type |-> "CREATE_TERMINAL", t |-> t] \in DownMsg
          /\ [type |-> "DELETE_TERMINAL", t |-> t] \in DownMsg
          /\ [type |-> "RESIZE_TERMINAL", t |-> t] \in DownMsg
          /\ [type |-> "ON_TERMINAL_WRITE", t |-> t] \in DownMsg
          /\ [fn |-> "HandleCreateTerminal", t |-> t] \in ClientTask
          /\ [fn |-> "HandleDeleteTerminal", t |-> t] \in ClientTask
          /\ [fn |-> "HandleResizeTerminal", t |-> t] \in ClientTask
          /\ [fn |-> "HandleTerminalWrite", t |-> t] \in ClientTask
          /\ [fn |-> "OnTerminalEnd", t |-> t] \in ClientTask
  BY DEF UpMsg, DownMsg, ClientTask

-----------------------------------------------------------------------------
(***************************************************************************)
(* Queues.                                                                 *)
(***************************************************************************)
\* The head of a loop is a task, what is left of it is a loop.
LEMMA HeadAndTail ==
    ASSUME NEW S, NEW q \in Seq(S), q # <<>>
    PROVE  Head(q) \in S /\ Tail(q) \in Seq(S)
  OBVIOUS

\* Adding a task to a loop keeps it a loop.
LEMMA AppendType ==
    ASSUME NEW S, NEW q \in Seq(S), NEW e \in S
    PROVE  Append(q, e) \in Seq(S)
  OBVIOUS

LEMMA SingletonType ==
    ASSUME NEW S, NEW e \in S
    PROVE  <<e>> \in Seq(S)
  OBVIOUS

\* A map of queues stays one when a queue is replaced or appended to.
LEMMA QueueUpdate ==
    ASSUME NEW S, NEW D, NEW f \in [D -> Seq(S)], NEW d \in D, NEW q \in Seq(S), NEW e \in S
    PROVE  /\ [f EXCEPT ![d] = q] \in [D -> Seq(S)]
           /\ Append(f[d], e) \in Seq(S)
  OBVIOUS

\* Two queues, one after the other.
LEMMA Joined ==
    ASSUME NEW S, NEW q \in Seq(S), NEW r \in Seq(S)
    PROVE  /\ \A i \in DOMAIN q : i \in DOMAIN (q \o r) /\ (q \o r)[i] = q[i]
           /\ \A i \in DOMAIN r : i + Len(q) \in DOMAIN (q \o r) /\ (q \o r)[i + Len(q)] = r[i]
           /\ \A i \in DOMAIN (q \o r) :
                 \/ i \in DOMAIN q
                 \/ i - Len(q) \in DOMAIN r /\ (q \o r)[i] = r[i - Len(q)]
<1>1. PICK p \in Seq(S) : p = q \o r
  <2>1. q \o r \in Seq(S)
    OBVIOUS
  <2> QED BY <2>1
<1>2. Len(p) = Len(q) + Len(r) /\ Len(q) \in Nat /\ Len(r) \in Nat
  BY <1>1
<1>3. \A i \in 1 .. Len(p) : p[i] = IF i <= Len(q) THEN q[i] ELSE r[i - Len(q)]
  BY <1>1
<1>4. DOMAIN q = 1 .. Len(q) /\ DOMAIN r = 1 .. Len(r) /\ DOMAIN p = 1 .. Len(p)
  OBVIOUS
<1>5. \A i \in DOMAIN q : i \in DOMAIN p /\ p[i] = q[i]
  BY <1>2, <1>3, <1>4
<1>6. ASSUME NEW i \in DOMAIN r
      PROVE  i + Len(q) \in DOMAIN p /\ p[i + Len(q)] = r[i]
  <2>1. i + Len(q) \in 1 .. Len(p) /\ ~(i + Len(q) <= Len(q)) /\ i + Len(q) - Len(q) = i
    BY <1>2, <1>4
  <2> QED BY <1>3, <1>4, <2>1
<1>7. ASSUME NEW i \in DOMAIN p, i \notin DOMAIN q
      PROVE  i - Len(q) \in DOMAIN r /\ p[i] = r[i - Len(q)]
  BY <1>2, <1>3, <1>4, <1>7
<1> QED BY <1>1, <1>5, <1>6, <1>7

\* What is sent on a connection is queued there, or lost.
LEMMA SendDownType ==
    ASSUME NetworkTypeOK, NEW h \in Hosts, NEW msg \in DownMsg, SendDown(h, msg)
    PROVE  down' \in [Hosts -> Seq(DownMsg)]
<1>1. down \in [Hosts -> Seq(DownMsg)]
  BY DEF NetworkTypeOK
<1>2. Append(down[h], msg) \in Seq(DownMsg)
  BY <1>1, QueueUpdate
<1>3. [down EXCEPT ![h] = Append(down[h], msg)] \in [Hosts -> Seq(DownMsg)]
  BY <1>1, <1>2, QueueUpdate
<1> QED BY <1>1, <1>3 DEF SendDown

LEMMA SendUpType ==
    ASSUME NetworkTypeOK, NEW h, NEW msg \in UpMsg, SendUp(h, msg)
    PROVE  up' \in [Hosts -> Seq(UpMsg)]
<1>1. up \in [Hosts -> Seq(UpMsg)]
  BY DEF NetworkTypeOK
<1>2. CASE h \in Hosts
  <2>1. Append(up[h], msg) \in Seq(UpMsg)
    BY <1>1, <1>2, QueueUpdate
  <2>2. [up EXCEPT ![h] = Append(up[h], msg)] \in [Hosts -> Seq(UpMsg)]
    BY <1>1, <1>2, <2>1, QueueUpdate
  <2> QED BY <1>1, <2>2 DEF SendUp
<1>3. CASE h \notin Hosts
  BY <1>1, <1>3 DEF SendUp
<1> QED BY <1>2, <1>3

\* Blocking and resuming reads posts tasks of the client's loop.
LEMMA ReadControlType ==
    ASSUME NEW counter \in Int
    PROVE  ReadControl(counter) \in Seq(ClientTask)
<1>1. \A b \in BOOLEAN :
         <<[fn |-> "EnableReadFromTerminals", enabled |-> b]>> \in Seq(ClientTask)
  <2>1. \A b \in BOOLEAN : [fn |-> "EnableReadFromTerminals", enabled |-> b] \in ClientTask
    BY SentMessages
  <2> QED BY <2>1, SingletonType
<1>2. <<>> \in Seq(ClientTask)
  OBVIOUS
<1> QED BY <1>1, <1>2 DEF ReadControl
-----------------------------------------------------------------------------
(***************************************************************************)
(* The steps, thread by thread.                                            *)
(***************************************************************************)
ClientTypes == NetworkTypeOK /\ TerminalClientTypeOK

\* The steps of the connection thread, of the loop and of the terminals.
ConnectionStep(m) ==
    \/ \E h \in Hosts : ClientOnClientConnected(m, h)
    \/ ClientOnClientRead(m)
    \/ HandleDisconnected(m)

TaskStep(m) ==
    \/ HandleCreateTerminal(m)
    \/ SendCreated(m)
    \/ HandleDeleteTerminal(m)
    \/ HandleResizeTerminal(m)
    \/ HandleTerminalWrite(m)
    \/ DeleteTerminals(m)
    \/ EnableReadFromTerminals(m)
    \/ OnTerminalEnd(m)

ShellStep(m, t) == OnTerminalRead(m, t) \/ ShellExit(m, t)

\* The connection thread of a terminal client.
LEMMA ConnectionStepType ==
    ASSUME ClientTypes, NEW m \in Machines, ConnectionStep(m)
    PROVE  ClientTypes'
<1> USE DEF ClientTypes
<1>1. ASSUME NEW h \in Hosts, ClientOnClientConnected(m, h)
      PROVE  ClientTypes'
  <2>1. up' \in [Hosts -> Seq(UpMsg)]
    <3>1. <<[type |-> "CLIENT_INFO"]>> \in Seq(UpMsg)
      BY SentMessages
    <3> QED BY <1>1, <3>1 DEF NetworkTypeOK, ClientOnClientConnected
  <2>2. NetworkTypeOK'
    BY <1>1, <2>1 DEF NetworkTypeOK, ClientOnClientConnected, EndState
  <2> QED
    BY <1>1, <2>2 DEF TerminalClientTypeOK, ClientOnClientConnected
<1>2. CASE ClientOnClientRead(m)
  <2> DEFINE h == client[m]
             msg == Head(down[h])
  <2>1. h \in Hosts /\ down[h] \in Seq(DownMsg) /\ down[h] # <<>>
    BY <1>2 DEF ClientOnClientRead, Connected, NetworkTypeOK
  <2>2. msg \in DownMsg /\ Tail(down[h]) \in Seq(DownMsg)
    BY <2>1, HeadAndTail
  <2>3. NetworkTypeOK'
    <3>1. down' = [down EXCEPT ![h] = Tail(down[h])]
      BY <1>2 DEF ClientOnClientRead
    <3>2. down' \in [Hosts -> Seq(DownMsg)]
      BY <2>1, <2>2, <3>1 DEF NetworkTypeOK
    <3> QED BY <1>2, <3>2 DEF NetworkTypeOK, ClientOnClientRead
  <2>4. CASE msg.type = "ON_TERMINAL_READ_ACK"
    <3>1. ResolvePendingMsgUpdated(m, pending[m] - 1)
      BY <1>2, <2>4 DEF ClientOnClientRead
    <3>2. ReadControl(pending[m] - 1) \in Seq(ClientTask)
      BY ReadControlType DEF TerminalClientTypeOK
    <3> QED
      BY <1>2, <2>3, <3>1, <3>2
      DEF TerminalClientTypeOK, ClientOnClientRead, ResolvePendingMsgUpdated
  <2>5. CASE msg.type # "ON_TERMINAL_READ_ACK"
    <3>1. [fn |-> HandlerOf(msg.type), t |-> msg.t] \in ClientTask
      BY <2>2, <2>5, MessageFields, SentMessages DEF HandlerOf
    <3>2. pending' = pending
          /\ loop' = [loop EXCEPT ![m] =
                         Append(@, [fn |-> HandlerOf(msg.type), t |-> msg.t])]
      BY <1>2, <2>5 DEF ClientOnClientRead
    <3> QED
      BY <1>2, <2>3, <3>1, <3>2 DEF TerminalClientTypeOK, ClientOnClientRead
  <2> QED
    BY <2>4, <2>5
<1>3. CASE HandleDisconnected(m)
  <2>1. client[m] \in Hosts
    BY <1>3 DEF HandleDisconnected, Connected
  <2>2. NetworkTypeOK'
    BY <1>3, <2>1 DEF NetworkTypeOK, HandleDisconnected
  <2>3. loop' \in [Machines -> Seq(ClientTask)]
    <3>1. [fn |-> "DeleteTerminals"] \in ClientTask
      BY SentMessages
    <3> QED BY <1>3, <3>1 DEF TerminalClientTypeOK, HandleDisconnected
  <2> QED
    BY <1>3, <2>2, <2>3 DEF TerminalClientTypeOK, HandleDisconnected
<1> QED
  BY <1>1, <1>2, <1>3 DEF ConnectionStep

\* The loop of a terminal client.
LEMMA TaskStepType ==
    ASSUME ClientTypes, NEW m \in Machines, TaskStep(m)
    PROVE  ClientTypes'
<1> DEFINE task == Head(loop[m])
<1> USE DEF ClientTypes
<1>1. loop[m] \in Seq(ClientTask) /\ loop[m] # <<>>
  BY DEF TerminalClientTypeOK, TaskStep, HandleCreateTerminal, SendCreated,
     HandleDeleteTerminal, HandleResizeTerminal, HandleTerminalWrite, DeleteTerminals,
     EnableReadFromTerminals, OnTerminalEnd, Take, Runs
<1>2. task \in ClientTask /\ Tail(loop[m]) \in Seq(ClientTask)
  BY <1>1, HeadAndTail
<1>3. ASSUME NEW fn, Take(m, fn)
      PROVE  loop' \in [Machines -> Seq(ClientTask)]
  BY <1>2, <1>3 DEF Take, TerminalClientTypeOK
<1>4. ASSUME NEW ts, Remove(m, ts)
      PROVE  /\ terminals' \in [Machines -> SUBSET TerminalId]
             /\ shells' \in [Machines -> SUBSET TerminalId]
             /\ blocked' \in [Machines -> SUBSET TerminalId]
  BY <1>4 DEF Remove, TerminalClientTypeOK
<1>5. CASE HandleCreateTerminal(m)
  <2>1. task.t \in TerminalId
    BY <1>2, <1>5, MessageFields DEF HandleCreateTerminal, Runs
  <2>2. loop' \in [Machines -> Seq(ClientTask)]
    <3>1. PICK ok \in BOOLEAN :
             loop' = [loop EXCEPT ![m] =
                         <<[fn |-> "SendCreated", t |-> task.t, ok |-> ok]>> \o Tail(@)]
      BY <1>5 DEF HandleCreateTerminal
    <3>2. <<[fn |-> "SendCreated", t |-> task.t, ok |-> ok]>> \in Seq(ClientTask)
      <4>1. [fn |-> "SendCreated", t |-> task.t, ok |-> ok] \in ClientTask
        BY <2>1, SentMessages
      <4> QED BY <4>1, SingletonType
    <3>3. <<[fn |-> "SendCreated", t |-> task.t, ok |-> ok]>> \o Tail(loop[m])
             \in Seq(ClientTask)
      BY <1>2, <3>2
    <3> QED BY <3>1, <3>3 DEF TerminalClientTypeOK
  <2>3. /\ terminals' \in [Machines -> SUBSET TerminalId]
        /\ shells' \in [Machines -> SUBSET TerminalId]
        /\ started' \in SUBSET TerminalId
    <3>1. /\ \/ terminals' = terminals
             \/ terminals' = [terminals EXCEPT ![m] = terminals[m] \cup {task.t}]
          /\ \/ shells' = shells
             \/ shells' = [shells EXCEPT ![m] = shells[m] \cup {task.t}]
          /\ started' \in {started, started \cup {task.t}}
      BY <1>5 DEF HandleCreateTerminal
    <3>2. \A f \in [Machines -> SUBSET TerminalId] :
             [f EXCEPT ![m] = f[m] \cup {task.t}] \in [Machines -> SUBSET TerminalId]
      BY <2>1
    <3>3. /\ terminals \in [Machines -> SUBSET TerminalId]
          /\ shells \in [Machines -> SUBSET TerminalId]
          /\ started \in SUBSET TerminalId
      BY DEF TerminalClientTypeOK
    <3> QED BY <2>1, <3>1, <3>2, <3>3
  <2>4. handler' \in [Machines -> BOOLEAN]
        /\ UNCHANGED <<netVars, alive, client, blocked, readEnabled, pending, reads>>
    BY <1>5 DEF HandleCreateTerminal, TerminalClientTypeOK
  <2> QED
    BY <2>2, <2>3, <2>4 DEF NetworkTypeOK, netVars, TerminalClientTypeOK
<1>6. CASE SendCreated(m)
  <2>1. [type |-> "ON_TERMINAL_CREATED", t |-> task.t, ok |-> task.ok] \in UpMsg
    BY <1>2, <1>6, MessageFields, SentMessages DEF SendCreated, Take, Runs
  <2>2. up' \in [Hosts -> Seq(UpMsg)]
    BY <1>6, <2>1, SendUpType DEF SendCreated
  <2>3. loop' \in [Machines -> Seq(ClientTask)]
    BY <1>3, <1>6 DEF SendCreated
  <2> QED
    BY <1>6, <2>2, <2>3 DEF NetworkTypeOK, TerminalClientTypeOK, SendCreated
<1>7. CASE HandleDeleteTerminal(m)
  BY <1>3, <1>4, <1>7
  DEF NetworkTypeOK, TerminalClientTypeOK, HandleDeleteTerminal, netVars
<1>8. CASE HandleResizeTerminal(m) \/ HandleTerminalWrite(m)
  BY <1>3, <1>8
  DEF NetworkTypeOK, TerminalClientTypeOK, HandleResizeTerminal, HandleTerminalWrite, netVars
<1>9. CASE DeleteTerminals(m)
  <2>1. loop' \in [Machines -> Seq(ClientTask)]
    BY <1>3, <1>9 DEF DeleteTerminals
  <2>2. UNCHANGED <<waLoop, tsLoop, srvEnd, up, client, handler, readEnabled, pending,
                    reads, started>>
    BY <1>9 DEF DeleteTerminals
  <2>3. CASE Remove(m, terminals[m]) /\ UNCHANGED <<alive, cliEnd, down>>
    BY <1>4, <2>1, <2>2, <2>3 DEF NetworkTypeOK, TerminalClientTypeOK
  <2>4. CASE /\ alive' = [alive EXCEPT ![m] = FALSE]
             /\ cliEnd' = [h \in Hosts |-> cliEnd[h] /\ h # client[m]]
             /\ down' = [h \in Hosts |-> IF h = client[m] THEN <<>> ELSE down[h]]
             /\ UNCHANGED <<terminals, shells, blocked>>
    <3>1. down' \in [Hosts -> Seq(DownMsg)]
      BY <2>4 DEF NetworkTypeOK
    <3>2. cliEnd' \in [Hosts -> BOOLEAN] /\ alive' \in [Machines -> BOOLEAN]
      BY <2>4 DEF NetworkTypeOK, TerminalClientTypeOK
    <3> QED
      BY <2>1, <2>2, <2>4, <3>1, <3>2 DEF NetworkTypeOK, TerminalClientTypeOK
  <2> QED
    BY <1>9, <2>3, <2>4 DEF DeleteTerminals
<1>10. CASE EnableReadFromTerminals(m)
  <2>1. task.enabled \in BOOLEAN
    BY <1>2, <1>10, MessageFields DEF EnableReadFromTerminals, Take, Runs
  <2>2. readEnabled' \in [Machines -> BOOLEAN] /\ blocked' \in [Machines -> SUBSET TerminalId]
    BY <1>10, <2>1 DEF TerminalClientTypeOK, EnableReadFromTerminals
  <2>3. loop' \in [Machines -> Seq(ClientTask)]
    BY <1>3, <1>10 DEF EnableReadFromTerminals
  <2> QED
    BY <1>10, <2>2, <2>3
    DEF NetworkTypeOK, TerminalClientTypeOK, EnableReadFromTerminals, netVars
<1>11. CASE OnTerminalEnd(m)
  <2>1. [type |-> "ON_TERMINAL_END", t |-> task.t] \in UpMsg
    BY <1>2, <1>11, MessageFields, SentMessages DEF OnTerminalEnd, Take, Runs
  <2>2. up' \in [Hosts -> Seq(UpMsg)]
    BY <1>11, <2>1, SendUpType DEF OnTerminalEnd
  <2>3. loop' \in [Machines -> Seq(ClientTask)]
    BY <1>3, <1>11 DEF OnTerminalEnd
  <2> QED
    BY <1>4, <1>11, <2>2, <2>3 DEF NetworkTypeOK, TerminalClientTypeOK, OnTerminalEnd
<1> QED
  BY <1>5, <1>6, <1>7, <1>8, <1>9, <1>10, <1>11 DEF TaskStep

\* The terminals themselves.
LEMMA ShellStepType ==
    ASSUME ClientTypes, NEW m \in Machines, NEW t \in TerminalId, ShellStep(m, t)
    PROVE  ClientTypes'
<1> USE DEF ClientTypes
<1>1. CASE OnTerminalRead(m, t)
  <2>1. up' \in [Hosts -> Seq(UpMsg)]
    <3>1. [type |-> "ON_TERMINAL_READ", t |-> t] \in UpMsg
      BY SentMessages
    <3> QED BY <1>1, <3>1, SendUpType DEF OnTerminalRead
  <2>2. pending' \in [Machines -> Int] /\ loop' \in [Machines -> Seq(ClientTask)]
    <3>1. ReadControl(pending[m] + 1) \in Seq(ClientTask)
      BY ReadControlType DEF TerminalClientTypeOK
    <3> QED BY <1>1, <3>1 DEF OnTerminalRead, ResolvePendingMsgUpdated, TerminalClientTypeOK
  <2>3. reads' \in [Machines -> Nat]
    BY <1>1 DEF OnTerminalRead, TerminalClientTypeOK
  <2>4. UNCHANGED <<waLoop, tsLoop, srvEnd, cliEnd, down, alive, client, handler,
                    terminals, shells, blocked, readEnabled, started>>
    BY <1>1 DEF OnTerminalRead
  <2> QED
    BY <2>1, <2>2, <2>3, <2>4 DEF NetworkTypeOK, TerminalClientTypeOK
<1>2. CASE ShellExit(m, t)
  <2>1. [fn |-> "OnTerminalEnd", t |-> t] \in ClientTask
    BY SentMessages
  <2>2. loop' \in [Machines -> Seq(ClientTask)]
    BY <1>2, <2>1, AppendType DEF ShellExit, TerminalClientTypeOK
  <2>3. shells' \in [Machines -> SUBSET TerminalId]
    BY <1>2 DEF ShellExit, TerminalClientTypeOK
  <2> QED
    BY <1>2, <2>2, <2>3 DEF NetworkTypeOK, TerminalClientTypeOK, ShellExit, netVars
<1> QED
  BY <1>1, <1>2 DEF ShellStep

=============================================================================
