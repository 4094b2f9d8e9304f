------------------------ MODULE ControlSystemProofs ------------------------
(***************************************************************************)
(* ControlSystem is type correct; pages see only their own terminals, and  *)
(* the maps of the server agree on whose they are; the host lists are      *)
(* current; the clients meet the server TerminalHosts assumes.             *)
(***************************************************************************)
EXTENDS ControlSystem, ClientProofs, FiniteSetTheorems

(***************************************************************************)
(* The messages and tasks of the network, seen through their fields: after *)
(* these lemmas no proof expands UpMsg, DownMsg, WebAppTask, TerminalTask  *)
(* or ClientTask again.                                                    *)
(***************************************************************************)
\* The fields of the tasks of WebAppServer's loop.
LEMMA WebAppTaskFields ==
    ASSUME NEW k \in WebAppTask
    PROVE  /\ k.fn \in {"AddClient", "RemoveClient"} => k.c \in WebClients
           /\ k.fn = "OnTerminalAddReq" => k.c \in WebClients /\ k.h \in Hosts
           /\ k.fn \in {"OnTerminalResizeReq", "OnTerminalDelReq", "OnTerminalKeyEvent",
                        "OnTerminalOutput"}
                 => k.c \in WebClients /\ k.t \in TerminalId
           /\ k.fn \in {"OnRemoteHostInfoReceived", "OnTerminalClientClosed"} => k.h \in Hosts
           /\ k.fn \in {"OnTerminalCreated", "OnTerminalClosed"}
                 => k.c \in WebClients /\ k.t \in TerminalId /\ k.h \in Hosts
  BY DEF WebAppTask

\* The fields of the tasks of TerminalServer's loop.
LEMMA TerminalTaskFields ==
    ASSUME NEW k \in TerminalTask
    PROVE  /\ k.h \in Hosts
           /\ k.fn = "CreateNewTerminal" => k.c \in WebClients
           /\ k.fn \in {"ResizeTerminal", "DeleteTerminal", "SendKeyEvent",
                        "HandleTerminalCreated", "HandleTerminalRead", "HandleTerminalEnd"}
                 => k.t \in TerminalId
           /\ k.fn = "HandleTerminalCreated" => k.ok \in BOOLEAN
  BY DEF TerminalTask

\* The tasks the server posts to its loops are well formed.
LEMMA PostedTasks ==
    /\ \A c \in WebClients :
          /\ [fn |-> "AddClient", c |-> c] \in WebAppTask
          /\ [fn |-> "RemoveClient", c |-> c] \in WebAppTask
    /\ \A h \in Hosts :
          /\ [fn |-> "OnRemoteHostInfoReceived", h |-> h] \in WebAppTask
          /\ [fn |-> "OnTerminalClientClosed", h |-> h] \in WebAppTask
          /\ [fn |-> "OnClientClosed", h |-> h] \in TerminalTask
    /\ \A c \in WebClients, t \in TerminalId, h \in Hosts, ok \in BOOLEAN :
          /\ [fn |-> "OnTerminalCreated", c |-> c, t |-> t, h |-> h, ok |-> ok] \in WebAppTask
          /\ [fn |-> "OnTerminalClosed", c |-> c, t |-> t, h |-> h] \in WebAppTask
    /\ \A c \in WebClients, t \in TerminalId :
          [fn |-> "OnTerminalOutput", c |-> c, t |-> t] \in WebAppTask
    /\ \A c \in WebClients, h \in Hosts :
          [fn |-> "CreateNewTerminal", c |-> c, h |-> h] \in TerminalTask
    /\ \A h \in Hosts, t \in TerminalId, ok \in BOOLEAN :
          /\ [fn |-> "ResizeTerminal", h |-> h, t |-> t] \in TerminalTask
          /\ [fn |-> "DeleteTerminal", h |-> h, t |-> t] \in TerminalTask
          /\ [fn |-> "SendKeyEvent", h |-> h, t |-> t] \in TerminalTask
          /\ [fn |-> "HandleTerminalCreated", h |-> h, t |-> t, ok |-> ok] \in TerminalTask
          /\ [fn |-> "HandleTerminalRead", h |-> h, t |-> t] \in TerminalTask
          /\ [fn |-> "HandleTerminalEnd", h |-> h, t |-> t] \in TerminalTask
  BY DEF WebAppTask, TerminalTask

-----------------------------------------------------------------------------
(***************************************************************************)
(* Type correctness.  One lemma per thread, one case per action; SessionsF *)
(* is needed for RemoveClient, which lists the terminals of a session.     *)
(***************************************************************************)
\* The pages: every callback posts a well-formed task.
LEMMA PagesType ==
    ASSUME TypeOK, Pages
    PROVE  (NetworkTypeOK /\ WebAppServerTypeOK)'
<1> USE DEF TypeOK
<1>1. CASE \E c \in WebClients : OnWsClientConnected(c)
  <2>1. PICK c \in WebClients : OnWsClientConnected(c)
    BY <1>1
  <2>2. waLoop' \in Seq(WebAppTask)
    BY <2>1, PostedTasks DEF NetworkTypeOK, OnWsClientConnected, PostWA, WebAppTask
  <2> QED
    BY <2>1, <2>2 DEF NetworkTypeOK, WebAppServerTypeOK, SessionsTypeOK, OnWsClientConnected
<1>2. CASE \E c \in WebClients : OnWsClientClosed(c)
  <2>1. PICK c \in WebClients : OnWsClientClosed(c)
    BY <1>2
  <2>2. waLoop' \in Seq(WebAppTask)
    BY <2>1 DEF NetworkTypeOK, OnWsClientClosed, PostWA, WebAppTask
  <2> QED
    BY <2>1, <2>2 DEF NetworkTypeOK, WebAppServerTypeOK, SessionsTypeOK, OnWsClientClosed
<1>3. CASE \E c \in WebClients : OnWsClientMessage(c)
  <2>1. PICK c \in WebClients : OnWsClientMessage(c)
    BY <1>3
  <2>2. PICK message \in PageMessage(c) : PostWA(message)
    BY <2>1 DEF OnWsClientMessage
  <2>3. KnownTerminals \subseteq TerminalId /\ told[c].seen \subseteq Hosts
    BY DEF WebAppServerTypeOK, ToldType, KnownTerminals
  <2>4. message \in WebAppTask
    BY <2>2, <2>3 DEF PageMessage, WebAppTask
  <2> QED
    BY <2>1, <2>2, <2>4
    DEF NetworkTypeOK, WebAppServerTypeOK, SessionsTypeOK, OnWsClientMessage, PostWA
<1> QED
  BY <1>1, <1>2, <1>3 DEF Pages

\* What a page was told grows by a terminal.
LEMMA ToldTerminal ==
    ASSUME NEW known \in ToldType, NEW t \in TerminalId
    PROVE  /\ [known EXCEPT !.added = @ \cup {t}] \in ToldType
           /\ [known EXCEPT !.output = @ \cup {t}] \in ToldType
           /\ [known EXCEPT !.closed = @ \cup {t}] \in ToldType
<1>1. [known EXCEPT !.added = @ \cup {t}] \in ToldType
  BY DEF ToldType
<1>2. [known EXCEPT !.output = @ \cup {t}] \in ToldType
  BY DEF ToldType
<1>3. [known EXCEPT !.closed = @ \cup {t}] \in ToldType
  BY DEF ToldType
<1> QED BY <1>1, <1>2, <1>3

\* The host list of a page gains or loses a host.
LEMMA ToldHost ==
    ASSUME NEW known \in ToldType, NEW h \in Hosts
    PROVE  /\ [known EXCEPT !.hosts = @ \cup {h}, !.seen = @ \cup {h}] \in ToldType
           /\ [known EXCEPT !.hosts = @ \ {h}] \in ToldType
<1>1. [known EXCEPT !.hosts = @ \cup {h}, !.seen = @ \cup {h}] \in ToldType
  BY DEF ToldType
<1>2. [known EXCEPT !.hosts = @ \ {h}] \in ToldType
  BY DEF ToldType
<1> QED BY <1>1, <1>2

\* The loop of WebAppServer.
LEMMA WebAppLoopType ==
    ASSUME TypeOK, SessionsFinite, WebAppLoop
    PROVE  (NetworkTypeOK /\ WebAppServerTypeOK /\ SessionsFinite)'
<1> DEFINE task == Head(waLoop)
<1> USE DEF TypeOK
<1>1. task \in WebAppTask /\ Tail(waLoop) \in Seq(WebAppTask)
  <2>1. waLoop # <<>> /\ waLoop \in Seq(WebAppTask)
    BY DEF NetworkTypeOK, WebAppLoop, AddClient, RemoveClient, OnTerminalAddReq,
       OnTerminalResizeReq, OnTerminalDelReq, OnTerminalKeyEvent,
       OnRemoteHostInfoReceived, OnTerminalClientClosed, OnTerminalCreated,
       OnTerminalOutput, OnTerminalClosed, TakeWA, Runs
  <2> QED BY <2>1, HeadAndTail
<1>2. CASE AddClient
  <2>1. task.c \in WebClients
    BY <1>1, <1>2, WebAppTaskFields DEF AddClient, TakeWA, Runs
  <2>2. NetworkTypeOK'
    BY <1>1, <1>2 DEF NetworkTypeOK, AddClient, TakeWA
  <2>3. (SessionsTypeOK /\ SessionsFinite)'
    BY <1>2, <2>1, FS_EmptySet
    DEF WebAppServerTypeOK, SessionsTypeOK, SessionsFinite, AddClient,
        CreateWebAppSession, Insert, Assign, EmptyMap
  <2>4. told' \in [WebClients -> ToldType]
    <3>1. told \in [WebClients -> ToldType] /\ activeHosts \in SUBSET Hosts
      BY DEF WebAppServerTypeOK
    <3>2. \A c \in WebClients :
             [told[c] EXCEPT !.hosts = activeHosts, !.seen = activeHosts] \in ToldType
      BY <3>1 DEF ToldType
    <3>3. told' = [told EXCEPT ![task.c] =
                      [told[task.c] EXCEPT !.hosts = activeHosts, !.seen = activeHosts]]
      BY <1>2 DEF AddClient
    <3> QED BY <2>1, <3>1, <3>2, <3>3
  <2> QED
    BY <1>2, <2>2, <2>3, <2>4 DEF WebAppServerTypeOK, AddClient
<1>3. CASE RemoveClient
  <2>1. task.c \in WebClients
    BY <1>1, <1>3, WebAppTaskFields DEF RemoveClient, TakeWA, Runs
  <2>2. tsLoop' \in Seq(TerminalTask)
    <3>1. CASE ~HasSession(task.c)
      BY <1>3, <3>1 DEF NetworkTypeOK, RemoveClient
    <3>2. CASE HasSession(task.c)
      <4>1. PICK ts \in InOrder(DOMAIN sessions[task.c]) :
               tsLoop' = tsLoop \o [i \in DOMAIN ts |->
                            [fn |-> "DeleteTerminal", h |-> sessions[task.c][ts[i]],
                             t |-> ts[i]]]
        BY <1>3, <3>2 DEF RemoveClient
      <4>2. Cardinality(DOMAIN sessions[task.c]) \in Nat
        BY <3>2, FS_CardinalityType DEF SessionsFinite, HasSession
      <4>3. \A i \in DOMAIN ts : ts[i] \in DOMAIN sessions[task.c]
        BY DEF InOrder
      <4>4. \A i \in DOMAIN ts :
               [fn |-> "DeleteTerminal", h |-> sessions[task.c][ts[i]], t |-> ts[i]]
                 \in TerminalTask
        BY <3>2, <4>3 DEF WebAppServerTypeOK, SessionsTypeOK, HasSession, TerminalTask
      <4>5. [i \in DOMAIN ts |-> [fn |-> "DeleteTerminal", h |-> sessions[task.c][ts[i]],
                                  t |-> ts[i]]] \in Seq(TerminalTask)
        BY <4>2, <4>4 DEF InOrder
      <4> QED BY <4>1, <4>5 DEF NetworkTypeOK
    <3> QED BY <3>1, <3>2
  <2>3. (SessionsTypeOK /\ SessionsFinite)'
    BY <1>3 DEF WebAppServerTypeOK, SessionsTypeOK, SessionsFinite, RemoveClient,
       EraseWebAppSession, Erase, Restrict
  <2> QED
    BY <1>1, <1>3, <2>2, <2>3 DEF NetworkTypeOK, WebAppServerTypeOK, RemoveClient, TakeWA
<1>4. CASE OnTerminalAddReq
  <2>1. tsLoop' \in Seq(TerminalTask)
    BY <1>1, <1>4, WebAppTaskFields
    DEF NetworkTypeOK, OnTerminalAddReq, TakeWA, Runs, PostTS, TerminalTask
  <2> QED
    BY <1>1, <1>4, <2>1
    DEF NetworkTypeOK, WebAppServerTypeOK, SessionsTypeOK, SessionsFinite,
        OnTerminalAddReq, TakeWA, waVars
<1>5. ASSUME NEW c \in WebClients, NEW t \in TerminalId,
             NEW fn \in {"ResizeTerminal", "DeleteTerminal", "SendKeyEvent"},
             OwnedRequest(c, t, fn)
      PROVE  tsLoop' \in Seq(TerminalTask)
  <2>1. CASE tsLoop' = tsLoop
    BY <2>1 DEF NetworkTypeOK
  <2>2. CASE /\ IsWebAppClientOwningTerminal(c, t)
             /\ PostTS([fn |-> fn, h |-> GetRemoteHostByTerminal(c, t), t |-> t])
    <3>1. GetRemoteHostByTerminal(c, t) \in Hosts
      BY <2>2 DEF WebAppServerTypeOK, SessionsTypeOK, IsWebAppClientOwningTerminal,
         HasSession, GetRemoteHostByTerminal
    <3>2. [fn |-> fn, h |-> GetRemoteHostByTerminal(c, t), t |-> t] \in TerminalTask
      BY <3>1, PostedTasks
    <3> QED BY <2>2, <3>2 DEF NetworkTypeOK, PostTS
  <2> QED BY <1>5, <2>1, <2>2 DEF OwnedRequest
<1>6. CASE OnTerminalResizeReq
  <2>1. tsLoop' \in Seq(TerminalTask)
    BY <1>1, <1>5, <1>6, WebAppTaskFields DEF OnTerminalResizeReq, TakeWA, Runs
  <2> QED
    BY <1>1, <1>6, <2>1
    DEF NetworkTypeOK, WebAppServerTypeOK, SessionsTypeOK, SessionsFinite,
        OnTerminalResizeReq, TakeWA, waVars
<1>7. CASE OnTerminalKeyEvent
  <2>1. tsLoop' \in Seq(TerminalTask)
    BY <1>1, <1>5, <1>7, WebAppTaskFields DEF OnTerminalKeyEvent, TakeWA, Runs
  <2> QED
    BY <1>1, <1>7, <2>1
    DEF NetworkTypeOK, WebAppServerTypeOK, SessionsTypeOK, SessionsFinite,
        OnTerminalKeyEvent, TakeWA, waVars
<1>8. CASE OnTerminalDelReq
  <2>1. tsLoop' \in Seq(TerminalTask)
    BY <1>1, <1>5, <1>8, WebAppTaskFields DEF OnTerminalDelReq, TakeWA, Runs
  <2>2. SessionsTypeOK'
    BY <1>8 DEF WebAppServerTypeOK, SessionsTypeOK, OnTerminalDelReq,
       SessionDeleteTerminal, Erase, Restrict
  <2>3. SessionsFinite'
    <3>1. \A c \in DOMAIN sessions' : c \in DOMAIN sessions
                                      /\ DOMAIN sessions'[c] \subseteq DOMAIN sessions[c]
      BY <1>8 DEF OnTerminalDelReq, SessionDeleteTerminal, Erase, Restrict
    <3> QED BY <3>1, FS_Subset DEF SessionsFinite
  <2> QED
    BY <1>1, <1>8, <2>1, <2>2, <2>3
    DEF NetworkTypeOK, WebAppServerTypeOK, OnTerminalDelReq, TakeWA
<1>9. CASE OnRemoteHostInfoReceived
  <2>1. task.h \in Hosts
    BY <1>1, <1>9, WebAppTaskFields DEF OnRemoteHostInfoReceived, TakeWA, Runs
  <2>2. told' \in [WebClients -> ToldType]
    <3>1. told \in [WebClients -> ToldType]
      BY DEF WebAppServerTypeOK
    <3>2. \A c \in WebClients : told[c] \in ToldType
      BY <3>1
    <3> QED BY <1>9, <2>1, <3>2, ToldHost DEF OnRemoteHostInfoReceived
  <2>3. activeHosts' \in SUBSET Hosts
    BY <1>9, <2>1 DEF WebAppServerTypeOK, OnRemoteHostInfoReceived
  <2> QED
    BY <1>1, <1>9, <2>2, <2>3
    DEF NetworkTypeOK, WebAppServerTypeOK, SessionsTypeOK, SessionsFinite,
        OnRemoteHostInfoReceived, TakeWA
<1>10. CASE OnTerminalClientClosed
  <2>1. task.h \in Hosts
    BY <1>1, <1>10, WebAppTaskFields DEF OnTerminalClientClosed, TakeWA, Runs
  <2>2. told' \in [WebClients -> ToldType]
    <3>1. told \in [WebClients -> ToldType]
      BY DEF WebAppServerTypeOK
    <3>2. \A c \in WebClients : told[c] \in ToldType
      BY <3>1
    <3> QED BY <1>10, <2>1, <3>2, ToldHost DEF OnTerminalClientClosed
  <2>3. activeHosts' \in SUBSET Hosts
    BY <1>10, <2>1 DEF WebAppServerTypeOK, OnTerminalClientClosed
  <2> QED
    BY <1>1, <1>10, <2>2, <2>3
    DEF NetworkTypeOK, WebAppServerTypeOK, SessionsTypeOK, SessionsFinite,
        OnTerminalClientClosed, TakeWA
<1>11. CASE OnTerminalCreated
  <2>1. task.c \in WebClients /\ task.t \in TerminalId /\ task.h \in Hosts
    BY <1>1, <1>11, WebAppTaskFields DEF OnTerminalCreated, TakeWA, Runs
  <2>2. SessionsTypeOK'
    BY <1>11, <2>1 DEF WebAppServerTypeOK, SessionsTypeOK, OnTerminalCreated, HasSession,
       SessionAddTerminal, Insert, Assign
  <2>3. SessionsFinite'
    <3>1. \A c \in DOMAIN sessions' : c \in DOMAIN sessions
              /\ DOMAIN sessions'[c] \subseteq DOMAIN sessions[c] \cup {task.t}
      BY <1>11 DEF OnTerminalCreated, SessionAddTerminal, Insert, Assign
    <3>2. \A c \in DOMAIN sessions : IsFiniteSet(DOMAIN sessions[c] \cup {task.t})
      BY FS_AddElement DEF SessionsFinite
    <3> QED BY <3>1, <3>2, FS_Subset DEF SessionsFinite
  <2>4. told' \in [WebClients -> ToldType]
    <3>1. told \in [WebClients -> ToldType]
      BY DEF WebAppServerTypeOK
    <3>2. \A c \in WebClients : told[c] \in ToldType
      BY <3>1
    <3>3. \A c \in WebClients : [told[c] EXCEPT !.added = @ \cup {task.t}] \in ToldType
      BY <2>1, <3>2, ToldTerminal
    <3>4. \/ told' = told
          \/ told' = [told EXCEPT ![task.c] =
                          [told[task.c] EXCEPT !.added = @ \cup {task.t}]]
      BY <1>11 DEF OnTerminalCreated
    <3> QED BY <3>1, <3>3, <3>4
  <2>5. NetworkTypeOK'
    BY <1>1, <1>11 DEF NetworkTypeOK, OnTerminalCreated, TakeWA
  <2> QED
    BY <1>11, <2>1, <2>2, <2>3, <2>4, <2>5 DEF WebAppServerTypeOK, OnTerminalCreated
<1>12. CASE OnTerminalOutput
  <2>1. task.t \in TerminalId
    BY <1>1, <1>12, WebAppTaskFields DEF OnTerminalOutput, TakeWA, Runs
  <2>2. told' \in [WebClients -> ToldType]
    <3>1. told \in [WebClients -> ToldType]
      BY DEF WebAppServerTypeOK
    <3>2. \A c \in WebClients : told[c] \in ToldType
      BY <3>1
    <3>3. \A c \in WebClients : [told[c] EXCEPT !.output = @ \cup {task.t}] \in ToldType
      BY <2>1, <3>2, ToldTerminal
    <3>4. \/ told' = told
          \/ told' = [told EXCEPT ![task.c] =
                          [told[task.c] EXCEPT !.output = @ \cup {task.t}]]
      BY <1>12 DEF OnTerminalOutput
    <3> QED BY <3>1, <3>3, <3>4
  <2>3. NetworkTypeOK'
    BY <1>1, <1>12 DEF NetworkTypeOK, OnTerminalOutput, TakeWA
  <2> QED
    BY <1>12, <2>2, <2>3
    DEF WebAppServerTypeOK, SessionsTypeOK, SessionsFinite, OnTerminalOutput
<1>13. CASE OnTerminalClosed
  <2>1. task.t \in TerminalId
    BY <1>1, <1>13, WebAppTaskFields DEF OnTerminalClosed, TakeWA, Runs
  <2>2. told' \in [WebClients -> ToldType]
    <3>1. told \in [WebClients -> ToldType]
      BY DEF WebAppServerTypeOK
    <3>2. \A c \in WebClients : told[c] \in ToldType
      BY <3>1
    <3>3. \A c \in WebClients : [told[c] EXCEPT !.closed = @ \cup {task.t}] \in ToldType
      BY <2>1, <3>2, ToldTerminal
    <3>4. \/ told' = told
          \/ told' = [told EXCEPT ![task.c] =
                          [told[task.c] EXCEPT !.closed = @ \cup {task.t}]]
      BY <1>13 DEF OnTerminalClosed
    <3> QED BY <3>1, <3>3, <3>4
  <2>3. NetworkTypeOK'
    BY <1>1, <1>13 DEF NetworkTypeOK, OnTerminalClosed, TakeWA
  <2> QED
    BY <1>13, <2>2, <2>3
    DEF WebAppServerTypeOK, SessionsTypeOK, SessionsFinite, OnTerminalClosed
<1> QED
  BY <1>2, <1>3, <1>4, <1>6, <1>7, <1>8, <1>9, <1>10, <1>11, <1>12, <1>13 DEF WebAppLoop

\* The loop of TerminalServer.
LEMMA TerminalLoopType ==
    ASSUME TypeOK, TerminalLoop
    PROVE  (NetworkTypeOK /\ TerminalServerTypeOK)'
<1> DEFINE task == Head(tsLoop)
<1> USE DEF TypeOK
<1>1. task \in TerminalTask /\ Tail(tsLoop) \in Seq(TerminalTask)
  <2>1. tsLoop # <<>> /\ tsLoop \in Seq(TerminalTask)
    BY DEF NetworkTypeOK, TerminalLoop, CreateNewTerminal, ResizeTerminal, DeleteTerminal,
       SendKeyEvent, Command, OnClientClosed, HandleTerminalCreated, HandleTerminalRead,
       HandleTerminalEnd, Report, TakeTS, Runs
  <2> QED BY <2>1, HeadAndTail
<1>2. task.h \in Hosts
  BY <1>1, TerminalTaskFields
<1>3. CASE CreateNewTerminal
  <2>1. task.c \in WebClients
    BY <1>1, <1>3, TerminalTaskFields DEF CreateNewTerminal, TakeTS, Runs
  <2>2. NextId \in TerminalId
    BY DEF NextId, TerminalId, TerminalServerTypeOK
  <2>3. down' \in [Hosts -> Seq(DownMsg)]
    <3>1. [type |-> "CREATE_TERMINAL", t |-> NextId] \in DownMsg
      BY <2>2, SentMessages
    <3>2. down' = down \/ SendDown(task.h, [type |-> "CREATE_TERMINAL", t |-> NextId])
      BY <1>3 DEF CreateNewTerminal
    <3> QED BY <1>2, <3>1, <3>2, SendDownType DEF NetworkTypeOK
  <2>4. CASE UNCHANGED <<remoteHosts, idCounter, owner>>
    BY <1>1, <1>3, <2>3, <2>4
    DEF NetworkTypeOK, TerminalServerTypeOK, CreateNewTerminal, TakeTS
  <2>5. CASE /\ idCounter' = NextId
             /\ AddTerminal(task.h, NextId, task.c)
             /\ owner' = Append(owner, [c |-> task.c, h |-> task.h])
    <3>1. (/\ DOMAIN remoteHosts \subseteq Hosts
           /\ \A h \in DOMAIN remoteHosts :
                 /\ DOMAIN remoteHosts[h] \subseteq TerminalId
                 /\ \A t \in DOMAIN remoteHosts[h] : remoteHosts[h][t] \in WebClients)'
      BY <1>2, <2>1, <2>2, <2>5
      DEF TerminalServerTypeOK, AddTerminal, Assign, Insert, Entry, EmptyMap
    <3>2. owner' \in Seq([c : WebClients, h : Hosts]) /\ idCounter' \in Nat
      BY <1>2, <2>1, <2>5 DEF TerminalServerTypeOK, NextId
    <3> QED
      BY <1>1, <1>3, <2>3, <3>1, <3>2
      DEF NetworkTypeOK, TerminalServerTypeOK, CreateNewTerminal, TakeTS
  <2> QED
    BY <1>3, <2>4, <2>5 DEF CreateNewTerminal
<1>4. ASSUME NEW fn \in {"ResizeTerminal", "DeleteTerminal", "SendKeyEvent"},
             NEW type \in {"RESIZE_TERMINAL", "DELETE_TERMINAL", "ON_TERMINAL_WRITE"},
             Command(fn, type)
      PROVE  (NetworkTypeOK /\ TerminalServerTypeOK)'
  <2>1. task.t \in TerminalId
    BY <1>1, <1>4, TerminalTaskFields DEF Command, TakeTS, Runs
  <2>2. down' \in [Hosts -> Seq(DownMsg)]
    <3>1. [type |-> type, t |-> task.t] \in DownMsg
      BY <1>4, <2>1, SentMessages
    <3>2. down' = down \/ SendDown(task.h, [type |-> type, t |-> task.t])
      BY <1>4 DEF Command
    <3> QED BY <1>2, <3>1, <3>2, SendDownType DEF NetworkTypeOK
  <2> QED
    BY <1>1, <1>4, <2>2 DEF NetworkTypeOK, TerminalServerTypeOK, Command, TakeTS, tsVars
<1>5. CASE OnClientClosed
  <2>1. waLoop' \in Seq(WebAppTask)
    <3>1. [fn |-> "OnTerminalClientClosed", h |-> task.h] \in WebAppTask
      BY <1>2, PostedTasks
    <3> QED BY <1>5, <3>1 DEF NetworkTypeOK, OnClientClosed
  <2> QED
    BY <1>1, <1>5, <2>1
    DEF NetworkTypeOK, TerminalServerTypeOK, OnClientClosed, TakeTS, Erase, Restrict
<1>6. ASSUME NEW fn, NEW k, Report(fn, k), HasAppClient(task.h, task.t) => k \in WebAppTask
      PROVE  (NetworkTypeOK /\ TerminalServerTypeOK)'
  BY <1>1, <1>6 DEF NetworkTypeOK, TerminalServerTypeOK, Report, TakeTS, tsVars
<1>7. HasAppClient(task.h, task.t) => GetAppClinetId(task.h, task.t) \in WebClients
  BY DEF TerminalServerTypeOK, HasAppClient, GetAppClinetId
<1>8. CASE HandleTerminalCreated
  <2>1. task.t \in TerminalId /\ task.ok \in BOOLEAN
    BY <1>1, <1>8, TerminalTaskFields DEF HandleTerminalCreated, Report, TakeTS, Runs
  <2> QED
    BY <1>2, <1>6, <1>7, <1>8, <2>1, PostedTasks DEF HandleTerminalCreated
<1>9. CASE HandleTerminalRead
  <2>1. task.t \in TerminalId
    BY <1>1, <1>9, TerminalTaskFields DEF HandleTerminalRead, Report, TakeTS, Runs
  <2> QED
    BY <1>2, <1>6, <1>7, <1>9, <2>1, PostedTasks DEF HandleTerminalRead
<1>10. CASE HandleTerminalEnd
  <2>1. task.t \in TerminalId
    BY <1>1, <1>10, TerminalTaskFields DEF HandleTerminalEnd, Report, TakeTS, Runs
  <2> QED
    BY <1>2, <1>6, <1>7, <1>10, <2>1, PostedTasks DEF HandleTerminalEnd
<1> QED
  BY <1>3, <1>4, <1>5, <1>8, <1>9, <1>10
  DEF TerminalLoop, ResizeTerminal, DeleteTerminal, SendKeyEvent

\* The connection thread of the server.
LEMMA ServerConnectionType ==
    ASSUME TypeOK, ServerConnection
    PROVE  (NetworkTypeOK /\ TerminalServerTypeOK)'
<1> USE DEF TypeOK
<1>1. ASSUME NEW h \in Hosts, ServerOnClientRead(h)
      PROVE  (NetworkTypeOK /\ TerminalServerTypeOK)'
  <2> DEFINE msg == Head(up[h])
  <2>1. up[h] \in Seq(UpMsg) /\ up[h] # <<>>
    BY <1>1 DEF NetworkTypeOK, ServerOnClientRead
  <2>2. msg \in UpMsg /\ Tail(up[h]) \in Seq(UpMsg)
    BY <2>1, HeadAndTail
  <2>3. [fn |-> "OnRemoteHostInfoReceived", h |-> h] \in WebAppTask
    BY PostedTasks
  <2>4. msg.type # "CLIENT_INFO" => TaskOf(h, msg) \in TerminalTask
    BY <2>2, MessageFields, PostedTasks DEF TaskOf
  <2>5. waLoop' \in Seq(WebAppTask) /\ tsLoop' \in Seq(TerminalTask)
    <3>1. \/ waLoop' = Append(waLoop, [fn |-> "OnRemoteHostInfoReceived", h |-> h])
          \/ waLoop' = waLoop
      BY <1>1 DEF ServerOnClientRead
    <3>2. \/ msg.type # "CLIENT_INFO" /\ tsLoop' = Append(tsLoop, TaskOf(h, msg))
          \/ tsLoop' = tsLoop
      BY <1>1 DEF ServerOnClientRead
    <3>3. waLoop' \in Seq(WebAppTask)
      BY <2>3, <3>1, AppendType DEF NetworkTypeOK
    <3>4. tsLoop' \in Seq(TerminalTask)
      BY <2>4, <3>2, AppendType DEF NetworkTypeOK
    <3> QED BY <3>3, <3>4
  <2>6. down' \in [Hosts -> Seq(DownMsg)]
    <3>1. [type |-> "ON_TERMINAL_READ_ACK"] \in DownMsg
      BY SentMessages
    <3>2. down' = down \/ SendDown(h, [type |-> "ON_TERMINAL_READ_ACK"])
      BY <1>1 DEF ServerOnClientRead
    <3> QED BY <3>1, <3>2, SendDownType DEF NetworkTypeOK
  <2>7. up' \in [Hosts -> Seq(UpMsg)]
    BY <1>1, <2>2 DEF NetworkTypeOK, ServerOnClientRead
  <2>8. monitored' \in SUBSET Hosts
    BY <1>1 DEF TerminalServerTypeOK, ServerOnClientRead
  <2>9. UNCHANGED <<srvEnd, cliEnd, remoteHosts, idCounter, owner>>
    BY <1>1 DEF ServerOnClientRead
  <2>10. NetworkTypeOK'
    BY <2>5, <2>6, <2>7, <2>9 DEF NetworkTypeOK
  <2> QED
    BY <2>8, <2>9, <2>10 DEF TerminalServerTypeOK
<1>2. ASSUME NEW h \in Hosts, UNCHANGED <<waLoop, cliEnd, down, tsVars>>,
             tsLoop' = Append(tsLoop, [fn |-> "OnClientClosed", h |-> h]),
             NEW end \in EndState, srvEnd' = [srvEnd EXCEPT ![h] = end],
             up' = [up EXCEPT ![h] = <<>>] \/ up' = up
      PROVE  (NetworkTypeOK /\ TerminalServerTypeOK)'
  <2>1. tsLoop' \in Seq(TerminalTask)
    <3>1. [fn |-> "OnClientClosed", h |-> h] \in TerminalTask
      BY PostedTasks
    <3> QED BY <1>2, <3>1 DEF NetworkTypeOK
  <2>2. up' \in [Hosts -> Seq(UpMsg)]
    <3>1. up \in [Hosts -> Seq(UpMsg)] /\ <<>> \in Seq(UpMsg)
      BY DEF NetworkTypeOK
    <3>2. [up EXCEPT ![h] = <<>>] \in [Hosts -> Seq(UpMsg)]
      BY <3>1
    <3> QED BY <1>2, <3>1, <3>2
  <2>3. srvEnd' \in [Hosts -> EndState]
    BY <1>2 DEF NetworkTypeOK
  <2>4. NetworkTypeOK'
    BY <1>2, <2>1, <2>2, <2>3 DEF NetworkTypeOK
  <2> QED
    BY <1>2, <2>4 DEF TerminalServerTypeOK, tsVars
<1>3. ASSUME NEW h \in Hosts, ServerOnClientClosed(h)
      PROVE  (NetworkTypeOK /\ TerminalServerTypeOK)'
  <2>1. "closed" \in EndState
    BY DEF EndState
  <2> QED BY <1>2, <1>3, <2>1 DEF ServerOnClientClosed
<1>4. ASSUME NEW h \in Hosts, ServerOnClientUnresponsive(h)
      PROVE  (NetworkTypeOK /\ TerminalServerTypeOK)'
  <2>1. "removed" \in EndState
    BY DEF EndState
  <2> QED BY <1>2, <1>4, <2>1 DEF ServerOnClientUnresponsive
<1> QED
  BY <1>1, <1>3, <1>4 DEF ServerConnection
\* The terminal clients, whatever the server's tasks: what they do to the network
\* and to themselves is typed in ClientProofs.
LEMMA ClientType ==
    ASSUME TypeOK, ClientConnection \/ (\E m \in Machines : ClientLoop(m)) \/ Shells
    PROVE  (NetworkTypeOK /\ TerminalClientTypeOK)'
<1>1. ClientTypes
  BY DEF TypeOK, ClientTypes
<1>2. ASSUME NEW m \in Machines, ConnectionStep(m) PROVE ClientTypes'
  BY <1>1, <1>2, ConnectionStepType
<1>3. ASSUME NEW m \in Machines, TaskStep(m) PROVE ClientTypes'
  BY <1>1, <1>3, TaskStepType
<1>4. ASSUME NEW m \in Machines, NEW t \in 1 .. idCounter, ShellStep(m, t) PROVE ClientTypes'
  <2>1. t \in TerminalId
    BY DEF TypeOK, TerminalServerTypeOK, TerminalId
  <2> QED BY <1>1, <1>4, <2>1, ShellStepType
<1>5. CASE ClientConnection
  BY <1>2, <1>5 DEF ClientConnection, ConnectionStep, ClientTypes
<1>6. CASE \E m \in Machines : ClientLoop(m)
  BY <1>3, <1>6 DEF ClientLoop, TaskStep, ClientTypes
<1>7. CASE Shells
  BY <1>4, <1>7 DEF Shells, ShellStep, ClientTypes
<1> QED BY <1>5, <1>6, <1>7

\* The invariant of the type theorem.
Typed == TypeOK /\ SessionsFinite

LEMMA InitTyped == ASSUME Init PROVE Typed
<1>1. NetworkTypeOK
  BY DEF Init, NetworkInit, NetworkTypeOK, EndState
<1>2. WebAppServerTypeOK /\ SessionsFinite
  BY DEF Init, WebAppServerInit, WebAppServerTypeOK, SessionsInit, SessionsTypeOK,
     SessionsFinite, ToldType, EmptyMap
<1>3. TerminalServerTypeOK
  BY DEF Init, TerminalServerInit, TerminalServerTypeOK, EmptyMap
<1>4. TerminalClientTypeOK
  BY DEF Init, TerminalClientInit, TerminalClientTypeOK
<1> QED
  BY <1>1, <1>2, <1>3, <1>4 DEF Typed, TypeOK

LEMMA NextTyped == ASSUME Typed, [Next]_vars PROVE Typed'
<1> USE DEF Typed
<1>1. ASSUME UNCHANGED waVars PROVE (WebAppServerTypeOK /\ SessionsFinite)'
  BY <1>1 DEF TypeOK, WebAppServerTypeOK, SessionsTypeOK, SessionsFinite, waVars
<1>2. ASSUME UNCHANGED tsVars PROVE TerminalServerTypeOK'
  BY <1>2 DEF TypeOK, TerminalServerTypeOK, tsVars
<1>3. ASSUME UNCHANGED tcVars PROVE TerminalClientTypeOK'
  BY <1>3 DEF TypeOK, TerminalClientTypeOK, tcVars
<1>4. CASE Pages
  <2>1. UNCHANGED <<sessions, tsVars, tcVars>>
    BY <1>4 DEF Pages, OnWsClientConnected, OnWsClientMessage, OnWsClientClosed, WebAppOnly
  <2>2. SessionsFinite'
    BY <2>1 DEF SessionsFinite
  <2> QED
    BY <1>2, <1>3, <1>4, <2>1, <2>2, PagesType DEF TypeOK
<1>5. CASE WebAppLoop
  <2>1. UNCHANGED <<tsVars, tcVars>>
    BY <1>5 DEF WebAppLoop, WebAppOnly
  <2> QED
    BY <1>2, <1>3, <1>5, <2>1, WebAppLoopType DEF TypeOK
<1>6. CASE TerminalLoop
  <2>1. UNCHANGED <<waVars, tcVars>>
    BY <1>6 DEF TerminalLoop, TerminalOnly
  <2> QED
    BY <1>1, <1>3, <1>6, <2>1, TerminalLoopType DEF TypeOK
<1>7. CASE ServerConnection
  <2>1. UNCHANGED <<waVars, tcVars>>
    BY <1>7 DEF ServerConnection, TerminalOnly
  <2> QED
    BY <1>1, <1>3, <1>7, <2>1, ServerConnectionType DEF TypeOK
<1>8. CASE ClientConnection
  <2>1. UNCHANGED <<waVars, tsVars>>
    BY <1>8 DEF ClientConnection, ClientOnly
  <2> QED
    BY <1>1, <1>2, <1>8, <2>1, ClientType DEF TypeOK
<1>9. CASE \E m \in Machines : ClientLoop(m)
  <2>1. UNCHANGED <<waVars, tsVars>>
    BY <1>9 DEF ClientLoop, ClientOnly
  <2> QED
    BY <1>1, <1>2, <1>9, <2>1, ClientType DEF TypeOK
<1>10. CASE Shells
  <2>1. UNCHANGED <<waVars, tsVars>>
    BY <1>10 DEF Shells, ClientOnly
  <2> QED
    BY <1>1, <1>2, <1>10, <2>1, ClientType DEF TypeOK
<1>11. CASE UNCHANGED vars
  <2>1. NetworkTypeOK'
    BY <1>11 DEF TypeOK, NetworkTypeOK, vars, netVars
  <2> QED
    BY <1>1, <1>2, <1>3, <1>11, <2>1 DEF TypeOK, vars
<1> QED
  BY <1>4, <1>5, <1>6, <1>7, <1>8, <1>9, <1>10, <1>11 DEF Next

\* Every queue of the system only ever holds well-formed tasks and messages,
\* and every map only ids of its kind: no handler can be reached with a message
\* of another one, whatever the constants.
THEOREM TypeCorrect == Spec => []TypeOK
<1>1. Init => Typed
  BY InitTyped
<1>2. Typed /\ [Next]_vars => Typed'
  BY NextTyped
<1>3. Typed => TypeOK
  BY DEF Typed
<1> QED
  BY <1>1, <1>2, <1>3, PTL DEF Spec
-----------------------------------------------------------------------------
(***************************************************************************)
(* Whose terminal is whose: pages only hear of their own terminals and     *)
(* every command reaches the host its terminal runs on.  Neither property  *)
(* is inductive by itself: a step copies an owner or a host from a map or  *)
(* a queue, so the queues have to agree with the history as well.          *)
(***************************************************************************)
\* The tasks and messages that agree with the history of creations.
RoutedWebAppTask ==
    {k \in WebAppTask :
        /\ k.fn \in {"OnTerminalCreated", "OnTerminalOutput", "OnTerminalClosed"}
              => OwnedBy(k.t, k.c)
        /\ k.fn \in {"OnTerminalCreated", "OnTerminalClosed"} => RunsOn(k.t, k.h)}

RoutedTerminalTask ==
    {k \in TerminalTask :
        k.fn \in {"ResizeTerminal", "DeleteTerminal", "SendKeyEvent"} => RunsOn(k.t, k.h)}

RoutedDownMsg(h) ==
    {msg \in DownMsg : msg.type # "ON_TERMINAL_READ_ACK" => RunsOn(msg.t, h)}

RoutedSessions ==
    \A c \in DOMAIN sessions : \A t \in DOMAIN sessions[c] :
        OwnedBy(t, c) /\ RunsOn(t, sessions[c][t])

RoutedHosts ==
    \A h \in DOMAIN remoteHosts : \A t \in DOMAIN remoteHosts[h] :
        OwnedBy(t, remoteHosts[h][t]) /\ RunsOn(t, h)

RoutedLoops ==
    /\ waLoop \in Seq(RoutedWebAppTask)
    /\ tsLoop \in Seq(RoutedTerminalTask)

RoutedDown == \A h \in Hosts : down[h] \in Seq(RoutedDownMsg(h))

\* The inductive invariant.
Routed ==
    /\ Typed
    /\ Len(owner) = idCounter
    /\ RoutedSessions
    /\ RoutedHosts
    /\ RoutedLoops
    /\ RoutedDown
    /\ PagesSeeOwnTerminals
-----------------------------------------------------------------------------
\* A queue of tasks of one kind is a queue of tasks of every wider kind.
LEMMA SeqMonotone ==
    ASSUME NEW S, NEW T, S \subseteq T, NEW q \in Seq(S)
    PROVE  q \in Seq(T)
  OBVIOUS

\* A step that creates no terminal only has to care for what it changes.
LEMMA Frame ==
    ASSUME Routed, UNCHANGED <<idCounter, owner>>
    PROVE  /\ (Len(owner) = idCounter)'
           /\ sessions' = sessions => RoutedSessions'
           /\ remoteHosts' = remoteHosts => RoutedHosts'
           /\ waLoop' \in Seq(RoutedWebAppTask) /\ tsLoop' \in Seq(RoutedTerminalTask)
                 => RoutedLoops'
           /\ (\A h \in Hosts : down'[h] \in Seq(RoutedDownMsg(h))) => RoutedDown'
           /\ told' = told => PagesSeeOwnTerminals'
<1> USE DEF Routed, OwnedBy, RunsOn, Created
<1>1. RoutedWebAppTask' = RoutedWebAppTask /\ RoutedTerminalTask' = RoutedTerminalTask
  BY DEF RoutedWebAppTask, RoutedTerminalTask
<1>2. ASSUME NEW h \in Hosts PROVE RoutedDownMsg(h)' = RoutedDownMsg(h)
  BY DEF RoutedDownMsg
<1>3. sessions' = sessions => RoutedSessions'
  BY DEF RoutedSessions
<1>4. remoteHosts' = remoteHosts => RoutedHosts'
  BY DEF RoutedHosts
<1>5. told' = told => PagesSeeOwnTerminals'
  BY DEF PagesSeeOwnTerminals
<1>6. (\A h \in Hosts : down'[h] \in Seq(RoutedDownMsg(h))) => RoutedDown'
  BY <1>2 DEF RoutedDown
<1> QED
  BY <1>1, <1>3, <1>4, <1>5, <1>6 DEF RoutedLoops

\* Everything but the types.
Parts ==
    (Len(owner) = idCounter) /\ RoutedSessions /\ RoutedHosts /\ RoutedLoops
    /\ RoutedDown /\ PagesSeeOwnTerminals

\* The pages post requests, which promise nothing about owners.
LEMMA PagesRouted == ASSUME Routed, Pages PROVE Parts'
<1>1. UNCHANGED <<tsLoop, down, sessions, told, remoteHosts, idCounter, owner>>
  BY DEF Pages, OnWsClientConnected, OnWsClientMessage, OnWsClientClosed, WebAppOnly, tsVars
<1>2. PICK k \in WebAppTask : waLoop' = Append(waLoop, k)
         /\ k.fn \notin {"OnTerminalCreated", "OnTerminalOutput", "OnTerminalClosed"}
  <2>1. ASSUME NEW c \in WebClients, OnWsClientConnected(c)
        PROVE  waLoop' = Append(waLoop, [fn |-> "AddClient", c |-> c])
    BY <2>1 DEF OnWsClientConnected, PostWA
  <2>2. ASSUME NEW c \in WebClients, OnWsClientClosed(c)
        PROVE  waLoop' = Append(waLoop, [fn |-> "RemoveClient", c |-> c])
    BY <2>2 DEF OnWsClientClosed, PostWA
  <2>3. ASSUME NEW c \in WebClients, OnWsClientMessage(c)
        PROVE  \E k \in PageMessage(c) : waLoop' = Append(waLoop, k)
    BY <2>3 DEF OnWsClientMessage, PostWA
  <2>4. \A c \in WebClients : \A k \in PageMessage(c) :
           /\ k.fn \notin {"OnTerminalCreated", "OnTerminalOutput", "OnTerminalClosed"}
           /\ k \in WebAppTask
    <3>1. \A c \in WebClients : KnownTerminals \subseteq TerminalId
                                /\ told[c].seen \subseteq Hosts
      BY DEF Routed, Typed, TypeOK, WebAppServerTypeOK, ToldType, KnownTerminals
    <3> QED BY <3>1 DEF PageMessage, WebAppTask
  <2> QED
    BY <2>1, <2>2, <2>3, <2>4, PostedTasks DEF Pages
<1>3. k \in RoutedWebAppTask
  BY <1>2 DEF RoutedWebAppTask
<1>4. waLoop' \in Seq(RoutedWebAppTask) /\ tsLoop' \in Seq(RoutedTerminalTask)
  BY <1>1, <1>2, <1>3, AppendType DEF Routed, RoutedLoops
<1> QED
  BY <1>1, <1>4, Frame DEF Routed, RoutedDown, Parts

\* What a page is told of terminals only grows by its own.
LEMMA ToldOwn ==
    ASSUME Routed, UNCHANGED owner, told' \in [WebClients -> ToldType],
           \A c \in WebClients :
               \A t \in told'[c].added \cup told'[c].output \cup told'[c].closed :
                   t \in told[c].added \cup told[c].output \cup told[c].closed \/ OwnedBy(t, c)
    PROVE  PagesSeeOwnTerminals'
  BY DEF Routed, PagesSeeOwnTerminals, OwnedBy, Created

\* The loop of WebAppServer: requests are passed on for owned terminals only,
\* to the host in the session; reports come from routed tasks.
LEMMA WebAppLoopRouted == ASSUME Routed, WebAppLoop PROVE Parts'
<1> DEFINE task == Head(waLoop)
<1>1. UNCHANGED <<down, remoteHosts, idCounter, owner>>
  BY DEF WebAppLoop, WebAppOnly, tsVars, AddClient, RemoveClient, OnTerminalAddReq,
     OnTerminalResizeReq, OnTerminalDelReq, OnTerminalKeyEvent,
     OnRemoteHostInfoReceived, OnTerminalClientClosed, OnTerminalCreated,
     OnTerminalOutput, OnTerminalClosed
<1>2. waLoop # <<>> /\ waLoop' = Tail(waLoop)
  BY DEF WebAppLoop, AddClient, RemoveClient, OnTerminalAddReq,
     OnTerminalResizeReq, OnTerminalDelReq, OnTerminalKeyEvent,
     OnRemoteHostInfoReceived, OnTerminalClientClosed, OnTerminalCreated,
     OnTerminalOutput, OnTerminalClosed, TakeWA, Runs
<1>3. task \in RoutedWebAppTask /\ waLoop' \in Seq(RoutedWebAppTask)
  BY <1>2, HeadAndTail DEF Routed, RoutedLoops
<1>4. task \in WebAppTask
  BY <1>3 DEF RoutedWebAppTask
<1>5. told' \in [WebClients -> ToldType]
  BY WebAppLoopType DEF Routed, Typed, WebAppServerTypeOK
<1>6. ASSUME tsLoop' \in Seq(RoutedTerminalTask), RoutedSessions', PagesSeeOwnTerminals'
      PROVE  Parts'
  BY <1>1, <1>3, <1>6, Frame DEF Routed, RoutedDown, Parts
<1>7. tsLoop' = tsLoop => tsLoop' \in Seq(RoutedTerminalTask)
  BY DEF Routed, RoutedLoops
<1>8. sessions' = sessions => RoutedSessions'
  BY <1>1, Frame
<1>9. told' = told => PagesSeeOwnTerminals'
  BY <1>1, Frame
<1>10. ASSUME NEW c, NEW t \in TerminalId,
              NEW fn \in {"ResizeTerminal", "DeleteTerminal", "SendKeyEvent"},
              OwnedRequest(c, t, fn)
       PROVE  tsLoop' \in Seq(RoutedTerminalTask)
  <2>1. CASE tsLoop' = tsLoop
    BY <1>7, <2>1
  <2>2. CASE /\ IsWebAppClientOwningTerminal(c, t)
             /\ PostTS([fn |-> fn, h |-> GetRemoteHostByTerminal(c, t), t |-> t])
    <3> DEFINE h == GetRemoteHostByTerminal(c, t)
               k == [fn |-> fn, h |-> h, t |-> t]
    <3>1. h \in Hosts /\ RunsOn(t, h)
      BY <2>2 DEF Routed, Typed, TypeOK, WebAppServerTypeOK, SessionsTypeOK, RoutedSessions,
         IsWebAppClientOwningTerminal, HasSession, GetRemoteHostByTerminal
    <3>2. k \in TerminalTask
      BY <3>1, PostedTasks
    <3>3. k \in RoutedTerminalTask
      BY <3>1, <3>2 DEF RoutedTerminalTask
    <3>4. tsLoop' = Append(tsLoop, k)
      BY <2>2 DEF PostTS
    <3> QED BY <3>3, <3>4, AppendType DEF Routed, RoutedLoops
  <2> QED BY <1>10, <2>1, <2>2 DEF OwnedRequest
<1>11. CASE AddClient
  <2>1. RoutedSessions'
    BY <1>1, <1>11
    DEF Routed, RoutedSessions, AddClient, CreateWebAppSession, Insert, Assign, EmptyMap,
        OwnedBy, RunsOn, Created
  <2>2. PagesSeeOwnTerminals'
    <3>1. \A c \in WebClients :
             /\ told'[c].added = told[c].added
             /\ told'[c].output = told[c].output
             /\ told'[c].closed = told[c].closed
      BY <1>11 DEF AddClient, Routed, Typed, TypeOK, WebAppServerTypeOK, ToldType
    <3> QED BY <1>1, <1>5, <3>1, ToldOwn
  <2> QED BY <1>6, <1>7, <1>11, <2>1, <2>2 DEF AddClient
<1>12. CASE RemoveClient
  <2>1. tsLoop' \in Seq(RoutedTerminalTask)
    <3>1. CASE ~HasSession(task.c)
      BY <1>7, <1>12, <3>1 DEF RemoveClient
    <3>2. CASE HasSession(task.c)
      <4>1. PICK ts \in InOrder(DOMAIN sessions[task.c]) :
               tsLoop' = tsLoop \o [i \in DOMAIN ts |->
                            [fn |-> "DeleteTerminal", h |-> sessions[task.c][ts[i]],
                             t |-> ts[i]]]
        BY <1>12, <3>2 DEF RemoveClient
      <4>2. Cardinality(DOMAIN sessions[task.c]) \in Nat
        BY <3>2, FS_CardinalityType DEF Routed, Typed, SessionsFinite, HasSession
      <4>3. \A i \in DOMAIN ts : ts[i] \in DOMAIN sessions[task.c]
        BY DEF InOrder
      <4>4. \A i \in DOMAIN ts :
               /\ sessions[task.c][ts[i]] \in Hosts
               /\ ts[i] \in TerminalId
               /\ RunsOn(ts[i], sessions[task.c][ts[i]])
        BY <3>2, <4>3 DEF Routed, Typed, TypeOK, WebAppServerTypeOK, SessionsTypeOK,
           RoutedSessions, HasSession
      <4>5. \A i \in DOMAIN ts :
               [fn |-> "DeleteTerminal", h |-> sessions[task.c][ts[i]], t |-> ts[i]]
                 \in RoutedTerminalTask
        BY <4>4 DEF RoutedTerminalTask, TerminalTask
      <4>6. [i \in DOMAIN ts |-> [fn |-> "DeleteTerminal", h |-> sessions[task.c][ts[i]],
                                  t |-> ts[i]]] \in Seq(RoutedTerminalTask)
        BY <4>2, <4>5 DEF InOrder
      <4> QED BY <4>1, <4>6 DEF Routed, RoutedLoops
    <3> QED BY <3>1, <3>2
  <2>2. RoutedSessions'
    BY <1>1, <1>12
    DEF Routed, RoutedSessions, RemoveClient, EraseWebAppSession, Erase, Restrict,
        OwnedBy, RunsOn, Created
  <2> QED BY <1>6, <1>9, <1>12, <2>1, <2>2 DEF RemoveClient
<1>13. CASE OnTerminalAddReq
  <2>1. [fn |-> "CreateNewTerminal", c |-> task.c, h |-> task.h] \in RoutedTerminalTask
    BY <1>4, <1>13, WebAppTaskFields, PostedTasks
    DEF OnTerminalAddReq, TakeWA, Runs, RoutedTerminalTask
  <2>2. tsLoop' \in Seq(RoutedTerminalTask)
    BY <1>13, <2>1, AppendType DEF OnTerminalAddReq, PostTS, Routed, RoutedLoops
  <2> QED BY <1>6, <1>8, <1>9, <1>13, <2>2 DEF OnTerminalAddReq, waVars
<1>14. CASE OnTerminalResizeReq \/ OnTerminalKeyEvent
  <2>1. task.t \in TerminalId
    BY <1>4, <1>14, WebAppTaskFields
    DEF OnTerminalResizeReq, OnTerminalKeyEvent, TakeWA, Runs
  <2>2. tsLoop' \in Seq(RoutedTerminalTask)
    BY <1>10, <1>14, <2>1 DEF OnTerminalResizeReq, OnTerminalKeyEvent
  <2> QED
    BY <1>6, <1>8, <1>9, <1>14, <2>2 DEF OnTerminalResizeReq, OnTerminalKeyEvent, waVars
<1>15. CASE OnTerminalDelReq
  <2>1. task.t \in TerminalId
    BY <1>4, <1>15, WebAppTaskFields DEF OnTerminalDelReq, TakeWA, Runs
  <2>2. tsLoop' \in Seq(RoutedTerminalTask)
    BY <1>10, <1>15, <2>1 DEF OnTerminalDelReq
  <2>3. RoutedSessions'
    BY <1>1, <1>15
    DEF Routed, RoutedSessions, OnTerminalDelReq, SessionDeleteTerminal, Erase, Restrict,
        OwnedBy, RunsOn, Created
  <2> QED BY <1>6, <1>9, <1>15, <2>2, <2>3 DEF OnTerminalDelReq
<1>16. CASE OnRemoteHostInfoReceived \/ OnTerminalClientClosed
  <2>1. \A c \in WebClients :
           /\ told'[c].added = told[c].added
           /\ told'[c].output = told[c].output
           /\ told'[c].closed = told[c].closed
    <3>1. told \in [WebClients -> ToldType]
      BY DEF Routed, Typed, TypeOK, WebAppServerTypeOK
    <3>2. CASE OnRemoteHostInfoReceived
      BY <3>1, <3>2 DEF OnRemoteHostInfoReceived, ToldType
    <3>3. CASE OnTerminalClientClosed
      BY <3>1, <3>3 DEF OnTerminalClientClosed, ToldType
    <3> QED BY <1>16, <3>2, <3>3
  <2>2. PagesSeeOwnTerminals'
    BY <1>1, <1>5, <2>1, ToldOwn
  <2> QED
    BY <1>6, <1>7, <1>8, <1>16, <2>2 DEF OnRemoteHostInfoReceived, OnTerminalClientClosed
<1>17. CASE OnTerminalCreated
  <2>1. OwnedBy(task.t, task.c) /\ RunsOn(task.t, task.h)
    BY <1>3, <1>17 DEF RoutedWebAppTask, OnTerminalCreated, TakeWA, Runs
  <2>2. RoutedSessions'
    BY <1>1, <1>17, <2>1
    DEF Routed, RoutedSessions, OnTerminalCreated, SessionAddTerminal, Insert, Assign,
        HasSession, OwnedBy, RunsOn, Created
  <2>3. PagesSeeOwnTerminals'
    <3>1. \A c \in WebClients :
             /\ \/ told'[c].added = told[c].added
                \/ c = task.c /\ told'[c].added = told[c].added \cup {task.t}
             /\ told'[c].output = told[c].output
             /\ told'[c].closed = told[c].closed
      <4>1. told \in [WebClients -> ToldType]
        BY DEF Routed, Typed, TypeOK, WebAppServerTypeOK
      <4>2. ASSUME NEW c \in WebClients
            PROVE  \/ told'[c] = told[c]
                   \/ c = task.c /\ told'[c] = [told[c] EXCEPT !.added = @ \cup {task.t}]
        BY <1>17, <4>1 DEF OnTerminalCreated
      <4>3. ASSUME NEW c \in WebClients
            PROVE  /\ \/ told'[c].added = told[c].added
                      \/ c = task.c /\ told'[c].added = told[c].added \cup {task.t}
                   /\ told'[c].output = told[c].output
                   /\ told'[c].closed = told[c].closed
        <5>1. told[c] \in ToldType
          BY <4>1
        <5>2. CASE told'[c] = told[c]
          BY <5>2
        <5>3. CASE c = task.c /\ told'[c] = [told[c] EXCEPT !.added = @ \cup {task.t}]
          BY <5>1, <5>3 DEF ToldType
        <5> QED BY <4>2, <5>2, <5>3
      <4> QED BY <4>3
    <3> QED BY <1>1, <1>5, <2>1, <3>1, ToldOwn
  <2> QED BY <1>6, <1>7, <1>17, <2>2, <2>3 DEF OnTerminalCreated
<1>18. CASE OnTerminalOutput \/ OnTerminalClosed
  <2>1. OwnedBy(task.t, task.c)
    BY <1>3, <1>18 DEF RoutedWebAppTask, OnTerminalOutput, OnTerminalClosed, TakeWA, Runs
  <2>2. \A c \in WebClients :
           /\ told'[c].added = told[c].added
           /\ \/ told'[c].output = told[c].output
              \/ c = task.c /\ told'[c].output = told[c].output \cup {task.t}
           /\ \/ told'[c].closed = told[c].closed
              \/ c = task.c /\ told'[c].closed = told[c].closed \cup {task.t}
    <3>1. told \in [WebClients -> ToldType]
      BY DEF Routed, Typed, TypeOK, WebAppServerTypeOK
    <3>2. ASSUME NEW c \in WebClients
          PROVE  \/ told'[c] = told[c]
                 \/ c = task.c /\ told'[c] = [told[c] EXCEPT !.output = @ \cup {task.t}]
                 \/ c = task.c /\ told'[c] = [told[c] EXCEPT !.closed = @ \cup {task.t}]
      <4>1. CASE OnTerminalOutput
        BY <3>1, <4>1 DEF OnTerminalOutput
      <4>2. CASE OnTerminalClosed
        BY <3>1, <4>2 DEF OnTerminalClosed
      <4> QED BY <1>18, <4>1, <4>2
    <3>3. ASSUME NEW c \in WebClients
          PROVE  /\ told'[c].added = told[c].added
                 /\ \/ told'[c].output = told[c].output
                    \/ c = task.c /\ told'[c].output = told[c].output \cup {task.t}
                 /\ \/ told'[c].closed = told[c].closed
                    \/ c = task.c /\ told'[c].closed = told[c].closed \cup {task.t}
      <4>1. told[c] \in ToldType
        BY <3>1
      <4>2. CASE told'[c] = told[c]
        BY <4>2
      <4>3. CASE c = task.c /\ told'[c] = [told[c] EXCEPT !.output = @ \cup {task.t}]
        BY <4>1, <4>3 DEF ToldType
      <4>4. CASE c = task.c /\ told'[c] = [told[c] EXCEPT !.closed = @ \cup {task.t}]
        BY <4>1, <4>4 DEF ToldType
      <4> QED BY <3>2, <4>2, <4>3, <4>4
    <3> QED BY <3>3
  <2>3. PagesSeeOwnTerminals'
    BY <1>1, <1>5, <2>1, <2>2, ToldOwn
  <2> QED BY <1>6, <1>7, <1>8, <1>18, <2>3 DEF OnTerminalOutput, OnTerminalClosed
<1> QED
  BY <1>11, <1>12, <1>13, <1>14, <1>15, <1>16, <1>17, <1>18 DEF WebAppLoop

\* A new terminal gets an owner and a host of its own; those of the others stay.
LEMMA CreateRouted == ASSUME Routed, CreateNewTerminal, TerminalOnly PROVE Parts'
<1> DEFINE task == Head(tsLoop)
<1>1. tsLoop # <<>> /\ tsLoop' = Tail(tsLoop) /\ task.fn = "CreateNewTerminal"
  BY DEF CreateNewTerminal, TakeTS, Runs
<1>2. task \in RoutedTerminalTask /\ tsLoop' \in Seq(RoutedTerminalTask)
  BY <1>1, HeadAndTail DEF Routed, RoutedLoops
<1>3. task.h \in Hosts /\ task.c \in WebClients
  BY <1>1, <1>2, TerminalTaskFields DEF RoutedTerminalTask
<1>4. UNCHANGED <<waLoop, sessions, told>>
  BY DEF CreateNewTerminal, TerminalOnly, waVars
<1>5. CASE UNCHANGED <<down, remoteHosts, idCounter, owner>>
  BY <1>2, <1>4, <1>5, Frame DEF Routed, RoutedLoops, RoutedDown, Parts
<1>6. ASSUME NEW c, NEW host, NEW new,
             c = task.c, host = task.h, new = NextId,
             idCounter' = NextId,
             AddTerminal(host, new, c),
             owner' = Append(owner, [c |-> c, h |-> host]),
             SendDown(host, [type |-> "CREATE_TERMINAL", t |-> new])
      PROVE  Parts'
  <2>1. /\ owner \in Seq([c : WebClients, h : Hosts])
        /\ [c |-> c, h |-> host] \in [c : WebClients, h : Hosts]
        /\ idCounter = Len(owner)
    BY <1>3, <1>6 DEF Routed, Typed, TypeOK, TerminalServerTypeOK
  <2>2. new = Len(owner) + 1 /\ new \in TerminalId
    BY <1>6, <2>1 DEF NextId, TerminalId
  <2>3. /\ Len(owner') = Len(owner) + 1
        /\ owner'[new] = [c |-> c, h |-> host]
        /\ \A t \in 1 .. Len(owner) : owner'[t] = owner[t]
    BY <1>6, <2>1, <2>2
  <2>4. (Len(owner) = idCounter)'
    BY <1>6, <2>1, <2>3 DEF NextId
  <2>5. ASSUME NEW t, Created(t) PROVE Created(t)' /\ owner'[t] = owner[t]
    BY <2>1, <2>3, <2>5 DEF Created
  <2>6. /\ \A t, d : OwnedBy(t, d) => OwnedBy(t, d)'
        /\ \A t, h : RunsOn(t, h) => RunsOn(t, h)'
    BY <2>5 DEF OwnedBy, RunsOn
  <2>7. OwnedBy(new, c)' /\ RunsOn(new, host)'
    BY <2>1, <2>2, <2>3 DEF OwnedBy, RunsOn, Created
  <2>8. RoutedSessions' /\ PagesSeeOwnTerminals'
    BY <1>4, <2>6 DEF Routed, RoutedSessions, PagesSeeOwnTerminals
  <2>9. RoutedHosts'
    BY <1>6, <2>6, <2>7
    DEF Routed, RoutedHosts, AddTerminal, Assign, Insert, Entry, EmptyMap
  <2>10. RoutedLoops'
    <3>1. RoutedWebAppTask \subseteq RoutedWebAppTask'
      BY <2>6 DEF RoutedWebAppTask
    <3>2. RoutedTerminalTask \subseteq RoutedTerminalTask'
      BY <2>6 DEF RoutedTerminalTask
    <3> QED BY <1>2, <1>4, <3>1, <3>2, SeqMonotone DEF Routed, RoutedLoops
  <2>11. RoutedDown'
    <3>1. ASSUME NEW h \in Hosts PROVE down[h] \in Seq(RoutedDownMsg(h)')
      <4>1. RoutedDownMsg(h) \subseteq RoutedDownMsg(h)'
        BY <2>6 DEF RoutedDownMsg
      <4> QED BY <4>1, SeqMonotone DEF Routed, RoutedDown
    <3> DEFINE msg == [type |-> "CREATE_TERMINAL", t |-> new]
    <3>2. msg \in RoutedDownMsg(host)'
      <4>1. msg \in DownMsg
        BY <2>2, SentMessages
      <4> QED BY <2>7, <4>1 DEF RoutedDownMsg
    <3>3. SendDown(host, msg) /\ down \in [Hosts -> Seq(DownMsg)]
      BY <1>6 DEF Routed, Typed, TypeOK, NetworkTypeOK
    <3> HIDE DEF msg
    <3>4. ASSUME NEW h \in Hosts
          PROVE  down'[h] = down[h] \/ (h = host /\ down'[h] = Append(down[h], msg))
      BY <3>3 DEF SendDown
    <3>5. ASSUME NEW h \in Hosts PROVE down'[h] \in Seq(RoutedDownMsg(h)')
      BY <3>1, <3>2, <3>4, AppendType
    <3> QED BY <3>5 DEF RoutedDown
  <2> QED BY <2>4, <2>8, <2>9, <2>10, <2>11 DEF Parts
<1> QED
  BY <1>5, <1>6 DEF CreateNewTerminal

\* What is sent to a host about a terminal that runs there keeps its queue routed.
LEMMA SendDownRouted ==
    ASSUME Routed, NEW host \in Hosts, NEW msg \in RoutedDownMsg(host), SendDown(host, msg),
           NEW h \in Hosts
    PROVE  down'[h] \in Seq(RoutedDownMsg(h))
<1>1. down[h] \in Seq(RoutedDownMsg(h))
  BY DEF Routed, RoutedDown
<1>2. down'[h] = down[h] \/ (h = host /\ down'[h] = Append(down[h], msg))
  BY DEF SendDown, Routed, Typed, TypeOK, NetworkTypeOK
<1> QED BY <1>1, <1>2, AppendType

\* The other tasks of TerminalServer's loop: commands are routed tasks, reports
\* are filled from _remote_hosts.
LEMMA TerminalLoopRouted == ASSUME Routed, TerminalLoop PROVE Parts'
<1> DEFINE task == Head(tsLoop)
<1>1. tsLoop # <<>> /\ tsLoop' = Tail(tsLoop)
  BY DEF TerminalLoop, CreateNewTerminal, ResizeTerminal, DeleteTerminal,
     SendKeyEvent, Command, OnClientClosed, HandleTerminalCreated, HandleTerminalRead,
     HandleTerminalEnd, Report, TakeTS, Runs
<1>2. task \in RoutedTerminalTask /\ tsLoop' \in Seq(RoutedTerminalTask)
  BY <1>1, HeadAndTail DEF Routed, RoutedLoops
<1>3. task \in TerminalTask /\ task.h \in Hosts
  BY <1>2, TerminalTaskFields DEF RoutedTerminalTask
<1>4. UNCHANGED <<sessions, told>>
  BY DEF TerminalLoop, TerminalOnly, waVars
<1>5. ASSUME UNCHANGED <<idCounter, owner>>, RoutedHosts',
             waLoop' \in Seq(RoutedWebAppTask),
             \A h \in Hosts : down'[h] \in Seq(RoutedDownMsg(h))
      PROVE  Parts'
  BY <1>2, <1>4, <1>5, Frame DEF Parts
<1>6. waLoop \in Seq(RoutedWebAppTask) /\ \A h \in Hosts : down[h] \in Seq(RoutedDownMsg(h))
  BY DEF Routed, RoutedLoops, RoutedDown
<1>7. ASSUME NEW fn \in {"ResizeTerminal", "DeleteTerminal", "SendKeyEvent"},
             NEW type \in {"RESIZE_TERMINAL", "DELETE_TERMINAL", "ON_TERMINAL_WRITE"},
             Command(fn, type)
      PROVE  Parts'
  <2>1. task.t \in TerminalId /\ RunsOn(task.t, task.h)
    BY <1>2, <1>3, <1>7, TerminalTaskFields DEF RoutedTerminalTask, Command, TakeTS, Runs
  <2>2. [type |-> type, t |-> task.t] \in RoutedDownMsg(task.h)
    <3>1. [type |-> type, t |-> task.t] \in DownMsg
      BY <1>7, <2>1, SentMessages
    <3> QED BY <2>1, <3>1 DEF RoutedDownMsg
  <2>3. down' = down \/ SendDown(task.h, [type |-> type, t |-> task.t])
    BY <1>7 DEF Command
  <2>4. \A h \in Hosts : down'[h] \in Seq(RoutedDownMsg(h))
    BY <1>3, <1>6, <2>2, <2>3, SendDownRouted
  <2>5. UNCHANGED <<waLoop, remoteHosts, idCounter, owner>>
    BY <1>7 DEF Command, tsVars
  <2> QED BY <1>5, <1>6, <2>4, <2>5, Frame
<1>8. CASE OnClientClosed
  <2>1. [fn |-> "OnTerminalClientClosed", h |-> task.h] \in RoutedWebAppTask
    BY <1>3, PostedTasks DEF RoutedWebAppTask
  <2>2. waLoop' \in Seq(RoutedWebAppTask)
    BY <1>6, <1>8, <2>1, AppendType DEF OnClientClosed
  <2>3. UNCHANGED <<down, idCounter, owner>>
    BY <1>8 DEF OnClientClosed
  <2>4. RoutedHosts'
    BY <1>8, <2>3 DEF OnClientClosed, Routed, RoutedHosts, Erase, Restrict, OwnedBy, RunsOn,
       Created
  <2> QED BY <1>5, <1>6, <2>2, <2>3, <2>4
<1>9. ASSUME NEW fn, NEW k, Report(fn, k),
             HasAppClient(task.h, task.t) => k \in RoutedWebAppTask
      PROVE  Parts'
  <2>1. waLoop' \in Seq(RoutedWebAppTask)
    <3>1. waLoop' = waLoop \/ (HasAppClient(task.h, task.t) /\ waLoop' = Append(waLoop, k))
      BY <1>9 DEF Report
    <3> QED BY <1>6, <1>9, <3>1, AppendType
  <2>2. UNCHANGED <<down, remoteHosts, idCounter, owner>>
    BY <1>9 DEF Report, tsVars
  <2> QED BY <1>5, <1>6, <2>1, <2>2, Frame
<1>10. HasAppClient(task.h, task.t) =>
          /\ GetAppClinetId(task.h, task.t) \in WebClients
          /\ OwnedBy(task.t, GetAppClinetId(task.h, task.t))
          /\ RunsOn(task.t, task.h)
  BY DEF Routed, Typed, TypeOK, TerminalServerTypeOK, RoutedHosts, HasAppClient, GetAppClinetId
<1>11. CASE HandleTerminalCreated
  <2> DEFINE k == [fn |-> "OnTerminalCreated", c |-> GetAppClinetId(task.h, task.t),
                   t |-> task.t, h |-> task.h, ok |-> task.ok]
  <2>1. task.t \in TerminalId /\ task.ok \in BOOLEAN
    BY <1>3, <1>11, TerminalTaskFields DEF HandleTerminalCreated, Report, TakeTS, Runs
  <2>2. HasAppClient(task.h, task.t) => k \in RoutedWebAppTask
    <3>1. HasAppClient(task.h, task.t) => k \in WebAppTask
      BY <1>3, <1>10, <2>1, PostedTasks
    <3> QED BY <1>10, <3>1 DEF RoutedWebAppTask
  <2>3. Report("HandleTerminalCreated", k)
    BY <1>11 DEF HandleTerminalCreated
  <2> QED BY <1>9, <2>2, <2>3
<1>12. CASE HandleTerminalRead
  <2> DEFINE k == [fn |-> "OnTerminalOutput", c |-> GetAppClinetId(task.h, task.t),
                   t |-> task.t]
  <2>1. task.t \in TerminalId
    BY <1>3, <1>12, TerminalTaskFields DEF HandleTerminalRead, Report, TakeTS, Runs
  <2>2. HasAppClient(task.h, task.t) => k \in RoutedWebAppTask
    <3>1. HasAppClient(task.h, task.t) => k \in WebAppTask
      BY <1>3, <1>10, <2>1, PostedTasks
    <3> QED BY <1>10, <3>1 DEF RoutedWebAppTask
  <2>3. Report("HandleTerminalRead", k)
    BY <1>12 DEF HandleTerminalRead
  <2> QED BY <1>9, <2>2, <2>3
<1>13. CASE HandleTerminalEnd
  <2> DEFINE k == [fn |-> "OnTerminalClosed", c |-> GetAppClinetId(task.h, task.t),
                   t |-> task.t, h |-> task.h]
  <2>1. task.t \in TerminalId
    BY <1>3, <1>13, TerminalTaskFields DEF HandleTerminalEnd, Report, TakeTS, Runs
  <2>2. HasAppClient(task.h, task.t) => k \in RoutedWebAppTask
    <3>1. HasAppClient(task.h, task.t) => k \in WebAppTask
      BY <1>3, <1>10, <2>1, PostedTasks
    <3> QED BY <1>10, <3>1 DEF RoutedWebAppTask
  <2>3. Report("HandleTerminalEnd", k)
    BY <1>13 DEF HandleTerminalEnd
  <2> QED BY <1>9, <2>2, <2>3
<1> QED
  BY <1>7, <1>8, <1>11, <1>12, <1>13, CreateRouted
  DEF TerminalLoop, ResizeTerminal, DeleteTerminal, SendKeyEvent

\* The connection thread of the server only appends tasks that are filled later,
\* and acknowledgements.
LEMMA ServerConnectionRouted == ASSUME Routed, ServerConnection PROVE Parts'
<1>1. UNCHANGED <<sessions, told, remoteHosts, idCounter, owner>>
  BY DEF ServerConnection, TerminalOnly, ServerOnClientRead, ServerOnClientClosed,
     ServerOnClientUnresponsive, waVars, tsVars
<1>2. ASSUME waLoop' \in Seq(RoutedWebAppTask), tsLoop' \in Seq(RoutedTerminalTask),
             \A h \in Hosts : down'[h] \in Seq(RoutedDownMsg(h))
      PROVE  Parts'
  BY <1>1, <1>2, Frame DEF Parts
<1>3. /\ waLoop \in Seq(RoutedWebAppTask) /\ tsLoop \in Seq(RoutedTerminalTask)
      /\ \A h \in Hosts : down[h] \in Seq(RoutedDownMsg(h))
  BY DEF Routed, RoutedLoops, RoutedDown
<1>4. ASSUME NEW h \in Hosts, ServerOnClientRead(h)
      PROVE  Parts'
  <2> DEFINE msg == Head(up[h])
             info == [fn |-> "OnRemoteHostInfoReceived", h |-> h]
             ack == [type |-> "ON_TERMINAL_READ_ACK"]
  <2>1. up[h] \in Seq(UpMsg) /\ up[h] # <<>>
    BY <1>4 DEF ServerOnClientRead, Routed, Typed, TypeOK, NetworkTypeOK
  <2>2. msg \in UpMsg
    BY <2>1, HeadAndTail
  <2>3. info \in RoutedWebAppTask /\ ack \in RoutedDownMsg(h)
    <3>1. info \in WebAppTask /\ ack \in DownMsg
      BY PostedTasks, SentMessages
    <3> QED BY <3>1 DEF RoutedWebAppTask, RoutedDownMsg
  <2>4. msg.type # "CLIENT_INFO" => TaskOf(h, msg) \in RoutedTerminalTask
    <3>1. msg.type # "CLIENT_INFO" => TaskOf(h, msg) \in TerminalTask
      BY <2>2, MessageFields, PostedTasks DEF TaskOf
    <3>2. msg.type # "CLIENT_INFO" =>
             TaskOf(h, msg).fn \notin {"ResizeTerminal", "DeleteTerminal", "SendKeyEvent"}
      BY <2>2, MessageFields DEF TaskOf
    <3> QED BY <3>1, <3>2 DEF RoutedTerminalTask
  <2>5. /\ waLoop' = Append(waLoop, info) \/ waLoop' = waLoop
        /\ \/ msg.type # "CLIENT_INFO" /\ tsLoop' = Append(tsLoop, TaskOf(h, msg))
           \/ tsLoop' = tsLoop
        /\ down' = down \/ SendDown(h, ack)
    BY <1>4 DEF ServerOnClientRead
  <2>6. waLoop' \in Seq(RoutedWebAppTask)
    BY <1>3, <2>3, <2>5, AppendType
  <2>7. tsLoop' \in Seq(RoutedTerminalTask)
    BY <1>3, <2>4, <2>5, AppendType
  <2>8. \A d \in Hosts : down'[d] \in Seq(RoutedDownMsg(d))
    BY <1>3, <2>3, <2>5, SendDownRouted
  <2> QED BY <1>2, <2>6, <2>7, <2>8
<1>5. ASSUME NEW h \in Hosts, ServerOnClientClosed(h) \/ ServerOnClientUnresponsive(h)
      PROVE  Parts'
  <2> DEFINE k == [fn |-> "OnClientClosed", h |-> h]
  <2>1. k \in RoutedTerminalTask
    BY PostedTasks DEF RoutedTerminalTask
  <2>2. tsLoop' = Append(tsLoop, k) /\ UNCHANGED <<waLoop, down>>
    BY <1>5 DEF ServerOnClientClosed, ServerOnClientUnresponsive
  <2>3. tsLoop' \in Seq(RoutedTerminalTask)
    BY <1>3, <2>1, <2>2, AppendType
  <2> QED BY <1>2, <1>3, <2>2, <2>3
<1> QED
  BY <1>4, <1>5 DEF ServerConnection

\* The terminal clients only take messages from the queues of commands.
LEMMA ClientRouted ==
    ASSUME Routed, ClientConnection \/ (\E m \in Machines : ClientLoop(m)) \/ Shells
    PROVE  Parts'
<1>1. UNCHANGED <<waLoop, tsLoop, sessions, told, remoteHosts, idCounter, owner>>
  <2>1. UNCHANGED <<waVars, tsVars>>
    BY DEF ClientConnection, ClientLoop, Shells, ClientOnly
  <2>2. UNCHANGED <<waLoop, tsLoop>>
    BY DEF ClientConnection, ClientLoop, Shells, ClientOnClientConnected, ClientOnClientRead,
       HandleDisconnected, HandleCreateTerminal, SendCreated, HandleDeleteTerminal,
       HandleResizeTerminal, HandleTerminalWrite, DeleteTerminals, EnableReadFromTerminals,
       OnTerminalEnd, OnTerminalRead, ShellExit, netVars
  <2> QED BY <2>1, <2>2 DEF waVars, tsVars
<1>2. ASSUME NEW h \in Hosts
      PROVE  \/ down'[h] = down[h]
             \/ down[h] # <<>> /\ down'[h] = Tail(down[h])
             \/ down'[h] = <<>>
  <2>1. down \in [Hosts -> Seq(DownMsg)]
    BY DEF Routed, Typed, TypeOK, NetworkTypeOK
  <2>2. CASE ClientConnection
    BY <2>1, <2>2 DEF ClientConnection, ClientOnClientConnected, ClientOnClientRead,
       HandleDisconnected
  <2>3. CASE (\E m \in Machines : ClientLoop(m)) \/ Shells
    BY <2>1, <2>3
    DEF ClientLoop, Shells, HandleCreateTerminal, SendCreated, HandleDeleteTerminal,
       HandleResizeTerminal, HandleTerminalWrite, DeleteTerminals, EnableReadFromTerminals,
       OnTerminalEnd, OnTerminalRead, ShellExit, netVars
  <2> QED BY <2>2, <2>3
<1>3. ASSUME NEW h \in Hosts PROVE down'[h] \in Seq(RoutedDownMsg(h))
  <2>1. down[h] \in Seq(RoutedDownMsg(h))
    BY DEF Routed, RoutedDown
  <2>2. CASE down[h] # <<>> /\ down'[h] = Tail(down[h])
    BY <2>1, <2>2, HeadAndTail
  <2>3. <<>> \in Seq(RoutedDownMsg(h))
    OBVIOUS
  <2> QED BY <1>2, <2>1, <2>2, <2>3
<1> QED
  BY <1>1, <1>3, Frame DEF Routed, RoutedLoops, Parts
-----------------------------------------------------------------------------
LEMMA InitRouted == ASSUME Init PROVE Routed
<1> USE DEF Init, NetworkInit, WebAppServerInit, SessionsInit, TerminalServerInit, EmptyMap
<1>1. Typed
  BY InitTyped
<1>2. Len(owner) = idCounter /\ RoutedSessions /\ RoutedHosts
  BY DEF RoutedSessions, RoutedHosts
<1>3. RoutedLoops
  BY DEF RoutedLoops
<1>4. RoutedDown
  BY DEF RoutedDown
<1>5. PagesSeeOwnTerminals
  BY DEF PagesSeeOwnTerminals
<1> QED
  BY <1>1, <1>2, <1>3, <1>4, <1>5 DEF Routed

LEMMA NextRouted == ASSUME Routed, [Next]_vars PROVE Routed'
<1>1. Typed'
  BY NextTyped DEF Routed
<1>2. ASSUME UNCHANGED vars PROVE Parts'
  <2>1. UNCHANGED <<waLoop, tsLoop, down, sessions, told, remoteHosts, idCounter, owner>>
    BY <1>2 DEF vars, netVars, waVars, tsVars
  <2> QED BY <2>1, Frame DEF Parts, Routed, RoutedLoops, RoutedDown
<1>3. Parts'
  BY <1>2, PagesRouted, WebAppLoopRouted, TerminalLoopRouted, ServerConnectionRouted,
     ClientRouted DEF Next
<1> QED
  BY <1>1, <1>3 DEF Routed, Parts

\* The routed queues give the form RoutesAgree is stated in.
LEMMA RoutedAgrees == ASSUME Routed PROVE RoutesAgree
<1>1. ASSUME NEW h \in Hosts, NEW i \in DOMAIN down[h], down[h][i].type # "ON_TERMINAL_READ_ACK"
      PROVE  RunsOn(down[h][i].t, h)
  <2>1. down[h][i] \in RoutedDownMsg(h)
    BY DEF Routed, RoutedDown
  <2> QED BY <1>1, <2>1 DEF RoutedDownMsg
<1> QED
  BY <1>1 DEF RoutesAgree, Routed, RoutedSessions, RoutedHosts

\* A page is only ever told of terminals it asked for: through a reconnection, a
\* report that comes late or a terminal deleted meanwhile, for any number of
\* pages, hosts and requests.
THEOREM Ownership == Spec => []PagesSeeOwnTerminals
<1>1. Init => Routed
  BY InitRouted
<1>2. Routed /\ [Next]_vars => Routed'
  BY NextRouted
<1>3. Routed => PagesSeeOwnTerminals
  BY DEF Routed
<1> QED
  BY <1>1, <1>2, <1>3, PTL DEF Spec

\* The maps of the two halves of the server agree with each other, and no
\* command is ever on its way to a host the terminal was not created on.
THEOREM Routing == Spec => []RoutesAgree
<1>1. Init => Routed
  BY InitRouted
<1>2. Routed /\ [Next]_vars => Routed'
  BY NextRouted
<1>3. Routed => RoutesAgree
  BY RoutedAgrees
<1> QED
  BY <1>1, <1>2, <1>3, PTL DEF Spec
-----------------------------------------------------------------------------
(***************************************************************************)
(* Hosts that come and go: what TerminalServer keeps of a host that is     *)
(* gone is always about to be erased, and the host lists of the pages show *)
(* who is there, although a host is announced by one thread and taken away *)
(* by two others.                                                          *)
(***************************************************************************)
\* A task in a queue stays there when others are appended to the queue, and
\* when another one is taken from its head.
LEMMA StaysQueued ==
    ASSUME NEW S, NEW q \in Seq(S), NEW r \in Seq(S), NEW fn, NEW h, Queued(q, fn, h)
    PROVE  Queued(q \o r, fn, h)
<1>1. PICK i \in DOMAIN q : q[i].fn = fn /\ q[i].h = h
  BY DEF Queued
<1>2. i \in DOMAIN (q \o r) /\ (q \o r)[i] = q[i]
  OBVIOUS
<1> QED BY <1>1, <1>2 DEF Queued

LEMMA StaysQueuedAppend ==
    ASSUME NEW S, NEW q \in Seq(S), NEW k \in S, NEW fn, NEW h
    PROVE  /\ Queued(q, fn, h) => Queued(Append(q, k), fn, h)
           /\ k.fn = fn /\ k.h = h => Queued(Append(q, k), fn, h)
<1>1. \A i \in DOMAIN q : i \in DOMAIN Append(q, k) /\ Append(q, k)[i] = q[i]
  OBVIOUS
<1>2. Len(q) + 1 \in DOMAIN Append(q, k) /\ Append(q, k)[Len(q) + 1] = k
  OBVIOUS
<1> QED BY <1>1, <1>2 DEF Queued

LEMMA StaysQueuedTail ==
    ASSUME NEW S, NEW q \in Seq(S), q # <<>>, NEW fn, NEW h, Queued(q, fn, h),
           ~(Head(q).fn = fn /\ Head(q).h = h)
    PROVE  Queued(Tail(q), fn, h)
<1>1. PICK i \in DOMAIN q : q[i].fn = fn /\ q[i].h = h
  BY DEF Queued
<1>2. i # 1
  BY <1>1
<1>3. i - 1 \in DOMAIN Tail(q) /\ Tail(q)[i - 1] = q[i]
  BY <1>2
<1> QED BY <1>1, <1>3 DEF Queued
-----------------------------------------------------------------------------
\* What the invariant says of one host.
Kept(h) == GetClient(h) \/ Queued(tsLoop, "OnClientClosed", h)

\* What WebAppServer may post to the loop of TerminalServer: commands, and the
\* request for a terminal it is handling.
Posts(r) ==
    \A i \in DOMAIN r :
        \/ r[i].fn \in {"ResizeTerminal", "DeleteTerminal", "SendKeyEvent"}
        \/ /\ r[i].fn = "CreateNewTerminal"
           /\ Head(waLoop).fn = "OnTerminalAddReq"
           /\ r[i].h = Head(waLoop).h /\ r[i].c = Head(waLoop).c

\* WebAppServer posts to the loop of TerminalServer, it takes nothing from it.
LEMMA WebAppLoopPosts ==
    ASSUME Typed, WebAppLoop
    PROVE  \E r \in Seq(TerminalTask) : tsLoop' = tsLoop \o r /\ Posts(r)
<1>1. tsLoop \in Seq(TerminalTask) /\ tsLoop' \in Seq(TerminalTask)
  BY WebAppLoopType DEF Typed, TypeOK, NetworkTypeOK
<1>2. CASE tsLoop' = tsLoop
  <2>1. tsLoop' = tsLoop \o <<>> /\ <<>> \in Seq(TerminalTask) /\ DOMAIN <<>> = {}
    BY <1>1, <1>2
  <2> QED BY <2>1 DEF Posts
<1>3. ASSUME NEW k, tsLoop' = Append(tsLoop, k),
             \/ k.fn \in {"ResizeTerminal", "DeleteTerminal", "SendKeyEvent"}
             \/ /\ k.fn = "CreateNewTerminal"
                /\ Head(waLoop).fn = "OnTerminalAddReq"
                /\ k.h = Head(waLoop).h /\ k.c = Head(waLoop).c
      PROVE  \E r \in Seq(TerminalTask) : tsLoop' = tsLoop \o r /\ Posts(r)
  <2>1. k \in TerminalTask
    <3>1. Len(tsLoop) + 1 \in DOMAIN tsLoop' /\ tsLoop'[Len(tsLoop) + 1] = k
      BY <1>1, <1>3
    <3> QED BY <1>1, <3>1
  <2>2. <<k>> \in Seq(TerminalTask) /\ DOMAIN <<k>> = {1} /\ <<k>>[1] = k
    BY <2>1
  <2>3. tsLoop' = tsLoop \o <<k>>
    BY <1>1, <1>3, <2>1
  <2>4. Posts(<<k>>)
    BY <1>3, <2>2 DEF Posts
  <2> QED BY <2>2, <2>3, <2>4
<1>4. CASE RemoveClient
  <2>1. CASE ~HasSession(Head(waLoop).c)
    BY <1>2, <1>4, <2>1 DEF RemoveClient
  <2>2. CASE HasSession(Head(waLoop).c)
    <3> DEFINE c == Head(waLoop).c
    <3>1. PICK ts \in InOrder(DOMAIN sessions[c]) :
             tsLoop' = tsLoop \o [i \in DOMAIN ts |->
                          [fn |-> "DeleteTerminal", h |-> sessions[c][ts[i]], t |-> ts[i]]]
      BY <1>4, <2>2 DEF RemoveClient
    <3>2. Cardinality(DOMAIN sessions[c]) \in Nat
      BY <2>2, FS_CardinalityType DEF Typed, SessionsFinite, HasSession
    <3>3. \A i \in DOMAIN ts : ts[i] \in DOMAIN sessions[c]
      BY DEF InOrder
    <3>4. \A i \in DOMAIN ts :
             [fn |-> "DeleteTerminal", h |-> sessions[c][ts[i]], t |-> ts[i]] \in TerminalTask
      BY <2>2, <3>3 DEF Typed, TypeOK, WebAppServerTypeOK, SessionsTypeOK, HasSession, TerminalTask
    <3>5. [i \in DOMAIN ts |-> [fn |-> "DeleteTerminal", h |-> sessions[c][ts[i]],
                                t |-> ts[i]]] \in Seq(TerminalTask)
      BY <3>2, <3>4 DEF InOrder
    <3>6. Posts([i \in DOMAIN ts |-> [fn |-> "DeleteTerminal", h |-> sessions[c][ts[i]],
                                      t |-> ts[i]]])
      BY DEF Posts
    <3> QED BY <3>1, <3>5, <3>6
  <2> QED BY <2>1, <2>2
<1>5. CASE OnTerminalAddReq
  BY <1>3, <1>5 DEF OnTerminalAddReq, PostTS, TakeWA, Runs
<1>6. ASSUME NEW c, NEW t, NEW fn \in {"ResizeTerminal", "DeleteTerminal", "SendKeyEvent"},
             OwnedRequest(c, t, fn)
      PROVE  \E r \in Seq(TerminalTask) : tsLoop' = tsLoop \o r /\ Posts(r)
  <2>1. CASE tsLoop' = tsLoop
    BY <1>2, <2>1
  <2>2. CASE tsLoop' = Append(tsLoop, [fn |-> fn, h |-> GetRemoteHostByTerminal(c, t), t |-> t])
    BY <1>3, <2>2
  <2> QED BY <1>6, <2>1, <2>2 DEF OwnedRequest, PostTS
<1>7. CASE OnTerminalResizeReq \/ OnTerminalKeyEvent \/ OnTerminalDelReq
  BY <1>6, <1>7 DEF OnTerminalResizeReq, OnTerminalKeyEvent, OnTerminalDelReq
<1>8. CASE \/ AddClient \/ OnRemoteHostInfoReceived \/ OnTerminalClientClosed
           \/ OnTerminalCreated \/ OnTerminalOutput \/ OnTerminalClosed
  BY <1>2, <1>8 DEF AddClient, OnRemoteHostInfoReceived, OnTerminalClientClosed,
     OnTerminalCreated, OnTerminalOutput, OnTerminalClosed
<1> QED
  BY <1>4, <1>5, <1>7, <1>8 DEF WebAppLoop

\* Tasks of the loop: only OnClientClosed takes the last reason to keep a host,
\* and it erases the host; a host is only added while it is connected.
LEMMA TerminalLoopKeeps ==
    ASSUME Typed, NoStaleRemoteHost, TerminalLoop, NEW h \in DOMAIN remoteHosts'
    PROVE  Kept(h)'
<1> DEFINE task == Head(tsLoop)
<1>1. tsLoop \in Seq(TerminalTask) /\ tsLoop # <<>> /\ tsLoop' = Tail(tsLoop)
  BY DEF Typed, TypeOK, NetworkTypeOK, TerminalLoop, CreateNewTerminal, ResizeTerminal,
     DeleteTerminal, SendKeyEvent, Command, OnClientClosed, HandleTerminalCreated,
     HandleTerminalRead, HandleTerminalEnd, Report, TakeTS, Runs
<1>2. srvEnd' = srvEnd
  BY DEF TerminalLoop, CreateNewTerminal, ResizeTerminal, DeleteTerminal, SendKeyEvent,
     Command, OnClientClosed, HandleTerminalCreated, HandleTerminalRead, HandleTerminalEnd,
     Report
<1>3. ASSUME Kept(h), ~(task.fn = "OnClientClosed" /\ task.h = h)
      PROVE  Kept(h)'
  <2>1. CASE GetClient(h)
    BY <1>2, <2>1 DEF Kept, GetClient
  <2>2. CASE Queued(tsLoop, "OnClientClosed", h)
    <3>1. Queued(tsLoop', "OnClientClosed", h)
      BY <1>1, <1>3, <2>2, StaysQueuedTail
    <3> QED BY <3>1 DEF Kept, Queued
  <2> QED BY <1>3, <2>1, <2>2 DEF Kept
<1>4. CASE CreateNewTerminal
  <2>1. task.fn = "CreateNewTerminal"
    BY <1>4 DEF CreateNewTerminal, TakeTS, Runs
  <2>2. h \in DOMAIN remoteHosts \/ GetClient(h)
    BY <1>4 DEF CreateNewTerminal, AddTerminal, Assign
  <2> QED BY <1>3, <2>1, <2>2 DEF NoStaleRemoteHost, Kept
<1>5. CASE OnClientClosed
  <2>1. h \in DOMAIN remoteHosts /\ h # task.h
    BY <1>5 DEF OnClientClosed, Erase, Restrict
  <2> QED BY <1>3, <2>1 DEF NoStaleRemoteHost, Kept
<1>6. CASE \/ ResizeTerminal \/ DeleteTerminal \/ SendKeyEvent
           \/ HandleTerminalCreated \/ HandleTerminalRead \/ HandleTerminalEnd
  <2>1. remoteHosts' = remoteHosts /\ task.fn # "OnClientClosed"
    BY <1>6 DEF ResizeTerminal, DeleteTerminal, SendKeyEvent, Command,
       HandleTerminalCreated, HandleTerminalRead, HandleTerminalEnd, Report, TakeTS, Runs,
       tsVars
  <2> QED BY <1>3, <2>1 DEF NoStaleRemoteHost, Kept
<1> QED
  BY <1>4, <1>5, <1>6 DEF TerminalLoop

\* The connection thread takes the connection away, and posts OnClientClosed.
LEMMA ServerConnectionKeeps ==
    ASSUME Typed, ServerConnection, NEW h \in Hosts, Kept(h)
    PROVE  Kept(h)'
<1>1. tsLoop \in Seq(TerminalTask) /\ srvEnd \in [Hosts -> EndState]
  BY DEF Typed, TypeOK, NetworkTypeOK
<1>2. ASSUME NEW k \in TerminalTask, tsLoop' = Append(tsLoop, k),
             srvEnd'[h] = srvEnd[h] \/ (k.fn = "OnClientClosed" /\ k.h = h)
      PROVE  Kept(h)'
  <2>1. /\ Queued(tsLoop, "OnClientClosed", h) => Queued(tsLoop', "OnClientClosed", h)
        /\ k.fn = "OnClientClosed" /\ k.h = h => Queued(tsLoop', "OnClientClosed", h)
    BY <1>1, <1>2, StaysQueuedAppend
  <2>2. Queued(tsLoop, "OnClientClosed", h)' = Queued(tsLoop', "OnClientClosed", h)
    BY DEF Queued
  <2> QED BY <1>2, <2>1, <2>2 DEF Kept, GetClient
<1>3. ASSUME NEW d \in Hosts, ServerOnClientRead(d)
      PROVE  Kept(h)'
  <2> DEFINE msg == Head(up[d])
  <2>1. srvEnd' = srvEnd
    BY <1>3 DEF ServerOnClientRead
  <2>2. CASE tsLoop' = tsLoop
    BY <2>1, <2>2 DEF Kept, GetClient, Queued
  <2>3. CASE msg.type # "CLIENT_INFO" /\ tsLoop' = Append(tsLoop, TaskOf(d, msg))
    <3>1. msg \in UpMsg
      <4>1. up[d] \in Seq(UpMsg) /\ up[d] # <<>>
        BY <1>3 DEF ServerOnClientRead, Typed, TypeOK, NetworkTypeOK
      <4> QED BY <4>1, HeadAndTail
    <3>2. TaskOf(d, msg) \in TerminalTask
      BY <2>3, <3>1, MessageFields, PostedTasks DEF TaskOf
    <3> QED BY <1>2, <2>1, <2>3, <3>2
  <2> QED BY <1>3, <2>2, <2>3 DEF ServerOnClientRead
<1>4. ASSUME NEW d \in Hosts, ServerOnClientClosed(d) \/ ServerOnClientUnresponsive(d)
      PROVE  Kept(h)'
  <2> DEFINE k == [fn |-> "OnClientClosed", h |-> d]
  <2>1. k \in TerminalTask
    BY PostedTasks
  <2>2. tsLoop' = Append(tsLoop, k)
    BY <1>4 DEF ServerOnClientClosed, ServerOnClientUnresponsive
  <2>3. srvEnd'[h] = srvEnd[h] \/ h = d
    BY <1>1, <1>4 DEF ServerOnClientClosed, ServerOnClientUnresponsive
  <2> QED BY <1>2, <2>1, <2>2, <2>3
<1> QED
  BY <1>3, <1>4 DEF ServerConnection

\* The other threads neither close connections on the server's side nor take
\* tasks from its loop.
LEMMA OthersKeep ==
    ASSUME Typed, NEW h \in Hosts, Kept(h),
           \/ Pages \/ WebAppLoop \/ ClientConnection
           \/ (\E m \in Machines : ClientLoop(m)) \/ Shells
    PROVE  Kept(h)'
<1>1. tsLoop \in Seq(TerminalTask) /\ srvEnd \in [Hosts -> EndState]
  BY DEF Typed, TypeOK, NetworkTypeOK
<1>2. CASE WebAppLoop
  <2>1. srvEnd' = srvEnd
    BY <1>2 DEF WebAppLoop, AddClient, RemoveClient, OnTerminalAddReq,
       OnTerminalResizeReq, OnTerminalDelReq, OnTerminalKeyEvent, OnRemoteHostInfoReceived,
       OnTerminalClientClosed, OnTerminalCreated, OnTerminalOutput, OnTerminalClosed
  <2>2. PICK r \in Seq(TerminalTask) : tsLoop' = tsLoop \o r
    BY <1>2, WebAppLoopPosts
  <2>3. Queued(tsLoop, "OnClientClosed", h) => Queued(tsLoop', "OnClientClosed", h)
    BY <1>1, <2>2, StaysQueued
  <2>4. Queued(tsLoop, "OnClientClosed", h)' = Queued(tsLoop', "OnClientClosed", h)
    BY DEF Queued
  <2> QED BY <2>1, <2>3, <2>4 DEF Kept, GetClient
<1>3. CASE Pages \/ ClientConnection \/ (\E m \in Machines : ClientLoop(m)) \/ Shells
  <2>1. tsLoop' = tsLoop
    BY <1>3 DEF Pages, OnWsClientConnected, OnWsClientMessage, OnWsClientClosed,
       ClientConnection, ClientLoop, Shells, ClientOnClientConnected, ClientOnClientRead,
       HandleDisconnected, HandleCreateTerminal, SendCreated, HandleDeleteTerminal,
       HandleResizeTerminal, HandleTerminalWrite, DeleteTerminals, EnableReadFromTerminals,
       OnTerminalEnd, OnTerminalRead, ShellExit, netVars
  <2>2. GetClient(h) => GetClient(h)'
    <3>1. ASSUME NEW m \in Machines, NEW d \in Hosts, ClientOnClientConnected(m, d)
          PROVE  srvEnd'[h] = srvEnd[h] \/ srvEnd'[h] = "up"
      BY <1>1, <3>1 DEF ClientOnClientConnected
    <3>2. ASSUME ~ \E m \in Machines, d \in Hosts : ClientOnClientConnected(m, d)
          PROVE  srvEnd' = srvEnd
      BY <1>3, <3>2 DEF Pages, OnWsClientConnected, OnWsClientMessage, OnWsClientClosed,
         ClientConnection, ClientLoop, Shells, ClientOnClientRead,
         HandleDisconnected, HandleCreateTerminal, SendCreated, HandleDeleteTerminal,
         HandleResizeTerminal, HandleTerminalWrite, DeleteTerminals, EnableReadFromTerminals,
         OnTerminalEnd, OnTerminalRead, ShellExit, netVars
    <3> QED BY <3>1, <3>2 DEF GetClient
  <2> QED BY <2>1, <2>2 DEF Kept, Queued
<1> QED
  BY <1>2, <1>3

LEMMA NextKeeps ==
    ASSUME Typed, NoStaleRemoteHost, [Next]_vars
    PROVE  NoStaleRemoteHost'
<1>1. CASE TerminalLoop
  BY <1>1, TerminalLoopKeeps DEF NoStaleRemoteHost, Kept
<1>2. CASE UNCHANGED vars
  BY <1>2 DEF NoStaleRemoteHost, GetClient, Queued, vars, netVars, tsVars
<1>3. \A h \in DOMAIN remoteHosts : h \in Hosts /\ Kept(h)
  BY DEF Typed, TypeOK, TerminalServerTypeOK, NoStaleRemoteHost, Kept
<1>4. ASSUME UNCHANGED remoteHosts, \A h \in DOMAIN remoteHosts : Kept(h)'
      PROVE  NoStaleRemoteHost'
  BY <1>4 DEF NoStaleRemoteHost, Kept
<1>5. CASE ServerConnection
  <2>1. UNCHANGED remoteHosts
    BY <1>5 DEF ServerConnection, ServerOnClientRead, ServerOnClientClosed,
       ServerOnClientUnresponsive, tsVars
  <2>2. ASSUME NEW h \in DOMAIN remoteHosts PROVE Kept(h)'
    BY <1>3, <1>5, ServerConnectionKeeps
  <2> QED BY <1>4, <2>1, <2>2
<1>6. CASE \/ Pages \/ WebAppLoop \/ ClientConnection
           \/ (\E m \in Machines : ClientLoop(m)) \/ Shells
  <2>1. UNCHANGED remoteHosts
    BY <1>6 DEF Pages, WebAppLoop, ClientConnection, ClientLoop, Shells, WebAppOnly,
       ClientOnly, tsVars
  <2>2. ASSUME NEW h \in DOMAIN remoteHosts PROVE Kept(h)'
    BY <1>3, <1>6, OthersKeep
  <2> QED BY <1>4, <2>1, <2>2
<1> QED
  BY <1>1, <1>2, <1>5, <1>6 DEF Next

\* The entry of a host in _remote_hosts survives the connection only as long as
\* the task that erases it waits in the loop: no request that overtakes a close
\* leaves a host behind that nobody will erase.
THEOREM NoStaleHost == Spec => []NoStaleRemoteHost
<1>1. Init => Typed /\ NoStaleRemoteHost
  BY InitTyped DEF Init, TerminalServerInit, NoStaleRemoteHost, EmptyMap
<1>2. Typed /\ NoStaleRemoteHost /\ [Next]_vars => (Typed /\ NoStaleRemoteHost)'
  BY NextTyped, NextKeeps
<1> QED
  BY <1>1, <1>2, PTL DEF Spec
-----------------------------------------------------------------------------
(***************************************************************************)
(* The host lists.  Three threads report a host: the connection thread its *)
(* introduction, TerminalServer's loop its loss and what it says of its    *)
(* terminals; the reports meet in WebAppServer's loop.                     *)
(***************************************************************************)
InWA(fn, h) == \E i \in DOMAIN waLoop : waLoop[i].fn = fn /\ waLoop[i].h = h
InTS(fn, h) == \E i \in DOMAIN tsLoop : tsLoop[i].fn = fn /\ tsLoop[i].h = h

\* A host that was added to the host list, at some time.
Introduced(h) == h \in monitored /\ ~InWA("OnRemoteHostInfoReceived", h)

\* The report of a loss is under way, in one of the two loops.
LossReported(h) == InWA("OnTerminalClientClosed", h) \/ InTS("OnClientClosed", h)

\* The pages show the hosts WebAppServer knows.
PagesCurrent == \A c \in DOMAIN sessions : told[c].hosts = activeHosts

\* A host introduces itself once, first of all.
InfoFirst ==
    \A h \in Hosts : \A i \in DOMAIN up[h] :
        up[h][i].type = "CLIENT_INFO" => i = 1 /\ h \notin monitored

IntroducedOnce ==
    /\ InfoFirst
    /\ \A h \in Hosts : srvEnd[h] = "none" => h \notin monitored
    /\ \A h \in Hosts : srvEnd[h] = "removed" => h \in monitored

\* Whoever knows a host knows it from its introduction.
KnownHosts ==
    /\ \A h \in activeHosts : Introduced(h)
    /\ \A c \in WebClients : \A h \in told[c].seen : Introduced(h)
    /\ \A h \in Hosts : InWA("OnTerminalAddReq", h) => Introduced(h)
    /\ \A h \in Hosts : InTS("CreateNewTerminal", h) => Introduced(h)

\* A host whose introduction waits is connected, or its loss waits too.
Introductions ==
    \A h \in Hosts : InWA("OnRemoteHostInfoReceived", h)
        => h \in monitored /\ (GetClient(h) \/ LossReported(h))

\* A host whose loss is reported is not found any more.
Losses == \A h \in Hosts : LossReported(h) => srvEnd[h] \in {"removed", "closed"}

\* The loss of a host is the last that is told of it, its introduction is told
\* once.
ToldInOrder ==
    /\ \A i, j \in DOMAIN waLoop :
          (/\ i < j
           /\ waLoop[i].fn = "OnTerminalClientClosed"
           /\ waLoop[j].fn \in {"OnRemoteHostInfoReceived", "OnTerminalCreated",
                                "OnTerminalClosed"})
              => waLoop[i].h # waLoop[j].h
    /\ \A i, j \in DOMAIN waLoop :
          (/\ i < j
           /\ waLoop[i].fn = "OnRemoteHostInfoReceived"
           /\ waLoop[j].fn = "OnRemoteHostInfoReceived")
              => waLoop[i].h # waLoop[j].h

\* What is told of terminals, and what could be, is of hosts in the list.
NewsOfActiveHosts ==
    /\ \A h \in Hosts :
          InWA("OnTerminalCreated", h) \/ InWA("OnTerminalClosed", h) => h \in activeHosts
    /\ \A h \in DOMAIN remoteHosts :
          h \in activeHosts /\ ~InWA("OnTerminalClientClosed", h)

\* The list shows the host exactly when it should, or a report is under way.
ListCurrent(h) ==
    \/ InWA("OnRemoteHostInfoReceived", h)
    \/ LossReported(h)
    \/ h \in activeHosts <=> (h \in monitored /\ GetClient(h))

\* The inductive invariant, but for the types.
HostParts ==
    /\ PagesCurrent
    /\ IntroducedOnce
    /\ KnownHosts
    /\ Introductions
    /\ Losses
    /\ ToldInOrder
    /\ NewsOfActiveHosts
    /\ \A h \in Hosts : ListCurrent(h)

HostsInv == Typed /\ HostParts
-----------------------------------------------------------------------------
\* Taking a task from a loop, and posting one.
LEMMA TaskTaken ==
    ASSUME NEW S, NEW q \in Seq(S), q # <<>>
    PROVE  /\ \A i \in DOMAIN Tail(q) : i + 1 \in DOMAIN q /\ Tail(q)[i] = q[i + 1]
           /\ \A i \in DOMAIN q :
                 \/ i = 1 /\ q[i] = Head(q)
                 \/ i > 1 /\ i - 1 \in DOMAIN Tail(q) /\ Tail(q)[i - 1] = q[i]
           /\ 1 \in DOMAIN q /\ q[1] = Head(q)
           /\ DOMAIN q \subseteq Nat /\ DOMAIN Tail(q) \subseteq Nat
  OBVIOUS

LEMMA TaskPosted ==
    ASSUME NEW S, NEW q \in Seq(S), NEW k
    PROVE  /\ \A i \in DOMAIN q : i \in DOMAIN Append(q, k) /\ Append(q, k)[i] = q[i] /\ i < Len(q) + 1
           /\ Len(q) + 1 \in DOMAIN Append(q, k) /\ Append(q, k)[Len(q) + 1] = k
           /\ \A i \in DOMAIN Append(q, k) : i \in DOMAIN q \/ i = Len(q) + 1
           /\ DOMAIN q \subseteq Nat /\ Len(q) \in Nat
  OBVIOUS

\* Tasks WebAppServer's loop takes.
LEMMA WATaken ==
    ASSUME waLoop \in Seq(WebAppTask), waLoop # <<>>, waLoop' = Tail(waLoop), NEW fn, NEW h
    PROVE  /\ InWA(fn, h)' => InWA(fn, h)
           /\ InWA(fn, h) => InWA(fn, h)' \/ (Head(waLoop).fn = fn /\ Head(waLoop).h = h)
<1>1. ASSUME NEW i \in DOMAIN waLoop', waLoop'[i].fn = fn, waLoop'[i].h = h
      PROVE  InWA(fn, h)
  <2>1. i + 1 \in DOMAIN waLoop /\ waLoop'[i] = waLoop[i + 1]
    BY <1>1, TaskTaken
  <2> QED BY <1>1, <2>1 DEF InWA
<1>2. ASSUME NEW i \in DOMAIN waLoop, waLoop[i].fn = fn, waLoop[i].h = h
      PROVE  InWA(fn, h)' \/ (Head(waLoop).fn = fn /\ Head(waLoop).h = h)
  <2>1. CASE waLoop[i] = Head(waLoop)
    BY <1>2, <2>1
  <2>2. CASE i - 1 \in DOMAIN waLoop' /\ waLoop'[i - 1] = waLoop[i]
    BY <1>2, <2>2 DEF InWA
  <2> QED BY <2>1, <2>2, TaskTaken
<1> QED BY <1>1, <1>2 DEF InWA

\* The order is kept, and what may not follow the task taken is not there.
LEMMA WATakenOrder ==
    ASSUME waLoop \in Seq(WebAppTask), waLoop # <<>>, waLoop' = Tail(waLoop), ToldInOrder
    PROVE  /\ ToldInOrder'
           /\ \A h : (Head(waLoop).fn = "OnTerminalClientClosed" /\ Head(waLoop).h = h) =>
                 \A fn \in {"OnRemoteHostInfoReceived", "OnTerminalCreated", "OnTerminalClosed"} :
                    ~InWA(fn, h)
           /\ \A h : (Head(waLoop).fn = "OnRemoteHostInfoReceived" /\ Head(waLoop).h = h) =>
                 ~InWA("OnRemoteHostInfoReceived", h)'
<1>1. \A i \in DOMAIN waLoop' : /\ i + 1 \in DOMAIN waLoop /\ waLoop'[i] = waLoop[i + 1]
                               /\ i \in Nat /\ i >= 1
  BY TaskTaken
<1>2. \A i, j \in DOMAIN waLoop' : i < j => i + 1 < j + 1
  BY <1>1
<1>3. ToldInOrder'
  <2>1. ASSUME NEW i \in DOMAIN waLoop', NEW j \in DOMAIN waLoop', i < j
        PROVE  /\ i + 1 \in DOMAIN waLoop /\ j + 1 \in DOMAIN waLoop /\ i + 1 < j + 1
               /\ waLoop'[i] = waLoop[i + 1] /\ waLoop'[j] = waLoop[j + 1]
    BY <1>1, <1>2, <2>1
  <2> QED BY <2>1 DEF ToldInOrder
<1>4. 1 \in DOMAIN waLoop /\ waLoop[1] = Head(waLoop)
  BY TaskTaken
<1>5. ASSUME NEW h, Head(waLoop).fn = "OnTerminalClientClosed", Head(waLoop).h = h,
             NEW fn \in {"OnRemoteHostInfoReceived", "OnTerminalCreated", "OnTerminalClosed"},
             NEW j \in DOMAIN waLoop, waLoop[j].fn = fn, waLoop[j].h = h
      PROVE  FALSE
  <2>1. j # 1
    BY <1>4, <1>5
  <2>2. 1 < j
    BY <2>1, TaskTaken
  <2> QED BY <1>4, <1>5, <2>2 DEF ToldInOrder
<1>6. ASSUME NEW h, Head(waLoop).fn = "OnRemoteHostInfoReceived", Head(waLoop).h = h,
             NEW i \in DOMAIN waLoop', waLoop'[i].fn = "OnRemoteHostInfoReceived",
             waLoop'[i].h = h
      PROVE  FALSE
  <2>1. i + 1 \in DOMAIN waLoop /\ waLoop'[i] = waLoop[i + 1] /\ 1 < i + 1
    BY <1>1, <1>6
  <2> QED BY <1>4, <1>6, <2>1 DEF ToldInOrder
<1> QED BY <1>3, <1>5, <1>6 DEF InWA

\* Tasks posted to WebAppServer's loop.
LEMMA WAPosted ==
    ASSUME waLoop \in Seq(WebAppTask), NEW k, waLoop' = Append(waLoop, k), NEW fn, NEW h
    PROVE  InWA(fn, h)' <=> InWA(fn, h) \/ (k.fn = fn /\ k.h = h)
<1>1. InWA(fn, h) => InWA(fn, h)'
  BY TaskPosted DEF InWA
<1>2. k.fn = fn /\ k.h = h => InWA(fn, h)'
  BY TaskPosted DEF InWA
<1>3. InWA(fn, h)' => InWA(fn, h) \/ (k.fn = fn /\ k.h = h)
  BY TaskPosted DEF InWA
<1> QED BY <1>1, <1>2, <1>3

LEMMA WAPostedOrder ==
    ASSUME waLoop \in Seq(WebAppTask), NEW k, waLoop' = Append(waLoop, k), ToldInOrder,
           k.fn \in {"OnRemoteHostInfoReceived", "OnTerminalCreated", "OnTerminalClosed"}
              => ~InWA("OnTerminalClientClosed", k.h),
           k.fn = "OnRemoteHostInfoReceived" => ~InWA("OnRemoteHostInfoReceived", k.h)
    PROVE  ToldInOrder'
<1>1. ASSUME NEW i \in DOMAIN waLoop', NEW j \in DOMAIN waLoop', i < j
      PROVE  /\ i \in DOMAIN waLoop /\ waLoop'[i] = waLoop[i]
             /\ \/ j \in DOMAIN waLoop /\ waLoop'[j] = waLoop[j]
                \/ waLoop'[j] = k
  <2>1. i \in DOMAIN waLoop
    BY <1>1, TaskPosted
  <2> QED BY <2>1, TaskPosted
<1> QED BY <1>1 DEF ToldInOrder, InWA

LEMMA TSTaken ==
    ASSUME tsLoop \in Seq(TerminalTask), tsLoop # <<>>, tsLoop' = Tail(tsLoop), NEW fn, NEW h
    PROVE  /\ InTS(fn, h)' => InTS(fn, h)
           /\ InTS(fn, h) => InTS(fn, h)' \/ (Head(tsLoop).fn = fn /\ Head(tsLoop).h = h)
<1>1. ASSUME NEW i \in DOMAIN tsLoop', tsLoop'[i].fn = fn, tsLoop'[i].h = h
      PROVE  InTS(fn, h)
  <2>1. i + 1 \in DOMAIN tsLoop /\ tsLoop'[i] = tsLoop[i + 1]
    BY <1>1, TaskTaken
  <2> QED BY <1>1, <2>1 DEF InTS
<1>2. ASSUME NEW i \in DOMAIN tsLoop, tsLoop[i].fn = fn, tsLoop[i].h = h
      PROVE  InTS(fn, h)' \/ (Head(tsLoop).fn = fn /\ Head(tsLoop).h = h)
  <2>1. CASE tsLoop[i] = Head(tsLoop)
    BY <1>2, <2>1
  <2>2. CASE i - 1 \in DOMAIN tsLoop' /\ tsLoop'[i - 1] = tsLoop[i]
    BY <1>2, <2>2 DEF InTS
  <2> QED BY <2>1, <2>2, TaskTaken
<1> QED BY <1>1, <1>2 DEF InTS

LEMMA TSPosted ==
    ASSUME tsLoop \in Seq(TerminalTask), NEW k, tsLoop' = Append(tsLoop, k), NEW fn, NEW h
    PROVE  InTS(fn, h)' <=> InTS(fn, h) \/ (k.fn = fn /\ k.h = h)
<1>1. InTS(fn, h) => InTS(fn, h)'
  BY TaskPosted DEF InTS
<1>2. k.fn = fn /\ k.h = h => InTS(fn, h)'
  BY TaskPosted DEF InTS
<1>3. InTS(fn, h)' => InTS(fn, h) \/ (k.fn = fn /\ k.h = h)
  BY TaskPosted DEF InTS
<1> QED BY <1>1, <1>2, <1>3

LEMMA TSPostedMany ==
    ASSUME tsLoop \in Seq(TerminalTask), NEW r \in Seq(TerminalTask), tsLoop' = tsLoop \o r,
           NEW fn, NEW h
    PROVE  InTS(fn, h)' <=> InTS(fn, h) \/ \E i \in DOMAIN r : r[i].fn = fn /\ r[i].h = h
<1>1. /\ \A i \in DOMAIN tsLoop : i \in DOMAIN tsLoop' /\ tsLoop'[i] = tsLoop[i]
      /\ \A i \in DOMAIN r : i + Len(tsLoop) \in DOMAIN tsLoop' /\ tsLoop'[i + Len(tsLoop)] = r[i]
      /\ \A i \in DOMAIN tsLoop' :
            \/ i \in DOMAIN tsLoop
            \/ i - Len(tsLoop) \in DOMAIN r /\ tsLoop'[i] = r[i - Len(tsLoop)]
  OBVIOUS
<1> QED BY <1>1 DEF InTS
-----------------------------------------------------------------------------
\* A step that moves no report of a host, and no host.
LEMMA CalmStep ==
    ASSUME HostParts, UNCHANGED <<srvEnd, monitored, activeHosts>>,
           InfoFirst', PagesCurrent', ToldInOrder',
           \A h \in Hosts :
               /\ InWA("OnRemoteHostInfoReceived", h)' <=> InWA("OnRemoteHostInfoReceived", h)
               /\ InWA("OnTerminalClientClosed", h)' <=> InWA("OnTerminalClientClosed", h)
               /\ InTS("OnClientClosed", h)' <=> InTS("OnClientClosed", h)
               /\ InWA("OnTerminalAddReq", h)' => Introduced(h)
               /\ InTS("CreateNewTerminal", h)' => Introduced(h)
               /\ InWA("OnTerminalCreated", h)' => h \in activeHosts
               /\ InWA("OnTerminalClosed", h)' => h \in activeHosts,
           activeHosts \subseteq Hosts,
           \A c \in WebClients : told'[c].seen \subseteq Hosts
               /\ \A h \in told'[c].seen : Introduced(h),
           \A h \in DOMAIN remoteHosts' :
               h \in Hosts /\ h \in activeHosts /\ ~InWA("OnTerminalClientClosed", h)
    PROVE  HostParts'
<1>1. \A h \in Hosts : (Introduced(h)' <=> Introduced(h)) /\ (LossReported(h)' <=> LossReported(h))
  BY DEF Introduced, LossReported
<1>2. \A h \in Hosts : GetClient(h)' <=> GetClient(h)
  BY DEF GetClient
<1>3. IntroducedOnce'
  BY DEF HostParts, IntroducedOnce
<1>4. KnownHosts'
  BY <1>1 DEF HostParts, KnownHosts
<1>5. Introductions'
  BY <1>1, <1>2 DEF HostParts, Introductions
<1>6. Losses'
  BY <1>1 DEF HostParts, Losses
<1>7. NewsOfActiveHosts'
  BY DEF HostParts, NewsOfActiveHosts
<1>8. ASSUME NEW h \in Hosts PROVE ListCurrent(h)'
  BY <1>1, <1>2 DEF HostParts, ListCurrent
<1> QED BY <1>3, <1>4, <1>5, <1>6, <1>7, <1>8 DEF HostParts

\* The types the lemmas below use.
LEMMA HostTypes ==
    ASSUME Typed
    PROVE  /\ waLoop \in Seq(WebAppTask) /\ tsLoop \in Seq(TerminalTask)
           /\ srvEnd \in [Hosts -> EndState] /\ up \in [Hosts -> Seq(UpMsg)]
           /\ DOMAIN remoteHosts \subseteq Hosts
           /\ activeHosts \subseteq Hosts /\ monitored \subseteq Hosts
           /\ told \in [WebClients -> ToldType]
           /\ \A c \in WebClients : told[c].seen \subseteq Hosts
           /\ DOMAIN sessions \subseteq WebClients
  BY DEF Typed, TypeOK, NetworkTypeOK, TerminalServerTypeOK, WebAppServerTypeOK, ToldType,
     SessionsTypeOK

\* The pages ask for terminals on hosts they have seen.
LEMMA PagesHosts ==
    ASSUME HostsInv, Pages
    PROVE  HostParts'
<1>1. /\ UNCHANGED <<tsLoop, srvEnd, up, sessions, activeHosts, told, remoteHosts, monitored>>
      /\ waLoop \in Seq(WebAppTask)
  BY HostTypes DEF HostsInv, Pages, OnWsClientConnected, OnWsClientMessage, OnWsClientClosed,
     WebAppOnly, tsVars
<1>2. PICK k : /\ waLoop' = Append(waLoop, k)
               /\ k.fn \in {"AddClient", "RemoveClient", "OnTerminalAddReq",
                            "OnTerminalResizeReq", "OnTerminalDelReq", "OnTerminalKeyEvent"}
               /\ k.fn = "OnTerminalAddReq" => \E c \in WebClients : k.h \in told[c].seen
  <2>1. ASSUME NEW c \in WebClients, OnWsClientConnected(c)
        PROVE  \E k : waLoop' = Append(waLoop, k) /\ k.fn = "AddClient"
    <3>1. PICK k : k = [fn |-> "AddClient", c |-> c]
      OBVIOUS
    <3>2. waLoop' = Append(waLoop, k)
      BY <2>1, <3>1 DEF OnWsClientConnected, PostWA
    <3> QED BY <3>1, <3>2
  <2>2. ASSUME NEW c \in WebClients, OnWsClientClosed(c)
        PROVE  \E k : waLoop' = Append(waLoop, k) /\ k.fn = "RemoveClient"
    <3>1. PICK k : k = [fn |-> "RemoveClient", c |-> c]
      OBVIOUS
    <3>2. waLoop' = Append(waLoop, k)
      BY <2>2, <3>1 DEF OnWsClientClosed, PostWA
    <3> QED BY <3>1, <3>2
  <2>3. ASSUME NEW c \in WebClients, OnWsClientMessage(c)
        PROVE  \E k \in PageMessage(c) : waLoop' = Append(waLoop, k)
    BY <2>3 DEF OnWsClientMessage, PostWA
  <2>4. ASSUME NEW c \in WebClients, NEW k \in PageMessage(c)
        PROVE  /\ k.fn \in {"OnTerminalAddReq", "OnTerminalResizeReq", "OnTerminalDelReq",
                            "OnTerminalKeyEvent"}
               /\ k.fn = "OnTerminalAddReq" => k.h \in told[c].seen
    BY DEF PageMessage
  <2>5. CASE \E c \in WebClients : OnWsClientConnected(c)
    BY <2>1, <2>5
  <2>6. CASE \E c \in WebClients : OnWsClientClosed(c)
    BY <2>2, <2>6
  <2>7. CASE \E c \in WebClients : OnWsClientMessage(c)
    BY <2>3, <2>4, <2>7
  <2> QED BY <2>5, <2>6, <2>7 DEF Pages
<1>3. ASSUME NEW fn, NEW h
      PROVE  InWA(fn, h)' <=> InWA(fn, h) \/ (k.fn = fn /\ k.h = h)
  BY <1>1, <1>2, WAPosted
<1>4. ASSUME NEW fn, NEW h
      PROVE  InTS(fn, h)' <=> InTS(fn, h)
  BY <1>1 DEF InTS
<1>5. ToldInOrder'
  BY <1>1, <1>2, WAPostedOrder DEF HostsInv, HostParts
<1>6. InfoFirst' /\ PagesCurrent'
  BY <1>1 DEF HostsInv, HostParts, IntroducedOnce, InfoFirst, PagesCurrent
<1>7. \A h \in Hosts :
         /\ InWA("OnRemoteHostInfoReceived", h)' <=> InWA("OnRemoteHostInfoReceived", h)
         /\ InWA("OnTerminalClientClosed", h)' <=> InWA("OnTerminalClientClosed", h)
         /\ InTS("OnClientClosed", h)' <=> InTS("OnClientClosed", h)
         /\ InTS("CreateNewTerminal", h)' <=> InTS("CreateNewTerminal", h)
         /\ InWA("OnTerminalCreated", h)' <=> InWA("OnTerminalCreated", h)
         /\ InWA("OnTerminalClosed", h)' <=> InWA("OnTerminalClosed", h)
  BY <1>2, <1>3, <1>4
<1>8. \A h \in Hosts : InWA("OnTerminalAddReq", h)' => Introduced(h)
  BY <1>2, <1>3 DEF HostsInv, HostParts, KnownHosts
<1> QED
  BY <1>1, <1>5, <1>6, <1>7, <1>8, CalmStep, HostTypes
  DEF HostsInv, HostParts, KnownHosts, NewsOfActiveHosts

\* The first task of a loop is in it.
LEMMA HeadQueued ==
    ASSUME NEW h
    PROVE  /\ (waLoop \in Seq(WebAppTask) /\ waLoop # <<>> /\ Head(waLoop).h = h)
                 => InWA(Head(waLoop).fn, h)
           /\ (tsLoop \in Seq(TerminalTask) /\ tsLoop # <<>> /\ Head(tsLoop).h = h)
                 => InTS(Head(tsLoop).fn, h)
  BY TaskTaken DEF InWA, InTS

\* What every task of WebAppServer's loop does to the two loops.
LEMMA WebAppLoopFrame ==
    ASSUME HostsInv, WebAppLoop
    PROVE  /\ UNCHANGED <<srvEnd, up, remoteHosts, monitored>>
           /\ waLoop \in Seq(WebAppTask) /\ waLoop # <<>> /\ waLoop' = Tail(waLoop)
           /\ Head(waLoop) \in WebAppTask
           /\ InfoFirst' /\ ToldInOrder'
           /\ \A h \in Hosts :
                 /\ InTS("OnClientClosed", h)' <=> InTS("OnClientClosed", h)
                 /\ InTS("CreateNewTerminal", h)' => Introduced(h)
                 /\ InWA("OnTerminalAddReq", h)' => Introduced(h)
<1>1. /\ UNCHANGED <<srvEnd, up, remoteHosts, monitored>>
      /\ waLoop # <<>> /\ waLoop' = Tail(waLoop)
  BY DEF WebAppLoop, WebAppOnly, tsVars, AddClient, RemoveClient, OnTerminalAddReq,
     OnTerminalResizeReq, OnTerminalDelReq, OnTerminalKeyEvent,
     OnRemoteHostInfoReceived, OnTerminalClientClosed, OnTerminalCreated,
     OnTerminalOutput, OnTerminalClosed, TakeWA, Runs
<1>2. waLoop \in Seq(WebAppTask) /\ tsLoop \in Seq(TerminalTask) /\ Head(waLoop) \in WebAppTask
  BY <1>1, HostTypes, HeadAndTail DEF HostsInv
<1>3. InfoFirst' /\ ToldInOrder'
  BY <1>1, <1>2, WATakenOrder DEF HostsInv, HostParts, IntroducedOnce, InfoFirst
<1>4. PICK r \in Seq(TerminalTask) : tsLoop' = tsLoop \o r /\ Posts(r)
  BY WebAppLoopPosts DEF HostsInv
<1>a. ASSUME NEW fn, NEW h
      PROVE  InTS(fn, h)' <=> InTS(fn, h) \/ \E i \in DOMAIN r : r[i].fn = fn /\ r[i].h = h
  BY <1>2, <1>4, TSPostedMany
<1>5. ASSUME NEW h \in Hosts
      PROVE  InTS("OnClientClosed", h)' <=> InTS("OnClientClosed", h)
  BY <1>4, <1>a DEF Posts
<1>6. ASSUME NEW h \in Hosts, InTS("CreateNewTerminal", h)'
      PROVE  Introduced(h)
  <2>1. InTS("CreateNewTerminal", h) \/ (Head(waLoop).fn = "OnTerminalAddReq" /\ Head(waLoop).h = h)
    BY <1>4, <1>6, <1>a DEF Posts
  <2>2. InTS("CreateNewTerminal", h) \/ InWA("OnTerminalAddReq", h)
    BY <1>1, <1>2, <2>1, HeadQueued
  <2> QED BY <2>2 DEF HostsInv, HostParts, KnownHosts
<1>7. ASSUME NEW h \in Hosts, InWA("OnTerminalAddReq", h)'
      PROVE  Introduced(h)
  BY <1>1, <1>2, <1>7, WATaken DEF HostsInv, HostParts, KnownHosts
<1> QED BY <1>1, <1>2, <1>3, <1>5, <1>6, <1>7

\* Most tasks leave the host lists alone.
LEMMA QuietTask ==
    ASSUME HostsInv, WebAppLoop, activeHosts' = activeHosts, PagesCurrent',
           Head(waLoop).fn \notin {"OnRemoteHostInfoReceived", "OnTerminalClientClosed"},
           \A c \in WebClients : told'[c].seen \subseteq told[c].seen \cup activeHosts
    PROVE  HostParts'
<1>1. \A h \in Hosts :
         /\ InWA("OnRemoteHostInfoReceived", h)' <=> InWA("OnRemoteHostInfoReceived", h)
         /\ InWA("OnTerminalClientClosed", h)' <=> InWA("OnTerminalClientClosed", h)
  BY WebAppLoopFrame, WATaken
<1>2. \A h \in Hosts :
         /\ InWA("OnTerminalCreated", h)' => h \in activeHosts
         /\ InWA("OnTerminalClosed", h)' => h \in activeHosts
  BY WebAppLoopFrame, WATaken DEF HostsInv, HostParts, NewsOfActiveHosts
<1>3. \A c \in WebClients : told'[c].seen \subseteq Hosts /\ \A h \in told'[c].seen : Introduced(h)
  BY HostTypes DEF HostsInv, HostParts, KnownHosts
<1>4. activeHosts \subseteq Hosts
  BY HostTypes DEF HostsInv
<1>5. \A h \in DOMAIN remoteHosts' :
         h \in Hosts /\ h \in activeHosts /\ ~InWA("OnTerminalClientClosed", h)
  BY WebAppLoopFrame, HostTypes DEF HostsInv, HostParts, NewsOfActiveHosts
<1> QED BY <1>1, <1>2, <1>3, <1>4, <1>5, WebAppLoopFrame, CalmStep DEF HostsInv

\* A host is added to the lists.
LEMMA HostAdded ==
    ASSUME HostsInv, WebAppLoop, OnRemoteHostInfoReceived
    PROVE  HostParts'
<1>1. PICK d : d = Head(waLoop).h
  OBVIOUS
<1>2. /\ Head(waLoop).fn = "OnRemoteHostInfoReceived" /\ d \in Hosts
      /\ activeHosts' = activeHosts \cup {d}
      /\ told' = [c \in WebClients |->
                    IF HasSession(c)
                    THEN [told[c] EXCEPT !.hosts = @ \cup {d}, !.seen = @ \cup {d}]
                    ELSE told[c]]
      /\ sessions' = sessions
  BY <1>1, WebAppLoopFrame, WebAppTaskFields DEF OnRemoteHostInfoReceived, TakeWA, Runs
<1>3. \A h \in Hosts : InWA("OnRemoteHostInfoReceived", h)'
                        <=> (InWA("OnRemoteHostInfoReceived", h) /\ h # d)
  BY <1>1, <1>2, WebAppLoopFrame, WATaken, WATakenOrder DEF HostsInv, HostParts
<1>a. ASSUME NEW fn, NEW h
      PROVE  /\ InWA(fn, h)' => InWA(fn, h)
             /\ InWA(fn, h) => InWA(fn, h)' \/ (Head(waLoop).fn = fn /\ Head(waLoop).h = h)
  BY WebAppLoopFrame, WATaken
<1>4. \A h \in Hosts :
         /\ InWA("OnTerminalClientClosed", h)' <=> InWA("OnTerminalClientClosed", h)
         /\ InWA("OnTerminalCreated", h)' => InWA("OnTerminalCreated", h)
         /\ InWA("OnTerminalClosed", h)' => InWA("OnTerminalClosed", h)
  <2>1. Head(waLoop).fn # "OnTerminalClientClosed"
    BY <1>2
  <2> QED BY <1>a, <2>1
<1>5. /\ InWA("OnRemoteHostInfoReceived", d)
      /\ d \in monitored /\ (GetClient(d) \/ LossReported(d))
  BY <1>1, <1>2, WebAppLoopFrame, HeadQueued DEF HostsInv, HostParts, Introductions
<1>6. \A h \in Hosts : Introduced(h)' <=> Introduced(h) \/ h = d
  BY <1>3, <1>5, WebAppLoopFrame DEF Introduced
<1>7. \A h \in Hosts : LossReported(h)' <=> LossReported(h)
  BY <1>4, WebAppLoopFrame DEF LossReported
<1>8. \A h \in Hosts : GetClient(h)' <=> GetClient(h)
  BY WebAppLoopFrame DEF GetClient
<1>9. PagesCurrent'
  <2>1. ASSUME NEW c \in DOMAIN sessions'
        PROVE  told'[c].hosts = activeHosts'
    <3>1. c \in WebClients /\ HasSession(c) /\ told[c].hosts = activeHosts /\ told[c] \in ToldType
      BY <1>2, <2>1, HostTypes DEF HostsInv, HostParts, PagesCurrent, HasSession
    <3>2. told'[c] = [told[c] EXCEPT !.hosts = @ \cup {d}, !.seen = @ \cup {d}]
      BY <1>2, <3>1
    <3> QED BY <1>2, <3>1, <3>2 DEF ToldType
  <2> QED BY <2>1 DEF PagesCurrent
<1>10. IntroducedOnce'
  BY WebAppLoopFrame DEF HostsInv, HostParts, IntroducedOnce
<1>11. ASSUME NEW c \in WebClients, NEW h \in told'[c].seen
       PROVE  h \in Hosts /\ (h \in told[c].seen \/ h = d)
  <2>1. told[c] \in ToldType
    BY HostTypes DEF HostsInv
  <2>2. CASE HasSession(c)
    <3>1. told'[c] = [told[c] EXCEPT !.hosts = @ \cup {d}, !.seen = @ \cup {d}]
      BY <1>2, <2>2
    <3> QED BY <1>2, <1>11, <2>1, <3>1 DEF ToldType
  <2>3. CASE ~HasSession(c)
    BY <1>2, <1>11, <2>1, <2>3 DEF ToldType
  <2> QED BY <2>2, <2>3
<1>12. KnownHosts'
  <2>1. \A h \in activeHosts' : Introduced(h)'
    BY <1>2, <1>6, HostTypes DEF HostsInv, HostParts, KnownHosts
  <2>2. \A c \in WebClients : \A h \in told'[c].seen : Introduced(h)'
    BY <1>6, <1>11 DEF HostsInv, HostParts, KnownHosts
  <2> QED BY <1>6, <2>1, <2>2, WebAppLoopFrame DEF KnownHosts
<1>13. Introductions'
  BY <1>3, <1>7, <1>8, WebAppLoopFrame DEF HostsInv, HostParts, Introductions
<1>14. Losses'
  BY <1>7, WebAppLoopFrame DEF HostsInv, HostParts, Losses
<1>15. NewsOfActiveHosts'
  BY <1>2, <1>4, WebAppLoopFrame, HostTypes DEF HostsInv, HostParts, NewsOfActiveHosts
<1>16. ASSUME NEW h \in Hosts PROVE ListCurrent(h)'
  <2>1. CASE h # d
    BY <1>2, <1>3, <1>7, <1>8, <2>1, WebAppLoopFrame DEF HostsInv, HostParts, ListCurrent
  <2>2. CASE h = d
    BY <1>2, <1>5, <1>7, <1>8, <2>2, WebAppLoopFrame DEF ListCurrent
  <2> QED BY <2>1, <2>2
<1> QED
  BY <1>9, <1>10, <1>12, <1>13, <1>14, <1>15, <1>16, WebAppLoopFrame DEF HostParts

\* A host is taken from the lists.
LEMMA HostRemoved ==
    ASSUME HostsInv, WebAppLoop, OnTerminalClientClosed
    PROVE  HostParts'
<1>1. PICK d : d = Head(waLoop).h
  OBVIOUS
<1>2. /\ Head(waLoop).fn = "OnTerminalClientClosed" /\ d \in Hosts
      /\ activeHosts' = activeHosts \ {d}
      /\ told' = [c \in WebClients |-> IF HasSession(c)
                                       THEN [told[c] EXCEPT !.hosts = @ \ {d}]
                                       ELSE told[c]]
      /\ sessions' = sessions
  BY <1>1, WebAppLoopFrame, WebAppTaskFields DEF OnTerminalClientClosed, TakeWA, Runs
<1>3. ASSUME NEW fn, NEW h
      PROVE  /\ InWA(fn, h)' => InWA(fn, h)
             /\ InWA(fn, h) => InWA(fn, h)' \/ (Head(waLoop).fn = fn /\ Head(waLoop).h = h)
  BY WebAppLoopFrame, WATaken
<1>4. ASSUME NEW fn \in {"OnRemoteHostInfoReceived", "OnTerminalCreated", "OnTerminalClosed"}
      PROVE  ~InWA(fn, d)
  BY <1>1, <1>2, WebAppLoopFrame, WATakenOrder DEF HostsInv, HostParts
<1>5. ASSUME NEW h \in Hosts
      PROVE  /\ InWA("OnRemoteHostInfoReceived", h)' <=> InWA("OnRemoteHostInfoReceived", h)
             /\ h # d => (InWA("OnTerminalClientClosed", h)' <=> InWA("OnTerminalClientClosed", h))
  <2>1. Head(waLoop).fn # "OnRemoteHostInfoReceived" /\ Head(waLoop).h = d
    BY <1>1, <1>2
  <2> QED BY <1>3, <2>1
<1>6. srvEnd[d] \in {"removed", "closed"}
  <2>1. InWA("OnTerminalClientClosed", d)
    BY <1>1, <1>2, WebAppLoopFrame, HeadQueued
  <2> QED BY <1>2, <2>1 DEF HostsInv, HostParts, Losses, LossReported
<1>7. \A h \in Hosts : Introduced(h)' <=> Introduced(h)
  BY <1>5, WebAppLoopFrame DEF Introduced
<1>8. \A h \in Hosts : /\ LossReported(h)' => LossReported(h)
                       /\ h # d => (LossReported(h)' <=> LossReported(h))
  BY <1>3, <1>5, WebAppLoopFrame DEF LossReported
<1>9. \A h \in Hosts : GetClient(h)' <=> GetClient(h)
  BY WebAppLoopFrame DEF GetClient
<1>10. PagesCurrent'
  <2>1. ASSUME NEW c \in DOMAIN sessions'
        PROVE  told'[c].hosts = activeHosts'
    <3>1. c \in WebClients /\ HasSession(c) /\ told[c].hosts = activeHosts /\ told[c] \in ToldType
      BY <1>2, <2>1, HostTypes DEF HostsInv, HostParts, PagesCurrent, HasSession
    <3>2. told'[c] = [told[c] EXCEPT !.hosts = @ \ {d}]
      BY <1>2, <3>1
    <3> QED BY <1>2, <3>1, <3>2 DEF ToldType
  <2> QED BY <2>1 DEF PagesCurrent
<1>11. IntroducedOnce'
  BY WebAppLoopFrame DEF HostsInv, HostParts, IntroducedOnce
<1>12. ASSUME NEW c \in WebClients
       PROVE  told'[c].seen = told[c].seen /\ told[c].seen \subseteq Hosts
  <2>1. told[c] \in ToldType
    BY HostTypes DEF HostsInv
  <2>2. CASE HasSession(c)
    <3>1. told'[c] = [told[c] EXCEPT !.hosts = @ \ {d}]
      BY <1>2, <2>2
    <3> QED BY <2>1, <3>1 DEF ToldType
  <2>3. CASE ~HasSession(c)
    BY <1>2, <2>1, <2>3 DEF ToldType
  <2> QED BY <2>2, <2>3
<1>13. KnownHosts'
  <2>1. \A h \in activeHosts' : Introduced(h)'
    BY <1>2, <1>7, HostTypes DEF HostsInv, HostParts, KnownHosts
  <2>2. \A c \in WebClients : \A h \in told'[c].seen : Introduced(h)'
    BY <1>7, <1>12 DEF HostsInv, HostParts, KnownHosts
  <2> QED BY <1>7, <2>1, <2>2, WebAppLoopFrame DEF KnownHosts
<1>14. Introductions'
  <2>1. ASSUME NEW h \in Hosts, InWA("OnRemoteHostInfoReceived", h)'
        PROVE  h # d /\ InWA("OnRemoteHostInfoReceived", h)
    BY <1>4, <1>5, <2>1
  <2> QED BY <1>8, <1>9, <2>1, WebAppLoopFrame DEF HostsInv, HostParts, Introductions
<1>15. Losses'
  BY <1>8, WebAppLoopFrame DEF HostsInv, HostParts, Losses
<1>16. NewsOfActiveHosts'
  <2>1. ASSUME NEW h \in Hosts, InWA("OnTerminalCreated", h)' \/ InWA("OnTerminalClosed", h)'
        PROVE  h # d /\ h \in activeHosts
    BY <1>3, <1>4, <2>1 DEF HostsInv, HostParts, NewsOfActiveHosts
  <2>2. InWA("OnTerminalClientClosed", d)
    BY <1>1, <1>2, WebAppLoopFrame, HeadQueued
  <2>3. ASSUME NEW h \in DOMAIN remoteHosts
        PROVE  h \in Hosts /\ h # d /\ h \in activeHosts /\ ~InWA("OnTerminalClientClosed", h)
    BY <2>2, HostTypes DEF HostsInv, HostParts, NewsOfActiveHosts
  <2> QED BY <1>2, <1>5, <2>1, <2>3, WebAppLoopFrame DEF NewsOfActiveHosts
<1>17. ASSUME NEW h \in Hosts PROVE ListCurrent(h)'
  <2>1. CASE h # d
    BY <1>2, <1>5, <1>8, <1>9, <2>1, WebAppLoopFrame DEF HostsInv, HostParts, ListCurrent
  <2>2. CASE h = d
    BY <1>2, <1>6, <1>9, <2>2 DEF ListCurrent, GetClient
  <2> QED BY <2>1, <2>2
<1> QED
  BY <1>10, <1>11, <1>13, <1>14, <1>15, <1>16, <1>17, WebAppLoopFrame DEF HostParts

\* The loop of WebAppServer.
LEMMA WebAppLoopHosts ==
    ASSUME HostsInv, WebAppLoop
    PROVE  HostParts'
<1>1. told \in [WebClients -> ToldType] /\ PagesCurrent /\ DOMAIN sessions \subseteq WebClients
  BY HostTypes DEF HostsInv, HostParts
<1>2. CASE AddClient
  <2>1. PICK d : d = Head(waLoop).c /\ Head(waLoop).fn = "AddClient" /\ d \in WebClients
    BY <1>2, WebAppLoopFrame, WebAppTaskFields DEF AddClient, TakeWA, Runs
  <2>2. /\ activeHosts' = activeHosts
        /\ DOMAIN sessions' \subseteq DOMAIN sessions \cup {d}
        /\ told' = [told EXCEPT ![d] = [told[d] EXCEPT !.hosts = activeHosts, !.seen = activeHosts]]
    BY <1>2, <2>1 DEF AddClient, CreateWebAppSession, Insert, Assign
  <2>3. told'[d].hosts = activeHosts /\ told'[d].seen = activeHosts
    BY <1>1, <2>1, <2>2 DEF ToldType
  <2>4. \A c \in WebClients : c # d => told'[c] = told[c]
    BY <1>1, <2>2
  <2>5. PagesCurrent'
    BY <1>1, <2>1, <2>2, <2>3, <2>4 DEF PagesCurrent
  <2>6. \A c \in WebClients : told'[c].seen \subseteq told[c].seen \cup activeHosts
    BY <2>3, <2>4
  <2> QED BY <2>1, <2>2, <2>5, <2>6, QuietTask
<1>3. ASSUME NEW c \in WebClients, NEW t, told[c] \in ToldType,
             \/ told'[c] = told[c]
             \/ told'[c] = [told[c] EXCEPT !.added = @ \cup {t}]
             \/ told'[c] = [told[c] EXCEPT !.output = @ \cup {t}]
             \/ told'[c] = [told[c] EXCEPT !.closed = @ \cup {t}]
      PROVE  told'[c].hosts = told[c].hosts /\ told'[c].seen = told[c].seen
  BY <1>3 DEF ToldType
<1>4. ASSUME activeHosts' = activeHosts, DOMAIN sessions' \subseteq DOMAIN sessions,
             Head(waLoop).fn \notin {"OnRemoteHostInfoReceived", "OnTerminalClientClosed"},
             \A c \in WebClients : told'[c].hosts = told[c].hosts /\ told'[c].seen = told[c].seen
      PROVE  HostParts'
  <2>1. PagesCurrent'
    BY <1>1, <1>4 DEF PagesCurrent
  <2> QED BY <1>4, <2>1, QuietTask
<1>5. CASE RemoveClient
  BY <1>4, <1>5 DEF RemoveClient, EraseWebAppSession, Erase, Restrict, TakeWA, Runs
<1>6. CASE OnTerminalAddReq \/ OnTerminalResizeReq \/ OnTerminalKeyEvent
  BY <1>4, <1>6 DEF OnTerminalAddReq, OnTerminalResizeReq, OnTerminalKeyEvent, waVars, TakeWA, Runs
<1>7. CASE OnTerminalDelReq
  BY <1>4, <1>7 DEF OnTerminalDelReq, SessionDeleteTerminal, TakeWA, Runs
<1>8. CASE OnTerminalCreated
  <2>1. PICK d \in WebClients : d = Head(waLoop).c /\ Head(waLoop).fn = "OnTerminalCreated"
    BY <1>8, WebAppLoopFrame, WebAppTaskFields DEF OnTerminalCreated, TakeWA, Runs
  <2>2. /\ activeHosts' = activeHosts /\ DOMAIN sessions' \subseteq DOMAIN sessions
        /\ told' = told \/ told' = [told EXCEPT ![d].added = @ \cup {Head(waLoop).t}]
    BY <1>8, <2>1 DEF OnTerminalCreated, SessionAddTerminal
  <2>3. \A c \in WebClients : told'[c].hosts = told[c].hosts /\ told'[c].seen = told[c].seen
    <3>1. ASSUME NEW c \in WebClients
          PROVE  /\ told[c] \in ToldType
                 /\ \/ told'[c] = told[c]
                    \/ told'[c] = [told[c] EXCEPT !.added = @ \cup {Head(waLoop).t}]
      BY <1>1, <2>2
    <3> QED BY <1>3, <3>1
  <2> QED BY <1>4, <2>1, <2>2, <2>3
<1>9. CASE OnTerminalOutput
  <2>1. PICK d \in WebClients : d = Head(waLoop).c /\ Head(waLoop).fn = "OnTerminalOutput"
    BY <1>9, WebAppLoopFrame, WebAppTaskFields DEF OnTerminalOutput, TakeWA, Runs
  <2>2. /\ activeHosts' = activeHosts /\ DOMAIN sessions' \subseteq DOMAIN sessions
        /\ told' = told \/ told' = [told EXCEPT ![d].output = @ \cup {Head(waLoop).t}]
    BY <1>9, <2>1 DEF OnTerminalOutput
  <2>3. \A c \in WebClients : told'[c].hosts = told[c].hosts /\ told'[c].seen = told[c].seen
    <3>1. ASSUME NEW c \in WebClients
          PROVE  /\ told[c] \in ToldType
                 /\ \/ told'[c] = told[c]
                    \/ told'[c] = [told[c] EXCEPT !.output = @ \cup {Head(waLoop).t}]
      BY <1>1, <2>2
    <3> QED BY <1>3, <3>1
  <2> QED BY <1>4, <2>1, <2>2, <2>3
<1>10. CASE OnTerminalClosed
  <2>1. PICK d \in WebClients : d = Head(waLoop).c /\ Head(waLoop).fn = "OnTerminalClosed"
    BY <1>10, WebAppLoopFrame, WebAppTaskFields DEF OnTerminalClosed, TakeWA, Runs
  <2>2. /\ activeHosts' = activeHosts /\ DOMAIN sessions' \subseteq DOMAIN sessions
        /\ told' = told \/ told' = [told EXCEPT ![d].closed = @ \cup {Head(waLoop).t}]
    BY <1>10, <2>1 DEF OnTerminalClosed
  <2>3. \A c \in WebClients : told'[c].hosts = told[c].hosts /\ told'[c].seen = told[c].seen
    <3>1. ASSUME NEW c \in WebClients
          PROVE  /\ told[c] \in ToldType
                 /\ \/ told'[c] = told[c]
                    \/ told'[c] = [told[c] EXCEPT !.closed = @ \cup {Head(waLoop).t}]
      BY <1>1, <2>2
    <3> QED BY <1>3, <3>1
  <2> QED BY <1>4, <2>1, <2>2, <2>3
<1> QED
  BY <1>2, <1>5, <1>6, <1>7, <1>8, <1>9, <1>10, HostAdded, HostRemoved DEF WebAppLoop

\* The loop of TerminalServer: a terminal is created on a listed host, the
\* reports of terminals come before the loss of their host.
LEMMA TerminalLoopHosts ==
    ASSUME HostsInv, TerminalLoop
    PROVE  HostParts'
<1>1. /\ tsLoop \in Seq(TerminalTask) /\ tsLoop # <<>> /\ tsLoop' = Tail(tsLoop)
      /\ waLoop \in Seq(WebAppTask) /\ Head(tsLoop) \in TerminalTask /\ Head(tsLoop).h \in Hosts
  <2>1. tsLoop # <<>> /\ tsLoop' = Tail(tsLoop)
    BY DEF TerminalLoop, CreateNewTerminal, ResizeTerminal, DeleteTerminal, SendKeyEvent,
       Command, OnClientClosed, HandleTerminalCreated, HandleTerminalRead, HandleTerminalEnd,
       Report, TakeTS, Runs
  <2> QED BY <2>1, HostTypes, HeadAndTail, TerminalTaskFields DEF HostsInv
<1>2. UNCHANGED <<srvEnd, up, monitored, sessions, activeHosts, told>>
  BY DEF TerminalLoop, TerminalOnly, waVars, tsVars, CreateNewTerminal, ResizeTerminal,
     DeleteTerminal, SendKeyEvent, Command, OnClientClosed, HandleTerminalCreated,
     HandleTerminalRead, HandleTerminalEnd, Report
<1>3. ASSUME NEW fn, NEW h
      PROVE  /\ InTS(fn, h)' => InTS(fn, h)
             /\ InTS(fn, h) => InTS(fn, h)' \/ (Head(tsLoop).fn = fn /\ Head(tsLoop).h = h)
  BY <1>1, TSTaken
<1>4. InfoFirst' /\ PagesCurrent' /\ IntroducedOnce'
  BY <1>2 DEF HostsInv, HostParts, IntroducedOnce, InfoFirst, PagesCurrent
<1>5. \A h \in Hosts : InTS("CreateNewTerminal", h)' => Introduced(h)
  BY <1>3 DEF HostsInv, HostParts, KnownHosts
<1>6. /\ activeHosts \subseteq Hosts
      /\ \A c \in WebClients : told'[c].seen \subseteq Hosts /\ \A h \in told'[c].seen : Introduced(h)
      /\ DOMAIN remoteHosts \subseteq Hosts
  BY <1>2, HostTypes DEF HostsInv, HostParts, KnownHosts
<1>7. ASSUME Head(tsLoop).fn # "OnClientClosed",
             \/ waLoop' = waLoop
             \/ \E k : /\ waLoop' = Append(waLoop, k)
                       /\ k.fn \in {"OnTerminalCreated", "OnTerminalOutput", "OnTerminalClosed"}
                       /\ k.fn # "OnTerminalOutput" => k.h \in DOMAIN remoteHosts,
             \A h \in DOMAIN remoteHosts' :
                h \in DOMAIN remoteHosts
                \/ (h = Head(tsLoop).h /\ Head(tsLoop).fn = "CreateNewTerminal" /\ GetClient(h))
      PROVE  HostParts'
  <2>1. \A h \in Hosts : InTS("OnClientClosed", h)' <=> InTS("OnClientClosed", h)
    BY <1>3, <1>7
  <2>2. ASSUME NEW h \in DOMAIN remoteHosts'
        PROVE  h \in Hosts /\ h \in activeHosts /\ ~InWA("OnTerminalClientClosed", h)
    <3>1. CASE h \in DOMAIN remoteHosts
      BY <1>6, <3>1 DEF HostsInv, HostParts, NewsOfActiveHosts
    <3>2. CASE h = Head(tsLoop).h /\ Head(tsLoop).fn = "CreateNewTerminal" /\ GetClient(h)
      <4>1. h \in Hosts /\ InTS("CreateNewTerminal", h)
        BY <1>1, <3>2, HeadQueued
      <4>2. Introduced(h)
        BY <4>1 DEF HostsInv, HostParts, KnownHosts
      <4>3. ~LossReported(h)
        BY <3>2, <4>1 DEF HostsInv, HostParts, Losses, GetClient
      <4>4. ListCurrent(h)
        BY <4>1 DEF HostsInv, HostParts
      <4> QED BY <3>2, <4>1, <4>2, <4>3, <4>4 DEF Introduced, LossReported, ListCurrent
    <3> QED BY <1>7, <3>1, <3>2
  <2>3. CASE waLoop' = waLoop
    <3>1. \A fn, h : InWA(fn, h)' <=> InWA(fn, h)
      BY <2>3 DEF InWA
    <3>2. ToldInOrder'
      BY <2>3 DEF HostsInv, HostParts, ToldInOrder
    <3>3. \A h \in Hosts : /\ InWA("OnTerminalAddReq", h)' => Introduced(h)
                           /\ InWA("OnTerminalCreated", h)' => h \in activeHosts
                           /\ InWA("OnTerminalClosed", h)' => h \in activeHosts
      BY <3>1 DEF HostsInv, HostParts, KnownHosts, NewsOfActiveHosts
    <3> QED BY <1>2, <1>4, <1>5, <1>6, <2>1, <2>2, <3>1, <3>2, <3>3, CalmStep DEF HostsInv
  <2>4. CASE \E k : /\ waLoop' = Append(waLoop, k)
                    /\ k.fn \in {"OnTerminalCreated", "OnTerminalOutput", "OnTerminalClosed"}
                    /\ k.fn # "OnTerminalOutput" => k.h \in DOMAIN remoteHosts
    <3>1. PICK k : /\ waLoop' = Append(waLoop, k)
                   /\ k.fn \in {"OnTerminalCreated", "OnTerminalOutput", "OnTerminalClosed"}
                   /\ k.fn # "OnTerminalOutput" => k.h \in DOMAIN remoteHosts
      BY <2>4
    <3>2. ASSUME NEW fn, NEW h
          PROVE  InWA(fn, h)' <=> InWA(fn, h) \/ (k.fn = fn /\ k.h = h)
      BY <1>1, <3>1, WAPosted
    <3>3. k.fn # "OnTerminalOutput" =>
             k.h \in Hosts /\ k.h \in activeHosts /\ ~InWA("OnTerminalClientClosed", k.h)
      BY <1>6, <3>1 DEF HostsInv, HostParts, NewsOfActiveHosts
    <3>4. ToldInOrder'
      BY <1>1, <3>1, <3>3, WAPostedOrder DEF HostsInv, HostParts
    <3>5. \A h \in Hosts : /\ InWA("OnTerminalAddReq", h)' => Introduced(h)
                           /\ InWA("OnTerminalCreated", h)' => h \in activeHosts
                           /\ InWA("OnTerminalClosed", h)' => h \in activeHosts
      BY <3>1, <3>2, <3>3 DEF HostsInv, HostParts, KnownHosts, NewsOfActiveHosts
    <3>6. \A h \in Hosts :
             /\ InWA("OnRemoteHostInfoReceived", h)' <=> InWA("OnRemoteHostInfoReceived", h)
             /\ InWA("OnTerminalClientClosed", h)' <=> InWA("OnTerminalClientClosed", h)
      BY <3>1, <3>2
    <3> QED BY <1>2, <1>4, <1>5, <1>6, <2>1, <2>2, <3>4, <3>5, <3>6, CalmStep DEF HostsInv
  <2> QED BY <1>7, <2>3, <2>4
<1>8. CASE CreateNewTerminal
  <2>1. Head(tsLoop).fn = "CreateNewTerminal" /\ waLoop' = waLoop
    BY <1>8 DEF CreateNewTerminal, TakeTS, Runs
  <2>2. \A h \in DOMAIN remoteHosts' :
           h \in DOMAIN remoteHosts \/ (h = Head(tsLoop).h /\ GetClient(h))
    BY <1>8 DEF CreateNewTerminal, AddTerminal, Assign
  <2> QED BY <1>7, <2>1, <2>2
<1>9. CASE ResizeTerminal \/ DeleteTerminal \/ SendKeyEvent
  BY <1>7, <1>9 DEF ResizeTerminal, DeleteTerminal, SendKeyEvent, Command, TakeTS, Runs, tsVars
<1>10. ASSUME NEW fn \in {"HandleTerminalCreated", "HandleTerminalRead", "HandleTerminalEnd"},
              NEW k, Report(fn, k),
              k.fn \in {"OnTerminalCreated", "OnTerminalOutput", "OnTerminalClosed"},
              k.fn # "OnTerminalOutput" => k.h = Head(tsLoop).h
       PROVE  HostParts'
  <2>1. /\ Head(tsLoop).fn = fn /\ remoteHosts' = remoteHosts
        /\ \/ waLoop' = waLoop
           \/ waLoop' = Append(waLoop, k) /\ Head(tsLoop).h \in DOMAIN remoteHosts
    BY <1>10 DEF Report, TakeTS, Runs, tsVars, HasAppClient
  <2>2. CASE waLoop' = waLoop
    BY <1>7, <1>10, <2>1, <2>2
  <2>3. CASE waLoop' = Append(waLoop, k) /\ Head(tsLoop).h \in DOMAIN remoteHosts
    BY <1>7, <1>10, <2>1, <2>3
  <2> QED BY <2>1, <2>2, <2>3
<1>11. CASE HandleTerminalCreated
  BY <1>10, <1>11 DEF HandleTerminalCreated
<1>12. CASE HandleTerminalRead
  BY <1>10, <1>12 DEF HandleTerminalRead
<1>13. CASE HandleTerminalEnd
  BY <1>10, <1>13 DEF HandleTerminalEnd
<1>14. CASE OnClientClosed
  <2>1. PICK d \in Hosts : d = Head(tsLoop).h
    BY <1>1
  <2>2. PICK k : k = [fn |-> "OnTerminalClientClosed", h |-> d]
    OBVIOUS
  <2>3. /\ Head(tsLoop).fn = "OnClientClosed" /\ waLoop' = Append(waLoop, k)
        /\ DOMAIN remoteHosts' = DOMAIN remoteHosts \ {d}
    BY <1>14, <2>1, <2>2 DEF OnClientClosed, TakeTS, Runs, Erase, Restrict
  <2>4. ASSUME NEW fn, NEW h
        PROVE  InWA(fn, h)' <=> InWA(fn, h) \/ (fn = "OnTerminalClientClosed" /\ h = d)
    BY <1>1, <2>2, <2>3, WAPosted
  <2>5. ToldInOrder'
    BY <1>1, <2>2, <2>3, WAPostedOrder DEF HostsInv, HostParts
  <2>6. InTS("OnClientClosed", d)
    BY <1>1, <2>1, <2>3, HeadQueued
  <2>7. \A h \in Hosts : LossReported(h)' <=> LossReported(h)
    <3>1. ASSUME NEW h \in Hosts, h # d
          PROVE  /\ InTS("OnClientClosed", h)' <=> InTS("OnClientClosed", h)
                 /\ InWA("OnTerminalClientClosed", h)' <=> InWA("OnTerminalClientClosed", h)
      BY <1>3, <2>1, <2>4, <3>1
    <3>2. InWA("OnTerminalClientClosed", d)'
      BY <2>4
    <3> QED BY <2>6, <3>1, <3>2 DEF LossReported
  <2>8. \A h \in Hosts :
           /\ InWA("OnRemoteHostInfoReceived", h)' <=> InWA("OnRemoteHostInfoReceived", h)
           /\ InWA("OnTerminalAddReq", h)' <=> InWA("OnTerminalAddReq", h)
           /\ InWA("OnTerminalCreated", h)' <=> InWA("OnTerminalCreated", h)
           /\ InWA("OnTerminalClosed", h)' <=> InWA("OnTerminalClosed", h)
    BY <2>4
  <2>9. \A h \in Hosts : /\ Introduced(h)' <=> Introduced(h)
                         /\ GetClient(h)' <=> GetClient(h)
    BY <1>2, <2>8 DEF Introduced, GetClient
  <2>10. KnownHosts'
    BY <1>2, <1>5, <1>6, <2>8, <2>9 DEF HostsInv, HostParts, KnownHosts
  <2>11. Introductions'
    BY <1>2, <2>7, <2>8, <2>9 DEF HostsInv, HostParts, Introductions
  <2>12. Losses'
    BY <1>2, <2>7 DEF HostsInv, HostParts, Losses
  <2>13. NewsOfActiveHosts'
    <3>1. ASSUME NEW h \in DOMAIN remoteHosts'
          PROVE  h \in activeHosts /\ ~InWA("OnTerminalClientClosed", h)'
      BY <2>3, <2>4, <3>1 DEF HostsInv, HostParts, NewsOfActiveHosts
    <3> QED BY <1>2, <2>8, <3>1 DEF HostsInv, HostParts, NewsOfActiveHosts
  <2>14. ASSUME NEW h \in Hosts PROVE ListCurrent(h)'
    BY <1>2, <2>7, <2>8, <2>9 DEF HostsInv, HostParts, ListCurrent
  <2> QED BY <1>4, <2>5, <2>10, <2>11, <2>12, <2>13, <2>14 DEF HostParts
<1> QED
  BY <1>8, <1>9, <1>11, <1>12, <1>13, <1>14 DEF TerminalLoop

\* Reading a message takes the introduction away, or there was none.
LEMMA ReadInfoFirst ==
    ASSUME Typed, InfoFirst, NEW d \in Hosts, up[d] # <<>>,
           up' = [up EXCEPT ![d] = Tail(@)],
           monitored' \subseteq monitored \cup {d}
    PROVE  InfoFirst'
<1>1. up \in [Hosts -> Seq(UpMsg)] /\ up[d] \in Seq(UpMsg)
  BY HostTypes
<1>2. ASSUME NEW i \in DOMAIN up'[d]
      PROVE  i + 1 \in DOMAIN up[d] /\ up'[d][i] = up[d][i + 1] /\ i + 1 # 1
  <2>1. up'[d] = Tail(up[d])
    BY <1>1
  <2>2. /\ \A j \in DOMAIN Tail(up[d]) : j + 1 \in DOMAIN up[d] /\ Tail(up[d])[j] = up[d][j + 1]
        /\ \A j \in DOMAIN Tail(up[d]) : j + 1 # 1
    BY <1>1
  <2> QED BY <2>1, <2>2
<1>3. ASSUME NEW i \in DOMAIN up'[d] PROVE up'[d][i].type # "CLIENT_INFO"
  BY <1>2 DEF InfoFirst
<1>4. ASSUME NEW h \in Hosts, h # d PROVE up'[h] = up[h]
  BY <1>1, <1>4
<1> QED BY <1>3, <1>4 DEF InfoFirst

\* The connection thread of the server.
LEMMA ServerConnectionHosts ==
    ASSUME HostsInv, ServerConnection
    PROVE  HostParts'
<1>1. /\ UNCHANGED <<sessions, activeHosts, told, remoteHosts>>
      /\ waLoop \in Seq(WebAppTask) /\ tsLoop \in Seq(TerminalTask)
      /\ srvEnd \in [Hosts -> EndState] /\ up \in [Hosts -> Seq(UpMsg)]
      /\ activeHosts \subseteq Hosts /\ DOMAIN remoteHosts \subseteq Hosts
      /\ \A c \in WebClients : told[c].seen \subseteq Hosts
  BY HostTypes DEF HostsInv, ServerConnection, TerminalOnly, waVars, tsVars, ServerOnClientRead,
     ServerOnClientClosed, ServerOnClientUnresponsive
<1>2. PagesCurrent'
  BY <1>1 DEF HostsInv, HostParts, PagesCurrent
<1>3. ASSUME NEW d \in Hosts, ServerOnClientRead(d)
      PROVE  HostParts'
  <2> DEFINE msg == Head(up[d])
  <2>1. /\ UNCHANGED srvEnd /\ Delivers(d) /\ up[d] # <<>> /\ up' = [up EXCEPT ![d] = Tail(@)]
    BY <1>3 DEF ServerOnClientRead
  <2>2. msg \in UpMsg /\ 1 \in DOMAIN up[d] /\ up[d][1] = msg
    <3>1. up[d] \in Seq(UpMsg)
      BY <1>1
    <3>2. msg \in UpMsg
      BY <2>1, <3>1, HeadAndTail
    <3>3. 1 \in DOMAIN up[d] /\ up[d][1] = msg
      BY <2>1, <3>1, TaskTaken
    <3> QED BY <3>2, <3>3
  <2>3. \A h \in Hosts : GetClient(h)' <=> GetClient(h)
    BY <2>1 DEF GetClient
  <2>4. CASE msg.type = "CLIENT_INFO"
    <3>1. PICK k : k = [fn |-> "OnRemoteHostInfoReceived", h |-> d]
      OBVIOUS
    <3>2. monitored' = monitored \cup {d} /\ waLoop' = Append(waLoop, k) /\ tsLoop' = tsLoop
      BY <1>3, <2>4, <3>1 DEF ServerOnClientRead
    <3>3. d \notin monitored
      BY <2>2, <2>4 DEF HostsInv, HostParts, IntroducedOnce, InfoFirst
    <3>4. srvEnd[d] = "up"
      BY <2>1, <3>3 DEF Delivers, HostsInv, HostParts, IntroducedOnce
    <3>5. ~LossReported(d) /\ ~InWA("OnRemoteHostInfoReceived", d)
      BY <3>3, <3>4 DEF HostsInv, HostParts, Losses, Introductions
    <3>6. InfoFirst'
      BY <2>1, <3>2, ReadInfoFirst DEF HostsInv, HostParts, IntroducedOnce
    <3>7. IntroducedOnce'
      BY <2>1, <3>2, <3>4, <3>6 DEF HostsInv, HostParts, IntroducedOnce
    <3>8. ASSUME NEW fn, NEW h
          PROVE  InWA(fn, h)' <=> InWA(fn, h) \/ (fn = "OnRemoteHostInfoReceived" /\ h = d)
      BY <1>1, <3>1, <3>2, WAPosted
    <3>9. ASSUME NEW fn, NEW h PROVE InTS(fn, h)' <=> InTS(fn, h)
      BY <3>2 DEF InTS
    <3>10. ToldInOrder'
      BY <1>1, <3>1, <3>2, <3>5, WAPostedOrder DEF HostsInv, HostParts, LossReported
    <3>11. \A h \in Hosts : LossReported(h)' <=> LossReported(h)
      BY <3>8, <3>9 DEF LossReported
    <3>12. \A h \in Hosts : Introduced(h) => Introduced(h)'
      BY <3>2, <3>3, <3>8 DEF Introduced
    <3>13. \A h \in Hosts : /\ InWA("OnTerminalAddReq", h)' <=> InWA("OnTerminalAddReq", h)
                            /\ InTS("CreateNewTerminal", h)' <=> InTS("CreateNewTerminal", h)
                            /\ InWA("OnTerminalCreated", h)' <=> InWA("OnTerminalCreated", h)
                            /\ InWA("OnTerminalClosed", h)' <=> InWA("OnTerminalClosed", h)
                            /\ InWA("OnTerminalClientClosed", h)'
                                  <=> InWA("OnTerminalClientClosed", h)
      BY <3>8, <3>9
    <3>14. KnownHosts'
      BY <1>1, <3>12, <3>13 DEF HostsInv, HostParts, KnownHosts
    <3>15. Introductions'
      <4>1. ASSUME NEW h \in Hosts, InWA("OnRemoteHostInfoReceived", h)'
            PROVE  h = d \/ InWA("OnRemoteHostInfoReceived", h)
        BY <3>8, <4>1
      <4> QED BY <2>3, <3>2, <3>4, <3>11, <4>1 DEF HostsInv, HostParts, Introductions, GetClient
    <3>16. Losses'
      BY <2>1, <3>11 DEF HostsInv, HostParts, Losses
    <3>17. NewsOfActiveHosts'
      BY <1>1, <3>13 DEF HostsInv, HostParts, NewsOfActiveHosts
    <3>18. ASSUME NEW h \in Hosts PROVE ListCurrent(h)'
      <4>1. CASE h = d
        BY <3>8, <4>1 DEF ListCurrent
      <4>2. CASE h # d
        <5>1. InWA("OnRemoteHostInfoReceived", h)' <=> InWA("OnRemoteHostInfoReceived", h)
          BY <3>8, <4>2
        <5> QED BY <1>1, <2>3, <3>2, <3>11, <4>2, <5>1 DEF HostsInv, HostParts, ListCurrent
      <4> QED BY <4>1, <4>2
    <3> QED BY <1>2, <3>7, <3>10, <3>14, <3>15, <3>16, <3>17, <3>18 DEF HostParts
  <2>5. CASE msg.type # "CLIENT_INFO"
    <3>1. PICK k : /\ tsLoop' = Append(tsLoop, k)
                   /\ k.fn \notin {"OnClientClosed", "CreateNewTerminal"}
      <4>1. tsLoop' = Append(tsLoop, TaskOf(d, msg))
        BY <1>3, <2>5 DEF ServerOnClientRead
      <4>2. TaskOf(d, msg).fn \notin {"OnClientClosed", "CreateNewTerminal"}
        BY <2>2, <2>5, MessageFields DEF TaskOf
      <4> QED BY <4>1, <4>2
    <3>2. waLoop' = waLoop /\ monitored' = monitored
      BY <1>3, <2>5 DEF ServerOnClientRead
    <3>3. ASSUME NEW fn, NEW h PROVE InTS(fn, h)' <=> InTS(fn, h) \/ (k.fn = fn /\ k.h = h)
      BY <1>1, <3>1, TSPosted
    <3>4. ASSUME NEW fn, NEW h PROVE InWA(fn, h)' <=> InWA(fn, h)
      BY <3>2 DEF InWA
    <3>5. InfoFirst' /\ ToldInOrder'
      <4>1. InfoFirst'
        BY <2>1, <3>2, ReadInfoFirst DEF HostsInv, HostParts, IntroducedOnce
      <4>2. ToldInOrder'
        BY <3>2 DEF HostsInv, HostParts, ToldInOrder
      <4> QED BY <4>1, <4>2
    <3>6. \A h \in Hosts :
             /\ InWA("OnRemoteHostInfoReceived", h)' <=> InWA("OnRemoteHostInfoReceived", h)
             /\ InWA("OnTerminalClientClosed", h)' <=> InWA("OnTerminalClientClosed", h)
             /\ InTS("OnClientClosed", h)' <=> InTS("OnClientClosed", h)
             /\ InWA("OnTerminalAddReq", h)' <=> InWA("OnTerminalAddReq", h)
             /\ InTS("CreateNewTerminal", h)' <=> InTS("CreateNewTerminal", h)
             /\ InWA("OnTerminalCreated", h)' <=> InWA("OnTerminalCreated", h)
             /\ InWA("OnTerminalClosed", h)' <=> InWA("OnTerminalClosed", h)
      BY <3>1, <3>3, <3>4
    <3> QED
      BY <1>1, <1>2, <2>1, <3>2, <3>5, <3>6, CalmStep
      DEF HostsInv, HostParts, KnownHosts, NewsOfActiveHosts
  <2> QED BY <2>4, <2>5
<1>4. ASSUME NEW d \in Hosts, ServerOnClientClosed(d) \/ ServerOnClientUnresponsive(d)
      PROVE  HostParts'
  <2>1. PICK k : k = [fn |-> "OnClientClosed", h |-> d]
    OBVIOUS
  <2>2. /\ waLoop' = waLoop /\ monitored' = monitored /\ tsLoop' = Append(tsLoop, k)
        /\ srvEnd'[d] \in {"removed", "closed"} /\ (srvEnd'[d] = "removed" => d \in monitored)
        /\ \A h \in Hosts : h # d => srvEnd'[h] = srvEnd[h]
    <3>1. CASE ServerOnClientClosed(d)
      BY <1>1, <2>1, <3>1 DEF ServerOnClientClosed, tsVars
    <3>2. CASE ServerOnClientUnresponsive(d)
      BY <1>1, <2>1, <3>2 DEF ServerOnClientUnresponsive, tsVars
    <3> QED BY <1>4, <3>1, <3>2
  <2>3. ASSUME NEW fn, NEW h
        PROVE  InTS(fn, h)' <=> InTS(fn, h) \/ (fn = "OnClientClosed" /\ h = d)
    BY <1>1, <2>1, <2>2, TSPosted
  <2>4. ASSUME NEW fn, NEW h PROVE InWA(fn, h)' <=> InWA(fn, h)
    BY <2>2 DEF InWA
  <2>5. ToldInOrder'
    BY <2>2 DEF HostsInv, HostParts, ToldInOrder
  <2>6. \A h \in Hosts : /\ LossReported(h)' <=> LossReported(h) \/ h = d
                         /\ Introduced(h)' <=> Introduced(h)
                         /\ InTS("CreateNewTerminal", h)' <=> InTS("CreateNewTerminal", h)
                         /\ h # d => (GetClient(h)' <=> GetClient(h))
    BY <2>2, <2>3, <2>4 DEF LossReported, Introduced, GetClient
  <2>7. IntroducedOnce'
    <3>1. InfoFirst'
      <4>1. \A h \in Hosts : up'[h] = up[h] \/ up'[h] = <<>>
        <5>1. CASE ServerOnClientClosed(d)
          BY <1>1, <5>1 DEF ServerOnClientClosed
        <5>2. CASE ServerOnClientUnresponsive(d)
          BY <5>2 DEF ServerOnClientUnresponsive
        <5> QED BY <1>4, <5>1, <5>2
      <4>2. DOMAIN <<>> = {}
        OBVIOUS
      <4> QED BY <2>2, <4>1, <4>2 DEF HostsInv, HostParts, IntroducedOnce, InfoFirst
    <3> QED BY <2>2, <3>1 DEF HostsInv, HostParts, IntroducedOnce
  <2>8. KnownHosts'
    BY <1>1, <2>4, <2>6 DEF HostsInv, HostParts, KnownHosts
  <2>9. Introductions'
    BY <2>2, <2>4, <2>6 DEF HostsInv, HostParts, Introductions
  <2>10. Losses'
    BY <2>2, <2>6 DEF HostsInv, HostParts, Losses
  <2>11. NewsOfActiveHosts'
    BY <1>1, <2>4 DEF HostsInv, HostParts, NewsOfActiveHosts
  <2>12. ASSUME NEW h \in Hosts PROVE ListCurrent(h)'
    BY <1>1, <2>2, <2>4, <2>6 DEF HostsInv, HostParts, ListCurrent
  <2> QED BY <1>2, <2>5, <2>7, <2>8, <2>9, <2>10, <2>11, <2>12 DEF HostParts
<1> QED
  BY <1>3, <1>4 DEF ServerConnection

\* A machine connects: the connection is as new as its introduction.
LEMMA ConnectedHosts ==
    ASSUME HostsInv, NEW m \in Machines, NEW d \in Hosts, ClientOnClientConnected(m, d), ClientOnly
    PROVE  HostParts'
<1>1. /\ UNCHANGED <<waLoop, tsLoop, sessions, activeHosts, told, remoteHosts, monitored>>
      /\ srvEnd \in [Hosts -> EndState] /\ up \in [Hosts -> Seq(UpMsg)]
      /\ srvEnd[d] = "none" /\ srvEnd' = [srvEnd EXCEPT ![d] = "up"]
      /\ up' = [up EXCEPT ![d] = <<[type |-> "CLIENT_INFO"]>>]
      /\ activeHosts \subseteq Hosts /\ DOMAIN remoteHosts \subseteq Hosts
      /\ \A c \in WebClients : told[c].seen \subseteq Hosts
  BY HostTypes DEF HostsInv, ClientOnClientConnected, ClientOnly, waVars, tsVars
<1>2. d \notin monitored
  BY <1>1 DEF HostsInv, HostParts, IntroducedOnce
<1>3. /\ srvEnd'[d] = "up" /\ \A h \in Hosts : h # d => srvEnd'[h] = srvEnd[h]
      /\ \A h \in Hosts : h # d => up'[h] = up[h]
      /\ DOMAIN up'[d] = {1}
  BY <1>1
<1>4. InfoFirst'
  BY <1>1, <1>2, <1>3 DEF HostsInv, HostParts, IntroducedOnce, InfoFirst
<1>5. IntroducedOnce'
  BY <1>1, <1>2, <1>3, <1>4 DEF HostsInv, HostParts, IntroducedOnce
<1>6. ~LossReported(d) /\ ~InWA("OnRemoteHostInfoReceived", d)
  BY <1>1, <1>2 DEF HostsInv, HostParts, Losses, Introductions
<1>7. \A fn, h : (InWA(fn, h)' <=> InWA(fn, h)) /\ (InTS(fn, h)' <=> InTS(fn, h))
  BY <1>1 DEF InWA, InTS
<1>8. \A h : (LossReported(h)' <=> LossReported(h)) /\ (Introduced(h)' <=> Introduced(h))
  BY <1>1, <1>7 DEF LossReported, Introduced
<1>9. \A h \in Hosts : h # d => (GetClient(h)' <=> GetClient(h))
  BY <1>3 DEF GetClient
<1>10. PagesCurrent'
  BY <1>1 DEF HostsInv, HostParts, PagesCurrent
<1>11. ToldInOrder'
  BY <1>1 DEF HostsInv, HostParts, ToldInOrder
<1>12. KnownHosts'
  BY <1>1, <1>7, <1>8 DEF HostsInv, HostParts, KnownHosts
<1>13. Introductions'
  BY <1>1, <1>6, <1>7, <1>8, <1>9 DEF HostsInv, HostParts, Introductions
<1>14. Losses'
  BY <1>3, <1>6, <1>8 DEF HostsInv, HostParts, Losses
<1>15. NewsOfActiveHosts'
  BY <1>1, <1>7 DEF HostsInv, HostParts, NewsOfActiveHosts
<1>16. ASSUME NEW h \in Hosts PROVE ListCurrent(h)'
  <2>1. CASE h # d
    BY <1>1, <1>7, <1>8, <1>9, <2>1 DEF HostsInv, HostParts, ListCurrent
  <2>2. CASE h = d
    <3>1. d \notin activeHosts
      BY <1>1, <1>2, <1>6 DEF HostsInv, HostParts, ListCurrent
    <3> QED BY <1>1, <1>2, <2>2, <3>1 DEF ListCurrent
  <2> QED BY <2>1, <2>2
<1> QED
  BY <1>5, <1>10, <1>11, <1>12, <1>13, <1>14, <1>15, <1>16 DEF HostParts

\* A step that moves no message but reports of a machine.
LEMMA ReportSent ==
    ASSUME HostsInv, UNCHANGED <<waLoop, tsLoop, srvEnd, waVars, tsVars>>, InfoFirst'
    PROVE  HostParts'
<1>1. \A fn, h : (InWA(fn, h)' <=> InWA(fn, h)) /\ (InTS(fn, h)' <=> InTS(fn, h))
  BY DEF InWA, InTS
<1>2. PagesCurrent'
  BY DEF HostsInv, HostParts, PagesCurrent, waVars
<1>3. ToldInOrder'
  BY DEF HostsInv, HostParts, ToldInOrder
<1>4. UNCHANGED <<srvEnd, monitored, activeHosts, told, remoteHosts>>
  BY DEF waVars, tsVars
<1> QED
  BY <1>1, <1>2, <1>3, <1>4, CalmStep, HostTypes
  DEF HostsInv, HostParts, KnownHosts, NewsOfActiveHosts

\* What a machine sends later is not its introduction.
LEMMA SentInfoFirst ==
    ASSUME Typed, InfoFirst, monitored' = monitored, NEW d, NEW msg \in UpMsg,
           msg.type # "CLIENT_INFO", SendUp(d, msg)
    PROVE  InfoFirst'
<1>1. up \in [Hosts -> Seq(UpMsg)]
  BY HostTypes
<1>2. ASSUME NEW h \in Hosts
      PROVE  up'[h] = up[h] \/ up'[h] = Append(up[h], msg)
  BY <1>1 DEF SendUp
<1>3. ASSUME NEW h \in Hosts, NEW i \in DOMAIN up'[h], up'[h][i].type = "CLIENT_INFO"
      PROVE  i \in DOMAIN up[h] /\ up'[h][i] = up[h][i]
  <2>1. CASE up'[h] = up[h]
    BY <1>3, <2>1
  <2>2. CASE up'[h] = Append(up[h], msg)
    <3>1. up[h] \in Seq(UpMsg)
      BY <1>1
    <3> QED BY <1>3, <2>2, <3>1, TaskPosted
  <2> QED BY <1>2, <2>1, <2>2
<1> QED BY <1>3 DEF InfoFirst

\* The machines.
LEMMA ClientHosts ==
    ASSUME HostsInv, ClientConnection \/ (\E m \in Machines : ClientLoop(m)) \/ Shells
    PROVE  HostParts'
<1> USE DEF HostsInv
<1>1. Typed /\ InfoFirst /\ (UNCHANGED <<up, monitored>> => InfoFirst')
  BY DEF HostParts, IntroducedOnce, InfoFirst
<1>2. CASE \E m \in Machines, d \in Hosts : ClientOnClientConnected(m, d) /\ ClientOnly
  BY <1>2, ConnectedHosts
<1>3. CASE /\ UNCHANGED <<waLoop, tsLoop, srvEnd, up>>
           /\ ClientOnly
  BY <1>1, <1>3, ReportSent DEF ClientOnly, tsVars
<1>4. ASSUME NEW d, NEW msg \in UpMsg, msg.type # "CLIENT_INFO", SendUp(d, msg),
             UNCHANGED <<waLoop, tsLoop, srvEnd>>, ClientOnly
      PROVE  HostParts'
  <2>1. InfoFirst'
    BY <1>1, <1>4, SentInfoFirst DEF ClientOnly, tsVars
  <2> QED BY <1>4, <2>1, ReportSent DEF ClientOnly
<1>5. CASE ClientConnection
  BY <1>2, <1>3, <1>5 DEF ClientConnection, ClientOnClientRead, HandleDisconnected
<1>6. ASSUME NEW m \in Machines, loop[m] # <<>>
      PROVE  Head(loop[m]) \in ClientTask
  BY <1>6, HeadAndTail DEF Typed, TypeOK, TerminalClientTypeOK
<1>7. ASSUME NEW m \in Machines, ClientLoop(m)
      PROVE  HostParts'
  <2>1. CASE SendCreated(m) /\ ClientOnly
    <3>1. PICK msg : msg = [type |-> "ON_TERMINAL_CREATED", t |-> Head(loop[m]).t,
                            ok |-> Head(loop[m]).ok]
      OBVIOUS
    <3>2. msg \in UpMsg /\ msg.type # "CLIENT_INFO"
      BY <1>6, <2>1, <3>1, MessageFields, SentMessages DEF SendCreated, Take, Runs
    <3>3. SendUp(client[m], msg) /\ UNCHANGED <<waLoop, tsLoop, srvEnd>>
      BY <2>1, <3>1 DEF SendCreated
    <3> QED BY <1>4, <2>1, <3>2, <3>3
  <2>2. CASE OnTerminalEnd(m) /\ ClientOnly
    <3>1. PICK msg : msg = [type |-> "ON_TERMINAL_END", t |-> Head(loop[m]).t]
      OBVIOUS
    <3>2. msg \in UpMsg /\ msg.type # "CLIENT_INFO"
      BY <1>6, <2>2, <3>1, MessageFields, SentMessages DEF OnTerminalEnd, Take, Runs
    <3>3. SendUp(client[m], msg) /\ UNCHANGED <<waLoop, tsLoop, srvEnd>>
      BY <2>2, <3>1 DEF OnTerminalEnd
    <3> QED BY <1>4, <2>2, <3>2, <3>3
  <2>3. CASE ~(SendCreated(m) /\ ClientOnly) /\ ~(OnTerminalEnd(m) /\ ClientOnly)
    BY <1>3, <1>7, <2>3 DEF ClientLoop, HandleCreateTerminal, HandleDeleteTerminal,
       HandleResizeTerminal, HandleTerminalWrite, DeleteTerminals, EnableReadFromTerminals, netVars
  <2> QED BY <2>1, <2>2, <2>3
<1>8. ASSUME NEW m \in Machines, NEW t \in 1 .. idCounter, OnTerminalRead(m, t), ClientOnly
      PROVE  HostParts'
  <2>1. PICK msg : msg = [type |-> "ON_TERMINAL_READ", t |-> t]
    OBVIOUS
  <2>2. t \in TerminalId
    BY DEF Typed, TypeOK, TerminalServerTypeOK, TerminalId
  <2>3. msg \in UpMsg /\ msg.type # "CLIENT_INFO"
    BY <2>1, <2>2, SentMessages
  <2>4. SendUp(client[m], msg) /\ UNCHANGED <<waLoop, tsLoop, srvEnd>>
    BY <1>8, <2>1 DEF OnTerminalRead
  <2> QED BY <1>4, <1>8, <2>3, <2>4
<1>9. ASSUME NEW m \in Machines, NEW t \in 1 .. idCounter, ShellExit(m, t), ClientOnly
      PROVE  HostParts'
  BY <1>3, <1>9 DEF ShellExit, netVars
<1> QED
  BY <1>5, <1>7, <1>8, <1>9 DEF Shells

LEMMA InitHosts == ASSUME Init PROVE HostsInv
<1>1. Typed
  BY InitTyped
<1>2. /\ waLoop = <<>> /\ tsLoop = <<>> /\ up = [h \in Hosts |-> <<>>]
      /\ srvEnd = [h \in Hosts |-> "none"]
      /\ DOMAIN sessions = {} /\ activeHosts = {} /\ DOMAIN remoteHosts = {} /\ monitored = {}
      /\ \A c \in WebClients : told[c].seen = {}
  BY DEF Init, NetworkInit, WebAppServerInit, SessionsInit, TerminalServerInit, EmptyMap
<1>3. DOMAIN <<>> = {}
  OBVIOUS
<1>4. \A fn, h : ~InWA(fn, h) /\ ~InTS(fn, h)
  BY <1>2, <1>3 DEF InWA, InTS
<1>5. InfoFirst
  BY <1>2, <1>3 DEF InfoFirst
<1>6. ToldInOrder
  BY <1>2, <1>3 DEF ToldInOrder
<1>7. PagesCurrent /\ IntroducedOnce
  BY <1>2, <1>5 DEF PagesCurrent, IntroducedOnce
<1>8. KnownHosts /\ Introductions /\ Losses /\ NewsOfActiveHosts
  BY <1>2, <1>4 DEF KnownHosts, Introductions, Losses, LossReported, NewsOfActiveHosts
<1>9. \A h \in Hosts : ListCurrent(h)
  BY <1>2 DEF ListCurrent
<1> QED BY <1>1, <1>6, <1>7, <1>8, <1>9 DEF HostsInv, HostParts

LEMMA NextHosts == ASSUME HostsInv, [Next]_vars PROVE HostsInv'
<1>1. Typed'
  BY NextTyped DEF HostsInv
<1>2. CASE UNCHANGED vars
  <2>1. UNCHANGED <<waLoop, tsLoop, srvEnd, up, waVars, tsVars>>
    BY <1>2 DEF vars, netVars
  <2>2. InfoFirst'
    BY <2>1 DEF HostsInv, HostParts, IntroducedOnce, InfoFirst, tsVars
  <2> QED BY <1>1, <2>1, <2>2, ReportSent DEF HostsInv
<1>3. CASE Next
  <2>1. HostParts'
    BY <1>3, PagesHosts, WebAppLoopHosts, TerminalLoopHosts, ServerConnectionHosts, ClientHosts
    DEF Next
  <2> QED BY <1>1, <2>1 DEF HostsInv
<1> QED BY <1>2, <1>3

\* The host lists of the pages are those of the server, and they show who is
\* connected as soon as no report is under way: neither the introduction that
\* overtakes the loss of a host, nor a loss reported twice, leaves a list that
\* is wrong for good (TerminalServer.cpp HandleClientInfo, OnClientClosed,
\* WebAppServer.cpp OnRemoteHostInfoReceived, OnTerminalClientClosed).
THEOREM HostLists == Spec => []HostListsCurrent
<1>1. Init => HostsInv
  BY InitHosts
<1>2. HostsInv /\ [Next]_vars => HostsInv'
  BY NextHosts
<1>3. HostsInv => HostListsCurrent
  BY DEF HostsInv, HostParts, PagesCurrent, ListCurrent, LossReported, InWA, InTS,
     HostListsCurrent, Queued
<1> QED
  BY <1>1, <1>2, <1>3, PTL DEF Spec
-----------------------------------------------------------------------------
\* What NewsOfListedHosts says of a step.
ListedNews ==
    \A c \in WebClients :
        \A t \in (told'[c].added \ told[c].added) \cup (told'[c].closed \ told[c].closed) :
            owner[t].h \in told[c].hosts

\* Only two tasks tell of a terminal, and both name the host it runs on.
LEMMA NewsStep ==
    ASSUME HostsInv, Routed, [Next]_vars
    PROVE  [ListedNews]_vars
<1>1. told \in [WebClients -> ToldType]
  BY HostTypes DEF HostsInv
<1>2. ASSUME \A c \in WebClients : /\ told'[c].added = told[c].added
                                   /\ told'[c].closed = told[c].closed
      PROVE  ListedNews
  BY <1>2 DEF ListedNews
<1>3. CASE told' = told
  BY <1>2, <1>3
<1>4. CASE WebAppLoop
  <2> DEFINE task == Head(waLoop)
  <2>1. waLoop # <<>> /\ waLoop \in Seq(WebAppTask) /\ task \in WebAppTask
    BY <1>4, WebAppLoopFrame
  <2>2. task \in RoutedWebAppTask
    BY <2>1, HeadAndTail DEF Routed, RoutedLoops
  <2>3. ASSUME OnTerminalCreated \/ OnTerminalClosed
        PROVE  ListedNews
    <3>1. /\ task.fn \in {"OnTerminalCreated", "OnTerminalClosed"}
          /\ task.c \in WebClients /\ task.h \in Hosts
      BY <2>1, <2>3, WebAppTaskFields DEF OnTerminalCreated, OnTerminalClosed, TakeWA, Runs
    <3>2. owner[task.t].h = task.h
      BY <2>2, <3>1 DEF RoutedWebAppTask, RunsOn
    <3>3. task.h \in activeHosts
      BY <2>1, <3>1, HeadQueued DEF HostsInv, HostParts, NewsOfActiveHosts
    <3>4. ASSUME NEW c \in WebClients
          PROVE  \/ told'[c] = told[c]
                 \/ /\ c = task.c /\ HasSession(c)
                    /\ \/ told'[c] = [told[c] EXCEPT !.added = @ \cup {task.t}]
                       \/ told'[c] = [told[c] EXCEPT !.closed = @ \cup {task.t}]
      <4>1. CASE OnTerminalCreated
        BY <1>1, <4>1 DEF OnTerminalCreated
      <4>2. CASE OnTerminalClosed
        BY <1>1, <4>2 DEF OnTerminalClosed
      <4> QED BY <2>3, <4>1, <4>2
    <3>5. ASSUME NEW c \in WebClients,
                 NEW t \in (told'[c].added \ told[c].added) \cup (told'[c].closed \ told[c].closed)
          PROVE  owner[t].h \in told[c].hosts
      <4>1. told[c] \in ToldType
        BY <1>1
      <4>2. t = task.t /\ HasSession(c)
        <5>1. CASE told'[c] = told[c]
          BY <3>5, <5>1
        <5>2. CASE /\ HasSession(c)
                   /\ told'[c] = [told[c] EXCEPT !.added = @ \cup {task.t}]
          BY <3>5, <4>1, <5>2 DEF ToldType
        <5>3. CASE /\ HasSession(c)
                   /\ told'[c] = [told[c] EXCEPT !.closed = @ \cup {task.t}]
          BY <3>5, <4>1, <5>3 DEF ToldType
        <5> QED BY <3>4, <5>1, <5>2, <5>3
      <4>3. told[c].hosts = activeHosts
        BY <4>2 DEF HostsInv, HostParts, PagesCurrent, HasSession
      <4> QED BY <3>2, <3>3, <4>2, <4>3
    <3> QED BY <3>5 DEF ListedNews
  <2>4. CASE AddClient \/ OnTerminalOutput \/ OnRemoteHostInfoReceived \/ OnTerminalClientClosed
    <3>1. ASSUME NEW c \in WebClients, told[c] \in ToldType
          PROVE  told'[c].added = told[c].added /\ told'[c].closed = told[c].closed
      <4>1. CASE AddClient
        BY <1>1, <3>1, <4>1 DEF AddClient, ToldType
      <4>2. CASE OnTerminalOutput
        BY <1>1, <3>1, <4>2 DEF OnTerminalOutput, ToldType
      <4>3. CASE OnRemoteHostInfoReceived
        BY <1>1, <3>1, <4>3 DEF OnRemoteHostInfoReceived, ToldType
      <4>4. CASE OnTerminalClientClosed
        BY <1>1, <3>1, <4>4 DEF OnTerminalClientClosed, ToldType
      <4> QED BY <2>4, <4>1, <4>2, <4>3, <4>4
    <3> QED BY <1>1, <1>2, <3>1
  <2>5. CASE \/ RemoveClient \/ OnTerminalAddReq \/ OnTerminalResizeReq \/ OnTerminalDelReq
             \/ OnTerminalKeyEvent
    BY <1>3, <2>5 DEF RemoveClient, OnTerminalAddReq, OnTerminalResizeReq, OnTerminalDelReq,
       OnTerminalKeyEvent, waVars
  <2> QED BY <1>4, <2>3, <2>4, <2>5 DEF WebAppLoop
<1>5. CASE \/ Pages \/ TerminalLoop \/ ServerConnection \/ ClientConnection
           \/ (\E m \in Machines : ClientLoop(m)) \/ Shells
  <2>1. told' = told
    BY <1>5 DEF Pages, OnWsClientConnected, OnWsClientMessage, OnWsClientClosed, TerminalLoop,
       ServerConnection, TerminalOnly, ClientConnection, ClientLoop, Shells, ClientOnly, waVars
  <2> QED BY <1>3, <2>1
<1> QED
  BY <1>4, <1>5 DEF Next

\* A page is told of a terminal, or of its end, only while it lists the host the
\* terminal runs on: the loss of a host passes through the same two loops as the
\* reports of its terminals and overtakes none of them, and no introduction puts
\* the host back (TerminalServer.cpp HandleTerminalCreated, HandleTerminalEnd,
\* OnClientClosed, WebAppServer.cpp OnTerminalCreated, OnTerminalClosed).
THEOREM NewsListed == Spec => NewsOfListedHosts
<1>1. Init => HostsInv /\ Routed
  BY InitHosts, InitRouted
<1>2. HostsInv /\ Routed /\ [Next]_vars => (HostsInv /\ Routed)'
  BY NextHosts, NextRouted
<1>3. HostsInv /\ Routed /\ [Next]_vars => [ListedNews]_vars
  BY NewsStep
<1>4. NewsOfListedHosts <=> [][ListedNews]_vars
  BY DEF NewsOfListedHosts, ListedNews
<1> QED
  BY <1>1, <1>2, <1>3, <1>4, PTL DEF Spec
-----------------------------------------------------------------------------
(***************************************************************************)
(* The server that TerminalHosts assumes.                                  *)
(***************************************************************************)
\* The hosts of the terminals, as the clients' specification keeps them.
HostOf == [t \in 1 .. Len(owner) |-> owner[t].h]

\* What concerns the loops and the pages only is a stutter.
LEMMA UnseenByClients ==
    ASSUME UNCHANGED <<srvEnd, cliEnd, up, down, owner, tcVars>>
    PROVE  [AnyServer!Next]_(AnyServer!hostsVars)
  BY DEF AnyServer!hostsVars, AnyServer!netVars, AnyServer!tcVars, tcVars

LEMMA ClientsSame ==
    ASSUME Routed, ClientConnection \/ (\E m \in Machines : ClientLoop(m)) \/ Shells
    PROVE  AnyServer!Next
<1>1. UNCHANGED owner /\ 1 .. idCounter = DOMAIN HostOf
  BY DEF ClientConnection, ClientLoop, Shells, ClientOnly, tsVars, Routed, HostOf
<1>2. UNCHANGED HostOf
  BY <1>1 DEF HostOf
<1> USE <1>2 DEF HostOf
<1>3. CASE ClientConnection
  <2>1. CASE \E m \in Machines, h \in Hosts : ClientOnClientConnected(m, h)
    BY <2>1
    DEF ClientOnClientConnected, Connected, AnyServer!ClientOnClientConnected,
        AnyServer!Connected, AnyServer!ClientStep, AnyServer!Reaction, AnyServer!Next
  <2>2. CASE \E m \in Machines : ClientOnClientRead(m)
    BY <2>2
    DEF ClientOnClientRead, Connected, ResolvePendingMsgUpdated, ReadControl, HandlerOf,
        AnyServer!ClientOnClientRead, AnyServer!Connected, AnyServer!ResolvePendingMsgUpdated,
        AnyServer!ReadControl, AnyServer!HandlerOf,
        AnyServer!ClientStep, AnyServer!Reaction, AnyServer!Next
  <2>3. CASE \E m \in Machines : HandleDisconnected(m)
    BY <2>3
    DEF HandleDisconnected, Connected, AnyServer!HandleDisconnected, AnyServer!Connected,
        AnyServer!ClientStep, AnyServer!Reaction, AnyServer!Next
  <2> QED BY <1>3, <2>1, <2>2, <2>3 DEF ClientConnection
<1>4. ASSUME NEW m \in Machines, ClientLoop(m) PROVE AnyServer!ClientStep(m)
  <2> USE DEF Take, Runs, Remove, SendUp, GetClient, Delivers, netVars,
              AnyServer!Take, AnyServer!Runs, AnyServer!Remove, AnyServer!SendUp,
              AnyServer!Delivers, AnyServer!netVars, AnyServer!ClientStep
  <2>1. CASE HandleCreateTerminal(m)
    BY <2>1 DEF HandleCreateTerminal, AnyServer!HandleCreateTerminal
  <2>2. CASE SendCreated(m)
    BY <2>2 DEF SendCreated, AnyServer!SendCreated
  <2>3. CASE HandleDeleteTerminal(m)
    BY <2>3 DEF HandleDeleteTerminal, AnyServer!HandleDeleteTerminal
  <2>4. CASE HandleResizeTerminal(m)
    BY <2>4 DEF HandleResizeTerminal, AnyServer!HandleResizeTerminal
  <2>5. CASE HandleTerminalWrite(m)
    BY <2>5 DEF HandleTerminalWrite, AnyServer!HandleTerminalWrite
  <2>6. CASE DeleteTerminals(m)
    BY <2>6 DEF DeleteTerminals, AnyServer!DeleteTerminals
  <2>7. CASE EnableReadFromTerminals(m)
    BY <2>7 DEF EnableReadFromTerminals, AnyServer!EnableReadFromTerminals
  <2>8. CASE OnTerminalEnd(m)
    BY <2>8 DEF OnTerminalEnd, AnyServer!OnTerminalEnd
  <2> QED BY <1>4, <2>1, <2>2, <2>3, <2>4, <2>5, <2>6, <2>7, <2>8 DEF ClientLoop
<1>5. CASE Shells
  <2>1. ASSUME NEW m \in Machines, NEW t \in 1 .. idCounter, OnTerminalRead(m, t)
        PROVE  AnyServer!ClientStep(m)
    BY <1>1, <2>1
    DEF OnTerminalRead, SendUp, Delivers, ResolvePendingMsgUpdated, ReadControl,
        AnyServer!OnTerminalRead, AnyServer!SendUp, AnyServer!Delivers,
        AnyServer!ResolvePendingMsgUpdated, AnyServer!ReadControl, AnyServer!ClientStep
  <2>2. ASSUME NEW m \in Machines, NEW t \in 1 .. idCounter, ShellExit(m, t)
        PROVE  AnyServer!ClientStep(m)
    BY <1>1, <2>2 DEF ShellExit, netVars, AnyServer!ShellExit, AnyServer!netVars,
       AnyServer!ClientStep
  <2> QED BY <1>5, <2>1, <2>2 DEF Shells, AnyServer!Reaction, AnyServer!Next
<1> QED BY <1>3, <1>4, <1>5 DEF AnyServer!Reaction, AnyServer!Next

\* A terminal that is ordered gets the next id and is recorded with its host.
LEMMA OrderIsOrder ==
    ASSUME Routed, CreateNewTerminal, TerminalOnly
    PROVE  [AnyServer!Next]_(AnyServer!hostsVars)
<1>1. PICK h \in Hosts, c \in WebClients : h = Head(tsLoop).h /\ c = Head(tsLoop).c
  <2>1. Head(tsLoop) \in TerminalTask
    BY HeadAndTail DEF CreateNewTerminal, TakeTS, Runs, Routed, Typed, TypeOK, NetworkTypeOK
  <2> QED BY <2>1, TerminalTaskFields DEF CreateNewTerminal, TakeTS, Runs
<1>2. CASE UNCHANGED <<down, owner>>
  BY <1>2, UnseenByClients DEF CreateNewTerminal, TerminalOnly
<1>3. CASE /\ GetClient(h)
           /\ owner' = Append(owner, [c |-> c, h |-> h])
           /\ SendDown(h, [type |-> "CREATE_TERMINAL", t |-> NextId])
  <2>1. owner \in Seq([c : WebClients, h : Hosts])
    BY DEF Routed, Typed, TypeOK, TerminalServerTypeOK
  <2>2. HostOf' = Append(HostOf, h)
    BY <1>3, <2>1 DEF HostOf
  <2>3. NextId = Len(HostOf) + 1
    BY <2>1 DEF HostOf, NextId, Routed
  <2>4. AnyServer!SendDown(h, [type |-> "CREATE_TERMINAL", t |-> AnyServer!NewId])
    BY <1>3, <2>3 DEF SendDown, AnyServer!SendDown, AnyServer!NewId, HostOf
  <2>5. AnyServer!ServerOrders(h)
    BY <1>3, <2>2, <2>4
    DEF CreateNewTerminal, TerminalOnly, GetClient, HostOf, tcVars,
        AnyServer!ServerOrders, AnyServer!GetClient, AnyServer!tcVars
  <2> QED BY <2>5 DEF AnyServer!Next
<1> QED BY <1>1, <1>2, <1>3 DEF CreateNewTerminal

\* A command is sent for a terminal of the connection it is sent on.
LEMMA CommandIsCommand ==
    ASSUME Routed, NEW type \in {"DELETE_TERMINAL", "RESIZE_TERMINAL", "ON_TERMINAL_WRITE"},
           NEW fn \in {"ResizeTerminal", "DeleteTerminal", "SendKeyEvent"},
           Command(fn, type), TerminalOnly
    PROVE  [AnyServer!Next]_(AnyServer!hostsVars)
<1>1. PICK k \in RoutedTerminalTask : k = Head(tsLoop) /\ k.fn = fn
  BY HeadAndTail DEF Command, TakeTS, Runs, Routed, RoutedLoops
<1>2. PICK h, t : h = k.h /\ t = k.t /\ RunsOn(t, h)
  BY <1>1 DEF RoutedTerminalTask
<1>3. h \in Hosts
  BY <1>1, <1>2, TerminalTaskFields DEF RoutedTerminalTask
<1>4. UNCHANGED <<srvEnd, cliEnd, up, owner, tcVars>> /\ UNCHANGED HostOf
  BY DEF Command, TerminalOnly, tsVars, HostOf
<1>5. CASE UNCHANGED down
  BY <1>4, <1>5, UnseenByClients
<1>6. CASE GetClient(h) /\ SendDown(h, [type |-> type, t |-> t])
  <2>1. t \in DOMAIN HostOf /\ HostOf[t] = h
    BY <1>2 DEF RunsOn, Created, HostOf
  <2>2. AnyServer!SendDown(h, [type |-> type, t |-> t])
    BY <1>6 DEF SendDown, AnyServer!SendDown
  <2>3. AnyServer!ServerCommands(h)
    BY <1>4, <1>6, <2>1, <2>2
    DEF GetClient, HostOf, tcVars, AnyServer!ServerCommands, AnyServer!GetClient,
        AnyServer!tcVars
  <2> QED BY <1>3, <2>3 DEF AnyServer!Next
<1> QED BY <1>1, <1>2, <1>5, <1>6 DEF Command

\* Of TerminalServer's tasks the clients only see orders and commands.
LEMMA TerminalLoopSeen ==
    ASSUME Routed, TerminalLoop
    PROVE  [AnyServer!Next]_(AnyServer!hostsVars)
<1>1. CASE CreateNewTerminal /\ TerminalOnly
  BY <1>1, OrderIsOrder
<1>2. CASE (ResizeTerminal \/ DeleteTerminal \/ SendKeyEvent) /\ TerminalOnly
  BY <1>2, CommandIsCommand DEF ResizeTerminal, DeleteTerminal, SendKeyEvent
<1>3. CASE /\ \/ OnClientClosed \/ HandleTerminalCreated
              \/ HandleTerminalRead \/ HandleTerminalEnd
           /\ TerminalOnly
  BY <1>3, UnseenByClients
  DEF OnClientClosed, HandleTerminalCreated, HandleTerminalRead, HandleTerminalEnd, Report,
      TerminalOnly, tsVars
<1> QED BY <1>1, <1>2, <1>3 DEF TerminalLoop

\* The connection thread acknowledges output, and nothing else.
LEMMA ServerConnectionSeen ==
    ASSUME Routed, ServerConnection
    PROVE  AnyServer!Next
<1>1. ASSUME NEW h \in Hosts, ServerOnClientRead(h), TerminalOnly
      PROVE  AnyServer!ServerReads(h)
  <2>1. UNCHANGED HostOf
    BY <1>1 DEF ServerOnClientRead, HostOf
  <2>2. \/ /\ Head(up[h]).type = "ON_TERMINAL_READ"
           /\ AnyServer!SendDown(h, [type |-> "ON_TERMINAL_READ_ACK"])
        \/ Head(up[h]).type # "ON_TERMINAL_READ" /\ UNCHANGED down
    BY <1>1 DEF ServerOnClientRead, SendDown, AnyServer!SendDown
  <2> QED
    BY <1>1, <2>1, <2>2
    DEF ServerOnClientRead, TerminalOnly, Delivers, HostOf, tcVars,
        AnyServer!ServerReads, AnyServer!Delivers, AnyServer!tcVars
<1>2. ASSUME NEW h \in Hosts, ServerOnClientClosed(h), TerminalOnly
      PROVE  AnyServer!ServerCloses(h)
  <2>1. UNCHANGED HostOf
    BY <1>2 DEF ServerOnClientClosed, tsVars, HostOf
  <2> QED
    BY <1>2, <2>1
    DEF ServerOnClientClosed, TerminalOnly, Delivers, HostOf, tcVars,
        AnyServer!ServerCloses, AnyServer!Delivers, AnyServer!tcVars
<1>3. ASSUME NEW h \in Hosts, ServerOnClientUnresponsive(h), TerminalOnly
      PROVE  AnyServer!ServerRemoves(h)
  <2>1. UNCHANGED HostOf
    BY <1>3 DEF ServerOnClientUnresponsive, tsVars, HostOf
  <2> QED
    BY <1>3, <2>1
    DEF ServerOnClientUnresponsive, TerminalOnly, GetClient, HostOf, tcVars,
        AnyServer!ServerRemoves, AnyServer!GetClient, AnyServer!tcVars
<1> QED BY <1>1, <1>2, <1>3 DEF ServerConnection, AnyServer!Reaction, AnyServer!Next

\* WebAppServer does not touch a connection.
LEMMA WebAppUnseen ==
    ASSUME Pages \/ WebAppLoop
    PROVE  [AnyServer!Next]_(AnyServer!hostsVars)
<1>1. UNCHANGED <<owner, tcVars>>
  BY DEF Pages, WebAppLoop, WebAppOnly, tsVars
<1>2. UNCHANGED <<srvEnd, cliEnd, up, down>>
  BY DEF Pages, OnWsClientConnected, OnWsClientMessage, OnWsClientClosed,
     WebAppLoop, AddClient, RemoveClient, OnTerminalAddReq, OnTerminalResizeReq,
     OnTerminalDelReq, OnTerminalKeyEvent, OnRemoteHostInfoReceived, OnTerminalClientClosed,
     OnTerminalCreated, OnTerminalOutput, OnTerminalClosed
<1> QED BY <1>1, <1>2, UnseenByClients

LEMMA InitAnyServer == ASSUME Init PROVE AnyServer!Init
<1>1. HostOf = <<>>
  BY DEF Init, TerminalServerInit, HostOf
<1> QED
  BY <1>1
  DEF Init, NetworkInit, TerminalClientInit, HostOf,
      AnyServer!Init, AnyServer!NetworkInit, AnyServer!TerminalClientInit

\* The clients are never sent anything but what TerminalHosts considers: orders
\* under fresh ids, commands for terminals of the same connection, and one
\* acknowledgement for each output (TerminalServer.cpp CreateNewTerminal,
\* ResizeTerminal, DeleteTerminal, SendKeyEvent, OnClientRead).  What is proved
\* of the clients there is true in the whole system.
THEOREM RespectsInterface == Spec => ImplementsAnyServer
<1>1. Init => AnyServer!Init
  BY InitAnyServer
<1>2. Routed /\ [Next]_vars => [AnyServer!Next]_(AnyServer!hostsVars)
  <2>1. SUFFICES ASSUME Routed, [Next]_vars PROVE [AnyServer!Next]_(AnyServer!hostsVars)
    OBVIOUS
  <2>2. CASE UNCHANGED vars
    BY <2>2, UnseenByClients DEF vars, netVars, tsVars
  <2> QED
    BY <2>1, <2>2, ClientsSame, TerminalLoopSeen, ServerConnectionSeen, WebAppUnseen DEF Next
<1>3. Init => Routed
  BY InitRouted
<1>4. Routed /\ [Next]_vars => Routed'
  BY NextRouted
<1> QED
  BY <1>1, <1>2, <1>3, <1>4, PTL DEF Spec, ImplementsAnyServer, AnyServer!Spec
-----------------------------------------------------------------------------
\* The theorems about the clients, for the clients of the system.
Clients == INSTANCE TerminalHostsProofs WITH
    waLoop       <- <<>>,
    tsLoop       <- <<>>,
    ordered      <- [t \in 1 .. Len(owner) |-> owner[t].h],
    Commands     <- {"DELETE_TERMINAL", "RESIZE_TERMINAL", "ON_TERMINAL_WRITE"},
    MaxTerminals <- 0,
    MaxQueue     <- 0

\* What the constants of the instance have to satisfy.
LEMMA ClientsAssumption ==
    /\ {"DELETE_TERMINAL", "RESIZE_TERMINAL", "ON_TERMINAL_WRITE"}
          \subseteq {"DELETE_TERMINAL", "RESIZE_TERMINAL", "ON_TERMINAL_WRITE"}
    /\ 0 \in Nat
  OBVIOUS

\* AnyServer and Clients are instances of one specification.
LEMMA SameSteps == AnyServer!Next => Clients!Next
  BY
  DEF AnyServer!Next, Clients!Next, AnyServer!Reaction, Clients!Reaction,
      AnyServer!ServerOrders, Clients!ServerOrders,
      AnyServer!ServerCommands, Clients!ServerCommands,
      AnyServer!ServerReads, Clients!ServerReads,
      AnyServer!ServerCloses, Clients!ServerCloses,
      AnyServer!ServerRemoves, Clients!ServerRemoves,
      AnyServer!ClientStep, Clients!ClientStep,
      AnyServer!ClientOnClientConnected, Clients!ClientOnClientConnected,
      AnyServer!ClientOnClientRead, Clients!ClientOnClientRead,
      AnyServer!HandleDisconnected, Clients!HandleDisconnected,
      AnyServer!HandleCreateTerminal, Clients!HandleCreateTerminal,
      AnyServer!SendCreated, Clients!SendCreated,
      AnyServer!HandleDeleteTerminal, Clients!HandleDeleteTerminal,
      AnyServer!HandleResizeTerminal, Clients!HandleResizeTerminal,
      AnyServer!HandleTerminalWrite, Clients!HandleTerminalWrite,
      AnyServer!DeleteTerminals, Clients!DeleteTerminals,
      AnyServer!EnableReadFromTerminals, Clients!EnableReadFromTerminals,
      AnyServer!OnTerminalEnd, Clients!OnTerminalEnd,
      AnyServer!OnTerminalRead, Clients!OnTerminalRead,
      AnyServer!ShellExit, Clients!ShellExit, AnyServer!NewId, Clients!NewId,
      AnyServer!SendDown, Clients!SendDown, AnyServer!SendUp, Clients!SendUp,
      AnyServer!GetClient, Clients!GetClient, AnyServer!Delivers, Clients!Delivers,
      AnyServer!Connected, Clients!Connected,
      AnyServer!ResolvePendingMsgUpdated, Clients!ResolvePendingMsgUpdated,
      AnyServer!ReadControl, Clients!ReadControl,
      AnyServer!HandlerOf, Clients!HandlerOf, AnyServer!Take, Clients!Take,
      AnyServer!Runs, Clients!Runs, AnyServer!Remove, Clients!Remove,
      AnyServer!netVars, Clients!netVars, AnyServer!tcVars, Clients!tcVars

LEMMA SameSpec == AnyServer!Spec => Clients!Spec
<1>1. AnyServer!Init => Clients!Init
  BY DEF AnyServer!Init, Clients!Init, AnyServer!NetworkInit, Clients!NetworkInit,
         AnyServer!TerminalClientInit, Clients!TerminalClientInit
<1>2. [AnyServer!Next]_(AnyServer!hostsVars) => [Clients!Next]_(Clients!hostsVars)
  <2>1. AnyServer!hostsVars = Clients!hostsVars
    BY DEF AnyServer!hostsVars, Clients!hostsVars, AnyServer!netVars, Clients!netVars,
           AnyServer!tcVars, Clients!tcVars
  <2>2. AnyServer!hostsVars' = Clients!hostsVars'
    BY DEF AnyServer!hostsVars, Clients!hostsVars, AnyServer!netVars, Clients!netVars,
           AnyServer!tcVars, Clients!tcVars
  <2> QED BY <2>1, <2>2, SameSteps
<1> QED BY <1>1, <1>2, PTL DEF AnyServer!Spec, Clients!Spec

\* In the whole system no machine keeps the terminals of a connection it lost:
\* they are of the connection it has, or it still has a DeleteTerminals task to
\* run (TerminalClient.cpp HandleDisconnected, DeleteTerminals).
THEOREM NoTerminalLeftBehind ==
    Spec => [](\A m \in Machines : \A t \in terminals[m] :
                  \/ Connected(m) /\ owner[t].h = client[m]
                  \/ \E i \in DOMAIN loop[m] : loop[m][i].fn = "DeleteTerminals")
<1> DEFINE Behind ==
      \A m \in Machines : \A t \in terminals[m] :
          \/ Connected(m) /\ owner[t].h = client[m]
          \/ \E i \in DOMAIN loop[m] : loop[m][i].fn = "DeleteTerminals"
<1>1. Clients!Spec => []Clients!ClientsInv
  BY Clients!ClientsStayFit, NetworkAssumption, TerminalClientAssumption, ClientsAssumption
<1>2. Clients!ClientsInv => Behind
  BY DEF Clients!ClientsInv, Clients!Fit, Clients!TerminalsFit, Clients!Current,
         Clients!Connected, Connected, Clients!DeletionFrom
<1>3. Spec => AnyServer!Spec
  BY RespectsInterface DEF ImplementsAnyServer
<1> QED BY <1>1, <1>2, <1>3, SameSpec, PTL
=============================================================================
