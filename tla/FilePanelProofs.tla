-------------------------- MODULE FilePanelProofs --------------------------
(***************************************************************************)
(* The connection of a page and its file panels, for any countdown, any    *)
(* number of failures, clicks and requests, and any tree of files.         *)
(***************************************************************************)
EXTENDS FilePanel, SequenceTheorems, TLAPS

\* Nothing happens before the last script is there.
Loading == loadCount < Scripts => sockets = <<>> /\ ~panel /\ timer = 0

TimerNeedsPanel == timer > 0 => panel

\* A running timer is an attempt that is due.
AttemptsAccounted ==
    Len(sockets) + (IF timer > 0 THEN 1 ELSE 0)
        <= (IF loadCount = Scripts THEN 1 ELSE 0) + faults + clicks

ConnInv ==
    /\ PageConnectionTypeOK
    /\ NeverStuck
    /\ PanelAwayOnlyWhenOpen
    /\ NothingOfClosedSessions
    /\ Loading
    /\ TimerNeedsPanel
    /\ AttemptsAccounted

USE PageConnectionAssumption

LEMMA NewSocket ==
    ASSUME PageConnectionTypeOK, createWs
    PROVE  /\ sockets' \in Seq(SocketState)
           /\ Len(sockets') = Len(sockets) + 1
           /\ DOMAIN sockets \subseteq DOMAIN sockets'
           /\ \A s \in DOMAIN sockets : sockets'[s] = sockets[s]
           /\ Len(sockets') \in DOMAIN sockets'
           /\ sockets'[Len(sockets')] = "connecting"
<1>1. sockets \in Seq(SocketState) /\ "connecting" \in SocketState
  BY DEF PageConnectionTypeOK, SocketState
<1>2. sockets' = Append(sockets, "connecting")
  BY DEF createWs
<1> QED BY <1>1, <1>2, AppendProperties

LEMMA SocketChanges ==
    ASSUME PageConnectionTypeOK, NEW s \in DOMAIN sockets, NEW v \in SocketState,
           sockets' = [sockets EXCEPT ![s] = v]
    PROVE  /\ sockets' \in Seq(SocketState)
           /\ Len(sockets') = Len(sockets)
           /\ DOMAIN sockets' = DOMAIN sockets
           /\ sockets'[s] = v
           /\ \A r \in DOMAIN sockets : r # s => sockets'[r] = sockets[r]
<1>1. sockets \in Seq(SocketState)
  BY DEF PageConnectionTypeOK
<1> QED BY <1>1, ExceptSeq
-----------------------------------------------------------------------------
\* One lemma per action of the connection.
LEMMA ScriptLoadedInv ==
    ASSUME ConnInv, onScriptLoaded
    PROVE  ConnInv'
<1> USE DEF ConnInv
<1>1. sockets = <<>> /\ ~panel /\ timer = 0 /\ listed = {}
  <2>1. sockets = <<>> /\ ~panel /\ timer = 0
    BY DEF Loading, onScriptLoaded
  <2> QED BY <2>1 DEF PageConnectionTypeOK
<1>2. CASE loadCount + 1 = Scripts
  <2>1. createWs
    BY <1>2 DEF onScriptLoaded
  <2>2. Len(sockets') = 1 /\ sockets'[1] = "connecting" /\ 1 \in DOMAIN sockets'
    <3>1. Len(sockets) = 0
      BY <1>1
    <3>2. /\ Len(sockets') = Len(sockets) + 1
          /\ Len(sockets') \in DOMAIN sockets'
          /\ sockets'[Len(sockets')] = "connecting"
      BY <2>1, NewSocket
    <3> QED BY <3>1, <3>2
  <2>3. PageConnectionTypeOK'
    BY <1>1, <1>2, <2>1, NewSocket DEF PageConnectionTypeOK, onScriptLoaded
  <2> QED BY <1>1, <1>2, <2>2, <2>3
          DEF onScriptLoaded, PageConnectionTypeOK, NeverStuck, PanelAwayOnlyWhenOpen,
              NothingOfClosedSessions, Loading, TimerNeedsPanel, AttemptsAccounted,
              Open, Connecting
<1>3. CASE loadCount + 1 # Scripts
  <2>1. sockets' = sockets
    BY <1>3 DEF onScriptLoaded
  <2> QED BY <1>1, <1>3, <2>1
          DEF onScriptLoaded, PageConnectionTypeOK, NeverStuck, PanelAwayOnlyWhenOpen,
              NothingOfClosedSessions, Loading, TimerNeedsPanel, AttemptsAccounted,
              Open, Connecting
<1> QED BY <1>2, <1>3

LEMMA ConnectedInv ==
    ASSUME ConnInv, NEW s \in DOMAIN sockets, onConnected(s)
    PROVE  ConnInv'
<1> USE DEF ConnInv
<1>1. /\ sockets' \in Seq(SocketState)
      /\ Len(sockets') = Len(sockets)
      /\ DOMAIN sockets' = DOMAIN sockets
      /\ sockets'[s] = "open"
      /\ \A r \in DOMAIN sockets : r # s => sockets'[r] = sockets[r]
  BY SocketChanges DEF onConnected, SocketState
<1>2. sockets # <<>> /\ Len(sockets) \in Nat
  BY DEF PageConnectionTypeOK
<1>3. PageConnectionTypeOK'
  <2>1. timer' = 0 /\ panel' = FALSE /\ 0 \in 0 .. Countdown
    BY DEF onConnected, disable
  <2> QED BY <1>1, <2>1 DEF onConnected, PageConnectionTypeOK
<1>4. NeverStuck' /\ PanelAwayOnlyWhenOpen' /\ TimerNeedsPanel'
  BY <1>1 DEF onConnected, disable, NeverStuck, PanelAwayOnlyWhenOpen, TimerNeedsPanel, Open
<1>5. NothingOfClosedSessions'
  BY <1>1 DEF onConnected, NothingOfClosedSessions, Open
<1>6. Loading'
  BY <1>1, <1>2 DEF onConnected, Loading
<1>7. AttemptsAccounted'
  BY <1>1, <1>2 DEF onConnected, disable, AttemptsAccounted, PageConnectionTypeOK
<1> QED BY <1>3, <1>4, <1>5, <1>6, <1>7

LEMMA DisconnectedInv ==
    ASSUME ConnInv, NEW s \in DOMAIN sockets, onDisconnected(s)
    PROVE  ConnInv'
<1> USE DEF ConnInv
<1>1. /\ sockets' \in Seq(SocketState)
      /\ Len(sockets') = Len(sockets)
      /\ DOMAIN sockets' = DOMAIN sockets
  BY SocketChanges DEF onDisconnected, SocketState
<1>2. sockets # <<>> /\ Len(sockets) \in Nat
  BY DEF PageConnectionTypeOK
<1>3. PageConnectionTypeOK'
  BY <1>1 DEF onDisconnected, enable, clear, PageConnectionTypeOK
<1>4. NeverStuck' /\ PanelAwayOnlyWhenOpen' /\ TimerNeedsPanel'
  BY DEF onDisconnected, enable, NeverStuck, PanelAwayOnlyWhenOpen, TimerNeedsPanel
<1>5. NothingOfClosedSessions'
  BY DEF onDisconnected, clear, NothingOfClosedSessions
<1>6. Loading'
  BY <1>1, <1>2 DEF onDisconnected, Loading
<1>7. AttemptsAccounted'
  BY <1>1, <1>2 DEF onDisconnected, enable, AttemptsAccounted, PageConnectionTypeOK
<1> QED BY <1>3, <1>4, <1>5, <1>6, <1>7

LEMMA WsMessageInv ==
    ASSUME ConnInv, NEW s \in DOMAIN sockets, onWsMessage(s)
    PROVE  ConnInv'
BY DEF ConnInv, onWsMessage, PageConnectionTypeOK, NeverStuck, PanelAwayOnlyWhenOpen,
       NothingOfClosedSessions, Loading, TimerNeedsPanel, AttemptsAccounted,
       Open, Connecting

LEMMA TimeoutInv ==
    ASSUME ConnInv, updateReconnectionCounter
    PROVE  ConnInv'
<1> USE DEF ConnInv
<1>1. panel /\ panel' /\ timer \in Nat /\ timer > 0 /\ timer' = timer - 1 /\ loadCount = Scripts
  BY DEF TimerNeedsPanel, Loading, PageConnectionTypeOK, updateReconnectionCounter
<1>2. CASE timer > 1
  <2>1. sockets' = sockets
    BY <1>2 DEF updateReconnectionCounter
  <2> QED BY <1>1, <1>2, <2>1
          DEF updateReconnectionCounter, PageConnectionTypeOK, NeverStuck,
              PanelAwayOnlyWhenOpen, NothingOfClosedSessions, Loading, TimerNeedsPanel,
              AttemptsAccounted, Open, Connecting
<1>3. CASE ~(timer > 1)
  <2>1. createWs
    BY <1>3 DEF updateReconnectionCounter
  <2>2. PageConnectionTypeOK'
    BY <1>1, <2>1, NewSocket DEF updateReconnectionCounter, PageConnectionTypeOK
  <2>3. NeverStuck' /\ PanelAwayOnlyWhenOpen' /\ TimerNeedsPanel' /\ Loading'
    BY <1>1, <2>1, NewSocket
       DEF updateReconnectionCounter, NeverStuck, PanelAwayOnlyWhenOpen, TimerNeedsPanel,
           Loading, Connecting
  <2>4. NothingOfClosedSessions'
    BY <2>1, NewSocket DEF updateReconnectionCounter, NothingOfClosedSessions, Open
  <2>5. AttemptsAccounted'
    BY <1>1, <1>3, <2>1, NewSocket
       DEF updateReconnectionCounter, AttemptsAccounted, PageConnectionTypeOK
  <2> QED BY <2>2, <2>3, <2>4, <2>5
<1> QED BY <1>2, <1>3

LEMMA ReconnectClickedInv ==
    ASSUME ConnInv, onReconnectClicked
    PROVE  ConnInv'
<1> USE DEF ConnInv
<1>1. panel /\ panel' /\ loadCount = Scripts /\ createWs
  BY DEF Loading, PageConnectionTypeOK, onReconnectClicked
<1>2. PageConnectionTypeOK'
  BY <1>1, NewSocket DEF onReconnectClicked, PageConnectionTypeOK
<1>3. NeverStuck' /\ PanelAwayOnlyWhenOpen' /\ TimerNeedsPanel' /\ Loading'
  BY <1>1, NewSocket
     DEF onReconnectClicked, NeverStuck, PanelAwayOnlyWhenOpen, TimerNeedsPanel, Loading,
         Connecting
<1>4. NothingOfClosedSessions'
  BY <1>1, NewSocket DEF onReconnectClicked, NothingOfClosedSessions, Open
<1>5. AttemptsAccounted'
  BY <1>1, NewSocket DEF onReconnectClicked, AttemptsAccounted, PageConnectionTypeOK
<1> QED BY <1>2, <1>3, <1>4, <1>5
-----------------------------------------------------------------------------
\* The steps of the file panel that are no step of the connection leave it alone.
LEMMA ConnectionInitial == Init => ConnInv
<1> SUFFICES ASSUME Init PROVE ConnInv
  OBVIOUS
<1> USE DEF Init, ConnInit
<1>1. sockets = <<>> /\ Len(sockets) = 0 /\ sockets \in Seq(SocketState)
  OBVIOUS
<1>2. PageConnectionTypeOK
  <2>1. loadCount \in 0 .. Scripts /\ timer \in 0 .. Countdown
    OBVIOUS
  <2>2. faults \in 0 .. MaxFaults /\ clicks \in 0 .. MaxClicks
    OBVIOUS
  <2>3. panel \in BOOLEAN /\ listed \subseteq DOMAIN sockets
    OBVIOUS
  <2> QED BY <1>1, <2>1, <2>2, <2>3 DEF PageConnectionTypeOK
<1>3. NeverStuck /\ PanelAwayOnlyWhenOpen /\ NothingOfClosedSessions /\ TimerNeedsPanel
  BY DEF NeverStuck, PanelAwayOnlyWhenOpen, NothingOfClosedSessions, TimerNeedsPanel
<1>4. Loading
  BY DEF Loading
<1>5. AttemptsAccounted
  <2>1. loadCount # Scripts /\ ~(timer > 0) /\ faults = 0 /\ clicks = 0
    OBVIOUS
  <2> QED BY <1>1, <2>1 DEF AttemptsAccounted
<1> QED BY <1>2, <1>3, <1>4, <1>5 DEF ConnInv

LEMMA ConnectionUnchanged == ConnInv /\ UNCHANGED connVars => ConnInv'
BY DEF ConnInv, connVars, PageConnectionTypeOK, NeverStuck, PanelAwayOnlyWhenOpen,
       NothingOfClosedSessions, Loading, TimerNeedsPanel, AttemptsAccounted, Open, Connecting

LEMMA ConnectionInductive == ConnInv /\ [Next]_fileVars => ConnInv'
<1> SUFFICES ASSUME ConnInv, [Next]_fileVars PROVE ConnInv'
  OBVIOUS
<1>1. CASE onScriptLoaded
  BY <1>1, ScriptLoadedInv
<1>2. ASSUME NEW s \in DOMAIN sockets, onConnected(s) PROVE ConnInv'
  BY <1>2, ConnectedInv
<1>3. ASSUME NEW s \in DOMAIN sockets, onSocketEnd(s) PROVE ConnInv'
  BY <1>3, DisconnectedInv DEF onSocketEnd
<1>4. ASSUME NEW s \in DOMAIN sockets, onWsMessage(s) PROVE ConnInv'
  BY <1>4, WsMessageInv
<1>5. CASE updateReconnectionCounter
  BY <1>5, TimeoutInv
<1>6. CASE onReconnectClicked
  BY <1>6, ReconnectClickedInv
<1>7. ASSUME NEW s \in DOMAIN sockets, onTerminalAdded(s) PROVE ConnInv'
  BY <1>7, WsMessageInv DEF onTerminalAdded
<1>8. ASSUME NEW req \in asked, onDirectoryListen(req) PROVE ConnInv'
  BY <1>8, ConnectionUnchanged DEF onDirectoryListen
<1>9. ASSUME NEW s \in DOMAIN nodes, NEW path \in Paths, onClicked(s, path) PROVE ConnInv'
  BY <1>9, ConnectionUnchanged DEF onClicked, ClickedElement
<1>10. ASSUME NEW s \in DOMAIN nodes, onUpClicked(s) PROVE ConnInv'
  BY <1>10, ConnectionUnchanged DEF onUpClicked, ClickedElement
<1>11. CASE UNCHANGED fileVars
  BY <1>11, ConnectionUnchanged DEF fileVars
<1> QED BY <1>1, <1>2, <1>3, <1>4, <1>5, <1>6, <1>7, <1>8, <1>9, <1>10, <1>11 DEF Next

LEMMA ConnectionInvariant == Spec => []ConnInv
BY ConnectionInitial, ConnectionInductive, PTL DEF Spec

\* A page that shows the countdown always has an attempt to connect before it,
\* under way or due: updateReconnectionCounter() and the clicks on the button
\* cannot leave it waiting for nothing.
THEOREM PanelNeverStuck == Spec => []NeverStuck
<1>1. ConnInv => NeverStuck
  BY DEF ConnInv
<1> QED BY <1>1, ConnectionInvariant, PTL

\* The panel disappears only for an open connection, and not when a connection
\* that was opened earlier ends (onConnected, onDisconnected).
THEOREM PanelAway == Spec => []PanelAwayOnlyWhenOpen
<1>1. ConnInv => PanelAwayOnlyWhenOpen
  BY DEF ConnInv
<1> QED BY <1>1, ConnectionInvariant, PTL

\* What the page shows belongs to sessions that are open: WebApp.clear() is in
\* time for every order of the ends of several websockets.
THEOREM ShownSessionsOpen == Spec => []NothingOfClosedSessions
<1>1. ConnInv => NothingOfClosedSessions
  BY DEF ConnInv
<1> QED BY <1>1, ConnectionInvariant, PTL

\* The page makes no more attempts than the first one, one per loss and one per
\* click, because a timer that runs is an attempt that has been accounted for.
THEOREM AttemptsBounded == Spec => []OneAttemptPerLoss
<1>1. ConnInv => OneAttemptPerLoss
  BY DEF ConnInv, AttemptsAccounted, OneAttemptPerLoss, PageConnectionTypeOK
<1> QED BY <1>1, ConnectionInvariant, PTL
-----------------------------------------------------------------------------
\* A request is for a directory, from a terminal that was announced, and one for
\* a directory below the root was made by a click.
RequestKnown(req) ==
    /\ req.s \in added
    /\ req.path \in Dirs
    /\ req.path # Root /\ req.s \in DOMAIN nodes => nodes[req.s].current_elem # "none"

\* What a panel shows is the directory it names, and the element of ".." is not
\* there for the root.
NodeInv(node) ==
    /\ node.content = node.current_path
    /\ node.current_path \in Dirs
    /\ node.listing /\ node.current_path # Root => node.up # "none"
    /\ node.up # "none" => node.current_path # Root

PanelInv ==
    /\ FilePanelTypeOK
    /\ \A req \in asked : RequestKnown(req)
    /\ \A s \in DOMAIN nodes : NodeInv(nodes[s])

\* An entry of a listing is found again by its directory and its name.
LEMMA PathOfEntry ==
    ASSUME NEW path \in Paths, path # Root
    PROVE  /\ Front(path) \in Dirs
           /\ Append(Front(path), Last(path)) = path
<1>1. path \in Seq(STRING) /\ path # <<>> /\ Front(path) \in Dirs
  BY FilePanelAssumption DEF Paths, Root
<1>2. Len(path) \in Nat /\ Len(path) >= 1
  BY <1>1
<1>3. /\ Front(path) \in Seq(STRING)
      /\ Len(Front(path)) = Len(path) - 1
      /\ \A i \in 1 .. Len(path) - 1 : Front(path)[i] = path[i]
  <2> DEFINE n == Len(path) - 1
  <2>1. n \in Int /\ n >= 0 /\ 1 \in Int /\ \A i \in 1 .. n : path[i] \in STRING
    BY <1>1, <1>2
  <2> HIDE DEF n
  <2>2. /\ SubSeq(path, 1, n) \in Seq(STRING)
        /\ Len(SubSeq(path, 1, n)) = IF 1 <= n THEN n - 1 + 1 ELSE 0
        /\ \A i \in 1 .. n - 1 + 1 : SubSeq(path, 1, n)[i] = path[1 + i - 1]
    BY <2>1, SubSeqProperties
  <2>3. /\ Len(SubSeq(path, 1, n)) = n
        /\ \A i \in 1 .. n : SubSeq(path, 1, n)[i] = path[i]
    BY <2>1, <2>2
  <2> QED BY <2>2, <2>3 DEF Front, n
<1>4. Last(path) = path[Len(path)] /\ Last(path) \in STRING
  BY <1>1, <1>2 DEF Last
<1>5. /\ Append(Front(path), Last(path)) \in Seq(STRING)
      /\ Len(Append(Front(path), Last(path))) = Len(path)
      /\ \A i \in 1 .. Len(path) : Append(Front(path), Last(path))[i] = path[i]
  BY <1>2, <1>3, <1>4, AppendProperties
<1> QED BY <1>1, <1>5, SeqEqual

\* Sending adds at most one request.
LEMMA Sending ==
    ASSUME PanelInv, NEW s \in DOMAIN sockets, NEW path, SendFileReq(s, path)
    PROVE  /\ sends' \in 0 .. MaxSends
           /\ sends + 1 \in 1 .. MaxSends
           /\ asked' \subseteq asked \cup {[n |-> sends + 1, s |-> s, path |-> path]}
<1>1. sends \in Nat /\ MaxSends \in Nat /\ sends < MaxSends
  BY FilePanelAssumption DEF PanelInv, FilePanelTypeOK, SendFileReq
<1> QED BY <1>1 DEF SendFileReq
-----------------------------------------------------------------------------
\* The actions of the connection alone.
LEMMA PanelUnchanged ==
    ASSUME PanelInv, PageConnectionTypeOK', DOMAIN sockets \subseteq DOMAIN sockets',
           ConnectionOnly
    PROVE  PanelInv'
<1>1. FilePanelTypeOK'
  BY DEF PanelInv, FilePanelTypeOK, ConnectionOnly
<1>2. \A req \in asked' : RequestKnown(req)'
  BY DEF PanelInv, RequestKnown, ConnectionOnly
<1>3. \A s \in DOMAIN nodes' : NodeInv(nodes'[s])
  BY DEF PanelInv, ConnectionOnly
<1> QED BY <1>1, <1>2, <1>3 DEF PanelInv, NodeInv

\* Websockets are never forgotten.
LEMMA SocketsStay ==
    ASSUME PageConnectionTypeOK,
           \/ onScriptLoaded
           \/ \E s \in DOMAIN sockets : onConnected(s) \/ onDisconnected(s) \/ onWsMessage(s)
           \/ updateReconnectionCounter
           \/ onReconnectClicked
    PROVE  DOMAIN sockets \subseteq DOMAIN sockets'
<1>1. CASE createWs
  BY <1>1, NewSocket
<1>2. CASE sockets' = sockets
  BY <1>2
<1>3. ASSUME NEW s \in DOMAIN sockets, onConnected(s) \/ onDisconnected(s)
      PROVE  DOMAIN sockets \subseteq DOMAIN sockets'
  BY <1>3, SocketChanges DEF onConnected, onDisconnected, SocketState
<1> QED BY <1>1, <1>2, <1>3
        DEF onScriptLoaded, onWsMessage, updateReconnectionCounter, onReconnectClicked

\* The end of a websocket clears every panel.
LEMMA SocketEndPanel ==
    ASSUME PanelInv, PageConnectionTypeOK', NEW s \in DOMAIN sockets, onSocketEnd(s)
    PROVE  PanelInv'
<1>1. DOMAIN sockets \subseteq DOMAIN sockets'
  BY SocketsStay DEF onSocketEnd, PanelInv, FilePanelTypeOK
<1>2. DOMAIN nodes' = {} /\ asked' \subseteq asked
  BY DEF onSocketEnd, EmptyMap
<1>3. FilePanelTypeOK'
  BY <1>1, <1>2 DEF PanelInv, FilePanelTypeOK, onSocketEnd
<1>4. \A req \in asked' : RequestKnown(req)'
  BY <1>2 DEF PanelInv, RequestKnown, onSocketEnd
<1> QED BY <1>2, <1>3, <1>4 DEF PanelInv

\* A new panel asks for the root, and no earlier request is its own.
LEMMA TerminalAddedPanel ==
    ASSUME PanelInv, PageConnectionTypeOK', NEW s \in DOMAIN sockets, onTerminalAdded(s)
    PROVE  PanelInv'
<1>1. /\ sockets' = sockets /\ downloads' = downloads
      /\ s \notin added /\ added' = added \cup {s}
  BY DEF onTerminalAdded, onWsMessage
<1>2. CASE UNCHANGED <<nodes, asked, sends>>
  <2>1. FilePanelTypeOK'
    BY <1>1, <1>2 DEF PanelInv, FilePanelTypeOK
  <2>2. \A req \in asked' : RequestKnown(req)'
    BY <1>1, <1>2 DEF PanelInv, RequestKnown
  <2> QED BY <1>2, <2>1, <2>2 DEF PanelInv, NodeInv
<1>3. CASE ~UNCHANGED <<nodes, asked, sends>>
  <2> DEFINE node == NewFileModeNode
             req0 == [n |-> sends + 1, s |-> s, path |-> Root]
  <2>1. Root \in Dirs /\ Root \in Paths
    BY FilePanelAssumption DEF Root, Paths
  <2>2. nodes' = Assign(nodes, s, node) /\ SendFileReq(s, Root)
    BY <1>3 DEF onTerminalAdded
  <2>3. /\ DOMAIN nodes' = DOMAIN nodes \cup {s}
        /\ nodes'[s] = node
        /\ \A r \in DOMAIN nodes : r # s => nodes'[r] = nodes[r]
    BY <2>2 DEF Assign
  <2>4. node \in NodeType /\ NodeInv(node)
    BY <2>1 DEF NewFileModeNode, NodeType, NodeInv, Element
  <2>5. /\ sends' \in 0 .. MaxSends /\ sends + 1 \in 1 .. MaxSends
        /\ asked' \subseteq asked \cup {req0}
    BY <2>2, Sending
  <2> HIDE DEF node
  <2>6. FilePanelTypeOK'
    <3>1. asked' \subseteq [n : 1 .. MaxSends, s : DOMAIN sockets', path : Paths]
      BY <1>1, <2>1, <2>5 DEF PanelInv, FilePanelTypeOK
    <3>2. \A r \in DOMAIN nodes' : nodes'[r] \in NodeType
      BY <2>3, <2>4 DEF PanelInv, FilePanelTypeOK
    <3> QED BY <1>1, <2>3, <2>5, <3>1, <3>2 DEF PanelInv, FilePanelTypeOK
  <2>7. \A req \in asked' : RequestKnown(req)'
    <3>1. RequestKnown(req0)'
      BY <1>1, <2>1 DEF RequestKnown
    <3>2. ASSUME NEW req \in asked PROVE RequestKnown(req)'
      BY <1>1, <2>3 DEF PanelInv, RequestKnown
    <3> QED BY <2>5, <3>1, <3>2 DEF RequestKnown
  <2>8. \A r \in DOMAIN nodes' : NodeInv(nodes'[r])
    BY <2>3, <2>4 DEF PanelInv
  <2> QED BY <2>6, <2>7, <2>8 DEF PanelInv, NodeInv
<1> QED BY <1>2, <1>3

\* An answer: the request says that an element has been clicked.
LEMMA DirectoryListenPanel ==
    ASSUME PanelInv, PageConnectionTypeOK', NEW req \in asked, onDirectoryListen(req)
    PROVE  PanelInv'
<1>1. /\ sockets' = sockets /\ asked' \subseteq asked
      /\ UNCHANGED <<added, downloads, sends>>
  BY DEF onDirectoryListen, connVars
<1>2. CASE UNCHANGED nodes
  <2>1. FilePanelTypeOK'
    BY <1>1, <1>2 DEF PanelInv, FilePanelTypeOK
  <2>2. \A r \in asked' : RequestKnown(r)'
    BY <1>1, <1>2 DEF PanelInv, RequestKnown
  <2> QED BY <1>2, <2>1, <2>2 DEF PanelInv, NodeInv
<1>3. CASE ~UNCHANGED nodes
  <2> DEFINE node == setDirectoryContent(nodes[req.s], req.path, req.path)
  <2>1. /\ req.s \in DOMAIN nodes /\ req.path \in Dirs
        /\ nodes' = [nodes EXCEPT ![req.s] = node]
    BY <1>3 DEF onDirectoryListen
  <2>2. nodes[req.s] \in NodeType /\ RequestKnown(req)
    BY <2>1 DEF PanelInv, FilePanelTypeOK
  <2>3. /\ node \in NodeType
        /\ node.content = req.path /\ node.current_path = req.path
        /\ node.current_elem = nodes[req.s].current_elem
        /\ node.up = IF req.path # Root THEN nodes[req.s].current_elem ELSE "none"
    BY <2>1, <2>2 DEF setDirectoryContent, NodeType, Element, Paths
  <2>4. NodeInv(node)
    BY <2>1, <2>2, <2>3 DEF RequestKnown, NodeInv
  <2>5. /\ DOMAIN nodes' = DOMAIN nodes
        /\ nodes'[req.s] = node
        /\ \A r \in DOMAIN nodes : r # req.s => nodes'[r] = nodes[r]
    BY <2>1
  <2> HIDE DEF node
  <2>6. FilePanelTypeOK'
    BY <1>1, <2>3, <2>5 DEF PanelInv, FilePanelTypeOK
  <2>7. \A r \in asked' : RequestKnown(r)'
    BY <1>1, <2>3, <2>5 DEF PanelInv, RequestKnown
  <2>8. \A r \in DOMAIN nodes' : NodeInv(nodes'[r])
    BY <2>4, <2>5 DEF PanelInv
  <2> QED BY <2>6, <2>7, <2>8 DEF PanelInv, NodeInv
<1> QED BY <1>2, <1>3

\* A click on an element whose target exists.
LEMMA ClickedElementPanel ==
    ASSUME PanelInv, PageConnectionTypeOK', NEW s \in DOMAIN nodes,
           NEW is_dir, NEW target \in Paths, is_dir => target \in Dirs,
           ClickedElement(s, is_dir, target)
    PROVE  PanelInv'
<1> DEFINE elem == IF is_dir THEN "dir" ELSE "file"
           node == [nodes[s] EXCEPT !.current_elem = elem]
           req0 == [n |-> sends + 1, s |-> s, path |-> target]
<1>1. sockets' = sockets /\ added' = added
  BY DEF ClickedElement, connVars
<1>2. nodes[s] \in NodeType /\ NodeInv(nodes[s]) /\ s \in added /\ s \in DOMAIN sockets
  BY DEF PanelInv, FilePanelTypeOK
<1>3. /\ DOMAIN nodes' = DOMAIN nodes
      /\ nodes'[s] = node
      /\ \A r \in DOMAIN nodes : r # s => nodes'[r] = nodes[r]
  BY <1>2 DEF ClickedElement, NodeType
<1>4. node \in NodeType /\ NodeInv(node) /\ node.current_elem # "none"
  BY <1>2 DEF NodeType, NodeInv, Element
<1>5. /\ downloads' \subseteq Paths
      /\ sends' \in 0 .. MaxSends
      /\ \/ asked' = asked
         \/ /\ is_dir
            /\ sends + 1 \in 1 .. MaxSends
            /\ asked' \subseteq asked \cup {req0}
  BY <1>2, Sending DEF ClickedElement, PanelInv, FilePanelTypeOK
<1> HIDE DEF node
<1>6. FilePanelTypeOK'
  <2>1. asked' \subseteq [n : 1 .. MaxSends, s : DOMAIN sockets', path : Paths]
    BY <1>1, <1>2, <1>5 DEF PanelInv, FilePanelTypeOK
  <2>2. \A r \in DOMAIN nodes' : nodes'[r] \in NodeType
    BY <1>3, <1>4 DEF PanelInv, FilePanelTypeOK
  <2> QED BY <1>1, <1>3, <1>5, <2>1, <2>2 DEF PanelInv, FilePanelTypeOK
<1>7. \A req \in asked' : RequestKnown(req)'
  <2>1. is_dir => RequestKnown(req0)'
    BY <1>1, <1>2, <1>3, <1>4 DEF RequestKnown
  <2>2. ASSUME NEW req \in asked PROVE RequestKnown(req)'
    BY <1>1, <1>3, <1>4 DEF PanelInv, RequestKnown
  <2> QED BY <1>5, <2>1, <2>2 DEF RequestKnown
<1>8. \A r \in DOMAIN nodes' : NodeInv(nodes'[r])
  BY <1>3, <1>4 DEF PanelInv
<1> QED BY <1>6, <1>7, <1>8 DEF PanelInv, NodeInv

LEMMA ClickedPanel ==
    ASSUME PanelInv, PageConnectionTypeOK', NEW s \in DOMAIN nodes, NEW path \in Paths,
           onClicked(s, path)
    PROVE  PanelInv'
<1>1. Target(nodes[s], Last(path)) = path
  <2>1. nodes[s].content = nodes[s].current_path /\ Front(path) = nodes[s].content
    BY DEF PanelInv, NodeInv, onClicked
  <2>2. path # Root
    BY DEF onClicked
  <2> QED BY <2>1, <2>2, PathOfEntry DEF Target
<1>2. ClickedElement(s, path \in Dirs, path)
  BY <1>1 DEF onClicked
<1> QED BY <1>2, ClickedElementPanel

LEMMA UpClickedPanel ==
    ASSUME PanelInv, PageConnectionTypeOK', NEW s \in DOMAIN nodes, onUpClicked(s)
    PROVE  PanelInv'
<1> DEFINE target == Front(nodes[s].current_path)
<1>1. target \in Dirs /\ target \in Paths
  <2>1. nodes[s].current_path \in Paths /\ nodes[s].current_path # Root
    BY DEF PanelInv, NodeInv, onUpClicked, Paths
  <2> QED BY <2>1, PathOfEntry DEF Paths
<1>2. ClickedElement(s, nodes[s].up = "dir", target)
  BY DEF onUpClicked
<1> QED BY <1>1, <1>2, ClickedElementPanel
-----------------------------------------------------------------------------
LEMMA PanelInitial == Init => PanelInv
<1> SUFFICES ASSUME Init PROVE PanelInv
  OBVIOUS
<1>1. PageConnectionTypeOK
  BY ConnectionInitial DEF ConnInv
<1>2. DOMAIN nodes = {} /\ asked = {} /\ added = {} /\ downloads = {} /\ sends = 0
  BY DEF Init, EmptyMap
<1>3. FilePanelTypeOK
  BY <1>1, <1>2, FilePanelAssumption DEF FilePanelTypeOK
<1> QED BY <1>2, <1>3 DEF PanelInv

LEMMA PanelInductive == ConnInv /\ PanelInv /\ [Next]_fileVars => PanelInv'
<1> SUFFICES ASSUME ConnInv, PanelInv, [Next]_fileVars PROVE PanelInv'
  OBVIOUS
<1>1. PageConnectionTypeOK /\ PageConnectionTypeOK'
  BY ConnectionInductive DEF ConnInv
<1>2. CASE /\ \/ onScriptLoaded
              \/ \E s \in DOMAIN sockets : onConnected(s) \/ onWsMessage(s)
              \/ updateReconnectionCounter
              \/ onReconnectClicked
           /\ ConnectionOnly
  <2>1. DOMAIN sockets \subseteq DOMAIN sockets'
    BY <1>1, <1>2, SocketsStay
  <2> QED BY <1>1, <1>2, <2>1, PanelUnchanged
<1>3. ASSUME NEW s \in DOMAIN sockets, onSocketEnd(s) PROVE PanelInv'
  BY <1>1, <1>3, SocketEndPanel
<1>4. ASSUME NEW s \in DOMAIN sockets, onTerminalAdded(s) PROVE PanelInv'
  BY <1>1, <1>4, TerminalAddedPanel
<1>5. ASSUME NEW req \in asked, onDirectoryListen(req) PROVE PanelInv'
  BY <1>1, <1>5, DirectoryListenPanel
<1>6. ASSUME NEW s \in DOMAIN nodes, NEW path \in Paths, onClicked(s, path) PROVE PanelInv'
  BY <1>1, <1>6, ClickedPanel
<1>7. ASSUME NEW s \in DOMAIN nodes, onUpClicked(s) PROVE PanelInv'
  BY <1>1, <1>7, UpClickedPanel
<1>8. CASE UNCHANGED fileVars
  <2>1. ConnectionOnly /\ sockets' = sockets
    BY <1>8 DEF fileVars, connVars, ConnectionOnly
  <2> QED BY <1>1, <2>1, PanelUnchanged
<1> QED BY <1>2, <1>3, <1>4, <1>5, <1>6, <1>7, <1>8 DEF Next

LEMMA PanelInvariant == Spec => []PanelInv
<1>1. Init => ConnInv /\ PanelInv
  BY ConnectionInitial, PanelInitial
<1>2. (ConnInv /\ PanelInv) /\ [Next]_fileVars => (ConnInv /\ PanelInv)'
  BY ConnectionInductive, PanelInductive
<1> QED BY <1>1, <1>2, PTL DEF Spec

\* The types of the page's connection and of its panels; that a path stays one of
\* the tree is the part that depends on what clicks make of it.
THEOREM FilePanelTypeCorrect == Spec => []FilePanelTypeOK
<1>1. PanelInv => FilePanelTypeOK
  BY DEF PanelInv
<1> QED BY <1>1, PanelInvariant, PTL

\* No panel is a dead end: a listing below the root is the answer to a click, so
\* there is an element that stands for "..", whichever listing comes last.
THEOREM PanelsLeadUp == Spec => []WayBackUp
<1>1. PanelInv => WayBackUp
  BY DEF PanelInv, NodeInv, WayBackUp
<1> QED BY <1>1, PanelInvariant, PTL

\* Clicks ask for what is there, in any tree: the path a panel names is always
\* that of the files it shows (setDirectoryContent, onClicked).
THEOREM RequestsMakeSense == Spec => []TargetsExist
<1>1. PanelInv => TargetsExist
  BY DEF PanelInv, RequestKnown, FilePanelTypeOK, TargetsExist, Paths
<1> QED BY <1>1, PanelInvariant, PTL
=============================================================================
