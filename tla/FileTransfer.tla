---------------------------- MODULE FileTransfer ----------------------------
(***************************************************************************)
(* File transfers.  A page asks for a directory listing over its websocket *)
(* or for a file over HTTP; the control server opens a session, asks the   *)
(* terminal client, which connects once more for this transfer alone and   *)
(* sends the data; every block that arrives is passed on to the browser.   *)
(*                                                                         *)
(* Threads: the connection thread of the control server (HTTP requests and *)
(* the transfers' connections), its WebAppServer loop, the connection      *)
(* thread of the terminal client.  One machine, which may reconnect; the   *)
(* server may restart, the client keeps running then.                      *)
(*                                                                         *)
(* A path is the number of the request that named it; the content of a     *)
(* file is the blocks TCP delivers it in, numbered from 1.                 *)
(***************************************************************************)
EXTENDS Naturals, Sequences, FiniteSets, StdMap

CONSTANTS
    MaxBlocks,    \* bound: blocks of a file
    MaxRequests,  \* bound: requests of the browsers
    MaxRestarts,  \* bound: restarts of the control server
    MaxBreaks,    \* bound: breaks of the machine's main connection
    FilesChange   \* may a file change between its size and its data are read?

ASSUME FileTransferAssumption ==
    /\ MaxBlocks \in Nat /\ MaxRequests \in Nat
    /\ MaxRestarts \in Nat /\ MaxBreaks \in Nat
    /\ FilesChange \in BOOLEAN

VARIABLES
    requests,   \* the kind of each request made so far
    got,        \* what the browser received for each request
    waLoop,     \* tasks posted to WebAppServer::_thread_loop
    idCounter,  \* FileTransferSession::_id_counter
    fileSessions, \* _transfer_sessions : id -> request and kind
    transfers,  \* FileTransferHandlerServer::_transfers : id -> FileTransfer
    hostUp,     \* is the machine's main connection up?
    link,       \* FILE_TRANSFER_REQ messages on it
    clientTransfers, \* FileTransferHandlerClient::_transfers : id -> FileTransfer
    restarts,   \* restarts so far
    breaks      \* breaks of the main connection so far

browserVars == <<requests, got>>
serverVars  == <<waLoop, idCounter, fileSessions, transfers>>
linkVars    == <<hostUp, link, restarts, breaks>>
vars == <<browserVars, serverVars, clientTransfers, linkVars>>

Path == Nat \ {0}
Id == Nat \ {0}
Kind == {"listing", "download"}

\* A block: does it hold a whole directory listing?
Block == [type : {"DATA"}, path : Path, i : Nat \ {0}, whole : BOOLEAN]
Header == [type |-> "HEADER"]
Answer == Seq(Block \cup {Header})

Task ==
    [fn : {"OnTerminalFileReq"}, path : Path]
    \cup [fn : {"OnFileTransferDataReceived"}, t : Id, data : Block]

FileTransferReq == [t : Id, path : Path]

UpMsg == Block \cup [type : {"FILE_TRANSFER_INIT"}, valid : BOOLEAN, size : Nat]

Session == [path : Path, kind : Kind]

ServerTransfer ==
    [path : Path, expected : Nat, received : Nat, counter : Nat, raw : BOOLEAN]

ClientTransfer ==
    [path : Path, conn : {"connecting", "open", "closed"}, size : Nat, dir : BOOLEAN,
     ack : BOOLEAN, up : Seq(UpMsg)]

MapTypeOK(f, T) == DOMAIN f \subseteq Id /\ \A t \in DOMAIN f : f[t] \in T

FileTransferTypeOK ==
    /\ requests \in Seq(Kind)
    /\ got \in Seq(Answer)
    /\ waLoop \in Seq(Task)
    /\ idCounter \in Nat
    /\ MapTypeOK(fileSessions, Session)
    /\ MapTypeOK(transfers, ServerTransfer)
    /\ hostUp \in BOOLEAN
    /\ link \in Seq(FileTransferReq)
    /\ MapTypeOK(clientTransfers, ClientTransfer)
    /\ restarts \in 0 .. MaxRestarts
    /\ breaks \in 0 .. MaxBreaks

Init ==
    /\ requests = <<>>
    /\ got = <<>>
    /\ waLoop = <<>>
    /\ idCounter = 0
    /\ fileSessions = EmptyMap
    /\ transfers = EmptyMap
    /\ hostUp = TRUE
    /\ link = <<>>
    /\ clientTransfers = EmptyMap
    /\ restarts = 0
    /\ breaks = 0
-----------------------------------------------------------------------------
\* Requests.  A listing is a websocket message and waits for the loop, a
\* download is served on the connection thread.

\* Mutant: the counter is incremented after it is read.
NextIdPostIncrement == idCounter

\* Mutant: the ids are taken from the number of sessions.
NextIdBySessions == Cardinality(DOMAIN fileSessions) + 1

NextId == idCounter + 1

\* CreateFileTransferSession, then CreateFileRequest: without a connected host
\* the session is erased again, and its id is spent.
StartTransfer(path, kind) ==
    /\ idCounter' = NextId
    /\ \/ /\ ~hostUp
          /\ UNCHANGED <<fileSessions, transfers, link>>
       \/ /\ hostUp
          /\ fileSessions' = Insert(fileSessions, NextId, [path |-> path, kind |-> kind])
          /\ transfers' = Insert(transfers, NextId,
                                 [path |-> path, expected |-> 0, received |-> 0,
                                  counter |-> 0, raw |-> FALSE])
          /\ link' = Append(link, [t |-> NextId, path |-> path])

NewRequest(kind) ==
    /\ Len(requests) < MaxRequests
    /\ requests' = Append(requests, kind)
    /\ got' = Append(got, <<>>)

OnWsClientMessage ==
    /\ NewRequest("listing")
    /\ waLoop' = Append(waLoop, [fn |-> "OnTerminalFileReq", path |-> Len(requests) + 1])
    /\ UNCHANGED <<idCounter, fileSessions, transfers, clientTransfers, linkVars>>

\* The terminal that is named may not be in a session (any more).
PerpareFileDownloadResponse ==
    /\ NewRequest("download")
    /\ \/ UNCHANGED <<idCounter, fileSessions, transfers, link>>
       \/ StartTransfer(Len(requests) + 1, "download")
    /\ UNCHANGED <<waLoop, clientTransfers, hostUp, restarts, breaks>>

\* The terminal may not belong to the page any more.
OnTerminalFileReq ==
    /\ waLoop # <<>>
    /\ Head(waLoop).fn = "OnTerminalFileReq"
    /\ waLoop' = Tail(waLoop)
    /\ \/ UNCHANGED <<idCounter, fileSessions, transfers, link>>
       \/ StartTransfer(Head(waLoop).path, "listing")
    /\ UNCHANGED <<browserVars, clientTransfers, hostUp, restarts, breaks>>
-----------------------------------------------------------------------------
\* The terminal client.
Closed(transfer) == [transfer EXCEPT !.conn = "closed", !.up = <<>>, !.ack = FALSE]

MakeFileTransferRequest ==
    /\ hostUp
    /\ link # <<>>
    /\ link' = Tail(link)
    /\ LET t == Head(link).t IN
          clientTransfers' =
              IF t \in DOMAIN clientTransfers
              THEN clientTransfers
              ELSE Insert(clientTransfers, t,
                          [path |-> Head(link).path, conn |-> "connecting",
                           size |-> 0, dir |-> FALSE, up |-> <<>>, ack |-> FALSE])
    /\ UNCHANGED <<browserVars, serverVars, hostUp, restarts, breaks>>

\* What SendInitResponse finds at the path: nothing it can read, a directory
\* (its listing fits a block or not), or a file; an unserializable directory
\* and an empty file are both of size 0.
Found ==
    {[valid |-> FALSE, dir |-> FALSE, size |-> 0]}
    \cup [valid : {TRUE}, dir : {TRUE}, size : 1 .. MaxBlocks]
    \cup [valid : {TRUE}, dir : {FALSE}, size : 0 .. MaxBlocks]

OnClientConnected(t) ==
    /\ clientTransfers[t].conn = "connecting"
    /\ \E found \in Found :
          clientTransfers' =
              [clientTransfers EXCEPT
                  ![t].conn = "open", ![t].size = found.size, ![t].dir = found.dir,
                  ![t].up = <<[type |-> "FILE_TRANSFER_INIT", valid |-> found.valid,
                               size |-> found.size]>>]
    /\ UNCHANGED <<browserVars, serverVars, linkVars>>

Blocks(path, n, dir) ==
    [i \in 1 .. n |-> [type |-> "DATA", path |-> path, i |-> i, whole |-> dir /\ n = 1]]

\* The listing was kept, a file is read now: size is the number of blocks that
\* was announced, and from here on of those that are sent.
SendRequestedData(t) ==
    /\ clientTransfers[t].conn = "open"
    /\ clientTransfers[t].ack
    /\ LET transfer == clientTransfers[t] IN
          \E n \in IF FilesChange /\ ~transfer.dir THEN 0 .. MaxBlocks ELSE {transfer.size} :
             clientTransfers' =
                 [clientTransfers EXCEPT
                     ![t].ack = FALSE, ![t].size = n,
                     ![t].up = @ \o Blocks(transfer.path, n, transfer.dir)]
    /\ UNCHANGED <<browserVars, serverVars, linkVars>>
-----------------------------------------------------------------------------
\* The connection thread of the control server.
Arrives(t, type) ==
    /\ clientTransfers[t].conn = "open"
    /\ clientTransfers[t].up # <<>>
    /\ Head(clientTransfers[t].up).type = type

HandleFileTransferInit(t) ==
    /\ Arrives(t, "FILE_TRANSFER_INIT")
    /\ LET init == Head(clientTransfers[t].up) IN
          \/ /\ t \notin DOMAIN transfers
             /\ clientTransfers' = [clientTransfers EXCEPT ![t] = Closed(@)]
             /\ UNCHANGED transfers
          \/ /\ t \in DOMAIN transfers
             /\ transfers' = [transfers EXCEPT ![t].expected = init.size,
                                               ![t].raw = @ \/ init.valid]
             /\ clientTransfers' = [clientTransfers EXCEPT ![t].up = Tail(@),
                                                           ![t].ack = init.valid]
    /\ UNCHANGED <<browserVars, waLoop, idCounter, fileSessions, linkVars>>

HandleFileTransferMsg(t) ==
    /\ Arrives(t, "DATA")
    /\ transfers[t].raw
    /\ transfers' = [transfers EXCEPT ![t].counter = @ + 1, ![t].received = @ + 1]
    /\ waLoop' = Append(waLoop, [fn |-> "OnFileTransferDataReceived", t |-> t,
                                 data |-> Head(clientTransfers[t].up)])
    /\ clientTransfers' = [clientTransfers EXCEPT ![t].up = Tail(@)]
    /\ UNCHANGED <<browserVars, idCounter, fileSessions, linkVars>>
-----------------------------------------------------------------------------
\* Connections that break, and the server that restarts.

\* Nobody handles the end of a transfer's connection; a transfer that cannot
\* connect ends in the same way.
OnClientClosed(t) ==
    /\ clientTransfers[t].conn # "closed"
    /\ clientTransfers' = [clientTransfers EXCEPT ![t] = Closed(@)]
    /\ UNCHANGED <<browserVars, serverVars, linkVars>>

HostLost ==
    /\ hostUp
    /\ breaks < MaxBreaks
    /\ breaks' = breaks + 1
    /\ hostUp' = FALSE
    /\ link' = <<>>
    /\ UNCHANGED <<browserVars, serverVars, clientTransfers, restarts>>

HostReconnects ==
    /\ ~hostUp
    /\ hostUp' = TRUE
    /\ UNCHANGED <<browserVars, serverVars, clientTransfers, link, restarts, breaks>>

\* The client keeps its transfers; those that still connect reach the new server.
ServerRestarts ==
    /\ restarts < MaxRestarts
    /\ restarts' = restarts + 1
    /\ waLoop' = <<>>
    /\ idCounter' = 0
    /\ fileSessions' = EmptyMap
    /\ transfers' = EmptyMap
    /\ hostUp' = FALSE
    /\ link' = <<>>
    /\ clientTransfers' = [t \in DOMAIN clientTransfers |->
                              IF clientTransfers[t].conn = "open"
                              THEN Closed(clientTransfers[t])
                              ELSE clientTransfers[t]]
    /\ UNCHANGED <<browserVars, breaks>>
-----------------------------------------------------------------------------
\* The WebAppServer loop.  The task holds the transfer, whose counters the
\* connection thread goes on changing.

\* Mutant: the counter is compared before the block is counted.
DownloadHeaderBefore(t) == IF transfers[t].counter = 0 THEN <<Header>> ELSE <<>>

\* Mutant: the header precedes every block.
DownloadHeaderAlways(t) == IF transfers[t].counter >= 1 THEN <<Header>> ELSE <<>>

DownloadHeader(t) == IF transfers[t].counter = 1 THEN <<Header>> ELSE <<>>

\* Mutant: the session ends with the last block but one.
AllReceivedButOne(t) == transfers[t].expected <= transfers[t].received + 1

\* Mutant: more has to be received than is expected.
MoreReceived(t) == transfers[t].expected < transfers[t].received

AllReceived(t) == transfers[t].expected = transfers[t].received

Forward(t, messages) ==
    /\ got' = [got EXCEPT ![fileSessions[t].path] = @ \o messages]
    /\ fileSessions' = IF AllReceived(t) THEN Erase(fileSessions, t) ELSE fileSessions

OnFileTransferDataReceived ==
    /\ waLoop # <<>>
    /\ Head(waLoop).fn = "OnFileTransferDataReceived"
    /\ waLoop' = Tail(waLoop)
    /\ LET t == Head(waLoop).t
           data == Head(waLoop).data
           isListing == fileSessions[t].kind = "listing"
       IN  \/ /\ t \notin DOMAIN fileSessions
              /\ UNCHANGED <<got, fileSessions>>
           \/ /\ t \in DOMAIN fileSessions
              /\ isListing /\ ~data.whole
              /\ UNCHANGED <<got, fileSessions>>
           \/ /\ t \in DOMAIN fileSessions
              /\ isListing /\ data.whole
              /\ Forward(t, <<data>>)
           \/ /\ t \in DOMAIN fileSessions
              /\ ~isListing
              /\ Forward(t, DownloadHeader(t) \o <<data>>)
    /\ UNCHANGED <<requests, idCounter, transfers, clientTransfers, linkVars>>
-----------------------------------------------------------------------------
Browsers == OnWsClientMessage \/ PerpareFileDownloadResponse

WebAppLoop == OnTerminalFileReq \/ OnFileTransferDataReceived

Client(t) == OnClientConnected(t) \/ SendRequestedData(t)

ServerConnection(t) == HandleFileTransferInit(t) \/ HandleFileTransferMsg(t)

Next ==
    \/ Browsers
    \/ WebAppLoop
    \/ MakeFileTransferRequest
    \/ \E t \in DOMAIN clientTransfers : Client(t)
    \/ \E t \in DOMAIN clientTransfers : ServerConnection(t)
    \/ \E t \in DOMAIN clientTransfers : OnClientClosed(t)
    \/ HostLost
    \/ HostReconnects
    \/ ServerRestarts

Spec == Init /\ [][Next]_vars

\* The loop and the two connection threads run.  Nothing is assumed of
\* browsers, failures, and of the machine's reconnect.
Fairness ==
    /\ WF_vars(WebAppLoop)
    /\ WF_vars(MakeFileTransferRequest)
    /\ \A t \in 1 .. MaxRequests :
          /\ WF_vars(t \in DOMAIN clientTransfers /\ Client(t))
          /\ WF_vars(t \in DOMAIN clientTransfers /\ ServerConnection(t))

FairSpec == Spec /\ Fairness
-----------------------------------------------------------------------------
\* As long as the server does not restart, a browser gets the data of the path
\* it asked for and no other: the ids of the sessions, of the server's and of
\* the client's transfers stay in step over three maps on three threads
\* (ActiveSessions.cpp NextId, FileTransferHandlerServer.cpp
\* HandleFileTransferInit).
RightData ==
    restarts = 0 =>
        \A r \in DOMAIN got : \A i \in DOMAIN got[r] :
            got[r][i].type = "DATA" => got[r][i].path = r

\* An answer may start with the HTTP header.
HeaderLen(answer) == IF answer # <<>> /\ answer[1].type = "HEADER" THEN 1 ELSE 0

InOrder(answer) ==
    \A i \in DOMAIN answer : i > HeaderLen(answer) =>
        answer[i].type = "DATA" /\ answer[i].i = i - HeaderLen(answer)

\* What a browser got is the beginning of the file, in order, and an HTTP header
\* comes, if at all, before the first block: the counter that decides on it is
\* read after the connection thread may have counted later blocks
\* (WebAppServer.cpp OnFileTransferDataReceived).
ResponseInOrder == \A r \in DOMAIN got : InOrder(got[r])

\* The session of a transfer that is under way is not erased before all the data
\* the client announced has reached the server (OnFileTransferDataReceived).
SessionUntilLastBlock ==
    \A t \in DOMAIN transfers \ DOMAIN fileSessions :
        transfers[t].raw /\ transfers[t].received >= transfers[t].expected

Handled(t) == \A i \in DOMAIN waLoop :
    waLoop[i].fn = "OnFileTransferDataReceived" => waLoop[i].t # t

\* When all that was announced has been received and handled the session is gone,
\* unless it waits for a listing that came in several blocks or is none, or for
\* the first block of an empty file (OnFileTransferDataReceived returns early,
\* or is never called).
SessionReleased ==
    \A t \in DOMAIN fileSessions :
        (transfers[t].raw /\ transfers[t].received = transfers[t].expected /\ Handled(t))
            => \/ transfers[t].expected = 0
               \/ fileSessions[t].kind = "listing"
                  /\ ~(clientTransfers[t].dir /\ transfers[t].expected = 1)

Opened(r) == \E t \in DOMAIN fileSessions : fileSessions[t].path = r

Answered(r) ==
    /\ r \in DOMAIN got
    /\ got[r] = (IF requests[r] = "download" THEN <<Header>> ELSE <<>>)
                \o Blocks(r, 1, \E t \in DOMAIN clientTransfers :
                                   clientTransfers[t].path = r /\ clientTransfers[t].dir)

\* The transfer failed, or its data is not a single block, or changed.
Excused(r) ==
    \/ breaks > 0
    \/ restarts > 0
    \/ \E t \in DOMAIN clientTransfers :
          /\ clientTransfers[t].path = r
          /\ \/ clientTransfers[t].conn = "closed"
             \/ /\ clientTransfers[t].conn = "open"
                /\ \/ clientTransfers[t].size # 1
                   \/ requests[r] = "listing" /\ ~clientTransfers[t].dir

\* A request whose data fits one block is answered, header and data, although
\* the transfer passes through the loop, both connections and back
\* (PerpareFileDownloadResponse to OnFileTransferDataReceived).
SmallTransferAnswered ==
    \A r \in 1 .. MaxRequests : Opened(r) ~> (Answered(r) \/ Excused(r))

\* Every block that is handled finds its session: otherwise the server logs the
\* error "Can't find session with id" and drops the block (WebAppServer.cpp:475).
BlocksFindTheirSession ==
    (waLoop # <<>> /\ Head(waLoop).fn = "OnFileTransferDataReceived")
        => Head(waLoop).t \in DOMAIN fileSessions

\* The client never gets an id it already has: otherwise it logs the error
\* "req id exists" and ignores the request (FileTransferHandlerClient.cpp:18).
FileRequestsAccepted ==
    link # <<>> => Head(link).t \notin DOMAIN clientTransfers
=============================================================================
