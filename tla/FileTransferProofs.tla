------------------------- MODULE FileTransferProofs -------------------------
(***************************************************************************)
(* File transfers, for any number of requests, blocks, restarts of the     *)
(* server and breaks of the machine's connection: what the browser gets,   *)
(* and when a session ends.                                                *)
(***************************************************************************)
EXTENDS FileTransfer, SequenceTheorems, TLAPS

\* The tasks in the loop that hold a block of transfer t.
Tasks(t) == {i \in DOMAIN waLoop : /\ waLoop[i].fn = "OnFileTransferDataReceived"
                                   /\ waLoop[i].t = t}

\* The blocks of an answer.
Delivered(answer) == Len(answer) - HeaderLen(answer)

\* The ids of the server's transfers come from the counter, and a session has a
\* transfer.
IdsInv ==
    /\ \A t \in DOMAIN transfers :
          t <= idCounter /\ transfers[t].counter = transfers[t].received
    /\ DOMAIN fileSessions \subseteq DOMAIN transfers

\* The transfer's announcement has not been handled.
Announced(ct) ==
    \/ ct.conn = "connecting"
    \/ ct.up # <<>> /\ ct.up[1].type = "FILE_TRANSFER_INIT"

\* Nothing has been received of a transfer that was not announced.
FreshInv ==
    \A t \in DOMAIN transfers :
        (t \in DOMAIN clientTransfers => Announced(clientTransfers[t]))
            => /\ transfers[t].expected = 0
               /\ transfers[t].received = 0
               /\ transfers[t].raw = FALSE

\* What a client's transfer has on its connection.
UpInv(t, ct) ==
    /\ ct.conn # "open" => ct.up = <<>> /\ ct.ack = FALSE
    /\ \A i \in DOMAIN ct.up : ct.up[i].type = "FILE_TRANSFER_INIT"
          => Len(ct.up) = 1 /\ ct.ack = FALSE /\ ct.up[i].size = ct.size
    /\ ct.ack => /\ t \in DOMAIN transfers
                 /\ transfers[t].raw
                 /\ ct.up = <<>>
                 /\ transfers[t].received = 0
                 /\ ct.dir => transfers[t].expected = ct.size
    /\ \A i \in DOMAIN ct.up : ct.up[i].type = "DATA"
          => /\ t \in DOMAIN transfers
             /\ transfers[t].raw
             /\ ct.up[i].i = transfers[t].received + i
             /\ ct.up[i].path = ct.path
             /\ ct.up[i].whole = (ct.dir /\ ct.size = 1)
             /\ transfers[t].received + Len(ct.up) = ct.size
             /\ ct.dir => transfers[t].expected = ct.size

ClientInv == \A t \in DOMAIN clientTransfers : UpInv(t, clientTransfers[t])

\* The tasks of a transfer hold blocks it received, in their order.
TaskInv(t, data) ==
    /\ t \in DOMAIN transfers
    /\ t \in DOMAIN clientTransfers
    /\ transfers[t].raw
    /\ data.i <= transfers[t].received
    /\ data.whole = (clientTransfers[t].dir /\ clientTransfers[t].size = 1)
    /\ clientTransfers[t].dir => transfers[t].expected = clientTransfers[t].size
    /\ data.whole => transfers[t].expected = 1 /\ transfers[t].received = 1

LoopInv ==
    /\ \A i \in DOMAIN waLoop : waLoop[i].fn = "OnFileTransferDataReceived"
          => TaskInv(waLoop[i].t, waLoop[i].data)
    /\ \A i, j \in DOMAIN waLoop :
          (/\ waLoop[i].fn = "OnFileTransferDataReceived"
           /\ waLoop[j].fn = "OnFileTransferDataReceived"
           /\ waLoop[i].t = waLoop[j].t
           /\ i < j)
             => waLoop[i].data.i < waLoop[j].data.i

\* What is still to be handled for a session.
ListingInv(t, answer) ==
    /\ answer = <<>>
    /\ (/\ t \in DOMAIN clientTransfers
        /\ clientTransfers[t].dir
        /\ transfers[t].raw
        /\ transfers[t].received = 1
        /\ transfers[t].expected = 1) => Tasks(t) # {}

DownloadInv(t, delivered) ==
    /\ delivered <= transfers[t].received
    /\ \A i \in Tasks(t) : waLoop[i].data.i > delivered
    /\ \A k \in delivered + 1 .. transfers[t].received :
          \E i \in Tasks(t) : waLoop[i].data.i = k
    /\ (transfers[t].expected > 0 /\ transfers[t].received = transfers[t].expected)
          => delivered < transfers[t].received

SessionInv ==
    \A t \in DOMAIN fileSessions :
        /\ fileSessions[t].kind = "listing" => ListingInv(t, got[fileSessions[t].path])
        /\ fileSessions[t].kind = "download"
              => DownloadInv(t, Delivered(got[fileSessions[t].path]))

\* A request has a task, then a session, then an answer.
RequestInv ==
    /\ Len(got) = Len(requests)
    /\ \A i \in DOMAIN waLoop : waLoop[i].fn = "OnTerminalFileReq"
          => /\ waLoop[i].path \in DOMAIN got
             /\ got[waLoop[i].path] = <<>>
             /\ \A t \in DOMAIN fileSessions : fileSessions[t].path # waLoop[i].path
    /\ \A i, j \in DOMAIN waLoop :
          (/\ waLoop[i].fn = "OnTerminalFileReq"
           /\ waLoop[j].fn = "OnTerminalFileReq"
           /\ waLoop[i].path = waLoop[j].path) => i = j
    /\ \A t \in DOMAIN fileSessions : fileSessions[t].path \in DOMAIN got
    /\ \A t, u \in DOMAIN fileSessions : fileSessions[t].path = fileSessions[u].path => t = u

\* An answer begins with the first block.
AnswerInv ==
    /\ ResponseInOrder
    /\ \A r \in DOMAIN got : got[r] # <<>> => Delivered(got[r]) > 0

\* An id means the same path everywhere.
Paths ==
    /\ \A t \in DOMAIN clientTransfers :
          t \in DOMAIN transfers /\ clientTransfers[t].path = transfers[t].path
    /\ \A t \in DOMAIN fileSessions : fileSessions[t].path = transfers[t].path
    /\ \A i \in DOMAIN link :
          link[i].t \in DOMAIN transfers /\ transfers[link[i].t].path = link[i].path
    /\ \A i \in DOMAIN waLoop : waLoop[i].fn = "OnFileTransferDataReceived"
          => waLoop[i].data.path = transfers[waLoop[i].t].path

\* The browsers got what they asked for.
OwnBlocks ==
    \A r \in DOMAIN got : \A i \in DOMAIN got[r] :
        got[r][i].type = "DATA" => got[r][i].path = r

\* It is so until the server restarts.
PathInv == restarts = 0 => Paths /\ OwnBlocks
-----------------------------------------------------------------------------
(***************************************************************************)
(* The operators of the model, on maps and queues.                         *)
(***************************************************************************)
LEMMA InsertFacts ==
    ASSUME NEW f, NEW k, NEW v, k \notin DOMAIN f
    PROVE  /\ DOMAIN Insert(f, k, v) = DOMAIN f \cup {k}
           /\ Insert(f, k, v)[k] = v
           /\ \A x \in DOMAIN f : Insert(f, k, v)[x] = f[x]
BY DEF Insert, Assign

LEMMA EraseFacts ==
    ASSUME NEW f, NEW k
    PROVE  /\ DOMAIN Erase(f, k) = DOMAIN f \ {k}
           /\ \A x \in DOMAIN f : x # k => Erase(f, k)[x] = f[x]
BY DEF Erase, Restrict

LEMMA EmptyMapFacts == DOMAIN EmptyMap = {}
BY DEF EmptyMap

LEMMA InsertType ==
    ASSUME NEW T, NEW f, MapTypeOK(f, T), NEW k \in Id, NEW v \in T
    PROVE  MapTypeOK(Insert(f, k, v), T)
<1>1. CASE k \in DOMAIN f
  BY <1>1 DEF Insert
<1>2. CASE k \notin DOMAIN f
  BY <1>2 DEF Insert, Assign, MapTypeOK
<1> QED BY <1>1, <1>2

LEMMA EraseType ==
    ASSUME NEW T, NEW f, MapTypeOK(f, T), NEW k
    PROVE  MapTypeOK(Erase(f, k), T)
BY DEF Erase, Restrict, MapTypeOK

\* One entry of a map is replaced.
LEMMA ReplaceType ==
    ASSUME NEW T, NEW f, MapTypeOK(f, T), NEW k \in DOMAIN f, NEW v \in T
    PROVE  MapTypeOK([f EXCEPT ![k] = v], T)
BY DEF MapTypeOK

LEMMA TailFacts ==
    ASSUME NEW S, NEW q \in Seq(S), q # <<>>
    PROVE  /\ Head(q) = q[1] /\ 1 \in DOMAIN q /\ Head(q) \in S
           /\ Tail(q) \in Seq(S)
           /\ \A i \in DOMAIN Tail(q) : i + 1 \in DOMAIN q /\ Tail(q)[i] = q[i + 1]
           /\ \A i \in DOMAIN q : i # 1 => i - 1 \in DOMAIN Tail(q)
BY HeadTailProperties

LEMMA TailOfOne ==
    ASSUME NEW S, NEW q \in Seq(S), Len(q) = 1
    PROVE  Tail(q) = <<>>
<1>1. q # <<>>
  OBVIOUS
<1>2. Tail(q) \in Seq(S) /\ Len(Tail(q)) = 0
  BY <1>1, HeadTailProperties
<1> QED BY <1>2, EmptySeq

LEMMA AppendFacts ==
    ASSUME NEW S, NEW q \in Seq(S), NEW e \in S
    PROVE  /\ Append(q, e) \in Seq(S)
           /\ DOMAIN Append(q, e) = DOMAIN q \cup {Len(q) + 1}
           /\ Append(q, e)[Len(q) + 1] = e
           /\ \A i \in DOMAIN q : Append(q, e)[i] = q[i] /\ i < Len(q) + 1
BY AppendProperties

LEMMA BlocksFacts ==
    ASSUME NEW path \in Path, NEW n \in Nat, NEW dir \in BOOLEAN
    PROVE  /\ Blocks(path, n, dir) \in Seq(UpMsg)
           /\ Len(Blocks(path, n, dir)) = n
           /\ \A i \in 1 .. n :
                 /\ Blocks(path, n, dir)[i].type = "DATA"
                 /\ Blocks(path, n, dir)[i].path = path
                 /\ Blocks(path, n, dir)[i].i = i
                 /\ Blocks(path, n, dir)[i].whole = (dir /\ n = 1)
<1>1. \A i \in 1 .. n : [type |-> "DATA", path |-> path, i |-> i, whole |-> dir /\ n = 1] \in UpMsg
  BY DEF UpMsg, Block
<1> QED BY <1>1 DEF Blocks
-----------------------------------------------------------------------------
(***************************************************************************)
(* What each action changes, field by field: after these lemmas no proof   *)
(* expands an update of a record or a map again.                           *)
(***************************************************************************)
OnlyTransfer(t) ==
    /\ DOMAIN transfers' = DOMAIN transfers
    /\ \A u \in DOMAIN transfers : u # t => transfers'[u] = transfers[u]

OnlyClientTransfer(t) ==
    /\ DOMAIN clientTransfers' = DOMAIN clientTransfers
    /\ \A u \in DOMAIN clientTransfers : u # t => clientTransfers'[u] = clientTransfers[u]

NewTransfer(path, kind) ==
    /\ NextId \notin DOMAIN transfers
    /\ DOMAIN fileSessions' = DOMAIN fileSessions \cup {NextId}
    /\ DOMAIN transfers' = DOMAIN transfers \cup {NextId}
    /\ \A t \in DOMAIN fileSessions : fileSessions'[t] = fileSessions[t]
    /\ \A t \in DOMAIN transfers : transfers'[t] = transfers[t]
    /\ fileSessions'[NextId].path = path
    /\ fileSessions'[NextId].kind = kind
    /\ transfers'[NextId].path = path
    /\ transfers'[NextId].expected = 0
    /\ transfers'[NextId].received = 0
    /\ transfers'[NextId].counter = 0
    /\ transfers'[NextId].raw = FALSE
    /\ link' \in Seq(FileTransferReq)
    /\ DOMAIN link' = DOMAIN link \cup {Len(link) + 1}
    /\ \A i \in DOMAIN link : link'[i] = link[i]
    /\ link'[Len(link) + 1] = [t |-> NextId, path |-> path]

LEMMA StartTransferEffect ==
    ASSUME FileTransferTypeOK, IdsInv, NEW path \in Path, NEW kind \in Kind,
           StartTransfer(path, kind)
    PROVE  /\ idCounter' = idCounter + 1
           /\ UNCHANGED <<fileSessions, transfers, link>> \/ NewTransfer(path, kind)
<1>1. idCounter \in Nat /\ NextId = idCounter + 1 /\ NextId \in Id
  BY DEF FileTransferTypeOK, NextId, Id
<1>2. NextId \notin DOMAIN transfers /\ NextId \notin DOMAIN fileSessions
  BY <1>1 DEF IdsInv, FileTransferTypeOK, MapTypeOK, Id
<1>3. CASE hostUp
  <2>1. PICK req \in FileTransferReq : req = [t |-> NextId, path |-> path]
    BY <1>1 DEF FileTransferReq
  <2>2. link \in Seq(FileTransferReq)
    BY DEF FileTransferTypeOK
  <2>3. /\ link' \in Seq(FileTransferReq)
        /\ DOMAIN link' = DOMAIN link \cup {Len(link) + 1}
        /\ \A i \in DOMAIN link : link'[i] = link[i]
        /\ link'[Len(link) + 1] = [t |-> NextId, path |-> path]
    <3>1. link' = Append(link, req)
      BY <1>3, <2>1 DEF StartTransfer
    <3> QED BY <2>1, <2>2, <3>1, AppendFacts
  <2>4. /\ DOMAIN fileSessions' = DOMAIN fileSessions \cup {NextId}
        /\ \A t \in DOMAIN fileSessions : fileSessions'[t] = fileSessions[t]
        /\ fileSessions'[NextId] = [path |-> path, kind |-> kind]
    BY <1>2, <1>3 DEF StartTransfer, Insert, Assign
  <2>5. /\ DOMAIN transfers' = DOMAIN transfers \cup {NextId}
        /\ \A t \in DOMAIN transfers : transfers'[t] = transfers[t]
        /\ transfers'[NextId] = [path |-> path, expected |-> 0, received |-> 0,
                                 counter |-> 0, raw |-> FALSE]
    BY <1>2, <1>3 DEF StartTransfer, Insert, Assign
  <2>6. /\ fileSessions'[NextId].path = path /\ fileSessions'[NextId].kind = kind
        /\ transfers'[NextId].path = path
        /\ transfers'[NextId].expected = 0 /\ transfers'[NextId].received = 0
        /\ transfers'[NextId].counter = 0 /\ transfers'[NextId].raw = FALSE
    BY <2>4, <2>5
  <2>7. NewTransfer(path, kind)
    BY <1>2, <2>3, <2>4, <2>5, <2>6 DEF NewTransfer
  <2> QED BY <1>1, <2>7 DEF StartTransfer
<1> QED BY <1>1, <1>3 DEF StartTransfer

LEMMA StartTransferType ==
    ASSUME FileTransferTypeOK, NEW path \in Path, NEW kind \in Kind,
           StartTransfer(path, kind)
    PROVE  /\ idCounter' \in Nat
           /\ MapTypeOK(fileSessions', Session)
           /\ MapTypeOK(transfers', ServerTransfer)
           /\ link' \in Seq(FileTransferReq)
<1>1. idCounter \in Nat /\ NextId = idCounter + 1 /\ NextId \in Id
  BY DEF FileTransferTypeOK, NextId, Id
<1>2. /\ [path |-> path, kind |-> kind] \in Session
      /\ [path |-> path, expected |-> 0, received |-> 0, counter |-> 0, raw |-> FALSE]
            \in ServerTransfer
      /\ [t |-> NextId, path |-> path] \in FileTransferReq
  BY <1>1 DEF Session, ServerTransfer, FileTransferReq
<1>3. /\ MapTypeOK(fileSessions, Session)
      /\ MapTypeOK(transfers, ServerTransfer)
      /\ link \in Seq(FileTransferReq)
  BY DEF FileTransferTypeOK
<1>4. MapTypeOK(fileSessions', Session)
  BY <1>1, <1>2, <1>3, InsertType DEF StartTransfer
<1>5. MapTypeOK(transfers', ServerTransfer)
  BY <1>1, <1>2, <1>3, InsertType DEF StartTransfer
<1>6. link' \in Seq(FileTransferReq)
  <2>1. PICK req \in FileTransferReq : req = [t |-> NextId, path |-> path]
    BY <1>2
  <2>2. link' = link \/ link' = Append(link, req)
    BY <2>1 DEF StartTransfer
  <2> QED BY <1>3, <2>2, AppendFacts
<1> QED BY <1>1, <1>4, <1>5, <1>6 DEF StartTransfer

\* A transfer of the client, field by field.
LEMMA ClientFields ==
    ASSUME FileTransferTypeOK, NEW t \in DOMAIN clientTransfers
    PROVE  /\ t \in Id
           /\ clientTransfers[t] \in ClientTransfer
           /\ clientTransfers[t].path \in Path
           /\ clientTransfers[t].conn \in {"connecting", "open", "closed"}
           /\ clientTransfers[t].size \in Nat
           /\ clientTransfers[t].dir \in BOOLEAN
           /\ clientTransfers[t].ack \in BOOLEAN
           /\ clientTransfers[t].up \in Seq(UpMsg)
<1>1. t \in Id /\ clientTransfers[t] \in ClientTransfer
  BY DEF FileTransferTypeOK, MapTypeOK
<1> QED BY <1>1 DEF ClientTransfer

LEMMA ClientUpdateType ==
    ASSUME FileTransferTypeOK, NEW t, OnlyClientTransfer(t),
           clientTransfers'[t] \in ClientTransfer
    PROVE  MapTypeOK(clientTransfers', ClientTransfer)
BY DEF FileTransferTypeOK, OnlyClientTransfer, MapTypeOK

LEMMA FoundFields ==
    ASSUME NEW found \in Found
    PROVE  found.size \in Nat /\ found.dir \in BOOLEAN /\ found.valid \in BOOLEAN
<1>1. CASE found = [valid |-> FALSE, dir |-> FALSE, size |-> 0]
  BY <1>1
<1>2. CASE found \in [valid : {TRUE}, dir : {TRUE}, size : 1 .. MaxBlocks]
  <2>1. found.size \in 1 .. MaxBlocks
    BY <1>2
  <2>2. found.dir = TRUE /\ found.valid = TRUE
    BY <1>2
  <2>3. found.size \in Nat
    BY <2>1, FileTransferAssumption
  <2> QED BY <2>2, <2>3
<1>3. CASE found \in [valid : {TRUE}, dir : {FALSE}, size : 0 .. MaxBlocks]
  <2>1. found.size \in 0 .. MaxBlocks
    BY <1>3
  <2>2. found.dir = FALSE /\ found.valid = TRUE
    BY <1>3
  <2>3. found.size \in Nat
    BY <2>1, FileTransferAssumption
  <2> QED BY <2>2, <2>3
<1> QED BY <1>1, <1>2, <1>3 DEF Found

LEMMA ConnectedEffect ==
    ASSUME FileTransferTypeOK, NEW t \in DOMAIN clientTransfers, OnClientConnected(t)
    PROVE  /\ clientTransfers[t].conn = "connecting"
           /\ OnlyClientTransfer(t)
           /\ clientTransfers'[t] \in ClientTransfer
           /\ clientTransfers'[t].path = clientTransfers[t].path
           /\ clientTransfers'[t].conn = "open"
           /\ clientTransfers'[t].ack = clientTransfers[t].ack
           /\ clientTransfers'[t].up # <<>>
           /\ Len(clientTransfers'[t].up) = 1
           /\ clientTransfers'[t].up[1].type = "FILE_TRANSFER_INIT"
           /\ clientTransfers'[t].up[1].size = clientTransfers'[t].size
<1>0. PICK found \in Found :
        clientTransfers' =
            [clientTransfers EXCEPT
                ![t].conn = "open", ![t].size = found.size, ![t].dir = found.dir,
                ![t].up = <<[type |-> "FILE_TRANSFER_INIT", valid |-> found.valid,
                             size |-> found.size]>>]
  BY DEF OnClientConnected
<1>1. found.size \in Nat /\ found.dir \in BOOLEAN /\ found.valid \in BOOLEAN
  BY FoundFields
<1>2. PICK msg \in UpMsg : msg = [type |-> "FILE_TRANSFER_INIT", valid |-> found.valid,
                                  size |-> found.size]
  BY <1>1 DEF UpMsg
<1>3. <<msg>> \in Seq(UpMsg) /\ <<msg>> # <<>> /\ Len(<<msg>>) = 1 /\ <<msg>>[1] = msg
  OBVIOUS
<1>4. PICK up \in Seq(UpMsg) : up = <<msg>>
  BY <1>3
<1>5. clientTransfers' =
        [clientTransfers EXCEPT ![t].conn = "open", ![t].size = found.size,
                                ![t].dir = found.dir, ![t].up = up]
  BY <1>0, <1>2, <1>4
<1>6. clientTransfers[t] \in ClientTransfer
  BY ClientFields
<1>7. OnlyClientTransfer(t)
  BY <1>5 DEF OnlyClientTransfer
<1>8. /\ clientTransfers'[t] \in ClientTransfer
      /\ clientTransfers'[t].path = clientTransfers[t].path
      /\ clientTransfers'[t].conn = "open"
      /\ clientTransfers'[t].ack = clientTransfers[t].ack
      /\ clientTransfers'[t].up = up
      /\ clientTransfers'[t].size = found.size
  BY <1>1, <1>5, <1>6 DEF ClientTransfer
<1> QED BY <1>2, <1>3, <1>4, <1>7, <1>8 DEF OnClientConnected

LEMMA DataEffect ==
    ASSUME FileTransferTypeOK, NEW t \in DOMAIN clientTransfers, SendRequestedData(t),
           clientTransfers[t].up = <<>>
    PROVE  /\ clientTransfers[t].conn = "open"
           /\ clientTransfers[t].ack = TRUE
           /\ OnlyClientTransfer(t)
           /\ clientTransfers'[t] \in ClientTransfer
           /\ clientTransfers'[t].path = clientTransfers[t].path
           /\ clientTransfers'[t].conn = "open"
           /\ clientTransfers'[t].dir = clientTransfers[t].dir
           /\ clientTransfers'[t].ack = FALSE
           /\ clientTransfers[t].dir => clientTransfers'[t].size = clientTransfers[t].size
           /\ Len(clientTransfers'[t].up) = clientTransfers'[t].size
           /\ \A i \in DOMAIN clientTransfers'[t].up :
                 /\ clientTransfers'[t].up[i].type = "DATA"
                 /\ clientTransfers'[t].up[i].path = clientTransfers[t].path
                 /\ clientTransfers'[t].up[i].i = i
                 /\ clientTransfers'[t].up[i].whole =
                        (clientTransfers[t].dir /\ clientTransfers'[t].size = 1)
<1> DEFINE ct == clientTransfers[t]
<1> DEFINE Sizes == IF FilesChange /\ ~ct.dir THEN 0 .. MaxBlocks ELSE {ct.size}
<1>0. \A n \in Sizes : n \in Nat /\ (ct.dir => n = ct.size)
  BY ClientFields, FileTransferAssumption
<1>1. PICK n \in Sizes :
        /\ ct.dir => n = ct.size
        /\ clientTransfers' =
               [clientTransfers EXCEPT ![t].ack = FALSE, ![t].size = n,
                                       ![t].up = @ \o Blocks(ct.path, n, ct.dir)]
  <2> HIDE DEF Sizes
  <2>1. \E n \in Sizes : clientTransfers' =
            [clientTransfers EXCEPT ![t].ack = FALSE, ![t].size = n,
                                    ![t].up = @ \o Blocks(ct.path, n, ct.dir)]
    BY DEF SendRequestedData, Sizes
  <2> QED BY <1>0, <2>1
<1> n \in Nat
  BY <1>0
<1> HIDE DEF Sizes
<1>2. /\ ct \in ClientTransfer /\ ct.path \in Path /\ ct.dir \in BOOLEAN
      /\ ct.ack \in BOOLEAN
  BY ClientFields
<1>3. PICK up \in Seq(UpMsg) : up = Blocks(ct.path, n, ct.dir)
  BY <1>2, BlocksFacts
<1>4. <<>> \o up = up
  BY ConcatEmptySeq
<1>5. clientTransfers' = [clientTransfers EXCEPT ![t].ack = FALSE, ![t].size = n, ![t].up = up]
  BY <1>1, <1>3, <1>4
<1>6. OnlyClientTransfer(t)
  BY <1>5 DEF OnlyClientTransfer
<1>7. /\ clientTransfers'[t] \in ClientTransfer
      /\ clientTransfers'[t].path = ct.path
      /\ clientTransfers'[t].conn = ct.conn
      /\ clientTransfers'[t].dir = ct.dir
      /\ clientTransfers'[t].ack = FALSE
      /\ clientTransfers'[t].up = up
      /\ clientTransfers'[t].size = n
  BY <1>2, <1>5 DEF ClientTransfer
<1>8. /\ Len(up) = n
      /\ \A i \in 1 .. n : /\ up[i].type = "DATA" /\ up[i].path = ct.path /\ up[i].i = i
                            /\ up[i].whole = (ct.dir /\ n = 1)
  BY <1>2, <1>3, BlocksFacts
<1>9. DOMAIN up = 1 .. n
  BY <1>8, LenProperties
<1> QED BY <1>1, <1>2, <1>6, <1>7, <1>8, <1>9 DEF SendRequestedData

LEMMA ClosedEffect ==
    ASSUME FileTransferTypeOK, NEW t \in DOMAIN clientTransfers,
           clientTransfers' = [clientTransfers EXCEPT ![t] = Closed(@)]
    PROVE  /\ OnlyClientTransfer(t)
           /\ clientTransfers'[t] \in ClientTransfer
           /\ clientTransfers'[t].path = clientTransfers[t].path
           /\ clientTransfers'[t].conn = "closed"
           /\ clientTransfers'[t].size = clientTransfers[t].size
           /\ clientTransfers'[t].dir = clientTransfers[t].dir
           /\ clientTransfers'[t].ack = FALSE
           /\ clientTransfers'[t].up = <<>>
<1>1. clientTransfers[t] \in ClientTransfer
  BY ClientFields
<1>2. <<>> \in Seq(UpMsg)
  BY EmptySeq
<1>3. clientTransfers'[t] = Closed(clientTransfers[t])
  OBVIOUS
<1>4. OnlyClientTransfer(t)
  BY DEF OnlyClientTransfer
<1> QED BY <1>1, <1>2, <1>3, <1>4 DEF Closed, ClientTransfer

\* A transfer of the server, field by field.
LEMMA ServerFields ==
    ASSUME FileTransferTypeOK, NEW t \in DOMAIN transfers
    PROVE  /\ t \in Id
           /\ transfers[t] \in ServerTransfer
           /\ transfers[t].path \in Path
           /\ transfers[t].expected \in Nat
           /\ transfers[t].received \in Nat
           /\ transfers[t].counter \in Nat
           /\ transfers[t].raw \in BOOLEAN
<1>1. t \in Id /\ transfers[t] \in ServerTransfer
  BY DEF FileTransferTypeOK, MapTypeOK
<1> QED BY <1>1 DEF ServerTransfer

LEMMA ServerUpdateType ==
    ASSUME FileTransferTypeOK, NEW t, OnlyTransfer(t), transfers'[t] \in ServerTransfer
    PROVE  MapTypeOK(transfers', ServerTransfer)
BY DEF FileTransferTypeOK, OnlyTransfer, MapTypeOK

\* The message of a transfer that arrives next.
LEMMA ArrivingMsg ==
    ASSUME FileTransferTypeOK, NEW t \in DOMAIN clientTransfers, NEW type, Arrives(t, type)
    PROVE  /\ clientTransfers[t].conn = "open"
           /\ 1 \in DOMAIN clientTransfers[t].up
           /\ clientTransfers[t].up # <<>>
           /\ Head(clientTransfers[t].up) = clientTransfers[t].up[1]
           /\ clientTransfers[t].up[1].type = type
           /\ type = "FILE_TRANSFER_INIT" =>
                 clientTransfers[t].up[1].size \in Nat /\ clientTransfers[t].up[1].valid \in BOOLEAN
           /\ type = "DATA" => clientTransfers[t].up[1] \in Block
<1>1. PICK up \in Seq(UpMsg) : up = clientTransfers[t].up
  BY ClientFields
<1>2. up # <<>> /\ Head(up).type = type /\ clientTransfers[t].conn = "open"
  BY <1>1 DEF Arrives
<1>3. Head(up) = up[1] /\ 1 \in DOMAIN up /\ Head(up) \in UpMsg
  BY <1>2, TailFacts
<1>4. PICK msg \in UpMsg : msg = up[1]
  BY <1>3
<1>5. /\ msg.type = "FILE_TRANSFER_INIT" => msg.size \in Nat /\ msg.valid \in BOOLEAN
      /\ msg.type = "DATA" => msg \in Block
  BY DEF UpMsg, Block
<1> QED BY <1>1, <1>2, <1>3, <1>4, <1>5

LEMMA InitEffect ==
    ASSUME FileTransferTypeOK, ClientInv, NEW t \in DOMAIN clientTransfers,
           t \in DOMAIN transfers, HandleFileTransferInit(t)
    PROVE  /\ clientTransfers[t].conn = "open"
           /\ Announced(clientTransfers[t])
           /\ OnlyTransfer(t)
           /\ transfers'[t] \in ServerTransfer
           /\ transfers'[t].path = transfers[t].path
           /\ transfers'[t].expected = clientTransfers[t].size
           /\ transfers'[t].received = transfers[t].received
           /\ transfers'[t].counter = transfers[t].counter
           /\ transfers[t].raw => transfers'[t].raw
           /\ OnlyClientTransfer(t)
           /\ clientTransfers'[t] \in ClientTransfer
           /\ clientTransfers'[t].path = clientTransfers[t].path
           /\ clientTransfers'[t].conn = "open"
           /\ clientTransfers'[t].size = clientTransfers[t].size
           /\ clientTransfers'[t].dir = clientTransfers[t].dir
           /\ clientTransfers'[t].ack => transfers'[t].raw
           /\ clientTransfers'[t].up = <<>>
<1> DEFINE ct == clientTransfers[t]
           init == ct.up[1]
<1>1. Arrives(t, "FILE_TRANSFER_INIT")
  BY DEF HandleFileTransferInit
<1>2. /\ ct.conn = "open" /\ 1 \in DOMAIN ct.up /\ ct.up # <<>> /\ Head(ct.up) = init
      /\ init.type = "FILE_TRANSFER_INIT" /\ init.size \in Nat /\ init.valid \in BOOLEAN
  BY <1>1, ArrivingMsg
<1>3. Len(ct.up) = 1 /\ init.size = ct.size
  BY <1>2 DEF ClientInv, UpInv
<1>4. Tail(ct.up) = <<>>
  BY <1>3, ClientFields, TailOfOne
<1>5. /\ transfers' = [transfers EXCEPT ![t].expected = init.size, ![t].raw = @ \/ init.valid]
      /\ clientTransfers' = [clientTransfers EXCEPT ![t].up = Tail(@), ![t].ack = init.valid]
  BY <1>2 DEF HandleFileTransferInit
<1>6. /\ OnlyTransfer(t)
      /\ transfers'[t] = [transfers[t] EXCEPT !.expected = init.size, !.raw = @ \/ init.valid]
  BY <1>5 DEF OnlyTransfer
<1>7. /\ OnlyClientTransfer(t)
      /\ clientTransfers'[t] = [clientTransfers[t] EXCEPT !.up = <<>>, !.ack = init.valid]
  BY <1>4, <1>5 DEF OnlyClientTransfer
<1>8. transfers[t] \in ServerTransfer /\ ct \in ClientTransfer /\ <<>> \in Seq(UpMsg)
  BY ServerFields, ClientFields, EmptySeq
<1>9. /\ transfers'[t] \in ServerTransfer
      /\ transfers'[t].path = transfers[t].path
      /\ transfers'[t].expected = init.size
      /\ transfers'[t].received = transfers[t].received
      /\ transfers'[t].counter = transfers[t].counter
      /\ transfers'[t].raw = (transfers[t].raw \/ init.valid)
  BY <1>2, <1>6, <1>8 DEF ServerTransfer
<1>10. /\ clientTransfers'[t] \in ClientTransfer
       /\ clientTransfers'[t].path = ct.path
       /\ clientTransfers'[t].conn = ct.conn
       /\ clientTransfers'[t].size = ct.size
       /\ clientTransfers'[t].dir = ct.dir
       /\ clientTransfers'[t].ack = init.valid
       /\ clientTransfers'[t].up = <<>>
  BY <1>2, <1>7, <1>8 DEF ClientTransfer
<1> QED BY <1>2, <1>3, <1>6, <1>7, <1>9, <1>10 DEF Announced

\* The block that arrives is the next one.
LEMMA MsgEffect ==
    ASSUME FileTransferTypeOK, ClientInv, NEW t \in DOMAIN clientTransfers,
           HandleFileTransferMsg(t)
    PROVE  /\ t \in DOMAIN transfers
           /\ clientTransfers[t].conn = "open"
           /\ 1 \in DOMAIN clientTransfers[t].up
           /\ clientTransfers[t].up[1].type = "DATA"
           /\ clientTransfers[t].up[1] \in Block
           /\ OnlyTransfer(t)
           /\ transfers'[t] \in ServerTransfer
           /\ transfers'[t].path = transfers[t].path
           /\ transfers'[t].expected = transfers[t].expected
           /\ transfers'[t].received = transfers[t].received + 1
           /\ transfers'[t].counter = transfers[t].counter + 1
           /\ transfers'[t].raw = transfers[t].raw
           /\ OnlyClientTransfer(t)
           /\ clientTransfers'[t] \in ClientTransfer
           /\ clientTransfers'[t].path = clientTransfers[t].path
           /\ clientTransfers'[t].conn = "open"
           /\ clientTransfers'[t].size = clientTransfers[t].size
           /\ clientTransfers'[t].dir = clientTransfers[t].dir
           /\ clientTransfers'[t].ack = clientTransfers[t].ack
           /\ Len(clientTransfers'[t].up) = Len(clientTransfers[t].up) - 1
           /\ \A i \in DOMAIN clientTransfers'[t].up :
                 /\ i + 1 \in DOMAIN clientTransfers[t].up
                 /\ clientTransfers'[t].up[i] = clientTransfers[t].up[i + 1]
<1> DEFINE ct == clientTransfers[t]
<1>1. Arrives(t, "DATA")
  BY DEF HandleFileTransferMsg
<1>2. /\ ct.conn = "open" /\ 1 \in DOMAIN ct.up /\ ct.up # <<>>
      /\ ct.up[1].type = "DATA" /\ ct.up[1] \in Block
  BY <1>1, ArrivingMsg
<1>3. t \in DOMAIN transfers
  BY <1>2 DEF ClientInv, UpInv
<1>4. PICK up \in Seq(UpMsg) : up = Tail(ct.up)
  BY <1>2, ClientFields, HeadTailProperties
<1>5. /\ Len(up) = Len(ct.up) - 1
      /\ \A i \in DOMAIN up : i + 1 \in DOMAIN ct.up /\ up[i] = ct.up[i + 1]
  BY <1>2, <1>4, ClientFields, HeadTailProperties, TailFacts
<1>6. /\ transfers' = [transfers EXCEPT ![t].counter = @ + 1, ![t].received = @ + 1]
      /\ clientTransfers' = [clientTransfers EXCEPT ![t].up = Tail(@)]
  BY DEF HandleFileTransferMsg
<1>0. PICK counter \in Nat, received \in Nat :
        counter = transfers[t].counter + 1 /\ received = transfers[t].received + 1
  <2>1. transfers[t].counter \in Nat /\ transfers[t].received \in Nat
    BY <1>3, ServerFields
  <2>2. transfers[t].counter + 1 \in Nat /\ transfers[t].received + 1 \in Nat
    BY <2>1
  <2> QED BY <2>2
<1>7. /\ OnlyTransfer(t)
      /\ transfers'[t] = [transfers[t] EXCEPT !.counter = counter, !.received = received]
  BY <1>0, <1>3, <1>6 DEF OnlyTransfer
<1>8. /\ OnlyClientTransfer(t)
      /\ clientTransfers'[t] = [clientTransfers[t] EXCEPT !.up = up]
  BY <1>4, <1>6 DEF OnlyClientTransfer
<1>9. transfers[t] \in ServerTransfer /\ ct \in ClientTransfer
  BY <1>3, ServerFields, ClientFields
<1>10. /\ transfers'[t] \in ServerTransfer
       /\ transfers'[t].path = transfers[t].path
       /\ transfers'[t].expected = transfers[t].expected
       /\ transfers'[t].received = received
       /\ transfers'[t].counter = counter
       /\ transfers'[t].raw = transfers[t].raw
  BY <1>7, <1>9 DEF ServerTransfer
<1>11. /\ clientTransfers'[t] \in ClientTransfer
       /\ clientTransfers'[t].path = ct.path
       /\ clientTransfers'[t].conn = ct.conn
       /\ clientTransfers'[t].size = ct.size
       /\ clientTransfers'[t].dir = ct.dir
       /\ clientTransfers'[t].ack = ct.ack
       /\ clientTransfers'[t].up = up
  BY <1>8, <1>9 DEF ClientTransfer
<1> QED BY <1>0, <1>2, <1>3, <1>5, <1>7, <1>8, <1>10, <1>11

\* The tasks, field by field.
LEMMA TaskFields ==
    ASSUME FileTransferTypeOK, NEW i \in DOMAIN waLoop
    PROVE  /\ i \in Nat \ {0}
           /\ waLoop[i] \in Task
           /\ waLoop[i].fn = "OnTerminalFileReq" => waLoop[i].path \in Path
           /\ waLoop[i].fn = "OnFileTransferDataReceived"
                 => /\ waLoop[i].t \in Id
                    /\ waLoop[i].data \in Block
                    /\ waLoop[i].data.type = "DATA"
                    /\ waLoop[i].data.path \in Path
                    /\ waLoop[i].data.i \in Nat \ {0}
                    /\ waLoop[i].data.whole \in BOOLEAN
<1>1. waLoop \in Seq(Task)
  BY DEF FileTransferTypeOK
<1>2. i \in Nat \ {0} /\ waLoop[i] \in Task
  BY <1>1, LenProperties
<1>3. PICK k \in Task : k = waLoop[i]
  BY <1>2
<1>4. /\ k.fn = "OnTerminalFileReq" => k.path \in Path
      /\ k.fn = "OnFileTransferDataReceived" => k.t \in Id /\ k.data \in Block
  BY DEF Task
<1>5. ASSUME NEW b \in Block
      PROVE  b.type = "DATA" /\ b.path \in Path /\ b.i \in Nat \ {0} /\ b.whole \in BOOLEAN
  BY DEF Block
<1> QED BY <1>2, <1>3, <1>4, <1>5

\* The loop takes its first task.
Taken ==
    /\ 1 \in DOMAIN waLoop
    /\ Head(waLoop) = waLoop[1]
    /\ waLoop' \in Seq(Task)
    /\ \A i \in DOMAIN waLoop' : i + 1 \in DOMAIN waLoop /\ waLoop'[i] = waLoop[i + 1]
    /\ \A i \in DOMAIN waLoop : i # 1 => i - 1 \in DOMAIN waLoop' /\ waLoop'[i - 1] = waLoop[i]

\* A task is posted.
Posted(task) ==
    /\ waLoop' \in Seq(Task)
    /\ DOMAIN waLoop' = DOMAIN waLoop \cup {Len(waLoop) + 1}
    /\ waLoop'[Len(waLoop) + 1] = task
    /\ Len(waLoop) \in Nat
    /\ \A i \in DOMAIN waLoop : i <= Len(waLoop) /\ waLoop'[i] = waLoop[i]

LEMMA TakenEffect ==
    ASSUME FileTransferTypeOK, waLoop # <<>>, waLoop' = Tail(waLoop)
    PROVE  Taken
<1>1. waLoop \in Seq(Task)
  BY DEF FileTransferTypeOK
<1>2. PICK q \in Seq(Task) : q = Tail(waLoop)
  BY <1>1, TailFacts
<1>3. /\ Head(waLoop) = waLoop[1] /\ 1 \in DOMAIN waLoop
      /\ \A i \in DOMAIN q : i + 1 \in DOMAIN waLoop /\ q[i] = waLoop[i + 1]
      /\ \A i \in DOMAIN waLoop : i # 1 => i - 1 \in DOMAIN q
  BY <1>1, <1>2, TailFacts
<1>4. \A i \in DOMAIN waLoop : i # 1 => q[i - 1] = waLoop[i]
  <2> TAKE i \in DOMAIN waLoop
  <2> HAVE i # 1
  <2>1. i \in Nat /\ (i - 1) + 1 = i
    BY TaskFields
  <2> QED BY <1>3, <2>1
<1> QED BY <1>2, <1>3, <1>4 DEF Taken

LEMMA PostedEffect ==
    ASSUME FileTransferTypeOK, NEW task \in Task, waLoop' = Append(waLoop, task)
    PROVE  Posted(task)
<1>1. waLoop \in Seq(Task)
  BY DEF FileTransferTypeOK
<1>2. Len(waLoop) \in Nat /\ DOMAIN waLoop = 1 .. Len(waLoop)
  BY <1>1, LenProperties
<1> QED BY <1>1, <1>2, AppendFacts DEF Posted

\* A request is made: its number is new, and nothing was sent to it.
LEMMA NewRequestEffect ==
    ASSUME FileTransferTypeOK, RequestInv, NEW kind \in Kind, NewRequest(kind)
    PROVE  /\ Len(requests) + 1 \in Path
           /\ Len(requests) + 1 \notin DOMAIN got
           /\ requests' \in Seq(Kind)
           /\ got' \in Seq(Answer)
           /\ Len(got') = Len(requests')
           /\ DOMAIN got' = DOMAIN got \cup {Len(requests) + 1}
           /\ got'[Len(requests) + 1] = <<>>
           /\ \A r \in DOMAIN got : got'[r] = got[r]
<1>1. requests \in Seq(Kind) /\ got \in Seq(Answer) /\ Len(got) = Len(requests)
  BY DEF FileTransferTypeOK, RequestInv
<1>2. <<>> \in Answer
  BY EmptySeq DEF Answer
<1>3. PICK empty \in Answer : empty = <<>>
  BY <1>2
<1>4. got' = Append(got, empty) /\ requests' = Append(requests, kind)
  BY <1>3 DEF NewRequest
<1>5. Len(got') = Len(got) + 1 /\ Len(requests') = Len(requests) + 1
  BY <1>1, <1>4, AppendProperties
<1>6. /\ Len(requests) \in Nat /\ DOMAIN got = 1 .. Len(got)
  BY <1>1, LenProperties
<1>7. Len(requests) + 1 \in Path /\ Len(requests) + 1 \notin DOMAIN got
  BY <1>1, <1>6 DEF Path
<1>8. requests' \in Seq(Kind)
  BY <1>1, <1>4, AppendFacts
<1> QED BY <1>1, <1>3, <1>4, <1>5, <1>7, <1>8, AppendFacts

LEMMA AnswerFields ==
    ASSUME FileTransferTypeOK, NEW r \in DOMAIN got
    PROVE  r \in Nat \ {0} /\ got[r] \in Answer /\ Delivered(got[r]) \in Int
<1>1. got \in Seq(Answer)
  BY DEF FileTransferTypeOK
<1>2. r \in Nat \ {0} /\ got[r] \in Answer
  BY <1>1, LenProperties
<1>3. Len(got[r]) \in Nat
  BY <1>2, LenProperties DEF Answer
<1> QED BY <1>2, <1>3 DEF Delivered, HeaderLen

LEMMA NoneDelivered == Delivered(<<>>) = 0
BY DEF Delivered, HeaderLen

\* An answer after a block was sent: one block more, and still in order.
Grows(next, answer, data) == next = Append(answer, data)

LEMMA NextBlock ==
    ASSUME NEW S, NEW answer \in Seq(S), InOrder(answer), NEW data \in S,
           data.type = "DATA", data.i = Delivered(answer) + 1,
           NEW next \in Seq(S), Grows(next, answer, data)
    PROVE  /\ next # <<>>
           /\ Delivered(next) = Delivered(answer) + 1
           /\ InOrder(next)
           /\ \A i \in DOMAIN next : next[i] = data \/ \E j \in DOMAIN answer : next[i] = answer[j]
<1>1. /\ Len(answer) \in Nat /\ DOMAIN answer = 1 .. Len(answer)
      /\ answer = <<>> <=> Len(answer) = 0
  BY LenProperties, EmptySeq
<1>2. /\ DOMAIN next = 1 .. Len(answer) + 1 /\ Len(next) = Len(answer) + 1 /\ next # <<>>
      /\ next[Len(answer) + 1] = data
      /\ \A i \in 1 .. Len(answer) : next[i] = answer[i]
  BY AppendProperties, LenProperties DEF Grows
<1>3. HeaderLen(answer) \in {0, 1}
  BY DEF HeaderLen
<1>4. HeaderLen(next) = HeaderLen(answer)
  <2>1. CASE answer = <<>>
    BY <1>1, <1>2, <2>1 DEF HeaderLen
  <2>2. CASE answer # <<>>
    <3>1. next[1] = answer[1]
      BY <1>1, <1>2, <2>2
    <3> QED BY <1>2, <2>2, <3>1 DEF HeaderLen
  <2> QED BY <2>1, <2>2
<1>5. Delivered(next) = Delivered(answer) + 1
  BY <1>1, <1>2, <1>3, <1>4 DEF Delivered
<1>6. ASSUME NEW i \in DOMAIN next, i > HeaderLen(next)
      PROVE  next[i].type = "DATA" /\ next[i].i = i - HeaderLen(next)
  <2>1. CASE i \in 1 .. Len(answer)
    <3>1. i \in DOMAIN answer /\ i > HeaderLen(answer) /\ next[i] = answer[i]
      BY <1>1, <1>2, <1>4, <1>6, <2>1
    <3> QED BY <1>4, <3>1 DEF InOrder
  <2>2. CASE i = Len(answer) + 1
    BY <1>1, <1>2, <1>3, <1>4, <2>2 DEF Delivered
  <2> QED BY <1>1, <1>2, <2>1, <2>2
<1>7. ASSUME NEW i \in DOMAIN next
      PROVE  next[i] = data \/ \E j \in DOMAIN answer : next[i] = answer[j]
  <2>1. i = Len(answer) + 1 \/ i \in 1 .. Len(answer)
    BY <1>1, <1>2
  <2> QED BY <1>1, <1>2, <2>1
<1> QED BY <1>2, <1>5, <1>6, <1>7 DEF InOrder

LEMMA SingletonFacts ==
    ASSUME NEW S, NEW e \in S
    PROVE  <<e>> \in Seq(S) /\ Len(<<e>>) = 1 /\ <<e>>[1] = e
OBVIOUS

\* The header precedes the first block.
LEMMA HeaderAndBlock ==
    ASSUME NEW S, NEW header \in S, NEW data \in S
    PROVE  \E next \in Seq(S) : /\ next = <<>> \o (<<header>> \o <<data>>)
                               /\ Len(next) = 2 /\ next[1] = header /\ next[2] = data
<1>1. PICK h : h = <<header>> /\ h \in Seq(S) /\ Len(h) = 1 /\ h[1] = header
  BY SingletonFacts
<1>2. PICK d : d = <<data>> /\ d \in Seq(S) /\ Len(d) = 1 /\ d[1] = data
  BY SingletonFacts
<1>3. PICK next \in Seq(S) : next = h \o d
  BY <1>1, <1>2, ConcatProperties
<1>4. Len(next) = 2 /\ next[1] = header /\ next[2] = data
  BY <1>1, <1>2, <1>3, ConcatProperties
<1>5. <<>> \o next = next
  BY ConcatEmptySeq
<1> QED BY <1>1, <1>2, <1>3, <1>4, <1>5

LEMMA FirstBlock ==
    ASSUME NEW S, NEW next \in Seq(S), Len(next) = 2, next[1].type = "HEADER",
           next[2].type = "DATA", next[2].i = 1
    PROVE  /\ next # <<>>
           /\ Delivered(next) = 1
           /\ InOrder(next)
           /\ \A i \in DOMAIN next : next[i].type = "DATA" => next[i] = next[2]
<1>1. DOMAIN next = {1, 2} /\ next # <<>>
  OBVIOUS
<1>2. HeaderLen(next) = 1
  BY <1>1 DEF HeaderLen
<1> QED BY <1>1, <1>2 DEF Delivered, InOrder

LEMMA ReplaceInSeq ==
    ASSUME NEW S, NEW q \in Seq(S), NEW r \in DOMAIN q, NEW e \in S, NEW p,
           p = [q EXCEPT ![r] = e]
    PROVE  /\ p \in Seq(S) /\ Len(p) = Len(q) /\ DOMAIN p = DOMAIN q
           /\ p[r] = e
           /\ \A s \in DOMAIN q : s # r => p[s] = q[s]
<1>1. r \in 1 .. Len(q)
  BY LenProperties
<1> QED BY <1>1, ExceptSeq

\* A block is sent as part of the answer to request r.
Sent(r, data) ==
    /\ got' \in Seq(Answer)
    /\ Len(got') = Len(got)
    /\ DOMAIN got' = DOMAIN got
    /\ \A s \in DOMAIN got : s # r => got'[s] = got[s]
    /\ got'[r] # <<>>
    /\ Delivered(got'[r]) = Delivered(got[r]) + 1
    /\ InOrder(got'[r])
    /\ \A i \in DOMAIN got'[r] : got'[r][i].type = "DATA"
          => got'[r][i] = data \/ \E j \in DOMAIN got[r] : got'[r][i] = got[r][j]

LEMMA SentAnswer ==
    ASSUME NEW r \in DOMAIN got, got \in Seq(Answer), NEW data, NEW answer \in Answer,
           got' = [got EXCEPT ![r] = answer],
           answer # <<>>,
           Delivered(answer) = Delivered(got[r]) + 1,
           InOrder(answer),
           \A i \in DOMAIN answer : answer[i].type = "DATA"
              => answer[i] = data \/ \E j \in DOMAIN got[r] : answer[i] = got[r][j]
    PROVE  Sent(r, data)
<1>1. PICK p : p = got'
  OBVIOUS
<1>2. p = [got EXCEPT ![r] = answer]
  BY <1>1
<1>3. /\ p \in Seq(Answer) /\ Len(p) = Len(got) /\ DOMAIN p = DOMAIN got
      /\ p[r] = answer
      /\ \A s \in DOMAIN got : s # r => p[s] = got[s]
  BY <1>2, ReplaceInSeq
<1> QED BY <1>1, <1>3 DEF Sent

\* What the loop sends of a block is the answer's next block.
Forwards(r, messages) == got' = [got EXCEPT ![r] = @ \o messages]

LEMMA BlockType ==
    /\ Header \in Block \cup {Header} /\ Header.type = "HEADER"
    /\ \A data \in Block : data \in Block \cup {Header} /\ data.type = "DATA"
BY DEF Block, Header

LEMMA BlockSent ==
    ASSUME FileTransferTypeOK, AnswerInv, NEW r \in DOMAIN got, NEW data \in Block,
           data.i = Delivered(got[r]) + 1, Forwards(r, <<data>>)
    PROVE  Sent(r, data)
<1>1. got \in Seq(Answer) /\ got[r] \in Seq(Block \cup {Header}) /\ InOrder(got[r])
  BY LenProperties DEF FileTransferTypeOK, AnswerInv, ResponseInOrder, Answer
<1>2. data.type = "DATA" /\ data \in Block \cup {Header}
  BY BlockType
<1>3. PICK answer \in Seq(Block \cup {Header}) : answer = Append(got[r], data)
  BY <1>1, <1>2, AppendProperties
<1>4. answer = got[r] \o <<data>>
  BY <1>1, <1>2, <1>3, AppendIsConcat
<1>5. /\ answer # <<>>
      /\ Delivered(answer) = Delivered(got[r]) + 1
      /\ InOrder(answer)
      /\ \A i \in DOMAIN answer :
            answer[i] = data \/ \E j \in DOMAIN got[r] : answer[i] = got[r][j]
  <2>1. PICK sent \in Seq(Block \cup {Header}) : sent = got[r]
    BY <1>1
  <2>2. InOrder(sent) /\ data.i = Delivered(sent) + 1 /\ Grows(answer, sent, data)
    BY <1>1, <1>3, <2>1 DEF Grows
  <2>3. /\ answer # <<>>
        /\ Delivered(answer) = Delivered(sent) + 1
        /\ InOrder(answer)
        /\ \A i \in DOMAIN answer :
              answer[i] = data \/ \E j \in DOMAIN sent : answer[i] = sent[j]
    BY <1>2, <2>2, NextBlock
  <2> QED BY <2>1, <2>3
<1>6. got' = [got EXCEPT ![r] = answer]
  BY <1>4 DEF Forwards
<1> QED BY <1>1, <1>5, <1>6, SentAnswer DEF Answer

LEMMA HeaderSent ==
    ASSUME FileTransferTypeOK, NEW r \in DOMAIN got, NEW data \in Block,
           got[r] = <<>>, data.i = 1, Forwards(r, <<Header>> \o <<data>>)
    PROVE  Sent(r, data)
<1>1. got \in Seq(Answer)
  BY DEF FileTransferTypeOK
<1>2. data.type = "DATA" /\ data \in Block \cup {Header}
  BY BlockType
<1>3. PICK header \in Block \cup {Header} : header = Header /\ header.type = "HEADER"
  BY BlockType
<1>4. PICK answer \in Seq(Block \cup {Header}) :
        /\ answer = <<>> \o (<<header>> \o <<data>>)
        /\ Len(answer) = 2 /\ answer[1] = header /\ answer[2] = data
  BY <1>2, HeaderAndBlock
<1>5. got[r] \o (<<Header>> \o <<data>>) = answer
  BY <1>3, <1>4
<1>6. got' = [got EXCEPT ![r] = answer]
  BY <1>5 DEF Forwards
<1>7. Delivered(got[r]) = 0
  BY EmptySeq DEF Delivered, HeaderLen
<1>8. answer[1].type = "HEADER" /\ answer[2].type = "DATA" /\ answer[2].i = 1
  BY <1>2, <1>3, <1>4
<1>9. /\ answer # <<>> /\ Delivered(answer) = 1 /\ InOrder(answer)
      /\ \A i \in DOMAIN answer : answer[i].type = "DATA" => answer[i] = data
  BY <1>4, <1>8, FirstBlock
<1>10. answer \in Answer /\ Delivered(answer) = Delivered(got[r]) + 1
  BY <1>7, <1>9 DEF Answer
<1> QED BY <1>1, <1>6, <1>9, <1>10, SentAnswer
-----------------------------------------------------------------------------
(***************************************************************************)
(* The inductive invariant.                                                *)
(***************************************************************************)
Inv ==
    /\ FileTransferTypeOK
    /\ IdsInv
    /\ FreshInv
    /\ ClientInv
    /\ LoopInv
    /\ SessionInv
    /\ RequestInv
    /\ AnswerInv
    /\ SessionUntilLastBlock

\* The session of the task that is handled wants its block next.
LEMMA NextWanted ==
    ASSUME Inv, 1 \in DOMAIN waLoop, waLoop[1].fn = "OnFileTransferDataReceived",
           NEW t, t = waLoop[1].t, t \in DOMAIN fileSessions,
           fileSessions[t].kind = "listing" => waLoop[1].data.whole
    PROVE  /\ fileSessions[t].path \in DOMAIN got
           /\ waLoop[1].data.i = Delivered(got[fileSessions[t].path]) + 1
           /\ fileSessions[t].kind = "listing" => got[fileSessions[t].path] = <<>>
<1> DEFINE data == waLoop[1].data
           answer == got[fileSessions[t].path]
<1>1. /\ data.i \in Nat \ {0} /\ fileSessions[t].path \in DOMAIN got
      /\ fileSessions[t].kind \in Kind /\ t \in DOMAIN transfers
  BY TaskFields DEF Inv, RequestInv, IdsInv, FileTransferTypeOK, MapTypeOK, Session
<1>2. transfers[t].received \in Nat /\ Delivered(answer) \in Int
  BY <1>1, ServerFields, AnswerFields DEF Inv
<1>3. TaskInv(t, data)
  BY DEF Inv, LoopInv
<1>4. CASE fileSessions[t].kind = "listing"
  <2>1. answer = <<>>
    BY <1>4 DEF Inv, SessionInv, ListingInv
  <2>2. Delivered(answer) = 0
    BY <2>1 DEF Delivered, HeaderLen
  <2>3. data.i <= 1
    BY <1>2, <1>3, <1>4 DEF TaskInv
  <2> QED BY <1>1, <2>1, <2>2, <2>3
<1>5. CASE fileSessions[t].kind = "download"
  <2>1. DownloadInv(t, Delivered(answer))
    BY <1>5 DEF Inv, SessionInv
  <2>2. 1 \in Tasks(t)
    BY DEF Tasks
  <2>3. data.i > Delivered(answer) /\ data.i <= transfers[t].received
    BY <1>3, <2>1, <2>2 DEF DownloadInv, TaskInv
  <2>4. ASSUME data.i > Delivered(answer) + 1 PROVE FALSE
    <3>1. Delivered(answer) + 1 \in Delivered(answer) + 1 .. transfers[t].received
      BY <1>1, <1>2, <2>3
    <3>2. PICK i \in Tasks(t) : waLoop[i].data.i = Delivered(answer) + 1
      BY <2>1, <3>1 DEF DownloadInv
    <3>3. /\ i \in DOMAIN waLoop /\ waLoop[i].fn = "OnFileTransferDataReceived"
          /\ waLoop[i].t = t
      BY DEF Tasks
    <3>4. i \in Nat \ {0} /\ i # 1
      BY <1>1, <1>2, <2>4, <3>2, <3>3, TaskFields DEF Inv
    <3>5. data.i < waLoop[i].data.i
      BY <3>3, <3>4 DEF Inv, LoopInv
    <3> QED BY <1>1, <1>2, <2>4, <3>2, <3>5
  <2> QED BY <1>1, <1>2, <1>5, <2>3, <2>4
<1> QED BY <1>1, <1>4, <1>5 DEF Kind

\* The task is dropped, or its block is sent.
LEMMA DataReceivedEffect ==
    ASSUME Inv, OnFileTransferDataReceived, NEW t, t = waLoop[1].t
    PROVE  /\ Taken
           /\ waLoop[1].fn = "OnFileTransferDataReceived"
           /\ \/ /\ UNCHANGED <<got, fileSessions>>
                 /\ t \in DOMAIN fileSessions
                      => fileSessions[t].kind = "listing" /\ ~waLoop[1].data.whole
              \/ /\ t \in DOMAIN fileSessions
                 /\ fileSessions[t].path \in DOMAIN got
                 /\ fileSessions[t].kind = "listing" => waLoop[1].data.whole
                 /\ waLoop[1].data.i = Delivered(got[fileSessions[t].path]) + 1
                 /\ Sent(fileSessions[t].path, waLoop[1].data)
                 /\ fileSessions' = IF transfers[t].expected = transfers[t].received
                                    THEN Erase(fileSessions, t) ELSE fileSessions
<1> DEFINE data == waLoop[1].data
           r == fileSessions[t].path
<1>1. Taken /\ waLoop[1].fn = "OnFileTransferDataReceived"
  BY TakenEffect DEF Inv, OnFileTransferDataReceived, Taken
<1>2. Head(waLoop).t = t /\ Head(waLoop).data = data /\ data \in Block /\ 1 \in DOMAIN waLoop
  BY <1>1, TaskFields DEF Inv, Taken
<1>3. CASE /\ UNCHANGED <<got, fileSessions>>
           /\ t \in DOMAIN fileSessions => fileSessions[t].kind = "listing" /\ ~data.whole
  BY <1>1, <1>3
<1>4. ASSUME t \in DOMAIN fileSessions, NEW messages, Forward(t, messages),
             fileSessions[t].kind = "listing" => data.whole,
             \/ messages = <<data>>
             \/ fileSessions[t].kind # "listing" /\ messages = DownloadHeader(t) \o <<data>>
      PROVE  /\ r \in DOMAIN got
             /\ data.i = Delivered(got[r]) + 1
             /\ Sent(r, data)
             /\ fileSessions' = IF transfers[t].expected = transfers[t].received
                                THEN Erase(fileSessions, t) ELSE fileSessions
  <2>1. r \in DOMAIN got /\ data.i = Delivered(got[r]) + 1
    BY <1>1, <1>2, <1>4, NextWanted
  <2>2. Forwards(r, messages)
    BY <1>4 DEF Forward, Forwards
  <2>3. ASSUME messages = <<data>> PROVE Sent(r, data)
    BY <1>2, <2>1, <2>2, <2>3, BlockSent DEF Inv
  <2>4. ASSUME messages = DownloadHeader(t) \o <<data>> PROVE Sent(r, data)
    <3>1. CASE transfers[t].counter = 1
      <4>1. t \in DOMAIN transfers /\ transfers[t].received = 1
        BY <1>4, <3>1 DEF Inv, IdsInv
      <4>2. data.i <= 1
        BY <1>1, <1>2, <4>1 DEF Inv, LoopInv, TaskInv
      <4>3. data.i \in Nat \ {0}
        BY <1>1, <1>2, TaskFields DEF Inv
      <4>4. data.i = 1
        BY <4>2, <4>3
      <4>5. Delivered(got[r]) \in Int
        BY <2>1, AnswerFields DEF Inv
      <4>6. ~(Delivered(got[r]) > 0)
        BY <2>1, <4>4, <4>5
      <4>7. got[r] = <<>>
        BY <2>1, <4>6 DEF Inv, AnswerInv
      <4>8. DownloadHeader(t) = <<Header>>
        BY <3>1 DEF DownloadHeader
      <4>9. Forwards(r, <<Header>> \o <<data>>)
        BY <2>2, <2>4, <4>8
      <4> QED BY <1>2, <2>1, <4>4, <4>7, <4>9, HeaderSent DEF Inv
    <3>2. CASE transfers[t].counter # 1
      <4>1. messages = <<data>>
        BY <2>4, <3>2 DEF DownloadHeader
      <4> QED BY <2>3, <4>1
    <3> QED BY <3>1, <3>2
  <2> QED BY <1>4, <2>1, <2>3, <2>4 DEF Forward, AllReceived
<1>5. CASE /\ t \in DOMAIN fileSessions /\ fileSessions[t].kind = "listing" /\ data.whole
           /\ Forward(t, <<data>>)
  BY <1>1, <1>4, <1>5
<1>6. CASE /\ t \in DOMAIN fileSessions /\ fileSessions[t].kind # "listing"
           /\ Forward(t, DownloadHeader(t) \o <<data>>)
  BY <1>1, <1>4, <1>6
<1> QED BY <1>2, <1>3, <1>5, <1>6 DEF OnFileTransferDataReceived
-----------------------------------------------------------------------------
(***************************************************************************)
(* Requests and new sessions.  The blocks in the loop keep their order, d  *)
(* places further to the front.                                            *)
(***************************************************************************)
KeepsData(d) ==
    /\ \A i \in DOMAIN waLoop' : waLoop'[i].fn = "OnFileTransferDataReceived"
          => i + d \in DOMAIN waLoop /\ waLoop'[i] = waLoop[i + d]
    /\ \A i \in DOMAIN waLoop : waLoop[i].fn = "OnFileTransferDataReceived"
          => i - d \in DOMAIN waLoop' /\ waLoop'[i - d] = waLoop[i]

LEMMA PostingKeepsData ==
    ASSUME FileTransferTypeOK, NEW task, Posted(task), task.fn = "OnTerminalFileReq"
    PROVE  KeepsData(0)
<1>1. \A i \in DOMAIN waLoop : i \in Nat /\ i + 0 = i /\ i - 0 = i
  BY TaskFields
<1>2. ASSUME NEW i \in DOMAIN waLoop', waLoop'[i].fn = "OnFileTransferDataReceived"
      PROVE  i \in DOMAIN waLoop /\ waLoop'[i] = waLoop[i]
  BY <1>2 DEF Posted
<1> QED BY <1>1, <1>2 DEF Posted, KeepsData

LEMMA TakingKeepsData ==
    ASSUME Taken, waLoop[1].fn = "OnTerminalFileReq"
    PROVE  KeepsData(1)
BY DEF Taken, KeepsData

LEMMA KeptTasks ==
    ASSUME FileTransferTypeOK, NEW d \in {0, 1}, KeepsData(d), waLoop' \in Seq(Task), NEW t
    PROVE  /\ \A i \in Tasks(t)' : i + d \in Tasks(t) /\ waLoop'[i] = waLoop[i + d]
           /\ \A i \in Tasks(t) : i - d \in Tasks(t)' /\ waLoop'[i - d] = waLoop[i]
BY DEF KeepsData, Tasks

\* Nothing but a new session is added to what is under way.
LEMMA Opening ==
    ASSUME Inv, NEW d \in {0, 1}, KeepsData(d), waLoop' \in Seq(Task),
           idCounter' \in {idCounter, idCounter + 1},
           UNCHANGED clientTransfers,
           \A r \in DOMAIN got : r \in DOMAIN got' /\ got'[r] = got[r],
           \/ UNCHANGED <<fileSessions, transfers>>
           \/ \E path \in DOMAIN got', kind \in Kind :
                 /\ NewTransfer(path, kind) /\ idCounter' = NextId
                 /\ got'[path] = <<>>
    PROVE  IdsInv' /\ FreshInv' /\ ClientInv' /\ LoopInv' /\ SessionInv' /\ SessionUntilLastBlock'
<1>1. /\ idCounter \in Nat /\ NextId = idCounter + 1
      /\ \A t \in DOMAIN transfers : t \in Nat
  BY ServerFields DEF Inv, FileTransferTypeOK, NextId, Id
<1>2. \A t \in DOMAIN transfers : t \in DOMAIN transfers' /\ transfers'[t] = transfers[t]
  BY DEF NewTransfer
<1>3. \A t \in DOMAIN fileSessions : t \in DOMAIN fileSessions' /\ fileSessions'[t] = fileSessions[t]
  BY DEF NewTransfer
<1>4. ASSUME NEW t \in DOMAIN transfers', t \notin DOMAIN transfers
      PROVE  /\ t = NextId
             /\ idCounter' = NextId
             /\ t \in DOMAIN fileSessions'
             /\ transfers'[t].expected = 0 /\ transfers'[t].received = 0
             /\ transfers'[t].counter = 0 /\ transfers'[t].raw = FALSE
             /\ fileSessions'[t].path \in DOMAIN got'
             /\ got'[fileSessions'[t].path] = <<>>
  <2>1. PICK path \in DOMAIN got', kind \in Kind :
          NewTransfer(path, kind) /\ idCounter' = NextId /\ got'[path] = <<>>
    BY <1>4
  <2>2. t = NextId
    BY <1>4, <2>1 DEF NewTransfer
  <2> QED BY <2>1, <2>2 DEF NewTransfer
<1>5. \A t \in DOMAIN fileSessions' :
        \/ t \in DOMAIN fileSessions
        \/ t \in DOMAIN transfers' /\ t \notin DOMAIN transfers
  BY DEF NewTransfer
<1>6. IdsInv'
  <2>1. \A t \in DOMAIN transfers' : t <= idCounter' /\ transfers'[t].counter = transfers'[t].received
    <3>1. ASSUME NEW t \in DOMAIN transfers
          PROVE  t <= idCounter' /\ transfers'[t].counter = transfers'[t].received
      <4>1. t <= idCounter /\ transfers[t].counter = transfers[t].received
        BY DEF Inv, IdsInv
      <4>2. t <= idCounter'
        BY <1>1, <4>1
      <4> QED BY <1>2, <4>1, <4>2
    <3>2. ASSUME NEW t \in DOMAIN transfers', t \notin DOMAIN transfers
          PROVE  t <= idCounter' /\ transfers'[t].counter = transfers'[t].received
      <4>1. /\ t = NextId /\ idCounter' = NextId
            /\ transfers'[t].counter = 0 /\ transfers'[t].received = 0
        BY <1>4, <3>2
      <4>2. t <= idCounter'
        BY <1>1, <4>1
      <4> QED BY <4>1, <4>2
    <3> QED BY <3>1, <3>2
  <2>2. DOMAIN fileSessions' \subseteq DOMAIN transfers'
    BY <1>2, <1>5 DEF Inv, IdsInv
  <2> QED BY <2>1, <2>2 DEF IdsInv
<1>7. FreshInv'
  BY <1>2, <1>4 DEF Inv, FreshInv, Announced
<1>8. ClientInv'
  <2> SUFFICES ASSUME NEW t \in DOMAIN clientTransfers
               PROVE  UpInv(t, clientTransfers[t])'
    BY DEF ClientInv
  <2>1. UpInv(t, clientTransfers[t])
    BY DEF Inv, ClientInv
  <2> QED BY <1>2, <2>1 DEF UpInv
<1>9. LoopInv'
  <2>1. ASSUME NEW i \in DOMAIN waLoop', waLoop'[i].fn = "OnFileTransferDataReceived"
        PROVE  TaskInv(waLoop[i].t, waLoop[i].data)'
    <3>1. i + d \in DOMAIN waLoop /\ waLoop'[i] = waLoop[i + d]
      BY <2>1 DEF KeepsData
    <3>2. TaskInv(waLoop[i + d].t, waLoop[i + d].data)
      BY <2>1, <3>1 DEF Inv, LoopInv
    <3> QED BY <1>2, <3>1, <3>2 DEF TaskInv
  <2>2. ASSUME NEW i \in DOMAIN waLoop', NEW j \in DOMAIN waLoop',
               waLoop'[i].fn = "OnFileTransferDataReceived",
               waLoop'[j].fn = "OnFileTransferDataReceived",
               waLoop'[i].t = waLoop'[j].t, i < j
        PROVE  waLoop'[i].data.i < waLoop'[j].data.i
    <3>1. /\ i + d \in DOMAIN waLoop /\ waLoop'[i] = waLoop[i + d]
          /\ j + d \in DOMAIN waLoop /\ waLoop'[j] = waLoop[j + d]
      BY <2>2 DEF KeepsData
    <3>2. i + d < j + d
      BY <2>2, LenProperties
    <3> QED BY <2>2, <3>1, <3>2 DEF Inv, LoopInv
  <2> QED BY <2>1, <2>2 DEF LoopInv
<1>10. SessionInv'
  <2> SUFFICES ASSUME NEW t \in DOMAIN fileSessions'
               PROVE  /\ fileSessions'[t].kind = "listing"
                            => ListingInv(t, got[fileSessions[t].path])'
                      /\ fileSessions'[t].kind = "download"
                            => DownloadInv(t, Delivered(got[fileSessions[t].path]))'
    BY DEF SessionInv
  <2>1. CASE t \in DOMAIN fileSessions
    <3>1. /\ t \in DOMAIN transfers /\ transfers'[t] = transfers[t]
          /\ fileSessions'[t] = fileSessions[t]
          /\ got'[fileSessions'[t].path] = got[fileSessions[t].path]
      BY <1>2, <1>3, <2>1 DEF Inv, IdsInv, RequestInv
    <3>2. /\ fileSessions[t].kind = "listing" => ListingInv(t, got[fileSessions[t].path])
          /\ fileSessions[t].kind = "download"
                => DownloadInv(t, Delivered(got[fileSessions[t].path]))
      BY <2>1 DEF Inv, SessionInv
    <3>3. /\ \A i \in Tasks(t)' : i + d \in Tasks(t) /\ waLoop'[i] = waLoop[i + d]
          /\ \A i \in Tasks(t) : i - d \in Tasks(t)' /\ waLoop'[i - d] = waLoop[i]
      BY KeptTasks DEF Inv
    <3>4. fileSessions[t].kind = "listing" => ListingInv(t, got[fileSessions[t].path])'
      BY <3>1, <3>2, <3>3 DEF ListingInv
    <3>5. fileSessions[t].kind = "download"
            => DownloadInv(t, Delivered(got[fileSessions[t].path]))'
      BY <3>1, <3>2, <3>3 DEF DownloadInv
    <3> QED BY <3>1, <3>4, <3>5
  <2>2. CASE t \in DOMAIN transfers' /\ t \notin DOMAIN transfers
    <3>1. Tasks(t)' = {}
      BY <1>9, <2>2, <1>4 DEF LoopInv, TaskInv, Tasks
    <3>2. got'[fileSessions'[t].path] = <<>> /\ Delivered(got[fileSessions[t].path])' = 0
      <4>1. got'[fileSessions'[t].path] = <<>>
        BY <1>4, <2>2
      <4> QED BY <4>1, NoneDelivered
    <3>3. ListingInv(t, got[fileSessions[t].path])'
      BY <1>4, <2>2, <3>2 DEF ListingInv
    <3>4. DownloadInv(t, Delivered(got[fileSessions[t].path]))'
      <4>1. transfers'[t].expected = 0 /\ transfers'[t].received = 0
        BY <1>4, <2>2
      <4> QED BY <3>1, <3>2, <4>1 DEF DownloadInv
    <3> QED BY <3>3, <3>4
  <2> QED BY <1>5, <2>1, <2>2
<1>11. SessionUntilLastBlock'
  BY <1>2, <1>3, <1>4 DEF Inv, SessionUntilLastBlock
<1> QED BY <1>6, <1>7, <1>8, <1>9, <1>10, <1>11

\* A new answer is empty.
LEMMA NewAnswerInv ==
    ASSUME AnswerInv, NEW r,
           DOMAIN got' = DOMAIN got \cup {r}, got'[r] = <<>>,
           \A s \in DOMAIN got : got'[s] = got[s]
    PROVE  AnswerInv'
<1>1. InOrder(<<>>)
  BY DEF InOrder
<1> QED BY <1>1 DEF AnswerInv, ResponseInOrder

LEMMA OnWsClientMessageStep ==
    ASSUME Inv, OnWsClientMessage
    PROVE  Inv'
<1> DEFINE new == Len(requests) + 1
<1> USE DEF Kind
<1>1. /\ new \in Path /\ new \notin DOMAIN got
      /\ requests' \in Seq(Kind) /\ got' \in Seq(Answer) /\ Len(got') = Len(requests')
      /\ DOMAIN got' = DOMAIN got \cup {new} /\ got'[new] = <<>>
      /\ \A r \in DOMAIN got : got'[r] = got[r]
  BY NewRequestEffect DEF Inv, OnWsClientMessage
<1>2. PICK task \in Task : task = [fn |-> "OnTerminalFileReq", path |-> new]
  BY <1>1 DEF Task
<1>3. task.fn = "OnTerminalFileReq" /\ task.path = new
  BY <1>2
<1>4. Posted(task)
  BY <1>2, PostedEffect DEF Inv, OnWsClientMessage
<1>5. /\ UNCHANGED <<idCounter, fileSessions, transfers, clientTransfers>>
      /\ UNCHANGED <<hostUp, link, restarts, breaks>>
  BY DEF OnWsClientMessage, linkVars
<1>6. FileTransferTypeOK'
  BY <1>1, <1>4, <1>5 DEF Inv, FileTransferTypeOK, Posted, MapTypeOK
<1>7. IdsInv' /\ FreshInv' /\ ClientInv' /\ LoopInv' /\ SessionInv' /\ SessionUntilLastBlock'
  <2>1. KeepsData(0) /\ waLoop' \in Seq(Task)
    BY <1>3, <1>4, PostingKeepsData DEF Inv, Posted
  <2> QED BY <1>1, <1>5, <2>1, Opening
<1>8. RequestInv'
  <2>1. ASSUME NEW i \in DOMAIN waLoop', waLoop'[i].fn = "OnTerminalFileReq"
        PROVE  \/ i = Len(waLoop) + 1 /\ waLoop'[i].path = new
               \/ /\ i \in DOMAIN waLoop /\ waLoop'[i] = waLoop[i]
                  /\ waLoop[i].fn = "OnTerminalFileReq"
                  /\ waLoop[i].path \in DOMAIN got /\ got[waLoop[i].path] = <<>>
                  /\ \A t \in DOMAIN fileSessions : fileSessions[t].path # waLoop[i].path
    BY <1>3, <1>4, <2>1 DEF Inv, RequestInv, Posted
  <2>2. \A t \in DOMAIN fileSessions : fileSessions[t].path \in DOMAIN got
    BY DEF Inv, RequestInv
  <2>3. ASSUME NEW i \in DOMAIN waLoop', NEW j \in DOMAIN waLoop',
               waLoop'[i].fn = "OnTerminalFileReq", waLoop'[j].fn = "OnTerminalFileReq",
               waLoop'[i].path = waLoop'[j].path
        PROVE  i = j
    BY <1>1, <2>1, <2>3 DEF Inv, RequestInv
  <2> QED BY <1>1, <1>5, <2>1, <2>2, <2>3 DEF Inv, RequestInv
<1>9. AnswerInv'
  BY <1>1, NewAnswerInv DEF Inv
<1> QED BY <1>6, <1>7, <1>8, <1>9 DEF Inv

LEMMA DownloadStep ==
    ASSUME Inv, PerpareFileDownloadResponse
    PROVE  Inv'
<1> DEFINE new == Len(requests) + 1
<1>1. /\ new \in Path /\ new \notin DOMAIN got
      /\ requests' \in Seq(Kind) /\ got' \in Seq(Answer) /\ Len(got') = Len(requests')
      /\ DOMAIN got' = DOMAIN got \cup {new} /\ got'[new] = <<>>
      /\ \A r \in DOMAIN got : got'[r] = got[r]
  BY NewRequestEffect DEF Inv, PerpareFileDownloadResponse, Kind
<1>2. UNCHANGED <<waLoop, clientTransfers, hostUp, restarts, breaks>>
  BY DEF PerpareFileDownloadResponse
<1>3. \/ UNCHANGED <<idCounter, fileSessions, transfers, link>>
      \/ StartTransfer(new, "download")
  BY DEF PerpareFileDownloadResponse
<1>4. \/ UNCHANGED <<fileSessions, transfers, link>> /\ idCounter' \in {idCounter, idCounter + 1}
      \/ NewTransfer(new, "download") /\ idCounter' = NextId /\ NextId = idCounter + 1
  BY <1>1, <1>3, StartTransferEffect DEF Inv, Kind, NextId
<1>5. FileTransferTypeOK'
  <2>1. /\ idCounter' \in Nat /\ MapTypeOK(fileSessions', Session)
        /\ MapTypeOK(transfers', ServerTransfer) /\ link' \in Seq(FileTransferReq)
    <3>1. CASE UNCHANGED <<idCounter, fileSessions, transfers, link>>
      BY <3>1 DEF Inv, FileTransferTypeOK, MapTypeOK
    <3>2. CASE StartTransfer(new, "download")
      BY <1>1, <3>2, StartTransferType DEF Inv, Kind
    <3> QED BY <1>3, <3>1, <3>2
  <2> QED BY <1>1, <1>2, <2>1 DEF Inv, FileTransferTypeOK, MapTypeOK
<1>6. IdsInv' /\ FreshInv' /\ ClientInv' /\ LoopInv' /\ SessionInv' /\ SessionUntilLastBlock'
  <2>1. KeepsData(0) /\ waLoop' \in Seq(Task)
    <3>1. \A i \in DOMAIN waLoop : i + 0 = i /\ i - 0 = i
      BY TaskFields DEF Inv
    <3> QED BY <1>2, <3>1 DEF Inv, FileTransferTypeOK, KeepsData
  <2>2. \/ UNCHANGED <<fileSessions, transfers>>
        \/ \E path \in DOMAIN got', kind \in Kind :
              NewTransfer(path, kind) /\ idCounter' = NextId /\ got'[path] = <<>>
    BY <1>1, <1>4 DEF Kind
  <2>3. idCounter' \in {idCounter, idCounter + 1}
    BY <1>4
  <2> QED BY <1>1, <1>2, <2>1, <2>2, <2>3, Opening
<1>7. RequestInv'
  <2>1. \A t \in DOMAIN fileSessions' :
          \/ t \in DOMAIN fileSessions /\ fileSessions'[t] = fileSessions[t]
          \/ t = NextId /\ fileSessions'[t].path = new
    BY <1>4 DEF NewTransfer
  <2>2. \A i \in DOMAIN waLoop : waLoop[i].fn = "OnTerminalFileReq"
            => waLoop[i].path \in DOMAIN got /\ waLoop[i].path # new
    BY <1>1 DEF Inv, RequestInv
  <2>3. \A t \in DOMAIN fileSessions :
            fileSessions[t].path \in DOMAIN got /\ fileSessions[t].path # new
    BY <1>1 DEF Inv, RequestInv
  <2> QED BY <1>1, <1>2, <2>1, <2>2, <2>3 DEF Inv, RequestInv
<1>8. AnswerInv'
  BY <1>1, NewAnswerInv DEF Inv
<1> QED BY <1>5, <1>6, <1>7, <1>8 DEF Inv

LEMMA OnTerminalFileReqStep ==
    ASSUME Inv, OnTerminalFileReq
    PROVE  Inv'
<1> DEFINE path == waLoop[1].path
<1>1. Taken /\ waLoop[1].fn = "OnTerminalFileReq" /\ Head(waLoop).path = path
  BY TakenEffect DEF Inv, OnTerminalFileReq, Taken
<1>2. /\ path \in Path /\ path \in DOMAIN got /\ got[path] = <<>>
      /\ \A t \in DOMAIN fileSessions : fileSessions[t].path # path
  BY <1>1, TaskFields DEF Inv, RequestInv, Taken
<1>3. UNCHANGED <<requests, got, clientTransfers, hostUp, restarts, breaks>>
  BY DEF OnTerminalFileReq, browserVars
<1>4. \/ UNCHANGED <<idCounter, fileSessions, transfers, link>>
      \/ StartTransfer(path, "listing")
  BY <1>1 DEF OnTerminalFileReq
<1>5. \/ UNCHANGED <<fileSessions, transfers, link>> /\ idCounter' \in {idCounter, idCounter + 1}
      \/ NewTransfer(path, "listing") /\ idCounter' = NextId /\ NextId = idCounter + 1
  BY <1>2, <1>4, StartTransferEffect DEF Inv, Kind, NextId
<1>6. FileTransferTypeOK'
  <2>1. /\ idCounter' \in Nat /\ MapTypeOK(fileSessions', Session)
        /\ MapTypeOK(transfers', ServerTransfer) /\ link' \in Seq(FileTransferReq)
    <3>1. CASE UNCHANGED <<idCounter, fileSessions, transfers, link>>
      BY <3>1 DEF Inv, FileTransferTypeOK, MapTypeOK
    <3>2. CASE StartTransfer(path, "listing")
      BY <1>2, <3>2, StartTransferType DEF Inv, Kind
    <3> QED BY <1>4, <3>1, <3>2
  <2> QED BY <1>1, <1>3, <2>1 DEF Inv, FileTransferTypeOK, MapTypeOK, Taken
<1>7. IdsInv' /\ FreshInv' /\ ClientInv' /\ LoopInv' /\ SessionInv' /\ SessionUntilLastBlock'
  <2>1. KeepsData(1) /\ waLoop' \in Seq(Task)
    BY <1>1, TakingKeepsData DEF Taken
  <2>2. \/ UNCHANGED <<fileSessions, transfers>>
        \/ \E p \in DOMAIN got', kind \in Kind :
              NewTransfer(p, kind) /\ idCounter' = NextId /\ got'[p] = <<>>
    BY <1>2, <1>3, <1>5 DEF Kind
  <2>3. idCounter' \in {idCounter, idCounter + 1}
    BY <1>5
  <2> QED BY <1>3, <2>1, <2>2, <2>3, Opening
<1>8. RequestInv'
  <2>1. \A t \in DOMAIN fileSessions' :
          \/ t \in DOMAIN fileSessions /\ fileSessions'[t] = fileSessions[t]
          \/ t = NextId /\ fileSessions'[t].path = path
    BY <1>5 DEF NewTransfer
  <2>2. ASSUME NEW i \in DOMAIN waLoop', waLoop'[i].fn = "OnTerminalFileReq"
        PROVE  /\ i + 1 \in DOMAIN waLoop /\ waLoop'[i] = waLoop[i + 1]
               /\ waLoop[i + 1].path # path /\ i \in Nat
    <3>1. i + 1 \in DOMAIN waLoop /\ waLoop'[i] = waLoop[i + 1] /\ 1 \in DOMAIN waLoop
      BY <1>1 DEF Taken
    <3>2. i \in Nat /\ i + 1 # 1
      BY <1>1, LenProperties DEF Taken
    <3> QED BY <1>1, <2>2, <3>1, <3>2 DEF Inv, RequestInv
  <2>3. ASSUME NEW i \in DOMAIN waLoop', NEW j \in DOMAIN waLoop',
               waLoop'[i].fn = "OnTerminalFileReq", waLoop'[j].fn = "OnTerminalFileReq",
               waLoop'[i].path = waLoop'[j].path
        PROVE  i = j
    <3>1. i + 1 = j + 1 /\ i \in Nat /\ j \in Nat
      BY <2>2, <2>3 DEF Inv, RequestInv
    <3> QED BY <3>1
  <2> QED BY <1>2, <1>3, <2>1, <2>2, <2>3 DEF Inv, RequestInv
<1>9. AnswerInv'
  BY <1>3 DEF Inv, AnswerInv, ResponseInOrder
<1> QED BY <1>6, <1>7, <1>8, <1>9 DEF Inv
-----------------------------------------------------------------------------
(***************************************************************************)
(* The connections.                                                        *)
(***************************************************************************)
\* What does not change where only the client's transfers do.
LEMMA ServerSideKept ==
    ASSUME Inv, UNCHANGED <<browserVars, serverVars>>
    PROVE  IdsInv' /\ RequestInv' /\ AnswerInv' /\ SessionUntilLastBlock'
BY DEF Inv, IdsInv, RequestInv, AnswerInv, ResponseInOrder, SessionUntilLastBlock,
       browserVars, serverVars

LEMMA MakeFileTransferRequestStep ==
    ASSUME Inv, MakeFileTransferRequest
    PROVE  Inv'
<1> DEFINE req == Head(link)
           new == [path |-> req.path, conn |-> "connecting", size |-> 0, dir |-> FALSE,
                   up |-> <<>>, ack |-> FALSE]
<1>1. /\ link' \in Seq(FileTransferReq) /\ req.t \in Id /\ req.path \in Path
  <2>1. link \in Seq(FileTransferReq) /\ link # <<>> /\ link' = Tail(link)
    BY DEF Inv, FileTransferTypeOK, MakeFileTransferRequest
  <2>2. link' \in Seq(FileTransferReq) /\ req \in FileTransferReq
    BY <2>1, HeadTailProperties
  <2> QED BY <2>2 DEF FileTransferReq
<1>2. UNCHANGED <<browserVars, serverVars, hostUp, restarts, breaks>>
  BY DEF MakeFileTransferRequest
<1>3. \/ UNCHANGED clientTransfers
      \/ /\ req.t \notin DOMAIN clientTransfers
         /\ DOMAIN clientTransfers' = DOMAIN clientTransfers \cup {req.t}
         /\ clientTransfers'[req.t] = new
         /\ \A t \in DOMAIN clientTransfers : clientTransfers'[t] = clientTransfers[t]
  <2>1. CASE req.t \in DOMAIN clientTransfers
    BY <2>1 DEF MakeFileTransferRequest
  <2>2. CASE req.t \notin DOMAIN clientTransfers
    BY <2>2 DEF MakeFileTransferRequest, Insert, Assign
  <2> QED BY <2>1, <2>2
<1>4. new \in ClientTransfer
  <2>1. PICK up \in Seq(UpMsg) : up = <<>>
    BY EmptySeq
  <2> QED BY <1>1, <2>1 DEF ClientTransfer
<1>5. /\ new.conn = "connecting" /\ new.up = <<>> /\ new.ack = FALSE /\ new.dir = FALSE
      /\ DOMAIN new.up = {}
  OBVIOUS
<1> HIDE DEF new
<1>6. \A t \in DOMAIN clientTransfers :
        t \in DOMAIN clientTransfers' /\ clientTransfers'[t] = clientTransfers[t]
  BY <1>3
<1>7. \A t \in DOMAIN clientTransfers' : t \in DOMAIN clientTransfers \/ clientTransfers'[t] = new
  BY <1>3
<1>8. UNCHANGED <<requests, got, waLoop, idCounter, fileSessions, transfers>>
  BY <1>2 DEF browserVars, serverVars
<1>9. FileTransferTypeOK'
  <2>1. MapTypeOK(clientTransfers', ClientTransfer)
    BY <1>1, <1>3, <1>4 DEF Inv, FileTransferTypeOK, MapTypeOK
  <2> QED BY <1>1, <1>2, <1>8, <2>1 DEF Inv, FileTransferTypeOK, MapTypeOK
<1>10. FreshInv'
  BY <1>6, <1>8 DEF Inv, FreshInv, Announced
<1>11. ClientInv'
  <2> SUFFICES ASSUME NEW t \in DOMAIN clientTransfers'
               PROVE  UpInv(t, clientTransfers[t])'
    BY DEF ClientInv
  <2>1. CASE t \in DOMAIN clientTransfers
    BY <1>6, <1>8, <2>1 DEF Inv, ClientInv, UpInv
  <2>2. CASE clientTransfers'[t] = new
    BY <1>5, <2>2 DEF UpInv
  <2> QED BY <1>7, <2>1, <2>2
<1>12. LoopInv'
  BY <1>6, <1>8 DEF Inv, LoopInv, TaskInv
<1>13. SessionInv'
  <2> SUFFICES ASSUME NEW t \in DOMAIN fileSessions
               PROVE  /\ fileSessions[t].kind = "listing"
                            => ListingInv(t, got[fileSessions[t].path])'
                      /\ fileSessions[t].kind = "download"
                            => DownloadInv(t, Delivered(got[fileSessions[t].path]))'
    BY <1>8 DEF SessionInv
  <2>1. /\ fileSessions[t].kind = "listing" => ListingInv(t, got[fileSessions[t].path])
        /\ fileSessions[t].kind = "download"
              => DownloadInv(t, Delivered(got[fileSessions[t].path]))
    BY DEF Inv, SessionInv
  <2>2. Tasks(t)' = Tasks(t)
    BY <1>8 DEF Tasks
  <2>3. t \in DOMAIN clientTransfers' /\ clientTransfers'[t].dir
          => t \in DOMAIN clientTransfers /\ clientTransfers[t].dir
    BY <1>5, <1>6, <1>7
  <2> QED BY <1>8, <2>1, <2>2, <2>3 DEF ListingInv, DownloadInv
<1> QED BY <1>2, <1>9, <1>10, <1>11, <1>12, <1>13, ServerSideKept DEF Inv

\* A transfer of the client changes, on the client's side alone.
LEMMA ClientStep ==
    ASSUME Inv, UNCHANGED <<browserVars, serverVars, linkVars>>,
           NEW t \in DOMAIN clientTransfers, OnlyClientTransfer(t),
           clientTransfers'[t] \in ClientTransfer,
           UpInv(t, clientTransfers[t])',
           Announced(clientTransfers'[t]) => Announced(clientTransfers[t]),
           \/ t \notin DOMAIN transfers
           \/ transfers[t].received = 0 /\ transfers[t].raw = FALSE
           \/ /\ clientTransfers'[t].dir = clientTransfers[t].dir
              /\ \/ transfers[t].received = 0
                 \/ clientTransfers'[t].size = clientTransfers[t].size
    PROVE  Inv'
<1>1. /\ UNCHANGED <<requests, got, waLoop, idCounter, fileSessions, transfers>>
      /\ UNCHANGED <<hostUp, link, restarts, breaks>>
  BY DEF browserVars, serverVars, linkVars
<1>2. /\ DOMAIN clientTransfers' = DOMAIN clientTransfers
      /\ \A u \in DOMAIN clientTransfers : u # t => clientTransfers'[u] = clientTransfers[u]
  BY DEF OnlyClientTransfer
<1>3. FileTransferTypeOK'
  <2>1. MapTypeOK(clientTransfers', ClientTransfer)
    BY ClientUpdateType DEF Inv
  <2> QED BY <1>1, <2>1 DEF Inv, FileTransferTypeOK, MapTypeOK
<1>4. FreshInv'
  <2> SUFFICES ASSUME NEW u \in DOMAIN transfers,
                      u \in DOMAIN clientTransfers' => Announced(clientTransfers'[u])
               PROVE  u \in DOMAIN clientTransfers => Announced(clientTransfers[u])
    BY <1>1 DEF Inv, FreshInv, Announced
  <2> QED BY <1>2
<1>5. ClientInv'
  <2> SUFFICES ASSUME NEW u \in DOMAIN clientTransfers, u # t
               PROVE  UpInv(u, clientTransfers[u])'
    BY <1>2 DEF ClientInv
  <2> QED BY <1>1, <1>2 DEF Inv, ClientInv, UpInv
<1>6. LoopInv'
  <2> SUFFICES ASSUME NEW i \in DOMAIN waLoop, waLoop[i].fn = "OnFileTransferDataReceived"
               PROVE  TaskInv(waLoop[i].t, waLoop[i].data)'
    BY <1>1 DEF Inv, LoopInv
  <2>1. TaskInv(waLoop[i].t, waLoop[i].data)
    BY DEF Inv, LoopInv
  <2>2. CASE waLoop[i].t # t
    BY <1>1, <1>2, <2>1, <2>2 DEF TaskInv
  <2>3. CASE waLoop[i].t = t
    <3>1. waLoop[i].data.i \in Nat \ {0} /\ t \in DOMAIN transfers
      BY <2>1, <2>3, TaskFields DEF Inv, TaskInv
    <3>2. transfers[t].received # 0
      BY <2>1, <2>3, <3>1 DEF TaskInv
    <3>3. clientTransfers'[t].dir = clientTransfers[t].dir
          /\ clientTransfers'[t].size = clientTransfers[t].size
      BY <3>1, <3>2
    <3> QED BY <1>1, <1>2, <2>1, <2>3, <3>3 DEF TaskInv
  <2> QED BY <2>2, <2>3
<1>7. SessionInv'
  <2> SUFFICES ASSUME NEW u \in DOMAIN fileSessions
               PROVE  /\ fileSessions[u].kind = "listing"
                            => ListingInv(u, got[fileSessions[u].path])'
                      /\ fileSessions[u].kind = "download"
                            => DownloadInv(u, Delivered(got[fileSessions[u].path]))'
    BY <1>1 DEF SessionInv
  <2>1. /\ fileSessions[u].kind = "listing" => ListingInv(u, got[fileSessions[u].path])
        /\ fileSessions[u].kind = "download"
              => DownloadInv(u, Delivered(got[fileSessions[u].path]))
        /\ u \in DOMAIN transfers
    BY DEF Inv, SessionInv, IdsInv
  <2>2. Tasks(u)' = Tasks(u)
    BY <1>1 DEF Tasks
  <2>3. (transfers[u].received = 1 /\ transfers[u].raw)
          => (clientTransfers'[u].dir = clientTransfers[u].dir \/ u \notin DOMAIN clientTransfers)
    BY <1>2, <2>1
  <2> QED BY <1>1, <1>2, <2>1, <2>2, <2>3 DEF ListingInv, DownloadInv
<1> QED BY <1>3, <1>4, <1>5, <1>6, <1>7, ServerSideKept DEF Inv

LEMMA OnClientConnectedStep ==
    ASSUME Inv, NEW t \in DOMAIN clientTransfers, OnClientConnected(t)
    PROVE  Inv'
<1>1. /\ clientTransfers[t].conn = "connecting"
      /\ OnlyClientTransfer(t)
      /\ clientTransfers'[t] \in ClientTransfer
      /\ clientTransfers'[t].conn = "open"
      /\ clientTransfers'[t].ack = clientTransfers[t].ack
      /\ Len(clientTransfers'[t].up) = 1
      /\ clientTransfers'[t].up[1].type = "FILE_TRANSFER_INIT"
      /\ clientTransfers'[t].up[1].size = clientTransfers'[t].size
  BY ConnectedEffect DEF Inv
<1>2. clientTransfers[t].ack = FALSE /\ Announced(clientTransfers[t])
  BY <1>1 DEF Inv, ClientInv, UpInv, Announced
<1>3. DOMAIN clientTransfers'[t].up = {1}
  BY <1>1, LenProperties DEF ClientTransfer
<1>4. UpInv(t, clientTransfers[t])'
  BY <1>1, <1>2, <1>3 DEF UpInv
<1>5. t \in DOMAIN transfers => transfers[t].received = 0 /\ transfers[t].raw = FALSE
  BY <1>2 DEF Inv, FreshInv
<1>6. UNCHANGED <<browserVars, serverVars, linkVars>>
  BY DEF OnClientConnected
<1> QED BY <1>1, <1>2, <1>4, <1>5, <1>6, ClientStep

LEMMA SendRequestedDataStep ==
    ASSUME Inv, NEW t \in DOMAIN clientTransfers, SendRequestedData(t)
    PROVE  Inv'
<1>1. /\ t \in DOMAIN transfers /\ transfers[t].raw /\ clientTransfers[t].up = <<>>
      /\ transfers[t].received = 0
      /\ clientTransfers[t].dir => transfers[t].expected = clientTransfers[t].size
  BY DEF SendRequestedData, Inv, ClientInv, UpInv
<1>2. /\ OnlyClientTransfer(t)
      /\ clientTransfers'[t] \in ClientTransfer
      /\ clientTransfers'[t].path = clientTransfers[t].path
      /\ clientTransfers'[t].conn = "open"
      /\ clientTransfers'[t].dir = clientTransfers[t].dir
      /\ clientTransfers'[t].ack = FALSE
      /\ clientTransfers[t].dir => clientTransfers'[t].size = clientTransfers[t].size
      /\ Len(clientTransfers'[t].up) = clientTransfers'[t].size
      /\ \A i \in DOMAIN clientTransfers'[t].up :
            /\ clientTransfers'[t].up[i].type = "DATA"
            /\ clientTransfers'[t].up[i].path = clientTransfers[t].path
            /\ clientTransfers'[t].up[i].i = i
            /\ clientTransfers'[t].up[i].whole =
                  (clientTransfers[t].dir /\ clientTransfers'[t].size = 1)
  BY <1>1, DataEffect DEF Inv
<1>3. UNCHANGED <<browserVars, serverVars, linkVars>> /\ UNCHANGED transfers
  BY DEF SendRequestedData, serverVars
<1>4. /\ clientTransfers'[t].size \in Nat
      /\ \A i \in DOMAIN clientTransfers'[t].up : i \in Nat
  BY <1>2, LenProperties DEF ClientTransfer
<1>5. UpInv(t, clientTransfers[t])'
  BY <1>1, <1>2, <1>3, <1>4 DEF UpInv
<1>6. ~Announced(clientTransfers'[t])
  <2>1. clientTransfers'[t].up # <<>> => 1 \in DOMAIN clientTransfers'[t].up
    BY <1>2, EmptySeq, LenProperties DEF ClientTransfer
  <2> QED BY <1>2, <2>1 DEF Announced
<1> QED BY <1>1, <1>2, <1>3, <1>5, <1>6, ClientStep

LEMMA ClosedStep ==
    ASSUME Inv, NEW t \in DOMAIN clientTransfers,
           clientTransfers' = [clientTransfers EXCEPT ![t] = Closed(@)],
           UNCHANGED <<browserVars, serverVars, linkVars>>
    PROVE  Inv'
<1>1. /\ OnlyClientTransfer(t)
      /\ clientTransfers'[t] \in ClientTransfer
      /\ clientTransfers'[t].conn = "closed"
      /\ clientTransfers'[t].size = clientTransfers[t].size
      /\ clientTransfers'[t].dir = clientTransfers[t].dir
      /\ clientTransfers'[t].ack = FALSE
      /\ clientTransfers'[t].up = <<>>
  BY ClosedEffect DEF Inv
<1>2. UpInv(t, clientTransfers[t])'
  BY <1>1, EmptySeq DEF UpInv
<1>3. ~Announced(clientTransfers'[t])
  BY <1>1 DEF Announced
<1> QED BY <1>1, <1>2, <1>3, ClientStep

\* The announcement: nothing was received before it.
LEMMA HandleFileTransferInitStep ==
    ASSUME Inv, NEW t \in DOMAIN clientTransfers, HandleFileTransferInit(t)
    PROVE  Inv'
<1>1. CASE t \notin DOMAIN transfers
  <2>1. /\ clientTransfers' = [clientTransfers EXCEPT ![t] = Closed(@)]
        /\ UNCHANGED <<browserVars, serverVars, linkVars>>
    BY <1>1 DEF HandleFileTransferInit, serverVars
  <2> QED BY <2>1, ClosedStep
<1>2. CASE t \in DOMAIN transfers
  <2>1. /\ Announced(clientTransfers[t])
        /\ OnlyTransfer(t)
        /\ transfers'[t] \in ServerTransfer
        /\ transfers'[t].expected = clientTransfers[t].size
        /\ transfers'[t].received = transfers[t].received
        /\ transfers'[t].counter = transfers[t].counter
        /\ OnlyClientTransfer(t)
        /\ clientTransfers'[t] \in ClientTransfer
        /\ clientTransfers'[t].conn = "open"
        /\ clientTransfers'[t].size = clientTransfers[t].size
        /\ clientTransfers'[t].dir = clientTransfers[t].dir
        /\ clientTransfers'[t].ack => transfers'[t].raw
        /\ clientTransfers'[t].up = <<>>
    BY <1>2, InitEffect DEF Inv
  <2>2. transfers[t].received = 0 /\ transfers[t].raw = FALSE
    BY <1>2, <2>1 DEF Inv, FreshInv
  <2>3. /\ UNCHANGED <<requests, got, waLoop, idCounter, fileSessions>>
        /\ UNCHANGED <<hostUp, link, restarts, breaks>>
    BY DEF HandleFileTransferInit, browserVars, linkVars
  <2>4. /\ DOMAIN transfers' = DOMAIN transfers
        /\ \A u \in DOMAIN transfers : u # t => transfers'[u] = transfers[u]
        /\ DOMAIN clientTransfers' = DOMAIN clientTransfers
        /\ \A u \in DOMAIN clientTransfers : u # t => clientTransfers'[u] = clientTransfers[u]
    BY <2>1 DEF OnlyTransfer, OnlyClientTransfer
  <2>5. ~Announced(clientTransfers'[t])
    BY <2>1 DEF Announced
  <2>6. FileTransferTypeOK'
    <3>1. MapTypeOK(clientTransfers', ClientTransfer) /\ MapTypeOK(transfers', ServerTransfer)
      BY <2>1, ClientUpdateType, ServerUpdateType DEF Inv
    <3> QED BY <2>3, <3>1 DEF Inv, FileTransferTypeOK, MapTypeOK
  <2>7. IdsInv'
    BY <2>1, <2>3, <2>4 DEF Inv, IdsInv
  <2>8. FreshInv'
    <3> SUFFICES ASSUME NEW u \in DOMAIN transfers, u # t,
                        u \in DOMAIN clientTransfers => Announced(clientTransfers[u])
                 PROVE  /\ transfers[u].expected = 0 /\ transfers[u].received = 0
                        /\ transfers[u].raw = FALSE
      BY <2>4, <2>5 DEF FreshInv, Announced
    <3> QED BY DEF Inv, FreshInv
  <2>9. ClientInv'
    <3> SUFFICES ASSUME NEW u \in DOMAIN clientTransfers
                 PROVE  UpInv(u, clientTransfers[u])'
      BY <2>4 DEF ClientInv
    <3>1. CASE u # t
      BY <2>4, <3>1 DEF Inv, ClientInv, UpInv
    <3>2. CASE u = t
      BY <1>2, <2>1, <2>2, <2>4, <3>2, EmptySeq DEF UpInv
    <3> QED BY <3>1, <3>2
  <2>10. LoopInv'
    <3> SUFFICES ASSUME NEW i \in DOMAIN waLoop, waLoop[i].fn = "OnFileTransferDataReceived"
                 PROVE  TaskInv(waLoop[i].t, waLoop[i].data)'
      BY <2>3 DEF Inv, LoopInv
    <3>1. TaskInv(waLoop[i].t, waLoop[i].data)
      BY DEF Inv, LoopInv
    <3>2. waLoop[i].t # t
      BY <2>2, <3>1, TaskFields DEF Inv, TaskInv
    <3> QED BY <2>3, <2>4, <3>1, <3>2 DEF TaskInv
  <2>11. SessionInv'
    <3> SUFFICES ASSUME NEW u \in DOMAIN fileSessions
                 PROVE  /\ fileSessions[u].kind = "listing"
                              => ListingInv(u, got[fileSessions[u].path])'
                        /\ fileSessions[u].kind = "download"
                              => DownloadInv(u, Delivered(got[fileSessions[u].path]))'
      BY <2>3 DEF SessionInv
    <3>1. /\ fileSessions[u].kind = "listing" => ListingInv(u, got[fileSessions[u].path])
          /\ fileSessions[u].kind = "download"
                => DownloadInv(u, Delivered(got[fileSessions[u].path]))
          /\ u \in DOMAIN transfers
      BY DEF Inv, SessionInv, IdsInv
    <3>2. Tasks(u)' = Tasks(u)
      BY <2>3 DEF Tasks
    <3>3. CASE u # t
      BY <2>3, <2>4, <3>1, <3>2, <3>3 DEF ListingInv, DownloadInv
    <3>4. CASE u = t
      <4>1. transfers'[t].received = 0
        BY <2>1, <2>2
      <4> QED BY <2>2, <2>3, <3>1, <3>2, <3>4, <4>1 DEF ListingInv, DownloadInv
    <3> QED BY <3>3, <3>4
  <2>12. RequestInv' /\ AnswerInv'
    BY <2>3 DEF Inv, RequestInv, AnswerInv, ResponseInOrder
  <2>13. SessionUntilLastBlock'
    <3> SUFFICES ASSUME NEW u \in DOMAIN transfers, u \notin DOMAIN fileSessions
                 PROVE  transfers'[u].raw /\ transfers'[u].received >= transfers'[u].expected
      BY <2>3, <2>4 DEF SessionUntilLastBlock
    <3>1. transfers[u].raw /\ transfers[u].received >= transfers[u].expected
      BY DEF Inv, SessionUntilLastBlock
    <3>2. u # t
      BY <2>2, <3>1
    <3> QED BY <2>4, <3>1, <3>2
  <2> QED BY <2>6, <2>7, <2>8, <2>9, <2>10, <2>11, <2>12, <2>13 DEF Inv
<1> QED BY <1>1, <1>2

\* A block arrives: it follows those that were received, and its task those that
\* are waiting.
LEMMA HandleFileTransferMsgStep ==
    ASSUME Inv, NEW t \in DOMAIN clientTransfers, HandleFileTransferMsg(t)
    PROVE  Inv'
<1>0. PICK data, n : data = clientTransfers[t].up[1] /\ n = Len(waLoop) + 1
  OBVIOUS
<1>1. /\ t \in DOMAIN transfers
      /\ clientTransfers[t].conn = "open"
      /\ 1 \in DOMAIN clientTransfers[t].up
      /\ data.type = "DATA"
      /\ data \in Block
      /\ OnlyTransfer(t)
      /\ transfers'[t] \in ServerTransfer
      /\ transfers'[t].expected = transfers[t].expected
      /\ transfers'[t].received = transfers[t].received + 1
      /\ transfers'[t].counter = transfers[t].counter + 1
      /\ transfers'[t].raw = transfers[t].raw
      /\ OnlyClientTransfer(t)
      /\ clientTransfers'[t] \in ClientTransfer
      /\ clientTransfers'[t].path = clientTransfers[t].path
      /\ clientTransfers'[t].conn = "open"
      /\ clientTransfers'[t].size = clientTransfers[t].size
      /\ clientTransfers'[t].dir = clientTransfers[t].dir
      /\ clientTransfers'[t].ack = clientTransfers[t].ack
      /\ Len(clientTransfers'[t].up) = Len(clientTransfers[t].up) - 1
      /\ \A i \in DOMAIN clientTransfers'[t].up :
            /\ i + 1 \in DOMAIN clientTransfers[t].up
            /\ clientTransfers'[t].up[i] = clientTransfers[t].up[i + 1]
  BY <1>0, MsgEffect DEF Inv
<1>2. /\ transfers[t].expected \in Nat /\ transfers[t].received \in Nat
      /\ clientTransfers[t].size \in Nat /\ Len(clientTransfers[t].up) \in Nat
      /\ DOMAIN clientTransfers[t].up = 1 .. Len(clientTransfers[t].up)
      /\ \A i \in DOMAIN clientTransfers'[t].up : i \in Nat \ {0}
      /\ clientTransfers[t].dir \in BOOLEAN
      /\ t \in Id
  BY <1>1, ServerFields, ClientFields, LenProperties DEF Inv, ClientTransfer
<1>3. /\ transfers[t].raw
      /\ data.i = transfers[t].received + 1
      /\ data.path = clientTransfers[t].path
      /\ data.whole = (clientTransfers[t].dir /\ clientTransfers[t].size = 1)
      /\ transfers[t].received + Len(clientTransfers[t].up) = clientTransfers[t].size
      /\ clientTransfers[t].dir => transfers[t].expected = clientTransfers[t].size
      /\ clientTransfers[t].ack = FALSE
  <2>1. UpInv(t, clientTransfers[t])
    BY DEF Inv, ClientInv
  <2>2. clientTransfers[t].ack \in BOOLEAN
    BY ClientFields DEF Inv
  <2>3. DOMAIN clientTransfers[t].up # {}
    BY <1>1
  <2>4. clientTransfers[t].up # <<>>
    BY <2>3
  <2> QED BY <1>0, <1>1, <2>1, <2>2, <2>4 DEF UpInv
<1>4. Len(clientTransfers[t].up) >= 1
  BY <1>1, <1>2
<1>5. PICK task \in Task : task = [fn |-> "OnFileTransferDataReceived", t |-> t, data |-> data]
  BY <1>1, <1>2 DEF Task
<1>6. task.fn = "OnFileTransferDataReceived" /\ task.t = t /\ task.data = data
  BY <1>5
<1>7. Posted(task)
  <2>1. waLoop' = Append(waLoop, [fn |-> "OnFileTransferDataReceived", t |-> t,
                                  data |-> Head(clientTransfers[t].up)])
    BY DEF HandleFileTransferMsg
  <2>2. Head(clientTransfers[t].up) = data
    BY <1>0, ArrivingMsg DEF HandleFileTransferMsg, Inv
  <2>3. waLoop' = Append(waLoop, task)
    BY <1>5, <2>1, <2>2
  <2> QED BY <2>3, PostedEffect DEF Inv
<1>8. /\ waLoop' \in Seq(Task)
      /\ DOMAIN waLoop' = DOMAIN waLoop \cup {n} /\ waLoop'[n] = task
      /\ n \in Nat
      /\ \A i \in DOMAIN waLoop : i < n /\ i # n /\ waLoop'[i] = waLoop[i]
  BY <1>0, <1>7, TaskFields DEF Posted, Inv
<1>9. /\ UNCHANGED <<requests, got, idCounter, fileSessions>>
      /\ UNCHANGED <<hostUp, link, restarts, breaks>>
  BY DEF HandleFileTransferMsg, browserVars, linkVars
<1>10. /\ DOMAIN transfers' = DOMAIN transfers
       /\ \A u \in DOMAIN transfers : u # t => transfers'[u] = transfers[u]
       /\ DOMAIN clientTransfers' = DOMAIN clientTransfers
       /\ \A u \in DOMAIN clientTransfers : u # t => clientTransfers'[u] = clientTransfers[u]
  BY <1>1 DEF OnlyTransfer, OnlyClientTransfer
<1>11. FileTransferTypeOK'
  <2>1. MapTypeOK(clientTransfers', ClientTransfer) /\ MapTypeOK(transfers', ServerTransfer)
    BY <1>1, ClientUpdateType, ServerUpdateType DEF Inv
  <2> QED BY <1>8, <1>9, <2>1 DEF Inv, FileTransferTypeOK, MapTypeOK
<1>12. IdsInv'
  <2>1. transfers[t].counter = transfers[t].received
    BY <1>1 DEF Inv, IdsInv
  <2>2. transfers'[t].counter = transfers'[t].received
    BY <1>1, <2>1
  <2> QED BY <1>9, <1>10, <2>2 DEF Inv, IdsInv
<1>13. FreshInv'
  <2>1. ~Announced(clientTransfers'[t])
    <3>1. CASE clientTransfers'[t].up = <<>>
      BY <1>1, <3>1 DEF Announced
    <3>2. CASE clientTransfers'[t].up # <<>>
      <4>1. 1 \in DOMAIN clientTransfers'[t].up
        BY <1>1, <3>2, LenProperties, EmptySeq DEF ClientTransfer
      <4>2. clientTransfers'[t].up[1] = clientTransfers[t].up[2] /\ 2 \in DOMAIN clientTransfers[t].up
        BY <1>1, <4>1
      <4>3. Len(clientTransfers[t].up) # 1
        BY <4>2, ClientFields, LenProperties DEF Inv
      <4>4. clientTransfers[t].up[2].type # "FILE_TRANSFER_INIT"
        BY <4>2, <4>3 DEF Inv, ClientInv, UpInv
      <4> QED BY <1>1, <4>2, <4>4 DEF Announced
    <3> QED BY <3>1, <3>2
  <2> SUFFICES ASSUME NEW u \in DOMAIN transfers, u # t,
                      u \in DOMAIN clientTransfers => Announced(clientTransfers[u])
               PROVE  /\ transfers[u].expected = 0 /\ transfers[u].received = 0
                      /\ transfers[u].raw = FALSE
    BY <1>10, <2>1 DEF FreshInv, Announced
  <2> QED BY DEF Inv, FreshInv
<1>14. ClientInv'
  <2> SUFFICES ASSUME NEW u \in DOMAIN clientTransfers
               PROVE  UpInv(u, clientTransfers[u])'
    BY <1>10 DEF ClientInv
  <2>1. CASE u # t
    BY <1>10, <2>1 DEF Inv, ClientInv, UpInv
  <2>2. CASE u = t
    <3>1. UpInv(t, clientTransfers[t])
      BY DEF Inv, ClientInv
    <3>2. ASSUME NEW i \in DOMAIN clientTransfers'[t].up
          PROVE  /\ clientTransfers'[t].up[i].type # "FILE_TRANSFER_INIT"
                 /\ clientTransfers'[t].up[i].type = "DATA" =>
                      /\ clientTransfers'[t].up[i].i = transfers'[t].received + i
                      /\ clientTransfers'[t].up[i].path = clientTransfers[t].path
                      /\ clientTransfers'[t].up[i].whole
                            = (clientTransfers[t].dir /\ clientTransfers[t].size = 1)
                      /\ transfers'[t].received + Len(clientTransfers'[t].up)
                            = clientTransfers[t].size
      <4>1. /\ i \in Nat \ {0} /\ i + 1 \in DOMAIN clientTransfers[t].up
            /\ clientTransfers'[t].up[i] = clientTransfers[t].up[i + 1]
        BY <1>1, <1>2
      <4>2. Len(clientTransfers[t].up) # 1
        BY <1>2, <4>1
      <4>3. clientTransfers'[t].up[i].type # "FILE_TRANSFER_INIT"
        BY <3>1, <4>1, <4>2 DEF UpInv
      <4>4. ASSUME clientTransfers'[t].up[i].type = "DATA"
            PROVE  /\ clientTransfers'[t].up[i].i = transfers[t].received + (i + 1)
                   /\ clientTransfers'[t].up[i].path = clientTransfers[t].path
                   /\ clientTransfers'[t].up[i].whole
                        = (clientTransfers[t].dir /\ clientTransfers[t].size = 1)
        BY <3>1, <4>1, <4>4 DEF UpInv
      <4>5. /\ transfers[t].received + (i + 1) = transfers'[t].received + i
            /\ transfers'[t].received + Len(clientTransfers'[t].up) = clientTransfers[t].size
        <5>1. /\ transfers'[t].received = transfers[t].received + 1
              /\ Len(clientTransfers'[t].up) = Len(clientTransfers[t].up) - 1
              /\ transfers[t].received + Len(clientTransfers[t].up) = clientTransfers[t].size
              /\ transfers[t].received \in Nat /\ Len(clientTransfers[t].up) \in Nat
          BY <1>1, <1>2, <1>3
        <5>2. PICK r \in Nat, l \in Nat : r = transfers[t].received /\ l = Len(clientTransfers[t].up)
          BY <5>1
        <5>3. transfers'[t].received = r + 1 /\ Len(clientTransfers'[t].up) = l - 1
          BY <5>1, <5>2
        <5>4. \A k \in Nat : r + (k + 1) = (r + 1) + k
          OBVIOUS
        <5>5. transfers[t].received + (i + 1) = transfers'[t].received + i
          BY <4>1, <5>2, <5>3, <5>4
        <5>6. (r + 1) + (l - 1) = r + l
          OBVIOUS
        <5> QED BY <5>1, <5>2, <5>3, <5>5, <5>6
      <4> QED BY <4>3, <4>4, <4>5
    <3>3. transfers'[t].raw /\ clientTransfers'[t].ack = FALSE
      BY <1>1, <1>3
    <3> QED BY <1>1, <1>3, <1>10, <2>2, <3>2, <3>3 DEF UpInv
  <2> QED BY <2>1, <2>2
<1>15. LoopInv'
  <2>1. ASSUME NEW i \in DOMAIN waLoop, waLoop[i].fn = "OnFileTransferDataReceived"
        PROVE  TaskInv(waLoop[i].t, waLoop[i].data)'
    <3>1. TaskInv(waLoop[i].t, waLoop[i].data) /\ waLoop'[i] = waLoop[i]
      BY <1>8, <2>1 DEF Inv, LoopInv
    <3>2. CASE waLoop[i].t # t
      BY <1>10, <3>1, <3>2 DEF TaskInv
    <3>3. CASE waLoop[i].t = t
      <4>1. waLoop[i].data.i \in Nat \ {0} /\ waLoop[i].data.i <= transfers[t].received
        BY <2>1, <3>1, <3>3, TaskFields DEF Inv, TaskInv
      <4>2. waLoop[i].data.i <= transfers'[t].received /\ clientTransfers[t].size # 1
        BY <1>1, <1>2, <1>3, <1>4, <4>1
      <4>3. waLoop[i].data.whole = FALSE
        BY <3>1, <3>3, <4>2 DEF TaskInv
      <4> QED BY <1>1, <1>10, <3>1, <3>3, <4>2, <4>3 DEF TaskInv
    <3> QED BY <3>2, <3>3
  <2>2. TaskInv(waLoop[n].t, waLoop[n].data)'
    <3>1. data.i <= transfers'[t].received
      BY <1>1, <1>2, <1>3
    <3>2. ASSUME data.whole PROVE transfers'[t].expected = 1 /\ transfers'[t].received = 1
      <4>1. clientTransfers[t].dir /\ clientTransfers[t].size = 1
        BY <1>3, <3>2
      <4> QED BY <1>1, <1>2, <1>3, <1>4, <4>1
    <3>3. transfers'[t].raw
      BY <1>1, <1>3
    <3>4. /\ data.whole = (clientTransfers'[t].dir /\ clientTransfers'[t].size = 1)
          /\ clientTransfers'[t].dir => transfers'[t].expected = clientTransfers'[t].size
      BY <1>1, <1>3
    <3>5. waLoop'[n].t = t /\ waLoop'[n].data = data
      BY <1>6, <1>8
    <3>6. t \in DOMAIN transfers' /\ t \in DOMAIN clientTransfers'
      BY <1>1, <1>10
    <3> QED BY <3>1, <3>2, <3>3, <3>4, <3>5, <3>6 DEF TaskInv
  <2>3. ASSUME NEW i \in DOMAIN waLoop', waLoop'[i].fn = "OnFileTransferDataReceived"
        PROVE  \/ i = n /\ waLoop'[i] = task
               \/ /\ i \in DOMAIN waLoop /\ i < n /\ waLoop'[i] = waLoop[i]
                  /\ waLoop[i].fn = "OnFileTransferDataReceived"
    BY <1>8, <2>3
  <2>4. ASSUME NEW i \in DOMAIN waLoop', NEW j \in DOMAIN waLoop',
               waLoop'[i].fn = "OnFileTransferDataReceived",
               waLoop'[j].fn = "OnFileTransferDataReceived",
               waLoop'[i].t = waLoop'[j].t, i < j
        PROVE  waLoop'[i].data.i < waLoop'[j].data.i
    <3>1. CASE j \in DOMAIN waLoop
      <4>1. i \in DOMAIN waLoop
        <5>1. j < n /\ j \in Nat /\ n \in Nat
          BY <1>8, <3>1, TaskFields DEF Inv
        <5>2. i # n
          BY <2>4, <5>1
        <5> QED BY <1>8, <5>2
      <4> QED BY <1>8, <2>4, <3>1, <4>1 DEF Inv, LoopInv
    <3>2. CASE j = n
      <4>1. i \in DOMAIN waLoop /\ waLoop'[i] = waLoop[i] /\ waLoop[i].t = t
        <5>1. i # n
          BY <1>8, <2>4, <3>2
        <5> QED BY <1>6, <1>8, <2>4, <3>2, <5>1
      <4>2. waLoop[i].data.i <= transfers[t].received /\ waLoop[i].data.i \in Nat
        BY <2>4, <4>1, TaskFields DEF Inv, LoopInv, TaskInv
      <4>3. waLoop'[j].data.i = transfers[t].received + 1
        BY <1>3, <1>6, <1>8, <3>2
      <4> QED BY <1>2, <4>1, <4>2, <4>3
    <3> QED BY <1>8, <3>1, <3>2
  <2>5. \A i \in DOMAIN waLoop' : waLoop'[i].fn = "OnFileTransferDataReceived"
          => TaskInv(waLoop[i].t, waLoop[i].data)'
    BY <2>1, <2>2, <2>3
  <2> QED BY <2>4, <2>5 DEF LoopInv
<1>16. /\ n \in Tasks(t)' /\ waLoop'[n].data = data
       /\ \A i \in Tasks(t)' : i = n \/ (i \in Tasks(t) /\ waLoop'[i] = waLoop[i])
       /\ \A i \in Tasks(t) : i \in Tasks(t)' /\ waLoop'[i] = waLoop[i]
  BY <1>6, <1>8 DEF Tasks
<1>17. SessionInv'
  <2> SUFFICES ASSUME NEW u \in DOMAIN fileSessions
               PROVE  /\ fileSessions[u].kind = "listing"
                            => ListingInv(u, got[fileSessions[u].path])'
                      /\ fileSessions[u].kind = "download"
                            => DownloadInv(u, Delivered(got[fileSessions[u].path]))'
    BY <1>9 DEF SessionInv
  <2>1. PICK answer, delivered : /\ answer = got[fileSessions[u].path]
                                 /\ delivered = Delivered(answer)
    OBVIOUS
  <2>2. /\ answer = got'[fileSessions'[u].path]
        /\ delivered = Delivered(got[fileSessions[u].path])'
        /\ delivered \in Int
    BY <1>9, <2>1, AnswerFields DEF Inv, RequestInv
  <2>3. /\ fileSessions[u].kind = "listing" => ListingInv(u, answer)
        /\ fileSessions[u].kind = "download" => DownloadInv(u, delivered)
        /\ u \in DOMAIN transfers
    BY <2>1 DEF Inv, SessionInv, IdsInv
  <2>4. CASE u # t
    <3>1. Tasks(u)' = Tasks(u) /\ \A i \in Tasks(u) : waLoop'[i] = waLoop[i]
      BY <1>6, <1>8, <2>4 DEF Tasks
    <3> QED BY <1>10, <2>2, <2>3, <2>4, <3>1 DEF ListingInv, DownloadInv
  <2>5. CASE u = t
    <3>1. ASSUME ListingInv(t, answer) PROVE ListingInv(t, answer)'
      BY <1>16, <3>1 DEF ListingInv
    <3>2. ASSUME DownloadInv(t, delivered) PROVE DownloadInv(t, delivered)'
      <4>1. /\ transfers'[t].received = transfers[t].received + 1
            /\ waLoop'[n].data.i = transfers[t].received + 1
            /\ transfers[t].received \in Nat
        BY <1>1, <1>2, <1>3, <1>16
      <4>2. delivered <= transfers[t].received
        BY <3>2 DEF DownloadInv
      <4>3. delivered <= transfers'[t].received /\ delivered < transfers'[t].received
        BY <1>2, <2>2, <4>1, <4>2
      <4>4. ASSUME NEW i \in Tasks(t)' PROVE waLoop'[i].data.i > delivered
        <5>1. CASE i = n
          BY <2>2, <4>1, <4>2, <5>1
        <5>2. CASE i \in Tasks(t) /\ waLoop'[i] = waLoop[i]
          BY <3>2, <5>2 DEF DownloadInv
        <5> QED BY <1>16, <5>1, <5>2
      <4>5. ASSUME NEW k \in delivered + 1 .. transfers'[t].received
            PROVE  \E i \in Tasks(t)' : waLoop'[i].data.i = k
        <5>1. CASE k = transfers[t].received + 1
          BY <1>16, <4>1, <5>1
        <5>2. CASE k \in delivered + 1 .. transfers[t].received
          <6>1. PICK i \in Tasks(t) : waLoop[i].data.i = k
            BY <3>2, <5>2 DEF DownloadInv
          <6> QED BY <1>16, <6>1
        <5> QED BY <2>2, <4>1, <5>1, <5>2
      <4> QED BY <4>3, <4>4, <4>5 DEF DownloadInv
    <3> QED BY <2>2, <2>3, <2>5, <3>1, <3>2
  <2> QED BY <2>4, <2>5
<1>18. RequestInv'
  <2>1. \A i \in DOMAIN waLoop' : waLoop'[i].fn = "OnTerminalFileReq"
          => i \in DOMAIN waLoop /\ waLoop'[i] = waLoop[i]
    BY <1>6, <1>8
  <2> QED BY <1>9, <2>1 DEF Inv, RequestInv
<1>19. AnswerInv'
  BY <1>9 DEF Inv, AnswerInv, ResponseInOrder
<1>20. SessionUntilLastBlock'
  <2> SUFFICES ASSUME NEW u \in DOMAIN transfers, u \notin DOMAIN fileSessions
               PROVE  transfers'[u].raw /\ transfers'[u].received >= transfers'[u].expected
    BY <1>9, <1>10 DEF SessionUntilLastBlock
  <2>1. transfers[u].raw /\ transfers[u].received >= transfers[u].expected
    BY DEF Inv, SessionUntilLastBlock
  <2>2. CASE u # t
    BY <1>10, <2>1, <2>2
  <2>3. CASE u = t
    <3>1. transfers'[t].received >= transfers'[t].expected
      BY <1>1, <1>2, <2>1, <2>3
    <3> QED BY <1>1, <2>1, <2>3, <3>1
  <2> QED BY <2>2, <2>3
<1> QED BY <1>11, <1>12, <1>13, <1>14, <1>15, <1>17, <1>18, <1>19, <1>20 DEF Inv

LEMMA MachineStep ==
    ASSUME Inv, HostLost \/ HostReconnects
    PROVE  Inv'
<1>1. UNCHANGED <<requests, got, waLoop, idCounter, fileSessions, transfers, clientTransfers, restarts>>
  BY DEF HostLost, HostReconnects, browserVars, serverVars
<1>2. /\ hostUp' \in BOOLEAN /\ link' \in Seq(FileTransferReq) /\ breaks' \in 0 .. MaxBreaks
  <2>1. <<>> \in Seq(FileTransferReq)
    BY EmptySeq
  <2>2. CASE HostLost
    <3>1. breaks' \in 0 .. MaxBreaks
      BY <2>2, FileTransferAssumption DEF Inv, FileTransferTypeOK, HostLost
    <3> QED BY <2>1, <2>2, <3>1 DEF HostLost
  <2>3. CASE HostReconnects
    BY <2>3 DEF Inv, FileTransferTypeOK, HostReconnects
  <2> QED BY <2>2, <2>3
<1> QED BY <1>1, <1>2
     DEF Inv, FileTransferTypeOK, MapTypeOK, IdsInv, FreshInv, Announced, ClientInv, UpInv,
         LoopInv, TaskInv, SessionInv, ListingInv, DownloadInv, Tasks, RequestInv, AnswerInv,
         ResponseInOrder, SessionUntilLastBlock

\* Nothing is left of the server; the transfers of the client that were connected
\* are closed.
LEMMA ServerRestartsStep ==
    ASSUME Inv, ServerRestarts
    PROVE  Inv'
<1>1. /\ waLoop' = <<>> /\ DOMAIN fileSessions' = {} /\ DOMAIN transfers' = {}
      /\ idCounter' = 0 /\ hostUp' = FALSE /\ link' = <<>> /\ restarts' = restarts + 1
      /\ UNCHANGED <<requests, got, breaks>>
  BY EmptyMapFacts DEF ServerRestarts, browserVars
<1>2. /\ DOMAIN clientTransfers' = DOMAIN clientTransfers
      /\ \A t \in DOMAIN clientTransfers :
            clientTransfers'[t] = IF clientTransfers[t].conn = "open"
                                  THEN Closed(clientTransfers[t]) ELSE clientTransfers[t]
  BY DEF ServerRestarts
<1>3. ASSUME NEW t \in DOMAIN clientTransfers
      PROVE  /\ clientTransfers'[t] \in ClientTransfer
             /\ clientTransfers'[t].up = <<>> /\ clientTransfers'[t].ack = FALSE
  <2>1. CASE clientTransfers[t].conn = "open"
    <3>1. clientTransfers'[t] = Closed(clientTransfers[t])
      BY <1>2, <2>1
    <3>2. clientTransfers[t] \in ClientTransfer /\ <<>> \in Seq(UpMsg)
      BY ClientFields, EmptySeq DEF Inv
    <3> QED BY <3>1, <3>2 DEF Closed, ClientTransfer
  <2>2. CASE clientTransfers[t].conn # "open"
    BY <1>2, <2>2, ClientFields DEF Inv, ClientInv, UpInv
  <2> QED BY <2>1, <2>2
<1>4. FileTransferTypeOK'
  <2>1. restarts' \in 0 .. MaxRestarts
    BY FileTransferAssumption DEF Inv, FileTransferTypeOK, ServerRestarts
  <2>2. waLoop' \in Seq(Task) /\ link' \in Seq(FileTransferReq)
    BY <1>1, EmptySeq
  <2>3. MapTypeOK(clientTransfers', ClientTransfer)
    BY <1>2, <1>3 DEF Inv, FileTransferTypeOK, MapTypeOK
  <2>4. MapTypeOK(fileSessions', Session) /\ MapTypeOK(transfers', ServerTransfer)
    BY <1>1 DEF MapTypeOK
  <2> QED BY <1>1, <2>1, <2>2, <2>3, <2>4 DEF Inv, FileTransferTypeOK
<1>5. ClientInv'
  <2> SUFFICES ASSUME NEW t \in DOMAIN clientTransfers
               PROVE  UpInv(t, clientTransfers[t])'
    BY <1>2 DEF ClientInv
  <2>1. clientTransfers'[t].up = <<>> /\ clientTransfers'[t].ack = FALSE
    BY <1>3
  <2>2. DOMAIN clientTransfers'[t].up = {}
    BY <2>1
  <2> QED BY <2>1, <2>2 DEF UpInv
<1>6. IdsInv' /\ FreshInv' /\ SessionInv' /\ SessionUntilLastBlock'
  BY <1>1 DEF IdsInv, FreshInv, SessionInv, SessionUntilLastBlock
<1>7. LoopInv'
  BY <1>1, EmptySeq DEF LoopInv
<1>8. RequestInv'
  BY <1>1, EmptySeq DEF Inv, RequestInv
<1>9. AnswerInv'
  BY <1>1 DEF Inv, AnswerInv, ResponseInOrder
<1> QED BY <1>4, <1>5, <1>6, <1>7, <1>8, <1>9 DEF Inv
-----------------------------------------------------------------------------
\* The loop hands a block on: it is the one its session wants next, and the
\* session ends when the transfer is complete.
LEMMA OnFileTransferDataReceivedStep ==
    ASSUME Inv, OnFileTransferDataReceived
    PROVE  Inv'
<1>0. PICK t, data, r, delivered :
        /\ t = waLoop[1].t /\ data = waLoop[1].data
        /\ r = fileSessions[t].path /\ delivered = Delivered(got[r])
  OBVIOUS
<1>1. /\ Taken
      /\ waLoop[1].fn = "OnFileTransferDataReceived"
      /\ \/ /\ UNCHANGED <<got, fileSessions>>
            /\ t \in DOMAIN fileSessions => fileSessions[t].kind = "listing" /\ ~data.whole
         \/ /\ t \in DOMAIN fileSessions
            /\ r \in DOMAIN got
            /\ fileSessions[t].kind = "listing" => data.whole
            /\ data.i = delivered + 1
            /\ Sent(r, data)
            /\ fileSessions' = IF transfers[t].expected = transfers[t].received
                               THEN Erase(fileSessions, t) ELSE fileSessions
  BY <1>0, DataReceivedEffect
<1>2. /\ 1 \in DOMAIN waLoop /\ waLoop' \in Seq(Task)
      /\ \A i \in DOMAIN waLoop' : i + 1 \in DOMAIN waLoop /\ waLoop'[i] = waLoop[i + 1]
      /\ \A i \in DOMAIN waLoop :
            i # 1 => i - 1 \in DOMAIN waLoop' /\ waLoop'[i - 1] = waLoop[i]
  BY <1>1 DEF Taken
<1>3. \A i \in DOMAIN waLoop' : i \in Nat \ {0} /\ 1 < i + 1
  BY <1>2, LenProperties
<1>4. UNCHANGED <<requests, idCounter, transfers, clientTransfers, hostUp, link, restarts, breaks>>
  BY DEF OnFileTransferDataReceived, linkVars
<1>5. TaskInv(t, data) /\ data.i \in Nat \ {0} /\ data.whole \in BOOLEAN
  BY <1>0, <1>1, <1>2, TaskFields DEF Inv, LoopInv
<1>6. t \in DOMAIN transfers /\ transfers[t].expected \in Nat /\ transfers[t].received \in Nat
  BY <1>5, ServerFields DEF TaskInv, Inv
<1>7. /\ DOMAIN fileSessions' \subseteq DOMAIN fileSessions
      /\ \A u \in DOMAIN fileSessions' : fileSessions'[u] = fileSessions[u]
      /\ \A u \in DOMAIN fileSessions : u # t => u \in DOMAIN fileSessions'
      /\ (t \in DOMAIN fileSessions /\ t \notin DOMAIN fileSessions')
            => transfers[t].expected = transfers[t].received
  <2>1. CASE fileSessions' = fileSessions
    BY <2>1
  <2>2. CASE /\ transfers[t].expected = transfers[t].received
             /\ fileSessions' = Erase(fileSessions, t)
    BY <2>2 DEF Erase, Restrict
  <2> QED BY <1>1, <2>1, <2>2
<1>8. /\ got' \in Seq(Answer) /\ Len(got') = Len(got) /\ DOMAIN got' = DOMAIN got
      /\ \A s \in DOMAIN got : got'[s] = got[s] \/ (s = r /\ t \in DOMAIN fileSessions)
  BY <1>1 DEF Sent, Inv, FileTransferTypeOK
<1>9. FileTransferTypeOK'
  <2>1. MapTypeOK(fileSessions', Session)
    BY <1>7 DEF Inv, FileTransferTypeOK, MapTypeOK
  <2> QED BY <1>2, <1>4, <1>8, <2>1 DEF Inv, FileTransferTypeOK, MapTypeOK
<1>10. IdsInv' /\ FreshInv' /\ ClientInv'
  BY <1>4, <1>7 DEF Inv, IdsInv, FreshInv, Announced, ClientInv, UpInv
<1>11. LoopInv'
  <2>1. ASSUME NEW i \in DOMAIN waLoop', waLoop'[i].fn = "OnFileTransferDataReceived"
        PROVE  TaskInv(waLoop[i].t, waLoop[i].data)'
    <3>1. TaskInv(waLoop[i + 1].t, waLoop[i + 1].data) /\ waLoop'[i] = waLoop[i + 1]
      BY <1>2, <2>1 DEF Inv, LoopInv
    <3> QED BY <1>4, <3>1 DEF TaskInv
  <2>2. ASSUME NEW i \in DOMAIN waLoop', NEW j \in DOMAIN waLoop',
               waLoop'[i].fn = "OnFileTransferDataReceived",
               waLoop'[j].fn = "OnFileTransferDataReceived",
               waLoop'[i].t = waLoop'[j].t, i < j
        PROVE  waLoop'[i].data.i < waLoop'[j].data.i
    <3>1. i + 1 < j + 1
      BY <1>3, <2>2
    <3> QED BY <1>2, <2>2, <3>1 DEF Inv, LoopInv
  <2> QED BY <2>1, <2>2 DEF LoopInv
<1>12. ASSUME NEW u
       PROVE  /\ \A i \in Tasks(u)' : i + 1 \in Tasks(u) /\ waLoop'[i] = waLoop[i + 1]
              /\ \A i \in Tasks(u) : i # 1 => i - 1 \in Tasks(u)' /\ waLoop'[i - 1] = waLoop[i]
  BY <1>2 DEF Tasks
<1>13. SessionInv'
  <2> SUFFICES ASSUME NEW u \in DOMAIN fileSessions'
               PROVE  /\ fileSessions'[u].kind = "listing"
                            => ListingInv(u, got[fileSessions[u].path])'
                      /\ fileSessions'[u].kind = "download"
                            => DownloadInv(u, Delivered(got[fileSessions[u].path]))'
    BY DEF SessionInv
  <2>1. /\ u \in DOMAIN fileSessions /\ fileSessions'[u] = fileSessions[u]
        /\ fileSessions[u].path \in DOMAIN got
    BY <1>7 DEF Inv, RequestInv
  <2>2. /\ fileSessions[u].kind = "listing" => ListingInv(u, got[fileSessions[u].path])
        /\ fileSessions[u].kind = "download"
              => DownloadInv(u, Delivered(got[fileSessions[u].path]))
    BY <2>1 DEF Inv, SessionInv
  <2>3. CASE u # t
    <3>1. got'[fileSessions'[u].path] = got[fileSessions[u].path]
      <4>1. t \in DOMAIN fileSessions => fileSessions[u].path # r
        BY <1>0, <2>1, <2>3 DEF Inv, RequestInv
      <4> QED BY <1>8, <2>1, <4>1
    <3>2. 1 \notin Tasks(u)
      BY <1>0, <2>3 DEF Tasks
    <3>3. ASSUME ListingInv(u, got[fileSessions[u].path])
          PROVE  ListingInv(u, got[fileSessions[u].path])'
      BY <1>4, <1>12, <3>1, <3>2, <3>3 DEF ListingInv
    <3>4. ASSUME DownloadInv(u, Delivered(got[fileSessions[u].path]))
          PROVE  DownloadInv(u, Delivered(got[fileSessions[u].path]))'
      BY <1>4, <1>12, <3>1, <3>2, <3>4 DEF DownloadInv
    <3> QED BY <2>1, <2>2, <3>3, <3>4
  <2>4. CASE u = t /\ UNCHANGED <<got, fileSessions>>
    <3>1. fileSessions[t].kind = "listing" /\ ListingInv(t, got[r])
      <4>1. \/ fileSessions[t].kind = "listing"
            \/ Sent(r, data) /\ r \in DOMAIN got
        BY <1>1, <2>1, <2>4
      <4>2. ASSUME Sent(r, data), r \in DOMAIN got PROVE FALSE
        <5>1. Delivered(got[r]) = Delivered(got[r]) + 1 /\ Delivered(got[r]) \in Int
          BY <2>4, <4>2, AnswerFields DEF Sent, Inv
        <5> QED BY <5>1
      <4> QED BY <1>0, <2>2, <2>4, <4>1, <4>2
    <3>2. ~data.whole
      <4>1. \/ ~data.whole
            \/ Sent(r, data) /\ r \in DOMAIN got
        BY <1>1, <2>1, <2>4
      <4>2. ASSUME Sent(r, data), r \in DOMAIN got PROVE FALSE
        <5>1. Delivered(got[r]) = Delivered(got[r]) + 1 /\ Delivered(got[r]) \in Int
          BY <2>4, <4>2, AnswerFields DEF Sent, Inv
        <5> QED BY <5>1
      <4> QED BY <4>1, <4>2
    <3>3. ~(clientTransfers[t].dir /\ transfers[t].expected = 1)
      BY <1>5, <3>2 DEF TaskInv
    <3> QED BY <1>0, <1>4, <2>4, <3>1, <3>3 DEF ListingInv
  <2>5. CASE /\ u = t /\ Sent(r, data) /\ r \in DOMAIN got /\ data.i = delivered + 1
             /\ fileSessions[t].kind = "listing" => data.whole
             /\ transfers[t].expected # transfers[t].received
    <3>1. fileSessions[t].kind # "listing"
      BY <1>5, <2>5 DEF TaskInv
    <3>2. /\ Delivered(got[fileSessions[u].path])' = delivered + 1
          /\ delivered \in Int
      BY <1>0, <2>1, <2>5, AnswerFields DEF Sent, Inv
    <3>3. ASSUME DownloadInv(t, delivered)
          PROVE  DownloadInv(t, delivered + 1)'
      <4>1. delivered + 1 <= transfers[t].received
        BY <1>5, <2>5 DEF TaskInv
      <4>2. ASSUME NEW i \in Tasks(t)'
            PROVE  waLoop'[i].data.i > delivered + 1
        <5>1. /\ i \in DOMAIN waLoop' /\ i + 1 \in Tasks(t) /\ waLoop'[i] = waLoop[i + 1]
          BY <1>12 DEF Tasks
        <5>2. 1 < i + 1
          BY <1>3, <5>1
        <5>3. waLoop[1].data.i < waLoop[i + 1].data.i
          BY <1>0, <1>1, <1>2, <5>1, <5>2 DEF Tasks, Inv, LoopInv
        <5>4. waLoop[i + 1].data.i \in Nat
          BY <5>1, TaskFields DEF Tasks, Inv
        <5> QED BY <1>0, <2>5, <3>2, <5>1, <5>3, <5>4
      <4>3. ASSUME NEW k \in (delivered + 1) + 1 .. transfers[t].received
            PROVE  \E i \in Tasks(t)' : waLoop'[i].data.i = k
        <5>1. k \in delivered + 1 .. transfers[t].received /\ k # delivered + 1
          BY <1>6, <3>2
        <5>2. PICK i \in Tasks(t) : waLoop[i].data.i = k
          BY <3>3, <5>1 DEF DownloadInv
        <5>3. i # 1
          BY <1>0, <2>5, <5>1, <5>2
        <5> QED BY <1>12, <5>2, <5>3
      <4> QED BY <1>4, <2>5, <4>1, <4>2, <4>3 DEF DownloadInv
    <3> QED BY <1>0, <2>1, <2>2, <2>5, <3>1, <3>2, <3>3
  <2>6. \/ u # t
        \/ u = t /\ UNCHANGED <<got, fileSessions>>
        \/ /\ u = t /\ Sent(r, data) /\ r \in DOMAIN got /\ data.i = delivered + 1
           /\ fileSessions[t].kind = "listing" => data.whole
           /\ transfers[t].expected # transfers[t].received
    <3>1. (fileSessions' = Erase(fileSessions, t)) => u # t
      BY EraseFacts
    <3> QED BY <1>1, <3>1
  <2> QED BY <2>3, <2>4, <2>5, <2>6
<1>14. RequestInv'
  <2>1. ASSUME NEW i \in DOMAIN waLoop', waLoop'[i].fn = "OnTerminalFileReq"
        PROVE  /\ i + 1 \in DOMAIN waLoop /\ waLoop'[i] = waLoop[i + 1]
               /\ waLoop'[i].path \in DOMAIN got'
               /\ got'[waLoop'[i].path] = <<>>
               /\ \A u \in DOMAIN fileSessions' : fileSessions'[u].path # waLoop'[i].path
    <3>1. i + 1 \in DOMAIN waLoop /\ waLoop'[i] = waLoop[i + 1]
      BY <1>2
    <3>2. /\ waLoop[i + 1].path \in DOMAIN got /\ got[waLoop[i + 1].path] = <<>>
          /\ \A u \in DOMAIN fileSessions : fileSessions[u].path # waLoop[i + 1].path
      BY <2>1, <3>1 DEF Inv, RequestInv
    <3>3. t \in DOMAIN fileSessions => waLoop[i + 1].path # r
      BY <1>0, <3>2
    <3> QED BY <1>7, <1>8, <3>1, <3>2, <3>3
  <2>2. ASSUME NEW i \in DOMAIN waLoop', NEW j \in DOMAIN waLoop',
               waLoop'[i].fn = "OnTerminalFileReq", waLoop'[j].fn = "OnTerminalFileReq",
               waLoop'[i].path = waLoop'[j].path
        PROVE  i = j
    <3>1. i + 1 = j + 1
      BY <2>1, <2>2 DEF Inv, RequestInv
    <3> QED BY <1>3, <3>1
  <2>3. Len(got') = Len(requests')
    BY <1>4, <1>8 DEF Inv, RequestInv
  <2> QED BY <1>7, <1>8, <2>1, <2>2, <2>3 DEF Inv, RequestInv
<1>15. AnswerInv'
  <2> SUFFICES ASSUME NEW s \in DOMAIN got
               PROVE  InOrder(got'[s]) /\ (got'[s] # <<>> => Delivered(got'[s]) > 0)
    BY <1>8 DEF AnswerInv, ResponseInOrder
  <2>1. CASE got'[s] = got[s]
    BY <2>1 DEF Inv, AnswerInv, ResponseInOrder
  <2>2. CASE got'[s] # got[s]
    <3>1. s = r /\ Sent(r, data) /\ data.i = delivered + 1
      BY <1>1, <2>2, <1>8
    <3>2. InOrder(got'[s]) /\ Delivered(got'[s]) = delivered + 1
      BY <1>0, <3>1 DEF Sent
    <3> QED BY <1>5, <3>1, <3>2
  <2> QED BY <2>1, <2>2
<1>16. SessionUntilLastBlock'
  <2> SUFFICES ASSUME NEW u \in DOMAIN transfers, u \notin DOMAIN fileSessions'
               PROVE  transfers[u].raw /\ transfers[u].received >= transfers[u].expected
    BY <1>4 DEF SessionUntilLastBlock
  <2>1. CASE u \notin DOMAIN fileSessions
    BY <2>1 DEF Inv, SessionUntilLastBlock
  <2>2. CASE u \in DOMAIN fileSessions
    <3>1. u = t /\ transfers[t].expected = transfers[t].received
      BY <1>7, <2>2
    <3>2. transfers[t].received >= transfers[t].expected
      BY <1>6, <3>1
    <3> QED BY <1>5, <3>1, <3>2 DEF TaskInv
  <2> QED BY <2>1, <2>2
<1> QED BY <1>9, <1>10, <1>11, <1>13, <1>14, <1>15, <1>16 DEF Inv
-----------------------------------------------------------------------------
(***************************************************************************)
(* The theorems.                                                           *)
(***************************************************************************)
LEMMA InitInv == Init => Inv
<1> SUFFICES ASSUME Init PROVE Inv
  OBVIOUS
<1>1. /\ requests = <<>> /\ got = <<>> /\ waLoop = <<>> /\ link = <<>> /\ idCounter = 0
      /\ hostUp = TRUE /\ restarts = 0 /\ breaks = 0
      /\ DOMAIN fileSessions = {} /\ DOMAIN transfers = {} /\ DOMAIN clientTransfers = {}
  BY EmptyMapFacts DEF Init
<1>2. 0 \in 0 .. MaxRestarts /\ 0 \in 0 .. MaxBreaks
  BY FileTransferAssumption
<1>3. FileTransferTypeOK
  BY <1>1, <1>2, EmptySeq DEF FileTransferTypeOK, MapTypeOK
<1>4. IdsInv /\ FreshInv /\ ClientInv /\ SessionInv /\ SessionUntilLastBlock
  BY <1>1 DEF IdsInv, FreshInv, ClientInv, SessionInv, SessionUntilLastBlock
<1>5. DOMAIN waLoop = {} /\ DOMAIN got = {} /\ Len(got) = Len(requests)
  BY <1>1
<1>6. LoopInv /\ RequestInv /\ AnswerInv
  BY <1>1, <1>5 DEF LoopInv, RequestInv, AnswerInv, ResponseInOrder
<1> QED BY <1>3, <1>4, <1>6 DEF Inv

LEMMA StutterInv ==
    ASSUME Inv, UNCHANGED vars
    PROVE  Inv'
BY DEF vars, browserVars, serverVars, linkVars, Inv, FileTransferTypeOK, MapTypeOK, IdsInv,
       FreshInv, Announced, ClientInv, UpInv, LoopInv, TaskInv, SessionInv, ListingInv,
       DownloadInv, Tasks, RequestInv, AnswerInv, ResponseInOrder, SessionUntilLastBlock

LEMMA NextInv == Inv /\ [Next]_vars => Inv'
<1> SUFFICES ASSUME Inv, [Next]_vars PROVE Inv'
  OBVIOUS
<1>1. CASE OnWsClientMessage
  BY <1>1, OnWsClientMessageStep
<1>2. CASE PerpareFileDownloadResponse
  BY <1>2, DownloadStep
<1>3. CASE OnTerminalFileReq
  BY <1>3, OnTerminalFileReqStep
<1>4. CASE OnFileTransferDataReceived
  BY <1>4, OnFileTransferDataReceivedStep
<1>5. CASE MakeFileTransferRequest
  BY <1>5, MakeFileTransferRequestStep
<1>6. ASSUME NEW t \in DOMAIN clientTransfers,
             Client(t) \/ ServerConnection(t) \/ OnClientClosed(t)
      PROVE  Inv'
  <2>1. CASE OnClientConnected(t)
    BY <2>1, OnClientConnectedStep
  <2>2. CASE SendRequestedData(t)
    BY <2>2, SendRequestedDataStep
  <2>3. CASE HandleFileTransferInit(t)
    BY <2>3, HandleFileTransferInitStep
  <2>4. CASE HandleFileTransferMsg(t)
    BY <2>4, HandleFileTransferMsgStep
  <2>5. CASE OnClientClosed(t)
    BY <2>5, ClosedStep DEF OnClientClosed
  <2> QED BY <1>6, <2>1, <2>2, <2>3, <2>4, <2>5 DEF Client, ServerConnection
<1>7. CASE HostLost \/ HostReconnects
  BY <1>7, MachineStep
<1>8. CASE ServerRestarts
  BY <1>8, ServerRestartsStep
<1>9. CASE UNCHANGED vars
  BY <1>9, StutterInv
<1> QED BY <1>1, <1>2, <1>3, <1>4, <1>5, <1>6, <1>7, <1>8, <1>9 DEF Next, Browsers, WebAppLoop

LEMMA InvHolds == Spec => []Inv
<1> QED BY InitInv, NextInv, PTL DEF Spec

\* The maps of sessions and transfers, the tasks of the loop and the messages of
\* both connections have their types, through every break and restart
\* (ActiveSessions.cpp, FileTransferHandlerServer.cpp, FileTransferHandlerClient.cpp).
THEOREM FileTransferTypeCorrect == Spec => []FileTransferTypeOK
<1>1. Inv => FileTransferTypeOK
  BY DEF Inv
<1> QED BY <1>1, InvHolds, PTL

\* A browser gets the blocks of its file from the first one on, in order and
\* without a gap, and an HTTP header only before the first: however many blocks the
\* connection thread counts before the loop reads the counter
\* (WebAppServer.cpp OnFileTransferDataReceived).
THEOREM ResponsesInOrder == Spec => []ResponseInOrder
<1>1. Inv => ResponseInOrder
  BY DEF Inv, AnswerInv
<1> QED BY <1>1, InvHolds, PTL

\* A session is not erased before everything its transfer announced has reached
\* the server (OnFileTransferDataReceived).
THEOREM SessionsLastUntilLastBlock == Spec => []SessionUntilLastBlock
<1>1. Inv => SessionUntilLastBlock
  BY DEF Inv
<1> QED BY <1>1, InvHolds, PTL

\* When everything was received and handled the session is gone, but for the cases
\* in which OnFileTransferDataReceived returns early or is never called.
THEOREM SessionsReleased == Spec => []SessionReleased
<1>1. ASSUME Inv PROVE SessionReleased
  <2> SUFFICES ASSUME NEW t \in DOMAIN fileSessions, transfers[t].raw,
                      transfers[t].received = transfers[t].expected, Handled(t),
                      transfers[t].expected # 0
               PROVE  /\ fileSessions[t].kind = "listing"
                      /\ ~(clientTransfers[t].dir /\ transfers[t].expected = 1)
    BY DEF SessionReleased
  <2>1. t \in DOMAIN transfers
    BY <1>1 DEF Inv, IdsInv
  <2>2. t \in DOMAIN clientTransfers
    BY <1>1, <2>1 DEF Inv, FreshInv
  <2>3. Tasks(t) = {}
    BY DEF Tasks, Handled
  <2>4. transfers[t].expected \in Nat /\ transfers[t].received \in Nat
    BY <1>1, <2>1, ServerFields DEF Inv
  <2>5. fileSessions[t].kind = "listing"
    <3> SUFFICES ASSUME fileSessions[t].kind = "download" PROVE FALSE
      BY <1>1 DEF Inv, FileTransferTypeOK, MapTypeOK, Session, Kind
    <3> DEFINE delivered == Delivered(got[fileSessions[t].path])
    <3>1. DownloadInv(t, delivered)
      BY <1>1 DEF Inv, SessionInv
    <3>2. fileSessions[t].path \in DOMAIN got
      BY <1>1 DEF Inv, RequestInv
    <3>3. delivered \in Int
      BY <1>1, <3>2, AnswerFields DEF Inv
    <3>4. delivered < transfers[t].received
      BY <2>4, <3>1 DEF DownloadInv
    <3>5. delivered + 1 \in delivered + 1 .. transfers[t].received
      BY <2>4, <3>3, <3>4
    <3>6. \E i \in Tasks(t) : waLoop[i].data.i = delivered + 1
      BY <3>1, <3>5 DEF DownloadInv
    <3> QED BY <2>3, <3>6
  <2>6. ListingInv(t, got[fileSessions[t].path])
    BY <1>1, <2>5 DEF Inv, SessionInv
  <2>7. ~(clientTransfers[t].dir /\ transfers[t].expected = 1)
    BY <2>2, <2>3, <2>6 DEF ListingInv
  <2> QED BY <2>5, <2>7
<1> QED BY <1>1, InvHolds, PTL
-----------------------------------------------------------------------------
(***************************************************************************)
(* An id means the same path everywhere, until the server restarts.        *)
(***************************************************************************)
\* The server's transfers keep their paths, and the blocks in the loop too.
LEMMA OpeningPaths ==
    ASSUME Inv, Paths, NEW d, KeepsData(d), UNCHANGED clientTransfers,
           \/ UNCHANGED <<fileSessions, transfers, link>>
           \/ \E path, kind : NewTransfer(path, kind)
    PROVE  Paths'
<1>1. /\ DOMAIN fileSessions \subseteq DOMAIN transfers
      /\ \A i \in DOMAIN waLoop : waLoop[i].fn = "OnFileTransferDataReceived"
            => waLoop[i].t \in DOMAIN transfers
  BY DEF Inv, IdsInv, LoopInv, TaskInv
<1>2. \A t \in DOMAIN transfers : t \in DOMAIN transfers' /\ transfers'[t] = transfers[t]
  BY DEF NewTransfer
<1>3. \A t \in DOMAIN clientTransfers' :
        t \in DOMAIN transfers' /\ clientTransfers'[t].path = transfers'[t].path
  BY <1>2 DEF Paths
<1>4. \A t \in DOMAIN fileSessions' : fileSessions'[t].path = transfers'[t].path
  BY <1>1, <1>2 DEF Paths, NewTransfer
<1>5. \A i \in DOMAIN link' :
        link'[i].t \in DOMAIN transfers' /\ transfers'[link'[i].t].path = link'[i].path
  <2>1. CASE UNCHANGED <<transfers, link>>
    BY <2>1 DEF Paths
  <2>2. ASSUME NEW path, NEW kind, NewTransfer(path, kind),
               NEW i \in DOMAIN link'
        PROVE  link'[i].t \in DOMAIN transfers' /\ transfers'[link'[i].t].path = link'[i].path
    <3>1. CASE i \in DOMAIN link
      <4>1. link'[i] = link[i]
        BY <2>2, <3>1 DEF NewTransfer
      <4>2. link[i].t \in DOMAIN transfers /\ transfers[link[i].t].path = link[i].path
        BY <3>1 DEF Paths
      <4> QED BY <1>2, <4>1, <4>2
    <3>2. CASE i = Len(link) + 1
      <4>1. link'[i] = [t |-> NextId, path |-> path]
        BY <2>2, <3>2 DEF NewTransfer
      <4>2. link'[i].t = NextId /\ link'[i].path = path
        BY <4>1
      <4>3. NextId \in DOMAIN transfers' /\ transfers'[NextId].path = path
        BY <2>2 DEF NewTransfer
      <4> QED BY <4>2, <4>3
    <3> QED BY <2>2, <3>1, <3>2 DEF NewTransfer
  <2> QED BY <2>1, <2>2
<1>6. \A i \in DOMAIN waLoop' : waLoop'[i].fn = "OnFileTransferDataReceived"
        => waLoop'[i].data.path = transfers'[waLoop'[i].t].path
  BY <1>1, <1>2 DEF Paths, KeepsData
<1> QED BY <1>3, <1>4, <1>5, <1>6 DEF Paths

\* A request has no blocks yet.
LEMMA NewRequestBlocks ==
    ASSUME Inv, OwnBlocks, NEW kind \in Kind, NewRequest(kind)
    PROVE  OwnBlocks'
<1>1. /\ DOMAIN got' = DOMAIN got \cup {Len(requests) + 1}
      /\ got'[Len(requests) + 1] = <<>>
      /\ \A r \in DOMAIN got : got'[r] = got[r]
  BY NewRequestEffect DEF Inv
<1>2. DOMAIN got'[Len(requests) + 1] = {}
  BY <1>1
<1> QED BY <1>1, <1>2 DEF OwnBlocks

\* The transfers of a connection keep their paths.
LEMMA ConnectionPaths ==
    ASSUME Inv, Paths, NEW t \in DOMAIN clientTransfers,
           OnlyClientTransfer(t), clientTransfers'[t].path = clientTransfers[t].path,
           \/ UNCHANGED transfers
           \/ OnlyTransfer(t) /\ transfers'[t].path = transfers[t].path,
           UNCHANGED <<fileSessions, link>>,
           \/ UNCHANGED waLoop
           \/ \E task : Posted(task) /\ task.t = t /\ task.data.path = clientTransfers[t].path
    PROVE  Paths'
<1>1. /\ DOMAIN fileSessions \subseteq DOMAIN transfers
      /\ \A i \in DOMAIN waLoop : waLoop[i].fn = "OnFileTransferDataReceived"
            => waLoop[i].t \in DOMAIN transfers
  BY DEF Inv, IdsInv, LoopInv, TaskInv
<1>2. /\ DOMAIN transfers' = DOMAIN transfers
      /\ \A u \in DOMAIN transfers : transfers'[u].path = transfers[u].path
  BY DEF OnlyTransfer
<1>3. /\ DOMAIN clientTransfers' = DOMAIN clientTransfers
      /\ \A u \in DOMAIN clientTransfers : clientTransfers'[u].path = clientTransfers[u].path
  BY DEF OnlyClientTransfer
<1>4. \A i \in DOMAIN waLoop' :
        \/ i \in DOMAIN waLoop /\ waLoop'[i] = waLoop[i]
        \/ waLoop'[i].t = t /\ waLoop'[i].data.path = clientTransfers[t].path
  BY DEF Posted
<1>5. \A i \in DOMAIN waLoop' : waLoop'[i].fn = "OnFileTransferDataReceived"
        => waLoop'[i].data.path = transfers'[waLoop'[i].t].path
  BY <1>1, <1>2, <1>4 DEF Paths
<1> QED BY <1>1, <1>2, <1>3, <1>5 DEF Paths

\* The client gets a request: its transfer is new, and of the request's path.
LEMMA RequestPaths ==
    ASSUME Inv, Paths, MakeFileTransferRequest
    PROVE  Paths'
<1>1. link \in Seq(FileTransferReq) /\ link # <<>> /\ link' = Tail(link)
  BY DEF MakeFileTransferRequest, Inv, FileTransferTypeOK
<1>2. /\ Head(link) = link[1] /\ 1 \in DOMAIN link
      /\ \A i \in DOMAIN link' : i + 1 \in DOMAIN link /\ link'[i] = link[i + 1]
  BY <1>1, TailFacts
<1>3. UNCHANGED <<waLoop, fileSessions, transfers>>
  BY DEF MakeFileTransferRequest, serverVars
<1>4. ASSUME NEW t \in DOMAIN clientTransfers'
      PROVE  \/ t \in DOMAIN clientTransfers /\ clientTransfers'[t] = clientTransfers[t]
             \/ t = link[1].t /\ clientTransfers'[t].path = link[1].path
  <2>1. CASE link[1].t \in DOMAIN clientTransfers
    BY <1>2, <2>1 DEF MakeFileTransferRequest
  <2>2. CASE link[1].t \notin DOMAIN clientTransfers
    BY <1>2, <2>2 DEF MakeFileTransferRequest, Insert, Assign
  <2> QED BY <2>1, <2>2
<1> QED BY <1>2, <1>3, <1>4 DEF Paths

\* The block that is handed on is of the path of its session.
LEMMA DataPaths ==
    ASSUME Inv, Paths, OwnBlocks, OnFileTransferDataReceived
    PROVE  Paths' /\ OwnBlocks'
<1>0. PICK t, data, r : t = waLoop[1].t /\ data = waLoop[1].data /\ r = fileSessions[t].path
  OBVIOUS
<1>1. /\ Taken
      /\ waLoop[1].fn = "OnFileTransferDataReceived"
      /\ \/ UNCHANGED <<got, fileSessions>>
         \/ /\ t \in DOMAIN fileSessions
            /\ Sent(r, data)
            /\ fileSessions' = IF transfers[t].expected = transfers[t].received
                               THEN Erase(fileSessions, t) ELSE fileSessions
  BY <1>0, DataReceivedEffect
<1>2. UNCHANGED <<transfers, clientTransfers, link>>
  BY DEF OnFileTransferDataReceived, linkVars
<1>3. Paths'
  <2>1. ASSUME NEW u \in DOMAIN fileSessions'
        PROVE  u \in DOMAIN fileSessions /\ fileSessions'[u] = fileSessions[u]
    <3>1. CASE fileSessions' = fileSessions
      BY <3>1
    <3>2. CASE fileSessions' = Erase(fileSessions, t)
      BY <3>2 DEF Erase, Restrict
    <3> QED BY <1>1, <3>1, <3>2
  <2> QED BY <1>1, <1>2, <2>1 DEF Paths, Taken
<1>4. OwnBlocks'
  <2>1. CASE UNCHANGED got
    BY <2>1 DEF OwnBlocks
  <2>2. CASE t \in DOMAIN fileSessions /\ Sent(r, data)
    <3>1. data.path = r
      BY <1>0, <1>1, <2>2 DEF Paths, Taken
    <3>2. /\ DOMAIN got' = DOMAIN got
          /\ \A s \in DOMAIN got : s # r => got'[s] = got[s]
          /\ \A i \in DOMAIN got'[r] : got'[r][i].type = "DATA"
                => got'[r][i] = data \/ \E j \in DOMAIN got[r] : got'[r][i] = got[r][j]
      BY <2>2 DEF Sent
    <3> SUFFICES ASSUME NEW s \in DOMAIN got, NEW i \in DOMAIN got'[s],
                        got'[s][i].type = "DATA"
                 PROVE  got'[s][i].path = s
      BY <3>2 DEF OwnBlocks
    <3>3. CASE s # r
      BY <3>2, <3>3 DEF OwnBlocks
    <3>4. CASE s = r
      BY <3>1, <3>2, <3>4 DEF OwnBlocks
    <3> QED BY <3>3, <3>4
  <2> QED BY <1>1, <2>1, <2>2
<1> QED BY <1>3, <1>4

LEMMA PathsStep ==
    ASSUME Inv, Paths, OwnBlocks, Next, ~ServerRestarts
    PROVE  Paths' /\ OwnBlocks'
<1> USE DEF Kind
<1>1. CASE OnWsClientMessage
  <2>1. PICK task \in Task : task = [fn |-> "OnTerminalFileReq", path |-> Len(requests) + 1]
    BY <1>1, NewRequestEffect DEF Inv, OnWsClientMessage, Task
  <2>2. Posted(task) /\ task.fn = "OnTerminalFileReq"
    BY <1>1, <2>1, PostedEffect DEF Inv, OnWsClientMessage
  <2>3. KeepsData(0)
    BY <2>2, PostingKeepsData DEF Inv
  <2>4. UNCHANGED <<fileSessions, transfers, link, clientTransfers>>
    BY <1>1 DEF OnWsClientMessage, linkVars
  <2>5. OwnBlocks'
    BY <1>1, NewRequestBlocks DEF OnWsClientMessage
  <2> QED BY <2>3, <2>4, <2>5, OpeningPaths
<1>2. CASE PerpareFileDownloadResponse
  <2>1. OwnBlocks'
    BY <1>2, NewRequestBlocks DEF PerpareFileDownloadResponse
  <2>2. UNCHANGED <<waLoop, clientTransfers>>
    BY <1>2 DEF PerpareFileDownloadResponse
  <2>3. KeepsData(0)
    <3>1. \A i \in DOMAIN waLoop : i + 0 = i /\ i - 0 = i
      BY TaskFields DEF Inv
    <3> QED BY <2>2, <3>1 DEF KeepsData
  <2>4. \/ UNCHANGED <<fileSessions, transfers, link>>
        \/ \E path, kind : NewTransfer(path, kind)
    <3>1. Len(requests) + 1 \in Path
      BY <1>2, NewRequestEffect DEF Inv, PerpareFileDownloadResponse
    <3> QED BY <1>2, <3>1, StartTransferEffect DEF Inv, PerpareFileDownloadResponse
  <2> QED BY <2>1, <2>2, <2>3, <2>4, OpeningPaths
<1>3. CASE OnTerminalFileReq
  <2>1. Taken /\ waLoop[1].fn = "OnTerminalFileReq" /\ Head(waLoop).path = waLoop[1].path
    BY <1>3, TakenEffect DEF Inv, OnTerminalFileReq, Taken
  <2>2. KeepsData(1)
    BY <2>1, TakingKeepsData
  <2>3. UNCHANGED <<got, clientTransfers>>
    BY <1>3 DEF OnTerminalFileReq, browserVars
  <2>4. \/ UNCHANGED <<fileSessions, transfers, link>>
        \/ \E path, kind : NewTransfer(path, kind)
    <3>1. waLoop[1].path \in Path
      BY <2>1, TaskFields DEF Inv, Taken
    <3> QED BY <1>3, <2>1, <3>1, StartTransferEffect DEF Inv, OnTerminalFileReq
  <2>5. OwnBlocks'
    BY <2>3 DEF OwnBlocks
  <2> QED BY <2>2, <2>3, <2>4, <2>5, OpeningPaths
<1>4. CASE OnFileTransferDataReceived
  BY <1>4, DataPaths
<1>5. CASE MakeFileTransferRequest
  <2>1. OwnBlocks'
    BY <1>5 DEF OwnBlocks, MakeFileTransferRequest, browserVars
  <2> QED BY <1>5, <2>1, RequestPaths
<1>6. CASE \E t \in DOMAIN clientTransfers : Client(t)
  <2>1. PICK t \in DOMAIN clientTransfers : Client(t)
    BY <1>6
  <2>2. UNCHANGED <<got, waLoop, fileSessions, transfers, link>>
    BY <2>1 DEF Client, OnClientConnected, SendRequestedData, browserVars, serverVars, linkVars
  <2>3. OnlyClientTransfer(t) /\ clientTransfers'[t].path = clientTransfers[t].path
    <3>1. CASE OnClientConnected(t)
      BY <3>1, ConnectedEffect DEF Inv
    <3>2. CASE SendRequestedData(t)
      <4>1. clientTransfers[t].up = <<>>
        BY <3>2 DEF SendRequestedData, Inv, ClientInv, UpInv
      <4> QED BY <3>2, <4>1, DataEffect DEF Inv
    <3> QED BY <2>1, <3>1, <3>2 DEF Client
  <2>4. OwnBlocks'
    BY <2>2 DEF OwnBlocks
  <2> QED BY <2>2, <2>3, <2>4, ConnectionPaths
<1>7. CASE \E t \in DOMAIN clientTransfers : HandleFileTransferInit(t)
  <2>1. PICK t \in DOMAIN clientTransfers : HandleFileTransferInit(t)
    BY <1>7
  <2>2. UNCHANGED <<got, waLoop, fileSessions, link>>
    BY <2>1 DEF HandleFileTransferInit, browserVars, linkVars
  <2>3. t \in DOMAIN transfers
    BY DEF Paths
  <2>4. /\ OnlyClientTransfer(t) /\ clientTransfers'[t].path = clientTransfers[t].path
        /\ OnlyTransfer(t) /\ transfers'[t].path = transfers[t].path
    BY <2>1, <2>3, InitEffect DEF Inv
  <2>5. OwnBlocks'
    BY <2>2 DEF OwnBlocks
  <2> QED BY <2>2, <2>4, <2>5, ConnectionPaths
<1>8. CASE \E t \in DOMAIN clientTransfers : HandleFileTransferMsg(t)
  <2>1. PICK t \in DOMAIN clientTransfers : HandleFileTransferMsg(t)
    BY <1>8
  <2>2. UNCHANGED <<got, fileSessions, link>>
    BY <2>1 DEF HandleFileTransferMsg, browserVars, linkVars
  <2>3. /\ 1 \in DOMAIN clientTransfers[t].up
        /\ clientTransfers[t].up[1].type = "DATA"
        /\ clientTransfers[t].up[1] \in Block
        /\ OnlyClientTransfer(t) /\ clientTransfers'[t].path = clientTransfers[t].path
        /\ OnlyTransfer(t) /\ transfers'[t].path = transfers[t].path
    BY <2>1, MsgEffect DEF Inv
  <2>4. clientTransfers[t].up[1].path = clientTransfers[t].path
    BY <2>3 DEF Inv, ClientInv, UpInv
  <2>5. Head(clientTransfers[t].up) = clientTransfers[t].up[1]
    BY <2>1, ArrivingMsg DEF Inv, HandleFileTransferMsg
  <2>6. t \in Id
    BY ClientFields DEF Inv
  <2>7. PICK task \in Task :
          task = [fn |-> "OnFileTransferDataReceived", t |-> t, data |-> clientTransfers[t].up[1]]
    BY <2>3, <2>6 DEF Task
  <2>8. Posted(task) /\ task.t = t /\ task.data.path = clientTransfers[t].path
    <3>1. waLoop' = Append(waLoop, task)
      BY <2>1, <2>5, <2>7 DEF HandleFileTransferMsg
    <3> QED BY <2>4, <2>7, <3>1, PostedEffect DEF Inv
  <2>9. OwnBlocks'
    BY <2>2 DEF OwnBlocks
  <2> QED BY <2>2, <2>3, <2>8, <2>9, ConnectionPaths
<1>9. CASE \E t \in DOMAIN clientTransfers : OnClientClosed(t)
  <2>1. PICK t \in DOMAIN clientTransfers : OnClientClosed(t)
    BY <1>9
  <2>2. UNCHANGED <<got, waLoop, fileSessions, transfers, link>>
    BY <2>1 DEF OnClientClosed, browserVars, serverVars, linkVars
  <2>3. OnlyClientTransfer(t) /\ clientTransfers'[t].path = clientTransfers[t].path
    BY <2>1, ClosedEffect DEF Inv, OnClientClosed
  <2>4. OwnBlocks'
    BY <2>2 DEF OwnBlocks
  <2> QED BY <2>2, <2>3, <2>4, ConnectionPaths
<1>10. CASE HostLost \/ HostReconnects
  <2>1. UNCHANGED <<got, waLoop, fileSessions, transfers, clientTransfers>>
    BY <1>10 DEF HostLost, HostReconnects, browserVars, serverVars
  <2>2. link' = link \/ DOMAIN link' = {}
    BY <1>10 DEF HostLost, HostReconnects
  <2> QED BY <2>1, <2>2 DEF Paths, OwnBlocks
<1> QED BY <1>1, <1>2, <1>3, <1>4, <1>5, <1>6, <1>7, <1>8, <1>9, <1>10
        DEF Next, Browsers, WebAppLoop, ServerConnection

LEMMA NextPathInv == Inv /\ PathInv /\ [Next]_vars => PathInv'
<1> SUFFICES ASSUME Inv, PathInv, [Next]_vars PROVE PathInv'
  OBVIOUS
<1>1. CASE UNCHANGED vars
  BY <1>1 DEF PathInv, Paths, OwnBlocks, vars, browserVars, serverVars, linkVars
<1>2. CASE ServerRestarts
  <2>1. restarts' # 0
    BY <1>2, FileTransferAssumption DEF Inv, FileTransferTypeOK, ServerRestarts
  <2> QED BY <2>1 DEF PathInv
<1>3. CASE Next /\ ~ServerRestarts
  <2>1. restarts' = restarts
    BY <1>3 DEF Next, Browsers, WebAppLoop, Client, ServerConnection, OnWsClientMessage,
                PerpareFileDownloadResponse, OnTerminalFileReq, OnFileTransferDataReceived,
                MakeFileTransferRequest, OnClientConnected, SendRequestedData,
                HandleFileTransferInit, HandleFileTransferMsg, OnClientClosed, HostLost,
                HostReconnects, linkVars
  <2> QED BY <1>3, <2>1, PathsStep DEF PathInv
<1> QED BY <1>1, <1>2, <1>3

\* As long as the server does not restart, a browser gets the data of the path it
\* asked for: the counter of the sessions gives every transfer an id of its own,
\* and the maps of both programs, the messages and the tasks use it alike
\* (ActiveSessions.cpp NextId, FileTransferHandlerServer.cpp, WebAppServer.cpp
\* OnFileTransferDataReceived).
THEOREM RightDataOnly == Spec => []RightData
<1>1. Init => PathInv
  <2> SUFFICES ASSUME Init PROVE Paths /\ OwnBlocks
    BY DEF PathInv
  <2>1. /\ DOMAIN got = {} /\ DOMAIN waLoop = {} /\ DOMAIN link = {}
        /\ DOMAIN fileSessions = {} /\ DOMAIN clientTransfers = {}
    BY EmptyMapFacts DEF Init
  <2> QED BY <2>1 DEF Paths, OwnBlocks
<1>2. PathInv => RightData
  BY DEF PathInv, OwnBlocks, RightData
<1> QED BY <1>1, <1>2, InvHolds, NextPathInv, PTL DEF Spec
=============================================================================
