------------------------- MODULE FlowControlProofs -------------------------
(***************************************************************************)
(* The count of unacknowledged output, for any number of terminals, pieces *)
(* of output and broken connections, and any thresholds.                   *)
(***************************************************************************)
EXTENDS FlowControl, SequenceTheorems, TLAPS

LEMMA Posting ==
    ASSUME loop \in Seq(Task), NEW task \in Task, Post(task)
    PROVE  loop' \in Seq(Task)
BY DEF Post

\* Taking a task leaves a queue of tasks, and it is one of them.
LEMMA Taking ==
    ASSUME loop \in Seq(Task), NEW fn, Take(fn)
    PROVE  loop' \in Seq(Task) /\ Head(loop) \in Task /\ Head(loop).fn = fn
BY HeadTailProperties DEF Take

LEMMA Deciding ==
    ASSUME FlowControlTypeOK
    PROVE  Load \in Decision
BY DEF FlowControlTypeOK, Load, Decision

LEMMA PostingDecision ==
    ASSUME FlowControlTypeOK, NEW d \in Decision, NEW other, PostDecision(d, other)
    PROVE  loop' \in Seq(Task) /\ overtaken' \in BOOLEAN
<1>1. loop' \in Seq(Task)
  <2>1. [fn |-> "EnableReadFromTerminals", enabled |-> d.enable = "yes"] \in Task
    BY DEF Task
  <2> QED BY <2>1, Posting DEF PostDecision, FlowControlTypeOK
<1>2. overtaken' \in BOOLEAN
  BY DEF PostDecision, FlowControlTypeOK
<1> QED BY <1>1, <1>2
-----------------------------------------------------------------------------
LEMMA ReaderType ==
    ASSUME FlowControlTypeOK, Reader \/ \E t \in Terminals : OnTerminalRead(t)
    PROVE  FlowControlTypeOK'
<1>1. ASSUME NEW t \in Terminals, OnTerminalRead(t) PROVE FlowControlTypeOK'
  BY <1>1, FlowControlAssumption DEF FlowControlTypeOK, OnTerminalRead, Count
<1>2. ASSUME ReadSent PROVE FlowControlTypeOK'
  BY <1>2 DEF FlowControlTypeOK, ReadSent
<1>3. ASSUME ReaderLoads PROVE FlowControlTypeOK'
  BY <1>3, Deciding DEF FlowControlTypeOK, ReaderLoads
<1>4. ASSUME ReaderPosts PROVE FlowControlTypeOK'
  <2>1. reader \in Decision
    BY <1>4 DEF FlowControlTypeOK, ReaderPosts
  <2>2. loop' \in Seq(Task) /\ overtaken' \in BOOLEAN
    BY <1>4, <2>1, PostingDecision DEF ReaderPosts
  <2> QED BY <1>4, <2>2 DEF FlowControlTypeOK, ReaderPosts, Idle
<1> QED BY <1>1, <1>2, <1>3, <1>4 DEF Reader

LEMMA ConnectionType ==
    ASSUME FlowControlTypeOK, Connection
    PROVE  FlowControlTypeOK'
<1>1. ASSUME OnReadAck PROVE FlowControlTypeOK'
  BY <1>1 DEF FlowControlTypeOK, OnReadAck, Count
<1>2. ASSUME ConnLoads PROVE FlowControlTypeOK'
  BY <1>2, Deciding DEF FlowControlTypeOK, ConnLoads
<1>3. ASSUME ConnPosts PROVE FlowControlTypeOK'
  <2>1. conn \in Decision
    BY <1>3 DEF FlowControlTypeOK, ConnPosts
  <2>2. loop' \in Seq(Task) /\ overtaken' \in BOOLEAN
    BY <1>3, <2>1, PostingDecision DEF ConnPosts
  <2> QED BY <1>3, <2>2 DEF FlowControlTypeOK, ConnPosts, Idle
<1>4. ASSUME HandleDisconnected PROVE FlowControlTypeOK'
  BY <1>4 DEF FlowControlTypeOK, HandleDisconnected, Count
<1>5. ASSUME DeletionPosted PROVE FlowControlTypeOK'
  <2>1. [fn |-> "DeleteTerminals"] \in Task
    BY DEF Task
  <2>2. loop' \in Seq(Task)
    BY <1>5, <2>1, Posting DEF FlowControlTypeOK, DeletionPosted
  <2> QED BY <1>5, <2>2 DEF FlowControlTypeOK, DeletionPosted, Idle
<1> QED BY <1>1, <1>2, <1>3, <1>4, <1>5 DEF Connection

LEMMA LoopType ==
    ASSUME FlowControlTypeOK, Loop
    PROVE  FlowControlTypeOK'
<1> loop \in Seq(Task)
  BY DEF FlowControlTypeOK
<1>1. ASSUME HandleCreateTerminal PROVE FlowControlTypeOK'
  <2>1. loop' \in Seq(Task) /\ Head(loop).t \in Terminals
    BY <1>1, Taking DEF HandleCreateTerminal, Task
  <2> QED BY <1>1, <2>1 DEF FlowControlTypeOK, HandleCreateTerminal
<1>2. ASSUME DeleteTerminal PROVE FlowControlTypeOK'
  <2>1. loop' \in Seq(Task)
    BY <1>2, Taking DEF DeleteTerminal
  <2> QED BY <1>2, <2>1 DEF FlowControlTypeOK, DeleteTerminal
<1>3. ASSUME DeleteTerminals PROVE FlowControlTypeOK'
  <2>1. loop' \in Seq(Task)
    BY <1>3, Taking DEF DeleteTerminals
  <2> QED BY <1>3, <2>1 DEF FlowControlTypeOK, DeleteTerminals
<1>4. ASSUME EnableReadFromTerminals PROVE FlowControlTypeOK'
  <2>1. loop' \in Seq(Task) /\ Head(loop).enabled \in BOOLEAN
    BY <1>4, Taking DEF EnableReadFromTerminals, Task
  <2> QED BY <1>4, <2>1 DEF FlowControlTypeOK, EnableReadFromTerminals
<1> QED BY <1>1, <1>2, <1>3, <1>4 DEF Loop

LEMMA OrderType ==
    ASSUME FlowControlTypeOK, NEW t \in Terminals, CreateReceived(t) \/ DeleteReceived(t)
    PROVE  FlowControlTypeOK'
<1>1. /\ [fn |-> "HandleCreateTerminal", t |-> t] \in Task
      /\ [fn |-> "DeleteTerminal", t |-> t] \in Task
  BY DEF Task
<1>2. loop' \in Seq(Task)
  BY <1>1, Posting DEF FlowControlTypeOK, CreateReceived, DeleteReceived
<1> QED BY <1>2 DEF FlowControlTypeOK, CreateReceived, DeleteReceived

LEMMA LinkType ==
    ASSUME FlowControlTypeOK, Reconnected \/ ServerReads \/ ConnectionBreaks
    PROVE  FlowControlTypeOK'
<1>1. ASSUME Reconnected PROVE FlowControlTypeOK'
  BY <1>1 DEF FlowControlTypeOK, Reconnected
<1>2. ASSUME ServerReads PROVE FlowControlTypeOK'
  BY <1>2 DEF FlowControlTypeOK, ServerReads
<1>3. ASSUME ConnectionBreaks PROVE FlowControlTypeOK'
  BY <1>3, FlowControlAssumption DEF FlowControlTypeOK, ConnectionBreaks
<1> QED BY <1>1, <1>2, <1>3

\* The variables keep their types, and only terminals that exist are blocked
\* (TerminalHandler.cpp, TerminalClient.cpp).
THEOREM FlowControlTypeCorrect == Spec => []FlowControlTypeOK
<1>1. Init => FlowControlTypeOK
  <2> SUFFICES ASSUME Init PROVE FlowControlTypeOK
    OBVIOUS
  <2>1. loop \in Seq(Task)
    BY DEF Init
  <2>2. /\ reader \in [pc : {"idle", "send", "load"}]
        /\ conn \in [pc : {"idle", "load", "delete", "dead"}]
    BY DEF Init, Idle
  <2>3. /\ pending \in Int /\ unread \in Nat /\ acks \in Nat /\ changes \in Nat
        /\ reads \in 0 .. MaxReads /\ breaks \in 0 .. MaxBreaks
    BY FlowControlAssumption DEF Init
  <2>4. /\ terminals \subseteq Terminals /\ ordered \subseteq Terminals
        /\ blocked \subseteq terminals /\ link \in {"up", "broken", "down"}
        /\ readEnabled \in BOOLEAN /\ handler \in BOOLEAN /\ overtaken \in BOOLEAN
    BY DEF Init
  <2> QED BY <2>1, <2>2, <2>3, <2>4 DEF FlowControlTypeOK
<1>2. FlowControlTypeOK /\ [Next]_flowVars => FlowControlTypeOK'
  <2> SUFFICES ASSUME FlowControlTypeOK, [Next]_flowVars
               PROVE  FlowControlTypeOK'
    OBVIOUS
  <2>1. CASE UNCHANGED flowVars
    BY <2>1 DEF FlowControlTypeOK, flowVars
  <2>2. CASE Next
    BY <2>2, ReaderType, ConnectionType, LoopType, OrderType, LinkType DEF Next
  <2> QED BY <2>1, <2>2
<1> QED BY <1>1, <1>2, PTL DEF Spec
-----------------------------------------------------------------------------
\* Without a connection nothing is on its way, and once the loss is noticed the
\* count starts at 0 and only grows.
CountInv ==
    /\ link # "up" => unread = 0 /\ acks = 0
    /\ link = "down" => pending >= 0
    /\ CountNearlyRight

\* The count of unacknowledged output is at most one too low, whatever the two
\* threads and the connection do (TerminalClient.cpp OnTerminalRead, OnClientRead,
\* HandleDisconnected).
THEOREM CountAlmostExact == Spec => []CountNearlyRight
<1>1. Init => CountInv
  BY DEF Init, CountInv, CountNearlyRight, Unacked, Idle
<1>2. FlowControlTypeOK /\ CountInv /\ [Next]_flowVars => CountInv'
  <2> SUFFICES ASSUME pending \in Int, unread \in Nat, acks \in Nat, CountInv,
                      [Next]_flowVars
               PROVE  CountInv'
    BY DEF FlowControlTypeOK
  <2> USE DEF CountInv, CountNearlyRight, Unacked
  <2>1. ASSUME NEW t \in Terminals, OnTerminalRead(t) PROVE CountInv'
    BY <2>1 DEF OnTerminalRead, Count, Idle
  <2>2. ASSUME Reader PROVE CountInv'
    <3>1. CASE ReadSent
      BY <3>1 DEF ReadSent
    <3>2. CASE ReaderLoads
      BY <3>2 DEF ReaderLoads, Load
    <3>3. CASE ReaderPosts
      BY <3>3 DEF ReaderPosts, Idle
    <3> QED BY <2>2, <3>1, <3>2, <3>3 DEF Reader
  <2>3. ASSUME Connection PROVE CountInv'
    <3>1. CASE OnReadAck
      BY <3>1 DEF OnReadAck, Count
    <3>2. CASE HandleDisconnected
      BY <3>2 DEF HandleDisconnected, Count
    <3>3. CASE ConnLoads \/ ConnPosts \/ DeletionPosted
      BY <3>3 DEF ConnLoads, ConnPosts, DeletionPosted
    <3> QED BY <2>3, <3>1, <3>2, <3>3 DEF Connection
  <2>4. ASSUME Reconnected PROVE CountInv'
    BY <2>4 DEF Reconnected
  <2>5. ASSUME NEW t \in Terminals, CreateReceived(t) \/ DeleteReceived(t) PROVE CountInv'
    BY <2>5 DEF CreateReceived, DeleteReceived
  <2>6. ASSUME Loop PROVE CountInv'
    BY <2>6 DEF Loop, HandleCreateTerminal, DeleteTerminal, DeleteTerminals,
                EnableReadFromTerminals
  <2>7. ASSUME ServerReads PROVE CountInv'
    BY <2>7 DEF ServerReads
  <2>8. ASSUME ConnectionBreaks PROVE CountInv'
    BY <2>8 DEF ConnectionBreaks
  <2>9. CASE UNCHANGED flowVars
    BY <2>9 DEF flowVars
  <2> QED BY <2>1, <2>2, <2>3, <2>4, <2>5, <2>6, <2>7, <2>8, <2>9 DEF Next
<1>3. CountInv => CountNearlyRight
  BY DEF CountInv
<1> QED BY <1>1, <1>2, <1>3, FlowControlTypeCorrect, PTL DEF Spec
=============================================================================
