---------------------------- MODULE FlowControl ----------------------------
(***************************************************************************)
(* The flow control of a terminal client, step by step.  The client counts *)
(* the output it has sent and the server has not acknowledged, stops       *)
(* reading from its terminals when there is too much and resumes when      *)
(* there is little.  Three threads take part: the terminals' thread counts *)
(* and sends output, the connection's thread takes acknowledgements and    *)
(* notices that the connection is gone, and both decide from the count     *)
(* whether reads are to go on; the loop of TerminalClient carries the      *)
(* decisions out.  TerminalClient makes each of these handlers one step;   *)
(* here each access to the count, each send and each post is a step.       *)
(***************************************************************************)
EXTENDS Integers, Sequences

CONSTANTS
    Terminals,        \* the terminals the server orders, each once
    READ_BLOCK_HIGH,  \* more unacknowledged output blocks reading
    READ_BLOCK_LOW,   \* less unacknowledged output resumes it
    MaxReads,         \* bound: pieces of output
    MaxBreaks         \* bound: connections that break

\* That nothing is left to acknowledge has to be "little".
ASSUME FlowControlAssumption ==
    /\ READ_BLOCK_LOW \in Nat \ {0} /\ READ_BLOCK_HIGH \in Nat
    /\ READ_BLOCK_LOW <= READ_BLOCK_HIGH
    /\ MaxReads \in Nat /\ MaxBreaks \in Nat

VARIABLES
    pending,       \* _pending_msg_counter
    reader, conn,  \* what the terminals' and the connection's thread do next
    loop,          \* tasks posted to _thread
    terminals,     \* keys of TerminalHandler::_terminals
    blocked,       \* those told EnableRead(false)
    readEnabled,   \* TerminalHandler::_read_enabled
    handler,       \* has _term_handler been created?
    link,          \* the connection: "up", "broken" and not noticed, or "down"
    unread, acks,  \* output and acknowledgements on their way
    ordered,       \* terminals the server has asked for
    reads, breaks, \* so far
    changes,       \* history: how often the count was changed
    overtaken      \* history: was the last decision posted a stale one?

flowVars == <<pending, reader, conn, loop, terminals, blocked, readEnabled, handler,
              link, unread, acks, ordered, reads, breaks, changes, overtaken>>

\* A decision: whether reads are to be enabled, and the count it was made from,
\* named by the changes before it.
Decision == [pc : {"post"}, enable : {"yes", "no", "same"}, at : Nat]

Idle == [pc |-> "idle"]

Task == [fn : {"EnableReadFromTerminals"}, enabled : BOOLEAN]
        \cup [fn : {"HandleCreateTerminal", "DeleteTerminal"}, t : Terminals]
        \cup [fn : {"DeleteTerminals"}]

FlowControlTypeOK ==
    /\ pending \in Int
    /\ reader \in [pc : {"idle", "send", "load"}] \cup Decision
    /\ conn \in [pc : {"idle", "load", "delete", "dead"}] \cup Decision
    /\ loop \in Seq(Task)
    /\ terminals \subseteq Terminals /\ ordered \subseteq Terminals
    /\ blocked \subseteq terminals
    /\ readEnabled \in BOOLEAN /\ handler \in BOOLEAN
    /\ link \in {"up", "broken", "down"}
    /\ unread \in Nat /\ acks \in Nat
    /\ reads \in 0 .. MaxReads /\ breaks \in 0 .. MaxBreaks
    /\ changes \in Nat /\ overtaken \in BOOLEAN

Init ==
    /\ pending = 0
    /\ reader = Idle /\ conn = Idle
    /\ loop = <<>>
    /\ terminals = {} /\ blocked = {}
    /\ readEnabled = TRUE
    /\ handler = FALSE
    /\ link = "up"
    /\ unread = 0 /\ acks = 0
    /\ ordered = {}
    /\ reads = 0 /\ breaks = 0
    /\ changes = 0
    /\ overtaken = FALSE
-----------------------------------------------------------------------------
Post(task) == loop' = Append(loop, task)

Count(n) == pending' = n /\ changes' = changes + 1

\* ResolvePendingMsgUpdated: the count is loaded and compared, ...
Load ==
    [pc |-> "post",
     enable |-> IF pending > READ_BLOCK_HIGH THEN "no"
                ELSE IF pending < READ_BLOCK_LOW THEN "yes" ELSE "same",
     at |-> changes]

\* ... then the decision is posted.  It is stale when the count has changed since
\* it was loaded and the thread that changed it has nothing to say any more.
PostDecision(d, other) ==
    /\ IF d.enable = "same" THEN UNCHANGED loop
       ELSE Post([fn |-> "EnableReadFromTerminals", enabled |-> d.enable = "yes"])
    /\ overtaken' = IF d.enable = "same" THEN overtaken
                    ELSE d.at # changes /\ other.pc \in {"idle", "delete"}

\* The terminals' thread.
OnTerminalRead(t) ==
    /\ reader = Idle
    /\ t \in terminals \ blocked
    /\ reads < MaxReads
    /\ reads' = reads + 1
    /\ Count(pending + 1)
    /\ reader' = [pc |-> "send"]
    /\ UNCHANGED <<conn, loop, terminals, blocked, readEnabled, handler, link, unread,
                   acks, ordered, breaks, overtaken>>

ReadSent ==
    /\ reader.pc = "send"
    /\ unread' = IF link = "up" THEN unread + 1 ELSE unread
    /\ reader' = [pc |-> "load"]
    /\ UNCHANGED <<pending, conn, loop, terminals, blocked, readEnabled, handler, link,
                   acks, ordered, reads, breaks, changes, overtaken>>

ReaderLoads ==
    /\ reader.pc = "load"
    /\ reader' = Load
    /\ UNCHANGED <<pending, conn, loop, terminals, blocked, readEnabled, handler, link,
                   unread, acks, ordered, reads, breaks, changes, overtaken>>

ReaderPosts ==
    /\ reader.pc = "post"
    /\ PostDecision(reader, conn)
    /\ reader' = Idle
    /\ UNCHANGED <<pending, conn, terminals, blocked, readEnabled, handler, link, unread,
                   acks, ordered, reads, breaks, changes>>
-----------------------------------------------------------------------------
\* The connection's thread.
OnReadAck ==
    /\ conn = Idle
    /\ acks > 0
    /\ acks' = acks - 1
    /\ Count(pending - 1)
    /\ conn' = [pc |-> "load"]
    /\ UNCHANGED <<reader, loop, terminals, blocked, readEnabled, handler, link, unread,
                   ordered, reads, breaks, overtaken>>

ConnLoads ==
    /\ conn.pc = "load"
    /\ conn' = Load
    /\ UNCHANGED <<pending, reader, loop, terminals, blocked, readEnabled, handler, link,
                   unread, acks, ordered, reads, breaks, changes, overtaken>>

ConnPosts ==
    /\ conn.pc = "post"
    /\ PostDecision(conn, reader)
    /\ conn' = Idle
    /\ UNCHANGED <<pending, reader, terminals, blocked, readEnabled, handler, link, unread,
                   acks, ordered, reads, breaks, changes>>

\* The connection ends: the count is reset, then the deletion is posted.
HandleDisconnected ==
    /\ conn = Idle
    /\ link = "broken"
    /\ link' = "down"
    /\ Count(0)
    /\ conn' = [pc |-> "delete"]
    /\ UNCHANGED <<reader, loop, terminals, blocked, readEnabled, handler, unread, acks,
                   ordered, reads, breaks, overtaken>>

DeletionPosted ==
    /\ conn.pc = "delete"
    /\ Post([fn |-> "DeleteTerminals"])
    /\ conn' = Idle
    /\ UNCHANGED <<pending, reader, terminals, blocked, readEnabled, handler, link, unread,
                   acks, ordered, reads, breaks, changes, overtaken>>

Reconnected ==
    /\ conn = Idle
    /\ link = "down"
    /\ link' = "up"
    /\ UNCHANGED <<pending, reader, conn, loop, terminals, blocked, readEnabled, handler,
                   unread, acks, ordered, reads, breaks, changes, overtaken>>

\* A terminal is ordered; one is deleted, for the server or as its shell ended
\* (bound: one deletion waits at a time).
CreateReceived(t) ==
    /\ conn = Idle
    /\ link = "up"
    /\ t \notin ordered
    /\ ordered' = ordered \cup {t}
    /\ Post([fn |-> "HandleCreateTerminal", t |-> t])
    /\ UNCHANGED <<pending, reader, conn, terminals, blocked, readEnabled, handler, link,
                   unread, acks, reads, breaks, changes, overtaken>>

DeleteReceived(t) ==
    /\ conn = Idle
    /\ t \in terminals
    /\ \A i \in DOMAIN loop : loop[i].fn # "DeleteTerminal"
    /\ Post([fn |-> "DeleteTerminal", t |-> t])
    /\ UNCHANGED <<pending, reader, conn, terminals, blocked, readEnabled, handler, link,
                   unread, acks, ordered, reads, breaks, changes, overtaken>>
-----------------------------------------------------------------------------
\* The loop.
Take(fn) == loop # <<>> /\ Head(loop).fn = fn /\ loop' = Tail(loop)

HandleCreateTerminal ==
    /\ Take("HandleCreateTerminal")
    /\ handler' = TRUE
    /\ terminals' = terminals \cup {Head(loop).t}
    /\ UNCHANGED <<pending, reader, conn, blocked, readEnabled, link, unread, acks, ordered,
                   reads, breaks, changes, overtaken>>

DeleteTerminal ==
    /\ Take("DeleteTerminal")
    /\ terminals' = terminals \ {Head(loop).t}
    /\ blocked' = blocked \ {Head(loop).t}
    /\ UNCHANGED <<pending, reader, conn, readEnabled, handler, link, unread, acks, ordered,
                   reads, breaks, changes, overtaken>>

\* Mutant: the count is reset once more.
DeleteTerminalsAndReset ==
    /\ Take("DeleteTerminals")
    /\ terminals' = {} /\ blocked' = {}
    /\ Count(0)
    /\ UNCHANGED <<conn, reader, readEnabled, handler, link, unread, acks, ordered, reads,
                   breaks, overtaken>>

\* Mutant: what is blocked stays blocked.
DeleteTerminalsKeepBlocked ==
    /\ Take("DeleteTerminals")
    /\ terminals' = {}
    /\ UNCHANGED <<pending, conn, reader, blocked, readEnabled, handler, link, unread, acks,
                   ordered, reads, breaks, changes, overtaken>>

\* Without a handler the process is killed.
DeleteTerminals ==
    /\ Take("DeleteTerminals")
    /\ terminals' = {} /\ blocked' = {}
    /\ conn' = IF handler THEN conn ELSE [pc |-> "dead"]
    /\ UNCHANGED <<pending, reader, readEnabled, handler, link, unread, acks, ordered,
                   reads, breaks, changes, overtaken>>

\* Mutant: _read_enabled is not updated.
EnableReadFromTerminalsOnly ==
    /\ Take("EnableReadFromTerminals")
    /\ LET enabled == Head(loop).enabled IN
          blocked' = IF handler /\ readEnabled # enabled
                     THEN (IF enabled THEN {} ELSE terminals)
                     ELSE blocked
    /\ UNCHANGED <<pending, reader, conn, terminals, readEnabled, handler, link, unread, acks,
                   ordered, reads, breaks, changes, overtaken>>

\* A decision that changes nothing is ignored, and one that does reaches the
\* terminals that exist: a later one can write while reads are disabled.
EnableReadFromTerminals ==
    /\ Take("EnableReadFromTerminals")
    /\ LET enabled == Head(loop).enabled IN
          \/ /\ ~handler \/ readEnabled = enabled
             /\ UNCHANGED <<readEnabled, blocked>>
          \/ /\ handler /\ readEnabled # enabled
             /\ readEnabled' = enabled
             /\ blocked' = IF enabled THEN {} ELSE terminals
    /\ UNCHANGED <<pending, reader, conn, terminals, handler, link, unread, acks, ordered,
                   reads, breaks, changes, overtaken>>

Loop ==
    \/ HandleCreateTerminal \/ DeleteTerminal \/ DeleteTerminals \/ EnableReadFromTerminals
-----------------------------------------------------------------------------
\* The server acknowledges what it reads.
ServerReads ==
    /\ unread > 0
    /\ unread' = unread - 1
    /\ acks' = acks + 1
    /\ UNCHANGED <<pending, reader, conn, loop, terminals, blocked, readEnabled, handler, link,
                   ordered, reads, breaks, changes, overtaken>>

ConnectionBreaks ==
    /\ link = "up"
    /\ breaks < MaxBreaks
    /\ breaks' = breaks + 1
    /\ link' = "broken"
    /\ unread' = 0 /\ acks' = 0
    /\ UNCHANGED <<pending, reader, conn, loop, terminals, blocked, readEnabled, handler,
                   ordered, reads, changes, overtaken>>

Reader == ReadSent \/ ReaderLoads \/ ReaderPosts
Connection == OnReadAck \/ ConnLoads \/ ConnPosts \/ HandleDisconnected \/ DeletionPosted

Next ==
    /\ conn.pc # "dead"
    /\ \/ \E t \in Terminals : OnTerminalRead(t)
       \/ Reader
       \/ Connection
       \/ Reconnected
       \/ \E t \in Terminals : CreateReceived(t)
       \/ \E t \in Terminals : DeleteReceived(t)
       \/ Loop
       \/ ServerReads
       \/ ConnectionBreaks

Spec == Init /\ [][Next]_flowVars

\* The client's threads run, and the server reads.  Shells need not write, and
\* connections need not come back.
Fairness ==
    /\ WF_flowVars(conn.pc # "dead" /\ Reader)
    /\ WF_flowVars(conn.pc # "dead" /\ Connection)
    /\ WF_flowVars(conn.pc # "dead" /\ Loop)
    /\ WF_flowVars(conn.pc # "dead" /\ ServerReads)

FairSpec == Spec /\ Fairness
-----------------------------------------------------------------------------
\* Output that was counted and waits to be sent, read or acknowledged.
Unacked == unread + acks + (IF reader.pc = "send" THEN 1 ELSE 0)

\* The count is at most one too low, however often connections break and
\* whatever the two threads do in between: only the output whose sending a reset
\* and a new connection overtake is sent without being counted
\* (TerminalClient.cpp OnTerminalRead, HandleDisconnected).
CountNearlyRight == link = "up" => pending >= Unacked - 1

\* Output that is counted after the reset and lost, or was written by a terminal
\* of the connection before, is never acknowledged.
Overcounted == link = "up" /\ pending > Unacked

\* Terminals whose output was blocked can write again, or are deleted, except in
\* two cases the code does not exclude: the client counts output that nobody will
\* acknowledge, or the last decision that was posted is one that a newer count has
\* overtaken.  Reads, acknowledgements, disconnects, new and ended terminals can
\* be in any other order (TerminalClient.cpp ResolvePendingMsgUpdated,
\* TerminalHandler.cpp EnableReadFromTerminals).
BlockedReadsResume ==
    blocked # {} ~> blocked = {} \/ Overcounted \/ overtaken
=============================================================================
