-------------------------- MODULE TerminalService --------------------------
(***************************************************************************)
(* What the system promises to the pages, with no queue, thread or         *)
(* connection in it: a terminal is asked for once, by one page, on one     *)
(* host; it runs at most once; only the page that asked for it hears of    *)
(* it, hears of its creation and its output only after it was started, and *)
(* of its end only after it heard of its creation and when it has ended.   *)
(***************************************************************************)
EXTENDS Naturals, Sequences

CONSTANTS Pages, Hosts

VARIABLES
    asked,    \* who asked for each terminal, and on which host
    running,  \* terminals that exist on their host
    ended,    \* terminals that existed and were removed
    added,    \* per page: terminals it was told are created
    output,   \* per page: terminals it got output of
    closed    \* per page: terminals it was told are closed

serviceVars == <<asked, running, ended, added, output, closed>>

Init ==
    /\ asked = <<>>
    /\ running = {}
    /\ ended = {}
    /\ added = [c \in Pages |-> {}]
    /\ output = [c \in Pages |-> {}]
    /\ closed = [c \in Pages |-> {}]

Ask(c, h) ==
    /\ asked' = Append(asked, [c |-> c, h |-> h])
    /\ UNCHANGED <<running, ended, added, output, closed>>

Start(t) ==
    /\ t \in 1 .. Len(asked)
    /\ t \notin running \cup ended
    /\ running' = running \cup {t}
    /\ UNCHANGED <<asked, ended, added, output, closed>>

\* Terminals end one by one, or together when their host is lost.
End(ts) ==
    /\ ts \subseteq running
    /\ running' = running \ ts
    /\ ended' = ended \cup ts
    /\ UNCHANGED <<asked, added, output, closed>>

TellAdded(t) ==
    /\ t \in running \cup ended
    /\ added' = [added EXCEPT ![asked[t].c] = @ \cup {t}]
    /\ UNCHANGED <<asked, running, ended, output, closed>>

TellOutput(t) ==
    /\ t \in running \cup ended
    /\ output' = [output EXCEPT ![asked[t].c] = @ \cup {t}]
    /\ UNCHANGED <<asked, running, ended, added, closed>>

TellClosed(t) ==
    /\ t \in ended
    /\ t \in added[asked[t].c]
    /\ closed' = [closed EXCEPT ![asked[t].c] = @ \cup {t}]
    /\ UNCHANGED <<asked, running, ended, added, output>>

Next ==
    \/ \E c \in Pages, h \in Hosts : Ask(c, h)
    \/ \E t \in running \cup ended : TellAdded(t) \/ TellOutput(t) \/ TellClosed(t)
    \/ \E t \in 1 .. Len(asked) : Start(t)
    \/ \E ts \in SUBSET running : End(ts)

Spec == Init /\ [][Next]_serviceVars
=============================================================================
