--------------------------- MODULE ActiveSessions ---------------------------
(***************************************************************************)
(* ActiveSessions: the sessions of the browser pages.  A WebAppSession     *)
(* maps the terminals of one page to the host each of them runs on.        *)
(***************************************************************************)
EXTENDS Network, StdMap

VARIABLE sessions  \* _web_app_sessions : web client -> (terminal -> host)

SessionsTypeOK ==
    /\ DOMAIN sessions \subseteq WebClients
    /\ \A c \in DOMAIN sessions :
          /\ DOMAIN sessions[c] \subseteq TerminalId
          /\ \A t \in DOMAIN sessions[c] : sessions[c][t] \in Hosts

SessionsInit == sessions = EmptyMap

HasSession(c) == c \in DOMAIN sessions

IsWebAppClientOwningTerminal(c, t) == HasSession(c) /\ t \in DOMAIN sessions[c]

GetRemoteHostByTerminal(c, t) == sessions[c][t]

CreateWebAppSession(c) == sessions' = Insert(sessions, c, EmptyMap)

EraseWebAppSession(c) == sessions' = Erase(sessions, c)

SessionAddTerminal(c, t, h) == sessions' = [sessions EXCEPT ![c] = Insert(@, t, h)]

SessionDeleteTerminal(c, t) == sessions' = [sessions EXCEPT ![c] = Erase(@, t)]
=============================================================================
