----------------------------- MODULE FilePanel -----------------------------
(***************************************************************************)
(* FileModeNode, the file panel of a terminal, on a page whose connection  *)
(* comes and goes (PageConnection).  Every session of the page has one     *)
(* terminal, named by the session's websocket.  The panel asks for         *)
(* directory listings over the messenger; listings are separate transfers  *)
(* (FileTransfer) and come back in any order.  A path is the sequence of   *)
(* its names, "/" is the empty one.                                        *)
(***************************************************************************)
EXTENDS PageConnection, SequencesExt, StdMap

CONSTANTS
    Dirs,     \* the paths of the directories of the machine
    Files,    \* the paths of its files
    MaxSends  \* bound: file requests of the page, the first of a panel included

ASSUME FilePanelAssumption ==
    /\ <<>> \in Dirs
    /\ Dirs \cap Files = {}
    /\ \A path \in (Dirs \cup Files) \ {<<>>} : path \in Seq(STRING) /\ Front(path) \in Dirs
    /\ MaxSends \in Nat

VARIABLES
    added,      \* sessions whose terminal has been announced
    nodes,      \* the FileModeNode of each terminal the page knows
    asked,      \* requests the server has not answered
    downloads,  \* history: the paths of the downloads
    sends       \* file requests sent

fileVars == <<connVars, added, nodes, asked, downloads, sends>>

Root == <<>>

\* Kinds of elements of a listing, as far as clicks go: elem.is_dir.
\* current_elem is the element clicked last; up is the element that stands at
\* the head of the listing with the display_name "..".
Element == {"none", "dir", "file"}

Paths == Dirs \cup Files

\* content is the path whose files are shown.  Until the first listing has come
\* there is none, and current_path is null.
NodeType == [listing : BOOLEAN, current_path : Paths, content : Paths,
             current_elem : Element, up : Element]

FilePanelTypeOK ==
    /\ PageConnectionTypeOK
    /\ added \subseteq DOMAIN sockets
    /\ DOMAIN nodes \subseteq added
    /\ \A s \in DOMAIN nodes : nodes[s] \in NodeType
    /\ asked \subseteq [n : 1 .. MaxSends, s : DOMAIN sockets, path : Paths]
    /\ downloads \subseteq Paths
    /\ sends \in 0 .. MaxSends

Init ==
    /\ ConnInit
    /\ added = {}
    /\ nodes = EmptyMap
    /\ asked = {}
    /\ downloads = {}
    /\ sends = 0
-----------------------------------------------------------------------------
\* messenger.send() of a file request for the terminal of session s.  On a
\* closed websocket it is lost, on one of another session the server finds that
\* the terminal is not the page's.  On one that is still connecting send()
\* throws.
Throws == Connecting(Current)

SendFileReq(s, path) ==
    /\ sends < MaxSends
    /\ sends' = sends + 1
    /\ asked' = IF Current = s /\ Open(s)
                THEN asked \cup {[n |-> sends + 1, s |-> s, path |-> path]}
                ELSE asked

NewFileModeNode == [listing |-> FALSE, current_path |-> Root, content |-> Root,
                    current_elem |-> "none", up |-> "none"]

\* The constructor of FileModeNode asks for the root; when that throws, the
\* terminal never gets into the map of TerminalView.
onTerminalAdded(s) ==
    /\ s \notin added
    /\ added' = added \cup {s}
    /\ onWsMessage(s)
    /\ \/ /\ Throws
          /\ UNCHANGED <<nodes, asked, sends>>
       \/ /\ ~Throws
          /\ nodes' = Assign(nodes, s, NewFileModeNode)
          /\ SendFileReq(s, Root)
    /\ UNCHANGED downloads

\* Mutant: the element of an earlier ".." stands in for the one just clicked.
setDirectoryContentKeepingUp(node, req_path, files) ==
    [node EXCEPT !.listing = TRUE, !.current_path = req_path, !.content = files]

\* Mutant: the path is the one before the listing.
setDirectoryContentElsewhere(node, req_path, files) ==
    [node EXCEPT !.listing = TRUE,
                 !.content = files,
                 !.up = IF node.current_path # Root THEN node.current_elem ELSE "none"]

setDirectoryContent(node, req_path, files) ==
    [node EXCEPT !.listing = TRUE,
                 !.current_path = req_path,
                 !.content = files,
                 !.up = IF req_path # Root THEN node.current_elem ELSE "none"]

\* Any of the requests is answered next, or fails and never is; for a terminal
\* the page does not know the answer is ignored.
onDirectoryListen(req) ==
    /\ Open(req.s)
    /\ asked' = asked \ {req}
    /\ \/ /\ req.s \in DOMAIN nodes
          /\ req.path \in Dirs
          /\ nodes' = [nodes EXCEPT ![req.s] =
                          setDirectoryContent(@, req.path, req.path)]
       \/ UNCHANGED nodes
    /\ UNCHANGED <<connVars, added, downloads, sends>>

\* A click sends a request for a directory and starts a download of a file.
\* It remembers the element in any case, also when send() throws.
ClickedElement(s, is_dir, target) ==
    /\ nodes' = [nodes EXCEPT ![s].current_elem = IF is_dir THEN "dir" ELSE "file"]
    /\ \/ /\ is_dir /\ ~Throws
          /\ SendFileReq(s, target)
          /\ UNCHANGED downloads
       \/ /\ is_dir /\ Throws
          /\ UNCHANGED <<asked, downloads, sends>>
       \/ /\ ~is_dir
          /\ downloads' = downloads \cup {target}
          /\ UNCHANGED <<asked, sends>>
    /\ UNCHANGED <<connVars, added>>

\* Mutant: the target is taken relative to the root.
TargetFromRoot(node, name) == <<name>>

\* current_path + "/" + elem.name
Target(node, name) == Append(node.current_path, name)

Shown(s) == nodes[s].listing /\ ~panel

onClicked(s, path) ==
    /\ Shown(s)
    /\ path # Root /\ Front(path) = nodes[s].content
    /\ ClickedElement(s, path \in Dirs, Target(nodes[s], Last(path)))

\* The entry "..": up to the last '/', and "/" when nothing is left.
onUpClicked(s) ==
    /\ Shown(s)
    /\ nodes[s].up # "none"
    /\ ClickedElement(s, nodes[s].up = "dir", Front(nodes[s].current_path))

\* When a websocket ends, the requests of its session end with it, and the
\* clear() of the page drops every terminal.
onSocketEnd(s) ==
    /\ onDisconnected(s)
    /\ nodes' = EmptyMap
    /\ asked' = {req \in asked : req.s # s}
    /\ UNCHANGED <<added, downloads, sends>>

ConnectionOnly == UNCHANGED <<added, nodes, asked, downloads, sends>>

Next ==
    \/ onScriptLoaded /\ ConnectionOnly
    \/ \E s \in DOMAIN sockets : onConnected(s) /\ ConnectionOnly
    \/ \E s \in DOMAIN sockets : onSocketEnd(s)
    \/ \E s \in DOMAIN sockets : onWsMessage(s) /\ ConnectionOnly
    \/ updateReconnectionCounter /\ ConnectionOnly
    \/ onReconnectClicked /\ ConnectionOnly
    \/ \E s \in DOMAIN sockets : onTerminalAdded(s)
    \/ \E req \in asked : onDirectoryListen(req)
    \/ \E s \in DOMAIN nodes, path \in Paths : onClicked(s, path)
    \/ \E s \in DOMAIN nodes : onUpClicked(s)

Spec == Init /\ [][Next]_fileVars

\* Timeouts fire, and an attempt to connect ends: it fails or succeeds.  That
\* finitely many connections fail is MaxFaults.  Nothing is assumed of the user.
Fairness ==
    /\ WF_fileVars(onScriptLoaded /\ ConnectionOnly)
    /\ WF_fileVars(updateReconnectionCounter /\ ConnectionOnly)
    /\ \A s \in 1 .. 1 + MaxFaults + MaxClicks :
          WF_fileVars((onConnected(s) /\ ConnectionOnly) \/ (Connecting(s) /\ onSocketEnd(s)))

FairSpec == Spec /\ Fairness
-----------------------------------------------------------------------------
\* A panel that shows a directory below the root shows a way back up: the
\* element of "..", which the code takes from the last click, is there whatever
\* the order in which the listings came (filemode.node.js setDirectoryContent).
WayBackUp ==
    \A s \in DOMAIN nodes :
        (nodes[s].listing /\ nodes[s].current_path # Root) => nodes[s].up # "none"

\* What the page asks for exists: the target of a click is put together from the
\* path shown at the time of the click and an element of that same listing,
\* though listings replace each other in any order (filemode.node.js onClicked).
TargetsExist ==
    /\ \A req \in asked : req.path \in Dirs
    /\ downloads \subseteq Dirs \cup Files

\* A page without a connection gets one again, for every order in which the
\* attempts of the timer and of the user succeed and fail
\* (reconnect.info.js updateReconnectionCounter, web.app.js onConnected).
ConnectsAgain == panel ~> ~panel
=============================================================================
