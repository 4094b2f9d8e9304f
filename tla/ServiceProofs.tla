---------------------------- MODULE ServiceProofs ----------------------------
(***************************************************************************)
(* The system implements TerminalService, and forgets no terminal.  Both   *)
(* follow a terminal through its whole life: the order to start it, its    *)
(* start on one machine, and the reports of its creation, its output and   *)
(* its end, each through four queues, while pages, connections and         *)
(* processes come and go.                                                  *)
(***************************************************************************)
EXTENDS ControlSystemProofs

(***************************************************************************)
(* Queues.  What is looked for is a set of tasks, or of messages.          *)
(***************************************************************************)
Has(q, A) == \E i \in DOMAIN q : q[i] \in A

\* At most one entry of q is in A.
Once(q, A) == \A i, j \in DOMAIN q : q[i] \in A /\ q[j] \in A => i = j

\* Every entry in B comes after one in A.
Led(q, A, B) == \A i \in DOMAIN q : q[i] \in B => \E j \in DOMAIN q : j < i /\ q[j] \in A

\* The tasks and messages about terminal t.
Orders(t)       == {msg \in DownMsg : msg.type = "CREATE_TERMINAL" /\ msg.t = t}
DeleteOrders(t) == {msg \in DownMsg : msg.type = "DELETE_TERMINAL" /\ msg.t = t}
ClientTasks(fn, t) == {k \in ClientTask : k.fn = fn /\ k.t = t}
Reports(type, t)   == {msg \in UpMsg : msg.type = type /\ msg.t = t}
ServerTasks(fn, h, t) == {k \in TerminalTask : k.fn = fn /\ k.h = h /\ k.t = t}
PageTasks(fn, t)   == {k \in WebAppTask : k.fn = fn /\ k.t = t}
\* Looking into a queue after one of the things the program does to queues.
LEMMA HasAppend ==
    ASSUME NEW S, NEW q \in Seq(S), NEW k, NEW A
    PROVE  Has(Append(q, k), A) <=> Has(q, A) \/ k \in A
<1>1. Has(q, A) => Has(Append(q, k), A)
  BY TaskPosted DEF Has
<1>2. k \in A => Has(Append(q, k), A)
  BY TaskPosted DEF Has
<1>3. Has(Append(q, k), A) => Has(q, A) \/ k \in A
  BY TaskPosted DEF Has
<1> QED BY <1>1, <1>2, <1>3

LEMMA HasTail ==
    ASSUME NEW S, NEW q \in Seq(S), q # <<>>, NEW A
    PROVE  /\ Has(Tail(q), A) => Has(q, A)
           /\ Has(q, A) => Has(Tail(q), A) \/ Head(q) \in A
           /\ Head(q) \in A => Has(q, A)
<1>1. Has(Tail(q), A) => Has(q, A)
  BY TaskTaken DEF Has
<1>2. Has(q, A) => Has(Tail(q), A) \/ Head(q) \in A
  BY TaskTaken DEF Has
<1>3. Head(q) \in A => Has(q, A)
  BY TaskTaken DEF Has
<1> QED BY <1>1, <1>2, <1>3

LEMMA HasConcat ==
    ASSUME NEW S, NEW q \in Seq(S), NEW r \in Seq(S), NEW A
    PROVE  Has(q \o r, A) <=> Has(q, A) \/ Has(r, A)
<1>1. Has(q, A) => Has(q \o r, A)
  BY Joined DEF Has
<1>2. ASSUME NEW i \in DOMAIN r, r[i] \in A
      PROVE  Has(q \o r, A)
  <2>1. i + Len(q) \in DOMAIN (q \o r) /\ (q \o r)[i + Len(q)] = r[i]
    BY Joined
  <2> QED BY <1>2, <2>1 DEF Has
<1>3. ASSUME NEW i \in DOMAIN (q \o r), (q \o r)[i] \in A
      PROVE  Has(q, A) \/ Has(r, A)
  BY <1>3, Joined DEF Has
<1> QED BY <1>1, <1>2, <1>3 DEF Has

LEMMA HasNone == ASSUME NEW A PROVE ~Has(<<>>, A)
<1>1. DOMAIN <<>> = {}
  OBVIOUS
<1> QED BY <1>1 DEF Has

LEMMA HasOne == ASSUME NEW k, NEW A PROVE Has(<<k>>, A) <=> k \in A
<1>1. DOMAIN <<k>> = {1} /\ <<k>>[1] = k
  OBVIOUS
<1> QED BY <1>1 DEF Has

LEMMA OnceAppend ==
    ASSUME NEW S, NEW q \in Seq(S), NEW k, NEW A, Once(q, A), k \in A => ~Has(q, A)
    PROVE  Once(Append(q, k), A)
<1>1. ASSUME NEW i \in DOMAIN Append(q, k), Append(q, k)[i] \in A
      PROVE  (i \in DOMAIN q /\ q[i] \in A) \/ (i = Len(q) + 1 /\ k \in A)
  BY <1>1, TaskPosted
<1> QED BY <1>1 DEF Once, Has

LEMMA OnceTail ==
    ASSUME NEW S, NEW q \in Seq(S), q # <<>>, NEW A, Once(q, A)
    PROVE  Once(Tail(q), A) /\ (Head(q) \in A => ~Has(Tail(q), A))
<1>1. \A i \in DOMAIN Tail(q) : /\ i \in Nat /\ i >= 1
                                /\ i + 1 \in DOMAIN q /\ Tail(q)[i] = q[i + 1]
  BY TaskTaken
<1>2. ASSUME NEW i \in DOMAIN Tail(q), NEW j \in DOMAIN Tail(q), Tail(q)[i] \in A, Tail(q)[j] \in A
      PROVE  i = j
  <2>1. i + 1 = j + 1
    BY <1>1, <1>2 DEF Once
  <2> QED BY <1>1, <2>1
<1>3. ASSUME Head(q) \in A, NEW i \in DOMAIN Tail(q), Tail(q)[i] \in A
      PROVE  FALSE
  <2>1. 1 = i + 1
    BY <1>1, <1>3, TaskTaken DEF Once
  <2> QED BY <1>1, <2>1
<1> QED BY <1>2, <1>3 DEF Once, Has

LEMMA OnceConcat ==
    ASSUME NEW S, NEW q \in Seq(S), NEW r \in Seq(S), NEW A, Once(q, A), ~Has(r, A)
    PROVE  Once(q \o r, A)
<1>1. ASSUME NEW i \in DOMAIN (q \o r), (q \o r)[i] \in A
      PROVE  i \in DOMAIN q /\ q[i] \in A
  BY <1>1, Joined DEF Has
<1> QED BY <1>1 DEF Once

LEMMA LedAppend ==
    ASSUME NEW S, NEW q \in Seq(S), NEW k, NEW A, NEW B, Led(q, A, B), k \in B => Has(q, A)
    PROVE  Led(Append(q, k), A, B)
<1>1. ASSUME NEW i \in DOMAIN Append(q, k), Append(q, k)[i] \in B
      PROVE  \E j \in DOMAIN q : j < i /\ q[j] \in A
  <2>1. CASE i \in DOMAIN q
    BY <1>1, <2>1, TaskPosted DEF Led
  <2>2. CASE i = Len(q) + 1
    BY <1>1, <2>2, TaskPosted DEF Has
  <2> QED BY <2>1, <2>2, TaskPosted
<1> QED BY <1>1, TaskPosted DEF Led

LEMMA LedTail ==
    ASSUME NEW S, NEW q \in Seq(S), q # <<>>, NEW A, NEW B, Led(q, A, B), Head(q) \notin A
    PROVE  Led(Tail(q), A, B)
<1>1. \A i \in DOMAIN Tail(q) : /\ i \in Nat /\ i >= 1
                                /\ i + 1 \in DOMAIN q /\ Tail(q)[i] = q[i + 1]
  BY TaskTaken
<1>2. ASSUME NEW i \in DOMAIN Tail(q), Tail(q)[i] \in B
      PROVE  \E j \in DOMAIN Tail(q) : j < i /\ Tail(q)[j] \in A
  <2>1. PICK j \in DOMAIN q : j < i + 1 /\ q[j] \in A
    BY <1>1, <1>2 DEF Led
  <2>2. j - 1 \in DOMAIN Tail(q) /\ Tail(q)[j - 1] = q[j] /\ j \in Nat
    BY <2>1, TaskTaken
  <2>3. j - 1 < i
    BY <1>1, <2>1, <2>2
  <2> QED BY <2>1, <2>2, <2>3
<1> QED BY <1>2 DEF Led

LEMMA LedHead ==
    ASSUME NEW S, NEW q \in Seq(S), q # <<>>, NEW A, NEW B, Led(q, A, B)
    PROVE  Head(q) \notin B
<1>1. 1 \in DOMAIN q /\ q[1] = Head(q) /\ \A j \in DOMAIN q : ~(j < 1)
  OBVIOUS
<1> QED BY <1>1 DEF Led

LEMMA LedConcat ==
    ASSUME NEW S, NEW q \in Seq(S), NEW r \in Seq(S), NEW A, NEW B, Led(q, A, B), ~Has(r, B)
    PROVE  Led(q \o r, A, B)
<1>1. ASSUME NEW i \in DOMAIN (q \o r), (q \o r)[i] \in B
      PROVE  i \in DOMAIN q /\ q[i] \in B
  BY <1>1, Joined DEF Has
<1>2. \A i \in DOMAIN q : i \in DOMAIN (q \o r) /\ (q \o r)[i] = q[i]
  BY Joined
<1> QED BY <1>1, <1>2 DEF Led

LEMMA LedNone == ASSUME NEW q, NEW A, NEW B, ~Has(q, B) PROVE Led(q, A, B)
  BY DEF Led, Has
-----------------------------------------------------------------------------
(***************************************************************************)
(* Starting: a terminal is ordered once, started once, on one machine.     *)
(***************************************************************************)
\* Nothing will start t.
NotOrdered(t) ==
    /\ \A h \in Hosts : ~Has(down[h], Orders(t))
    /\ \A m \in Machines : ~Has(loop[m], ClientTasks("HandleCreateTerminal", t))

OrderedOnce(t) ==
    /\ \A h \in Hosts : Once(down[h], Orders(t))
    /\ \A m \in Machines : Once(loop[m], ClientTasks("HandleCreateTerminal", t))
    /\ \A h \in Hosts, m \in Machines :
          ~(Has(down[h], Orders(t)) /\ Has(loop[m], ClientTasks("HandleCreateTerminal", t)))
    /\ \A m, n \in Machines :
          (/\ Has(loop[m], ClientTasks("HandleCreateTerminal", t))
           /\ Has(loop[n], ClientTasks("HandleCreateTerminal", t)))
              => m = n

\* What is in the loop of machine m, in any order.
FitTask(m) ==
    {k \in ClientTask :
        /\ k.fn = "HandleCreateTerminal" => Created(k.t)
        /\ k.fn = "OnTerminalEnd" =>
              k.t \in started /\ \A n \in Machines : n # m => k.t \notin terminals[n]}

\* The rest of HandleCreateTerminal is the next thing the loop does.
CreatingFirst(m) ==
    \A i \in DOMAIN loop[m] :
        loop[m][i].fn = "SendCreated" => i = 1 /\ loop[m][i].t \in terminals[m]

StartInv ==
    /\ started \subseteq 1 .. Len(owner)
    /\ \A m \in Machines : shells[m] \subseteq terminals[m] /\ terminals[m] \subseteq started
    /\ \A m, n \in Machines : m # n => terminals[m] \cap terminals[n] = {}
    /\ \A t \in started : NotOrdered(t)
    /\ \A t \in 1 .. Len(owner) : OrderedOnce(t)
    /\ \A m \in Machines : loop[m] \in Seq(FitTask(m)) /\ CreatingFirst(m)
-----------------------------------------------------------------------------
(***************************************************************************)
(* Reports: of terminals that were started, the end of those that ended.   *)
(***************************************************************************)
Ended == started \ Running

TrueUpMsg ==
    {msg \in UpMsg :
        /\ msg.type # "CLIENT_INFO" => msg.t \in started
        /\ msg.type = "ON_TERMINAL_END" => msg.t \in Ended}

TrueTerminalTask ==
    {k \in TerminalTask :
        /\ k.fn \in {"HandleTerminalCreated", "HandleTerminalRead"} => k.t \in started
        /\ k.fn = "HandleTerminalEnd" => k.t \in Ended}

TrueWebAppTask ==
    {k \in WebAppTask :
        /\ k.fn \in {"OnTerminalCreated", "OnTerminalOutput"} => k.t \in started
        /\ k.fn = "OnTerminalClosed" => k.t \in Ended}

ReportInv ==
    /\ \A h \in Hosts : up[h] \in Seq(TrueUpMsg)
    /\ tsLoop \in Seq(TrueTerminalTask)
    /\ waLoop \in Seq(TrueWebAppTask)
-----------------------------------------------------------------------------
(***************************************************************************)
(* Pages and connections come once.                                        *)
(***************************************************************************)
\* The session of page c was created, whether or not it is still there.
Came(c) == ws[c] # "new" /\ ~Has(waLoop, {k \in WebAppTask : k.fn = "AddClient" /\ k.c = c})

PageInv ==
    /\ \A t \in 1 .. Len(owner) : Came(owner[t].c)
    /\ \A i \in DOMAIN tsLoop : tsLoop[i].fn = "CreateNewTerminal" => Came(tsLoop[i].c)
    /\ \A i \in DOMAIN waLoop : waLoop[i].fn = "OnTerminalAddReq" =>
          /\ ws[waLoop[i].c] # "new"
          /\ \A j \in DOMAIN waLoop :
                j > i => ~(waLoop[j].fn = "AddClient" /\ waLoop[j].c = waLoop[i].c)

\* The client's end was open and is not any more.
Broken(h) == srvEnd[h] # "none" /\ ~cliEnd[h]

\* Terminal t is on machine m, or about to be started there.
Hosted(m, t) == t \in terminals[m] \/ Has(loop[m], ClientTasks("HandleCreateTerminal", t))

ConnInv ==
    /\ \A h \in Hosts : cliEnd[h] => srvEnd[h] # "none"
    /\ \A m \in Machines : client[m] \in Hosts => srvEnd[client[m]] # "none"
    /\ \A m, n \in Machines : client[m] \in Hosts /\ client[m] = client[n] => m = n
    /\ \A t \in 1 .. Len(owner) : srvEnd[owner[t].h] # "none"
    /\ \A m \in Machines, t \in 1 .. Len(owner) :
          Hosted(m, t) => client[m] = owner[t].h \/ Broken(owner[t].h)
-----------------------------------------------------------------------------
(***************************************************************************)
(* Order: the creation of a terminal is told before its end.  How far the  *)
(* report of the creation has come; none of this is ever undone.           *)
(***************************************************************************)
Gone(h) == Broken(h) \/ srvEnd[h] = "closed"

PageKnows(t) == t \in told[owner[t].c].added \/ owner[t].c \notin DOMAIN sessions

ServerKnows(t) ==
    \/ PageKnows(t)
    \/ ~HasAppClient(owner[t].h, t)
    \/ Has(waLoop, PageTasks("OnTerminalCreated", t))

ReportRead(t) == ServerKnows(t) \/ Has(tsLoop, ServerTasks("HandleTerminalCreated", owner[t].h, t))

ReportLeft(t) ==
    \/ ReportRead(t)
    \/ Has(up[owner[t].h], Reports("ON_TERMINAL_CREATED", t))
    \/ Gone(owner[t].h)

Starting(m, t) == loop[m] # <<>> /\ Head(loop[m]) \in ClientTasks("SendCreated", t)

OrderInv ==
    \A t \in started :
        /\ PageKnows(t)
           \/ Led(waLoop, PageTasks("OnTerminalCreated", t), PageTasks("OnTerminalClosed", t))
        /\ ServerKnows(t)
           \/ Led(tsLoop, ServerTasks("HandleTerminalCreated", owner[t].h, t),
                          ServerTasks("HandleTerminalEnd", owner[t].h, t))
        /\ ReportRead(t)
           \/ Led(up[owner[t].h], Reports("ON_TERMINAL_CREATED", t),
                                  Reports("ON_TERMINAL_END", t))
        /\ ReportLeft(t) \/ \E m \in Machines : Starting(m, t)

\* The inductive invariant.
ServiceInv == Routed /\ StartInv /\ ReportInv /\ PageInv /\ ConnInv /\ OrderInv
-----------------------------------------------------------------------------
(***************************************************************************)
(* No terminal is forgotten: where its creation or its removal can be.     *)
(***************************************************************************)
InSession(t) == \E c \in DOMAIN sessions : t \in DOMAIN sessions[c]

CreationNear(m, t) ==
    \/ Starting(m, t)
    \/ Has(up[owner[t].h], Reports("ON_TERMINAL_CREATED", t))
    \/ Has(tsLoop, ServerTasks("HandleTerminalCreated", owner[t].h, t))
    \/ Has(waLoop, PageTasks("OnTerminalCreated", t))

RemovalNear(m, t) ==
    \/ Has(tsLoop, ServerTasks("DeleteTerminal", owner[t].h, t))
    \/ Has(down[owner[t].h], DeleteOrders(t))
    \/ Has(loop[m], ClientTasks("HandleDeleteTerminal", t))
    \/ Has(loop[m], ClientTasks("OnTerminalEnd", t))

\* TerminalServer knows the page of every terminal of a connected host.
RoutesKnown == \A t \in 1 .. Len(owner) : GetClient(owner[t].h) => HasAppClient(owner[t].h, t)

CaredFor ==
    \A m \in Machines : \A t \in terminals[m] :
        \/ InSession(t)
        \/ CreationNear(m, t)
        \/ RemovalNear(m, t)
        \/ t \in late
        \/ ~LinkUp(owner[t].h)
-----------------------------------------------------------------------------
\* The types the lemmas below use.
LEMMA Elements ==
    ASSUME NEW S, NEW q \in Seq(S), NEW i \in 1 .. Len(q)
    PROVE  q[i] \in S /\ i \in Nat \ {0} /\ i \in DOMAIN q
  OBVIOUS

LEMMA ServiceTypes ==
    ASSUME Typed
    PROVE  /\ waLoop \in Seq(WebAppTask) /\ tsLoop \in Seq(TerminalTask)
           /\ srvEnd \in [Hosts -> EndState] /\ cliEnd \in [Hosts -> BOOLEAN]
           /\ up \in [Hosts -> Seq(UpMsg)] /\ down \in [Hosts -> Seq(DownMsg)]
           /\ client \in [Machines -> Hosts \cup {NoHost}]
           /\ loop \in [Machines -> Seq(ClientTask)]
           /\ terminals \in [Machines -> SUBSET TerminalId]
           /\ shells \in [Machines -> SUBSET TerminalId]
           /\ started \subseteq TerminalId
           /\ idCounter \in Nat /\ owner \in Seq([c : WebClients, h : Hosts])
           /\ \A t \in 1 .. Len(owner) : /\ t \in TerminalId
                                         /\ owner[t].c \in WebClients /\ owner[t].h \in Hosts
           /\ NoHost \notin Hosts
<1>1. owner \in Seq([c : WebClients, h : Hosts])
  BY DEF Typed, TypeOK, TerminalServerTypeOK
<1>2. ASSUME NEW t \in 1 .. Len(owner)
      PROVE  /\ t \in TerminalId
             /\ owner[t].c \in WebClients /\ owner[t].h \in Hosts
  <2>1. owner[t] \in [c : WebClients, h : Hosts] /\ t \in Nat \ {0}
    BY <1>1, Elements
  <2> QED BY <2>1 DEF TerminalId
<1> QED
  BY <1>1, <1>2, NetworkAssumption
  DEF Typed, TypeOK, NetworkTypeOK, TerminalServerTypeOK, TerminalClientTypeOK

\* A queue holds no more of A than it did.
Fewer(q, r, A) == (Has(r, A) => Has(q, A)) /\ (Once(q, A) => Once(r, A))

LEMMA FewerSame == ASSUME NEW q, NEW A PROVE Fewer(q, q, A)
  BY DEF Fewer

LEMMA FewerNone == ASSUME NEW q, NEW A PROVE Fewer(q, <<>>, A)
<1>1. DOMAIN <<>> = {}
  OBVIOUS
<1> QED BY <1>1 DEF Fewer, Has, Once

LEMMA FewerTail ==
    ASSUME NEW S, NEW q \in Seq(S), q # <<>>, NEW A
    PROVE  Fewer(q, Tail(q), A)
  BY HasTail, OnceTail DEF Fewer

LEMMA FewerAppend ==
    ASSUME NEW S, NEW q \in Seq(S), NEW k, NEW A, k \notin A
    PROVE  Fewer(q, Append(q, k), A)
  BY HasAppend, OnceAppend DEF Fewer

LEMMA FewerConcat ==
    ASSUME NEW S, NEW q \in Seq(S), NEW r \in Seq(S), NEW A, ~Has(r, A)
    PROVE  Fewer(q, q \o r, A)
  BY HasConcat, OnceConcat DEF Fewer

\* A step that orders nothing, starts nothing and moves no order.
LEMMA StartFrame ==
    ASSUME StartInv, UNCHANGED <<owner, started>>,
           \A m \in Machines : shells'[m] \subseteq terminals'[m]
                               /\ terminals'[m] \subseteq terminals[m],
           \A h \in Hosts, t \in TerminalId : Fewer(down[h], down'[h], Orders(t)),
           \A m \in Machines, t \in TerminalId :
               Fewer(loop[m], loop'[m], ClientTasks("HandleCreateTerminal", t)),
           \A m \in Machines : loop'[m] \in Seq(FitTask(m)) /\ CreatingFirst(m)',
           1 .. Len(owner) \subseteq TerminalId
    PROVE  StartInv'
<1>1. ASSUME NEW t \in TerminalId, NotOrdered(t)
      PROVE  NotOrdered(t)'
  BY <1>1 DEF NotOrdered, Fewer
<1>2. ASSUME NEW t \in TerminalId, OrderedOnce(t)
      PROVE  OrderedOnce(t)'
  <2>1. \A h \in Hosts : Once(down'[h], Orders(t))
    BY <1>2 DEF OrderedOnce, Fewer
  <2>2. \A m \in Machines : Once(loop'[m], ClientTasks("HandleCreateTerminal", t))
    BY <1>2 DEF OrderedOnce, Fewer
  <2>3. \A h \in Hosts, m \in Machines :
          ~(Has(down'[h], Orders(t)) /\ Has(loop'[m], ClientTasks("HandleCreateTerminal", t)))
    BY <1>2 DEF OrderedOnce, Fewer
  <2>4. \A m, n \in Machines :
          (/\ Has(loop'[m], ClientTasks("HandleCreateTerminal", t))
           /\ Has(loop'[n], ClientTasks("HandleCreateTerminal", t)))
              => m = n
    BY <1>2 DEF OrderedOnce, Fewer
  <2> QED BY <2>1, <2>2, <2>3, <2>4 DEF OrderedOnce
<1>3. ASSUME NEW m \in Machines
      PROVE  loop'[m] \in Seq(FitTask(m)')
  <2>1. FitTask(m) \subseteq FitTask(m)'
    BY DEF FitTask, Created
  <2> QED BY <2>1, SeqMonotone
<1>4. /\ started' \subseteq 1 .. Len(owner')
      /\ \A m \in Machines : shells'[m] \subseteq terminals'[m] /\ terminals'[m] \subseteq started'
      /\ \A m, n \in Machines : m # n => terminals'[m] \cap terminals'[n] = {}
  BY DEF StartInv
<1>5. \A t \in started' : NotOrdered(t)'
  BY <1>1 DEF StartInv
<1>6. \A t \in 1 .. Len(owner') : OrderedOnce(t)'
  BY <1>2 DEF StartInv
<1> QED BY <1>3, <1>4, <1>5, <1>6 DEF StartInv

\* What is sent to a host is appended to its queue, or lost.
LEMMA Sent ==
    ASSUME NEW S, down \in [Hosts -> Seq(S)], NEW h \in Hosts, NEW msg, SendDown(h, msg),
           NEW d \in Hosts
    PROVE  \/ down'[d] = down[d]
           \/ d = h /\ cliEnd[h] /\ down'[d] = Append(down[d], msg)
  BY DEF SendDown

LEMMA SentFewer ==
    ASSUME NEW S, down \in [Hosts -> Seq(S)], NEW h \in Hosts, NEW msg, SendDown(h, msg),
           NEW d \in Hosts, NEW A, msg \notin A
    PROVE  Fewer(down[d], down'[d], A)
<1>1. down[d] \in Seq(S)
  OBVIOUS
<1>2. Fewer(down[d], Append(down[d], msg), A)
  BY <1>1, FewerAppend
<1>3. Fewer(down[d], down[d], A)
  BY FewerSame
<1>4. down'[d] = down[d] \/ down'[d] = Append(down[d], msg)
  BY Sent
<1> QED BY <1>2, <1>3, <1>4

\* The server's threads leave the clients alone; only CreateNewTerminal orders.
LEMMA ServerStarts ==
    ASSUME Typed, StartInv, UNCHANGED <<owner, loop, terminals, shells, started>>,
           \A h \in Hosts, t \in TerminalId : Fewer(down[h], down'[h], Orders(t))
    PROVE  StartInv'
<1>1. \A m \in Machines, t \in TerminalId :
         Fewer(loop[m], loop'[m], ClientTasks("HandleCreateTerminal", t))
  BY FewerSame
<1>2. \A m \in Machines : loop'[m] \in Seq(FitTask(m)) /\ CreatingFirst(m)'
  BY DEF StartInv, CreatingFirst
<1>3. \A m \in Machines : shells'[m] \subseteq terminals'[m] /\ terminals'[m] \subseteq terminals[m]
  BY DEF StartInv
<1>4. 1 .. Len(owner) \subseteq TerminalId
  BY ServiceTypes
<1> QED BY <1>1, <1>2, <1>3, <1>4, StartFrame

\* A terminal is ordered under an id nobody has seen.
LEMMA CreateStarts ==
    ASSUME Routed, StartInv, CreateNewTerminal, TerminalOnly
    PROVE  StartInv'
<1>1. Typed /\ UNCHANGED <<loop, terminals, shells, started>>
  BY DEF Routed, TerminalOnly, tcVars
<1>2. /\ down \in [Hosts -> Seq(DownMsg)] /\ idCounter \in Nat
      /\ owner \in Seq([c : WebClients, h : Hosts]) /\ Len(owner) = idCounter
      /\ loop \in [Machines -> Seq(ClientTask)]
      /\ 1 .. Len(owner) \subseteq TerminalId
  BY <1>1, ServiceTypes DEF Routed
<1>3. CASE UNCHANGED <<down, owner>>
  BY <1>1, <1>3, FewerSame, ServerStarts
<1>4. CASE ~UNCHANGED <<down, owner>>
  <2>1. PICK new : new = idCounter + 1
    OBVIOUS
  <2>2. new = Len(owner) + 1 /\ new \in TerminalId /\ new \notin 1 .. Len(owner)
    BY <1>2, <2>1 DEF TerminalId
  <2>3. PICK msg : msg = [type |-> "CREATE_TERMINAL", t |-> new]
    OBVIOUS
  <2>4. PICK c, h : /\ owner' = Append(owner, [c |-> c, h |-> h])
                    /\ h \in Hosts
                    /\ SendDown(h, msg)
    <3>1. Head(tsLoop).h \in Hosts
      <4>1. tsLoop \in Seq(TerminalTask) /\ tsLoop # <<>>
        BY <1>1, ServiceTypes DEF CreateNewTerminal, TakeTS, Runs
      <4> QED BY <4>1, HeadAndTail, TerminalTaskFields
    <3> QED BY <1>4, <2>1, <2>3, <3>1 DEF CreateNewTerminal, NextId
  <2>5. Len(owner') = new /\ \A t \in 1 .. Len(owner) : t \in 1 .. Len(owner')
    BY <1>2, <2>2, <2>4
  <2>6. \A t : msg \in Orders(t) => t = new
    BY <2>3 DEF Orders
  <2>7. ASSUME NEW d \in Hosts PROVE ~Has(down[d], Orders(new))
    <3>1. ASSUME NEW i \in DOMAIN down[d], down[d][i] \in Orders(new)
          PROVE  FALSE
      <4>1. down[d] \in Seq(RoutedDownMsg(d)) /\ i \in 1 .. Len(down[d])
        BY <1>2 DEF Routed, RoutedDown
      <4>2. down[d][i] \in RoutedDownMsg(d)
        BY <4>1, Elements
      <4>3. Created(new)
        BY <3>1, <4>2 DEF RoutedDownMsg, Orders, RunsOn
      <4> QED BY <2>2, <4>3 DEF Created
    <3> QED BY <3>1 DEF Has
  <2>8. ASSUME NEW m \in Machines PROVE ~Has(loop[m], ClientTasks("HandleCreateTerminal", new))
    <3>1. ASSUME NEW i \in DOMAIN loop[m], loop[m][i] \in ClientTasks("HandleCreateTerminal", new)
          PROVE  FALSE
      <4>1. loop[m] \in Seq(FitTask(m)) /\ i \in 1 .. Len(loop[m])
        BY <1>2 DEF StartInv
      <4>2. loop[m][i] \in FitTask(m)
        BY <4>1, Elements
      <4> QED BY <2>2, <3>1, <4>2 DEF FitTask, ClientTasks, Created
    <3> QED BY <3>1 DEF Has
  <2>9. ASSUME NEW d \in Hosts, NEW t \in TerminalId, t # new
        PROVE  Fewer(down[d], down'[d], Orders(t))
    BY <1>2, <2>4, <2>6, <2>9, SentFewer
  <2>10. ASSUME NEW t \in started PROVE NotOrdered(t)'
    <3>1. t \in TerminalId /\ t # new /\ NotOrdered(t)
      BY <1>2, <2>2 DEF StartInv
    <3> QED BY <1>1, <2>9, <3>1 DEF NotOrdered, Fewer
  <2>11. ASSUME NEW t \in 1 .. Len(owner) PROVE OrderedOnce(t)'
    <3>1. t \in TerminalId /\ t # new /\ OrderedOnce(t)
      BY <1>2, <2>2 DEF StartInv
    <3> QED BY <1>1, <2>9, <3>1 DEF OrderedOnce, Fewer
  <2>12. OrderedOnce(new)'
    <3>1. ASSUME NEW d \in Hosts PROVE Once(down'[d], Orders(new))
      <4>1. Once(down[d], Orders(new)) /\ down[d] \in Seq(DownMsg)
        BY <1>2, <2>7 DEF Once, Has
      <4>2. Once(Append(down[d], msg), Orders(new))
        BY <2>7, <4>1, OnceAppend
      <4> QED BY <1>2, <2>4, <4>1, <4>2, Sent
    <3>2. \A m \in Machines : Once(loop[m], ClientTasks("HandleCreateTerminal", new))
      BY <2>8 DEF Once, Has
    <3> QED BY <1>1, <2>8, <3>1, <3>2 DEF OrderedOnce
  <2>13. \A m \in Machines : loop'[m] \in Seq(FitTask(m)') /\ CreatingFirst(m)'
    <3>1. \A m \in Machines : FitTask(m) \subseteq FitTask(m)'
      BY <1>1, <2>5 DEF FitTask, Created
    <3>2. \A m \in Machines : loop[m] \in Seq(FitTask(m)')
      BY <3>1, SeqMonotone DEF StartInv
    <3> QED BY <1>1, <3>2 DEF StartInv, CreatingFirst
  <2>14. \A t \in 1 .. Len(owner') : t \in 1 .. Len(owner) \/ t = new
    BY <1>2, <2>2, <2>4
  <2> QED BY <1>1, <2>5, <2>10, <2>11, <2>12, <2>13, <2>14 DEF StartInv
<1> QED BY <1>3, <1>4

\* The other messages of the server are not orders.
LEMMA ServerSideStarts ==
    ASSUME Routed, StartInv, Pages \/ WebAppLoop \/ TerminalLoop \/ ServerConnection
    PROVE  StartInv'
<1>1. Typed /\ down \in [Hosts -> Seq(DownMsg)] /\ tsLoop \in Seq(TerminalTask)
  BY ServiceTypes DEF Routed
<1>2. UNCHANGED <<loop, terminals, shells, started>>
  BY DEF Pages, WebAppLoop, TerminalLoop, ServerConnection, WebAppOnly, TerminalOnly, tcVars
<1>3. CASE CreateNewTerminal /\ TerminalOnly
  BY <1>3, CreateStarts
<1>4. ASSUME UNCHANGED owner, NEW h \in Hosts, NEW msg, \A t : msg \notin Orders(t),
             down' = down \/ SendDown(h, msg)
      PROVE  StartInv'
  <2>1. \A d \in Hosts, t \in TerminalId : Fewer(down[d], down'[d], Orders(t))
    BY <1>1, <1>4, FewerSame, SentFewer
  <2> QED BY <1>1, <1>2, <1>4, <2>1, ServerStarts
<1>5. ASSUME UNCHANGED <<owner, down>>
      PROVE  StartInv'
  BY <1>1, <1>2, <1>5, FewerSame, ServerStarts
<1>6. CASE Pages \/ WebAppLoop
  BY <1>5, <1>6 DEF Pages, WebAppLoop, WebAppOnly, tsVars, OnWsClientConnected,
     OnWsClientMessage, OnWsClientClosed, AddClient, RemoveClient, OnTerminalAddReq,
     OnTerminalResizeReq, OnTerminalDelReq, OnTerminalKeyEvent, OnRemoteHostInfoReceived,
     OnTerminalClientClosed, OnTerminalCreated, OnTerminalOutput, OnTerminalClosed
<1>7. ASSUME NEW fn, NEW type \in {"RESIZE_TERMINAL", "DELETE_TERMINAL", "ON_TERMINAL_WRITE"},
             Command(fn, type)
      PROVE  StartInv'
  <2>1. PICK msg : msg = [type |-> type, t |-> Head(tsLoop).t]
    OBVIOUS
  <2>2. \A t : msg \notin Orders(t)
    BY <2>1 DEF Orders
  <2>3. Head(tsLoop).h \in Hosts
    BY <1>1, <1>7, HeadAndTail, TerminalTaskFields DEF Command, TakeTS, Runs
  <2>4. UNCHANGED owner /\ (down' = down \/ SendDown(Head(tsLoop).h, msg))
    BY <1>7, <2>1 DEF Command, tsVars
  <2> QED BY <1>4, <2>2, <2>3, <2>4
<1>8. CASE TerminalLoop
  <2>1. CASE ResizeTerminal \/ DeleteTerminal \/ SendKeyEvent
    BY <1>7, <2>1 DEF ResizeTerminal, DeleteTerminal, SendKeyEvent
  <2>2. CASE OnClientClosed \/ HandleTerminalCreated \/ HandleTerminalRead \/ HandleTerminalEnd
    BY <1>5, <2>2 DEF OnClientClosed, HandleTerminalCreated, HandleTerminalRead,
       HandleTerminalEnd, Report, tsVars
  <2> QED BY <1>3, <1>8, <2>1, <2>2 DEF TerminalLoop
<1>9. CASE ServerConnection
  <2>1. PICK ack : ack = [type |-> "ON_TERMINAL_READ_ACK"]
    OBVIOUS
  <2>2. \A t : ack \notin Orders(t)
    BY <2>1 DEF Orders
  <2>3. ASSUME NEW h \in Hosts, ServerOnClientRead(h)
        PROVE  StartInv'
    <3>1. UNCHANGED owner /\ (down' = down \/ SendDown(h, ack))
      BY <2>1, <2>3 DEF ServerOnClientRead
    <3> QED BY <1>4, <2>2, <3>1
  <2>4. ASSUME NEW h \in Hosts, ServerOnClientClosed(h) \/ ServerOnClientUnresponsive(h)
        PROVE  StartInv'
    BY <1>5, <2>4 DEF ServerOnClientClosed, ServerOnClientUnresponsive, tsVars
  <2> QED BY <1>9, <2>3, <2>4 DEF ServerConnection
<1> QED BY <1>6, <1>8, <1>9

\* Tasks are posted to the loop of machine m.
LEMMA LoopExtended ==
    ASSUME Typed, StartInv, UNCHANGED terminals, NEW m \in Machines, NEW r \in Seq(FitTask(m)),
           \A i \in DOMAIN r : r[i].fn \notin {"HandleCreateTerminal", "SendCreated"},
           loop' = [loop EXCEPT ![m] = @ \o r],
           NEW n \in Machines
    PROVE  /\ \A t : Fewer(loop[n], loop'[n], ClientTasks("HandleCreateTerminal", t))
           /\ loop'[n] \in Seq(FitTask(n)) /\ CreatingFirst(n)'
<1>1. loop \in [Machines -> Seq(ClientTask)] /\ loop[n] \in Seq(FitTask(n)) /\ CreatingFirst(n)
  BY ServiceTypes DEF StartInv
<1>2. CASE n # m
  BY <1>1, <1>2, FewerSame DEF CreatingFirst
<1>3. CASE n = m
  <2>1. loop'[n] = loop[n] \o r
    BY <1>1, <1>3
  <2>2. loop[n] \o r \in Seq(FitTask(n))
    BY <1>1, <1>3
  <2>3. \A t : Fewer(loop[n], loop[n] \o r, ClientTasks("HandleCreateTerminal", t))
    <3>1. \A t : ~Has(r, ClientTasks("HandleCreateTerminal", t))
      BY DEF Has, ClientTasks
    <3> QED BY <1>1, <1>3, <3>1, FewerConcat
  <2>4. CreatingFirst(n)'
    <3>1. ASSUME NEW i \in DOMAIN (loop[n] \o r), (loop[n] \o r)[i].fn = "SendCreated"
          PROVE  i = 1 /\ (loop[n] \o r)[i].t \in terminals[n]
      <4>1. i \in DOMAIN loop[n] /\ (loop[n] \o r)[i] = loop[n][i]
        BY <1>1, <1>3, <3>1, Joined
      <4> QED BY <1>1, <3>1, <4>1 DEF CreatingFirst
    <3> QED BY <2>1, <3>1 DEF CreatingFirst
  <2> QED BY <2>1, <2>2, <2>3, <2>4
<1> QED BY <1>2, <1>3

\* The decisions that follow a change of the counter are tasks of one kind.
LEMMA OnlyReadControl ==
    ASSUME NEW counter \in Int, NEW i \in DOMAIN ReadControl(counter)
    PROVE  ReadControl(counter)[i].fn = "EnableReadFromTerminals"
<1>1. ASSUME NEW k PROVE DOMAIN <<k>> = {1} /\ <<k>>[1] = k
  OBVIOUS
<1>2. DOMAIN <<>> = {}
  OBVIOUS
<1>3. PICK k, l : /\ k = [fn |-> "EnableReadFromTerminals", enabled |-> FALSE]
                  /\ l = [fn |-> "EnableReadFromTerminals", enabled |-> TRUE]
  OBVIOUS
<1>4. ReadControl(counter) = <<k>> \/ ReadControl(counter) = <<l>> \/ ReadControl(counter) = <<>>
  BY <1>3 DEF ReadControl
<1>5. k.fn = "EnableReadFromTerminals" /\ l.fn = "EnableReadFromTerminals"
  BY <1>3
<1> QED BY <1>1, <1>2, <1>4, <1>5

\* The task the loop of machine m does is taken from it.
LEMMA LoopTaken ==
    ASSUME Typed, StartInv,
           NEW m \in Machines, loop[m] # <<>>,
           \A n \in Machines : n # m => terminals'[n] = terminals[n],
           loop' = [loop EXCEPT ![m] = Tail(@)],
           NEW n \in Machines
    PROVE  /\ \A t : Fewer(loop[n], loop'[n], ClientTasks("HandleCreateTerminal", t))
           /\ loop'[n] \in Seq(FitTask(n)) /\ CreatingFirst(n)'
<1>1. loop \in [Machines -> Seq(ClientTask)] /\ loop[n] \in Seq(FitTask(n)) /\ CreatingFirst(n)
  BY ServiceTypes DEF StartInv
<1>2. CASE n # m
  BY <1>1, <1>2, FewerSame DEF CreatingFirst
<1>3. CASE n = m
  <2>1. loop'[n] = Tail(loop[n])
    BY <1>1, <1>3
  <2>2. Tail(loop[n]) \in Seq(FitTask(n))
    BY <1>1, <1>3, HeadAndTail
  <2>3. \A t : Fewer(loop[n], Tail(loop[n]), ClientTasks("HandleCreateTerminal", t))
    BY <1>1, <1>3, FewerTail
  <2>4. ASSUME NEW i \in DOMAIN Tail(loop[n])
        PROVE  Tail(loop[n])[i].fn # "SendCreated"
    <3>1. i + 1 \in DOMAIN loop[n] /\ Tail(loop[n])[i] = loop[n][i + 1] /\ i + 1 # 1
      BY <1>1, <1>3, TaskTaken
    <3> QED BY <1>1, <3>1 DEF CreatingFirst
  <2>5. CreatingFirst(n)'
    BY <2>1, <2>4 DEF CreatingFirst
  <2> QED BY <2>1, <2>2, <2>3, <2>5
<1> QED BY <1>2, <1>3

\* The client takes an order from its connection: it is the only one.
LEMMA OrderTaken ==
    ASSUME Routed, StartInv, NEW m \in Machines, NEW t, ClientOnClientRead(m), ClientOnly,
           Head(down[client[m]]).type = "CREATE_TERMINAL", Head(down[client[m]]).t = t
    PROVE  StartInv'
<1>1. Typed /\ UNCHANGED <<owner, terminals, shells, started>>
  BY DEF Routed, ClientOnly, tsVars, ClientOnClientRead
<1>2. /\ down \in [Hosts -> Seq(DownMsg)] /\ loop \in [Machines -> Seq(ClientTask)]
      /\ 1 .. Len(owner) \subseteq TerminalId
  BY <1>1, ServiceTypes
<1>3. PICK h \in Hosts : h = client[m] /\ down[h] # <<>>
  BY DEF ClientOnClientRead, Connected
<1>4. PICK msg : msg = Head(down[h])
  OBVIOUS
<1>5. /\ down' = [down EXCEPT ![h] = Tail(@)]
      /\ msg.type = "CREATE_TERMINAL" /\ msg.t = t
  BY <1>3, <1>4 DEF ClientOnClientRead
<1>6. PICK k : k = [fn |-> "HandleCreateTerminal", t |-> t]
  OBVIOUS
<1>7. loop' = [loop EXCEPT ![m] = Append(@, k)]
  <2>1. msg.type # "ON_TERMINAL_READ_ACK" /\ HandlerOf(msg.type) = "HandleCreateTerminal"
    BY <1>5 DEF HandlerOf
  <2> QED BY <1>3, <1>4, <1>5, <1>6, <2>1 DEF ClientOnClientRead
<1>8. msg \in RoutedDownMsg(h) /\ down[h] \in Seq(RoutedDownMsg(h))
  BY <1>2, <1>3, <1>4, HeadAndTail DEF Routed, RoutedDown
<1>9. msg \in Orders(t) /\ RunsOn(t, h) /\ t \in TerminalId
  <2>1. msg \in DownMsg /\ RunsOn(t, h)
    BY <1>5, <1>8 DEF RoutedDownMsg
  <2> QED BY <1>2, <1>5, <2>1 DEF Orders, RunsOn, Created
<1>10. k \in ClientTask /\ \A u : k \in ClientTasks("HandleCreateTerminal", u) => u = t
  BY <1>6, <1>9, SentMessages DEF ClientTasks
<1>11. k \in FitTask(m)
  BY <1>6, <1>9, <1>10 DEF FitTask, RunsOn
<1>12. Has(down[h], Orders(t)) /\ OrderedOnce(t) /\ t \notin started
  <2>1. Has(down[h], Orders(t))
    BY <1>2, <1>3, <1>4, <1>9, HasTail
  <2> QED BY <1>9, <2>1 DEF StartInv, NotOrdered, RunsOn, Created
<1>13. ~Has(Tail(down[h]), Orders(t))
  BY <1>2, <1>3, <1>4, <1>9, <1>12, OnceTail DEF OrderedOnce
<1>14. ASSUME NEW d \in Hosts, d # h PROVE ~Has(down[d], Orders(t))
  <2>1. ASSUME NEW i \in DOMAIN down[d], down[d][i] \in Orders(t)
        PROVE  FALSE
    <3>1. down[d] \in Seq(RoutedDownMsg(d)) /\ i \in 1 .. Len(down[d])
      BY <1>2 DEF Routed, RoutedDown
    <3>2. down[d][i] \in RoutedDownMsg(d)
      BY <3>1, Elements
    <3> QED BY <1>9, <1>14, <2>1, <3>2 DEF RoutedDownMsg, Orders, RunsOn
  <2> QED BY <2>1 DEF Has
<1>15. ASSUME NEW d \in Hosts PROVE ~Has(down'[d], Orders(t))
  <2>1. CASE d = h
    BY <1>2, <1>5, <1>13, <2>1
  <2>2. CASE d # h
    BY <1>2, <1>5, <1>14, <2>2
  <2> QED BY <2>1, <2>2
<1>16. ASSUME NEW d \in Hosts, NEW u PROVE Fewer(down[d], down'[d], Orders(u))
  <2>1. CASE d = h
    <3>1. down'[d] = Tail(down[d]) /\ down[d] \in Seq(DownMsg) /\ down[d] # <<>>
      BY <1>2, <1>3, <1>5, <2>1
    <3> QED BY <3>1, FewerTail
  <2>2. CASE d # h
    BY <1>2, <1>5, <2>2, FewerSame
  <2> QED BY <2>1, <2>2
<1>17. ASSUME NEW n \in Machines PROVE ~Has(loop[n], ClientTasks("HandleCreateTerminal", t))
  BY <1>12 DEF OrderedOnce
<1>18. ASSUME NEW n \in Machines
       PROVE  loop'[n] = loop[n] \/ (n = m /\ loop'[n] = Append(loop[n], k))
  BY <1>2, <1>7
<1>19. ASSUME NEW n \in Machines, NEW u, u # t
       PROVE  Fewer(loop[n], loop'[n], ClientTasks("HandleCreateTerminal", u))
  <2>1. loop[n] \in Seq(ClientTask) /\ k \notin ClientTasks("HandleCreateTerminal", u)
    BY <1>2, <1>10, <1>19
  <2>2. Fewer(loop[n], Append(loop[n], k), ClientTasks("HandleCreateTerminal", u))
    BY <2>1, FewerAppend
  <2> QED BY <1>18, <2>2, FewerSame
<1>20. ASSUME NEW u \in started PROVE NotOrdered(u)'
  <2>1. u # t /\ NotOrdered(u)
    BY <1>12 DEF StartInv
  <2> QED BY <1>16, <1>19, <2>1 DEF NotOrdered, Fewer
<1>21. ASSUME NEW u \in 1 .. Len(owner), u # t PROVE OrderedOnce(u)'
  <2>1. OrderedOnce(u)
    BY DEF StartInv
  <2>2. \A d \in Hosts : Fewer(down[d], down'[d], Orders(u))
    BY <1>16
  <2>3. \A n \in Machines : Fewer(loop[n], loop'[n], ClientTasks("HandleCreateTerminal", u))
    BY <1>19, <1>21
  <2> QED BY <2>1, <2>2, <2>3 DEF OrderedOnce, Fewer
<1>22. OrderedOnce(t)'
  <2>1. \A d \in Hosts : Once(down'[d], Orders(t))
    BY <1>15 DEF Once, Has
  <2>2. ASSUME NEW n \in Machines PROVE Once(loop'[n], ClientTasks("HandleCreateTerminal", t))
    <3>1. Once(loop[n], ClientTasks("HandleCreateTerminal", t)) /\ loop[n] \in Seq(ClientTask)
      BY <1>2, <1>12 DEF OrderedOnce
    <3>2. Once(Append(loop[n], k), ClientTasks("HandleCreateTerminal", t))
      BY <1>17, <3>1, OnceAppend
    <3> QED BY <1>18, <3>1, <3>2
  <2>3. ASSUME NEW n \in Machines, n # m
        PROVE  ~Has(loop'[n], ClientTasks("HandleCreateTerminal", t))
    BY <1>17, <1>18, <2>3
  <2> QED BY <1>15, <2>1, <2>2, <2>3 DEF OrderedOnce
<1>23. ASSUME NEW n \in Machines PROVE loop'[n] \in Seq(FitTask(n)') /\ CreatingFirst(n)'
  <2>1. FitTask(n) \subseteq FitTask(n)' /\ loop[n] \in Seq(FitTask(n)) /\ CreatingFirst(n)
    BY <1>1 DEF FitTask, Created, StartInv
  <2>2. loop'[n] \in Seq(FitTask(n))
    BY <1>11, <1>18, <2>1, AppendType
  <2>3. CreatingFirst(n)'
    <3>1. CASE loop'[n] = loop[n]
      BY <1>1, <2>1, <3>1 DEF CreatingFirst
    <3>2. CASE loop'[n] = Append(loop[n], k)
      <4>1. ASSUME NEW i \in DOMAIN Append(loop[n], k), Append(loop[n], k)[i].fn = "SendCreated"
            PROVE  i \in DOMAIN loop[n] /\ Append(loop[n], k)[i] = loop[n][i]
        <5>1. k.fn # "SendCreated" /\ loop[n] \in Seq(ClientTask)
          BY <1>2, <1>6
        <5> QED BY <4>1, <5>1, TaskPosted
      <4> QED BY <1>1, <2>1, <3>2, <4>1 DEF CreatingFirst
    <3> QED BY <1>18, <3>1, <3>2
  <2> QED BY <2>1, <2>2, <2>3, SeqMonotone
<1>24. \A u \in 1 .. Len(owner) : OrderedOnce(u)'
  BY <1>21, <1>22
<1> QED BY <1>1, <1>20, <1>23, <1>24 DEF StartInv

\* What the connection's thread does otherwise orders nothing.
LEMMA ConnectionStarts ==
    ASSUME Routed, StartInv, ClientConnection
    PROVE  StartInv'
<1>1. Typed /\ UNCHANGED <<owner, terminals, shells, started>>
  BY DEF Routed, ClientConnection, ClientOnly, tsVars, ClientOnClientConnected,
     ClientOnClientRead, HandleDisconnected
<1>2. /\ down \in [Hosts -> Seq(DownMsg)] /\ loop \in [Machines -> Seq(ClientTask)]
      /\ 1 .. Len(owner) \subseteq TerminalId
      /\ \A n \in Machines : shells'[n] \subseteq terminals'[n] /\ terminals'[n] \subseteq terminals[n]
  BY <1>1, ServiceTypes DEF StartInv
<1>3. ASSUME NEW m \in Machines, NEW h \in Hosts, ClientOnClientConnected(m, h)
      PROVE  StartInv'
  <2>1. UNCHANGED <<loop, down>>
    BY <1>3 DEF ClientOnClientConnected
  <2> QED BY <1>1, <2>1, FewerSame, ServerStarts
<1>4. ASSUME NEW m \in Machines, NEW h \in Hosts, NEW r \in Seq(ClientTask),
             \A i \in DOMAIN r : r[i].fn \notin {"HandleCreateTerminal", "SendCreated", "OnTerminalEnd"},
             loop' = [loop EXCEPT ![m] = @ \o r],
             \/ down[h] # <<>> /\ down' = [down EXCEPT ![h] = Tail(@)]
             \/ down' = [down EXCEPT ![h] = <<>>]
      PROVE  StartInv'
  <2>1. r \in Seq(FitTask(m))
    <3>1. \A i \in DOMAIN r : r[i] \in FitTask(m)
      BY <1>4 DEF FitTask
    <3> QED BY <1>4, <3>1
  <2>2. \A n \in Machines :
           /\ \A t : Fewer(loop[n], loop'[n], ClientTasks("HandleCreateTerminal", t))
           /\ loop'[n] \in Seq(FitTask(n)) /\ CreatingFirst(n)'
    BY <1>1, <1>4, <2>1, LoopExtended
  <2>3. ASSUME NEW d \in Hosts, NEW t PROVE Fewer(down[d], down'[d], Orders(t))
    <3>1. CASE d = h /\ down[d] # <<>> /\ down'[d] = Tail(down[d])
      BY <1>2, <3>1, FewerTail
    <3>2. CASE down'[d] = <<>>
      BY <3>2, FewerNone
    <3>3. CASE d # h
      BY <1>2, <1>4, <3>3, FewerSame
    <3> QED BY <1>2, <1>4, <3>1, <3>2, <3>3
  <2> QED BY <1>1, <1>2, <2>2, <2>3, StartFrame
<1>5. ASSUME NEW m \in Machines, HandleDisconnected(m)
      PROVE  StartInv'
  <2>1. client[m] \in Hosts /\ down' = [down EXCEPT ![client[m]] = <<>>]
    BY <1>5 DEF HandleDisconnected, Connected
  <2>2. PICK k : k = [fn |-> "DeleteTerminals"] /\ k \in ClientTask
    BY SentMessages
  <2>3. loop' = [loop EXCEPT ![m] = @ \o <<k>>]
    <3>1. loop[m] \in Seq(ClientTask) /\ loop' = [loop EXCEPT ![m] = Append(@, k)]
      BY <1>2, <1>5, <2>2 DEF HandleDisconnected
    <3>2. Append(loop[m], k) = loop[m] \o <<k>>
      BY <2>2, <3>1
    <3> QED BY <3>1, <3>2
  <2>4. <<k>> \in Seq(ClientTask) /\ DOMAIN <<k>> = {1} /\ <<k>>[1] = k
    BY <2>2
  <2>5. PICK h \in Hosts : h = client[m] /\ down' = [down EXCEPT ![h] = <<>>]
    BY <2>1
  <2>6. k.fn = "DeleteTerminals"
    BY <2>2
  <2>7. \A i \in DOMAIN <<k>> :
           <<k>>[i].fn \notin {"HandleCreateTerminal", "SendCreated", "OnTerminalEnd"}
    BY <2>4, <2>6
  <2> QED BY <1>4, <2>3, <2>4, <2>5, <2>7
<1>6. ASSUME NEW m \in Machines, ClientOnClientRead(m), ClientOnly
      PROVE  StartInv'
  <2>1. PICK h \in Hosts : h = client[m] /\ down[h] # <<>>
    BY <1>6 DEF ClientOnClientRead, Connected
  <2>2. PICK msg \in DownMsg : msg = Head(down[h])
    <3>1. Head(down[h]) \in DownMsg
      BY <1>2, <2>1, HeadAndTail
    <3> QED BY <3>1
  <2>3. down' = [down EXCEPT ![h] = Tail(@)]
    BY <1>6, <2>1 DEF ClientOnClientRead
  <2>4. CASE msg.type = "ON_TERMINAL_READ_ACK"
    <3>1. PICK counter \in Int : counter = pending[m] - 1
      BY <1>1 DEF Typed, TypeOK, TerminalClientTypeOK
    <3>2. PICK r \in Seq(ClientTask) : r = ReadControl(counter)
      BY <3>1, ReadControlType
    <3>3. loop' = [loop EXCEPT ![m] = @ \o r]
      BY <1>6, <2>1, <2>2, <2>4, <3>1, <3>2 DEF ClientOnClientRead, ResolvePendingMsgUpdated
    <3>4. \A i \in DOMAIN r : r[i].fn = "EnableReadFromTerminals"
      BY <3>2, OnlyReadControl
    <3> QED BY <1>4, <2>1, <2>3, <3>3, <3>4
  <2>5. CASE msg.type = "CREATE_TERMINAL"
    BY <1>6, <2>1, <2>2, <2>5, OrderTaken
  <2>6. CASE msg.type \in {"DELETE_TERMINAL", "RESIZE_TERMINAL", "ON_TERMINAL_WRITE"}
    <3>1. PICK k : k = [fn |-> HandlerOf(msg.type), t |-> msg.t]
      OBVIOUS
    <3>2. HandlerOf(msg.type) \in {"HandleDeleteTerminal", "HandleResizeTerminal", "HandleTerminalWrite"}
      BY <2>6 DEF HandlerOf
    <3>3. k \in ClientTask /\ k.fn \notin {"HandleCreateTerminal", "SendCreated", "OnTerminalEnd"}
      BY <2>6, <3>1, <3>2, MessageFields, SentMessages
    <3>4. loop' = [loop EXCEPT ![m] = @ \o <<k>>]
      <4>1. loop[m] \in Seq(ClientTask) /\ loop' = [loop EXCEPT ![m] = Append(@, k)]
        BY <1>2, <1>6, <2>1, <2>2, <2>6, <3>1 DEF ClientOnClientRead
      <4>2. Append(loop[m], k) = loop[m] \o <<k>>
        BY <3>3, <4>1
      <4> QED BY <4>1, <4>2
    <3>5. <<k>> \in Seq(ClientTask) /\ DOMAIN <<k>> = {1} /\ <<k>>[1] = k
      BY <3>3
    <3> QED BY <1>4, <2>1, <2>3, <3>3, <3>4, <3>5
  <2> QED BY <2>4, <2>5, <2>6, MessageFields
<1> QED BY <1>3, <1>5, <1>6 DEF ClientConnection

\* The order is carried out: the terminal is new, and no order for it is left.
LEMMA HandleCreateStarts ==
    ASSUME Routed, StartInv, NEW m \in Machines, HandleCreateTerminal(m), ClientOnly
    PROVE  /\ StartInv'
           /\ Head(loop[m]).t \in 1 .. Len(owner) /\ Head(loop[m]).t \notin started
           /\ started' = started \cup {Head(loop[m]).t}
           /\ terminals' = [terminals EXCEPT ![m] = @ \cup {Head(loop[m]).t}]
           /\ UNCHANGED <<netVars, waVars, tsVars, client>>
           /\ \E ok \in BOOLEAN : loop' = [loop EXCEPT ![m] =
                 <<[fn |-> "SendCreated", t |-> Head(loop[m]).t, ok |-> ok]>> \o Tail(@)]
<1>1. Typed /\ UNCHANGED <<netVars, waVars, tsVars, client>>
  BY DEF Routed, ClientOnly, HandleCreateTerminal
<1>a. UNCHANGED <<owner, down>>
  BY <1>1 DEF netVars, tsVars
<1>2. /\ loop \in [Machines -> Seq(ClientTask)]
      /\ terminals \in [Machines -> SUBSET TerminalId]
      /\ shells \in [Machines -> SUBSET TerminalId]
      /\ 1 .. Len(owner) \subseteq TerminalId
  BY <1>1, ServiceTypes
<1>3. PICK t : t = Head(loop[m]).t
  OBVIOUS
<1>4. /\ loop[m] # <<>> /\ Head(loop[m]).fn = "HandleCreateTerminal"
      /\ loop[m] \in Seq(FitTask(m)) /\ loop[m] \in Seq(ClientTask)
  BY <1>2 DEF HandleCreateTerminal, Runs, StartInv
<1>5. Head(loop[m]) \in FitTask(m) /\ Tail(loop[m]) \in Seq(FitTask(m))
  BY <1>4, HeadAndTail
<1>6. Head(loop[m]) \in ClientTasks("HandleCreateTerminal", t) /\ t \in 1 .. Len(owner)
  BY <1>3, <1>4, <1>5 DEF FitTask, ClientTasks, Created
<1>7. Has(loop[m], ClientTasks("HandleCreateTerminal", t)) /\ OrderedOnce(t) /\ t \notin started
  <2>1. Has(loop[m], ClientTasks("HandleCreateTerminal", t))
    BY <1>4, <1>6, HasTail
  <2> QED BY <1>6, <2>1 DEF StartInv, NotOrdered
<1>8. \A n \in Machines : t \notin terminals[n] /\ t \notin shells[n]
  BY <1>7 DEF StartInv
<1>9. PICK ok \in BOOLEAN :
         /\ terminals' = [terminals EXCEPT ![m] = @ \cup {t}]
         /\ started' = started \cup {t}
         /\ shells' = IF ok THEN [shells EXCEPT ![m] = @ \cup {t}] ELSE shells
         /\ loop' = [loop EXCEPT ![m] = <<[fn |-> "SendCreated", t |-> t, ok |-> ok]>> \o Tail(@)]
  BY <1>3, <1>8 DEF HandleCreateTerminal
<1>10. PICK k \in ClientTask : k = [fn |-> "SendCreated", t |-> t, ok |-> ok]
  BY <1>2, <1>6, SentMessages
<1>11. k.fn = "SendCreated" /\ k.t = t
  BY <1>10
<1>12. PICK q \in Seq(ClientTask) : q = Tail(loop[m])
  BY <1>4, HeadAndTail
<1>13. loop'[m] = <<k>> \o q /\ \A n \in Machines : n # m => loop'[n] = loop[n]
  BY <1>2, <1>9, <1>10, <1>12
<1>14. ~Has(q, ClientTasks("HandleCreateTerminal", t))
  BY <1>4, <1>6, <1>7, <1>12, OnceTail DEF OrderedOnce
<1>15. ASSUME NEW u
       PROVE  Fewer(loop[m], loop'[m], ClientTasks("HandleCreateTerminal", u))
  <2> PICK A : A = ClientTasks("HandleCreateTerminal", u)
    OBVIOUS
  <2>1. k \notin A
    BY <1>11 DEF ClientTasks
  <2>2. Fewer(loop[m], q, A)
    BY <1>4, <1>12, FewerTail
  <2>3. <<k>> \in Seq(ClientTask) /\ DOMAIN <<k>> = {1} /\ <<k>>[1] = k /\ Len(<<k>>) = 1
    OBVIOUS
  <2>4. Has(<<k>> \o q, A) <=> Has(q, A)
    BY <2>1, <2>3, HasConcat, HasOne
  <2>5. ASSUME Once(q, A) PROVE Once(<<k>> \o q, A)
    <3>1. ASSUME NEW i \in DOMAIN (<<k>> \o q), (<<k>> \o q)[i] \in A
          PROVE  i - 1 \in DOMAIN q /\ q[i - 1] \in A /\ i \in Nat
      <4>1. i = 1 => (<<k>> \o q)[i] = k
        OBVIOUS
      <4>2. i # 1 => i - 1 \in DOMAIN q /\ (<<k>> \o q)[i] = q[i - 1]
        BY <2>3, Joined
      <4>3. i \in Nat
        OBVIOUS
      <4> QED BY <2>1, <3>1, <4>1, <4>2, <4>3
    <3>2. ASSUME NEW i \in DOMAIN (<<k>> \o q), NEW j \in DOMAIN (<<k>> \o q),
                 (<<k>> \o q)[i] \in A, (<<k>> \o q)[j] \in A
          PROVE  i = j
      <4>1. i - 1 = j - 1 /\ i \in Nat /\ j \in Nat
        BY <2>5, <3>1, <3>2 DEF Once
      <4> QED BY <4>1
    <3> QED BY <3>2 DEF Once
  <2>6. Fewer(loop[m], <<k>> \o q, A)
    BY <2>2, <2>4, <2>5 DEF Fewer
  <2> QED BY <1>13, <2>6
<1>16. ASSUME NEW n \in Machines, NEW u
       PROVE  Fewer(loop[n], loop'[n], ClientTasks("HandleCreateTerminal", u))
  BY <1>13, <1>15, FewerSame
<1>17. ASSUME NEW n \in Machines PROVE ~Has(loop'[n], ClientTasks("HandleCreateTerminal", t))
  <2>1. CASE n # m
    BY <1>7, <1>13, <2>1 DEF OrderedOnce
  <2>2. CASE n = m
    <3>1. k \notin ClientTasks("HandleCreateTerminal", t)
      BY <1>11 DEF ClientTasks
    <3>2. <<k>> \in Seq(ClientTask)
      OBVIOUS
    <3>3. ~Has(<<k>> \o q, ClientTasks("HandleCreateTerminal", t))
      BY <1>14, <3>1, <3>2, HasConcat, HasOne
    <3> QED BY <1>13, <2>2, <3>3
  <2> QED BY <2>1, <2>2
<1>18. ASSUME NEW u \in started' PROVE NotOrdered(u)'
  <2>1. CASE u = t
    <3>1. \A h \in Hosts : ~Has(down[h], Orders(t))
      BY <1>7 DEF OrderedOnce
    <3> QED BY <1>a, <1>17, <2>1, <3>1 DEF NotOrdered
  <2>2. CASE u \in started
    BY <1>a, <1>16, <2>2 DEF StartInv, NotOrdered, Fewer
  <2> QED BY <1>9, <2>1, <2>2
<1>19. ASSUME NEW u \in 1 .. Len(owner) PROVE OrderedOnce(u)'
  <2>1. OrderedOnce(u)
    BY DEF StartInv
  <2>2. \A n \in Machines : Fewer(loop[n], loop'[n], ClientTasks("HandleCreateTerminal", u))
    BY <1>16
  <2> QED BY <1>a, <2>1, <2>2 DEF OrderedOnce, Fewer
<1>20. ASSUME NEW n \in Machines PROVE loop'[n] \in Seq(FitTask(n)') /\ CreatingFirst(n)'
  <2>1. FitTask(n) \subseteq FitTask(n)'
    <3>1. ASSUME NEW e \in FitTask(n) PROVE e \in FitTask(n)'
      <4>1. Created(e.t)' <=> Created(e.t)
        BY <1>a DEF Created
      <4>2. ASSUME e.t \in started, NEW p \in Machines, e.t \notin terminals[p]
            PROVE  e.t \notin terminals'[p]
        BY <1>2, <1>7, <1>9, <4>2
      <4>3. e \in ClientTask /\ (e.fn = "HandleCreateTerminal" => Created(e.t))
        BY DEF FitTask
      <4>4. e.fn = "OnTerminalEnd" =>
              e.t \in started' /\ \A p \in Machines : p # n => e.t \notin terminals'[p]
        BY <1>9, <4>2 DEF FitTask
      <4> QED BY <4>1, <4>3, <4>4 DEF FitTask
    <3> QED BY <3>1
  <2>2. CASE n # m
    <3>1. loop'[n] = loop[n] /\ loop[n] \in Seq(FitTask(n)) /\ CreatingFirst(n) /\ terminals'[n] = terminals[n]
      BY <1>2, <1>9, <1>13, <2>2 DEF StartInv
    <3> QED BY <2>1, <3>1, SeqMonotone DEF CreatingFirst
  <2>3. CASE n = m
    <3>1. k \in FitTask(n)' /\ q \in Seq(FitTask(n)')
      <4>1. k \in FitTask(n)'
        BY <1>10, <1>11 DEF FitTask
      <4>2. q \in Seq(FitTask(n))
        BY <1>5, <1>12, <2>3
      <4> QED BY <2>1, <4>1, <4>2, SeqMonotone
    <3>2. <<k>> \o q \in Seq(FitTask(n)')
      <4>1. PICK T : T = FitTask(n)'
        OBVIOUS
      <4>2. <<k>> \in Seq(T) /\ q \in Seq(T)
        BY <3>1, <4>1
      <4>3. <<k>> \o q \in Seq(T)
        BY <4>2
      <4> QED BY <4>1, <4>3
    <3>3. CreatingFirst(n)'
      <4>1. ASSUME NEW i \in DOMAIN (<<k>> \o q), (<<k>> \o q)[i].fn = "SendCreated"
            PROVE  i = 1 /\ (<<k>> \o q)[i].t \in terminals'[m]
        <5>1. <<k>> \in Seq(ClientTask) /\ DOMAIN <<k>> = {1} /\ <<k>>[1] = k /\ Len(<<k>>) = 1
          OBVIOUS
        <5>2. i = 1 => (<<k>> \o q)[i] = k
          OBVIOUS
        <5>3. i # 1 => i - 1 \in DOMAIN q /\ (<<k>> \o q)[i] = q[i - 1]
          BY <5>1, Joined
        <5>4. \A j \in DOMAIN q : q[j].fn # "SendCreated"
          <6>1. \A j \in DOMAIN q : j + 1 \in DOMAIN loop[m] /\ q[j] = loop[m][j + 1] /\ j + 1 # 1
            BY <1>4, <1>12, TaskTaken
          <6> QED BY <6>1 DEF StartInv, CreatingFirst
        <5>5. t \in terminals'[m]
          BY <1>2, <1>9
        <5> QED BY <1>11, <4>1, <5>2, <5>3, <5>4, <5>5
      <4> QED BY <1>13, <2>3, <4>1 DEF CreatingFirst
    <3> QED BY <1>13, <2>3, <3>2, <3>3
  <2> QED BY <2>2, <2>3
<1>21. ASSUME NEW n \in Machines
       PROVE  shells'[n] \subseteq terminals'[n] /\ terminals'[n] \subseteq started'
  <2>1. shells[n] \subseteq terminals[n] /\ terminals[n] \subseteq started
    BY DEF StartInv
  <2>2. shells'[n] = shells[n] \/ (n = m /\ shells'[n] = shells[n] \cup {t})
    BY <1>2, <1>9
  <2>3. (n = m /\ terminals'[n] = terminals[n] \cup {t}) \/ (n # m /\ terminals'[n] = terminals[n])
    BY <1>2, <1>9
  <2> QED BY <1>9, <2>1, <2>2, <2>3
<1>22. \A n, p \in Machines : n # p => terminals'[n] \cap terminals'[p] = {}
  <2>1. \A n \in Machines : terminals'[n] = terminals[n] \/ (n = m /\ terminals'[n] = terminals[n] \cup {t})
    BY <1>2, <1>9
  <2> QED BY <1>8, <2>1 DEF StartInv
<1>23. started' \subseteq 1 .. Len(owner')
  BY <1>a, <1>6, <1>9 DEF StartInv
<1>24. \A u \in 1 .. Len(owner') : OrderedOnce(u)'
  BY <1>a, <1>19
<1>25. StartInv'
  BY <1>18, <1>20, <1>21, <1>22, <1>23, <1>24 DEF StartInv
<1> QED BY <1>1, <1>3, <1>6, <1>7, <1>9, <1>25

\* The other tasks start nothing, and remove terminals of their own machine only.
LEMMA LoopStarts ==
    ASSUME Routed, StartInv, NEW m \in Machines, ClientLoop(m)
    PROVE  StartInv'
<1>1. CASE HandleCreateTerminal(m) /\ ClientOnly
  BY <1>1, HandleCreateStarts
<1>2. Typed
  BY DEF Routed
<1>3. /\ down \in [Hosts -> Seq(DownMsg)] /\ loop \in [Machines -> Seq(ClientTask)]
      /\ terminals \in [Machines -> SUBSET TerminalId]
      /\ shells \in [Machines -> SUBSET TerminalId]
      /\ 1 .. Len(owner) \subseteq TerminalId
  BY <1>2, ServiceTypes
<1>4. ASSUME UNCHANGED <<owner, started>>, loop[m] # <<>>, loop' = [loop EXCEPT ![m] = Tail(@)],
             \E ts : /\ terminals' = [terminals EXCEPT ![m] = @ \ ts]
                     /\ shells' = [shells EXCEPT ![m] = @ \ ts],
             \A h \in Hosts : down'[h] = down[h] \/ down'[h] = <<>>
      PROVE  StartInv'
  <2>1. PICK ts : /\ terminals' = [terminals EXCEPT ![m] = @ \ ts]
                  /\ shells' = [shells EXCEPT ![m] = @ \ ts]
    BY <1>4
  <2>2. \A n \in Machines : shells'[n] \subseteq terminals'[n] /\ terminals'[n] \subseteq terminals[n]
    BY <1>3, <2>1 DEF StartInv
  <2>3. \A n \in Machines : n # m => terminals'[n] = terminals[n]
    BY <1>3, <2>1
  <2>4. \A n \in Machines :
           /\ \A t : Fewer(loop[n], loop'[n], ClientTasks("HandleCreateTerminal", t))
           /\ loop'[n] \in Seq(FitTask(n)) /\ CreatingFirst(n)'
    BY <1>2, <1>4, <2>3, LoopTaken
  <2>5. \A h \in Hosts, t \in TerminalId : Fewer(down[h], down'[h], Orders(t))
    BY <1>4, FewerSame, FewerNone
  <2> QED BY <1>3, <1>4, <2>2, <2>4, <2>5, StartFrame
<1>5. CASE /\ \/ SendCreated(m) \/ HandleDeleteTerminal(m) \/ HandleResizeTerminal(m)
              \/ HandleTerminalWrite(m) \/ DeleteTerminals(m) \/ EnableReadFromTerminals(m)
              \/ OnTerminalEnd(m)
           /\ ClientOnly
  <2>1. UNCHANGED <<owner, started>> /\ loop[m] # <<>> /\ loop' = [loop EXCEPT ![m] = Tail(@)]
    BY <1>5 DEF ClientOnly, tsVars, SendCreated, HandleDeleteTerminal, HandleResizeTerminal,
       HandleTerminalWrite, DeleteTerminals, EnableReadFromTerminals, OnTerminalEnd, Take, Runs
  <2>2. \A h \in Hosts : down'[h] = down[h] \/ down'[h] = <<>>
    BY <1>3, <1>5 DEF SendCreated, HandleDeleteTerminal, HandleResizeTerminal,
       HandleTerminalWrite, DeleteTerminals, EnableReadFromTerminals, OnTerminalEnd, netVars
  <2>3. \E ts : /\ terminals' = [terminals EXCEPT ![m] = @ \ ts]
                /\ shells' = [shells EXCEPT ![m] = @ \ ts]
    <3>1. CASE UNCHANGED <<terminals, shells>>
      <4>1. /\ terminals' = [terminals EXCEPT ![m] = @ \ {}]
            /\ shells' = [shells EXCEPT ![m] = @ \ {}]
        BY <1>3, <3>1
      <4> QED BY <4>1
    <3>2. CASE \E ts : Remove(m, ts)
      BY <3>2 DEF Remove
    <3>3. CASE DeleteTerminals(m)
      BY <3>1, <3>2, <3>3 DEF DeleteTerminals
    <3>4. CASE HandleDeleteTerminal(m) \/ OnTerminalEnd(m)
      BY <3>2, <3>4 DEF HandleDeleteTerminal, OnTerminalEnd
    <3>5. CASE \/ SendCreated(m) \/ HandleResizeTerminal(m)
               \/ HandleTerminalWrite(m) \/ EnableReadFromTerminals(m)
      BY <3>1, <3>5 DEF SendCreated, HandleResizeTerminal, HandleTerminalWrite,
         EnableReadFromTerminals
    <3> QED BY <1>5, <3>3, <3>4, <3>5
  <2> QED BY <1>4, <2>1, <2>2, <2>3
<1> QED BY <1>1, <1>5 DEF ClientLoop

\* A shell that ends reports a terminal of its machine.
LEMMA ShellsStarts ==
    ASSUME Routed, StartInv, Shells
    PROVE  StartInv'
<1>1. Typed /\ UNCHANGED <<owner, started, terminals, down>>
  BY DEF Routed, Shells, ClientOnly, tsVars, OnTerminalRead, ShellExit, netVars
<1>2. /\ loop \in [Machines -> Seq(ClientTask)]
      /\ shells \in [Machines -> SUBSET TerminalId]
      /\ 1 .. Len(owner) \subseteq TerminalId
  BY <1>1, ServiceTypes
<1>3. ASSUME NEW m \in Machines, NEW r \in Seq(FitTask(m)),
             \A i \in DOMAIN r : r[i].fn \notin {"HandleCreateTerminal", "SendCreated"},
             loop' = [loop EXCEPT ![m] = @ \o r],
             \A n \in Machines : shells'[n] \subseteq shells[n]
      PROVE  StartInv'
  <2>1. \A n \in Machines : shells'[n] \subseteq terminals'[n] /\ terminals'[n] \subseteq terminals[n]
    BY <1>1, <1>3 DEF StartInv
  <2>2. \A n \in Machines :
           /\ \A t : Fewer(loop[n], loop'[n], ClientTasks("HandleCreateTerminal", t))
           /\ loop'[n] \in Seq(FitTask(n)) /\ CreatingFirst(n)'
    BY <1>1, <1>3, LoopExtended
  <2>3. \A h \in Hosts, t \in TerminalId : Fewer(down[h], down'[h], Orders(t))
    BY <1>1, FewerSame
  <2> QED BY <1>1, <1>2, <2>1, <2>2, <2>3, StartFrame
<1>4. ASSUME NEW m \in Machines, NEW t, OnTerminalRead(m, t)
      PROVE  StartInv'
  <2>1. PICK counter \in Int : counter = pending[m] + 1
    BY <1>1 DEF Typed, TypeOK, TerminalClientTypeOK
  <2>2. PICK r \in Seq(ClientTask) : r = ReadControl(counter)
    BY <2>1, ReadControlType
  <2>3. loop' = [loop EXCEPT ![m] = @ \o r] /\ shells' = shells
    BY <1>4, <2>1, <2>2 DEF OnTerminalRead, ResolvePendingMsgUpdated
  <2>4. \A i \in DOMAIN r : r[i].fn = "EnableReadFromTerminals"
    BY <2>2, OnlyReadControl
  <2>5. r \in Seq(FitTask(m))
    <3>1. \A i \in DOMAIN r : r[i] \in FitTask(m)
      BY <2>4 DEF FitTask
    <3> QED BY <3>1
  <2> QED BY <1>3, <2>3, <2>4, <2>5
<1>5. ASSUME NEW m \in Machines, NEW t, ShellExit(m, t)
      PROVE  StartInv'
  <2>1. t \in shells[m] /\ t \in terminals[m] /\ t \in started /\ t \in TerminalId
    BY <1>2, <1>5 DEF ShellExit, StartInv
  <2>2. PICK k \in ClientTask : k = [fn |-> "OnTerminalEnd", t |-> t]
    BY <2>1, SentMessages
  <2>3. k.fn = "OnTerminalEnd" /\ k.t = t
    BY <2>2
  <2>4. k \in FitTask(m)
    BY <2>1, <2>3 DEF FitTask, StartInv
  <2>5. <<k>> \in Seq(FitTask(m)) /\ DOMAIN <<k>> = {1} /\ <<k>>[1] = k
    BY <2>4
  <2>6. loop' = [loop EXCEPT ![m] = @ \o <<k>>]
    <3>1. loop[m] \in Seq(ClientTask) /\ loop' = [loop EXCEPT ![m] = Append(@, k)]
      BY <1>2, <1>5, <2>2 DEF ShellExit
    <3>2. Append(loop[m], k) = loop[m] \o <<k>>
      BY <3>1
    <3> QED BY <3>1, <3>2
  <2>7. \A n \in Machines : shells'[n] \subseteq shells[n]
    BY <1>2, <1>5 DEF ShellExit
  <2>8. \A i \in DOMAIN <<k>> : <<k>>[i].fn \notin {"HandleCreateTerminal", "SendCreated"}
    BY <2>3, <2>5
  <2> QED BY <1>3, <2>5, <2>6, <2>7, <2>8
<1> QED BY <1>4, <1>5 DEF Shells

LEMMA NextStarts == ASSUME Routed, StartInv, [Next]_vars PROVE StartInv'
<1>1. CASE UNCHANGED vars
  <2>1. /\ Typed /\ UNCHANGED <<owner, loop, terminals, shells, started, down>>
    BY <1>1 DEF Routed, vars, netVars, tsVars, tcVars
  <2> QED BY <2>1, FewerSame, ServerStarts
<1> QED
  BY <1>1, ServerSideStarts, ConnectionStarts, LoopStarts, ShellsStarts DEF Next

LEMMA InitStarts == ASSUME Init PROVE StartInv
<1>1. DOMAIN <<>> = {} /\ Len(<<>>) = 0
  OBVIOUS
<1>2. /\ started = {} /\ owner = <<>>
      /\ \A m \in Machines : shells[m] = {} /\ terminals[m] = {} /\ loop[m] = <<>>
      /\ \A h \in Hosts : down[h] = <<>>
  BY DEF Init, NetworkInit, TerminalServerInit, TerminalClientInit
<1>3. ASSUME NEW m \in Machines PROVE loop[m] \in Seq(FitTask(m)) /\ CreatingFirst(m)
  <2>1. loop[m] = <<>> /\ DOMAIN loop[m] = {}
    BY <1>1, <1>2
  <2>2. loop[m] \in Seq(FitTask(m))
    BY <2>1
  <2> QED BY <2>1, <2>2 DEF CreatingFirst
<1>4. 1 .. Len(owner) = {}
  BY <1>1, <1>2
<1> QED BY <1>2, <1>3, <1>4 DEF StartInv
-----------------------------------------------------------------------------
(***************************************************************************)
(* Reports.  What was started, and what has ended, stays so.               *)
(***************************************************************************)
\* Terminals are only added by HandleCreateTerminal, and removed one machine at
\* a time.
LEMMA RunningSteps ==
    ASSUME Routed, StartInv, [Next]_vars
    PROVE  \/ UNCHANGED <<terminals, started>>
           \/ \E m \in Machines : \E ts :
                 /\ terminals' = [terminals EXCEPT ![m] = @ \ ts]
                 /\ started' = started
           \/ \E m \in Machines : \E t :
                 /\ t \notin started
                 /\ terminals' = [terminals EXCEPT ![m] = @ \cup {t}]
                 /\ started' = started \cup {t}
<1>1. CASE UNCHANGED vars
  BY <1>1 DEF vars, tcVars
<1>2. CASE Pages \/ WebAppLoop \/ TerminalLoop \/ ServerConnection \/ ClientConnection \/ Shells
  BY <1>2 DEF Pages, WebAppLoop, TerminalLoop, ServerConnection, WebAppOnly, TerminalOnly,
     tcVars, ClientConnection, Shells, ClientOnClientConnected, ClientOnClientRead,
     HandleDisconnected, OnTerminalRead, ShellExit
<1>3. ASSUME NEW m \in Machines, ClientLoop(m)
      PROVE  \/ UNCHANGED <<terminals, started>>
             \/ \E ts : /\ terminals' = [terminals EXCEPT ![m] = @ \ ts]
                        /\ started' = started
             \/ \E t : /\ t \notin started
                       /\ terminals' = [terminals EXCEPT ![m] = @ \cup {t}]
                       /\ started' = started \cup {t}
  <2>1. CASE HandleCreateTerminal(m) /\ ClientOnly
    BY <2>1, HandleCreateStarts
  <2>2. CASE HandleDeleteTerminal(m) \/ DeleteTerminals(m) \/ OnTerminalEnd(m)
    BY <2>2 DEF HandleDeleteTerminal, DeleteTerminals, OnTerminalEnd, Remove
  <2>3. CASE \/ SendCreated(m) \/ HandleResizeTerminal(m)
             \/ HandleTerminalWrite(m) \/ EnableReadFromTerminals(m)
    BY <2>3 DEF SendCreated, HandleResizeTerminal, HandleTerminalWrite, EnableReadFromTerminals
  <2> QED BY <1>3, <2>1, <2>2, <2>3 DEF ClientLoop
<1> QED BY <1>1, <1>2, <1>3 DEF Next

LEMMA EndedGrows ==
    ASSUME Routed, StartInv, [Next]_vars
    PROVE  started \subseteq started' /\ Ended \subseteq Ended'
<1>1. terminals \in [Machines -> SUBSET TerminalId]
  BY ServiceTypes DEF Routed
<1>2. CASE UNCHANGED <<terminals, started>>
  BY <1>2 DEF Ended, Running
<1>3. ASSUME NEW m \in Machines, NEW ts, terminals' = [terminals EXCEPT ![m] = @ \ ts],
             started' = started
      PROVE  started \subseteq started' /\ Ended \subseteq Ended'
  <2>1. \A n \in Machines : terminals'[n] \subseteq terminals[n]
    BY <1>1, <1>3
  <2> QED BY <1>3, <2>1 DEF Ended, Running
<1>4. ASSUME NEW m \in Machines, NEW t, t \notin started,
             terminals' = [terminals EXCEPT ![m] = @ \cup {t}], started' = started \cup {t}
      PROVE  started \subseteq started' /\ Ended \subseteq Ended'
  <2>1. \A n \in Machines : terminals'[n] \subseteq terminals[n] \cup {t}
    BY <1>1, <1>4
  <2> QED BY <1>4, <2>1 DEF Ended, Running
<1> QED BY <1>2, <1>3, <1>4, RunningSteps

LEMMA TrueGrows ==
    ASSUME started \subseteq started', Ended \subseteq Ended'
    PROVE  /\ TrueUpMsg \subseteq TrueUpMsg' /\ TrueTerminalTask \subseteq TrueTerminalTask'
           /\ TrueWebAppTask \subseteq TrueWebAppTask'
  BY DEF TrueUpMsg, TrueTerminalTask, TrueWebAppTask

\* Queues that are left alone, or to which only such reports are posted.
LEMMA ReportFrame ==
    ASSUME ReportInv, started \subseteq started', Ended \subseteq Ended',
           \A h \in Hosts : up'[h] \in Seq(TrueUpMsg) \/ up'[h] \in Seq(TrueUpMsg'),
           tsLoop' \in Seq(TrueTerminalTask),
           waLoop' \in Seq(TrueWebAppTask)
    PROVE  ReportInv'
  BY TrueGrows, SeqMonotone DEF ReportInv

\* What the pages post: one request of one page.
LEMMA PagesPost ==
    ASSUME Typed, Pages
    PROVE  /\ UNCHANGED <<tsLoop, srvEnd, cliEnd, up, down, sessions, told, late, tsVars, tcVars>>
           /\ \E k \in WebAppTask :
                 /\ waLoop' = Append(waLoop, k)
                 /\ k.fn \in {"AddClient", "RemoveClient", "OnTerminalAddReq",
                              "OnTerminalResizeReq", "OnTerminalDelReq", "OnTerminalKeyEvent"}
                 /\ k.c \in WebClients
                 /\ IF k.fn = "AddClient" THEN ws[k.c] = "new" ELSE ws[k.c] = "open"
                 /\ ws'[k.c] # "new"
                 /\ \A c \in WebClients : c # k.c => ws'[c] = ws[c]
<1>1. ws \in [WebClients -> {"new", "open", "closed"}]
  BY DEF Typed, TypeOK, WebAppServerTypeOK
<1>2. UNCHANGED <<tsLoop, srvEnd, cliEnd, up, down, sessions, told, late, tsVars, tcVars>>
  BY DEF Pages, OnWsClientConnected, OnWsClientMessage, OnWsClientClosed, WebAppOnly
<1> DEFINE Posted(k) ==
       /\ waLoop' = Append(waLoop, k)
       /\ k.fn \in {"AddClient", "RemoveClient", "OnTerminalAddReq",
                    "OnTerminalResizeReq", "OnTerminalDelReq", "OnTerminalKeyEvent"}
       /\ k.c \in WebClients
       /\ IF k.fn = "AddClient" THEN ws[k.c] = "new" ELSE ws[k.c] = "open"
       /\ ws'[k.c] # "new"
       /\ \A c \in WebClients : c # k.c => ws'[c] = ws[c]
<1>3. ASSUME NEW c \in WebClients, OnWsClientConnected(c)
      PROVE  \E k \in WebAppTask : Posted(k)
  <2>1. PICK k \in WebAppTask : k = [fn |-> "AddClient", c |-> c]
    BY PostedTasks
  <2>2. k.fn = "AddClient" /\ k.c = c /\ waLoop' = Append(waLoop, k)
    BY <1>3, <2>1 DEF OnWsClientConnected, PostWA
  <2>3. ws[c] = "new" /\ ws'[c] # "new" /\ \A d \in WebClients : d # c => ws'[d] = ws[d]
    BY <1>1, <1>3 DEF OnWsClientConnected
  <2> QED BY <2>2, <2>3
<1>4. ASSUME NEW c \in WebClients, OnWsClientClosed(c)
      PROVE  \E k \in WebAppTask : Posted(k)
  <2>1. PICK k \in WebAppTask : k = [fn |-> "RemoveClient", c |-> c]
    BY PostedTasks
  <2>2. k.fn = "RemoveClient" /\ k.c = c /\ waLoop' = Append(waLoop, k)
    BY <1>4, <2>1 DEF OnWsClientClosed, PostWA
  <2>3. ws[c] = "open" /\ ws'[c] # "new" /\ \A d \in WebClients : d # c => ws'[d] = ws[d]
    BY <1>1, <1>4 DEF OnWsClientClosed
  <2> QED BY <2>2, <2>3
<1>5. ASSUME NEW c \in WebClients, OnWsClientMessage(c)
      PROVE  \E k \in WebAppTask : Posted(k)
  <2>1. PICK k \in PageMessage(c) : waLoop' = Append(waLoop, k)
    BY <1>5 DEF OnWsClientMessage, PostWA
  <2>2. KnownTerminals \subseteq TerminalId /\ told[c].seen \subseteq Hosts
    BY DEF Typed, TypeOK, WebAppServerTypeOK, ToldType, KnownTerminals
  <2>3. /\ k \in WebAppTask /\ k.c = c
        /\ k.fn \in {"OnTerminalAddReq", "OnTerminalResizeReq", "OnTerminalDelReq",
                     "OnTerminalKeyEvent"}
    BY <2>2 DEF PageMessage, WebAppTask
  <2>4. ws[c] = "open" /\ ws'[c] # "new" /\ \A d \in WebClients : d # c => ws'[d] = ws[d]
    BY <1>5 DEF OnWsClientMessage
  <2> QED BY <2>1, <2>3, <2>4
<1> QED BY <1>2, <1>3, <1>4, <1>5 DEF Pages

\* What TerminalServer's loop takes, and what it reports.
Reported(k) ==
    LET h == Head(tsLoop).h
        t == Head(tsLoop).t
    IN  \/ /\ Head(tsLoop).fn = "OnClientClosed"
           /\ k = [fn |-> "OnTerminalClientClosed", h |-> h]
        \/ /\ HasAppClient(h, t)
           /\ \/ /\ Head(tsLoop).fn = "HandleTerminalCreated"
                 /\ k = [fn |-> "OnTerminalCreated", c |-> remoteHosts[h][t], t |-> t,
                         h |-> h, ok |-> Head(tsLoop).ok]
              \/ /\ Head(tsLoop).fn = "HandleTerminalRead"
                 /\ k = [fn |-> "OnTerminalOutput", c |-> remoteHosts[h][t], t |-> t]
              \/ /\ Head(tsLoop).fn = "HandleTerminalEnd"
                 /\ k = [fn |-> "OnTerminalClosed", c |-> remoteHosts[h][t], t |-> t, h |-> h]

LEMMA TerminalLoopSteps ==
    ASSUME Typed, TerminalLoop
    PROVE  /\ tsLoop # <<>> /\ tsLoop' = Tail(tsLoop)
           /\ Head(tsLoop) \in TerminalTask /\ Head(tsLoop).h \in Hosts
           /\ UNCHANGED <<srvEnd, cliEnd, up, waVars, tcVars>>
           /\ waLoop' = waLoop \/ \E k \in WebAppTask : waLoop' = Append(waLoop, k) /\ Reported(k)
<1>1. /\ tsLoop # <<>> /\ tsLoop' = Tail(tsLoop) /\ tsLoop \in Seq(TerminalTask)
      /\ UNCHANGED <<srvEnd, cliEnd, up, waVars, tcVars>>
  BY ServiceTypes DEF TerminalLoop, TerminalOnly, CreateNewTerminal, ResizeTerminal,
     DeleteTerminal, SendKeyEvent, Command, OnClientClosed, HandleTerminalCreated,
     HandleTerminalRead, HandleTerminalEnd, Report, TakeTS, Runs
<1>2. Head(tsLoop) \in TerminalTask /\ Head(tsLoop).h \in Hosts
  BY <1>1, HeadAndTail, TerminalTaskFields
<1>t. PICK t : t = Head(tsLoop).t
  OBVIOUS
<1>3. PICK h \in Hosts : h = Head(tsLoop).h /\ t = Head(tsLoop).t
  BY <1>2, <1>t
<1>4. HasAppClient(h, t) => remoteHosts[h][t] \in WebClients /\ t \in TerminalId
  BY DEF HasAppClient, Typed, TypeOK, TerminalServerTypeOK
<1>5. CASE CreateNewTerminal \/ ResizeTerminal \/ DeleteTerminal \/ SendKeyEvent
  BY <1>1, <1>2, <1>5 DEF CreateNewTerminal, ResizeTerminal, DeleteTerminal, SendKeyEvent, Command
<1>6. CASE OnClientClosed
  <2>1. PICK k : k = [fn |-> "OnTerminalClientClosed", h |-> h]
    OBVIOUS
  <2>2. k \in WebAppTask
    BY <2>1, PostedTasks
  <2>3. waLoop' = Append(waLoop, k) /\ Reported(k)
    BY <1>3, <1>6, <2>1 DEF OnClientClosed, TakeTS, Runs, Reported
  <2> QED BY <1>1, <1>2, <2>2, <2>3
<1>7. CASE HandleTerminalCreated
  <2>1. CASE ~HasAppClient(h, t)
    BY <1>1, <1>2, <1>3, <1>7, <2>1 DEF HandleTerminalCreated, Report
  <2>2. CASE HasAppClient(h, t)
    <3>1. Head(tsLoop).fn = "HandleTerminalCreated"
      BY <1>7 DEF HandleTerminalCreated, Report, TakeTS, Runs
    <3>2. PICK k : k = [fn |-> "OnTerminalCreated", c |-> remoteHosts[h][t], t |-> t,
                        h |-> h, ok |-> Head(tsLoop).ok]
      OBVIOUS
    <3>3. k \in WebAppTask
      BY <1>2, <1>4, <2>2, <3>1, <3>2, PostedTasks, TerminalTaskFields
    <3>4. waLoop' = Append(waLoop, k)
      BY <1>3, <1>7, <2>2, <3>2 DEF HandleTerminalCreated, Report, GetAppClinetId
    <3>5. Reported(k)
      BY <1>3, <2>2, <3>1, <3>2 DEF Reported
    <3> QED BY <1>1, <1>2, <3>3, <3>4, <3>5
  <2> QED BY <2>1, <2>2
<1>8. CASE HandleTerminalRead
  <2>1. CASE ~HasAppClient(h, t)
    BY <1>1, <1>2, <1>3, <1>8, <2>1 DEF HandleTerminalRead, Report
  <2>2. CASE HasAppClient(h, t)
    <3>1. Head(tsLoop).fn = "HandleTerminalRead"
      BY <1>8 DEF HandleTerminalRead, Report, TakeTS, Runs
    <3>2. PICK k : k = [fn |-> "OnTerminalOutput", c |-> remoteHosts[h][t], t |-> t]
      OBVIOUS
    <3>3. k \in WebAppTask
      BY <1>4, <2>2, <3>2, PostedTasks
    <3>4. waLoop' = Append(waLoop, k)
      BY <1>3, <1>8, <2>2, <3>2 DEF HandleTerminalRead, Report, GetAppClinetId
    <3>5. Reported(k)
      BY <1>3, <2>2, <3>1, <3>2 DEF Reported
    <3> QED BY <1>1, <1>2, <3>3, <3>4, <3>5
  <2> QED BY <2>1, <2>2
<1>9. CASE HandleTerminalEnd
  <2>1. CASE ~HasAppClient(h, t)
    BY <1>1, <1>2, <1>3, <1>9, <2>1 DEF HandleTerminalEnd, Report
  <2>2. CASE HasAppClient(h, t)
    <3>1. Head(tsLoop).fn = "HandleTerminalEnd"
      BY <1>9 DEF HandleTerminalEnd, Report, TakeTS, Runs
    <3>2. PICK k : k = [fn |-> "OnTerminalClosed", c |-> remoteHosts[h][t], t |-> t, h |-> h]
      OBVIOUS
    <3>3. k \in WebAppTask
      BY <1>4, <2>2, <3>2, PostedTasks
    <3>4. waLoop' = Append(waLoop, k)
      BY <1>3, <1>9, <2>2, <3>2 DEF HandleTerminalEnd, Report, GetAppClinetId
    <3>5. Reported(k)
      BY <1>3, <2>2, <3>1, <3>2 DEF Reported
    <3> QED BY <1>1, <1>2, <3>3, <3>4, <3>5
  <2> QED BY <2>1, <2>2
<1> QED BY <1>5, <1>6, <1>7, <1>8, <1>9 DEF TerminalLoop

LEMMA SentUp ==
    ASSUME NEW S, up \in [Hosts -> Seq(S)], NEW h, NEW msg, SendUp(h, msg), NEW d \in Hosts
    PROVE  \/ up'[d] = up[d]
           \/ d = h /\ cliEnd[h] /\ Delivers(h) /\ up'[d] = Append(up[d], msg)
  BY DEF SendUp

\* The server passes reports on as they are.
LEMMA ServerReports ==
    ASSUME Routed, StartInv, ReportInv, [Next]_vars,
           Pages \/ WebAppLoop \/ TerminalLoop \/ ServerConnection
    PROVE  ReportInv'
<1>1. /\ Typed
      /\ started \subseteq started' /\ Ended \subseteq Ended'
      /\ up \in [Hosts -> Seq(UpMsg)] /\ \A h \in Hosts : up[h] \in Seq(TrueUpMsg)
      /\ tsLoop \in Seq(TrueTerminalTask)
      /\ waLoop \in Seq(TrueWebAppTask)
  BY EndedGrows, ServiceTypes DEF Routed, ReportInv
<1>2. CASE Pages
  <2>1. PICK k \in WebAppTask :
           /\ waLoop' = Append(waLoop, k)
           /\ k.fn \in {"AddClient", "RemoveClient", "OnTerminalAddReq",
                        "OnTerminalResizeReq", "OnTerminalDelReq", "OnTerminalKeyEvent"}
    BY <1>1, <1>2, PagesPost
  <2>2. k \in TrueWebAppTask
    BY <2>1 DEF TrueWebAppTask
  <2>3. waLoop' \in Seq(TrueWebAppTask)
    BY <1>1, <2>1, <2>2, AppendType
  <2>4. UNCHANGED <<tsLoop, up>>
    BY <1>1, <1>2, PagesPost
  <2> QED BY <1>1, <2>3, <2>4, ReportFrame
<1>3. CASE WebAppLoop
  <2>1. waLoop # <<>> /\ waLoop' = Tail(waLoop) /\ up' = up
    BY <1>3 DEF WebAppLoop, WebAppOnly, AddClient, RemoveClient, OnTerminalAddReq,
       OnTerminalResizeReq, OnTerminalDelReq, OnTerminalKeyEvent, OnRemoteHostInfoReceived,
       OnTerminalClientClosed, OnTerminalCreated, OnTerminalOutput, OnTerminalClosed, TakeWA, Runs
  <2>2. waLoop' \in Seq(TrueWebAppTask)
    BY <1>1, <2>1, HeadAndTail
  <2>3. PICK r \in Seq(TerminalTask) : tsLoop' = tsLoop \o r /\ Posts(r)
    BY <1>1, <1>3, WebAppLoopPosts
  <2>4. ASSUME NEW i \in DOMAIN r PROVE r[i] \in TrueTerminalTask
    <3>1. r[i] \in TerminalTask
      OBVIOUS
    <3>2. r[i].fn \notin {"HandleTerminalCreated", "HandleTerminalRead", "HandleTerminalEnd"}
      BY <2>3 DEF Posts
    <3> QED BY <3>1, <3>2 DEF TrueTerminalTask
  <2>5. r \in Seq(TrueTerminalTask)
    BY <2>4
  <2>6. tsLoop' \in Seq(TrueTerminalTask)
    BY <1>1, <2>3, <2>5
  <2> QED BY <1>1, <2>1, <2>2, <2>6, ReportFrame
<1>4. CASE TerminalLoop
  <2>1. /\ tsLoop # <<>> /\ tsLoop' = Tail(tsLoop) /\ up' = up
        /\ waLoop' = waLoop \/ \E k \in WebAppTask : waLoop' = Append(waLoop, k) /\ Reported(k)
    BY <1>1, <1>4, TerminalLoopSteps
  <2>2. Head(tsLoop) \in TrueTerminalTask /\ tsLoop' \in Seq(TrueTerminalTask)
    BY <1>1, <2>1, HeadAndTail
  <2>3. ASSUME NEW k \in WebAppTask, Reported(k)
        PROVE  k \in TrueWebAppTask
    BY <2>2, <2>3 DEF Reported, TrueTerminalTask, TrueWebAppTask
  <2>4. waLoop' \in Seq(TrueWebAppTask)
    BY <1>1, <2>1, <2>3, AppendType
  <2> QED BY <1>1, <2>1, <2>2, <2>4, ReportFrame
<1>5. CASE ServerConnection
  <2>1. ASSUME NEW h \in Hosts, ServerOnClientClosed(h) \/ ServerOnClientUnresponsive(h)
        PROVE  ReportInv'
    <3>1. PICK k : k = [fn |-> "OnClientClosed", h |-> h]
      OBVIOUS
    <3>2. k \in TrueTerminalTask
      BY <3>1, PostedTasks DEF TrueTerminalTask
    <3>3. tsLoop' = Append(tsLoop, k) /\ waLoop' = waLoop
      BY <2>1, <3>1 DEF ServerOnClientClosed, ServerOnClientUnresponsive
    <3>4. tsLoop' \in Seq(TrueTerminalTask)
      BY <1>1, <3>2, <3>3, AppendType
    <3>5. \A d \in Hosts : up'[d] = up[d] \/ up'[d] = <<>>
      BY <1>1, <2>1 DEF ServerOnClientClosed, ServerOnClientUnresponsive
    <3>6. <<>> \in Seq(TrueUpMsg)
      OBVIOUS
    <3> QED BY <1>1, <3>3, <3>4, <3>5, <3>6, ReportFrame
  <2>2. ASSUME NEW h \in Hosts, ServerOnClientRead(h)
        PROVE  ReportInv'
    <3>1. up[h] # <<>> /\ up' = [up EXCEPT ![h] = Tail(@)]
      BY <2>2 DEF ServerOnClientRead
    <3>2. PICK msg : msg = Head(up[h])
      OBVIOUS
    <3>3. msg \in TrueUpMsg /\ Tail(up[h]) \in Seq(TrueUpMsg)
      BY <1>1, <3>1, <3>2, HeadAndTail
    <3>4. \A d \in Hosts : up'[d] \in Seq(TrueUpMsg)
      BY <1>1, <3>1, <3>3
    <3>5. CASE msg.type = "CLIENT_INFO"
      <4>1. PICK k : k = [fn |-> "OnRemoteHostInfoReceived", h |-> h]
        OBVIOUS
      <4>2. k \in TrueWebAppTask
        BY <4>1, PostedTasks DEF TrueWebAppTask
      <4>3. tsLoop' = tsLoop /\ waLoop' = Append(waLoop, k)
        BY <2>2, <3>2, <3>5, <4>1 DEF ServerOnClientRead
      <4>4. waLoop' \in Seq(TrueWebAppTask)
        BY <1>1, <4>2, <4>3, AppendType
      <4> QED BY <1>1, <3>4, <4>3, <4>4, ReportFrame
    <3>6. CASE msg.type # "CLIENT_INFO"
      <4>1. msg \in UpMsg
        BY <3>3 DEF TrueUpMsg
      <4>2. PICK k : k = TaskOf(h, msg)
        OBVIOUS
      <4>3. k \in TerminalTask
        BY <3>6, <4>1, <4>2, MessageFields, PostedTasks DEF TaskOf
      <4>4. /\ k.t = msg.t
            /\ k.fn = "HandleTerminalEnd" => msg.type = "ON_TERMINAL_END"
        BY <3>6, <4>1, <4>2, MessageFields DEF TaskOf
      <4>5. k \in TrueTerminalTask
        BY <3>3, <3>6, <4>3, <4>4 DEF TrueTerminalTask, TrueUpMsg
      <4>6. waLoop' = waLoop /\ tsLoop' = Append(tsLoop, k)
        BY <2>2, <3>2, <3>6, <4>2 DEF ServerOnClientRead
      <4>7. tsLoop' \in Seq(TrueTerminalTask)
        BY <1>1, <4>5, <4>6, AppendType
      <4> QED BY <1>1, <3>4, <4>6, <4>7, ReportFrame
    <3> QED BY <3>5, <3>6
  <2> QED BY <1>5, <2>1, <2>2 DEF ServerConnection
<1> QED BY <1>2, <1>3, <1>4, <1>5

\* The terminal clients report what is there, and the end of what is not there.
LEMMA ClientReports ==
    ASSUME Routed, StartInv, ReportInv, [Next]_vars,
           ClientConnection \/ (\E m \in Machines : ClientLoop(m)) \/ Shells
    PROVE  ReportInv'
<1>1. /\ Typed
      /\ started \subseteq started' /\ Ended \subseteq Ended'
      /\ up \in [Hosts -> Seq(UpMsg)] /\ \A h \in Hosts : up[h] \in Seq(TrueUpMsg)
      /\ tsLoop \in Seq(TrueTerminalTask) /\ waLoop \in Seq(TrueWebAppTask)
      /\ loop \in [Machines -> Seq(ClientTask)]
      /\ terminals \in [Machines -> SUBSET TerminalId]
      /\ TrueUpMsg \subseteq TrueUpMsg'
  BY EndedGrows, TrueGrows, ServiceTypes DEF Routed, ReportInv
<1>2. UNCHANGED <<tsLoop, waLoop>>
  BY DEF ClientConnection, ClientLoop, Shells, ClientOnClientConnected, ClientOnClientRead,
     HandleDisconnected, HandleCreateTerminal, SendCreated, HandleDeleteTerminal,
     HandleResizeTerminal, HandleTerminalWrite, DeleteTerminals, EnableReadFromTerminals,
     OnTerminalEnd, OnTerminalRead, ShellExit, netVars
<1>3. ASSUME NEW h, NEW msg \in UpMsg, SendUp(h, msg),
             msg.t \in started, msg.type = "ON_TERMINAL_END" => msg.t \in Ended'
      PROVE  ReportInv'
  <2>1. msg \in TrueUpMsg'
    BY <1>1, <1>3 DEF TrueUpMsg
  <2>2. ASSUME NEW d \in Hosts PROVE up'[d] \in Seq(TrueUpMsg')
    <3>1. up[d] \in Seq(TrueUpMsg')
      BY <1>1, SeqMonotone
    <3>2. Append(up[d], msg) \in Seq(TrueUpMsg')
      BY <2>1, <3>1, AppendType
    <3>3. up'[d] = up[d] \/ up'[d] = Append(up[d], msg)
      BY <1>1, <1>3, SentUp
    <3> QED BY <3>1, <3>2, <3>3
  <2> QED BY <1>1, <1>2, <2>2, ReportFrame
<1>4. CASE UNCHANGED up
  BY <1>1, <1>2, <1>4, ReportFrame
<1>5. ASSUME NEW m \in Machines, NEW h \in Hosts, ClientOnClientConnected(m, h)
      PROVE  ReportInv'
  <2>1. PICK msg : msg = [type |-> "CLIENT_INFO"]
    OBVIOUS
  <2>2. msg \in TrueUpMsg
    BY <2>1, SentMessages DEF TrueUpMsg
  <2>3. <<msg>> \in Seq(TrueUpMsg) /\ up' = [up EXCEPT ![h] = <<msg>>]
    BY <1>5, <2>1, <2>2 DEF ClientOnClientConnected
  <2>4. \A d \in Hosts : up'[d] \in Seq(TrueUpMsg)
    BY <1>1, <2>3
  <2> QED BY <1>1, <1>2, <2>4, ReportFrame
<1>6. ASSUME NEW m \in Machines, SendCreated(m)
      PROVE  ReportInv'
  <2>1. loop[m] # <<>> /\ Head(loop[m]).fn = "SendCreated" /\ loop[m] \in Seq(ClientTask)
    BY <1>1, <1>6 DEF SendCreated, Take, Runs
  <2>2. PICK k \in ClientTask : k = Head(loop[m])
    BY <2>1, HeadAndTail
  <2>3. k.t \in TerminalId /\ k.ok \in BOOLEAN
    BY <2>1, <2>2, MessageFields
  <2>4. k.t \in started
    <3>1. 1 \in DOMAIN loop[m] /\ loop[m][1] = Head(loop[m])
      BY <2>1, TaskTaken
    <3>2. k.t \in terminals[m]
      BY <2>1, <2>2, <3>1 DEF StartInv, CreatingFirst
    <3> QED BY <3>2 DEF StartInv
  <2>5. PICK msg \in UpMsg : msg = [type |-> "ON_TERMINAL_CREATED", t |-> k.t, ok |-> k.ok]
    BY <2>3, SentMessages
  <2>6. SendUp(client[m], msg) /\ msg.t = k.t /\ msg.type # "ON_TERMINAL_END"
    BY <1>6, <2>2, <2>5 DEF SendCreated
  <2> QED BY <1>3, <2>4, <2>6
<1>7. ASSUME NEW m \in Machines, OnTerminalEnd(m)
      PROVE  ReportInv'
  <2>1. loop[m] # <<>> /\ Head(loop[m]).fn = "OnTerminalEnd" /\ loop[m] \in Seq(FitTask(m))
    BY <1>7 DEF OnTerminalEnd, Take, Runs, StartInv
  <2>2. PICK k \in FitTask(m) : k = Head(loop[m])
    BY <2>1, HeadAndTail
  <2>3. k.t \in started /\ \A n \in Machines : n # m => k.t \notin terminals[n]
    BY <2>1, <2>2 DEF FitTask
  <2>4. k.t \in TerminalId
    BY <2>1, <2>2, MessageFields DEF FitTask
  <2>5. PICK msg \in UpMsg : msg = [type |-> "ON_TERMINAL_END", t |-> k.t]
    BY <2>4, SentMessages
  <2>6. SendUp(client[m], msg) /\ msg.t = k.t
    BY <1>7, <2>2, <2>5 DEF OnTerminalEnd
  <2>7. k.t \in Ended'
    <3>1. terminals' = [terminals EXCEPT ![m] = @ \ {k.t}] /\ started' = started
      BY <1>7, <2>2 DEF OnTerminalEnd, Remove
    <3>2. \A n \in Machines : k.t \notin terminals'[n]
      BY <1>1, <2>3, <3>1
    <3> QED BY <2>3, <3>1, <3>2 DEF Ended, Running
  <2> QED BY <1>3, <2>3, <2>6, <2>7
<1>8. ASSUME NEW m \in Machines, NEW t, OnTerminalRead(m, t)
      PROVE  ReportInv'
  <2>1. t \in started /\ t \in TerminalId
    BY <1>1, <1>8 DEF OnTerminalRead, StartInv
  <2>2. PICK msg \in UpMsg : msg = [type |-> "ON_TERMINAL_READ", t |-> t]
    BY <2>1, SentMessages
  <2>3. SendUp(client[m], msg) /\ msg.t = t /\ msg.type # "ON_TERMINAL_END"
    BY <1>8, <2>2 DEF OnTerminalRead
  <2> QED BY <1>3, <2>1, <2>3
<1>9. CASE ClientConnection
  BY <1>4, <1>5, <1>9 DEF ClientConnection, ClientOnClientRead, HandleDisconnected
<1>10. ASSUME NEW m \in Machines, ClientLoop(m)
       PROVE  ReportInv'
  BY <1>4, <1>6, <1>7, <1>10 DEF ClientLoop, HandleCreateTerminal, HandleDeleteTerminal,
     HandleResizeTerminal, HandleTerminalWrite, DeleteTerminals, EnableReadFromTerminals, netVars
<1>11. CASE Shells
  BY <1>4, <1>8, <1>11 DEF Shells, ShellExit, netVars
<1> QED BY <1>9, <1>10, <1>11

LEMMA NextReports == ASSUME Routed, StartInv, ReportInv, [Next]_vars PROVE ReportInv'
<1>1. CASE UNCHANGED vars
  <2>1. UNCHANGED <<up, tsLoop, waLoop, started, terminals>>
    BY <1>1 DEF vars, netVars, tcVars
  <2>2. started \subseteq started' /\ Ended \subseteq Ended'
    BY EndedGrows
  <2> QED BY <2>1, <2>2, ReportFrame DEF ReportInv
<1> QED BY <1>1, ServerReports, ClientReports DEF Next

LEMMA InitReports == ASSUME Init PROVE ReportInv
<1>1. waLoop = <<>> /\ tsLoop = <<>> /\ \A h \in Hosts : up[h] = <<>>
  BY DEF Init, NetworkInit
<1>2. ASSUME NEW S PROVE <<>> \in Seq(S)
  OBVIOUS
<1> QED BY <1>1, <1>2 DEF ReportInv
-----------------------------------------------------------------------------
(***************************************************************************)
(* Pages.  A page whose session was created never gets another one.        *)
(***************************************************************************)
\* What a step does to WebAppServer's loop.
PagesPosted(k) ==
    /\ k.fn \in {"AddClient", "RemoveClient", "OnTerminalAddReq",
                 "OnTerminalResizeReq", "OnTerminalDelReq", "OnTerminalKeyEvent"}
    /\ k.c \in WebClients
    /\ IF k.fn = "AddClient" THEN ws[k.c] = "new" ELSE ws[k.c] = "open"
    /\ ws'[k.c] # "new"
    /\ \A c \in WebClients : c # k.c => ws'[c] = ws[c]

ServerPosted(k) ==
    /\ k.fn \in {"OnRemoteHostInfoReceived", "OnTerminalClientClosed", "OnTerminalCreated",
                 "OnTerminalOutput", "OnTerminalClosed"}
    /\ ws' = ws
    /\ k.fn = "OnTerminalClosed" =>
          /\ tsLoop # <<>> /\ Head(tsLoop) \in TerminalTask
          /\ Head(tsLoop).fn = "HandleTerminalEnd" /\ Head(tsLoop).t = k.t
          /\ HasAppClient(Head(tsLoop).h, k.t)

LEMMA WAStep ==
    ASSUME Typed, [Next]_vars
    PROVE  \/ UNCHANGED <<waLoop, ws>>
           \/ \E k \in WebAppTask : waLoop' = Append(waLoop, k) /\ PagesPosted(k)
           \/ \E k \in WebAppTask : waLoop' = Append(waLoop, k) /\ ServerPosted(k)
           \/ WebAppLoop /\ waLoop # <<>> /\ waLoop' = Tail(waLoop) /\ ws' = ws
<1>1. CASE UNCHANGED vars
  BY <1>1 DEF vars, netVars, waVars
<1>2. CASE Pages
  BY <1>2, PagesPost DEF PagesPosted
<1>3. CASE WebAppLoop
  BY <1>3 DEF WebAppLoop, WebAppOnly, AddClient, RemoveClient, OnTerminalAddReq,
     OnTerminalResizeReq, OnTerminalDelReq, OnTerminalKeyEvent, OnRemoteHostInfoReceived,
     OnTerminalClientClosed, OnTerminalCreated, OnTerminalOutput, OnTerminalClosed, TakeWA,
     Runs, waVars
<1>4. CASE TerminalLoop
  <2>1. /\ ws' = ws /\ tsLoop # <<>> /\ Head(tsLoop) \in TerminalTask
        /\ waLoop' = waLoop \/ \E k \in WebAppTask : waLoop' = Append(waLoop, k) /\ Reported(k)
    BY <1>4, TerminalLoopSteps DEF waVars
  <2>2. ASSUME NEW k \in WebAppTask, Reported(k)
        PROVE  ServerPosted(k)
    <3>1. PICK h, t : h = Head(tsLoop).h /\ t = Head(tsLoop).t
      OBVIOUS
    <3>2. CASE k = [fn |-> "OnTerminalClientClosed", h |-> h]
      BY <2>1, <3>2 DEF ServerPosted
    <3>3. CASE k = [fn |-> "OnTerminalCreated", c |-> remoteHosts[h][t], t |-> t,
                    h |-> h, ok |-> Head(tsLoop).ok]
      BY <2>1, <3>3 DEF ServerPosted
    <3>4. CASE k = [fn |-> "OnTerminalOutput", c |-> remoteHosts[h][t], t |-> t]
      BY <2>1, <3>4 DEF ServerPosted
    <3>5. CASE /\ k = [fn |-> "OnTerminalClosed", c |-> remoteHosts[h][t], t |-> t, h |-> h]
               /\ Head(tsLoop).fn = "HandleTerminalEnd" /\ HasAppClient(h, t)
      BY <2>1, <3>1, <3>5 DEF ServerPosted
    <3> QED BY <2>2, <3>1, <3>2, <3>3, <3>4, <3>5 DEF Reported
  <2> QED BY <2>1, <2>2
<1>5. CASE ServerConnection
  <2>1. ws' = ws
    BY <1>5 DEF ServerConnection, TerminalOnly, waVars
  <2>2. ASSUME NEW h \in Hosts, waLoop' = Append(waLoop, [fn |-> "OnRemoteHostInfoReceived", h |-> h])
        PROVE  \E k \in WebAppTask : waLoop' = Append(waLoop, k) /\ ServerPosted(k)
    BY <2>1, <2>2, PostedTasks DEF ServerPosted
  <2>3. waLoop' = waLoop \/ \E h \in Hosts :
           waLoop' = Append(waLoop, [fn |-> "OnRemoteHostInfoReceived", h |-> h])
    BY <1>5 DEF ServerConnection, ServerOnClientRead, ServerOnClientClosed,
       ServerOnClientUnresponsive
  <2> QED BY <2>1, <2>2, <2>3
<1>6. CASE ClientConnection \/ (\E m \in Machines : ClientLoop(m)) \/ Shells
  BY <1>6 DEF ClientConnection, ClientLoop, Shells, ClientOnly, waVars, ClientOnClientConnected,
     ClientOnClientRead, HandleDisconnected, HandleCreateTerminal, SendCreated,
     HandleDeleteTerminal, HandleResizeTerminal, HandleTerminalWrite, DeleteTerminals,
     EnableReadFromTerminals, OnTerminalEnd, OnTerminalRead, ShellExit, netVars
<1> QED BY <1>1, <1>2, <1>3, <1>4, <1>5, <1>6 DEF Next

\* The sessions that are still to be created.
Adds(c) == {k \in WebAppTask : k.fn = "AddClient" /\ k.c = c}

LEMMA CameStays ==
    ASSUME Typed, [Next]_vars, NEW c \in WebClients, Came(c)
    PROVE  Came(c)'
<1>1. waLoop \in Seq(WebAppTask) /\ ws[c] # "new" /\ ~Has(waLoop, Adds(c))
  BY ServiceTypes DEF Came, Adds
<1>2. ASSUME ws'[c] # "new", ~Has(waLoop', Adds(c))
      PROVE  Came(c)'
  BY <1>2 DEF Came, Adds
<1>3. ASSUME NEW k \in WebAppTask, waLoop' = Append(waLoop, k), PagesPosted(k)
      PROVE  Came(c)'
  <2>1. k \notin Adds(c) /\ ws'[c] # "new"
    BY <1>1, <1>3 DEF PagesPosted, Adds
  <2>2. ~Has(Append(waLoop, k), Adds(c))
    BY <1>1, <2>1, HasAppend
  <2> QED BY <1>2, <1>3, <2>1, <2>2
<1>4. ASSUME NEW k \in WebAppTask, waLoop' = Append(waLoop, k), ServerPosted(k)
      PROVE  Came(c)'
  <2>1. k \notin Adds(c) /\ ws'[c] # "new"
    BY <1>1, <1>4 DEF ServerPosted, Adds
  <2>2. ~Has(Append(waLoop, k), Adds(c))
    BY <1>1, <2>1, HasAppend
  <2> QED BY <1>2, <1>4, <2>1, <2>2
<1>5. CASE waLoop # <<>> /\ waLoop' = Tail(waLoop) /\ ws' = ws
  <2>1. ~Has(Tail(waLoop), Adds(c))
    BY <1>1, <1>5, HasTail
  <2> QED BY <1>1, <1>2, <1>5, <2>1
<1>6. CASE UNCHANGED <<waLoop, ws>>
  BY <1>1, <1>2, <1>6
<1> QED BY <1>3, <1>4, <1>5, <1>6, WAStep

\* A page asks for terminals after its session was created.
AsksAfter(i) ==
    /\ ws[waLoop[i].c] # "new"
    /\ \A j \in DOMAIN waLoop : j > i => ~(waLoop[j].fn = "AddClient" /\ waLoop[j].c = waLoop[i].c)

LEMMA AskingPages ==
    ASSUME Typed, PageInv, [Next]_vars,
           NEW i \in DOMAIN waLoop', waLoop'[i].fn = "OnTerminalAddReq"
    PROVE  AsksAfter(i)'
<1>1. waLoop \in Seq(WebAppTask) /\ \A j \in DOMAIN waLoop : waLoop[j] \in WebAppTask
  BY ServiceTypes
<1>2. \A j \in DOMAIN waLoop : waLoop[j].fn = "OnTerminalAddReq" => AsksAfter(j)
  BY DEF PageInv, AsksAfter
<1>3. \A j \in DOMAIN waLoop : waLoop[j].fn = "OnTerminalAddReq" => waLoop[j].c \in WebClients
  BY <1>1, WebAppTaskFields
<1>4. CASE UNCHANGED <<waLoop, ws>>
  BY <1>2, <1>4 DEF AsksAfter
<1>5. ASSUME NEW k \in WebAppTask, waLoop' = Append(waLoop, k),
             k.fn = "OnTerminalAddReq" => ws'[k.c] # "new",
             k.fn = "AddClient" => ws[k.c] = "new",
             \A c \in WebClients : ws[c] # "new" => ws'[c] # "new"
      PROVE  AsksAfter(i)'
  <2>1. CASE i \in DOMAIN waLoop
    <3>1. waLoop'[i] = waLoop[i] /\ AsksAfter(i) /\ waLoop[i].c \in WebClients
      BY <1>1, <1>2, <1>3, <1>5, <2>1, TaskPosted
    <3>2. ASSUME NEW j \in DOMAIN waLoop', j > i, waLoop'[j].fn = "AddClient",
                 waLoop'[j].c = waLoop[i].c
          PROVE  FALSE
      <4>1. CASE j \in DOMAIN waLoop
        BY <1>1, <1>5, <3>1, <3>2, <4>1, TaskPosted DEF AsksAfter
      <4>2. CASE j = Len(waLoop) + 1
        <5>1. waLoop'[j] = k
          BY <1>1, <1>5, <4>2, TaskPosted
        <5> QED BY <1>5, <3>1, <3>2, <5>1 DEF AsksAfter
      <4> QED BY <1>1, <1>5, <4>1, <4>2, TaskPosted
    <3> QED BY <1>5, <3>1, <3>2 DEF AsksAfter
  <2>2. CASE i = Len(waLoop) + 1
    <3>1. waLoop'[i] = k /\ \A j \in DOMAIN waLoop' : ~(j > i)
      <4>1. waLoop'[i] = k
        BY <1>1, <1>5, <2>2, TaskPosted
      <4>2. \A j \in DOMAIN waLoop' : j <= i
        BY <1>1, <1>5, <2>2
      <4>3. \A j \in DOMAIN waLoop' : j \in Nat /\ i \in Nat
        BY <1>1, <1>5, <2>2
      <4> QED BY <4>1, <4>2, <4>3
    <3> QED BY <1>5, <3>1 DEF AsksAfter
  <2> QED BY <1>1, <1>5, <2>1, <2>2, TaskPosted
<1>6. ASSUME NEW k \in WebAppTask, waLoop' = Append(waLoop, k), PagesPosted(k)
      PROVE  AsksAfter(i)'
  BY <1>5, <1>6 DEF PagesPosted
<1>7. ASSUME NEW k \in WebAppTask, waLoop' = Append(waLoop, k), ServerPosted(k)
      PROVE  AsksAfter(i)'
  BY <1>5, <1>7 DEF ServerPosted
<1>8. CASE waLoop # <<>> /\ waLoop' = Tail(waLoop) /\ ws' = ws
  <2>1. \A j \in DOMAIN waLoop' : /\ j + 1 \in DOMAIN waLoop /\ waLoop'[j] = waLoop[j + 1]
                                  /\ j \in Nat
    BY <1>1, <1>8, TaskTaken
  <2>2. AsksAfter(i + 1)
    BY <1>2, <2>1
  <2>3. \A j \in DOMAIN waLoop' : j > i => j + 1 > i + 1
    BY <2>1
  <2> QED BY <1>8, <2>1, <2>2, <2>3 DEF AsksAfter
<1> QED BY <1>4, <1>6, <1>7, <1>8, WAStep

\* What a step does to TerminalServer's loop.
EndRead(k) ==
    /\ k.h \in Hosts /\ up[k.h] # <<>>
    /\ Head(up[k.h]) \in Reports("ON_TERMINAL_END", k.t)

LEMMA TSStep ==
    ASSUME Typed, [Next]_vars
    PROVE  \/ tsLoop' = tsLoop
           \/ WebAppLoop /\ \E r \in Seq(TerminalTask) : tsLoop' = tsLoop \o r /\ Posts(r)
           \/ TerminalLoop /\ tsLoop # <<>> /\ tsLoop' = Tail(tsLoop)
           \/ \E k \in TerminalTask :
                 /\ tsLoop' = Append(tsLoop, k)
                 /\ k.fn \in {"OnClientClosed", "HandleTerminalCreated", "HandleTerminalRead",
                              "HandleTerminalEnd"}
                 /\ k.fn = "HandleTerminalEnd" => EndRead(k)
<1>1. CASE WebAppLoop
  BY <1>1, WebAppLoopPosts
<1>2. CASE TerminalLoop
  BY <1>2, TerminalLoopSteps
<1>3. CASE ServerConnection
  <2>1. ASSUME NEW h \in Hosts, ServerOnClientClosed(h) \/ ServerOnClientUnresponsive(h)
        PROVE  tsLoop' = Append(tsLoop, [fn |-> "OnClientClosed", h |-> h])
    BY <2>1 DEF ServerOnClientClosed, ServerOnClientUnresponsive
  <2>2. ASSUME NEW h \in Hosts, ServerOnClientRead(h), tsLoop' # tsLoop
        PROVE  \E k \in TerminalTask :
                 /\ tsLoop' = Append(tsLoop, k)
                 /\ k.fn \in {"HandleTerminalCreated", "HandleTerminalRead", "HandleTerminalEnd"}
                 /\ k.fn = "HandleTerminalEnd" => EndRead(k)
    <3>1. up[h] \in Seq(UpMsg) /\ up[h] # <<>>
      BY <2>2, ServiceTypes DEF ServerOnClientRead
    <3>2. PICK msg \in UpMsg : msg = Head(up[h])
      BY <3>1, HeadAndTail
    <3>3. msg.type # "CLIENT_INFO"
      BY <2>2, <3>2 DEF ServerOnClientRead
    <3>4. PICK k : k = TaskOf(h, msg)
      OBVIOUS
    <3>5. k \in TerminalTask
      BY <3>3, <3>4, MessageFields, PostedTasks DEF TaskOf
    <3>6. k.fn \in {"HandleTerminalCreated", "HandleTerminalRead", "HandleTerminalEnd"}
      BY <3>3, <3>4, MessageFields DEF TaskOf
    <3>7. tsLoop' = Append(tsLoop, k)
      BY <2>2, <3>2, <3>3, <3>4 DEF ServerOnClientRead
    <3>8. ASSUME k.fn = "HandleTerminalEnd" PROVE EndRead(k)
      <4>1. msg.type = "ON_TERMINAL_END" /\ k.h = h /\ k.t = msg.t
        BY <3>3, <3>4, <3>8, MessageFields DEF TaskOf
      <4>2. msg \in Reports("ON_TERMINAL_END", k.t)
        BY <4>1 DEF Reports
      <4> QED BY <3>1, <3>2, <4>1, <4>2 DEF EndRead
    <3> QED BY <3>5, <3>6, <3>7, <3>8
  <2>3. \A h \in Hosts : \E k \in TerminalTask :
           k = [fn |-> "OnClientClosed", h |-> h] /\ k.fn = "OnClientClosed"
    BY PostedTasks
  <2> QED BY <1>3, <2>1, <2>2, <2>3 DEF ServerConnection
<1>4. CASE Pages
  BY <1>4, PagesPost
<1>5. CASE ClientConnection \/ (\E m \in Machines : ClientLoop(m)) \/ Shells
  BY <1>5 DEF ClientConnection, ClientLoop, Shells, ClientOnClientConnected,
     ClientOnClientRead, HandleDisconnected, HandleCreateTerminal, SendCreated,
     HandleDeleteTerminal, HandleResizeTerminal, HandleTerminalWrite, DeleteTerminals,
     EnableReadFromTerminals, OnTerminalEnd, OnTerminalRead, ShellExit, netVars
<1>6. CASE UNCHANGED vars
  BY <1>6 DEF vars, netVars
<1> QED BY <1>1, <1>2, <1>3, <1>4, <1>5, <1>6 DEF Next

\* The history of requests only grows.
LEMMA OwnerStep ==
    ASSUME Typed, [Next]_vars
    PROVE  \/ owner' = owner
           \/ /\ CreateNewTerminal /\ TerminalOnly
              /\ tsLoop # <<>> /\ Head(tsLoop).fn = "CreateNewTerminal"
              /\ GetClient(Head(tsLoop).h)
              /\ owner' = Append(owner, [c |-> Head(tsLoop).c, h |-> Head(tsLoop).h])
<1>1. CASE CreateNewTerminal /\ TerminalOnly
  BY <1>1 DEF CreateNewTerminal, TakeTS, Runs
<1>2. CASE Pages \/ WebAppLoop \/ ServerConnection \/ UNCHANGED vars
  BY <1>2 DEF Pages, WebAppLoop, ServerConnection, WebAppOnly, tsVars, vars,
     ServerOnClientRead, ServerOnClientClosed, ServerOnClientUnresponsive
<1>3. CASE ClientConnection \/ (\E m \in Machines : ClientLoop(m)) \/ Shells
  BY <1>3 DEF ClientConnection, ClientLoop, Shells, ClientOnly, tsVars
<1>4. CASE /\ \/ ResizeTerminal \/ DeleteTerminal \/ SendKeyEvent \/ OnClientClosed
              \/ HandleTerminalCreated \/ HandleTerminalRead \/ HandleTerminalEnd
           /\ TerminalOnly
  BY <1>4 DEF ResizeTerminal, DeleteTerminal, SendKeyEvent, Command, OnClientClosed,
     HandleTerminalCreated, HandleTerminalRead, HandleTerminalEnd, Report, tsVars
<1> QED BY <1>1, <1>2, <1>3, <1>4 DEF Next, TerminalLoop

LEMMA OwnerGrows ==
    ASSUME Typed, [Next]_vars
    PROVE  /\ \A t \in 1 .. Len(owner) : t \in 1 .. Len(owner') /\ owner'[t] = owner[t]
           /\ \A t \in 1 .. Len(owner') :
                 \/ t \in 1 .. Len(owner)
                 \/ /\ CreateNewTerminal /\ TerminalOnly /\ t = Len(owner) + 1
                    /\ tsLoop # <<>> /\ Head(tsLoop).fn = "CreateNewTerminal"
                    /\ GetClient(Head(tsLoop).h)
                    /\ owner'[t].c = Head(tsLoop).c /\ owner'[t].h = Head(tsLoop).h
<1>1. owner \in Seq([c : WebClients, h : Hosts])
  BY ServiceTypes
<1>2. CASE owner' = owner
  BY <1>2
<1>3. CASE /\ CreateNewTerminal /\ TerminalOnly
           /\ tsLoop # <<>> /\ Head(tsLoop).fn = "CreateNewTerminal"
           /\ GetClient(Head(tsLoop).h)
           /\ owner' = Append(owner, [c |-> Head(tsLoop).c, h |-> Head(tsLoop).h])
  <2>1. PICK o : o = [c |-> Head(tsLoop).c, h |-> Head(tsLoop).h]
    OBVIOUS
  <2>2. o.c = Head(tsLoop).c /\ o.h = Head(tsLoop).h /\ owner' = Append(owner, o)
    BY <1>3, <2>1
  <2>3. /\ \A t \in 1 .. Len(owner) : t \in 1 .. Len(owner') /\ owner'[t] = owner[t]
        /\ \A t \in 1 .. Len(owner') : t \in 1 .. Len(owner) \/ (t = Len(owner) + 1 /\ owner'[t] = o)
    <3>1. \A t \in 1 .. Len(owner) : t \in 1 .. Len(Append(owner, o)) /\ Append(owner, o)[t] = owner[t]
      BY <1>1
    <3>2. \A t \in 1 .. Len(Append(owner, o)) :
             t \in 1 .. Len(owner) \/ (t = Len(owner) + 1 /\ Append(owner, o)[t] = o)
      BY <1>1
    <3> QED BY <2>2, <3>1, <3>2
  <2> QED BY <1>3, <2>2, <2>3
<1> QED BY <1>2, <1>3, OwnerStep

LEMMA NextPages ==
    ASSUME Typed, PageInv, [Next]_vars
    PROVE  PageInv'
<1>1. /\ tsLoop \in Seq(TerminalTask) /\ waLoop \in Seq(WebAppTask)
      /\ \A i \in DOMAIN tsLoop : tsLoop[i] \in TerminalTask
      /\ \A t \in 1 .. Len(owner) : owner[t].c \in WebClients
  <2>1. tsLoop \in Seq(TerminalTask) /\ waLoop \in Seq(WebAppTask)
    BY ServiceTypes
  <2>2. \A i \in DOMAIN tsLoop : tsLoop[i] \in TerminalTask
    BY <2>1
  <2>3. \A t \in 1 .. Len(owner) : owner[t].c \in WebClients
    BY ServiceTypes
  <2> QED BY <2>1, <2>2, <2>3
<1>2. ASSUME NEW i \in DOMAIN tsLoop, tsLoop[i].fn = "CreateNewTerminal"
      PROVE  \E c \in WebClients : c = tsLoop[i].c /\ Came(c)'
  <2>1. PICK c \in WebClients : c = tsLoop[i].c
    BY <1>1, <1>2, TerminalTaskFields
  <2>2. Came(c)
    BY <1>2, <2>1 DEF PageInv
  <2> QED BY <2>1, <2>2, CameStays
<1>3. ASSUME NEW i \in DOMAIN tsLoop', tsLoop'[i].fn = "CreateNewTerminal"
      PROVE  \E c \in WebClients : c = tsLoop'[i].c /\ Came(c)'
  <2>1. CASE tsLoop' = tsLoop
    BY <1>2, <1>3, <2>1
  <2>2. ASSUME WebAppLoop, NEW r \in Seq(TerminalTask), tsLoop' = tsLoop \o r, Posts(r)
        PROVE  \E c \in WebClients : c = tsLoop'[i].c /\ Came(c)'
    <3>1. CASE i \in DOMAIN tsLoop
      <4>1. tsLoop'[i] = tsLoop[i]
        BY <1>1, <2>2, <3>1, Joined
      <4> QED BY <1>2, <1>3, <3>1, <4>1
    <3>2. CASE i \notin DOMAIN tsLoop
      <4>1. PICK j \in DOMAIN r : tsLoop'[i] = r[j]
        BY <1>1, <2>2, <3>2, Joined
      <4>2. Head(waLoop).fn = "OnTerminalAddReq" /\ r[j].c = Head(waLoop).c
        BY <1>3, <2>2, <4>1 DEF Posts
      <4>3. waLoop # <<>> /\ waLoop' = Tail(waLoop) /\ ws' = ws
        BY <2>2 DEF WebAppLoop, WebAppOnly, AddClient, RemoveClient, OnTerminalAddReq,
           OnTerminalResizeReq, OnTerminalDelReq, OnTerminalKeyEvent, OnRemoteHostInfoReceived,
           OnTerminalClientClosed, OnTerminalCreated, OnTerminalOutput, OnTerminalClosed, TakeWA,
           Runs, waVars
      <4>4. PICK c \in WebClients : c = Head(waLoop).c
        BY <1>1, <4>2, <4>3, HeadAndTail, WebAppTaskFields
      <4>5. 1 \in DOMAIN waLoop /\ waLoop[1] = Head(waLoop)
        BY <1>1, <4>3, TaskTaken
      <4>6. /\ ws[c] # "new"
            /\ \A l \in DOMAIN waLoop : l > 1 => ~(waLoop[l].fn = "AddClient" /\ waLoop[l].c = c)
        BY <4>2, <4>4, <4>5 DEF PageInv
      <4>7. ASSUME NEW l \in DOMAIN waLoop' PROVE waLoop'[l] \notin Adds(c)
        <5>1. l + 1 \in DOMAIN waLoop /\ waLoop'[l] = waLoop[l + 1] /\ l + 1 > 1
          BY <1>1, <4>3, TaskTaken
        <5> QED BY <4>6, <5>1 DEF Adds
      <4>8. Came(c)'
        BY <4>3, <4>6, <4>7 DEF Came, Has, Adds
      <4> QED BY <4>1, <4>2, <4>4, <4>8
    <3> QED BY <3>1, <3>2
  <2>3. CASE tsLoop # <<>> /\ tsLoop' = Tail(tsLoop)
    <3>1. i + 1 \in DOMAIN tsLoop /\ tsLoop'[i] = tsLoop[i + 1]
      BY <1>1, <2>3, TaskTaken
    <3> QED BY <1>2, <1>3, <3>1
  <2>4. ASSUME NEW k \in TerminalTask, tsLoop' = Append(tsLoop, k),
               k.fn \in {"OnClientClosed", "HandleTerminalCreated", "HandleTerminalRead",
                         "HandleTerminalEnd"}
        PROVE  \E c \in WebClients : c = tsLoop'[i].c /\ Came(c)'
    <3>1. i \in DOMAIN tsLoop /\ tsLoop'[i] = tsLoop[i]
      BY <1>1, <1>3, <2>4, TaskPosted
    <3> QED BY <1>2, <1>3, <3>1
  <2> QED BY <2>1, <2>2, <2>3, <2>4, TSStep
<1>4. ASSUME NEW t \in 1 .. Len(owner') PROVE Came(owner[t].c)'
  <2>1. CASE t \in 1 .. Len(owner)
    <3>1. PICK c \in WebClients : c = owner[t].c
      BY <1>1, <2>1
    <3>2. Came(c) /\ owner'[t].c = c
      BY <2>1, <3>1, OwnerGrows DEF PageInv
    <3>3. Came(c)'
      BY <3>2, CameStays
    <3> QED BY <3>2, <3>3
  <2>2. CASE t \notin 1 .. Len(owner)
    <3>1. tsLoop # <<>> /\ Head(tsLoop).fn = "CreateNewTerminal" /\ owner'[t].c = Head(tsLoop).c
      BY <2>2, OwnerGrows
    <3>2. 1 \in DOMAIN tsLoop /\ tsLoop[1] = Head(tsLoop)
      BY <1>1, <3>1, TaskTaken
    <3>3. PICK c \in WebClients : c = tsLoop[1].c /\ Came(c)'
      BY <1>2, <3>1, <3>2
    <3>4. owner'[t].c = c
      BY <3>1, <3>2, <3>3
    <3> QED BY <3>3, <3>4
  <2> QED BY <2>1, <2>2
<1>5. ASSUME NEW i \in DOMAIN tsLoop', tsLoop'[i].fn = "CreateNewTerminal"
      PROVE  Came(tsLoop[i].c)'
  <2>1. PICK c \in WebClients : c = tsLoop'[i].c /\ Came(c)'
    BY <1>3, <1>5
  <2> QED BY <2>1
<1>6. \A i \in DOMAIN waLoop' : waLoop'[i].fn = "OnTerminalAddReq" => AsksAfter(i)'
  BY AskingPages
<1> QED BY <1>4, <1>5, <1>6 DEF PageInv, AsksAfter

LEMMA InitPages == ASSUME Init PROVE PageInv
<1>1. DOMAIN <<>> = {} /\ Len(<<>>) = 0
  OBVIOUS
<1>2. waLoop = <<>> /\ tsLoop = <<>> /\ owner = <<>>
  BY DEF Init, NetworkInit, TerminalServerInit
<1> QED BY <1>1, <1>2 DEF PageInv
-----------------------------------------------------------------------------
(***************************************************************************)
(* Connections.  A machine gets its terminals from its own connection; a   *)
(* connection that broke does not come back.                               *)
(***************************************************************************)
LEMMA ConnStep ==
    ASSUME Typed, [Next]_vars
    PROVE  \/ \E m \in Machines, h \in Hosts : ClientOnClientConnected(m, h) /\ ClientOnly
           \/ /\ client' = client
              /\ \A h \in Hosts : srvEnd'[h] = srvEnd[h] \/ srvEnd'[h] \in {"removed", "closed"}
              /\ \A h \in Hosts : srvEnd[h] \in {"none", "closed"} => srvEnd'[h] = srvEnd[h]
              /\ \A h \in Hosts : cliEnd'[h] => cliEnd[h]
<1>1. /\ srvEnd \in [Hosts -> EndState] /\ cliEnd \in [Hosts -> BOOLEAN]
      /\ client \in [Machines -> Hosts \cup {NoHost}]
  BY ServiceTypes
<1>2. CASE UNCHANGED <<client, srvEnd, cliEnd>>
  BY <1>2
<1>3. CASE ServerConnection
  <2>1. client' = client /\ cliEnd' = cliEnd
    BY <1>3 DEF ServerConnection, TerminalOnly, tcVars, ServerOnClientRead,
       ServerOnClientClosed, ServerOnClientUnresponsive
  <2>2. ASSUME NEW d \in Hosts, NEW e \in {"removed", "closed"}, srvEnd[d] \notin {"none", "closed"},
               srvEnd' = [srvEnd EXCEPT ![d] = e], NEW h \in Hosts
        PROVE  /\ srvEnd'[h] = srvEnd[h] \/ srvEnd'[h] \in {"removed", "closed"}
               /\ srvEnd[h] \in {"none", "closed"} => srvEnd'[h] = srvEnd[h]
    BY <1>1, <2>2
  <2>3. \/ srvEnd' = srvEnd
        \/ \E d \in Hosts, e \in {"removed", "closed"} :
              srvEnd[d] \notin {"none", "closed"} /\ srvEnd' = [srvEnd EXCEPT ![d] = e]
    BY <1>3 DEF ServerConnection, ServerOnClientRead, ServerOnClientClosed,
       ServerOnClientUnresponsive, Delivers, GetClient
  <2> QED BY <2>1, <2>2, <2>3
<1>4. CASE Pages \/ WebAppLoop \/ TerminalLoop \/ UNCHANGED vars
  <2>1. CASE Pages
    BY <1>2, <2>1, PagesPost DEF tcVars
  <2>2. CASE WebAppLoop
    BY <1>2, <2>2 DEF WebAppLoop, WebAppOnly, tcVars, AddClient, RemoveClient, OnTerminalAddReq,
       OnTerminalResizeReq, OnTerminalDelReq, OnTerminalKeyEvent, OnRemoteHostInfoReceived,
       OnTerminalClientClosed, OnTerminalCreated, OnTerminalOutput, OnTerminalClosed
  <2>3. CASE TerminalLoop
    BY <1>2, <2>3, TerminalLoopSteps DEF tcVars
  <2>4. CASE UNCHANGED vars
    BY <1>2, <2>4 DEF vars, netVars, tcVars
  <2> QED BY <1>4, <2>1, <2>2, <2>3, <2>4
<1>5. ASSUME client' = client, srvEnd' = srvEnd, \A h \in Hosts : cliEnd'[h] => cliEnd[h]
      PROVE  /\ client' = client
             /\ \A h \in Hosts : srvEnd'[h] = srvEnd[h] \/ srvEnd'[h] \in {"removed", "closed"}
             /\ \A h \in Hosts : srvEnd[h] \in {"none", "closed"} => srvEnd'[h] = srvEnd[h]
             /\ \A h \in Hosts : cliEnd'[h] => cliEnd[h]
  BY <1>5
<1>6. CASE ClientConnection
  <2>1. ASSUME NEW m \in Machines, HandleDisconnected(m)
        PROVE  client' = client /\ srvEnd' = srvEnd /\ \A h \in Hosts : cliEnd'[h] => cliEnd[h]
    BY <1>1, <2>1 DEF HandleDisconnected, Connected
  <2>2. ASSUME NEW m \in Machines, ClientOnClientRead(m)
        PROVE  UNCHANGED <<client, srvEnd, cliEnd>>
    BY <2>2 DEF ClientOnClientRead
  <2> QED BY <1>2, <1>5, <1>6, <2>1, <2>2 DEF ClientConnection
<1>7. ASSUME NEW m \in Machines, ClientLoop(m)
      PROVE  client' = client /\ srvEnd' = srvEnd /\ \A h \in Hosts : cliEnd'[h] => cliEnd[h]
  <2>1. client' = client /\ srvEnd' = srvEnd
    BY <1>7 DEF ClientLoop, HandleCreateTerminal, SendCreated, HandleDeleteTerminal,
       HandleResizeTerminal, HandleTerminalWrite, DeleteTerminals, EnableReadFromTerminals,
       OnTerminalEnd, netVars
  <2>2. CASE DeleteTerminals(m)
    BY <1>1, <2>1, <2>2 DEF DeleteTerminals
  <2>3. CASE cliEnd' = cliEnd
    BY <2>1, <2>3
  <2> QED BY <1>7, <2>2, <2>3 DEF ClientLoop, HandleCreateTerminal, SendCreated,
         HandleDeleteTerminal, HandleResizeTerminal, HandleTerminalWrite,
         EnableReadFromTerminals, OnTerminalEnd, netVars
<1>8. CASE Shells
  BY <1>2, <1>8 DEF Shells, OnTerminalRead, ShellExit, netVars
<1> QED BY <1>3, <1>4, <1>5, <1>6, <1>7, <1>8 DEF Next

LEMMA BrokenStays ==
    ASSUME Typed, [Next]_vars, NEW h \in Hosts, Broken(h)
    PROVE  Broken(h)'
<1>1. srvEnd \in [Hosts -> EndState] /\ cliEnd \in [Hosts -> BOOLEAN]
  BY ServiceTypes
<1>2. ASSUME NEW m \in Machines, NEW d \in Hosts, ClientOnClientConnected(m, d)
      PROVE  Broken(h)'
  BY <1>1, <1>2 DEF ClientOnClientConnected, Broken
<1>3. CASE /\ \A d \in Hosts : srvEnd'[d] = srvEnd[d] \/ srvEnd'[d] \in {"removed", "closed"}
           /\ \A d \in Hosts : cliEnd'[d] => cliEnd[d]
  BY <1>3 DEF Broken
<1> QED BY <1>2, <1>3, ConnStep

\* A terminal comes to a machine by an order from its connection.
LEMMA HostedStep ==
    ASSUME Routed, StartInv, [Next]_vars, NEW m \in Machines, NEW t, Hosted(m, t)'
    PROVE  Hosted(m, t) \/ (RunsOn(t, client[m]) /\ ClientOnClientRead(m))
<1>1. /\ loop \in [Machines -> Seq(ClientTask)] /\ down \in [Hosts -> Seq(DownMsg)]
      /\ terminals \in [Machines -> SUBSET TerminalId]
      /\ loop[m] \in Seq(ClientTask) /\ Typed
  BY ServiceTypes DEF Routed
<1>2. PICK A : A = ClientTasks("HandleCreateTerminal", t)
  OBVIOUS
<1>3. ASSUME Has(loop'[m], A) => Has(loop[m], A), terminals'[m] \subseteq terminals[m]
      PROVE  Hosted(m, t)
  BY <1>2, <1>3 DEF Hosted
<1>4. CASE UNCHANGED <<loop, terminals>>
  BY <1>3, <1>4
<1>5. CASE Pages \/ WebAppLoop \/ TerminalLoop \/ ServerConnection \/ UNCHANGED vars
  BY <1>4, <1>5 DEF Pages, WebAppLoop, TerminalLoop, ServerConnection, WebAppOnly,
     TerminalOnly, tcVars, vars
<1>6. ASSUME NEW n \in Machines, NEW r \in Seq(ClientTask), ~Has(r, A),
             loop' = [loop EXCEPT ![n] = @ \o r], terminals' = terminals
      PROVE  Hosted(m, t)
  <2>1. loop'[m] = loop[m] \/ loop'[m] = loop[m] \o r
    BY <1>1, <1>6
  <2>2. Has(loop[m] \o r, A) => Has(loop[m], A)
    BY <1>1, <1>6, HasConcat
  <2> QED BY <1>3, <1>6, <2>1, <2>2
<1>7. ASSUME NEW n \in Machines, NEW counter \in Int, terminals' = terminals,
             loop' = [loop EXCEPT ![n] = @ \o ReadControl(counter)]
      PROVE  Hosted(m, t)
  <2>1. PICK r \in Seq(ClientTask) : r = ReadControl(counter)
    BY ReadControlType
  <2>2. ~Has(r, A)
    BY <1>2, <2>1, OnlyReadControl DEF Has, ClientTasks
  <2> QED BY <1>6, <1>7, <2>1, <2>2
<1>8. ASSUME NEW n \in Machines, NEW k \in ClientTask, k \notin A, terminals' = terminals,
             loop' = [loop EXCEPT ![n] = Append(@, k)]
      PROVE  Hosted(m, t)
  <2>1. loop'[m] = loop[m] \/ loop'[m] = Append(loop[m], k)
    BY <1>1, <1>8
  <2>2. Has(Append(loop[m], k), A) => Has(loop[m], A)
    BY <1>1, <1>8, HasAppend
  <2> QED BY <1>3, <1>8, <2>1, <2>2
<1>9. ASSUME NEW n \in Machines, loop[n] # <<>>, loop' = [loop EXCEPT ![n] = Tail(@)],
             terminals'[m] \subseteq terminals[m]
      PROVE  Hosted(m, t)
  <2>1. loop'[m] = loop[m] \/ (n = m /\ loop'[m] = Tail(loop[m]))
    BY <1>1, <1>9
  <2>2. n = m => (Has(Tail(loop[m]), A) => Has(loop[m], A))
    BY <1>1, <1>9, HasTail
  <2> QED BY <1>3, <1>9, <2>1, <2>2
<1>10. ASSUME NEW n \in Machines, HandleCreateTerminal(n), ClientOnly
       PROVE  Hosted(m, t)
  <2>1. PICK u, k : /\ u = Head(loop[n]).t
                    /\ k.fn = "SendCreated"
                    /\ terminals' = [terminals EXCEPT ![n] = @ \cup {u}]
                    /\ loop' = [loop EXCEPT ![n] = <<k>> \o Tail(@)]
    <3>1. PICK ok \in BOOLEAN : loop' = [loop EXCEPT ![n] =
             <<[fn |-> "SendCreated", t |-> Head(loop[n]).t, ok |-> ok]>> \o Tail(@)]
      BY <1>10, HandleCreateStarts
    <3>2. PICK k : k = [fn |-> "SendCreated", t |-> Head(loop[n]).t, ok |-> ok]
      OBVIOUS
    <3>3. k.fn = "SendCreated"
      BY <3>2
    <3> QED BY <1>10, <3>1, <3>2, <3>3, HandleCreateStarts
  <2>2. CASE n # m
    BY <1>1, <1>3, <2>1, <2>2
  <2>3. CASE n = m
    <3>1. /\ loop[m] # <<>> /\ Head(loop[m]).fn = "HandleCreateTerminal"
          /\ loop'[m] = <<k>> \o Tail(loop[m]) /\ terminals'[m] = terminals[m] \cup {u}
      BY <1>1, <1>10, <2>1, <2>3 DEF HandleCreateTerminal, Runs
    <3>2. Head(loop[m]) \in ClientTask /\ Tail(loop[m]) \in Seq(ClientTask)
      BY <1>1, <3>1, HeadAndTail
    <3>3. CASE t = u
      <4>1. Head(loop[m]) \in A
        BY <1>2, <2>1, <2>3, <3>1, <3>2, <3>3 DEF ClientTasks
      <4> QED BY <1>1, <1>2, <3>1, <4>1, HasTail DEF Hosted
    <3>4. CASE t # u
      <4>1. <<k>> \in Seq({k}) /\ ~Has(<<k>>, A)
        BY <1>2, <2>1, HasOne DEF ClientTasks
      <4>2. /\ <<k>> \in Seq({k} \cup ClientTask)
            /\ Tail(loop[m]) \in Seq({k} \cup ClientTask)
        BY <3>2, SeqMonotone
      <4>3. Has(<<k>> \o Tail(loop[m]), A) => Has(Tail(loop[m]), A)
        BY <4>1, <4>2, HasConcat
      <4>4. Has(Tail(loop[m]), A) => Has(loop[m], A)
        BY <1>1, <3>1, HasTail
      <4>5. t \in terminals'[m] => t \in terminals[m]
        BY <3>1, <3>4
      <4> QED BY <1>2, <3>1, <4>3, <4>4, <4>5 DEF Hosted
    <3> QED BY <3>3, <3>4
  <2> QED BY <2>2, <2>3
<1>11. ASSUME NEW n \in Machines,
              \/ SendCreated(n) \/ HandleDeleteTerminal(n) \/ HandleResizeTerminal(n)
              \/ HandleTerminalWrite(n) \/ DeleteTerminals(n) \/ EnableReadFromTerminals(n)
              \/ OnTerminalEnd(n)
       PROVE  Hosted(m, t)
  <2>1. loop[n] # <<>> /\ loop' = [loop EXCEPT ![n] = Tail(@)]
    BY <1>11 DEF SendCreated, HandleDeleteTerminal, HandleResizeTerminal,
       HandleTerminalWrite, DeleteTerminals, EnableReadFromTerminals, OnTerminalEnd, Take, Runs
  <2>2. terminals' = terminals \/ \E ts : terminals' = [terminals EXCEPT ![n] = @ \ ts]
    BY <1>11 DEF SendCreated, HandleDeleteTerminal, HandleResizeTerminal, HandleTerminalWrite,
       DeleteTerminals, EnableReadFromTerminals, OnTerminalEnd, Remove
  <2>3. terminals'[m] \subseteq terminals[m]
    BY <1>1, <2>2
  <2> QED BY <1>9, <2>1, <2>3
<1>12. CASE Shells
  <2>1. ASSUME NEW n \in Machines, NEW u, OnTerminalRead(n, u)
        PROVE  Hosted(m, t)
    <3>1. PICK counter \in Int : counter = pending[n] + 1
      BY <1>1 DEF Typed, TypeOK, TerminalClientTypeOK
    <3> QED BY <1>7, <2>1, <3>1 DEF OnTerminalRead, ResolvePendingMsgUpdated
  <2>2. ASSUME NEW n \in Machines, NEW u \in TerminalId, ShellExit(n, u)
        PROVE  Hosted(m, t)
    <3>1. PICK k \in ClientTask : k = [fn |-> "OnTerminalEnd", t |-> u]
      BY SentMessages
    <3>2. k \notin A
      BY <1>2, <3>1 DEF ClientTasks
    <3> QED BY <1>8, <2>2, <3>1, <3>2 DEF ShellExit
  <2>3. \A u \in 1 .. idCounter : u \in TerminalId
    BY <1>1, ServiceTypes DEF TerminalId
  <2> QED BY <1>12, <2>1, <2>2, <2>3 DEF Shells
<1>13. CASE ClientConnection
  <2>1. ASSUME NEW n \in Machines, NEW h \in Hosts, ClientOnClientConnected(n, h)
        PROVE  Hosted(m, t) \/ (RunsOn(t, client[m]) /\ ClientOnClientRead(m))
    BY <1>4, <2>1 DEF ClientOnClientConnected
  <2>2. ASSUME NEW n \in Machines, HandleDisconnected(n)
        PROVE  Hosted(m, t)
    <3>1. PICK k \in ClientTask : k = [fn |-> "DeleteTerminals"]
      BY SentMessages
    <3>2. k \notin A
      BY <1>2, <3>1 DEF ClientTasks
    <3> QED BY <1>8, <2>2, <3>1, <3>2 DEF HandleDisconnected
  <2>3. ASSUME NEW n \in Machines, ClientOnClientRead(n)
        PROVE  Hosted(m, t) \/ (RunsOn(t, client[m]) /\ ClientOnClientRead(m))
    <3>1. PICK h \in Hosts : h = client[n] /\ down[h] # <<>>
      BY <2>3 DEF ClientOnClientRead, Connected
    <3>2. down[h] \in Seq(RoutedDownMsg(h))
      BY DEF Routed, RoutedDown
    <3>3. PICK msg \in RoutedDownMsg(h) : msg = Head(down[h])
      BY <3>1, <3>2, HeadAndTail
    <3>4. msg \in DownMsg /\ (msg.type # "ON_TERMINAL_READ_ACK" => RunsOn(msg.t, h))
      BY DEF RoutedDownMsg
    <3>5. CASE msg.type = "ON_TERMINAL_READ_ACK"
      <4>1. PICK counter \in Int : counter = pending[n] - 1
        BY <1>1 DEF Typed, TypeOK, TerminalClientTypeOK
      <4> QED BY <1>7, <2>3, <3>1, <3>3, <3>5, <4>1 DEF ClientOnClientRead, ResolvePendingMsgUpdated
    <3>6. CASE msg.type # "ON_TERMINAL_READ_ACK"
      <4>1. PICK k : k = [fn |-> HandlerOf(msg.type), t |-> msg.t]
        OBVIOUS
      <4>2. /\ terminals' = terminals
            /\ loop' = [loop EXCEPT ![n] = Append(@, k)]
        BY <2>3, <3>1, <3>3, <3>6, <4>1 DEF ClientOnClientRead
      <4>3. k \in ClientTask
        BY <3>4, <3>6, <4>1, MessageFields, SentMessages DEF HandlerOf
      <4>4. CASE k \notin A
        BY <1>8, <4>2, <4>3, <4>4
      <4>5. CASE k \in A
        <5>1. msg.t = t
          BY <1>2, <4>1, <4>5 DEF ClientTasks
        <5>2. CASE n = m
          BY <2>3, <3>1, <3>4, <3>6, <5>1, <5>2
        <5>3. CASE n # m
          BY <1>1, <1>3, <4>2, <5>3
        <5> QED BY <5>2, <5>3
      <4> QED BY <4>4, <4>5
    <3> QED BY <3>5, <3>6
  <2> QED BY <1>13, <2>1, <2>2, <2>3 DEF ClientConnection
<1> QED BY <1>5, <1>10, <1>11, <1>12, <1>13 DEF Next, ClientLoop

LEMMA NextConnected ==
    ASSUME Routed, StartInv, ConnInv, [Next]_vars
    PROVE  ConnInv'
<1>1. /\ Typed /\ srvEnd \in [Hosts -> EndState] /\ cliEnd \in [Hosts -> BOOLEAN]
      /\ client \in [Machines -> Hosts \cup {NoHost}] /\ NoHost \notin Hosts
      /\ \A t \in 1 .. Len(owner) : owner[t].h \in Hosts
  BY ServiceTypes DEF Routed
\* The machine whose client connects had no connection, or a broken one.
<1>2. \A h \in Hosts : srvEnd[h] # "none" => srvEnd'[h] # "none"
  BY <1>1, ConnStep DEF ClientOnClientConnected
<1>3. \A h \in Hosts : cliEnd'[h] => srvEnd'[h] # "none"
  <2>1. ASSUME NEW m \in Machines, NEW d \in Hosts, ClientOnClientConnected(m, d)
        PROVE  \A h \in Hosts : cliEnd'[h] => srvEnd'[h] # "none"
    BY <1>1, <2>1 DEF ClientOnClientConnected, ConnInv
  <2>2. CASE \A h \in Hosts : cliEnd'[h] => cliEnd[h]
    BY <1>2, <2>2 DEF ConnInv
  <2> QED BY <1>1, <2>1, <2>2, ConnStep
<1>4. ASSUME NEW m \in Machines, client'[m] \in Hosts
      PROVE  srvEnd'[client'[m]] # "none"
  <2>1. ASSUME NEW n \in Machines, NEW d \in Hosts, ClientOnClientConnected(n, d)
        PROVE  srvEnd'[client'[m]] # "none"
    <3>1. CASE m = n
      BY <1>1, <2>1, <3>1 DEF ClientOnClientConnected
    <3>2. CASE m # n
      <4>1. client'[m] = client[m] /\ srvEnd[client[m]] # "none"
        BY <1>1, <1>4, <2>1, <3>2 DEF ClientOnClientConnected, ConnInv
      <4> QED BY <1>2, <1>4, <4>1
    <3> QED BY <3>1, <3>2
  <2>2. CASE client' = client
    BY <1>2, <1>4, <2>2 DEF ConnInv
  <2> QED BY <1>1, <2>1, <2>2, ConnStep
<1>5. ASSUME NEW m \in Machines, NEW n \in Machines, client'[m] \in Hosts, client'[m] = client'[n]
      PROVE  m = n
  <2>1. ASSUME NEW p \in Machines, NEW d \in Hosts, ClientOnClientConnected(p, d)
        PROVE  m = n
    <3>1. /\ client' = [client EXCEPT ![p] = d]
          /\ \A q \in Machines : client[q] # d
      BY <1>1, <2>1 DEF ClientOnClientConnected, ConnInv
    <3>2. CASE m # p /\ n # p
      BY <1>1, <1>5, <3>1, <3>2 DEF ConnInv
    <3>3. CASE m = p \/ n = p
      BY <1>1, <1>5, <3>1, <3>3
    <3> QED BY <3>2, <3>3
  <2>2. CASE client' = client
    BY <1>5, <2>2 DEF ConnInv
  <2> QED BY <1>1, <2>1, <2>2, ConnStep
<1>6. ASSUME NEW t \in 1 .. Len(owner') PROVE srvEnd'[owner'[t].h] # "none"
  <2>1. CASE t \in 1 .. Len(owner)
    <3>1. owner'[t] = owner[t] /\ owner[t].h \in Hosts /\ srvEnd[owner[t].h] # "none"
      BY <1>1, <2>1, OwnerGrows DEF ConnInv
    <3> QED BY <1>2, <3>1
  <2>2. CASE t \notin 1 .. Len(owner)
    <3>1. GetClient(Head(tsLoop).h) /\ owner'[t].h = Head(tsLoop).h /\ CreateNewTerminal
      BY <1>1, <2>2, OwnerGrows
    <3>2. srvEnd' = srvEnd
      BY <3>1 DEF CreateNewTerminal
    <3> QED BY <3>1, <3>2 DEF GetClient
  <2> QED BY <2>1, <2>2
<1>7. ASSUME NEW m \in Machines, NEW t \in 1 .. Len(owner'), Hosted(m, t)'
      PROVE  client'[m] = owner'[t].h \/ Broken(owner[t].h)'
  <2>1. t \in 1 .. Len(owner)
    <3>1. CASE RunsOn(t, client[m])
      BY <3>1 DEF RunsOn, Created
    <3>2. CASE Hosted(m, t)
      <4>1. CASE t \in terminals[m]
        BY <4>1 DEF StartInv
      <4>2. CASE Has(loop[m], ClientTasks("HandleCreateTerminal", t))
        <5>1. PICK i \in DOMAIN loop[m] : loop[m][i] \in ClientTasks("HandleCreateTerminal", t)
          BY <4>2 DEF Has
        <5>2. loop[m] \in Seq(FitTask(m)) /\ i \in 1 .. Len(loop[m])
          BY DEF StartInv
        <5>3. loop[m][i] \in FitTask(m)
          BY <5>2, Elements
        <5> QED BY <5>1, <5>3 DEF FitTask, ClientTasks, Created
      <4> QED BY <3>2, <4>1, <4>2 DEF Hosted
    <3> QED BY <1>7, <3>1, <3>2, HostedStep
  <2>2. PICK h \in Hosts : h = owner[t].h /\ h = owner'[t].h
    BY <1>1, <2>1, OwnerGrows
  <2>3. CASE Broken(h)
    <3>1. Broken(h)'
      BY <1>1, <2>3, BrokenStays
    <3> QED BY <2>2, <3>1
  <2>4. CASE client[m] = h
    <3>1. ASSUME NEW n \in Machines, NEW d \in Hosts, ClientOnClientConnected(n, d)
          PROVE  client'[m] = h \/ Broken(h)
      <4>1. CASE n # m
        BY <1>1, <2>4, <3>1, <4>1 DEF ClientOnClientConnected
      <4>2. CASE n = m
        BY <2>2, <2>4, <3>1, <4>2 DEF ClientOnClientConnected, Connected, Broken, ConnInv
      <4> QED BY <4>1, <4>2
    <3>2. client'[m] = h \/ Broken(h)
      BY <1>1, <2>4, <3>1, ConnStep
    <3>3. Broken(h) => Broken(h)'
      BY <1>1, BrokenStays
    <3> QED BY <2>2, <3>2, <3>3
  <2>5. client[m] = h \/ Broken(h)
    <3>1. CASE Hosted(m, t)
      BY <2>1, <2>2, <3>1 DEF ConnInv
    <3>2. CASE RunsOn(t, client[m])
      BY <2>2, <3>2 DEF RunsOn
    <3> QED BY <1>7, <3>1, <3>2, HostedStep
  <2> QED BY <2>3, <2>4, <2>5
<1> QED BY <1>3, <1>4, <1>5, <1>6, <1>7 DEF ConnInv

LEMMA InitConnected == ASSUME Init PROVE ConnInv
<1>1. Len(<<>>) = 0
  OBVIOUS
<1>2. /\ owner = <<>>
      /\ \A h \in Hosts : ~cliEnd[h]
      /\ \A m \in Machines : client[m] = NoHost
  BY DEF Init, NetworkInit, TerminalServerInit, TerminalClientInit
<1> QED BY <1>1, <1>2, NetworkAssumption DEF ConnInv
-----------------------------------------------------------------------------
(***************************************************************************)
(* Order.  How far the report of a creation has come is never undone.      *)
(***************************************************************************)
\* A session is created by AddClient only, and what a page was told stays told.
LEMMA SessionStep ==
    ASSUME Typed, [Next]_vars, NEW c \in WebClients
    PROVE  /\ c \in DOMAIN sessions' =>
                 c \in DOMAIN sessions \/ (waLoop # <<>> /\ Head(waLoop) \in Adds(c))
           /\ told[c].added \subseteq told'[c].added
<1>1. told \in [WebClients -> ToldType] /\ waLoop \in Seq(WebAppTask)
  BY HostTypes
<1>2. told[c] \in ToldType
  BY <1>1
<1>3. CASE UNCHANGED <<sessions, told>>
  BY <1>3
<1>4. CASE AddClient
  <2>1. PICK d : d = Head(waLoop).c
    OBVIOUS
  <2>2. /\ waLoop # <<>> /\ Head(waLoop).fn = "AddClient" /\ Head(waLoop) \in WebAppTask
        /\ sessions' = Insert(sessions, d, EmptyMap)
        /\ told' = [told EXCEPT ![d].hosts = activeHosts, ![d].seen = activeHosts]
    BY <1>1, <1>4, <2>1, HeadAndTail DEF AddClient, TakeWA, Runs, CreateWebAppSession
  <2>3. c \in DOMAIN sessions' => c \in DOMAIN sessions \/ c = d
    BY <2>2 DEF Insert, Assign
  <2>4. told[c].added \subseteq told'[c].added
    <3>1. CASE c = d
      BY <1>1, <1>2, <2>2, <3>1 DEF ToldType
    <3>2. CASE c # d
      BY <1>1, <2>2, <3>2
    <3> QED BY <3>1, <3>2
  <2> QED BY <2>1, <2>2, <2>3, <2>4 DEF Adds
<1>5. CASE RemoveClient
  <2>1. DOMAIN sessions' \subseteq DOMAIN sessions /\ told' = told
    BY <1>5 DEF RemoveClient, EraseWebAppSession, Erase, Restrict
  <2> QED BY <2>1
<1>6. CASE OnTerminalDelReq
  <2>1. DOMAIN sessions' \subseteq DOMAIN sessions /\ told' = told
    BY <1>6 DEF OnTerminalDelReq, SessionDeleteTerminal
  <2> QED BY <2>1
<1>7. CASE OnRemoteHostInfoReceived \/ OnTerminalClientClosed
  <2>1. PICK h : h = Head(waLoop).h
    OBVIOUS
  <2>2. \/ told'[c] = told[c]
        \/ told'[c] = [told[c] EXCEPT !.hosts = @ \cup {h}, !.seen = @ \cup {h}]
        \/ told'[c] = [told[c] EXCEPT !.hosts = @ \ {h}]
    BY <1>7, <2>1 DEF OnRemoteHostInfoReceived, OnTerminalClientClosed
  <2>3. told'[c].added = told[c].added
    BY <1>2, <2>2 DEF ToldType
  <2>4. sessions' = sessions
    BY <1>7 DEF OnRemoteHostInfoReceived, OnTerminalClientClosed
  <2> QED BY <2>3, <2>4
<1>8. CASE OnTerminalCreated
  <2>1. PICK d, t : d = Head(waLoop).c /\ t = Head(waLoop).t
    OBVIOUS
  <2>2. \/ UNCHANGED <<sessions, told>>
        \/ told' = [told EXCEPT ![d].added = @ \cup {t}] /\ DOMAIN sessions' = DOMAIN sessions
    BY <1>8, <2>1 DEF OnTerminalCreated, SessionAddTerminal
  <2>3. told[c].added \subseteq told'[c].added
    <3>1. CASE c = d
      BY <1>1, <1>2, <2>2, <3>1 DEF ToldType
    <3>2. CASE c # d
      BY <1>1, <2>2, <3>2
    <3> QED BY <3>1, <3>2
  <2> QED BY <2>2, <2>3
<1>9. CASE OnTerminalOutput \/ OnTerminalClosed
  <2>1. PICK d, t : d = Head(waLoop).c /\ t = Head(waLoop).t
    OBVIOUS
  <2>2. \/ told' = told
        \/ told' = [told EXCEPT ![d].output = @ \cup {t}]
        \/ told' = [told EXCEPT ![d].closed = @ \cup {t}]
    BY <1>9, <2>1 DEF OnTerminalOutput, OnTerminalClosed
  <2>3. told'[c].added = told[c].added
    <3>1. CASE c = d
      BY <1>1, <1>2, <2>2, <3>1 DEF ToldType
    <3>2. CASE c # d
      BY <1>1, <2>2, <3>2
    <3> QED BY <3>1, <3>2
  <2>4. sessions' = sessions
    BY <1>9 DEF OnTerminalOutput, OnTerminalClosed
  <2> QED BY <2>3, <2>4
<1>10. CASE OnTerminalAddReq \/ OnTerminalResizeReq \/ OnTerminalKeyEvent
  BY <1>3, <1>10 DEF OnTerminalAddReq, OnTerminalResizeReq, OnTerminalKeyEvent, waVars
<1>11. CASE Pages
  BY <1>3, <1>11, PagesPost
<1>12. CASE TerminalLoop \/ ServerConnection \/ ClientConnection
            \/ (\E m \in Machines : ClientLoop(m)) \/ Shells \/ UNCHANGED vars
  <2>1. UNCHANGED waVars
    BY <1>12 DEF TerminalLoop, ServerConnection, TerminalOnly, ClientConnection, ClientLoop,
       Shells, ClientOnly, vars
  <2> QED BY <1>3, <2>1 DEF waVars
<1> QED
  BY <1>4, <1>5, <1>6, <1>7, <1>8, <1>9, <1>10, <1>11, <1>12 DEF Next, WebAppLoop

LEMMA PageKnowsStays ==
    ASSUME Typed, PageInv, [Next]_vars, NEW t \in 1 .. Len(owner), PageKnows(t)
    PROVE  PageKnows(t)'
<1>1. PICK c \in WebClients : c = owner[t].c /\ owner'[t].c = c
  BY ServiceTypes, OwnerGrows
<1>2. Came(c)
  BY <1>1 DEF PageInv
<1>3. waLoop # <<>> => Head(waLoop) \notin Adds(c)
  <2>1. waLoop \in Seq(WebAppTask) /\ ~Has(waLoop, Adds(c))
    BY <1>2, ServiceTypes DEF Came, Adds
  <2> QED BY <2>1, HasTail
<1> QED BY <1>1, <1>3, SessionStep DEF PageKnows

\* The report of the creation reaches a page that is still there.
LEMMA CreatedHeard ==
    ASSUME Routed, WebAppLoop, NEW t \in 1 .. Len(owner),
           waLoop # <<>>, Head(waLoop) \in PageTasks("OnTerminalCreated", t)
    PROVE  PageKnows(t)'
<1>1. /\ Head(waLoop).fn = "OnTerminalCreated" /\ Head(waLoop).t = t
      /\ Head(waLoop) \in RoutedWebAppTask
  BY HeadAndTail DEF PageTasks, Routed, RoutedLoops
<1>2. PICK c \in WebClients : c = Head(waLoop).c /\ c = owner[t].c
  <2>1. Head(waLoop).c = owner[t].c
    BY <1>1 DEF RoutedWebAppTask, OwnedBy
  <2> QED BY <2>1, ServiceTypes DEF Routed
<1>3. OnTerminalCreated /\ owner' = owner
  BY <1>1 DEF WebAppLoop, WebAppOnly, tsVars, AddClient, RemoveClient, OnTerminalAddReq,
     OnTerminalResizeReq, OnTerminalDelReq, OnTerminalKeyEvent, OnRemoteHostInfoReceived,
     OnTerminalClientClosed, OnTerminalOutput, OnTerminalClosed, TakeWA, Runs
<1>4. told \in [WebClients -> ToldType] /\ told[c] \in ToldType
  BY HostTypes DEF Routed
<1>5. CASE HasSession(c)
  <2>1. told' = [told EXCEPT ![c].added = @ \cup {t}]
    BY <1>1, <1>2, <1>3, <1>5 DEF OnTerminalCreated
  <2>2. t \in told'[c].added
    BY <1>4, <2>1 DEF ToldType
  <2> QED BY <1>2, <1>3, <2>2 DEF PageKnows
<1>6. CASE ~HasSession(c)
  <2>1. c \notin DOMAIN sessions'
    BY <1>2, <1>3, <1>6 DEF OnTerminalCreated, HasSession
  <2> QED BY <1>2, <1>3, <2>1 DEF PageKnows
<1> QED BY <1>5, <1>6

\* No terminal comes back to _remote_hosts.
LEMMA AppClientGone ==
    ASSUME Routed, [Next]_vars, NEW t \in 1 .. Len(owner), NEW h \in Hosts, ~HasAppClient(h, t)
    PROVE  ~HasAppClient(h, t)'
<1>1. CASE remoteHosts' = remoteHosts
  BY <1>1 DEF HasAppClient
<1>2. CASE CreateNewTerminal
  <2>1. idCounter + 1 # t
    <3>1. Len(owner) = idCounter /\ idCounter \in Nat
      BY ServiceTypes DEF Routed
    <3> QED BY <3>1
  <2>2. CASE remoteHosts' = remoteHosts
    BY <1>1, <2>2
  <2>3. ASSUME NEW d, NEW c, AddTerminal(d, idCounter + 1, c)
        PROVE  ~HasAppClient(h, t)'
    <3>1. (h # d /\ h \in DOMAIN remoteHosts')
             => h \in DOMAIN remoteHosts /\ remoteHosts'[h] = remoteHosts[h]
      BY <2>3 DEF AddTerminal, Assign
    <3>2. h = d => remoteHosts'[h] = Insert(Entry(remoteHosts, h), idCounter + 1, c)
      BY <2>3 DEF AddTerminal, Assign
    <3>3. t \in DOMAIN Insert(Entry(remoteHosts, h), idCounter + 1, c)
             => t \in DOMAIN Entry(remoteHosts, h)
      BY <2>1 DEF Insert, Assign
    <3>4. t \in DOMAIN Entry(remoteHosts, h) => HasAppClient(h, t)
      BY DEF Entry, EmptyMap, HasAppClient
    <3>5. CASE h = d
      BY <3>2, <3>3, <3>4, <3>5 DEF HasAppClient
    <3>6. CASE h # d
      BY <3>1, <3>6 DEF HasAppClient
    <3> QED BY <3>5, <3>6
  <2> QED BY <1>2, <2>2, <2>3 DEF CreateNewTerminal, NextId
<1>3. CASE OnClientClosed
  <2>1. PICK d : remoteHosts' = Erase(remoteHosts, d)
    BY <1>3 DEF OnClientClosed
  <2>2. h \in DOMAIN remoteHosts' => h \in DOMAIN remoteHosts /\ remoteHosts'[h] = remoteHosts[h]
    BY <2>1 DEF Erase, Restrict
  <2> QED BY <2>2 DEF HasAppClient
<1>4. CASE \/ ResizeTerminal \/ DeleteTerminal \/ SendKeyEvent
           \/ HandleTerminalCreated \/ HandleTerminalRead \/ HandleTerminalEnd
  BY <1>1, <1>4 DEF ResizeTerminal, DeleteTerminal, SendKeyEvent, Command,
     HandleTerminalCreated, HandleTerminalRead, HandleTerminalEnd, Report, tsVars
<1>5. CASE Pages \/ WebAppLoop \/ ServerConnection \/ UNCHANGED vars
  BY <1>1, <1>5 DEF Pages, WebAppLoop, ServerConnection, WebAppOnly, tsVars, vars,
     ServerOnClientRead, ServerOnClientClosed, ServerOnClientUnresponsive
<1>6. CASE ClientConnection \/ (\E m \in Machines : ClientLoop(m)) \/ Shells
  BY <1>1, <1>6 DEF ClientConnection, ClientLoop, Shells, ClientOnly, tsVars
<1> QED BY <1>2, <1>3, <1>4, <1>5, <1>6 DEF Next, TerminalLoop

LEMMA ServerKnowsStays ==
    ASSUME Routed, PageInv, [Next]_vars, NEW t \in 1 .. Len(owner), ServerKnows(t)
    PROVE  ServerKnows(t)'
<1>1. Typed /\ waLoop \in Seq(WebAppTask)
  BY ServiceTypes DEF Routed
<1>2. PICK h \in Hosts : h = owner[t].h /\ h = owner'[t].h
  BY <1>1, ServiceTypes, OwnerGrows
<1>3. CASE PageKnows(t)
  BY <1>1, <1>3, PageKnowsStays DEF ServerKnows
<1>4. CASE ~HasAppClient(h, t)
  <2>1. ~HasAppClient(h, t)'
    BY <1>4, AppClientGone
  <2> QED BY <1>2, <2>1 DEF ServerKnows
<1>5. CASE Has(waLoop, PageTasks("OnTerminalCreated", t))
  <2>1. PICK A : A = PageTasks("OnTerminalCreated", t)
    OBVIOUS
  <2>2. ASSUME NEW k \in WebAppTask, waLoop' = Append(waLoop, k)
        PROVE  Has(waLoop', A)
    BY <1>1, <1>5, <2>1, <2>2, HasAppend
  <2>3. CASE waLoop' = waLoop
    BY <1>5, <2>3 DEF ServerKnows
  <2>4. CASE WebAppLoop /\ waLoop # <<>> /\ waLoop' = Tail(waLoop)
    <3>1. CASE Head(waLoop) \in A
      BY <2>1, <2>4, <3>1, CreatedHeard DEF ServerKnows
    <3>2. CASE Head(waLoop) \notin A
      <4>1. Has(waLoop', A)
        BY <1>1, <1>5, <2>1, <2>4, <3>2, HasTail
      <4> QED BY <2>1, <4>1 DEF ServerKnows
    <3> QED BY <3>1, <3>2
  <2>5. Has(waLoop', A) => ServerKnows(t)'
    BY <2>1 DEF ServerKnows
  <2> QED BY <1>1, <2>2, <2>3, <2>4, <2>5, WAStep
<1> QED BY <1>2, <1>3, <1>4, <1>5 DEF ServerKnows

\* TerminalServer's loop passes the report of the creation on.
LEMMA CreatedForwarded ==
    ASSUME Routed, TerminalLoop, [Next]_vars, NEW t \in 1 .. Len(owner), tsLoop # <<>>,
           Head(tsLoop) \in ServerTasks("HandleTerminalCreated", owner[t].h, t)
    PROVE  ServerKnows(t)'
<1>1. Typed /\ waLoop \in Seq(WebAppTask)
  BY ServiceTypes DEF Routed
<1>2. PICK h \in Hosts : h = owner[t].h /\ h = owner'[t].h
  BY <1>1, ServiceTypes, OwnerGrows
<1>3. Head(tsLoop).fn = "HandleTerminalCreated" /\ Head(tsLoop).h = h /\ Head(tsLoop).t = t
  BY <1>2 DEF ServerTasks
<1>4. HandleTerminalCreated
  BY <1>3 DEF TerminalLoop, CreateNewTerminal, ResizeTerminal, DeleteTerminal,
     SendKeyEvent, Command, OnClientClosed, HandleTerminalRead, HandleTerminalEnd, Report,
     TakeTS, Runs
<1>5. CASE ~HasAppClient(h, t)
  <2>1. ~HasAppClient(h, t)'
    BY <1>5, AppClientGone
  <2> QED BY <1>2, <2>1 DEF ServerKnows
<1>6. CASE HasAppClient(h, t)
  <2>1. PICK k : k = [fn |-> "OnTerminalCreated", c |-> remoteHosts[h][t], t |-> t,
                      h |-> h, ok |-> Head(tsLoop).ok]
    OBVIOUS
  <2>2. k \in WebAppTask
    <3>1. Head(tsLoop).ok \in BOOLEAN
      BY <1>1, <1>3, TerminalLoopSteps, TerminalTaskFields
    <3>2. remoteHosts[h][t] \in WebClients /\ t \in TerminalId
      BY <1>1, <1>6 DEF HasAppClient, Typed, TypeOK, TerminalServerTypeOK
    <3> QED BY <2>1, <3>1, <3>2, PostedTasks
  <2>3. waLoop' = Append(waLoop, k)
    BY <1>3, <1>4, <1>6, <2>1 DEF HandleTerminalCreated, Report, GetAppClinetId
  <2>4. k \in PageTasks("OnTerminalCreated", t)
    <3>1. k.fn = "OnTerminalCreated" /\ k.t = t
      BY <2>1
    <3> QED BY <2>2, <3>1 DEF PageTasks
  <2>5. Has(Append(waLoop, k), PageTasks("OnTerminalCreated", t))
    BY <1>1, <2>4, HasAppend
  <2> QED BY <2>3, <2>5 DEF ServerKnows
<1> QED BY <1>5, <1>6

LEMMA ReportReadStays ==
    ASSUME Routed, PageInv, [Next]_vars, NEW t \in 1 .. Len(owner), ReportRead(t)
    PROVE  ReportRead(t)'
<1>1. Typed /\ tsLoop \in Seq(TerminalTask)
  BY ServiceTypes DEF Routed
<1>2. PICK h \in Hosts : h = owner[t].h /\ h = owner'[t].h
  BY <1>1, ServiceTypes, OwnerGrows
<1>3. CASE ServerKnows(t)
  BY <1>3, ServerKnowsStays DEF ReportRead
<1>4. CASE Has(tsLoop, ServerTasks("HandleTerminalCreated", h, t))
  <2>1. PICK A : A = ServerTasks("HandleTerminalCreated", h, t)
    OBVIOUS
  <2>2. Has(tsLoop', A) => ReportRead(t)'
    BY <1>2, <2>1 DEF ReportRead
  <2>3. ASSUME NEW k \in TerminalTask, tsLoop' = Append(tsLoop, k)
        PROVE  Has(tsLoop', A)
    BY <1>1, <1>4, <2>1, <2>3, HasAppend
  <2>4. ASSUME NEW r \in Seq(TerminalTask), tsLoop' = tsLoop \o r
        PROVE  Has(tsLoop', A)
    BY <1>1, <1>4, <2>1, <2>4, HasConcat
  <2>5. CASE tsLoop' = tsLoop
    BY <1>4, <2>1, <2>2, <2>5
  <2>6. CASE TerminalLoop /\ tsLoop # <<>> /\ tsLoop' = Tail(tsLoop)
    <3>1. CASE Head(tsLoop) \in A
      BY <1>2, <2>1, <2>6, <3>1, CreatedForwarded DEF ReportRead
    <3>2. CASE Head(tsLoop) \notin A
      BY <1>1, <1>4, <2>1, <2>2, <2>6, <3>2, HasTail
    <3> QED BY <3>1, <3>2
  <2> QED BY <1>1, <2>2, <2>3, <2>4, <2>5, <2>6, TSStep
<1> QED BY <1>2, <1>3, <1>4 DEF ReportRead

\* What a step does to what a host has sent.
SentBy(m, msg) ==
    \/ msg.type = "ON_TERMINAL_CREATED" /\ SendCreated(m) /\ msg.t = Head(loop[m]).t
    \/ msg.type = "ON_TERMINAL_END" /\ OnTerminalEnd(m) /\ msg.t = Head(loop[m]).t
    \/ msg.type = "ON_TERMINAL_READ"

LEMMA UpStep ==
    ASSUME Typed, [Next]_vars, NEW h \in Hosts
    PROVE  \/ up'[h] = up[h]
           \/ ServerOnClientRead(h) /\ TerminalOnly /\ up[h] # <<>> /\ up'[h] = Tail(up[h])
           \/ up'[h] = <<>> /\ srvEnd'[h] = "closed"
           \/ srvEnd[h] = "none"
           \/ \E m \in Machines, msg \in UpMsg :
                 /\ client[m] = h /\ cliEnd[h] /\ Delivers(h)
                 /\ up'[h] = Append(up[h], msg)
                 /\ SentBy(m, msg)
<1>1. /\ up \in [Hosts -> Seq(UpMsg)] /\ srvEnd \in [Hosts -> EndState]
      /\ loop \in [Machines -> Seq(ClientTask)] /\ shells \in [Machines -> SUBSET TerminalId]
  BY ServiceTypes
<1>2. CASE up' = up
  BY <1>2
<1>3. CASE Pages \/ WebAppLoop \/ TerminalLoop \/ UNCHANGED vars
  <2>1. CASE Pages
    BY <1>2, <2>1, PagesPost
  <2>2. CASE WebAppLoop
    BY <1>2, <2>2 DEF WebAppLoop, AddClient, RemoveClient, OnTerminalAddReq,
       OnTerminalResizeReq, OnTerminalDelReq, OnTerminalKeyEvent, OnRemoteHostInfoReceived,
       OnTerminalClientClosed, OnTerminalCreated, OnTerminalOutput, OnTerminalClosed
  <2>3. CASE TerminalLoop
    BY <1>2, <2>3, TerminalLoopSteps
  <2>4. CASE UNCHANGED vars
    BY <1>2, <2>4 DEF vars, netVars
  <2> QED BY <1>3, <2>1, <2>2, <2>3, <2>4
<1>4. CASE ServerConnection
  <2>1. ASSUME NEW d \in Hosts, ServerOnClientRead(d), TerminalOnly
        PROVE  \/ up'[h] = up[h]
               \/ ServerOnClientRead(h) /\ TerminalOnly /\ up[h] # <<>> /\ up'[h] = Tail(up[h])
    BY <1>1, <2>1 DEF ServerOnClientRead
  <2>2. ASSUME NEW d \in Hosts, ServerOnClientClosed(d)
        PROVE  up'[h] = up[h] \/ (up'[h] = <<>> /\ srvEnd'[h] = "closed")
    BY <1>1, <2>2 DEF ServerOnClientClosed
  <2>3. ASSUME NEW d \in Hosts, ServerOnClientUnresponsive(d)
        PROVE  up' = up
    BY <2>3 DEF ServerOnClientUnresponsive
  <2> QED BY <1>2, <1>4, <2>1, <2>2, <2>3 DEF ServerConnection
<1>5. ASSUME NEW m \in Machines, NEW msg \in UpMsg, SendUp(client[m], msg), SentBy(m, msg)
      PROVE  \/ up'[h] = up[h]
             \/ \E n \in Machines, e \in UpMsg :
                 /\ client[n] = h /\ cliEnd[h] /\ Delivers(h)
                 /\ up'[h] = Append(up[h], e)
                 /\ SentBy(n, e)
  <2>1. \/ up'[h] = up[h]
        \/ h = client[m] /\ cliEnd[h] /\ Delivers(h) /\ up'[h] = Append(up[h], msg)
    BY <1>1, <1>5, SentUp
  <2> QED BY <1>5, <2>1
<1>6. CASE ClientConnection
  <2>1. ASSUME NEW m \in Machines, NEW d \in Hosts, ClientOnClientConnected(m, d)
        PROVE  up'[h] = up[h] \/ srvEnd[h] = "none"
    BY <1>1, <2>1 DEF ClientOnClientConnected
  <2> QED BY <1>2, <1>6, <2>1 DEF ClientConnection, ClientOnClientRead, HandleDisconnected
<1>7. ASSUME NEW m \in Machines, ClientLoop(m)
      PROVE  \/ up'[h] = up[h]
             \/ \E n \in Machines, e \in UpMsg :
                 /\ client[n] = h /\ cliEnd[h] /\ Delivers(h)
                 /\ up'[h] = Append(up[h], e)
                 /\ SentBy(n, e)
  <2>1. CASE SendCreated(m)
    <3>1. loop[m] # <<>> /\ Head(loop[m]).fn = "SendCreated" /\ loop[m] \in Seq(ClientTask)
      BY <1>1, <2>1 DEF SendCreated, Take, Runs
    <3>2. PICK k \in ClientTask : k = Head(loop[m])
      BY <3>1, HeadAndTail
    <3>3. k.t \in TerminalId /\ k.ok \in BOOLEAN
      BY <3>1, <3>2, MessageFields
    <3>4. PICK msg \in UpMsg : msg = [type |-> "ON_TERMINAL_CREATED", t |-> k.t, ok |-> k.ok]
      BY <3>3, SentMessages
    <3>5. SendUp(client[m], msg) /\ msg.t = Head(loop[m]).t /\ msg.type = "ON_TERMINAL_CREATED"
      BY <2>1, <3>2, <3>4 DEF SendCreated
    <3> QED BY <1>5, <2>1, <3>5 DEF SentBy
  <2>2. CASE OnTerminalEnd(m)
    <3>1. loop[m] # <<>> /\ Head(loop[m]).fn = "OnTerminalEnd" /\ loop[m] \in Seq(ClientTask)
      BY <1>1, <2>2 DEF OnTerminalEnd, Take, Runs
    <3>2. PICK k \in ClientTask : k = Head(loop[m])
      BY <3>1, HeadAndTail
    <3>3. k.t \in TerminalId
      BY <3>1, <3>2, MessageFields
    <3>4. PICK msg \in UpMsg : msg = [type |-> "ON_TERMINAL_END", t |-> k.t]
      BY <3>3, SentMessages
    <3>5. SendUp(client[m], msg) /\ msg.t = Head(loop[m]).t /\ msg.type = "ON_TERMINAL_END"
      BY <2>2, <3>2, <3>4 DEF OnTerminalEnd
    <3> QED BY <1>5, <2>2, <3>5 DEF SentBy
  <2>3. CASE up' = up
    BY <2>3
  <2> QED BY <1>7, <2>1, <2>2, <2>3 DEF ClientLoop, HandleCreateTerminal,
         HandleDeleteTerminal, HandleResizeTerminal, HandleTerminalWrite, DeleteTerminals,
         EnableReadFromTerminals, netVars
<1>8. CASE Shells
  <2>1. ASSUME NEW m \in Machines, NEW t, OnTerminalRead(m, t)
        PROVE  \/ up'[h] = up[h]
               \/ \E n \in Machines, e \in UpMsg :
                   /\ client[n] = h /\ cliEnd[h] /\ Delivers(h)
                   /\ up'[h] = Append(up[h], e)
                   /\ SentBy(n, e)
    <3>1. t \in TerminalId
      BY <1>1, <2>1 DEF OnTerminalRead
    <3>2. PICK msg \in UpMsg : msg = [type |-> "ON_TERMINAL_READ", t |-> t]
      BY <3>1, SentMessages
    <3>3. SendUp(client[m], msg) /\ msg.type = "ON_TERMINAL_READ"
      BY <2>1, <3>2 DEF OnTerminalRead
    <3> QED BY <1>5, <3>3 DEF SentBy
  <2> QED BY <1>2, <1>8, <2>1 DEF Shells, ShellExit, netVars
<1> QED BY <1>3, <1>4, <1>6, <1>7, <1>8 DEF Next

LEMMA GoneStays ==
    ASSUME Typed, [Next]_vars, NEW h \in Hosts, Gone(h)
    PROVE  Gone(h)'
<1>1. CASE Broken(h)
  BY <1>1, BrokenStays DEF Gone
<1>2. CASE srvEnd[h] = "closed"
  <2>1. srvEnd \in [Hosts -> EndState]
    BY ServiceTypes
  <2>2. ASSUME NEW m \in Machines, NEW d \in Hosts, ClientOnClientConnected(m, d)
        PROVE  srvEnd'[h] = "closed"
    BY <1>2, <2>1, <2>2 DEF ClientOnClientConnected
  <2>3. srvEnd'[h] = "closed"
    BY <1>2, <2>2, ConnStep
  <2> QED BY <2>3 DEF Gone
<1> QED BY <1>1, <1>2 DEF Gone

\* The report of a creation that the connection thread reads is posted.
LEMMA CreatedRead ==
    ASSUME Typed, NEW h \in Hosts, ServerOnClientRead(h), NEW t,
           up[h] # <<>>, Head(up[h]) \in Reports("ON_TERMINAL_CREATED", t)
    PROVE  Has(tsLoop', ServerTasks("HandleTerminalCreated", h, t))
<1>1. tsLoop \in Seq(TerminalTask) /\ up[h] \in Seq(UpMsg)
  BY ServiceTypes
<1>2. PICK msg \in UpMsg : msg = Head(up[h])
  BY <1>1, HeadAndTail
<1>3. msg.type = "ON_TERMINAL_CREATED" /\ msg.t = t /\ t \in TerminalId /\ msg.ok \in BOOLEAN
  BY <1>2, MessageFields DEF Reports
<1>4. PICK k : k = [fn |-> "HandleTerminalCreated", h |-> h, t |-> t, ok |-> msg.ok]
  OBVIOUS
<1>5. k \in TerminalTask
  BY <1>3, <1>4, PostedTasks
<1>6. k \in ServerTasks("HandleTerminalCreated", h, t)
  <2>1. k.fn = "HandleTerminalCreated" /\ k.h = h /\ k.t = t
    BY <1>4
  <2> QED BY <1>5, <2>1 DEF ServerTasks
<1>7. tsLoop' = Append(tsLoop, k)
  <2>1. tsLoop' = Append(tsLoop, TaskOf(h, msg))
    BY <1>2, <1>3 DEF ServerOnClientRead
  <2>2. TaskOf(h, msg) = k
    BY <1>3, <1>4 DEF TaskOf
  <2> QED BY <2>1, <2>2
<1>8. Has(Append(tsLoop, k), ServerTasks("HandleTerminalCreated", h, t))
  BY <1>1, <1>6, HasAppend
<1> QED BY <1>7, <1>8

LEMMA ReportLeftStays ==
    ASSUME Routed, PageInv, ConnInv, [Next]_vars, NEW t \in 1 .. Len(owner), ReportLeft(t)
    PROVE  ReportLeft(t)'
<1>1. Typed
  BY DEF Routed
<1>2. PICK h \in Hosts : h = owner[t].h /\ h = owner'[t].h
  BY <1>1, ServiceTypes, OwnerGrows
<1>3. CASE ReportRead(t)
  BY <1>3, ReportReadStays DEF ReportLeft
<1>4. CASE Gone(h)
  <2>1. Gone(h)'
    BY <1>1, <1>4, GoneStays
  <2> QED BY <1>2, <2>1 DEF ReportLeft
<1>5. CASE Has(up[h], Reports("ON_TERMINAL_CREATED", t))
  <2>1. PICK A : A = Reports("ON_TERMINAL_CREATED", t)
    OBVIOUS
  <2>2. up[h] \in Seq(UpMsg) /\ srvEnd[h] # "none"
    BY <1>1, <1>2, ServiceTypes DEF ConnInv
  <2>3. Has(up'[h], A) => ReportLeft(t)'
    BY <1>2, <2>1 DEF ReportLeft
  <2>4. CASE up'[h] = up[h]
    BY <1>5, <2>1, <2>3, <2>4
  <2>5. CASE ServerOnClientRead(h) /\ up[h] # <<>> /\ up'[h] = Tail(up[h])
    <3>1. CASE Head(up[h]) \in A
      <4>1. Has(tsLoop', ServerTasks("HandleTerminalCreated", h, t))
        BY <1>1, <2>1, <2>5, <3>1, CreatedRead
      <4> QED BY <1>2, <4>1 DEF ReportLeft, ReportRead
    <3>2. CASE Head(up[h]) \notin A
      BY <1>5, <2>1, <2>2, <2>3, <2>5, <3>2, HasTail
    <3> QED BY <3>1, <3>2
  <2>6. CASE up'[h] = <<>> /\ srvEnd'[h] = "closed"
    BY <1>2, <2>6 DEF ReportLeft, Gone
  <2>7. ASSUME NEW msg \in UpMsg, up'[h] = Append(up[h], msg)
        PROVE  ReportLeft(t)'
    <3>1. Has(Append(up[h], msg), A)
      BY <1>5, <2>1, <2>2, HasAppend
    <3> QED BY <2>3, <2>7, <3>1
  <2> QED BY <1>1, <2>2, <2>4, <2>5, <2>6, <2>7, UpStep
<1> QED BY <1>2, <1>3, <1>4, <1>5 DEF ReportLeft

LEMMA HeadKept ==
    ASSUME NEW S, NEW q \in Seq(S), q # <<>>
    PROVE  /\ \A k \in S : Append(q, k) # <<>> /\ Head(Append(q, k)) = Head(q)
           /\ \A r \in Seq(S) : q \o r # <<>> /\ Head(q \o r) = Head(q)
<1>1. ASSUME NEW k \in S
      PROVE  Append(q, k) # <<>> /\ Head(Append(q, k)) = Head(q)
  <2>1. PICK p \in Seq(S) : p = Append(q, k)
    <3>1. Append(q, k) \in Seq(S)
      BY <1>1
    <3> QED BY <3>1
  <2>2. Len(p) = Len(q) + 1 /\ p[1] = q[1] /\ Len(q) > 0
    BY <2>1
  <2> QED BY <2>1, <2>2
<1>2. ASSUME NEW r \in Seq(S)
      PROVE  q \o r # <<>> /\ Head(q \o r) = Head(q)
  <2>1. PICK p \in Seq(S) : p = q \o r
    <3>1. q \o r \in Seq(S)
      BY <1>2
    <3> QED BY <3>1
  <2>2. Len(p) = Len(q) + Len(r) /\ p[1] = q[1] /\ Len(q) > 0 /\ Len(r) >= 0
    BY <2>1
  <2> QED BY <2>1, <2>2
<1> QED BY <1>1, <1>2

\* What a step does to the loop of a machine.
LoopPosted(m, k) ==
    \/ k.fn = "OnTerminalEnd" /\ ShellExit(m, k.t) /\ ClientOnly
    \/ k.fn = "DeleteTerminals" /\ HandleDisconnected(m) /\ ClientOnly
    \/ /\ ClientOnClientRead(m) /\ ClientOnly
       /\ Head(down[client[m]]).type # "ON_TERMINAL_READ_ACK"
       /\ k.fn = HandlerOf(Head(down[client[m]]).type)
       /\ k.t = Head(down[client[m]]).t

LEMMA LoopStep ==
    ASSUME Typed, [Next]_vars, NEW m \in Machines
    PROVE  \/ loop'[m] = loop[m]
           \/ \E r \in Seq(ClientTask) :
                 /\ loop'[m] = loop[m] \o r
                 /\ \A i \in DOMAIN r : r[i].fn = "EnableReadFromTerminals"
           \/ \E k \in ClientTask : loop'[m] = Append(loop[m], k) /\ LoopPosted(m, k)
           \/ HandleCreateTerminal(m) /\ ClientOnly
           \/ /\ ClientLoop(m) /\ ClientOnly /\ ~HandleCreateTerminal(m)
              /\ loop[m] # <<>> /\ loop'[m] = Tail(loop[m])
<1> DEFINE Way(q) ==
           \/ q = loop[m]
           \/ \E r \in Seq(ClientTask) :
                 /\ q = loop[m] \o r
                 /\ \A i \in DOMAIN r : r[i].fn = "EnableReadFromTerminals"
           \/ \E k \in ClientTask : q = Append(loop[m], k) /\ LoopPosted(m, k)
           \/ HandleCreateTerminal(m) /\ ClientOnly
           \/ /\ ClientLoop(m) /\ ClientOnly /\ ~HandleCreateTerminal(m)
              /\ loop[m] # <<>> /\ q = Tail(loop[m])
<1>1. /\ loop \in [Machines -> Seq(ClientTask)] /\ loop[m] \in Seq(ClientTask)
      /\ shells \in [Machines -> SUBSET TerminalId] /\ down \in [Hosts -> Seq(DownMsg)]
  BY ServiceTypes
<1>2. ASSUME NEW n \in Machines, NEW c \in Int, loop' = [loop EXCEPT ![n] = @ \o ReadControl(c)]
      PROVE  Way(loop'[m])
  <2>1. PICK r \in Seq(ClientTask) : r = ReadControl(c)
    BY ReadControlType
  <2>2. \A i \in DOMAIN r : r[i].fn = "EnableReadFromTerminals"
    BY <2>1, OnlyReadControl
  <2>3. loop'[m] = loop[m] \/ loop'[m] = loop[m] \o r
    BY <1>1, <1>2, <2>1
  <2> QED BY <2>2, <2>3
<1>3. ASSUME NEW n \in Machines, NEW k \in ClientTask, loop' = [loop EXCEPT ![n] = Append(@, k)],
             n = m => LoopPosted(m, k)
      PROVE  Way(loop'[m])
  <2>1. loop'[m] = loop[m] \/ (n = m /\ loop'[m] = Append(loop[m], k))
    BY <1>1, <1>3
  <2> QED BY <1>3, <2>1
<1>4. CASE Pages \/ WebAppLoop \/ TerminalLoop \/ ServerConnection \/ UNCHANGED vars
  <2>1. loop' = loop
    BY <1>4 DEF Pages, WebAppLoop, TerminalLoop, ServerConnection, WebAppOnly,
       TerminalOnly, tcVars, vars
  <2> QED BY <2>1
<1>5. CASE ClientConnection
  <2>1. ASSUME NEW n \in Machines, NEW h \in Hosts, ClientOnClientConnected(n, h)
        PROVE  loop' = loop
    BY <2>1 DEF ClientOnClientConnected
  <2>2. ASSUME NEW n \in Machines, HandleDisconnected(n), ClientOnly
        PROVE  Way(loop'[m])
    <3>1. PICK k \in ClientTask : k = [fn |-> "DeleteTerminals"]
      BY SentMessages
    <3>2. k.fn = "DeleteTerminals"
      BY <3>1
    <3>3. n = m => LoopPosted(m, k)
      BY <2>2, <3>2 DEF LoopPosted
    <3>4. loop' = [loop EXCEPT ![n] = Append(@, k)]
      BY <2>2, <3>1 DEF HandleDisconnected
    <3> QED BY <1>3, <3>3, <3>4
  <2>3. ASSUME NEW n \in Machines, ClientOnClientRead(n), ClientOnly
        PROVE  Way(loop'[m])
    <3>1. PICK h \in Hosts : h = client[n] /\ down[h] # <<>>
      BY <2>3 DEF ClientOnClientRead, Connected
    <3>2. PICK msg \in DownMsg : msg = Head(down[h])
      BY <1>1, <3>1, HeadAndTail
    <3>3. CASE msg.type = "ON_TERMINAL_READ_ACK"
      <4>1. PICK c \in Int : c = pending[n] - 1
        BY DEF Typed, TypeOK, TerminalClientTypeOK
      <4> QED BY <1>2, <2>3, <3>1, <3>2, <3>3, <4>1 DEF ClientOnClientRead, ResolvePendingMsgUpdated
    <3>4. CASE msg.type # "ON_TERMINAL_READ_ACK"
      <4>1. PICK k : k = [fn |-> HandlerOf(msg.type), t |-> msg.t]
        OBVIOUS
      <4>2. loop' = [loop EXCEPT ![n] = Append(@, k)]
        BY <2>3, <3>1, <3>2, <3>4, <4>1 DEF ClientOnClientRead
      <4>3. k \in ClientTask
        BY <3>4, <4>1, MessageFields, SentMessages DEF HandlerOf
      <4>4. k.fn = HandlerOf(msg.type) /\ k.t = msg.t
        BY <4>1
      <4>5. n = m => LoopPosted(m, k)
        BY <2>3, <3>1, <3>2, <3>4, <4>4 DEF LoopPosted
      <4> QED BY <1>3, <4>2, <4>3, <4>5
    <3> QED BY <3>3, <3>4
  <2> QED BY <1>5, <2>1, <2>2, <2>3 DEF ClientConnection
<1>6. CASE Shells
  <2>1. ASSUME NEW n \in Machines, NEW u, OnTerminalRead(n, u)
        PROVE  Way(loop'[m])
    <3>1. PICK c \in Int : c = pending[n] + 1
      BY DEF Typed, TypeOK, TerminalClientTypeOK
    <3> QED BY <1>2, <2>1, <3>1 DEF OnTerminalRead, ResolvePendingMsgUpdated
  <2>2. ASSUME NEW n \in Machines, NEW u \in TerminalId, ShellExit(n, u), ClientOnly
        PROVE  Way(loop'[m])
    <3>1. PICK k \in ClientTask : k = [fn |-> "OnTerminalEnd", t |-> u]
      BY SentMessages
    <3>2. k.fn = "OnTerminalEnd" /\ k.t = u
      BY <3>1
    <3>3. n = m => LoopPosted(m, k)
      BY <2>2, <3>2 DEF LoopPosted
    <3>4. loop' = [loop EXCEPT ![n] = Append(@, k)]
      BY <2>2, <3>1 DEF ShellExit
    <3> QED BY <1>3, <3>3, <3>4
  <2>3. \A u \in 1 .. idCounter : u \in TerminalId
    BY ServiceTypes DEF TerminalId
  <2> QED BY <1>6, <2>1, <2>2, <2>3 DEF Shells
<1>7. ASSUME NEW n \in Machines, ClientLoop(n)
      PROVE  Way(loop'[m])
  <2>1. ClientOnly
    BY <1>7 DEF ClientLoop
  <2>2. CASE n = m /\ ~HandleCreateTerminal(m)
    <3>1. loop[m] # <<>> /\ loop' = [loop EXCEPT ![m] = Tail(@)]
      BY <1>7, <2>2 DEF ClientLoop, SendCreated,
       HandleDeleteTerminal, HandleResizeTerminal, HandleTerminalWrite, DeleteTerminals,
       EnableReadFromTerminals, OnTerminalEnd, Take, Runs
    <3>2. loop'[m] = Tail(loop[m])
      BY <1>1, <3>1
    <3> QED BY <1>7, <2>1, <2>2, <3>1, <3>2
  <2>3. CASE n # m
    <3>1. loop'[m] = loop[m]
      BY <1>1, <1>7, <2>3 DEF ClientLoop, HandleCreateTerminal, SendCreated,
       HandleDeleteTerminal, HandleResizeTerminal, HandleTerminalWrite, DeleteTerminals,
       EnableReadFromTerminals, OnTerminalEnd, Take
    <3> QED BY <3>1
  <2> QED BY <2>1, <2>2, <2>3
<1>8. Way(loop'[m])
  BY <1>4, <1>5, <1>6, <1>7 DEF Next
<1> QED BY <1>8

\* The next thing the loop does is what HandleCreateTerminal left to do.
LEMMA StartingStays ==
    ASSUME Typed, [Next]_vars, NEW m \in Machines, NEW t, Starting(m, t)
    PROVE  Starting(m, t)' \/ (SendCreated(m) /\ ClientOnly)
<1>1. loop[m] \in Seq(ClientTask) /\ loop[m] # <<>> /\ Head(loop[m]).fn = "SendCreated"
  BY ServiceTypes DEF Starting, ClientTasks
<1>2. ASSUME loop'[m] # <<>>, Head(loop'[m]) = Head(loop[m])
      PROVE  Starting(m, t)'
  BY <1>2 DEF Starting, ClientTasks
<1>3. CASE loop'[m] = loop[m]
  BY <1>1, <1>2, <1>3
<1>4. ASSUME NEW r \in Seq(ClientTask), loop'[m] = loop[m] \o r
      PROVE  Starting(m, t)'
  BY <1>1, <1>2, <1>4, HeadKept
<1>5. ASSUME NEW k \in ClientTask, loop'[m] = Append(loop[m], k)
      PROVE  Starting(m, t)'
  BY <1>1, <1>2, <1>5, HeadKept
<1>6. CASE ClientLoop(m)
  BY <1>1, <1>6 DEF ClientLoop, HandleCreateTerminal, HandleDeleteTerminal,
     HandleResizeTerminal, HandleTerminalWrite, DeleteTerminals, EnableReadFromTerminals,
     OnTerminalEnd, Take, Runs
<1>7. ~HandleCreateTerminal(m)
  BY <1>1 DEF HandleCreateTerminal, Runs
<1> QED BY <1>3, <1>4, <1>5, <1>6, <1>7, LoopStep

LEMMA CreatedSent ==
    ASSUME Routed, StartInv, ConnInv, [Next]_vars, NEW m \in Machines,
           NEW t \in 1 .. Len(owner), Starting(m, t), SendCreated(m), ClientOnly
    PROVE  ReportLeft(t)'
<1>1. Typed /\ up \in [Hosts -> Seq(UpMsg)] /\ srvEnd \in [Hosts -> EndState]
  BY ServiceTypes DEF Routed
<1>2. PICK h \in Hosts : h = owner[t].h /\ h = owner'[t].h
  BY <1>1, ServiceTypes, OwnerGrows
<1>3. CASE Gone(h)
  <2>1. Gone(h)'
    BY <1>1, <1>3, GoneStays
  <2> QED BY <1>2, <2>1 DEF ReportLeft
<1>4. PICK k \in ClientTask : k = Head(loop[m]) /\ k.fn = "SendCreated" /\ k.t = t
  BY DEF Starting, ClientTasks
<1>5. srvEnd[h] # "none" /\ (client[m] = h \/ Broken(h))
  <2>1. loop[m] \in Seq(ClientTask) /\ loop[m] # <<>>
    BY <1>1, ServiceTypes DEF Starting
  <2>2. 1 \in DOMAIN loop[m] /\ loop[m][1] = Head(loop[m])
    BY <2>1
  <2>3. t \in terminals[m]
    BY <1>4, <2>2 DEF StartInv, CreatingFirst
  <2> QED BY <1>2, <2>3 DEF ConnInv, Hosted
<1>6. CASE client[m] = h /\ ~Gone(h)
  <2>1. cliEnd[h] /\ Delivers(h)
    BY <1>1, <1>5, <1>6 DEF Gone, Broken, Delivers, EndState
  <2>2. k.t \in TerminalId /\ k.ok \in BOOLEAN
    BY <1>4, MessageFields
  <2>3. PICK msg \in UpMsg : msg = [type |-> "ON_TERMINAL_CREATED", t |-> k.t, ok |-> k.ok]
    BY <2>2, SentMessages
  <2>4. msg \in Reports("ON_TERMINAL_CREATED", t)
    <3>1. msg.type = "ON_TERMINAL_CREATED" /\ msg.t = t
      BY <1>4, <2>3
    <3> QED BY <3>1 DEF Reports
  <2>5. up'[h] = Append(up[h], msg)
    <3>1. SendUp(h, msg)
      BY <1>4, <1>6, <2>3 DEF SendCreated
    <3> QED BY <1>1, <2>1, <3>1 DEF SendUp
  <2>6. Has(Append(up[h], msg), Reports("ON_TERMINAL_CREATED", t))
    <3>1. up[h] \in Seq(UpMsg)
      BY <1>1
    <3> QED BY <2>4, <3>1, HasAppend
  <2> QED BY <1>2, <2>5, <2>6 DEF ReportLeft
<1> QED BY <1>3, <1>5, <1>6 DEF Gone

\* A terminal that was just started will be reported next.
LEMMA NewlyStarted ==
    ASSUME Routed, StartInv, [Next]_vars, NEW t \in started', t \notin started
    PROVE  /\ \E m \in Machines : Starting(m, t)'
           /\ UNCHANGED <<netVars, waVars, tsVars>>
<1>1. PICK m \in Machines : HandleCreateTerminal(m) /\ ClientOnly
  <2>1. CASE Pages \/ WebAppLoop \/ TerminalLoop \/ ServerConnection \/ ClientConnection
             \/ Shells \/ UNCHANGED vars
    BY <2>1 DEF Pages, WebAppLoop, TerminalLoop, ServerConnection, WebAppOnly, TerminalOnly,
       tcVars, vars, ClientConnection, Shells, ClientOnClientConnected, ClientOnClientRead,
       HandleDisconnected, OnTerminalRead, ShellExit
  <2>2. ASSUME NEW m \in Machines, ClientLoop(m)
        PROVE  HandleCreateTerminal(m) /\ ClientOnly
    BY <2>2 DEF ClientLoop, SendCreated, HandleDeleteTerminal, HandleResizeTerminal,
       HandleTerminalWrite, DeleteTerminals, EnableReadFromTerminals, OnTerminalEnd
  <2> QED BY <2>1, <2>2 DEF Next
<1>2. /\ t = Head(loop[m]).t
      /\ UNCHANGED <<netVars, waVars, tsVars>>
      /\ \E ok \in BOOLEAN : loop' = [loop EXCEPT ![m] =
            <<[fn |-> "SendCreated", t |-> Head(loop[m]).t, ok |-> ok]>> \o Tail(@)]
  <2>1. /\ started' = started \cup {Head(loop[m]).t}
        /\ UNCHANGED <<netVars, waVars, tsVars>>
        /\ \E ok \in BOOLEAN : loop' = [loop EXCEPT ![m] =
              <<[fn |-> "SendCreated", t |-> Head(loop[m]).t, ok |-> ok]>> \o Tail(@)]
    BY <1>1, HandleCreateStarts
  <2>2. t = Head(loop[m]).t
    BY <2>1
  <2> QED BY <2>1, <2>2
<1>3. PICK ok \in BOOLEAN : loop' = [loop EXCEPT ![m] =
            <<[fn |-> "SendCreated", t |-> t, ok |-> ok]>> \o Tail(@)]
  BY <1>2
<1>4. /\ loop \in [Machines -> Seq(ClientTask)] /\ loop[m] \in Seq(ClientTask)
      /\ loop[m] # <<>> /\ Head(loop[m]).fn = "HandleCreateTerminal"
  BY <1>1, ServiceTypes DEF Routed, HandleCreateTerminal, Runs
<1>5. Tail(loop[m]) \in Seq(ClientTask) /\ t \in TerminalId
  BY <1>2, <1>4, HeadAndTail, MessageFields
<1>6. PICK k \in ClientTask : k = [fn |-> "SendCreated", t |-> t, ok |-> ok]
  BY <1>5, SentMessages
<1>7. k \in ClientTasks("SendCreated", t)
  <2>1. k.fn = "SendCreated" /\ k.t = t
    BY <1>6
  <2> QED BY <2>1 DEF ClientTasks
<1>8. loop'[m] = <<k>> \o Tail(loop[m])
  BY <1>3, <1>4, <1>6
<1>9. <<k>> \in Seq(ClientTask) /\ <<k>> # <<>> /\ Head(<<k>>) = k
  OBVIOUS
<1>10. loop'[m] # <<>> /\ Head(loop'[m]) = k
  BY <1>5, <1>8, <1>9, HeadKept
<1> QED BY <1>2, <1>7, <1>10 DEF Starting, ClientTasks

\* The parts of OrderInv, in the words of the queues.
LEMMA StartReported ==
    ASSUME Routed, StartInv, PageInv, ConnInv, OrderInv, [Next]_vars, NEW t \in started
    PROVE  ReportLeft(t)' \/ \E m \in Machines : Starting(m, t)'
<1>1. Typed /\ t \in 1 .. Len(owner)
  BY DEF Routed, StartInv
<1>2. CASE ReportLeft(t)
  BY <1>1, <1>2, ReportLeftStays
<1>3. ASSUME NEW m \in Machines, Starting(m, t)
      PROVE  ReportLeft(t)' \/ \E n \in Machines : Starting(n, t)'
  BY <1>1, <1>3, StartingStays, CreatedSent
<1> QED BY <1>2, <1>3 DEF OrderInv

LEMMA EndsAfterCreations ==
    ASSUME Routed, StartInv, PageInv, ConnInv, OrderInv, [Next]_vars, NEW t \in started
    PROVE  \/ ReportRead(t)'
           \/ Led(up'[owner'[t].h], Reports("ON_TERMINAL_CREATED", t), Reports("ON_TERMINAL_END", t))
<1>1. Typed /\ t \in 1 .. Len(owner)
  BY DEF Routed, StartInv
<1>2. PICK h \in Hosts : h = owner[t].h /\ h = owner'[t].h
  BY <1>1, ServiceTypes, OwnerGrows
<1>3. CASE ReportRead(t)
  BY <1>1, <1>3, ReportReadStays
<1>4. PICK A, B : A = Reports("ON_TERMINAL_CREATED", t) /\ B = Reports("ON_TERMINAL_END", t)
  OBVIOUS
<1>5. CASE ~ReportRead(t) /\ Led(up[h], A, B)
  <2>1. up[h] \in Seq(UpMsg) /\ srvEnd[h] # "none"
    BY <1>1, <1>2, ServiceTypes DEF ConnInv
  <2>2. CASE up'[h] = up[h]
    BY <1>2, <1>4, <1>5, <2>2
  <2>3. CASE ServerOnClientRead(h) /\ up[h] # <<>> /\ up'[h] = Tail(up[h])
    <3>1. CASE Head(up[h]) \in A
      <4>1. Has(tsLoop', ServerTasks("HandleTerminalCreated", h, t))
        BY <1>1, <1>4, <2>3, <3>1, CreatedRead
      <4> QED BY <1>2, <4>1 DEF ReportRead
    <3>2. CASE Head(up[h]) \notin A
      <4>1. Led(Tail(up[h]), A, B)
        BY <1>5, <2>1, <2>3, <3>2, LedTail
      <4> QED BY <1>2, <1>4, <2>3, <4>1
    <3> QED BY <3>1, <3>2
  <2>4. CASE up'[h] = <<>>
    <3>1. Led(<<>>, A, B)
      BY HasNone, LedNone
    <3> QED BY <1>2, <1>4, <2>4, <3>1
  <2>5. ASSUME NEW m \in Machines, NEW msg \in UpMsg, cliEnd[h], Delivers(h),
               up'[h] = Append(up[h], msg), SentBy(m, msg)
        PROVE  Led(Append(up[h], msg), A, B)
    <3>1. ASSUME msg \in B PROVE Has(up[h], A)
      <4>1. OnTerminalEnd(m) /\ Head(loop[m]).t = t
        BY <1>4, <2>5, <3>1 DEF SentBy, Reports
      <4>2. loop[m] # <<>> /\ Head(loop[m]).fn = "OnTerminalEnd"
        BY <4>1 DEF OnTerminalEnd, Take, Runs
      <4>3. ASSUME NEW n \in Machines, Starting(n, t) PROVE FALSE
        <5>1. /\ loop[n] \in Seq(ClientTask) /\ loop[n] # <<>>
              /\ Head(loop[n]).fn = "SendCreated" /\ Head(loop[n]).t = t
          BY <1>1, <4>3, ServiceTypes DEF Starting, ClientTasks
        <5>2. 1 \in DOMAIN loop[n] /\ loop[n][1] = Head(loop[n])
          BY <5>1
        <5>3. t \in terminals[n]
          BY <5>1, <5>2 DEF StartInv, CreatingFirst
        <5>4. Head(loop[m]) \in FitTask(m)
          <6>1. loop[m] \in Seq(FitTask(m))
            BY DEF StartInv
          <6> QED BY <4>2, <6>1, HeadAndTail
        <5>5. n = m
          BY <4>1, <4>2, <5>3, <5>4 DEF FitTask
        <5> QED BY <4>2, <5>1, <5>5
      <4>4. ReportLeft(t)
        BY <4>3 DEF OrderInv
      <4>5. ~Gone(h)
        BY <2>5 DEF Gone, Broken, Delivers
      <4> QED BY <1>2, <1>4, <1>5, <4>4, <4>5 DEF ReportLeft
    <3> QED BY <1>5, <2>1, <3>1, LedAppend
  <2>6. ASSUME NEW m \in Machines, NEW msg \in UpMsg, cliEnd[h], Delivers(h),
               up'[h] = Append(up[h], msg), SentBy(m, msg)
        PROVE  Led(up'[h], A, B)
    BY <2>5, <2>6
  <2>7. Led(up'[h], A, B) \/ ReportRead(t)'
    BY <1>1, <2>1, <2>2, <2>3, <2>4, <2>6, UpStep, <1>2, <1>4, <1>5
  <2> QED BY <1>2, <1>4, <2>7
<1> QED BY <1>2, <1>3, <1>4, <1>5 DEF OrderInv

LEMMA EndsReadAfterCreations ==
    ASSUME Routed, StartInv, PageInv, OrderInv, [Next]_vars, NEW t \in started
    PROVE  \/ ServerKnows(t)'
           \/ Led(tsLoop', ServerTasks("HandleTerminalCreated", owner'[t].h, t),
                           ServerTasks("HandleTerminalEnd", owner'[t].h, t))
<1>1. Typed /\ tsLoop \in Seq(TerminalTask) /\ t \in 1 .. Len(owner)
  BY ServiceTypes DEF Routed, StartInv
<1>2. PICK h \in Hosts : h = owner[t].h /\ h = owner'[t].h
  BY <1>1, ServiceTypes, OwnerGrows
<1>3. CASE ServerKnows(t)
  BY <1>1, <1>3, ServerKnowsStays
<1>4. PICK A, B : /\ A = ServerTasks("HandleTerminalCreated", h, t)
                  /\ B = ServerTasks("HandleTerminalEnd", h, t)
  OBVIOUS
<1>5. CASE ~ServerKnows(t) /\ Led(tsLoop, A, B)
  <2>1. CASE tsLoop' = tsLoop
    BY <1>2, <1>4, <1>5, <2>1
  <2>2. ASSUME NEW r \in Seq(TerminalTask), tsLoop' = tsLoop \o r, Posts(r)
        PROVE  Led(tsLoop', A, B)
    <3>1. ~Has(r, B)
      BY <1>4, <2>2 DEF Has, Posts, ServerTasks
    <3>2. Led(tsLoop \o r, A, B)
      BY <1>1, <1>5, <3>1, LedConcat
    <3> QED BY <2>2, <3>2
  <2>3. CASE TerminalLoop /\ tsLoop # <<>> /\ tsLoop' = Tail(tsLoop)
    <3>1. CASE Head(tsLoop) \in A
      BY <1>1, <1>2, <1>4, <2>3, <3>1, CreatedForwarded
    <3>2. CASE Head(tsLoop) \notin A
      <4>1. Led(Tail(tsLoop), A, B)
        BY <1>1, <1>5, <2>3, <3>2, LedTail
      <4> QED BY <1>2, <1>4, <2>3, <4>1
    <3> QED BY <3>1, <3>2
  <2>4. ASSUME NEW k \in TerminalTask, tsLoop' = Append(tsLoop, k),
               k.fn = "HandleTerminalEnd" => EndRead(k)
        PROVE  Led(tsLoop', A, B)
    <3>1. ASSUME k \in B PROVE Has(tsLoop, A)
      <4>1. k.fn = "HandleTerminalEnd" /\ k.h = h /\ k.t = t
        BY <1>4, <3>1 DEF ServerTasks
      <4>2. up[h] # <<>> /\ Head(up[h]) \in Reports("ON_TERMINAL_END", t) /\ up[h] \in Seq(UpMsg)
        BY <1>1, <2>4, <4>1, ServiceTypes DEF EndRead
      <4>3. ~Led(up[h], Reports("ON_TERMINAL_CREATED", t), Reports("ON_TERMINAL_END", t))
        BY <4>2, LedHead
      <4>4. ReportRead(t)
        BY <1>2, <4>3 DEF OrderInv
      <4> QED BY <1>2, <1>4, <1>5, <4>4 DEF ReportRead
    <3>2. Led(Append(tsLoop, k), A, B)
      BY <1>1, <1>5, <3>1, LedAppend
    <3> QED BY <2>4, <3>2
  <2>5. Led(tsLoop', A, B) \/ ServerKnows(t)'
    BY <1>1, <1>2, <1>4, <1>5, <2>1, <2>2, <2>3, <2>4, TSStep
  <2> QED BY <1>2, <1>4, <2>5
<1> QED BY <1>2, <1>3, <1>4, <1>5 DEF OrderInv

LEMMA ClosesAfterCreations ==
    ASSUME Routed, StartInv, PageInv, OrderInv, [Next]_vars, NEW t \in started
    PROVE  \/ PageKnows(t)'
           \/ Led(waLoop', PageTasks("OnTerminalCreated", t), PageTasks("OnTerminalClosed", t))
<1>1. Typed /\ waLoop \in Seq(WebAppTask) /\ t \in 1 .. Len(owner)
  BY ServiceTypes DEF Routed, StartInv
<1>2. PICK h \in Hosts : h = owner[t].h
  BY <1>1, ServiceTypes
<1>3. CASE PageKnows(t)
  BY <1>1, <1>3, PageKnowsStays
<1>4. PICK A, B : A = PageTasks("OnTerminalCreated", t) /\ B = PageTasks("OnTerminalClosed", t)
  OBVIOUS
<1>5. CASE ~PageKnows(t) /\ Led(waLoop, A, B)
  <2>1. CASE waLoop' = waLoop
    BY <1>4, <1>5, <2>1
  <2>2. ASSUME NEW k \in WebAppTask, waLoop' = Append(waLoop, k), k \in B => Has(waLoop, A)
        PROVE  Led(waLoop', A, B)
    <3>1. Led(Append(waLoop, k), A, B)
      BY <1>1, <1>5, <2>2, LedAppend
    <3> QED BY <2>2, <3>1
  <2>3. ASSUME NEW k \in WebAppTask, PagesPosted(k)
        PROVE  k \notin B
    BY <1>4, <2>3 DEF PagesPosted, PageTasks
  <2>4. ASSUME NEW k \in WebAppTask, ServerPosted(k), k \in B
        PROVE  Has(waLoop, A)
    <3>1. k.fn = "OnTerminalClosed" /\ k.t = t
      BY <1>4, <2>4 DEF PageTasks
    <3>2. /\ tsLoop # <<>> /\ Head(tsLoop) \in TerminalTask
          /\ Head(tsLoop).fn = "HandleTerminalEnd" /\ Head(tsLoop).t = t
          /\ HasAppClient(Head(tsLoop).h, t)
      BY <2>4, <3>1 DEF ServerPosted
    <3>3. Head(tsLoop).h = h
      BY <1>2, <3>2 DEF Routed, RoutedHosts, HasAppClient, RunsOn
    <3>4. Head(tsLoop) \in ServerTasks("HandleTerminalEnd", h, t)
      BY <3>2, <3>3 DEF ServerTasks
    <3>5. ~Led(tsLoop, ServerTasks("HandleTerminalCreated", h, t),
                       ServerTasks("HandleTerminalEnd", h, t))
      <4>1. tsLoop \in Seq(TerminalTask)
        BY <1>1, ServiceTypes
      <4> QED BY <3>2, <3>4, <4>1, LedHead
    <3>6. ServerKnows(t)
      BY <1>2, <3>5 DEF OrderInv
    <3> QED BY <1>2, <1>4, <1>5, <3>2, <3>3, <3>6 DEF ServerKnows
  <2>5. CASE WebAppLoop /\ waLoop # <<>> /\ waLoop' = Tail(waLoop)
    <3>1. CASE Head(waLoop) \in A
      BY <1>1, <1>4, <2>5, <3>1, CreatedHeard
    <3>2. CASE Head(waLoop) \notin A
      <4>1. Led(Tail(waLoop), A, B)
        BY <1>1, <1>5, <2>5, <3>2, LedTail
      <4> QED BY <1>4, <2>5, <4>1
    <3> QED BY <3>1, <3>2
  <2>6. Led(waLoop', A, B) \/ PageKnows(t)'
    BY <1>1, <1>4, <2>1, <2>2, <2>3, <2>4, <2>5, WAStep
  <2> QED BY <1>4, <2>6
<1> QED BY <1>3, <1>4, <1>5 DEF OrderInv

LEMMA NextOrder ==
    ASSUME Routed, StartInv, ReportInv, PageInv, ConnInv, OrderInv, [Next]_vars
    PROVE  OrderInv'
<1> DEFINE Ordered(t) ==
        /\ PageKnows(t)
           \/ Led(waLoop, PageTasks("OnTerminalCreated", t), PageTasks("OnTerminalClosed", t))
        /\ ServerKnows(t)
           \/ Led(tsLoop, ServerTasks("HandleTerminalCreated", owner[t].h, t),
                          ServerTasks("HandleTerminalEnd", owner[t].h, t))
        /\ ReportRead(t)
           \/ Led(up[owner[t].h], Reports("ON_TERMINAL_CREATED", t),
                                  Reports("ON_TERMINAL_END", t))
        /\ ReportLeft(t) \/ \E m \in Machines : Starting(m, t)
<1>1. ASSUME NEW t \in started PROVE Ordered(t)'
  BY StartReported, EndsAfterCreations, EndsReadAfterCreations, ClosesAfterCreations
<1>2. ASSUME NEW t \in started', t \notin started PROVE Ordered(t)'
  <2>1. UNCHANGED <<waLoop, tsLoop, up, owner>> /\ \E m \in Machines : Starting(m, t)'
    BY <1>2, NewlyStarted DEF netVars, tsVars
  <2>2. ASSUME NEW A PROVE Led(waLoop, A, PageTasks("OnTerminalClosed", t))
    <3>1. \A i \in DOMAIN waLoop : waLoop[i] \in TrueWebAppTask
      BY DEF ReportInv
    <3>2. ~Has(waLoop, PageTasks("OnTerminalClosed", t))
      BY <1>2, <3>1 DEF Has, PageTasks, TrueWebAppTask, Ended
    <3> QED BY <3>2, LedNone
  <2>3. ASSUME NEW A, NEW h PROVE Led(tsLoop, A, ServerTasks("HandleTerminalEnd", h, t))
    <3>1. \A i \in DOMAIN tsLoop : tsLoop[i] \in TrueTerminalTask
      BY DEF ReportInv
    <3>2. ~Has(tsLoop, ServerTasks("HandleTerminalEnd", h, t))
      BY <1>2, <3>1 DEF Has, ServerTasks, TrueTerminalTask, Ended
    <3> QED BY <3>2, LedNone
  <2>4. ASSUME NEW A, NEW h \in Hosts PROVE Led(up[h], A, Reports("ON_TERMINAL_END", t))
    <3>1. \A i \in DOMAIN up[h] : up[h][i] \in TrueUpMsg
      BY DEF ReportInv
    <3>2. ~Has(up[h], Reports("ON_TERMINAL_END", t))
      BY <1>2, <3>1 DEF Has, Reports, TrueUpMsg, Ended
    <3> QED BY <3>2, LedNone
  <2>5. owner'[t].h \in Hosts
    <3>1. StartInv' /\ Typed'
      BY NextStarts, NextRouted DEF Routed
    <3>2. \A u \in 1 .. Len(owner) : owner[u].h \in Hosts
      BY ServiceTypes DEF Routed
    <3> QED BY <1>2, <2>1, <3>1, <3>2 DEF StartInv
  <2>6. PICK h \in Hosts : h = owner'[t].h
    BY <2>5
  <2>7. Led(waLoop', PageTasks("OnTerminalCreated", t), PageTasks("OnTerminalClosed", t))
    BY <2>1, <2>2
  <2>8. Led(tsLoop', ServerTasks("HandleTerminalCreated", h, t),
                     ServerTasks("HandleTerminalEnd", h, t))
    BY <2>1, <2>3
  <2>9. Led(up'[h], Reports("ON_TERMINAL_CREATED", t), Reports("ON_TERMINAL_END", t))
    BY <2>1, <2>4
  <2> QED BY <2>1, <2>6, <2>7, <2>8, <2>9
<1>3. \A t \in started' : Ordered(t)'
  BY <1>1, <1>2
<1> QED BY <1>3 DEF OrderInv

LEMMA InitOrder == ASSUME Init PROVE OrderInv
  BY DEF Init, TerminalClientInit, OrderInv

LEMMA NextService == ASSUME ServiceInv, [Next]_vars PROVE ServiceInv'
  BY NextRouted, NextStarts, NextReports, NextPages, NextConnected, NextOrder
  DEF ServiceInv, Routed

LEMMA InitService == ASSUME Init PROVE ServiceInv
  BY InitRouted, InitStarts, InitReports, InitPages, InitConnected, InitOrder DEF ServiceInv
-----------------------------------------------------------------------------
(***************************************************************************)
(* The refinement: each step is a step of TerminalService, or none.        *)
(***************************************************************************)
\* What TerminalService sees of a page.
Heard(c) == <<told[c].added, told[c].output, told[c].closed>>

LEMMA Unseen ==
    ASSUME UNCHANGED <<owner, terminals, started>>,
           \A c \in WebClients : UNCHANGED Heard(c)
    PROVE  UNCHANGED Service!serviceVars
  BY DEF Service!serviceVars, Heard, Running

LEMMA StartedOrEnded == ASSUME StartInv PROVE Running \cup (started \ Running) = started
  BY DEF StartInv, Running

LEMMA PagesServe == ASSUME ServiceInv, Pages PROVE UNCHANGED Service!serviceVars
<1>1. UNCHANGED <<told, tsVars, tcVars>>
  BY PagesPost DEF ServiceInv, Routed
<1> QED BY <1>1, Unseen DEF tsVars, tcVars, Heard

LEMMA Grows ==
    ASSUME NEW f, NEW g, f = [c \in WebClients |-> f[c]], g = [c \in WebClients |-> g[c]],
           NEW d \in WebClients, NEW t,
           g[d] = f[d] \cup {t}, \A c \in WebClients : c # d => g[c] = f[c]
    PROVE  g = [f EXCEPT ![d] = @ \cup {t}]
  OBVIOUS

\* A page is told something of a terminal.
LEMMA TellService ==
    ASSUME ServiceInv, UNCHANGED <<tsVars, tcVars>>, NEW t \in started,
           \/ told' = [told EXCEPT ![owner[t].c].added = @ \cup {t}]
           \/ told' = [told EXCEPT ![owner[t].c].output = @ \cup {t}]
           \/ /\ told' = [told EXCEPT ![owner[t].c].closed = @ \cup {t}]
              /\ t \in Ended /\ t \in told[owner[t].c].added
    PROVE  Service!Next
<1>1. told \in [WebClients -> ToldType] /\ \A c \in WebClients : told[c] \in ToldType
  <2>1. told \in [WebClients -> ToldType]
    BY HostTypes DEF ServiceInv, Routed
  <2> QED BY <2>1
<1>2. PICK d \in WebClients : d = owner[t].c
  BY ServiceTypes DEF ServiceInv, Routed, StartInv
<1>3. UNCHANGED <<owner, Running, started>> /\ t \in Running \cup (started \ Running)
  BY StartedOrEnded DEF ServiceInv, tsVars, tcVars, Running
<1>4. CASE told' = [told EXCEPT ![d].added = @ \cup {t}]
  <2>1. \A c \in WebClients : /\ told'[c].added = told[c].added \cup (IF c = d THEN {t} ELSE {})
                              /\ told'[c].output = told[c].output
                              /\ told'[c].closed = told[c].closed
    <3>1. ASSUME NEW c \in WebClients
          PROVE  /\ told'[c].added = told[c].added \cup (IF c = d THEN {t} ELSE {})
                 /\ told'[c].output = told[c].output
                 /\ told'[c].closed = told[c].closed
      <4>1. CASE c = d
        BY <1>1, <1>4, <4>1 DEF ToldType
      <4>2. CASE c # d
        BY <1>1, <1>4, <4>2
      <4> QED BY <4>1, <4>2
    <3> QED BY <3>1
  <2>2. PICK f, g : /\ f = [c \in WebClients |-> told[c].added]
                    /\ g = [c \in WebClients |-> told'[c].added]
    OBVIOUS
  <2>3. g = [f EXCEPT ![d] = @ \cup {t}]
    <3>1. f = [c \in WebClients |-> f[c]] /\ g = [c \in WebClients |-> g[c]]
      BY <2>2
    <3>2. \A c \in WebClients : f[c] = told[c].added /\ g[c] = told'[c].added
      BY <2>2
    <3>3. \A c \in WebClients : g[c] = f[c] \cup (IF c = d THEN {t} ELSE {})
      BY <2>1, <3>2
    <3>4. g[d] = f[d] \cup {t} /\ \A c \in WebClients : c # d => g[c] = f[c]
      BY <3>3
    <3> QED BY <3>1, <3>4, Grows
  <2>4. [c \in WebClients |-> told[c].added]'
           = [[c \in WebClients |-> told[c].added] EXCEPT ![owner[t].c] = @ \cup {t}]
    BY <1>2, <2>2, <2>3
  <2>5. UNCHANGED <<[c \in WebClients |-> told[c].output], [c \in WebClients |-> told[c].closed]>>
    BY <2>1
  <2>6. t \in started /\ UNCHANGED <<owner, Running, started \ Running>>
    BY <1>3
  <2>7. Service!TellAdded(t)
    BY <1>2, <1>3, <2>4, <2>5, <2>6 DEF Service!TellAdded
  <2> QED BY <1>3, <2>7 DEF Service!Next
<1>5. CASE told' = [told EXCEPT ![d].output = @ \cup {t}]
  <2>1. \A c \in WebClients : /\ told'[c].output = told[c].output \cup (IF c = d THEN {t} ELSE {})
                              /\ told'[c].added = told[c].added
                              /\ told'[c].closed = told[c].closed
    <3>1. ASSUME NEW c \in WebClients
          PROVE  /\ told'[c].output = told[c].output \cup (IF c = d THEN {t} ELSE {})
                 /\ told'[c].added = told[c].added
                 /\ told'[c].closed = told[c].closed
      <4>1. CASE c = d
        BY <1>1, <1>5, <4>1 DEF ToldType
      <4>2. CASE c # d
        BY <1>1, <1>5, <4>2
      <4> QED BY <4>1, <4>2
    <3> QED BY <3>1
  <2>2. PICK f, g : /\ f = [c \in WebClients |-> told[c].output]
                    /\ g = [c \in WebClients |-> told'[c].output]
    OBVIOUS
  <2>3. g = [f EXCEPT ![d] = @ \cup {t}]
    <3>1. f = [c \in WebClients |-> f[c]] /\ g = [c \in WebClients |-> g[c]]
      BY <2>2
    <3>2. \A c \in WebClients : f[c] = told[c].output /\ g[c] = told'[c].output
      BY <2>2
    <3>3. \A c \in WebClients : g[c] = f[c] \cup (IF c = d THEN {t} ELSE {})
      BY <2>1, <3>2
    <3>4. g[d] = f[d] \cup {t} /\ \A c \in WebClients : c # d => g[c] = f[c]
      BY <3>3
    <3> QED BY <3>1, <3>4, Grows
  <2>4. [c \in WebClients |-> told[c].output]'
           = [[c \in WebClients |-> told[c].output] EXCEPT ![owner[t].c] = @ \cup {t}]
    BY <1>2, <2>2, <2>3
  <2>5. UNCHANGED <<[c \in WebClients |-> told[c].added], [c \in WebClients |-> told[c].closed]>>
    BY <2>1
  <2>6. t \in started /\ UNCHANGED <<owner, Running, started \ Running>>
    BY <1>3
  <2>7. Service!TellOutput(t)
    BY <1>2, <1>3, <2>4, <2>5, <2>6 DEF Service!TellOutput
  <2> QED BY <1>3, <2>7 DEF Service!Next
<1>6. CASE /\ told' = [told EXCEPT ![d].closed = @ \cup {t}]
           /\ t \in Ended /\ t \in told[d].added
  <2>1. \A c \in WebClients : /\ told'[c].closed = told[c].closed \cup (IF c = d THEN {t} ELSE {})
                              /\ told'[c].added = told[c].added
                              /\ told'[c].output = told[c].output
    <3>1. ASSUME NEW c \in WebClients
          PROVE  /\ told'[c].closed = told[c].closed \cup (IF c = d THEN {t} ELSE {})
                 /\ told'[c].added = told[c].added
                 /\ told'[c].output = told[c].output
      <4>1. CASE c = d
        BY <1>1, <1>6, <4>1 DEF ToldType
      <4>2. CASE c # d
        BY <1>1, <1>6, <4>2
      <4> QED BY <4>1, <4>2
    <3> QED BY <3>1
  <2>2. PICK f, g : /\ f = [c \in WebClients |-> told[c].closed]
                    /\ g = [c \in WebClients |-> told'[c].closed]
    OBVIOUS
  <2>3. g = [f EXCEPT ![d] = @ \cup {t}]
    <3>1. f = [c \in WebClients |-> f[c]] /\ g = [c \in WebClients |-> g[c]]
      BY <2>2
    <3>2. \A c \in WebClients : f[c] = told[c].closed /\ g[c] = told'[c].closed
      BY <2>2
    <3>3. \A c \in WebClients : g[c] = f[c] \cup (IF c = d THEN {t} ELSE {})
      BY <2>1, <3>2
    <3>4. g[d] = f[d] \cup {t} /\ \A c \in WebClients : c # d => g[c] = f[c]
      BY <3>3
    <3> QED BY <3>1, <3>4, Grows
  <2>4. [c \in WebClients |-> told[c].closed]'
           = [[c \in WebClients |-> told[c].closed] EXCEPT ![owner[t].c] = @ \cup {t}]
    BY <1>2, <2>2, <2>3
  <2>5. UNCHANGED <<[c \in WebClients |-> told[c].added], [c \in WebClients |-> told[c].output]>>
    BY <2>1
  <2>6. t \in started /\ UNCHANGED <<owner, Running, started \ Running>>
    BY <1>3
  <2>7. Service!TellClosed(t)
    BY <1>2, <1>6, <1>3, <2>4, <2>5, <2>6 DEF Service!TellClosed, Ended
  <2> QED BY <1>3, <2>7 DEF Service!Next
<1> QED BY <1>2, <1>4, <1>5, <1>6

\* What the loop of WebAppServer tells a page is a promise kept.
LEMMA WebAppLoopServes == ASSUME ServiceInv, WebAppLoop PROVE Service!Next \/ UNCHANGED Service!serviceVars
<1>1. /\ UNCHANGED <<tsVars, tcVars>> /\ waLoop \in Seq(RoutedWebAppTask)
      /\ waLoop \in Seq(TrueWebAppTask)
      /\ told \in [WebClients -> ToldType] /\ \A c \in WebClients : told[c] \in ToldType
  <2>1. told \in [WebClients -> ToldType]
    BY HostTypes DEF ServiceInv, Routed
  <2>2. UNCHANGED <<tsVars, tcVars>>
    BY DEF WebAppLoop, WebAppOnly
  <2> QED BY <2>1, <2>2 DEF ServiceInv, Routed, RoutedLoops, ReportInv
<1>2. CASE told' = told
  BY <1>1, <1>2, Unseen DEF Heard, tsVars, tcVars
<1>3. ASSUME \A c \in WebClients : told'[c].added = told[c].added
                /\ told'[c].output = told[c].output /\ told'[c].closed = told[c].closed
      PROVE  UNCHANGED Service!serviceVars
  BY <1>1, <1>3, Unseen DEF Heard, tsVars, tcVars
<1>4. CASE AddClient
  <2>1. PICK d : told' = [told EXCEPT ![d].hosts = activeHosts, ![d].seen = activeHosts]
    BY <1>4 DEF AddClient
  <2>2. ASSUME NEW c \in WebClients
        PROVE  /\ told'[c].added = told[c].added /\ told'[c].output = told[c].output
               /\ told'[c].closed = told[c].closed
    <3>1. CASE c = d
      BY <1>1, <2>1, <3>1 DEF ToldType
    <3>2. CASE c # d
      BY <1>1, <2>1, <3>2
    <3> QED BY <3>1, <3>2
  <2> QED BY <1>3, <2>2
<1>5. CASE OnRemoteHostInfoReceived \/ OnTerminalClientClosed
  <2>1. ASSUME NEW c \in WebClients
        PROVE  /\ told'[c].added = told[c].added /\ told'[c].output = told[c].output
               /\ told'[c].closed = told[c].closed
    <3>1. PICK h : h = Head(waLoop).h
      OBVIOUS
    <3>2. \/ told'[c] = told[c]
          \/ told'[c] = [told[c] EXCEPT !.hosts = @ \cup {h}, !.seen = @ \cup {h}]
          \/ told'[c] = [told[c] EXCEPT !.hosts = @ \ {h}]
      BY <1>5, <3>1 DEF OnRemoteHostInfoReceived, OnTerminalClientClosed
    <3> QED BY <1>1, <3>2 DEF ToldType
  <2> QED BY <1>3, <2>1
<1>6. ASSUME waLoop # <<>>,
             Head(waLoop).fn \in {"OnTerminalCreated", "OnTerminalOutput", "OnTerminalClosed"}
      PROVE  /\ Head(waLoop) \in WebAppTask /\ Head(waLoop) \in TrueWebAppTask
             /\ Head(waLoop).t \in started
             /\ Head(waLoop).c = owner[Head(waLoop).t].c
  <2>1. Head(waLoop) \in RoutedWebAppTask /\ Head(waLoop) \in TrueWebAppTask
    BY <1>1, <1>6, HeadAndTail
  <2> QED BY <1>6, <2>1 DEF RoutedWebAppTask, TrueWebAppTask, OwnedBy, Ended
<1>7. CASE OnTerminalCreated
  <2>1. waLoop # <<>> /\ Head(waLoop).fn = "OnTerminalCreated"
    BY <1>7 DEF OnTerminalCreated, TakeWA, Runs
  <2>2. PICK t \in started : t = Head(waLoop).t /\ Head(waLoop).c = owner[t].c
    BY <1>6, <2>1
  <2>3. told' = told \/ told' = [told EXCEPT ![owner[t].c].added = @ \cup {t}]
    BY <1>7, <2>2 DEF OnTerminalCreated
  <2> QED BY <1>1, <1>2, <2>3, TellService
<1>8. CASE OnTerminalOutput
  <2>1. waLoop # <<>> /\ Head(waLoop).fn = "OnTerminalOutput"
    BY <1>8 DEF OnTerminalOutput, TakeWA, Runs
  <2>2. PICK t \in started : t = Head(waLoop).t /\ Head(waLoop).c = owner[t].c
    BY <1>6, <2>1
  <2>3. told' = told \/ told' = [told EXCEPT ![owner[t].c].output = @ \cup {t}]
    BY <1>8, <2>2 DEF OnTerminalOutput
  <2> QED BY <1>1, <1>2, <2>3, TellService
<1>9. CASE OnTerminalClosed
  <2>1. waLoop # <<>> /\ Head(waLoop).fn = "OnTerminalClosed"
    BY <1>9 DEF OnTerminalClosed, TakeWA, Runs
  <2>2. PICK t \in started : t = Head(waLoop).t /\ Head(waLoop).c = owner[t].c
    BY <1>6, <2>1
  <2>3. \/ told' = told
        \/ HasSession(owner[t].c) /\ told' = [told EXCEPT ![owner[t].c].closed = @ \cup {t}]
    BY <1>9, <2>2 DEF OnTerminalClosed
  <2>4. ASSUME HasSession(owner[t].c)
        PROVE  t \in told[owner[t].c].added
    <3>1. Head(waLoop) \in PageTasks("OnTerminalClosed", t)
      BY <1>6, <2>1, <2>2 DEF PageTasks
    <3>2. waLoop \in Seq(TrueWebAppTask)
      BY <1>1
    <3>3. ~Led(waLoop, PageTasks("OnTerminalCreated", t), PageTasks("OnTerminalClosed", t))
      BY <2>1, <3>1, <3>2, LedHead
    <3>4. PageKnows(t)
      BY <3>3 DEF ServiceInv, OrderInv
    <3> QED BY <2>4, <3>4 DEF PageKnows, HasSession
  <2>5. t \in Ended
    BY <1>6, <2>1, <2>2 DEF TrueWebAppTask
  <2> QED BY <1>1, <1>2, <2>3, <2>4, <2>5, TellService
<1>10. CASE RemoveClient \/ OnTerminalAddReq \/ OnTerminalResizeReq \/ OnTerminalDelReq
            \/ OnTerminalKeyEvent
  BY <1>2, <1>10 DEF RemoveClient, OnTerminalAddReq, OnTerminalResizeReq, OnTerminalDelReq,
     OnTerminalKeyEvent, waVars
<1> QED BY <1>3, <1>4, <1>5, <1>7, <1>8, <1>9, <1>10 DEF WebAppLoop

\* TerminalServer only takes orders.
LEMMA ServerServes ==
    ASSUME ServiceInv, [Next]_vars, TerminalLoop \/ ServerConnection
    PROVE  Service!Next \/ UNCHANGED Service!serviceVars
<1>1. Typed /\ UNCHANGED <<told, tcVars>>
  BY DEF ServiceInv, Routed, TerminalLoop, ServerConnection, TerminalOnly, waVars
<1>2. CASE owner' = owner
  BY <1>1, <1>2, Unseen DEF Heard, tcVars
<1>3. CASE /\ tsLoop # <<>> /\ Head(tsLoop).fn = "CreateNewTerminal"
           /\ owner' = Append(owner, [c |-> Head(tsLoop).c, h |-> Head(tsLoop).h])
  <2>1. Head(tsLoop) \in TerminalTask
    BY <1>1, <1>3, HeadAndTail, ServiceTypes
  <2>2. PICK c \in WebClients, h \in Hosts : c = Head(tsLoop).c /\ h = Head(tsLoop).h
    BY <1>3, <2>1, TerminalTaskFields
  <2>3. Service!Ask(c, h)
    BY <1>1, <1>3, <2>2 DEF Service!Ask, tcVars, Running
  <2> QED BY <2>3 DEF Service!Next
<1> QED BY <1>1, <1>2, <1>3, OwnerStep

\* Terminals start and end on the machines.
LEMMA ClientServes ==
    ASSUME ServiceInv, ServiceInv', [Next]_vars,
           ClientConnection \/ (\E m \in Machines : ClientLoop(m)) \/ Shells
    PROVE  Service!Next \/ UNCHANGED Service!serviceVars
<1>1. /\ UNCHANGED <<told, owner>> /\ terminals \in [Machines -> SUBSET TerminalId]
      /\ \A m \in Machines : terminals[m] \subseteq started
      /\ \A m, n \in Machines : m # n => terminals[m] \cap terminals[n] = {}
      /\ \A c \in WebClients : UNCHANGED Heard(c)
  <2>1. UNCHANGED <<told, owner>>
    BY DEF ClientConnection, ClientLoop, Shells, ClientOnly, waVars, tsVars
  <2>2. terminals \in [Machines -> SUBSET TerminalId]
    BY ServiceTypes DEF ServiceInv, Routed
  <2> QED BY <2>1, <2>2 DEF ServiceInv, StartInv, Heard
<1>2. CASE UNCHANGED <<terminals, started>>
  BY <1>1, <1>2, Unseen
<1>3. ASSUME NEW m \in Machines, NEW ts, terminals' = [terminals EXCEPT ![m] = @ \ ts],
             started' = started
      PROVE  Service!Next
  <2>1. PICK es : es = terminals[m] \cap ts
    OBVIOUS
  <2>2. es \subseteq Running
    BY <2>1 DEF Running
  <2>3. Running' = Running \ es
    <3>1. \A n \in Machines : terminals'[n] = IF n = m THEN terminals[n] \ ts ELSE terminals[n]
      BY <1>1, <1>3
    <3>2. ASSUME NEW t \in Running' PROVE t \in Running \ es
      <4>1. PICK n \in Machines : t \in terminals'[n]
        BY DEF Running
      <4>2. t \in terminals[n] /\ (n = m => t \notin ts)
        BY <3>1, <4>1
      <4>3. n # m => t \notin terminals[m]
        BY <1>1, <4>2
      <4> QED BY <2>1, <4>2, <4>3 DEF Running
    <3>3. ASSUME NEW t \in Running, t \notin es PROVE t \in Running'
      <4>1. PICK n \in Machines : t \in terminals[n]
        BY DEF Running
      <4>2. t \in terminals'[n]
        BY <2>1, <3>1, <3>3, <4>1
      <4> QED BY <4>2 DEF Running
    <3> QED BY <3>2, <3>3
  <2>4. (started \ Running)' = (started \ Running) \cup es
    BY <1>1, <1>3, <2>1, <2>3
  <2>5. Service!End(es)
    BY <1>1, <2>2, <2>3, <2>4 DEF Service!End
  <2> QED BY <2>2, <2>5 DEF Service!Next
<1>4. ASSUME NEW m \in Machines, NEW t, t \notin started,
             terminals' = [terminals EXCEPT ![m] = @ \cup {t}], started' = started \cup {t}
      PROVE  Service!Next
  <2>1. Running' = Running \cup {t}
    <3>1. \A n \in Machines : terminals'[n] = IF n = m THEN terminals[n] \cup {t} ELSE terminals[n]
      BY <1>1, <1>4
    <3> QED BY <3>1 DEF Running
  <2>2. (started \ Running)' = started \ Running
    BY <1>4, <2>1
  <2>3. t \in 1 .. Len(owner)
    BY <1>1, <1>4 DEF ServiceInv, StartInv
  <2>4. t \notin Running \cup (started \ Running)
    BY <1>4, StartedOrEnded DEF ServiceInv
  <2>5. Service!Start(t)
    BY <1>1, <2>1, <2>2, <2>3, <2>4 DEF Service!Start
  <2> QED BY <2>3, <2>5 DEF Service!Next
<1> QED BY <1>2, <1>3, <1>4, RunningSteps DEF ServiceInv

LEMMA StepServes ==
    ASSUME ServiceInv, ServiceInv', [Next]_vars
    PROVE  [Service!Next]_(Service!serviceVars)
<1>1. CASE UNCHANGED vars
  BY <1>1, Unseen DEF vars, waVars, tsVars, tcVars, Heard
<1> QED
  BY <1>1, PagesServe, WebAppLoopServes, ServerServes, ClientServes DEF Next

LEMMA InitServes == ASSUME Init PROVE Service!Init
<1>1. /\ owner = <<>> /\ started = {} /\ terminals = [m \in Machines |-> {}]
      /\ told = [c \in WebClients |-> [hosts |-> {}, seen |-> {}, added |-> {},
                                       output |-> {}, closed |-> {}]]
  BY DEF Init, TerminalServerInit, TerminalClientInit, WebAppServerInit
<1>2. Running = {}
  BY <1>1 DEF Running
<1> QED BY <1>1, <1>2 DEF Service!Init

\* The system implements TerminalService, whatever breaks, reconnects or
\* restarts: a terminal runs at most once, where and for whom it was asked for,
\* and a page hears of its end only after its creation and when it has ended
\* (TerminalServer.cpp CreateNewTerminal, HandleTerminalCreated,
\* HandleTerminalEnd, TerminalHandler.cpp OnTerminalEnd, WebAppServer.cpp
\* OnTerminalCreated, OnTerminalClosed).
THEOREM Implements == Spec => ImplementsService
<1>1. Init => ServiceInv /\ Service!Init
  BY InitService, InitServes
<1>2. ServiceInv /\ [Next]_vars => ServiceInv'
  BY NextService
<1>3. ServiceInv /\ ServiceInv' /\ [Next]_vars => [Service!Next]_(Service!serviceVars)
  BY StepServes
<1> QED
  BY <1>1, <1>2, <1>3, PTL DEF Spec, ImplementsService, Service!Spec
-----------------------------------------------------------------------------
(***************************************************************************)
(* No terminal is forgotten.  The report of its creation, or the order to  *)
(* delete it, is passed from queue to queue until it arrives.              *)
(***************************************************************************)
\* std::map iterates over all its keys.
LEMMA InOrderAll ==
    ASSUME NEW keys, IsFiniteSet(keys), keys \subseteq Nat, NEW ts \in InOrder(keys), NEW t \in keys
    PROVE  \E i \in DOMAIN ts : ts[i] = t
<1>1. PICK n \in Nat : n = Cardinality(keys)
  BY FS_CardinalityType
<1>2. ts \in [1 .. n -> keys] /\ \A i, j \in 1 .. n : i < j => ts[i] < ts[j]
  BY <1>1 DEF InOrder
<1>3. ASSUME NEW i \in 1 .. n, NEW j \in 1 .. n, ts[i] = ts[j]
      PROVE  i = j
  <2>1. ts[i] \in Nat /\ ts[j] \in Nat
    BY <1>2
  <2>2. ~(i < j) /\ ~(j < i)
    BY <1>2, <1>3, <2>1
  <2> QED BY <2>2
<1>4. ts \in Injection(1 .. n, keys)
  BY <1>2, <1>3 DEF Injection, IsInjective
<1>5. Cardinality(1 .. n) = n
  <2>1. Cardinality(1 .. n) = IF 1 > n THEN 0 ELSE n - 1 + 1
    BY FS_Interval
  <2> QED BY <2>1
<1>6. ts \in Surjection(1 .. n, keys)
  BY <1>1, <1>4, <1>5, FS_Injection
<1> QED BY <1>2, <1>6 DEF Surjection

\* A report that is delivered, or forwarded, to the next queue.
LEMMA CreatedSentUp ==
    ASSUME Typed, NEW m \in Machines, NEW t, NEW h \in Hosts,
           Starting(m, t), SendCreated(m), client[m] = h, LinkUp(h)
    PROVE  Has(up'[h], Reports("ON_TERMINAL_CREATED", t))
<1>1. up \in [Hosts -> Seq(UpMsg)] /\ up[h] \in Seq(UpMsg)
  BY ServiceTypes
<1>2. PICK k \in ClientTask : k = Head(loop[m]) /\ k.fn = "SendCreated" /\ k.t = t
  BY DEF Starting, ClientTasks
<1>3. k.t \in TerminalId /\ k.ok \in BOOLEAN
  BY <1>2, MessageFields
<1>4. PICK msg \in UpMsg : msg = [type |-> "ON_TERMINAL_CREATED", t |-> k.t, ok |-> k.ok]
  BY <1>3, SentMessages
<1>5. msg \in Reports("ON_TERMINAL_CREATED", t)
  <2>1. msg.type = "ON_TERMINAL_CREATED" /\ msg.t = t
    BY <1>2, <1>4
  <2> QED BY <2>1 DEF Reports
<1>6. up'[h] = Append(up[h], msg)
  <2>1. SendUp(h, msg)
    BY <1>2, <1>4 DEF SendCreated
  <2>2. cliEnd[h] /\ Delivers(h)
    BY DEF LinkUp, GetClient, Delivers
  <2> QED BY <1>1, <2>1, <2>2 DEF SendUp
<1>7. Has(Append(up[h], msg), Reports("ON_TERMINAL_CREATED", t))
  BY <1>1, <1>5, HasAppend
<1> QED BY <1>6, <1>7

LEMMA CreatedPassedOn ==
    ASSUME Typed, TerminalLoop, NEW t, NEW h \in Hosts, tsLoop # <<>>,
           Head(tsLoop) \in ServerTasks("HandleTerminalCreated", h, t), HasAppClient(h, t)
    PROVE  Has(waLoop', PageTasks("OnTerminalCreated", t))
<1>1. waLoop \in Seq(WebAppTask)
  BY ServiceTypes
<1>2. Head(tsLoop).fn = "HandleTerminalCreated" /\ Head(tsLoop).h = h /\ Head(tsLoop).t = t
  BY DEF ServerTasks
<1>3. HandleTerminalCreated
  BY <1>2 DEF TerminalLoop, CreateNewTerminal, ResizeTerminal, DeleteTerminal,
     SendKeyEvent, Command, OnClientClosed, HandleTerminalRead, HandleTerminalEnd, Report,
     TakeTS, Runs
<1>4. PICK k : k = [fn |-> "OnTerminalCreated", c |-> remoteHosts[h][t], t |-> t,
                    h |-> h, ok |-> Head(tsLoop).ok]
  OBVIOUS
<1>5. k \in WebAppTask
  <2>1. Head(tsLoop).ok \in BOOLEAN
    BY <1>2, TerminalLoopSteps, TerminalTaskFields
  <2>2. remoteHosts[h][t] \in WebClients /\ t \in TerminalId
    BY DEF HasAppClient, Typed, TypeOK, TerminalServerTypeOK
  <2> QED BY <1>4, <2>1, <2>2, PostedTasks
<1>6. waLoop' = Append(waLoop, k)
  BY <1>2, <1>3, <1>4 DEF HandleTerminalCreated, Report, GetAppClinetId
<1>7. k \in PageTasks("OnTerminalCreated", t)
  <2>1. k.fn = "OnTerminalCreated" /\ k.t = t
    BY <1>4
  <2> QED BY <1>5, <2>1 DEF PageTasks
<1>8. Has(Append(waLoop, k), PageTasks("OnTerminalCreated", t))
  BY <1>1, <1>7, HasAppend
<1> QED BY <1>6, <1>8

LEMMA CreatedKept ==
    ASSUME Typed, WebAppLoop, NEW t, waLoop # <<>>,
           Head(waLoop) \in PageTasks("OnTerminalCreated", t)
    PROVE  InSession(t)' \/ t \in late'
<1>1. Head(waLoop).fn = "OnTerminalCreated" /\ Head(waLoop).t = t
  BY DEF PageTasks
<1>2. OnTerminalCreated
  BY <1>1 DEF WebAppLoop, AddClient, RemoveClient, OnTerminalAddReq,
     OnTerminalResizeReq, OnTerminalDelReq, OnTerminalKeyEvent, OnRemoteHostInfoReceived,
     OnTerminalClientClosed, OnTerminalOutput, OnTerminalClosed, TakeWA, Runs
<1>3. PICK c, h : c = Head(waLoop).c /\ h = Head(waLoop).h
  OBVIOUS
<1>4. CASE ~HasSession(c)
  BY <1>1, <1>2, <1>3, <1>4 DEF OnTerminalCreated
<1>5. CASE HasSession(c)
  <2>1. sessions' = [sessions EXCEPT ![c] = Insert(@, t, h)]
    BY <1>1, <1>2, <1>3, <1>5 DEF OnTerminalCreated, SessionAddTerminal
  <2>2. c \in DOMAIN sessions' /\ t \in DOMAIN sessions'[c]
    BY <1>5, <2>1 DEF HasSession, Insert, Assign
  <2> QED BY <2>2 DEF InSession
<1> QED BY <1>4, <1>5

\* An order that is posted, sent, or received.
LEMMA DeletePosted ==
    ASSUME Typed, NEW t \in TerminalId, NEW h \in Hosts,
           tsLoop' = Append(tsLoop, [fn |-> "DeleteTerminal", h |-> h, t |-> t])
    PROVE  Has(tsLoop', ServerTasks("DeleteTerminal", h, t))
<1>1. tsLoop \in Seq(TerminalTask)
  BY ServiceTypes
<1>2. PICK k : k = [fn |-> "DeleteTerminal", h |-> h, t |-> t]
  OBVIOUS
<1>3. k \in ServerTasks("DeleteTerminal", h, t)
  <2>1. k \in TerminalTask
    BY <1>2 DEF TerminalTask
  <2>2. k.fn = "DeleteTerminal" /\ k.h = h /\ k.t = t
    BY <1>2
  <2> QED BY <2>1, <2>2 DEF ServerTasks
<1>4. Has(Append(tsLoop, k), ServerTasks("DeleteTerminal", h, t))
  BY <1>1, <1>3, HasAppend
<1> QED BY <1>2, <1>4

LEMMA DeleteSent ==
    ASSUME Typed, TerminalLoop, NEW t, NEW h \in Hosts, tsLoop # <<>>,
           Head(tsLoop) \in ServerTasks("DeleteTerminal", h, t), LinkUp(h)
    PROVE  Has(down'[h], DeleteOrders(t))
<1>1. down \in [Hosts -> Seq(DownMsg)] /\ down[h] \in Seq(DownMsg)
  BY ServiceTypes
<1>2. /\ Head(tsLoop).fn = "DeleteTerminal" /\ Head(tsLoop).h = h /\ Head(tsLoop).t = t
      /\ Head(tsLoop) \in TerminalTask
  BY DEF ServerTasks
<1>3. DeleteTerminal
  BY <1>2 DEF TerminalLoop, CreateNewTerminal, ResizeTerminal,
     SendKeyEvent, Command, OnClientClosed, HandleTerminalCreated, HandleTerminalRead,
     HandleTerminalEnd, Report, TakeTS, Runs
<1>4. t \in TerminalId
  BY <1>2, TerminalTaskFields
<1>5. PICK msg \in DownMsg : msg = [type |-> "DELETE_TERMINAL", t |-> t]
  BY <1>4, SentMessages
<1>6. msg \in DeleteOrders(t)
  <2>1. msg.type = "DELETE_TERMINAL" /\ msg.t = t
    BY <1>5
  <2> QED BY <2>1 DEF DeleteOrders
<1>7. down'[h] = Append(down[h], msg)
  <2>1. SendDown(h, msg)
    BY <1>2, <1>3, <1>5 DEF DeleteTerminal, Command, LinkUp
  <2> QED BY <1>1, <2>1 DEF SendDown, LinkUp
<1>8. Has(Append(down[h], msg), DeleteOrders(t))
  BY <1>1, <1>6, HasAppend
<1> QED BY <1>7, <1>8

LEMMA DeleteReceived ==
    ASSUME Typed, NEW m \in Machines, ClientOnClientRead(m), NEW t, NEW h \in Hosts,
           client[m] = h, down[h] # <<>>, Head(down[h]) \in DeleteOrders(t)
    PROVE  Has(loop'[m], ClientTasks("HandleDeleteTerminal", t))
<1>1. loop \in [Machines -> Seq(ClientTask)] /\ loop[m] \in Seq(ClientTask)
  BY ServiceTypes
<1>2. PICK msg \in DownMsg : msg = Head(down[h]) /\ msg.type = "DELETE_TERMINAL" /\ msg.t = t
  BY DEF DeleteOrders
<1>3. PICK k \in ClientTask : k = [fn |-> "HandleDeleteTerminal", t |-> t]
  BY <1>2, MessageFields, SentMessages
<1>4. k \in ClientTasks("HandleDeleteTerminal", t)
  <2>1. k.fn = "HandleDeleteTerminal" /\ k.t = t
    BY <1>3
  <2> QED BY <2>1 DEF ClientTasks
<1>5. loop'[m] = Append(loop[m], k)
  <2>1. loop' = [loop EXCEPT ![m] = Append(@, [fn |-> HandlerOf(msg.type), t |-> msg.t])]
    BY <1>2 DEF ClientOnClientRead
  <2>2. [fn |-> HandlerOf(msg.type), t |-> msg.t] = k
    BY <1>2, <1>3 DEF HandlerOf
  <2> QED BY <1>1, <2>1, <2>2
<1>6. Has(Append(loop[m], k), ClientTasks("HandleDeleteTerminal", t))
  BY <1>1, <1>4, HasAppend
<1> QED BY <1>5, <1>6

\* What a step does to what the server has sent to a host.
LEMMA DownStep ==
    ASSUME Typed, [Next]_vars, NEW h \in Hosts
    PROVE  \/ down'[h] = down[h]
           \/ \E msg : down'[h] = Append(down[h], msg)
           \/ \E m \in Machines : /\ ClientOnClientRead(m) /\ client[m] = h
                                  /\ down[h] # <<>> /\ down'[h] = Tail(down[h])
           \/ ~cliEnd'[h]
<1>1. /\ down \in [Hosts -> Seq(DownMsg)] /\ cliEnd \in [Hosts -> BOOLEAN]
      /\ client \in [Machines -> Hosts \cup {NoHost}]
  BY ServiceTypes
<1>2. ASSUME NEW d, NEW msg, SendDown(d, msg)
      PROVE  down'[h] = down[h] \/ \E e : down'[h] = Append(down[h], e)
  BY <1>1, <1>2 DEF SendDown
<1>3. CASE TerminalLoop
  <2>1. CASE down' = down
    BY <2>1
  <2>2. CASE CreateNewTerminal
    BY <1>2, <2>1, <2>2 DEF CreateNewTerminal
  <2>3. CASE ResizeTerminal \/ DeleteTerminal \/ SendKeyEvent
    BY <1>2, <2>1, <2>3 DEF ResizeTerminal, DeleteTerminal, SendKeyEvent, Command
  <2> QED BY <1>3, <2>1, <2>2, <2>3 DEF TerminalLoop, OnClientClosed, HandleTerminalCreated,
         HandleTerminalRead, HandleTerminalEnd, Report
<1>4. CASE ServerConnection
  BY <1>2, <1>4 DEF ServerConnection, ServerOnClientRead, ServerOnClientClosed,
     ServerOnClientUnresponsive
<1>5. CASE ClientConnection
  <2>1. ASSUME NEW m \in Machines, ClientOnClientRead(m)
        PROVE  down'[h] = down[h]
               \/ (client[m] = h /\ down[h] # <<>> /\ down'[h] = Tail(down[h]))
    BY <1>1, <2>1 DEF ClientOnClientRead
  <2>2. ASSUME NEW m \in Machines, HandleDisconnected(m)
        PROVE  down'[h] = down[h] \/ ~cliEnd'[h]
    BY <1>1, <2>2 DEF HandleDisconnected
  <2>3. ASSUME NEW m \in Machines, NEW d \in Hosts, ClientOnClientConnected(m, d)
        PROVE  down'[h] = down[h]
    BY <2>3 DEF ClientOnClientConnected
  <2> QED BY <1>5, <2>1, <2>2, <2>3 DEF ClientConnection
<1>6. ASSUME NEW m \in Machines, ClientLoop(m)
      PROVE  down'[h] = down[h] \/ ~cliEnd'[h]
  <2>1. CASE DeleteTerminals(m)
    BY <1>1, <2>1 DEF DeleteTerminals
  <2> QED BY <1>6, <2>1 DEF ClientLoop, HandleCreateTerminal, SendCreated, HandleDeleteTerminal,
         HandleResizeTerminal, HandleTerminalWrite, EnableReadFromTerminals, OnTerminalEnd, netVars
<1>7. CASE Pages \/ WebAppLoop \/ Shells \/ UNCHANGED vars
  <2>1. CASE Pages
    BY <2>1, PagesPost
  <2>2. CASE WebAppLoop
    BY <2>2 DEF WebAppLoop, AddClient, RemoveClient, OnTerminalAddReq,
       OnTerminalResizeReq, OnTerminalDelReq, OnTerminalKeyEvent, OnRemoteHostInfoReceived,
       OnTerminalClientClosed, OnTerminalCreated, OnTerminalOutput, OnTerminalClosed
  <2>3. CASE Shells
    BY <2>3 DEF Shells, OnTerminalRead, ShellExit, netVars
  <2>4. CASE UNCHANGED vars
    BY <2>4 DEF vars, netVars
  <2> QED BY <1>7, <2>1, <2>2, <2>3, <2>4
<1> QED BY <1>3, <1>4, <1>5, <1>6, <1>7 DEF Next

\* A connection that is up was up, or is new.
LEMMA LinkStep ==
    ASSUME Typed, [Next]_vars, NEW h \in Hosts, srvEnd[h] # "none"
    PROVE  (GetClient(h)' => GetClient(h)) /\ (LinkUp(h)' => LinkUp(h))
<1>1. srvEnd \in [Hosts -> EndState] /\ cliEnd \in [Hosts -> BOOLEAN]
  BY ServiceTypes
<1>2. ASSUME NEW m \in Machines, NEW d \in Hosts, ClientOnClientConnected(m, d)
      PROVE  srvEnd'[h] = srvEnd[h] /\ cliEnd'[h] = cliEnd[h]
  BY <1>1, <1>2 DEF ClientOnClientConnected
<1>3. CASE /\ \A d \in Hosts : srvEnd'[d] = srvEnd[d] \/ srvEnd'[d] \in {"removed", "closed"}
           /\ \A d \in Hosts : cliEnd'[d] => cliEnd[d]
  BY <1>3 DEF GetClient, LinkUp
<1> QED BY <1>2, <1>3, ConnStep DEF GetClient, LinkUp

\* A terminal leaves its session with the order to delete it.
LEMMA SessionKept ==
    ASSUME Routed, [Next]_vars, NEW t, InSession(t)
    PROVE  \/ InSession(t)'
           \/ Has(tsLoop', ServerTasks("DeleteTerminal", owner[t].h, t))
<1>1. Typed
  BY DEF Routed
<1>2. PICK c \in DOMAIN sessions : t \in DOMAIN sessions[c]
  BY DEF InSession
<1>3. sessions[c][t] = owner[t].h /\ sessions[c][t] \in Hosts /\ t \in TerminalId
  BY <1>1, <1>2 DEF Routed, RoutedSessions, RunsOn, Typed, TypeOK, WebAppServerTypeOK,
     SessionsTypeOK
<1>4. PICK h \in Hosts : h = owner[t].h /\ sessions[c][t] = h
  BY <1>3
<1>5. CASE sessions' = sessions
  BY <1>5 DEF InSession
<1>6. CASE AddClient
  BY <1>2, <1>6 DEF AddClient, CreateWebAppSession, Insert, Assign, InSession
<1>7. CASE RemoveClient
  <2>1. PICK d : d = Head(waLoop).c
    OBVIOUS
  <2>2. CASE ~HasSession(d)
    BY <1>5, <1>7, <2>1, <2>2 DEF RemoveClient
  <2>3. CASE HasSession(d) /\ d # c
    <3>1. sessions' = Erase(sessions, d)
      BY <1>7, <2>1, <2>3 DEF RemoveClient, EraseWebAppSession
    <3>2. c \in DOMAIN sessions' /\ sessions'[c] = sessions[c]
      BY <1>2, <2>3, <3>1 DEF Erase, Restrict
    <3> QED BY <1>2, <3>2 DEF InSession
  <2>4. CASE d = c
    <3>1. PICK ts \in InOrder(DOMAIN sessions[c]) :
             tsLoop' = tsLoop \o [i \in DOMAIN ts |->
                          [fn |-> "DeleteTerminal", h |-> sessions[c][ts[i]], t |-> ts[i]]]
      BY <1>2, <1>7, <2>1, <2>4 DEF RemoveClient, HasSession
    <3>2. PICK r : r = [i \in DOMAIN ts |->
                          [fn |-> "DeleteTerminal", h |-> sessions[c][ts[i]], t |-> ts[i]]]
      OBVIOUS
    <3>3. IsFiniteSet(DOMAIN sessions[c]) /\ DOMAIN sessions[c] \subseteq Nat
      BY <1>1, <1>2 DEF Typed, SessionsFinite, TypeOK, WebAppServerTypeOK, SessionsTypeOK, TerminalId
    <3>4. PICK i \in DOMAIN ts : ts[i] = t
      BY <1>2, <3>3, InOrderAll
    <3>5. r \in Seq(TerminalTask)
      <4>1. Cardinality(DOMAIN sessions[c]) \in Nat
        BY <3>3, FS_CardinalityType
      <4>2. \A j \in DOMAIN ts : ts[j] \in DOMAIN sessions[c]
        BY DEF InOrder
      <4>3. \A j \in DOMAIN ts :
               [fn |-> "DeleteTerminal", h |-> sessions[c][ts[j]], t |-> ts[j]] \in TerminalTask
        BY <1>1, <1>2, <4>2 DEF Typed, TypeOK, WebAppServerTypeOK, SessionsTypeOK, TerminalTask
      <4> QED BY <3>2, <4>1, <4>3 DEF InOrder
    <3>6. r[i] = [fn |-> "DeleteTerminal", h |-> h, t |-> t] /\ i \in DOMAIN r
      BY <1>4, <3>2, <3>4
    <3>7. Has(r, ServerTasks("DeleteTerminal", h, t))
      <4>1. r[i].fn = "DeleteTerminal" /\ r[i].h = h /\ r[i].t = t
        BY <3>6
      <4>2. r[i] \in TerminalTask
        BY <3>5, <3>6
      <4>3. r[i] \in ServerTasks("DeleteTerminal", h, t)
        BY <4>1, <4>2 DEF ServerTasks
      <4> QED BY <3>6, <4>3 DEF Has
    <3>8. Has(tsLoop \o r, ServerTasks("DeleteTerminal", h, t))
      BY <1>1, <3>5, <3>7, HasConcat, ServiceTypes
    <3> QED BY <1>4, <3>1, <3>2, <3>8
  <2> QED BY <2>2, <2>3, <2>4
<1>8. CASE OnTerminalDelReq
  <2>1. PICK d, u : d = Head(waLoop).c /\ u = Head(waLoop).t
    OBVIOUS
  <2>2. CASE ~IsWebAppClientOwningTerminal(d, u)
    BY <1>5, <1>8, <2>1, <2>2 DEF OnTerminalDelReq
  <2>3. CASE IsWebAppClientOwningTerminal(d, u) /\ (d # c \/ u # t)
    <3>1. sessions' = [sessions EXCEPT ![d] = Erase(@, u)]
      BY <1>8, <2>1, <2>3 DEF OnTerminalDelReq, SessionDeleteTerminal
    <3>2. c \in DOMAIN sessions' /\ t \in DOMAIN sessions'[c]
      BY <1>2, <2>3, <3>1 DEF Erase, Restrict
    <3> QED BY <3>2 DEF InSession
  <2>4. CASE d = c /\ u = t
    <3>1. tsLoop' = Append(tsLoop, [fn |-> "DeleteTerminal", h |-> h, t |-> t])
      BY <1>2, <1>4, <1>8, <2>1, <2>4
      DEF OnTerminalDelReq, OwnedRequest, IsWebAppClientOwningTerminal, HasSession, PostTS,
          GetRemoteHostByTerminal
    <3> QED BY <1>1, <1>3, <1>4, <3>1, DeletePosted
  <2> QED BY <2>2, <2>3, <2>4
<1>9. CASE OnTerminalCreated
  <2>1. PICK d, u, g : sessions' = sessions \/ sessions' = [sessions EXCEPT ![d] = Insert(@, u, g)]
    BY <1>9 DEF OnTerminalCreated, SessionAddTerminal
  <2>2. c \in DOMAIN sessions' /\ t \in DOMAIN sessions'[c]
    BY <1>2, <2>1 DEF Insert, Assign
  <2> QED BY <2>2 DEF InSession
<1>10. CASE OnTerminalAddReq \/ OnTerminalResizeReq \/ OnTerminalKeyEvent
            \/ OnRemoteHostInfoReceived \/ OnTerminalClientClosed
            \/ OnTerminalOutput \/ OnTerminalClosed
  BY <1>5, <1>10 DEF OnTerminalAddReq, OnTerminalResizeReq, OnTerminalKeyEvent,
     OnRemoteHostInfoReceived, OnTerminalClientClosed, OnTerminalOutput, OnTerminalClosed, waVars
<1>11. CASE Pages \/ TerminalLoop \/ ServerConnection \/ ClientConnection
            \/ (\E m \in Machines : ClientLoop(m)) \/ Shells \/ UNCHANGED vars
  <2>1. CASE Pages
    BY <1>1, <1>5, <2>1, PagesPost
  <2>2. CASE \/ TerminalLoop \/ ServerConnection \/ ClientConnection
             \/ (\E m \in Machines : ClientLoop(m)) \/ Shells \/ UNCHANGED vars
    BY <1>5, <2>2 DEF TerminalLoop, ServerConnection, ClientConnection, ClientLoop, Shells,
       TerminalOnly, ClientOnly, waVars, vars
  <2> QED BY <1>11, <2>1, <2>2
<1> QED BY <1>6, <1>7, <1>8, <1>9, <1>10, <1>11 DEF Next, WebAppLoop

LEMMA AppClientStays ==
    ASSUME Typed, [Next]_vars, NEW h \in Hosts, NEW t, HasAppClient(h, t)
    PROVE  HasAppClient(h, t)' \/ InTS("OnClientClosed", h)
<1>1. CASE remoteHosts' = remoteHosts
  BY <1>1 DEF HasAppClient
<1>2. CASE CreateNewTerminal
  <2>1. ASSUME NEW d, NEW u, NEW c, AddTerminal(d, u, c)
        PROVE  HasAppClient(h, t)'
    <3>1. h \in DOMAIN remoteHosts'
      BY <2>1 DEF AddTerminal, Assign, HasAppClient
    <3>2. CASE h # d
      <4>1. remoteHosts'[h] = remoteHosts[h]
        BY <2>1, <3>2 DEF AddTerminal, Assign, HasAppClient
      <4> QED BY <3>1, <4>1 DEF HasAppClient
    <3>3. CASE h = d
      <4>1. remoteHosts'[h] = Insert(remoteHosts[h], u, c)
        BY <2>1, <3>3 DEF AddTerminal, Assign, HasAppClient, Entry
      <4>2. t \in DOMAIN Insert(remoteHosts[h], u, c)
        BY DEF HasAppClient, Insert, Assign
      <4> QED BY <3>1, <4>1, <4>2 DEF HasAppClient
    <3> QED BY <3>2, <3>3
  <2> QED BY <1>1, <1>2, <2>1 DEF CreateNewTerminal
<1>3. CASE OnClientClosed
  <2>1. /\ remoteHosts' = Erase(remoteHosts, Head(tsLoop).h) /\ tsLoop # <<>>
        /\ Head(tsLoop).fn = "OnClientClosed"
    BY <1>3 DEF OnClientClosed, TakeTS, Runs
  <2>2. CASE Head(tsLoop).h = h
    <3>1. 1 \in DOMAIN tsLoop /\ tsLoop[1] = Head(tsLoop)
      BY <2>1, TaskTaken, ServiceTypes
    <3> QED BY <2>1, <2>2, <3>1 DEF InTS
  <2>3. CASE Head(tsLoop).h # h
    <3>1. h \in DOMAIN remoteHosts' /\ remoteHosts'[h] = remoteHosts[h]
      BY <2>1, <2>3 DEF HasAppClient, Erase, Restrict
    <3> QED BY <3>1 DEF HasAppClient
  <2> QED BY <2>2, <2>3
<1>4. CASE \/ ResizeTerminal \/ DeleteTerminal \/ SendKeyEvent
           \/ HandleTerminalCreated \/ HandleTerminalRead \/ HandleTerminalEnd
  BY <1>1, <1>4 DEF ResizeTerminal, DeleteTerminal, SendKeyEvent, Command,
     HandleTerminalCreated, HandleTerminalRead, HandleTerminalEnd, Report, tsVars
<1>5. CASE Pages \/ WebAppLoop \/ ServerConnection \/ UNCHANGED vars
  BY <1>1, <1>5 DEF Pages, WebAppLoop, ServerConnection, WebAppOnly, tsVars, vars,
     ServerOnClientRead, ServerOnClientClosed, ServerOnClientUnresponsive
<1>6. CASE ClientConnection \/ (\E m \in Machines : ClientLoop(m)) \/ Shells
  BY <1>1, <1>6 DEF ClientConnection, ClientLoop, Shells, ClientOnly, tsVars
<1> QED BY <1>2, <1>3, <1>4, <1>5, <1>6 DEF Next, TerminalLoop

LEMMA NextRoutes ==
    ASSUME HostsInv, ServiceInv, RoutesKnown, [Next]_vars
    PROVE  RoutesKnown'
<1>1. Typed /\ Routed /\ ConnInv
  BY DEF HostsInv, ServiceInv
<1>2. ASSUME NEW t \in 1 .. Len(owner), GetClient(owner[t].h)'
      PROVE  HasAppClient(owner[t].h, t)'
  <2>1. PICK h \in Hosts : h = owner[t].h /\ h = owner'[t].h
    BY <1>1, OwnerGrows, ServiceTypes
  <2>2. GetClient(h)' /\ srvEnd[h] # "none"
    BY <1>1, <1>2, <2>1 DEF ConnInv
  <2>3. GetClient(h)
    BY <1>1, <2>2, LinkStep
  <2>4. HasAppClient(h, t)
    BY <2>1, <2>3 DEF RoutesKnown
  <2>5. ~InTS("OnClientClosed", h)
    <3>1. LossReported(h) => srvEnd[h] \in {"removed", "closed"}
      BY DEF HostsInv, HostParts, Losses
    <3> QED BY <2>3, <3>1 DEF LossReported, GetClient
  <2>6. HasAppClient(h, t)'
    BY <1>1, <2>4, <2>5, AppClientStays
  <2> QED BY <2>1, <2>6
<1>3. ASSUME NEW t \in 1 .. Len(owner'), t \notin 1 .. Len(owner)
      PROVE  HasAppClient(owner[t].h, t)'
  <2>1. /\ CreateNewTerminal /\ t = Len(owner) + 1 /\ tsLoop # <<>>
        /\ owner'[t].h = Head(tsLoop).h
    BY <1>1, <1>3, OwnerGrows
  <2>2. PICK h, c : h = Head(tsLoop).h /\ c = Head(tsLoop).c
    OBVIOUS
  <2>3. AddTerminal(h, t, c)
    <3>1. t = NextId
      BY <1>1, <2>1 DEF Routed, NextId
    <3>2. owner' # owner
      BY <1>3
    <3> QED BY <2>1, <2>2, <3>1, <3>2 DEF CreateNewTerminal
  <2>4. h \in DOMAIN remoteHosts' /\ remoteHosts'[h] = Insert(Entry(remoteHosts, h), t, c)
    BY <2>3 DEF AddTerminal, Assign
  <2>5. t \in DOMAIN Insert(Entry(remoteHosts, h), t, c)
    BY DEF Insert, Assign
  <2>6. HasAppClient(h, t)'
    BY <2>4, <2>5 DEF HasAppClient
  <2> QED BY <2>1, <2>2, <2>6
<1> QED BY <1>2, <1>3 DEF RoutesKnown

LEMMA LateStays == ASSUME [Next]_vars PROVE late \subseteq late'
<1>1. CASE WebAppLoop
  BY <1>1 DEF WebAppLoop, AddClient, RemoveClient, OnTerminalAddReq, OnTerminalCreated,
     OnTerminalResizeReq, OnTerminalDelReq, OnTerminalKeyEvent, OnRemoteHostInfoReceived,
     OnTerminalClientClosed, OnTerminalOutput, OnTerminalClosed, OwnedRequest, waVars
<1>2. CASE Pages
  BY <1>2 DEF Pages, OnWsClientConnected, OnWsClientMessage, OnWsClientClosed, WebAppOnly
<1>3. CASE \/ TerminalLoop \/ ServerConnection \/ ClientConnection
           \/ (\E m \in Machines : ClientLoop(m)) \/ Shells \/ UNCHANGED vars
  BY <1>3 DEF TerminalLoop, ServerConnection, ClientConnection, ClientLoop, Shells,
     TerminalOnly, ClientOnly, waVars, vars
<1> QED BY <1>1, <1>2, <1>3 DEF Next

LEMMA StartKept ==
    ASSUME Typed, [Next]_vars, NEW m \in Machines, NEW t, NEW h \in Hosts,
           Starting(m, t), client[m] = h, LinkUp(h)
    PROVE  Starting(m, t)' \/ Has(up'[h], Reports("ON_TERMINAL_CREATED", t))
  BY StartingStays, CreatedSentUp

LEMMA ReportKept ==
    ASSUME Typed, [Next]_vars, NEW h \in Hosts, NEW t, LinkUp(h), LinkUp(h)',
           Has(up[h], Reports("ON_TERMINAL_CREATED", t))
    PROVE  \/ Has(up'[h], Reports("ON_TERMINAL_CREATED", t))
           \/ Has(tsLoop', ServerTasks("HandleTerminalCreated", h, t))
<1>1. up[h] \in Seq(UpMsg)
  BY ServiceTypes
<1>2. PICK A : A = Reports("ON_TERMINAL_CREATED", t)
  OBVIOUS
<1>3. CASE up'[h] = up[h]
  BY <1>3
<1>4. CASE ServerOnClientRead(h) /\ up[h] # <<>> /\ up'[h] = Tail(up[h])
  <2>1. CASE Head(up[h]) \in A
    BY <1>2, <1>4, <2>1, CreatedRead
  <2>2. CASE Head(up[h]) \notin A
    BY <1>1, <1>2, <1>4, <2>2, HasTail
  <2> QED BY <2>1, <2>2
<1>5. ASSUME NEW msg \in UpMsg, up'[h] = Append(up[h], msg)
      PROVE  Has(up'[h], A)
  BY <1>1, <1>2, <1>5, HasAppend
<1>6. srvEnd'[h] # "closed" /\ srvEnd[h] # "none"
  BY DEF LinkUp, GetClient
<1> QED BY <1>2, <1>3, <1>4, <1>5, <1>6, UpStep

\* A task of TerminalServer's loop is done, or still to be done.
LEMMA ServerTaskKept ==
    ASSUME Typed, [Next]_vars, NEW A, Has(tsLoop, A)
    PROVE  \/ Has(tsLoop', A)
           \/ TerminalLoop /\ tsLoop # <<>> /\ Head(tsLoop) \in A
<1>1. tsLoop \in Seq(TerminalTask)
  BY ServiceTypes
<1>2. ASSUME NEW k \in TerminalTask, tsLoop' = Append(tsLoop, k)
      PROVE  Has(tsLoop', A)
  BY <1>1, <1>2, HasAppend
<1>3. ASSUME NEW r \in Seq(TerminalTask), tsLoop' = tsLoop \o r
      PROVE  Has(tsLoop', A)
  BY <1>1, <1>3, HasConcat
<1>4. CASE TerminalLoop /\ tsLoop # <<>> /\ tsLoop' = Tail(tsLoop)
  BY <1>1, <1>4, HasTail
<1> QED BY <1>2, <1>3, <1>4, TSStep

LEMMA PageTaskKept ==
    ASSUME Typed, [Next]_vars, NEW A, Has(waLoop, A)
    PROVE  \/ Has(waLoop', A)
           \/ WebAppLoop /\ waLoop # <<>> /\ Head(waLoop) \in A
<1>1. waLoop \in Seq(WebAppTask)
  BY ServiceTypes
<1>2. ASSUME NEW k \in WebAppTask, waLoop' = Append(waLoop, k)
      PROVE  Has(waLoop', A)
  BY <1>1, <1>2, HasAppend
<1>3. CASE WebAppLoop /\ waLoop # <<>> /\ waLoop' = Tail(waLoop)
  BY <1>1, <1>3, HasTail
<1> QED BY <1>2, <1>3, WAStep

\* The order to delete arrives at the machine the terminal is on.
LEMMA OrderKept ==
    ASSUME Typed, ConnInv, [Next]_vars, NEW m \in Machines, NEW h \in Hosts, NEW t,
           client[m] = h, LinkUp(h)', Has(down[h], DeleteOrders(t))
    PROVE  \/ Has(down'[h], DeleteOrders(t))
           \/ Has(loop'[m], ClientTasks("HandleDeleteTerminal", t))
<1>1. down[h] \in Seq(DownMsg)
  BY ServiceTypes
<1>2. PICK A : A = DeleteOrders(t)
  OBVIOUS
<1>3. CASE down'[h] = down[h]
  BY <1>3
<1>4. ASSUME NEW msg, down'[h] = Append(down[h], msg)
      PROVE  Has(down'[h], A)
  BY <1>1, <1>2, <1>4, HasAppend
<1>5. ASSUME NEW n \in Machines, ClientOnClientRead(n), client[n] = h, down[h] # <<>>,
             down'[h] = Tail(down[h])
      PROVE  Has(down'[h], A) \/ Has(loop'[m], ClientTasks("HandleDeleteTerminal", t))
  <2>1. n = m
    BY <1>5 DEF ConnInv
  <2>2. CASE Head(down[h]) \in A
    BY <1>2, <1>5, <2>1, <2>2, DeleteReceived
  <2>3. CASE Head(down[h]) \notin A
    BY <1>1, <1>2, <1>5, <2>3, HasTail
  <2> QED BY <2>2, <2>3
<1>6. cliEnd'[h]
  BY DEF LinkUp
<1> QED BY <1>2, <1>3, <1>4, <1>5, <1>6, DownStep

\* The loop of a machine removes the terminal, or will.
LEMMA RemovalKept ==
    ASSUME Typed, [Next]_vars, NEW m \in Machines, NEW t \in terminals'[m],
           NEW fn \in {"HandleDeleteTerminal", "OnTerminalEnd"},
           Has(loop[m], ClientTasks(fn, t))
    PROVE  Has(loop'[m], ClientTasks(fn, t))
<1>1. /\ loop \in [Machines -> Seq(ClientTask)] /\ loop[m] \in Seq(ClientTask)
      /\ terminals \in [Machines -> SUBSET TerminalId]
  BY ServiceTypes
<1>2. PICK A : A = ClientTasks(fn, t)
  OBVIOUS
<1>3. ASSUME NEW k \in ClientTask, loop'[m] = Append(loop[m], k)
      PROVE  Has(loop'[m], A)
  BY <1>1, <1>2, <1>3, HasAppend
<1>4. ASSUME NEW r \in Seq(ClientTask), loop'[m] = loop[m] \o r
      PROVE  Has(loop'[m], A)
  BY <1>1, <1>2, <1>4, HasConcat
<1>5. CASE HandleCreateTerminal(m)
  <2>1. loop[m] # <<>> /\ Head(loop[m]).fn = "HandleCreateTerminal"
    BY <1>5 DEF HandleCreateTerminal, Runs
  <2>2. Has(Tail(loop[m]), A)
    <3>1. Head(loop[m]) \notin A
      BY <1>2, <2>1 DEF ClientTasks
    <3> QED BY <1>1, <1>2, <2>1, <3>1, HasTail
  <2>3. PICK u, ok : /\ u = Head(loop[m]).t /\ ok \in BOOLEAN
                     /\ loop' = [loop EXCEPT ![m] =
                           <<[fn |-> "SendCreated", t |-> u, ok |-> ok]>> \o Tail(@)]
    <3>1. \E ok \in BOOLEAN : loop' = [loop EXCEPT ![m] =
             <<[fn |-> "SendCreated", t |-> Head(loop[m]).t, ok |-> ok]>> \o Tail(@)]
      BY <1>5 DEF HandleCreateTerminal
    <3> QED BY <3>1
  <2>4. PICK k : k = [fn |-> "SendCreated", t |-> u, ok |-> ok]
    OBVIOUS
  <2>5. loop'[m] = <<k>> \o Tail(loop[m])
    BY <1>1, <2>3, <2>4
  <2>6. k \in ClientTask
    <3>1. Head(loop[m]) \in ClientTask
      BY <1>1, <2>1, HeadAndTail
    <3>2. u \in TerminalId
      BY <2>1, <2>3, <3>1 DEF ClientTask
    <3> QED BY <2>3, <2>4, <3>2 DEF ClientTask
  <2>7. Tail(loop[m]) \in Seq(ClientTask)
    BY <1>1, <2>1, HeadAndTail
  <2>8. <<k>> \in Seq(ClientTask)
    BY <2>6
  <2>9. Has(<<k>> \o Tail(loop[m]), A)
    BY <2>2, <2>7, <2>8, HasConcat
  <2> QED BY <1>2, <2>5, <2>9
<1>6. CASE ClientLoop(m) /\ loop[m] # <<>> /\ loop'[m] = Tail(loop[m])
  <2>1. Head(loop[m]) \notin A
    <3>1. SUFFICES ASSUME Head(loop[m]) \in A PROVE FALSE
      OBVIOUS
    <3>2. Head(loop[m]).fn = fn /\ Head(loop[m]).t = t
      BY <1>2, <3>1 DEF ClientTasks
    <3>3. CASE fn = "HandleDeleteTerminal"
      <4>1. HandleDeleteTerminal(m)
        BY <1>6, <3>2, <3>3 DEF ClientLoop, HandleCreateTerminal, SendCreated,
           HandleResizeTerminal, HandleTerminalWrite, DeleteTerminals,
           EnableReadFromTerminals, OnTerminalEnd, Take, Runs
      <4> QED BY <1>1, <3>2, <4>1 DEF HandleDeleteTerminal, Remove
    <3>4. CASE fn = "OnTerminalEnd"
      <4>1. OnTerminalEnd(m)
        BY <1>6, <3>2, <3>4 DEF ClientLoop, HandleCreateTerminal, SendCreated,
           HandleResizeTerminal, HandleTerminalWrite, DeleteTerminals,
           EnableReadFromTerminals, HandleDeleteTerminal, Take, Runs
      <4> QED BY <1>1, <3>2, <4>1 DEF OnTerminalEnd, Remove
    <3> QED BY <3>3, <3>4
  <2> QED BY <1>1, <1>2, <1>6, <2>1, HasTail
<1> QED BY <1>2, <1>3, <1>4, <1>5, <1>6, LoopStep

\* A terminal stays on its machine: the queues pass on what is known of it.
LEMMA FoundKept ==
    ASSUME HostsInv, ServiceInv, RoutesKnown, [Next]_vars,
           NEW m \in Machines, NEW t \in terminals'[m], NEW h \in Hosts,
           h = owner[t].h, h = owner'[t].h, t \in 1 .. Len(owner),
           client[m] = h, LinkUp(h), LinkUp(h)',
           InSession(t) \/ CreationNear(m, t) \/ RemovalNear(m, t) \/ t \in late
    PROVE  InSession(t)' \/ CreationNear(m, t)' \/ RemovalNear(m, t)' \/ t \in late'
<1>1. Typed /\ Routed /\ ConnInv
  BY DEF HostsInv, ServiceInv
<1>2. HasAppClient(h, t)
  BY DEF RoutesKnown, LinkUp
<1>3. CreationNear(m, t)' <=>
          \/ Starting(m, t)'
          \/ Has(up'[h], Reports("ON_TERMINAL_CREATED", t))
          \/ Has(tsLoop', ServerTasks("HandleTerminalCreated", h, t))
          \/ Has(waLoop', PageTasks("OnTerminalCreated", t))
  BY DEF CreationNear
<1>4. RemovalNear(m, t)' <=>
          \/ Has(tsLoop', ServerTasks("DeleteTerminal", h, t))
          \/ Has(down'[h], DeleteOrders(t))
          \/ Has(loop'[m], ClientTasks("HandleDeleteTerminal", t))
          \/ Has(loop'[m], ClientTasks("OnTerminalEnd", t))
  BY DEF RemovalNear
<1>5. CASE t \in late
  BY <1>5, LateStays
<1>6. CASE InSession(t)
  BY <1>1, <1>4, <1>6, SessionKept
<1>7. CASE Starting(m, t)
  BY <1>1, <1>3, <1>7, StartKept
<1>8. CASE Has(up[h], Reports("ON_TERMINAL_CREATED", t))
  BY <1>1, <1>3, <1>8, ReportKept
<1>9. CASE Has(tsLoop, ServerTasks("HandleTerminalCreated", h, t))
  <2>1. \/ Has(tsLoop', ServerTasks("HandleTerminalCreated", h, t))
        \/ /\ TerminalLoop /\ tsLoop # <<>>
           /\ Head(tsLoop) \in ServerTasks("HandleTerminalCreated", h, t)
    BY <1>1, <1>9, ServerTaskKept
  <2> QED BY <1>1, <1>2, <1>3, <2>1, CreatedPassedOn
<1>10. CASE Has(waLoop, PageTasks("OnTerminalCreated", t))
  <2>1. \/ Has(waLoop', PageTasks("OnTerminalCreated", t))
        \/ /\ WebAppLoop /\ waLoop # <<>>
           /\ Head(waLoop) \in PageTasks("OnTerminalCreated", t)
    BY <1>1, <1>10, PageTaskKept
  <2> QED BY <1>1, <1>3, <2>1, CreatedKept
<1>11. CASE Has(tsLoop, ServerTasks("DeleteTerminal", h, t))
  <2>1. \/ Has(tsLoop', ServerTasks("DeleteTerminal", h, t))
        \/ /\ TerminalLoop /\ tsLoop # <<>>
           /\ Head(tsLoop) \in ServerTasks("DeleteTerminal", h, t)
    BY <1>1, <1>11, ServerTaskKept
  <2> QED BY <1>1, <1>4, <2>1, DeleteSent
<1>12. CASE Has(down[h], DeleteOrders(t))
  BY <1>1, <1>4, <1>12, OrderKept
<1>13. ASSUME NEW fn \in {"HandleDeleteTerminal", "OnTerminalEnd"},
              Has(loop[m], ClientTasks(fn, t))
       PROVE  RemovalNear(m, t)'
  <2>1. Has(loop'[m], ClientTasks(fn, t))
    BY <1>1, <1>13, RemovalKept
  <2> QED BY <1>4, <2>1
<1> QED
  BY <1>5, <1>6, <1>7, <1>8, <1>9, <1>10, <1>11, <1>12, <1>13 DEF CreationNear, RemovalNear

LEMMA NextCared ==
    ASSUME HostsInv, ServiceInv, RoutesKnown, CaredFor, ServiceInv', [Next]_vars
    PROVE  CaredFor'
<1>1. Typed /\ Routed /\ StartInv /\ ConnInv /\ StartInv'
  BY DEF HostsInv, ServiceInv
<1>2. /\ terminals \in [Machines -> SUBSET TerminalId]
      /\ client \in [Machines -> Hosts \cup {NoHost}]
      /\ \A t \in 1 .. Len(owner) : owner[t].h \in Hosts /\ owner'[t] = owner[t]
  BY <1>1, ServiceTypes, OwnerGrows
<1> SUFFICES ASSUME NEW m \in Machines, NEW t \in terminals'[m], LinkUp(owner[t].h)'
             PROVE  InSession(t)' \/ CreationNear(m, t)' \/ RemovalNear(m, t)' \/ t \in late'
  BY DEF CaredFor
<1>3. t \in started'
  BY <1>1 DEF StartInv
<1>4. CASE t \notin started
  <2>1. PICK n \in Machines : Starting(n, t)'
    BY <1>1, <1>3, <1>4, NewlyStarted
  <2>2. t \in terminals'[n]
    <3>1. loop'[n] \in Seq(FitTask(n)') /\ CreatingFirst(n)' /\ loop'[n] # <<>>
          /\ Head(loop'[n]) \in ClientTasks("SendCreated", t)
      BY <1>1, <2>1 DEF StartInv, Starting
    <3>2. 1 \in DOMAIN loop'[n] /\ loop'[n][1] = Head(loop'[n])
      BY <3>1, TaskTaken
    <3>3. Head(loop'[n]).fn = "SendCreated" /\ Head(loop'[n]).t = t
      BY <3>1 DEF ClientTasks
    <3> QED BY <3>1, <3>2, <3>3 DEF CreatingFirst
  <2>3. n = m
    BY <1>1, <2>2 DEF StartInv
  <2> QED BY <2>1, <2>3 DEF CreationNear
<1>5. CASE t \in started
  <2>1. t \in 1 .. Len(owner)
    BY <1>1, <1>5 DEF StartInv
  <2>2. PICK h \in Hosts : h = owner[t].h /\ h = owner'[t].h
    BY <1>2, <2>1
  <2>3. LinkUp(h)'
    BY <2>2
  <2>4. srvEnd[h] # "none"
    BY <1>1, <2>1, <2>2 DEF ConnInv
  <2>5. LinkUp(h)
    BY <1>1, <2>3, <2>4, LinkStep
  <2>6. t \in terminals[m]
    BY <1>1, <1>2, <1>5, RunningSteps
  <2>7. client[m] = h
    <3>1. Hosted(m, t) /\ ~Broken(h)
      BY <2>5, <2>6 DEF Hosted, Broken, LinkUp
    <3> QED BY <1>1, <2>1, <2>2, <3>1 DEF ConnInv
  <2>8. InSession(t) \/ CreationNear(m, t) \/ RemovalNear(m, t) \/ t \in late
    BY <2>2, <2>5, <2>6 DEF CaredFor
  <2> QED BY <2>1, <2>2, <2>3, <2>5, <2>7, <2>8, FoundKept
<1> QED BY <1>4, <1>5

LEMMA CaredForNotForgotten == ASSUME Typed, StartInv, CaredFor PROVE NoForgottenTerminal
<1>1. ASSUME NEW m \in Machines, NEW t, CreationNear(m, t), owner[t].h \in Hosts
      PROVE  CreationUnderWay(m, t)
  <2>1. CASE Starting(m, t)
    <3>1. loop[m] \in Seq(ClientTask) /\ loop[m] # <<>>
      BY <2>1, ServiceTypes DEF Starting
    <3>2. 1 \in DOMAIN loop[m] /\ loop[m][1] = Head(loop[m])
      BY <3>1, TaskTaken
    <3> QED BY <2>1, <3>2 DEF Starting, ClientTasks, CreationUnderWay, Task
  <2>2. CASE Has(up[owner[t].h], Reports("ON_TERMINAL_CREATED", t))
    BY <1>1, <2>2 DEF Has, Reports, CreationUnderWay, Message
  <2>3. CASE Has(tsLoop, ServerTasks("HandleTerminalCreated", owner[t].h, t))
    BY <2>3 DEF Has, ServerTasks, CreationUnderWay, Task
  <2>4. CASE Has(waLoop, PageTasks("OnTerminalCreated", t))
    BY <2>4 DEF Has, PageTasks, CreationUnderWay, Task
  <2> QED BY <1>1, <2>1, <2>2, <2>3, <2>4 DEF CreationNear
<1>2. ASSUME NEW m \in Machines, NEW t, RemovalNear(m, t), owner[t].h \in Hosts
      PROVE  RemovalUnderWay(m, t)
  BY <1>2 DEF RemovalNear, RemovalUnderWay, Has, ServerTasks, DeleteOrders, ClientTasks,
     Task, Message
<1>3. ASSUME NEW m \in Machines, NEW t \in terminals[m], LinkUp(owner[t].h)
      PROVE  owner[t].h \in Hosts
  <2>1. t \in 1 .. Len(owner)
    BY <1>3 DEF StartInv
  <2> QED BY <2>1, ServiceTypes
<1> QED BY <1>1, <1>2, <1>3 DEF CaredFor, NoForgottenTerminal, InSession

\* A terminal that runs on a connected machine is in the session of a page, or
\* on its way into one or out of existence: what TerminalServer and WebAppServer
\* pass on about it is never dropped while both ends of the connection are up,
\* except by OnTerminalCreated when the page has left (WebAppServer.cpp
\* OnTerminalCreated, RemoveClient; TerminalServer.cpp HandleTerminalCreated,
\* DeleteTerminal; TerminalClient.cpp OnClientRead).
THEOREM NoneForgotten == Spec => []NoForgottenTerminal
<1> DEFINE Inv == HostsInv /\ ServiceInv /\ RoutesKnown /\ CaredFor
<1>1. Init => Inv
  <2>1. SUFFICES ASSUME Init PROVE RoutesKnown /\ CaredFor
    BY InitHosts, InitService
  <2>2. owner = <<>> /\ \A m \in Machines : terminals[m] = {}
    BY <2>1 DEF Init, TerminalServerInit, TerminalClientInit
  <2>3. 1 .. Len(<<>>) = {}
    OBVIOUS
  <2> QED BY <2>2, <2>3 DEF RoutesKnown, CaredFor
<1>2. Inv /\ [Next]_vars => Inv'
  BY NextHosts, NextService, NextRoutes, NextCared
<1>3. Inv => NoForgottenTerminal
  BY CaredForNotForgotten DEF HostsInv, ServiceInv
<1> QED
  BY <1>1, <1>2, <1>3, PTL DEF Spec
=============================================================================
