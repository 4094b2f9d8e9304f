--------------------------- MODULE WebPageProofs ---------------------------
(***************************************************************************)
(* The page, for any hosts, any number of clicks, sessions and messages on *)
(* their way, and any number of buttons a host may have.  The methods of   *)
(* the page have a lemma each; a handler that throws halfway leaves a page *)
(* that is as sound as the one of a handler that ends.                     *)
(***************************************************************************)
EXTENDS WebPage, FiniteSetTheorems, SequenceTheorems, TLAPS

HostMap == UNION {[listed -> RemoteHost] : listed \in SUBSET Hosts}

Page == [hosts : HostMap, currentHost : Hosts \cup {NoHost}, terminals : SUBSET TerminalId,
         currentTerminal : Nat, attached : SUBSET TerminalId, info : BOOLEAN,
         out : SUBSET Request, ok : BOOLEAN]

\* The terminals host has buttons for.
Shown(host) == Range(host.buttons) \ {AddBt}

\* ButtonsInOrder of the buttons of one host: no button twice, the one that adds
\* comes last.
Orderly(buttons) ==
    /\ \A i, j \in DOMAIN buttons : buttons[i] = buttons[j] => i = j
    /\ \A i \in DOMAIN buttons : buttons[i] = AddBt => i = Len(buttons)

HasAdd(buttons) == AddBt \in Range(buttons)

InOrder(host) ==
    Orderly(host.buttons) /\ (host.connectingBt # "none" <=> HasAdd(host.buttons))

\* ActiveIsSelected of one host.
Selected(host) ==
    Shown(host) # {} => host.selectedBt \in Shown(host) /\ host.activeTerminal = host.selectedBt

\* Buttons are made for terminals that have a node and run on this host.
ButtonsOf(p, h) ==
    \A t \in Shown(p.hosts[h]) : t \in p.terminals /\ t \in DOMAIN ordered /\ ordered[t] = h

\* The node of the current terminal is in the view, if there is one.
Displayed(p) ==
    /\ p.attached \subseteq p.terminals
    /\ p.currentTerminal \in p.terminals => p.currentTerminal \in p.attached

Sound(p) ==
    /\ p \in Page
    /\ IsFiniteSet(DOMAIN p.hosts)
    /\ \A h \in DOMAIN p.hosts :
          InOrder(p.hosts[h]) /\ Selected(p.hosts[h]) /\ ButtonsOf(p, h)
    /\ p.currentHost # NoHost => p.currentHost \in DOMAIN p.hosts
    /\ p.info => DOMAIN p.hosts = {}
    /\ Displayed(p)

\* Every terminal the page knows in some way.
Seen(p) ==
    p.terminals \cup {p.currentTerminal}
    \cup UNION {{p.hosts[h].activeTerminal, p.hosts[h].selectedBt} : h \in DOMAIN p.hosts}

Sent(i, type) == i \in DOMAIN toPage /\ toPage[i].type = type

ServerInv ==
    /\ IsFiniteSet(up)
    /\ up \subseteq Hosts /\ gone \subseteq Hosts /\ up \cap gone = {}
    /\ ordered \in Seq(Hosts)
    /\ starting \subseteq DOMAIN ordered /\ live \subseteq DOMAIN ordered
    /\ starting \cap live = {}
    /\ \A t \in starting \cup live : ordered[t] \in up

\* A page without a session is empty.
LinkInv ==
    ~linked => /\ toPage = <<>> /\ DOMAIN page.hosts = {}
               /\ starting = {} /\ live = {}

\* What is on its way to the page.
QueueInv ==
    /\ toPage \in Seq(Message)
    /\ DOMAIN page.hosts \subseteq up \cup gone
    /\ \A i \in DOMAIN toPage : toPage[i].h \in up \cup gone
    /\ \A i \in DOMAIN toPage :
          /\ Sent(i, "host_connected") => toPage[i].h \notin DOMAIN page.hosts
          /\ Sent(i, "host_disconnected") => toPage[i].h \in gone
          /\ (Sent(i, "terminal_added") \/ Sent(i, "terminal_closed")) =>
                toPage[i].t \in DOMAIN ordered /\ ordered[toPage[i].t] = toPage[i].h
          /\ Sent(i, "terminal_added") => toPage[i].t \notin Seen(page) \cup starting
          /\ Sent(i, "terminal_closed") => toPage[i].t \notin live \cup starting
    /\ \A i, j \in DOMAIN toPage :
          i # j => /\ (Sent(i, "host_connected") /\ Sent(j, "host_connected"))
                         => toPage[i].h # toPage[j].h
                   /\ (Sent(i, "terminal_added") /\ Sent(j, "terminal_added"))
                         => toPage[i].t # toPage[j].t

\* The page lists a connected host, or will before it hears of its terminals.
HostsFirst ==
    /\ \A h \in up : linked => \/ h \in DOMAIN page.hosts
                               \/ \E i \in DOMAIN toPage :
                                     Sent(i, "host_connected") /\ toPage[i].h = h
    /\ \A i \in DOMAIN toPage : Sent(i, "terminal_added") =>
          \/ toPage[i].h \in DOMAIN page.hosts \cup gone
          \/ \E j \in DOMAIN toPage :
                j < i /\ Sent(j, "host_connected") /\ toPage[j].h = toPage[i].h

\* Terminals that are asked for are new to the page.
FreshInv == Seen(page) \cap starting = {} /\ Seen(page) \subseteq 0 .. Len(ordered)

WebPageInv ==
    /\ linked \in BOOLEAN
    /\ Sound(page) /\ page.out = {} /\ page.ok
    /\ ServerInv
    /\ LinkInv
    /\ QueueInv
    /\ HostsFirst
    /\ FreshInv

-----------------------------------------------------------------------------
LEMMA HostFields ==
    ASSUME NEW host \in RemoteHost
    PROVE  /\ host.activeTerminal \in Nat /\ host.selectedBt \in Nat
           /\ host.buttons \in Seq(Nat)
           /\ host.connectingBt \in {"none", "IDLE", "ACTIVATING"}
           /\ host.selected \in SUBSET TerminalId /\ host.files \in SUBSET TerminalId
           /\ \A n \in Nat : /\ [host EXCEPT !.activeTerminal = n] \in RemoteHost
                             /\ [host EXCEPT !.selectedBt = n] \in RemoteHost
  BY DEF RemoteHost

LEMMA PageFields ==
    ASSUME NEW p \in Page
    PROVE  /\ p.hosts \in HostMap /\ DOMAIN p.hosts \subseteq Hosts
           /\ \A h \in DOMAIN p.hosts : p.hosts[h] \in RemoteHost
           /\ p.currentHost \in Hosts \cup {NoHost} /\ p.terminals \in SUBSET TerminalId
           /\ p.currentTerminal \in Nat /\ p.attached \in SUBSET TerminalId
           /\ p.info \in BOOLEAN /\ p.out \in SUBSET Request /\ p.ok \in BOOLEAN
<1>1. p.hosts \in HostMap
  BY DEF Page
<1>2. PICK listed \in SUBSET Hosts : p.hosts \in [listed -> RemoteHost]
  BY <1>1 DEF HostMap
<1> QED BY <1>1, <1>2 DEF Page

\* What is left alone when the page's hosts or its view change.
SameFrame(p, r) ==
    /\ r.currentHost = p.currentHost /\ r.terminals = p.terminals
    /\ r.info = p.info /\ r.out = p.out

SameView(p, r) ==
    r.currentTerminal = p.currentTerminal /\ r.attached = p.attached /\ r.ok = p.ok

\* An object of the page is changed.
LEMMA HostChanged ==
    ASSUME NEW p \in Page, NEW h \in DOMAIN p.hosts, NEW host \in RemoteHost
    PROVE  LET r == [p EXCEPT !.hosts[h] = host]
           IN  /\ r \in Page
               /\ DOMAIN r.hosts = DOMAIN p.hosts
               /\ r.hosts[h] = host
               /\ \A g \in DOMAIN p.hosts : g # h => r.hosts[g] = p.hosts[g]
               /\ SameFrame(p, r) /\ SameView(p, r)
<1>1. PICK listed \in SUBSET Hosts : p.hosts \in [listed -> RemoteHost]
  BY DEF Page, HostMap
<1>2. [p.hosts EXCEPT ![h] = host] \in [listed -> RemoteHost]
  BY <1>1
<1>3. [p.hosts EXCEPT ![h] = host] \in HostMap
  BY <1>2 DEF HostMap
<1>4. PICK hosts \in HostMap : hosts = [p.hosts EXCEPT ![h] = host]
  BY <1>3
<1>5. PICK r : r = [p EXCEPT !.hosts = hosts]
  OBVIOUS
<1>6. r \in Page /\ r.hosts = hosts /\ SameFrame(p, r) /\ SameView(p, r)
  BY <1>5 DEF Page, SameFrame, SameView
<1>7. [p EXCEPT !.hosts[h] = host] = r
  BY <1>4, <1>5
<1>8. DOMAIN hosts = DOMAIN p.hosts /\ hosts[h] = host
      /\ \A g \in DOMAIN p.hosts : g # h => hosts[g] = p.hosts[g]
  BY <1>4
<1> QED BY <1>6, <1>7, <1>8

\* TerminalView.setTerminal() fails when the current terminal is not in the view,
\* or the new one has no node.
LEMMA SetTerminal ==
    ASSUME NEW p \in Page, p.ok, NEW t \in Nat
    PROVE  LET r == setTerminal(p, t)
           IN  /\ r \in Page
               /\ r.hosts = p.hosts /\ SameFrame(p, r)
               /\ r.currentTerminal \in {p.currentTerminal, t}
               /\ Displayed(p) => Displayed(r)
               /\ ~r.ok => \/ t # NoTerminal /\ t \notin p.terminals
                           \/ /\ p.currentTerminal # NoTerminal
                              /\ p.currentTerminal \notin p.attached
<1>1. PICK q : q = IF p.currentTerminal = NoTerminal THEN p ELSE removeObj(p, p.currentTerminal)
  OBVIOUS
<1>2. PICK r : r = [q EXCEPT !.currentTerminal = t]
  OBVIOUS
<1>3. /\ q \in Page /\ q.hosts = p.hosts /\ SameFrame(p, q) /\ q.currentTerminal = p.currentTerminal
      /\ q.attached \subseteq p.attached
      /\ \A u \in p.attached : u = p.currentTerminal \/ u \in q.attached
      /\ q.ok \/ q.attached = p.attached
      /\ ~q.ok => /\ p.currentTerminal # NoTerminal
                  /\ p.currentTerminal \notin p.attached
  <2>1. CASE p.currentTerminal = NoTerminal
    BY <1>1, <2>1 DEF SameFrame, SameView
  <2>2. CASE p.currentTerminal # NoTerminal /\ p.currentTerminal \in p.attached
    <3>1. q = [p EXCEPT !.attached = @ \ {p.currentTerminal}]
      BY <1>1, <2>2 DEF removeObj
    <3> QED BY <2>2, <3>1 DEF Page, SameFrame
  <2>3. CASE p.currentTerminal # NoTerminal /\ p.currentTerminal \notin p.attached
    <3>1. q = [p EXCEPT !.ok = FALSE]
      BY <1>1, <2>3 DEF removeObj, Throw
    <3> QED BY <2>3, <3>1 DEF Page, SameFrame
  <2> QED BY <2>1, <2>2, <2>3
<1>4. /\ r \in Page /\ r.hosts = p.hosts /\ SameFrame(p, r) /\ r.currentTerminal = t
      /\ r.attached = q.attached /\ r.ok = q.ok
  BY <1>2, <1>3 DEF Page, SameFrame
<1>5. CASE ~q.ok
  <2>1. setTerminal(p, t) = q
    BY <1>1, <1>5 DEF setTerminal
  <2> QED BY <1>3, <1>5, <2>1 DEF Displayed, SameFrame
<1>6. CASE q.ok /\ t = NoTerminal
  <2>1. setTerminal(p, t) = r
    BY <1>1, <1>2, <1>6 DEF setTerminal
  <2>2. NoTerminal \notin p.terminals
    BY PageFields DEF TerminalId, NoTerminal
  <2> QED BY <1>3, <1>4, <1>6, <2>1, <2>2 DEF Displayed, SameFrame
<1>7. CASE q.ok /\ t # NoTerminal
  <2>1. setTerminal(p, t) = addObj(r, t)
    BY <1>1, <1>2, <1>7 DEF setTerminal
  <2>2. CASE t \in r.terminals
    <3>1. addObj(r, t) = [r EXCEPT !.attached = @ \cup {t}]
      BY <2>2 DEF addObj
    <3>2. t \in TerminalId
      BY <1>4, <2>2, PageFields
    <3>3. PICK s : s = [r EXCEPT !.attached = @ \cup {t}]
      OBVIOUS
    <3>4. /\ s \in Page /\ s.hosts = r.hosts /\ SameFrame(r, s) /\ s.currentTerminal = t
          /\ s.attached = r.attached \cup {t} /\ s.ok = r.ok
      BY <1>4, <3>2, <3>3 DEF Page, SameFrame
    <3>5. setTerminal(p, t) = s
      BY <2>1, <3>1, <3>3
    <3>6. s.hosts = p.hosts /\ SameFrame(p, s) /\ s.ok
      BY <1>3, <1>4, <1>7, <3>4 DEF SameFrame
    <3>7. Displayed(p) => Displayed(s)
      BY <1>3, <1>4, <2>2, <3>4 DEF Displayed, SameFrame
    <3> QED BY <3>4, <3>5, <3>6, <3>7
  <2>3. CASE t \notin r.terminals
    <3>1. addObj(r, t) = [r EXCEPT !.ok = FALSE]
      BY <2>3 DEF addObj, Throw
    <3>2. PICK s : s = [r EXCEPT !.ok = FALSE]
      OBVIOUS
    <3>3. /\ s \in Page /\ s.hosts = r.hosts /\ SameFrame(r, s) /\ s.currentTerminal = t
          /\ s.attached = r.attached
      BY <1>4, <3>2 DEF Page, SameFrame
    <3> QED BY <1>3, <1>4, <1>7, <2>1, <2>3, <3>1, <3>2, <3>3 DEF Displayed, SameFrame
  <2> QED BY <2>2, <2>3
<1> QED BY <1>5, <1>6, <1>7
-----------------------------------------------------------------------------
\* The buttons of a host.
LEMMA InRange ==
    ASSUME NEW b \in Seq(Nat), NEW x
    PROVE  x \in Range(b) <=> \E i \in DOMAIN b : b[i] = x
  BY DEF Range

LEMMA ButtonAdded ==
    ASSUME NEW b \in Seq(Nat), Orderly(b), ~HasAdd(b), NEW x \in Nat, x \notin Range(b)
    PROVE  LET c == Append(b, x)
           IN  /\ c \in Seq(Nat) /\ Orderly(c)
               /\ Range(c) = Range(b) \cup {x}
               /\ HasAdd(c) <=> x = AddBt
<1>0. Append(b, x) \in Seq(Nat)
  OBVIOUS
<1>1. PICK c \in Seq(Nat) : c = Append(b, x)
  BY <1>0
<1>2. /\ Len(c) = Len(b) + 1 /\ c[Len(b) + 1] = x
      /\ \A i \in DOMAIN b : i \in DOMAIN c /\ c[i] = b[i]
      /\ \A i \in DOMAIN c : i \in DOMAIN b \/ i = Len(b) + 1
      /\ Len(b) + 1 \in DOMAIN c
  BY <1>1
<1>3. Range(c) = Range(b) \cup {x}
  BY <1>2 DEF Range
<1>4. Orderly(c)
  <2>1. \A i \in DOMAIN b : b[i] # x /\ b[i] # AddBt
    BY DEF HasAdd, Range
  <2>2. \A i, j \in DOMAIN c : c[i] = c[j] => i = j
    BY <1>2, <2>1 DEF Orderly
  <2>3. \A i \in DOMAIN c : c[i] = AddBt => i = Len(c)
    BY <1>2, <2>1
  <2> QED BY <2>2, <2>3 DEF Orderly
<1>5. HasAdd(c) <=> x = AddBt
  BY <1>3 DEF HasAdd
<1> QED BY <1>1, <1>3, <1>4, <1>5

LEMMA ButtonTaken ==
    ASSUME NEW b \in Seq(Nat), Orderly(b), NEW t \in TerminalId, t \notin Range(b)
    PROVE  LET c == [i \in DOMAIN b |-> IF b[i] = AddBt THEN t ELSE b[i]]
           IN  /\ c \in Seq(Nat) /\ Orderly(c) /\ ~HasAdd(c)
               /\ Range(c) \subseteq (Range(b) \ {AddBt}) \cup {t}
               /\ Range(b) \ {AddBt} \subseteq Range(c)
               /\ HasAdd(b) => t \in Range(c)
<1>1. PICK c : c = [i \in DOMAIN b |-> IF b[i] = AddBt THEN t ELSE b[i]]
  OBVIOUS
<1>2. t # AddBt /\ t \in Nat
  BY DEF TerminalId, AddBt, NoTerminal
<1>3. /\ c \in Seq(Nat) /\ DOMAIN c = DOMAIN b /\ Len(c) = Len(b)
      /\ \A i \in DOMAIN b : c[i] = IF b[i] = AddBt THEN t ELSE b[i]
  BY <1>1, <1>2
<1>4. \A i \in DOMAIN b : b[i] # t
  BY DEF Range
<1>5. \A i \in DOMAIN b : c[i] # AddBt
  BY <1>2, <1>3
<1>6. Orderly(c)
  <2>1. \A i, j \in DOMAIN c : c[i] = c[j] => i = j
    BY <1>3, <1>4 DEF Orderly
  <2> QED BY <1>3, <1>5, <2>1 DEF Orderly
<1>7. ~HasAdd(c)
  BY <1>3, <1>5 DEF HasAdd, Range
<1>8. Range(c) \subseteq (Range(b) \ {AddBt}) \cup {t}
  BY <1>3 DEF Range
<1>9. Range(b) \ {AddBt} \subseteq Range(c)
  BY <1>3 DEF Range
<1>10. HasAdd(b) => t \in Range(c)
  BY <1>3 DEF HasAdd, Range
<1> QED BY <1>1, <1>3, <1>6, <1>7, <1>8, <1>9, <1>10

LEMMA ButtonRemoved ==
    ASSUME NEW b \in Seq(Nat), Orderly(b), NEW t \in Range(b), t # AddBt
    PROVE  LET c == RemoveAt(b, indexOf(b, t))
           IN  /\ c \in Seq(Nat) /\ Orderly(c)
               /\ Range(c) = Range(b) \ {t}
               /\ HasAdd(c) <=> HasAdd(b)
<1>1. PICK k \in DOMAIN b : k = indexOf(b, t) /\ b[k] = t
  BY DEF indexOf, Range
<1>2. k \in 1 .. Len(b) /\ Len(b) \in Nat
  OBVIOUS
<1>3. PICK c : c = SubSeq(b, 1, k - 1) \o SubSeq(b, k + 1, Len(b))
  OBVIOUS
<1>4. /\ c \in Seq(Nat) /\ Len(c) = Len(b) - 1
      /\ \A i \in 1 .. Len(c) : c[i] = IF i < k THEN b[i] ELSE b[i + 1]
  <2>1. /\ SubSeq(b, 1, k - 1) \in Seq(Nat) /\ Len(SubSeq(b, 1, k - 1)) = k - 1
        /\ \A i \in 1 .. k - 1 : SubSeq(b, 1, k - 1)[i] = b[i]
    BY <1>2
  <2>2. /\ SubSeq(b, k + 1, Len(b)) \in Seq(Nat) /\ Len(SubSeq(b, k + 1, Len(b))) = Len(b) - k
        /\ \A i \in 1 .. Len(b) - k : SubSeq(b, k + 1, Len(b))[i] = b[i + k]
    BY <1>2
  <2>3. PICK l \in Seq(Nat), r \in Seq(Nat) :
           l = SubSeq(b, 1, k - 1) /\ r = SubSeq(b, k + 1, Len(b))
    BY <2>1, <2>2
  <2>4. c \in Seq(Nat) /\ Len(c) = Len(l) + Len(r)
    BY <1>3, <2>3
  <2>5. \A i \in 1 .. Len(l) : c[i] = l[i]
    BY <1>3, <2>3
  <2>6. \A i \in Len(l) + 1 .. Len(l) + Len(r) : c[i] = r[i - Len(l)]
    <3> TAKE i \in Len(l) + 1 .. Len(l) + Len(r)
    <3>1. i \in 1 .. Len(l) + Len(r) /\ ~(i <= Len(l))
      OBVIOUS
    <3>2. (l \o r)[i] = r[i - Len(l)]
      BY <3>1, ConcatProperties
    <3> QED BY <1>3, <2>3, <3>2
  <2>7. Len(l) = k - 1 /\ Len(r) = Len(b) - k
    BY <2>1, <2>2, <2>3
  <2>8. \A i \in 1 .. k - 1 : c[i] = b[i]
    BY <2>1, <2>3, <2>5, <2>7
  <2>9. ASSUME NEW i \in k .. Len(b) - 1 PROVE c[i] = b[i + 1]
    <3>1. i - (k - 1) \in 1 .. Len(b) - k /\ (i - (k - 1)) + k = i + 1
      BY <1>2
    <3>2. i \in Len(l) + 1 .. Len(l) + Len(r) /\ i - Len(l) = i - (k - 1)
      BY <1>2, <2>7
    <3>3. c[i] = r[i - (k - 1)]
      BY <2>6, <3>2
    <3> QED BY <2>2, <2>3, <3>1, <3>3
  <2>10. Len(c) = Len(b) - 1
    BY <1>2, <2>4, <2>7
  <2>11. ASSUME NEW i \in 1 .. Len(c) PROVE c[i] = IF i < k THEN b[i] ELSE b[i + 1]
    <3>1. CASE i < k
      <4>1. i \in 1 .. k - 1
        BY <1>2, <2>10, <3>1
      <4> QED BY <2>8, <3>1, <4>1
    <3>2. CASE ~(i < k)
      <4>1. i \in k .. Len(b) - 1
        BY <1>2, <2>10, <3>2
      <4> QED BY <2>9, <3>2, <4>1
    <3> QED BY <3>1, <3>2
  <2> QED BY <2>4, <2>10, <2>11
<1>5. DOMAIN c = 1 .. Len(b) - 1
  BY <1>4
<1>6. \A i \in 1 .. Len(b) - 1 : /\ i \in DOMAIN c
                                 /\ i < k => i \in DOMAIN b /\ c[i] = b[i]
                                 /\ ~(i < k) => i + 1 \in DOMAIN b /\ c[i] = b[i + 1]
  <2> TAKE i \in 1 .. Len(b) - 1
  <2>1. i \in DOMAIN c /\ i \in DOMAIN b /\ i + 1 \in DOMAIN b
    BY <1>2, <1>5
  <2> QED BY <1>4, <2>1
<1>7. Orderly(c)
  <2>1. ASSUME NEW i \in 1 .. Len(b) - 1, NEW j \in 1 .. Len(b) - 1, c[i] = c[j]
        PROVE  i = j
    <3>1. PICK x \in DOMAIN b : c[i] = b[x] /\ x = IF i < k THEN i ELSE i + 1
      BY <1>6
    <3>2. PICK y \in DOMAIN b : c[j] = b[y] /\ y = IF j < k THEN j ELSE j + 1
      BY <1>6
    <3>3. x = y
      BY <2>1, <3>1, <3>2 DEF Orderly
    <3> QED BY <1>2, <3>1, <3>2, <3>3
  <2>2. ASSUME NEW i \in 1 .. Len(b) - 1, c[i] = AddBt
        PROVE  i = Len(b) - 1
    <3>1. CASE i < k
      <4>1. i = Len(b)
        BY <1>6, <2>2, <3>1 DEF Orderly
      <4> QED BY <1>2, <4>1
    <3>2. CASE ~(i < k)
      <4>1. i + 1 = Len(b)
        BY <1>6, <2>2, <3>2 DEF Orderly
      <4> QED BY <1>2, <4>1
    <3> QED BY <3>1, <3>2
  <2> QED BY <1>4, <1>5, <2>1, <2>2 DEF Orderly
<1>8. Range(c) = Range(b) \ {t}
  <2>1. ASSUME NEW x \in Range(c) PROVE x \in Range(b) \ {t}
    <3>1. PICK i \in 1 .. Len(b) - 1 : c[i] = x
      BY <1>5, <2>1 DEF Range
    <3>2. PICK j \in DOMAIN b : c[i] = b[j] /\ j = IF i < k THEN i ELSE i + 1
      BY <1>6
    <3>3. b[j] = x /\ j # k
      BY <1>2, <3>1, <3>2
    <3> QED BY <1>1, <3>3 DEF Orderly, Range
  <2>2. ASSUME NEW x \in Range(b) \ {t} PROVE x \in Range(c)
    <3>1. PICK j \in DOMAIN b : b[j] = x /\ j # k
      BY <1>1, <2>2 DEF Range
    <3>2. CASE j < k
      <4>1. j \in 1 .. Len(b) - 1
        BY <1>2, <3>1, <3>2
      <4> QED BY <1>6, <3>1, <3>2, <4>1 DEF Range
    <3>3. CASE ~(j < k)
      <4>1. j - 1 \in 1 .. Len(b) - 1 /\ ~(j - 1 < k) /\ (j - 1) + 1 = j
        BY <1>2, <3>1, <3>3
      <4>2. j - 1 \in DOMAIN c /\ c[j - 1] = b[j]
        BY <1>6, <4>1
      <4> QED BY <3>1, <4>2 DEF Range
    <3> QED BY <3>2, <3>3
  <2> QED BY <2>1, <2>2
<1>9. HasAdd(c) <=> HasAdd(b)
  BY <1>8 DEF HasAdd
<1>10. RemoveAt(b, indexOf(b, t)) = c
  BY <1>1, <1>3 DEF RemoveAt
<1> QED BY <1>4, <1>7, <1>8, <1>9, <1>10

LEMMA LastButOne ==
    ASSUME NEW b \in Seq(Nat), Orderly(b), HasAdd(b)
    PROVE  IF Len(b) > 1 THEN b[Len(b) - 1] \in Range(b) \ {AddBt}
                         ELSE Range(b) \ {AddBt} = {}
<1>1. PICK i \in DOMAIN b : b[i] = AddBt
  BY DEF HasAdd, Range
<1>2. i = Len(b) /\ Len(b) \in Nat /\ DOMAIN b = 1 .. Len(b)
  BY <1>1 DEF Orderly
<1>3. CASE Len(b) > 1
  <2>1. Len(b) - 1 \in DOMAIN b /\ Len(b) - 1 # Len(b)
    BY <1>2, <1>3
  <2> QED BY <1>3, <2>1 DEF Orderly, Range
<1>4. CASE ~(Len(b) > 1)
  <2>1. \A j \in DOMAIN b : b[j] = AddBt
    BY <1>1, <1>2, <1>4
  <2> QED BY <1>4, <2>1 DEF Range
<1> QED BY <1>3, <1>4
-----------------------------------------------------------------------------
\* What a method of one host leaves alone.
SameHosts(p, r, h) ==
    /\ DOMAIN r.hosts = DOMAIN p.hosts
    /\ \A g \in DOMAIN p.hosts : g # h => r.hosts[g] = p.hosts[g]

SameButtons(host, new) ==
    new.buttons = host.buttons /\ new.connectingBt = host.connectingBt

\* A current terminal that is not in the view keeps the view from changing.
Stuck(p) == p.currentTerminal # NoTerminal /\ p.currentTerminal \notin p.attached

\* RemoteHost.selectTermBt()
LEMMA SelectTermBt ==
    ASSUME NEW p \in Page, p.ok, NEW h \in DOMAIN p.hosts, NEW t \in TerminalId,
           p.hosts[h].selectedBt = t => p.hosts[h].activeTerminal = t
    PROVE  LET r == selectTermBt(p, h, t)
           IN  /\ r \in Page
               /\ SameHosts(p, r, h) /\ SameFrame(p, r)
               /\ SameButtons(p.hosts[h], r.hosts[h])
               /\ r.hosts[h].selectedBt = t /\ r.hosts[h].activeTerminal = t
               /\ r.currentTerminal \in {p.currentTerminal, t}
               /\ Displayed(p) => Displayed(r)
               /\ ~r.ok => t \notin p.terminals \/ Stuck(p)
<1>1. PICK host \in RemoteHost : host = p.hosts[h]
  BY PageFields
<1>2. CASE host.selectedBt = t
  <2>1. PICK state : state = IF t \in host.files THEN "TERMINAL" ELSE "FILE_LIST"
    OBVIOUS
  <2>2. PICK new : new = setState(host, t, state)
    OBVIOUS
  <2>3. /\ new \in RemoteHost /\ SameButtons(host, new)
        /\ new.selectedBt = host.selectedBt /\ new.activeTerminal = host.activeTerminal
    BY <2>2 DEF setState, RemoteHost, SameButtons
  <2>4. PICK r : r = [p EXCEPT !.hosts[h] = new]
    OBVIOUS
  <2>5. selectTermBt(p, h, t) = r
    BY <1>1, <1>2, <2>1, <2>2, <2>4 DEF selectTermBt
  <2>6. /\ r \in Page /\ SameHosts(p, r, h) /\ r.hosts[h] = new
        /\ SameFrame(p, r) /\ SameView(p, r)
    BY <2>3, <2>4, HostChanged DEF SameHosts
  <2>7. Displayed(p) => Displayed(r)
    BY <2>6 DEF Displayed, SameFrame, SameView
  <2> QED BY <1>1, <1>2, <2>3, <2>5, <2>6, <2>7 DEF SameView
<1>3. CASE host.selectedBt # t
  <2>1. PICK selected : selected = [onDeselected(host, host.selectedBt)
                                       EXCEPT !.selectedBt = t, !.activeTerminal = t]
    OBVIOUS
  <2>2. PICK new : new = onSelected(selected, t)
    OBVIOUS
  <2>3. /\ new \in RemoteHost /\ SameButtons(host, new)
        /\ new.selectedBt = t /\ new.activeTerminal = t
    BY <2>1, <2>2 DEF onSelected, onDeselected, RemoteHost, SameButtons, TerminalId
  <2>4. PICK q : q = [p EXCEPT !.hosts[h] = new]
    OBVIOUS
  <2>5. selectTermBt(p, h, t) = setTerminal(q, t)
    BY <1>1, <1>3, <2>1, <2>2, <2>4 DEF selectTermBt
  <2>6. /\ q \in Page /\ SameHosts(p, q, h) /\ q.hosts[h] = new
        /\ SameFrame(p, q) /\ SameView(p, q)
    BY <2>3, <2>4, HostChanged DEF SameHosts
  <2>7. t \in Nat /\ t # NoTerminal /\ q.ok
    BY <2>6 DEF TerminalId, NoTerminal, SameView
  <2>8. PICK r : r = setTerminal(q, t)
    OBVIOUS
  <2>9. /\ r \in Page /\ r.hosts = q.hosts /\ SameFrame(q, r)
        /\ r.currentTerminal \in {q.currentTerminal, t}
        /\ Displayed(q) => Displayed(r)
        /\ ~r.ok => \/ t # NoTerminal /\ t \notin q.terminals
                    \/ /\ q.currentTerminal # NoTerminal
                       /\ q.currentTerminal \notin q.attached
    BY <2>6, <2>7, <2>8, SetTerminal
  <2>10. Displayed(p) => Displayed(r)
    BY <2>6, <2>9 DEF Displayed, SameFrame, SameView
  <2>11. ~r.ok => t \notin p.terminals \/ Stuck(p)
    BY <2>6, <2>9 DEF SameFrame, SameView, Stuck
  <2>12. SameHosts(p, r, h) /\ SameFrame(p, r) /\ r.currentTerminal \in {p.currentTerminal, t}
    BY <2>6, <2>9 DEF SameHosts, SameFrame, SameView
  <2> QED BY <1>1, <2>3, <2>5, <2>6, <2>8, <2>9, <2>10, <2>11, <2>12
<1> QED BY <1>2, <1>3

\* A page is sound when the host that changed is.
LEMMA StillSound ==
    ASSUME NEW p, Sound(p), NEW r \in Page, NEW h \in DOMAIN p.hosts,
           SameHosts(p, r, h), r.currentHost \in DOMAIN p.hosts \cup {NoHost},
           p.terminals \subseteq r.terminals, r.info = p.info, Displayed(r),
           InOrder(r.hosts[h]), Selected(r.hosts[h]), ButtonsOf(r, h)
    PROVE  Sound(r)
<1>1. IsFiniteSet(DOMAIN r.hosts)
  BY DEF Sound, SameHosts
<1>2. ASSUME NEW g \in DOMAIN r.hosts
      PROVE  InOrder(r.hosts[g]) /\ Selected(r.hosts[g]) /\ ButtonsOf(r, g)
  <2>1. CASE g = h
    BY <2>1
  <2>2. CASE g # h
    <3>1. g \in DOMAIN p.hosts /\ r.hosts[g] = p.hosts[g]
      BY <2>2 DEF SameHosts
    <3>2. InOrder(p.hosts[g]) /\ Selected(p.hosts[g]) /\ ButtonsOf(p, g)
      BY <3>1 DEF Sound
    <3> QED BY <3>1, <3>2 DEF ButtonsOf
  <2> QED BY <2>1, <2>2
<1>3. (r.currentHost # NoHost => r.currentHost \in DOMAIN r.hosts)
      /\ (r.info => DOMAIN r.hosts = {})
  BY DEF Sound, SameHosts
<1> QED BY <1>1, <1>2, <1>3 DEF Sound

LEMMA StillSeen ==
    ASSUME NEW p, NEW r, NEW h \in DOMAIN p.hosts, NEW X,
           SameHosts(p, r, h), r.terminals \subseteq p.terminals \cup X,
           r.currentTerminal \in Seen(p) \cup X,
           r.hosts[h].activeTerminal \in Seen(p) \cup X,
           r.hosts[h].selectedBt \in Seen(p) \cup X
    PROVE  Seen(r) \subseteq Seen(p) \cup X
<1>1. r.terminals \subseteq Seen(p) \cup X
  BY DEF Seen
<1>2. ASSUME NEW g \in DOMAIN r.hosts
      PROVE  r.hosts[g].activeTerminal \in Seen(p) \cup X
             /\ r.hosts[g].selectedBt \in Seen(p) \cup X
  <2>1. CASE g = h
    BY <2>1
  <2>2. CASE g # h
    <3>1. g \in DOMAIN p.hosts /\ r.hosts[g] = p.hosts[g]
      BY <2>2 DEF SameHosts
    <3> QED BY <3>1 DEF Seen
  <2> QED BY <2>1, <2>2
<1> QED BY <1>1, <1>2 DEF Seen
-----------------------------------------------------------------------------
\* What a handler does to the page whose hosts stay: it may learn of the
\* terminals X, and hosts may lose the buttons of the terminals in lost.
Effect(p, r, X, lost) ==
    /\ Sound(r)
    /\ Seen(r) \subseteq Seen(p) \cup X
    /\ DOMAIN r.hosts = DOMAIN p.hosts
    /\ \A h \in DOMAIN p.hosts : Shown(p.hosts[h]) \ lost \subseteq Shown(r.hosts[h])

LEMMA EffectOfBoth ==
    ASSUME NEW p, NEW q, NEW r, NEW X, NEW Y, Y \subseteq X, NEW lost,
           Effect(p, q, X, lost), Effect(q, r, Y, {})
    PROVE  Effect(p, r, X, lost)
<1>1. Seen(r) \subseteq Seen(p) \cup X
  BY DEF Effect
<1>2. ASSUME NEW h \in DOMAIN p.hosts
      PROVE  Shown(p.hosts[h]) \ lost \subseteq Shown(r.hosts[h])
  BY DEF Effect
<1> QED BY <1>1, <1>2 DEF Effect

\* The page but for its hosts is replaced.
LEMMA SameHostsSound ==
    ASSUME NEW p, Sound(p), NEW r \in Page, NEW X, r.hosts = p.hosts,
           p.terminals \subseteq r.terminals, r.terminals \subseteq p.terminals \cup X,
           r.currentHost \in DOMAIN p.hosts \cup {NoHost}, r.info = p.info, Displayed(r),
           r.currentTerminal \in Seen(p) \cup X
    PROVE  Effect(p, r, X, {})
<1>1. \A h \in DOMAIN p.hosts : ButtonsOf(r, h)
  BY DEF Sound, ButtonsOf
<1>2. Sound(r)
  BY <1>1 DEF Sound
<1>3. Seen(r) \subseteq Seen(p) \cup X
  BY DEF Seen
<1> QED BY <1>2, <1>3 DEF Effect

\* A handler that throws.
LEMMA ThrowSound ==
    ASSUME NEW p, Sound(p)
    PROVE  /\ Throw(p) \in Page /\ ~Throw(p).ok
           /\ Effect(p, Throw(p), {}, {})
<1>1. PICK r : r = Throw(p)
  OBVIOUS
<1>2. /\ r \in Page /\ r.hosts = p.hosts /\ SameFrame(p, r) /\ ~r.ok
      /\ r.currentTerminal = p.currentTerminal /\ r.attached = p.attached
  BY <1>1 DEF Throw, Sound, Page, SameFrame
<1>3. Displayed(r) /\ r.currentTerminal \in Seen(p)
  BY <1>2 DEF Sound, Displayed, SameFrame, Seen
<1>4. r.currentHost \in DOMAIN p.hosts \cup {NoHost}
  BY <1>2 DEF Sound, SameFrame
<1>5. Effect(p, r, {}, {})
  BY <1>2, <1>3, <1>4, SameHostsSound DEF SameFrame
<1> QED BY <1>1, <1>2, <1>5

\* TerminalView.setTerminal() of a terminal the page knows.
LEMMA SetKnownTerminal ==
    ASSUME NEW p, Sound(p), p.ok, NEW t \in Seen(p) \cup {NoTerminal}
    PROVE  Effect(p, setTerminal(p, t), {NoTerminal}, {})
<1>1. p \in Page
  BY DEF Sound
<1>2. t \in Nat
  <2>1. p.terminals \subseteq Nat /\ p.currentTerminal \in Nat
    BY <1>1, PageFields DEF TerminalId
  <2>2. \A h \in DOMAIN p.hosts :
           p.hosts[h].activeTerminal \in Nat /\ p.hosts[h].selectedBt \in Nat
    BY <1>1, PageFields, HostFields
  <2> QED BY <2>1, <2>2 DEF Seen, NoTerminal
<1>3. PICK r : r = setTerminal(p, t)
  OBVIOUS
<1>4. /\ r \in Page /\ r.hosts = p.hosts /\ SameFrame(p, r)
      /\ r.currentTerminal \in {p.currentTerminal, t}
      /\ Displayed(p) => Displayed(r)
  BY <1>1, <1>2, <1>3, SetTerminal
<1>5. Displayed(r) /\ r.currentTerminal \in Seen(p) \cup {NoTerminal}
  BY <1>4 DEF Sound, Seen
<1>6. r.currentHost \in DOMAIN p.hosts \cup {NoHost}
  BY <1>4 DEF Sound, SameFrame
<1>7. Effect(p, r, {NoTerminal}, {})
  BY <1>4, <1>5, <1>6, SameHostsSound DEF SameFrame
<1> QED BY <1>3, <1>7

\* RemoteHost.addTermBt()
LEMMA AddTermBt ==
    ASSUME NEW host \in RemoteHost, Orderly(host.buttons), ~HasAdd(host.buttons)
    PROVE  LET new == addTermBt(host)
           IN  /\ new \in RemoteHost /\ InOrder(new) /\ HasAdd(new.buttons)
               /\ Shown(new) = Shown(host)
               /\ new.selectedBt = host.selectedBt
               /\ new.activeTerminal = host.activeTerminal
<1>1. PICK b \in Seq(Nat) : b = host.buttons
  BY HostFields
<1>2. AddBt \in Nat /\ AddBt \notin Range(b)
  BY <1>1 DEF AddBt, NoTerminal, HasAdd
<1>3. PICK c : c = Append(b, AddBt)
  OBVIOUS
<1>4. c \in Seq(Nat) /\ Orderly(c) /\ Range(c) = Range(b) \cup {AddBt} /\ HasAdd(c)
  BY <1>1, <1>2, <1>3, ButtonAdded
<1>5. PICK new : new = [host EXCEPT !.buttons = c, !.connectingBt = "IDLE"]
  OBVIOUS
<1>6. /\ new \in RemoteHost /\ new.buttons = c /\ new.connectingBt = "IDLE"
      /\ new.selectedBt = host.selectedBt /\ new.activeTerminal = host.activeTerminal
  BY <1>4, <1>5 DEF RemoteHost
<1>7. addTermBt(host) = new
  BY <1>1, <1>3, <1>5 DEF addTermBt
<1>8. InOrder(new) /\ HasAdd(new.buttons)
  BY <1>4, <1>6 DEF InOrder
<1>9. Shown(new) = Shown(host)
  BY <1>1, <1>2, <1>4, <1>6 DEF Shown
<1> QED BY <1>6, <1>7, <1>8, <1>9

\* RemoteHost.addTerminal() of a terminal whose node was just created.
LEMMA AddTerminal ==
    ASSUME NEW p, Sound(p), p.ok, NEW h \in DOMAIN p.hosts, NEW t \in p.terminals,
           t \notin Range(p.hosts[h].buttons), t # p.hosts[h].selectedBt,
           t \in DOMAIN ordered, ordered[t] = h
    PROVE  LET r == addTerminal(p, h, t)
           IN  /\ Effect(p, r, {NoTerminal}, {})
               /\ t \in Shown(r.hosts[h])
<1>1. PICK host \in RemoteHost : host = p.hosts[h]
  BY PageFields DEF Sound
<1>2. PICK b \in Seq(Nat) : b = host.buttons
  BY HostFields
<1>3. /\ p \in Page /\ Orderly(b) /\ t \notin Range(b) /\ t # host.selectedBt
      /\ host.connectingBt # "none" <=> HasAdd(b)
  BY <1>1, <1>2 DEF Sound, InOrder
<1>4. t \in TerminalId /\ t \in Nat /\ t # AddBt
  BY <1>3, PageFields DEF TerminalId, AddBt, NoTerminal
<1>5. \A u \in Shown(host) : u \in p.terminals /\ u \in DOMAIN ordered /\ ordered[u] = h
  BY <1>1 DEF Sound, ButtonsOf
<1>6. t \in Seen(p)
  BY DEF Seen
\* A page whose host h has a new button, and has it selected, is sound.
<1>7. ASSUME NEW r \in Page, SameHosts(p, r, h), SameFrame(p, r), Displayed(r),
             r.currentTerminal \in Seen(p), InOrder(r.hosts[h]),
             Shown(r.hosts[h]) = Shown(host) \cup {t},
             r.hosts[h].selectedBt = t, r.hosts[h].activeTerminal = t
      PROVE  Effect(p, r, {NoTerminal}, {}) /\ t \in Shown(r.hosts[h])
  <2>1. Selected(r.hosts[h])
    BY <1>7 DEF Selected
  <2>2. ButtonsOf(r, h)
    BY <1>5, <1>7 DEF ButtonsOf, SameFrame
  <2>3. r.currentHost \in DOMAIN p.hosts \cup {NoHost}
    BY <1>7 DEF Sound, SameFrame
  <2>4. Sound(r)
    BY <1>7, <2>1, <2>2, <2>3, StillSound DEF SameFrame
  <2>5. Seen(r) \subseteq Seen(p) \cup {NoTerminal}
    BY <1>6, <1>7, StillSeen DEF SameFrame
  <2>6. \A g \in DOMAIN p.hosts : Shown(p.hosts[g]) \ {} \subseteq Shown(r.hosts[g])
    BY <1>1, <1>7 DEF SameHosts
  <2> QED BY <1>7, <2>4, <2>5, <2>6 DEF Effect, SameHosts
<1>8. CASE host.connectingBt = "none"
  <2>1. PICK c : c = Append(b, t)
    OBVIOUS
  <2>2. c \in Seq(Nat) /\ Orderly(c) /\ Range(c) = Range(b) \cup {t} /\ ~HasAdd(c)
    <3>1. ~HasAdd(b)
      BY <1>3, <1>8
    <3> QED BY <1>3, <1>4, <2>1, <3>1, ButtonAdded
  <2>3. PICK first : first = [host EXCEPT !.activeTerminal = t, !.selectedBt = t,
                                          !.buttons = c]
    OBVIOUS
  <2>4. PICK lit : lit = onSelected(first, t)
    OBVIOUS
  <2>5. /\ lit \in RemoteHost /\ lit.buttons = c
        /\ lit.activeTerminal = t /\ lit.selectedBt = t
    BY <1>4, <2>2, <2>3, <2>4 DEF onSelected, RemoteHost
  <2>6. PICK new : new = addTermBt(lit)
    OBVIOUS
  <2>7. /\ new \in RemoteHost /\ InOrder(new) /\ Shown(new) = Shown(lit)
        /\ new.selectedBt = t /\ new.activeTerminal = t
    BY <2>2, <2>5, <2>6, AddTermBt
  <2>8. Shown(lit) = Shown(host) \cup {t}
    BY <1>2, <1>4, <2>2, <2>5 DEF Shown
  <2>9. PICK r : r = [p EXCEPT !.hosts[h] = new]
    OBVIOUS
  <2>10. addTerminal(p, h, t) = r
    BY <1>1, <1>2, <1>8, <2>1, <2>3, <2>4, <2>6, <2>9 DEF addTerminal
  <2>11. /\ r \in Page /\ SameHosts(p, r, h) /\ r.hosts[h] = new
         /\ SameFrame(p, r) /\ SameView(p, r)
    BY <1>3, <2>7, <2>9, HostChanged DEF SameHosts
  <2>12. Displayed(r) /\ r.currentTerminal \in Seen(p)
    BY <2>11 DEF Sound, Displayed, SameFrame, SameView, Seen
  <2> QED BY <1>7, <2>7, <2>8, <2>10, <2>11, <2>12
<1>9. CASE host.connectingBt # "none"
  <2>1. PICK c : c = [i \in DOMAIN b |-> IF b[i] = AddBt THEN t ELSE b[i]]
    OBVIOUS
  <2>2. /\ c \in Seq(Nat) /\ Orderly(c) /\ ~HasAdd(c)
        /\ Range(c) \subseteq (Range(b) \ {AddBt}) \cup {t}
        /\ Range(b) \ {AddBt} \subseteq Range(c) /\ t \in Range(c)
    <3>1. HasAdd(b)
      BY <1>3, <1>9
    <3>2. /\ c \in Seq(Nat) /\ Orderly(c) /\ ~HasAdd(c)
          /\ Range(c) \subseteq (Range(b) \ {AddBt}) \cup {t}
          /\ Range(b) \ {AddBt} \subseteq Range(c)
          /\ HasAdd(b) => t \in Range(c)
      <4>1. Orderly(b) /\ t \notin Range(b) /\ t \in TerminalId
        BY <1>3, <1>4
      <4> QED BY <2>1, <4>1, ButtonTaken
    <3> QED BY <3>1, <3>2
  <2>3. PICK taken : taken = [host EXCEPT !.connectingBt = "none", !.buttons = c]
    OBVIOUS
  <2>4. /\ taken \in RemoteHost /\ taken.buttons = c /\ taken.connectingBt = "none"
        /\ taken.activeTerminal = host.activeTerminal /\ taken.selectedBt = host.selectedBt
    BY <2>2, <2>3 DEF RemoteHost
  <2>5. Shown(taken) = Shown(host) \cup {t}
    BY <1>2, <1>4, <2>2, <2>4 DEF Shown
  <2>6. PICK p1 : p1 = [p EXCEPT !.hosts[h] = taken]
    OBVIOUS
  <2>7. /\ p1 \in Page /\ SameHosts(p, p1, h) /\ p1.hosts[h] = taken
        /\ SameFrame(p, p1) /\ SameView(p, p1)
    BY <1>3, <2>4, <2>6, HostChanged DEF SameHosts
  <2>8. h \in DOMAIN p1.hosts /\ p1.ok /\ Displayed(p1)
    BY <2>7 DEF Sound, Displayed, SameFrame, SameView, SameHosts
  <2>9. PICK q : q = selectTermBt(p1, h, t)
    OBVIOUS
  <2>10. /\ q \in Page /\ SameHosts(p1, q, h) /\ SameFrame(p1, q)
         /\ SameButtons(taken, q.hosts[h])
         /\ q.hosts[h].selectedBt = t /\ q.hosts[h].activeTerminal = t
         /\ q.currentTerminal \in {p1.currentTerminal, t} /\ Displayed(q)
    <3>1. p1.hosts[h].selectedBt = t => p1.hosts[h].activeTerminal = t
      BY <1>3, <2>4, <2>7
    <3> QED BY <1>4, <2>7, <2>8, <2>9, <3>1, SelectTermBt
  <2>11. SameHosts(p, q, h) /\ SameFrame(p, q)
    BY <2>7, <2>10 DEF SameHosts, SameFrame
  <2>12. q.currentTerminal \in Seen(p)
    BY <1>6, <2>7, <2>10 DEF Seen, SameView
  <2>13. InOrder(q.hosts[h]) /\ Shown(q.hosts[h]) = Shown(host) \cup {t}
    BY <2>2, <2>4, <2>5, <2>10 DEF SameButtons, InOrder, Shown
  <2>14. CASE ~(q.ok /\ Len(c) < ButtonLimit)
    <3>1. addTerminal(p, h, t) = q
      BY <1>1, <1>2, <1>9, <2>1, <2>3, <2>4, <2>6, <2>9, <2>14 DEF addTerminal
    <3> QED BY <1>7, <2>10, <2>11, <2>12, <2>13, <3>1
  <2>15. CASE q.ok /\ Len(c) < ButtonLimit
    <3>1. h \in DOMAIN q.hosts /\ q.hosts[h] \in RemoteHost
      BY <2>10, <2>11, PageFields DEF SameHosts
    <3>2. PICK new : new = addTermBt(q.hosts[h])
      OBVIOUS
    <3>3. /\ new \in RemoteHost /\ InOrder(new) /\ Shown(new) = Shown(q.hosts[h])
          /\ new.selectedBt = t /\ new.activeTerminal = t
      <4>1. Orderly(q.hosts[h].buttons) /\ ~HasAdd(q.hosts[h].buttons)
        BY <2>2, <2>4, <2>10 DEF SameButtons
      <4> QED BY <2>10, <3>1, <3>2, <4>1, AddTermBt
    <3>4. PICK r : r = [q EXCEPT !.hosts[h] = new]
      OBVIOUS
    <3>5. addTerminal(p, h, t) = r
      <4>1. addTerminal(p, h, t) = [q EXCEPT !.hosts[h] = addTermBt(q.hosts[h])]
        BY <1>1, <1>2, <1>9, <2>1, <2>3, <2>4, <2>6, <2>9, <2>15 DEF addTerminal
      <4> QED BY <3>2, <3>4, <4>1
    <3>6. /\ r \in Page /\ SameHosts(q, r, h) /\ r.hosts[h] = new
          /\ SameFrame(q, r) /\ SameView(q, r)
      BY <2>10, <3>1, <3>3, <3>4, HostChanged DEF SameHosts
    <3>7. SameHosts(p, r, h) /\ SameFrame(p, r)
      BY <2>11, <3>6 DEF SameHosts, SameFrame
    <3>8. Displayed(r) /\ r.currentTerminal \in Seen(p)
      BY <2>10, <2>12, <3>6 DEF Displayed, SameFrame, SameView
    <3> QED BY <1>7, <2>13, <3>3, <3>5, <3>6, <3>7, <3>8
  <2> QED BY <2>14, <2>15
<1> QED BY <1>8, <1>9

\* q is the page p, or the host has forgotten already that t is its active terminal.
Forgets(p, q, h, t) ==
    /\ SameHosts(p, q, h) /\ SameFrame(p, q) /\ SameView(p, q)
    /\ SameButtons(p.hosts[h], q.hosts[h])
    /\ q.hosts[h].selectedBt = p.hosts[h].selectedBt
    /\ \/ q.hosts[h].activeTerminal = p.hosts[h].activeTerminal
       \/ q.hosts[h].activeTerminal = NoTerminal /\ p.hosts[h].selectedBt = t

\* RemoteHost.removeTerminalButton()
LEMMA RemoveTerminalButton ==
    ASSUME NEW p, Sound(p), p.ok, NEW h \in DOMAIN p.hosts, NEW t \in Shown(p.hosts[h]),
           NEW q \in Page, Forgets(p, q, h, t)
    PROVE  LET r == removeTerminalButton(q, h, t)
           IN  /\ Effect(p, r, {NoTerminal}, {t})
               /\ t \notin Shown(r.hosts[h])
               /\ \A g \in DOMAIN p.hosts : g # h => r.hosts[g] = p.hosts[g]
               /\ ~r.ok => Stuck(p)
<1>0. /\ SameHosts(p, q, h) /\ SameFrame(p, q) /\ SameView(p, q)
      /\ SameButtons(p.hosts[h], q.hosts[h])
      /\ q.hosts[h].selectedBt = p.hosts[h].selectedBt
  BY DEF Forgets
<1>1. PICK old \in RemoteHost : old = q.hosts[h]
  BY <1>0, PageFields DEF SameHosts
<1>2. PICK b \in Seq(Nat) : b = old.buttons
  BY HostFields
<1>3. p \in Page /\ InOrder(p.hosts[h]) /\ Selected(p.hosts[h]) /\ ButtonsOf(p, h) /\ Displayed(p)
  BY DEF Sound
<1>4. /\ Orderly(b) /\ t \in Range(b) /\ t # AddBt
      /\ Shown(p.hosts[h]) = Range(b) \ {AddBt}
      /\ old.connectingBt # "none" <=> HasAdd(b)
  BY <1>0, <1>1, <1>2, <1>3 DEF SameButtons, InOrder, Shown
<1>5. /\ p.hosts[h].selectedBt = p.hosts[h].activeTerminal
      /\ old.selectedBt \in Seen(p)
      /\ old.activeTerminal \in Seen(p) \cup {NoTerminal}
      /\ old.selectedBt = t \/ old.activeTerminal = old.selectedBt
  BY <1>0, <1>1, <1>3 DEF Forgets, Selected, Seen
<1>6. PICK c : c = RemoveAt(b, indexOf(b, t))
  OBVIOUS
<1>7. /\ c \in Seq(Nat) /\ Orderly(c) /\ Range(c) = Range(b) \ {t}
      /\ HasAdd(c) <=> HasAdd(b)
  BY <1>4, <1>6, ButtonRemoved
<1>8. PICK host : host = [old EXCEPT !.buttons = c]
  OBVIOUS
<1>9. /\ host \in RemoteHost /\ host.buttons = c /\ host.connectingBt = old.connectingBt
      /\ host.activeTerminal = old.activeTerminal /\ host.selectedBt = old.selectedBt
  BY <1>7, <1>8 DEF RemoteHost
<1>10. PICK left : left = IF old.connectingBt = "none" THEN addTermBt(host) ELSE host
  OBVIOUS
<1>11. /\ left \in RemoteHost /\ InOrder(left) /\ HasAdd(left.buttons)
       /\ Shown(left) = Shown(p.hosts[h]) \ {t}
       /\ left.activeTerminal = old.activeTerminal /\ left.selectedBt = old.selectedBt
  <2>1. Shown(host) = Shown(p.hosts[h]) \ {t}
    BY <1>4, <1>7, <1>9 DEF Shown
  <2>2. CASE old.connectingBt = "none"
    <3>1. Orderly(host.buttons) /\ ~HasAdd(host.buttons)
      BY <1>4, <1>7, <1>9, <2>2
    <3>2. left = addTermBt(host)
      BY <1>10, <2>2
    <3> QED BY <1>9, <2>1, <3>1, <3>2, AddTermBt
  <2>3. CASE old.connectingBt # "none"
    <3>1. HasAdd(b)
      BY <1>4, <2>3
    <3>2. InOrder(host) /\ HasAdd(host.buttons)
      BY <1>7, <1>9, <2>3, <3>1 DEF InOrder
    <3> QED BY <1>9, <1>10, <2>1, <2>3, <3>2
  <2> QED BY <2>2, <2>3
<1>12. PICK s : s = [q EXCEPT !.hosts[h] = left]
  OBVIOUS
<1>13. /\ s \in Page /\ SameHosts(p, s, h) /\ s.hosts[h] = left
       /\ SameFrame(p, s) /\ SameView(p, s)
  <2>1. h \in DOMAIN q.hosts
    BY <1>0 DEF SameHosts
  <2>2. /\ s \in Page /\ SameHosts(q, s, h) /\ s.hosts[h] = left
        /\ SameFrame(q, s) /\ SameView(q, s)
    <3>1. left \in RemoteHost
      BY <1>11
    <3>2. /\ s \in Page /\ DOMAIN s.hosts = DOMAIN q.hosts /\ s.hosts[h] = left
          /\ \A g \in DOMAIN q.hosts : g # h => s.hosts[g] = q.hosts[g]
          /\ SameFrame(q, s) /\ SameView(q, s)
      BY <1>12, <2>1, <3>1, HostChanged
    <3> QED BY <3>2 DEF SameHosts
  <2> QED BY <1>0, <2>2 DEF SameHosts, SameFrame, SameView
<1>14. s.ok /\ Displayed(s) /\ h \in DOMAIN s.hosts
  BY <1>3, <1>13 DEF SameView, SameFrame, SameHosts, Displayed
<1>15. removeTerminalButton(q, h, t) =
          IF Len(left.buttons) > 1 THEN selectTermBt(s, h, left.buttons[Len(left.buttons) - 1])
                                   ELSE onHostEmpty(s, h)
  <2>1. host = [q.hosts[h] EXCEPT !.buttons = RemoveAt(@, indexOf(@, t))]
    BY <1>1, <1>2, <1>6, <1>8
  <2>2. left = IF q.hosts[h].connectingBt = "none" THEN addTermBt(host) ELSE host
    BY <1>1, <1>10
  <2> QED BY <1>1, <1>12, <2>1, <2>2 DEF removeTerminalButton
\* Whatever page is left with these buttons is sound.
<1>16. ASSUME NEW r \in Page, SameHosts(p, r, h), SameFrame(p, r), Displayed(r),
              r.currentTerminal \in Seen(p) \cup {NoTerminal},
              SameButtons(left, r.hosts[h]), Selected(r.hosts[h]),
              r.hosts[h].activeTerminal \in Seen(p) \cup {NoTerminal},
              r.hosts[h].selectedBt \in Seen(p) \cup {NoTerminal}
       PROVE  /\ Effect(p, r, {NoTerminal}, {t})
              /\ t \notin Shown(r.hosts[h])
  <2>1. Shown(r.hosts[h]) = Shown(p.hosts[h]) \ {t} /\ InOrder(r.hosts[h])
    BY <1>11, <1>16 DEF SameButtons, Shown, InOrder
  <2>2. ButtonsOf(r, h)
    BY <1>3, <1>16, <2>1 DEF ButtonsOf, SameFrame
  <2>3. r.currentHost \in DOMAIN p.hosts \cup {NoHost}
    BY <1>16 DEF Sound, SameFrame
  <2>4. Sound(r)
    BY <1>16, <2>1, <2>2, <2>3, StillSound DEF SameFrame
  <2>5. Seen(r) \subseteq Seen(p) \cup {NoTerminal}
    BY <1>16, StillSeen DEF SameFrame
  <2>6. \A g \in DOMAIN p.hosts : Shown(p.hosts[g]) \ {t} \subseteq Shown(r.hosts[g])
    BY <1>16, <2>1 DEF SameHosts
  <2> QED BY <1>16, <2>1, <2>4, <2>5, <2>6 DEF Effect, SameHosts
<1>17. left.buttons \in Seq(Nat) /\ Orderly(left.buttons)
  BY <1>11, HostFields DEF InOrder
<1>18. CASE Len(left.buttons) > 1
  <2>1. PICK u : u = left.buttons[Len(left.buttons) - 1]
    OBVIOUS
  <2>2. u \in Shown(left)
    BY <1>11, <1>17, <1>18, <2>1, LastButOne DEF Shown
  <2>3. u \in Shown(p.hosts[h]) /\ u # t /\ u \in p.terminals
    BY <1>3, <1>11, <2>2 DEF ButtonsOf
  <2>4. u \in TerminalId /\ u \in Seen(p)
    BY <1>3, <2>3, PageFields DEF Seen
  <2>5. PICK r : r = selectTermBt(s, h, u)
    OBVIOUS
  <2>6. s.hosts[h].selectedBt = u => s.hosts[h].activeTerminal = u
    BY <1>5, <1>11, <1>13, <2>3
  <2>7. /\ r \in Page /\ SameHosts(s, r, h) /\ SameFrame(s, r)
        /\ SameButtons(left, r.hosts[h])
        /\ r.hosts[h].selectedBt = u /\ r.hosts[h].activeTerminal = u
        /\ r.currentTerminal \in {s.currentTerminal, u}
        /\ Displayed(r)
        /\ ~r.ok => u \notin s.terminals \/ Stuck(s)
    BY <1>13, <1>14, <2>4, <2>5, <2>6, SelectTermBt
  <2>8. SameHosts(p, r, h) /\ SameFrame(p, r)
    BY <1>13, <2>7 DEF SameHosts, SameFrame
  <2>9. r.currentTerminal \in Seen(p)
    BY <1>13, <2>4, <2>7 DEF Seen, SameView
  <2>10. Selected(r.hosts[h])
    BY <2>2, <2>7 DEF SameButtons, Selected, Shown
  <2>11. ~r.ok => Stuck(p)
    BY <1>13, <2>3, <2>7 DEF SameFrame, SameView, Stuck
  <2>12. removeTerminalButton(q, h, t) = r
    BY <1>15, <1>18, <2>1, <2>5
  <2>13. \A g \in DOMAIN p.hosts : g # h => r.hosts[g] = p.hosts[g]
    BY <2>8 DEF SameHosts
  <2>14. Effect(p, r, {NoTerminal}, {t}) /\ t \notin Shown(r.hosts[h])
    BY <1>16, <2>4, <2>7, <2>8, <2>9, <2>10
  <2> QED BY <2>11, <2>12, <2>13, <2>14
<1>19. CASE ~(Len(left.buttons) > 1)
  <2>1. Shown(left) = {}
    BY <1>11, <1>17, <1>19, LastButOne DEF Shown
  <2>2. PICK r : r = onHostEmpty(s, h)
    OBVIOUS
  <2>3. /\ r \in Page /\ r.hosts = s.hosts /\ SameFrame(s, r) /\ Displayed(r)
        /\ r.currentTerminal \in {s.currentTerminal, NoTerminal}
        /\ ~r.ok => Stuck(s)
    <3>1. CASE s.currentHost = h
      <4>1. NoTerminal \in Nat /\ r = setTerminal(s, NoTerminal)
        BY <2>2, <3>1 DEF onHostEmpty, NoTerminal
      <4> QED BY <1>13, <1>14, <4>1, SetTerminal DEF Stuck
    <3>2. CASE s.currentHost # h
      <4>1. r = s
        BY <2>2, <3>2 DEF onHostEmpty
      <4> QED BY <1>13, <1>14, <4>1 DEF SameFrame
    <3> QED BY <3>1, <3>2
  <2>4. SameHosts(p, r, h) /\ SameFrame(p, r) /\ r.hosts[h] = left
    BY <1>13, <2>3 DEF SameHosts, SameFrame
  <2>5. r.currentTerminal \in Seen(p) \cup {NoTerminal}
    BY <1>13, <2>3 DEF Seen, SameView
  <2>6. Selected(r.hosts[h]) /\ SameButtons(left, r.hosts[h])
    BY <2>1, <2>4 DEF Selected, SameButtons
  <2>7. ~r.ok => Stuck(p)
    BY <1>13, <2>3 DEF SameView, Stuck
  <2>8. removeTerminalButton(q, h, t) = r
    BY <1>15, <1>19, <2>2
  <2>9. \A g \in DOMAIN p.hosts : g # h => r.hosts[g] = p.hosts[g]
    BY <2>4 DEF SameHosts
  <2>10. Effect(p, r, {NoTerminal}, {t}) /\ t \notin Shown(r.hosts[h])
    BY <1>5, <1>11, <1>16, <2>3, <2>4, <2>5, <2>6
  <2> QED BY <2>7, <2>8, <2>9, <2>10
<1> QED BY <1>18, <1>19

-----------------------------------------------------------------------------
\* The handlers, each of a sound page.
LEMMA SendSound ==
    ASSUME NEW p, Sound(p), NEW req \in Request
    PROVE  /\ Effect(p, Send(p, req), {}, {})
           /\ Send(p, req) \in Page /\ Send(p, req).ok = p.ok
           /\ Send(p, req).hosts = p.hosts
<1>1. PICK r : r = Send(p, req)
  OBVIOUS
<1>2. /\ r \in Page /\ r.hosts = p.hosts /\ r.ok = p.ok
      /\ r.terminals = p.terminals /\ r.currentHost = p.currentHost /\ r.info = p.info
      /\ r.currentTerminal = p.currentTerminal /\ r.attached = p.attached
  BY <1>1 DEF Send, Sound, Page
<1>3. Displayed(r) /\ r.currentTerminal \in Seen(p)
  BY <1>2 DEF Sound, Displayed, Seen
<1>4. r.currentHost \in DOMAIN p.hosts \cup {NoHost}
  BY <1>2 DEF Sound
<1>5. Effect(p, r, {}, {})
  BY <1>2, <1>3, <1>4, SameHostsSound
<1> QED BY <1>1, <1>2, <1>5

LEMMA RequestsOfPage ==
    /\ \A h \in Hosts : [type |-> "terminal_req", h |-> h] \in Request
    /\ \A t \in TerminalId : [type |-> "terminal_del", t |-> t] \in Request
  BY DEF Request

LEMMA EffectTrivial ==
    ASSUME NEW p, Sound(p), NEW X, NEW lost
    PROVE  Effect(p, p, X, lost)
  BY DEF Effect

LEMMA EffectWeakened ==
    ASSUME NEW p, NEW r, NEW X, NEW Y, NEW lost, NEW more, Effect(p, r, Y, lost),
           Y \subseteq X, lost \subseteq more
    PROVE  Effect(p, r, X, more)
<1>1. \A h \in DOMAIN p.hosts : Shown(p.hosts[h]) \ more \subseteq Shown(r.hosts[h])
  BY DEF Effect
<1> QED BY <1>1 DEF Effect

\* TerminalManager.onTermBtSelectClicked()
LEMMA TermBtSelected ==
    ASSUME NEW p, Sound(p), p.ok, NEW h \in DOMAIN p.hosts, NEW t \in Shown(p.hosts[h])
    PROVE  Effect(p, selectTermBt(p, h, t), {NoTerminal}, {})
<1>1. /\ p \in Page /\ Displayed(p) /\ InOrder(p.hosts[h]) /\ Selected(p.hosts[h])
      /\ ButtonsOf(p, h)
  BY DEF Sound
<1>2. t \in TerminalId /\ t \in Seen(p)
  BY <1>1, PageFields DEF ButtonsOf, Seen
<1>3. p.hosts[h].selectedBt = t => p.hosts[h].activeTerminal = t
  BY <1>1 DEF Selected
<1>4. PICK r : r = selectTermBt(p, h, t)
  OBVIOUS
<1>5. /\ r \in Page /\ SameHosts(p, r, h) /\ SameFrame(p, r)
      /\ SameButtons(p.hosts[h], r.hosts[h])
      /\ r.hosts[h].selectedBt = t /\ r.hosts[h].activeTerminal = t
      /\ r.currentTerminal \in {p.currentTerminal, t}
      /\ Displayed(r)
  BY <1>1, <1>2, <1>3, <1>4, SelectTermBt
<1>6. InOrder(r.hosts[h]) /\ Shown(r.hosts[h]) = Shown(p.hosts[h])
  BY <1>1, <1>5 DEF SameButtons, InOrder, Shown
<1>7. Selected(r.hosts[h]) /\ ButtonsOf(r, h)
  BY <1>1, <1>5, <1>6 DEF Selected, ButtonsOf, SameFrame
<1>8. r.currentTerminal \in Seen(p)
  BY <1>2, <1>5 DEF Seen
<1>9. r.currentHost \in DOMAIN p.hosts \cup {NoHost}
  BY <1>5 DEF Sound, SameFrame
<1>10. Sound(r)
  BY <1>5, <1>6, <1>7, <1>9, StillSound DEF SameFrame
<1>11. Seen(r) \subseteq Seen(p) \cup {NoTerminal}
  BY <1>2, <1>5, <1>8, StillSeen DEF SameFrame
<1>12. \A g \in DOMAIN p.hosts : Shown(p.hosts[g]) \ {} \subseteq Shown(r.hosts[g])
  BY <1>5, <1>6 DEF SameHosts
<1> QED BY <1>4, <1>5, <1>10, <1>11, <1>12 DEF Effect, SameHosts

\* RemoteHost.onTermBtCloseClicked(): only a stuck page does not send the request.
LEMMA TermBtClosed ==
    ASSUME NEW p, Sound(p), p.ok, NEW h \in DOMAIN p.hosts, NEW t \in Shown(p.hosts[h])
    PROVE  LET r == onTermBtCloseClicked(p, h, t)
           IN  /\ Effect(p, r, {NoTerminal}, {t})
               /\ [type |-> "terminal_del", t |-> t] \in r.out \/ Stuck(p)
<1>1. PICK q : q = removeTerminalButton(p, h, t)
  OBVIOUS
<1>2. Effect(p, q, {NoTerminal}, {t}) /\ (~q.ok => Stuck(p))
  <2>1. p \in Page /\ Forgets(p, p, h, t)
    BY DEF Sound, Forgets, SameHosts, SameFrame, SameView, SameButtons
  <2> QED BY <1>1, <2>1, RemoveTerminalButton
<1>3. CASE ~q.ok
  <2>1. onTermBtCloseClicked(p, h, t) = q
    BY <1>1, <1>3 DEF onTermBtCloseClicked
  <2> QED BY <1>2, <1>3, <2>1
<1>4. CASE q.ok
  <2>1. PICK req : req = [type |-> "terminal_del", t |-> t]
    OBVIOUS
  <2>2. t \in TerminalId
    BY PageFields DEF Sound, ButtonsOf
  <2>3. req \in Request /\ Sound(q)
    BY <1>2, <2>1, <2>2, RequestsOfPage DEF Effect
  <2>4. PICK r : r = Send(q, req)
    OBVIOUS
  <2>5. onTermBtCloseClicked(p, h, t) = r
    BY <1>1, <1>4, <2>1, <2>4 DEF onTermBtCloseClicked, terminalCloseRequested
  <2>6. Effect(q, r, {}, {})
    BY <2>3, <2>4, SendSound
  <2>7. req \in r.out
    BY <2>3, <2>4 DEF Send, Sound, Page
  <2>8. Effect(p, r, {NoTerminal}, {t})
    BY <1>2, <2>6, EffectOfBoth
  <2> QED BY <2>1, <2>5, <2>7, <2>8
<1> QED BY <1>3, <1>4

\* TerminalManager.onHostSelected()
LEMMA HostSelected ==
    ASSUME NEW p, Sound(p), p.ok, NEW h \in DOMAIN p.hosts
    PROVE  Effect(p, onHostSelected(p, h), {NoTerminal}, {})
<1>1. PICK q : q = makeCurrent(p, h)
  OBVIOUS
<1>2. h \in Hosts
  BY PageFields DEF Sound
<1>3. /\ q \in Page /\ q.hosts = p.hosts /\ q.currentHost = h /\ q.info = p.info
      /\ q.terminals = p.terminals /\ q.ok
      /\ q.currentTerminal = p.currentTerminal /\ q.attached = p.attached
  BY <1>1, <1>2 DEF makeCurrent, Sound, Page
<1>4. Displayed(q) /\ q.currentTerminal \in Seen(p)
  BY <1>3 DEF Sound, Displayed, Seen
<1>5. Effect(p, q, {NoTerminal}, {}) /\ Sound(q)
  <2>1. Effect(p, q, {NoTerminal}, {})
    BY <1>3, <1>4, SameHostsSound
  <2> QED BY <2>1 DEF Effect
<1>6. CASE q.hosts[h].activeTerminal # NoTerminal
  <2>1. PICK t : t = q.hosts[h].activeTerminal
    OBVIOUS
  <2>2. t \in Seen(q)
    BY <1>3, <2>1 DEF Seen
  <2>3. Effect(q, setTerminal(q, t), {NoTerminal}, {})
    BY <1>3, <1>5, <2>2, SetKnownTerminal
  <2>4. onHostSelected(p, h) = setTerminal(q, t)
    BY <1>1, <1>6, <2>1 DEF onHostSelected
  <2> QED BY <1>5, <2>3, <2>4, EffectOfBoth
<1>7. CASE q.hosts[h].activeTerminal = NoTerminal
  <2>1. PICK req \in Request : req = [type |-> "terminal_req", h |-> h]
    BY <1>2, RequestsOfPage
  <2>2. Effect(q, Send(q, req), {}, {})
    BY <1>5, SendSound
  <2>3. onHostSelected(p, h) = Send(q, req)
    BY <1>1, <1>7, <2>1 DEF onHostSelected, sendNewTerminalRequest
  <2> QED BY <1>5, <2>2, <2>3, EffectOfBoth
<1> QED BY <1>6, <1>7

\* RemoteHost.onTermBtAddClicked()
LEMMA TermBtAdd ==
    ASSUME NEW p, Sound(p), p.ok, NEW h \in DOMAIN p.hosts, p.hosts[h].connectingBt = "IDLE"
    PROVE  Effect(p, onTermBtAddClicked(p, h), {NoTerminal}, {})
<1>1. h \in Hosts
  BY PageFields DEF Sound
<1>2. PICK req \in Request : req = [type |-> "terminal_req", h |-> h]
  BY <1>1, RequestsOfPage
<1>3. PICK q : q = Send(p, req)
  OBVIOUS
<1>4. Effect(p, q, {}, {}) /\ q \in Page /\ q.hosts = p.hosts
  BY <1>3, SendSound
<1>5. PICK host \in RemoteHost : host = q.hosts[h]
  BY <1>4, PageFields
<1>6. PICK new : new = [host EXCEPT !.connectingBt = "ACTIVATING"]
  OBVIOUS
<1>7. /\ new \in RemoteHost /\ new.buttons = host.buttons /\ new.connectingBt = "ACTIVATING"
      /\ new.selectedBt = host.selectedBt /\ new.activeTerminal = host.activeTerminal
  BY <1>6 DEF RemoteHost
<1>8. PICK r : r = [q EXCEPT !.hosts[h] = new]
  OBVIOUS
<1>9. /\ r \in Page /\ SameHosts(q, r, h) /\ r.hosts[h] = new
      /\ SameFrame(q, r) /\ SameView(q, r)
  BY <1>4, <1>7, <1>8, HostChanged DEF SameHosts
<1>10. onTermBtAddClicked(p, h) = r
  BY <1>2, <1>3, <1>5, <1>6, <1>8 DEF onTermBtAddClicked, sendNewTerminalRequest
<1>11. Sound(q)
  BY <1>4 DEF Effect
<1>12. InOrder(host) /\ Selected(host) /\ ButtonsOf(q, h) /\ Displayed(q)
  BY <1>4, <1>5, <1>11 DEF Sound
<1>13. InOrder(r.hosts[h]) /\ Selected(r.hosts[h]) /\ Shown(r.hosts[h]) = Shown(host)
  <2>1. host.connectingBt # "none"
    BY <1>4, <1>5
  <2> QED BY <1>7, <1>9, <1>12, <2>1 DEF InOrder, Selected, Shown
<1>14. ButtonsOf(r, h) /\ Displayed(r)
  BY <1>5, <1>9, <1>12, <1>13 DEF ButtonsOf, Displayed, SameFrame, SameView
<1>15. r.currentHost \in DOMAIN q.hosts \cup {NoHost}
  BY <1>9, <1>11 DEF Sound, SameFrame
<1>16. Sound(r)
  BY <1>4, <1>9, <1>11, <1>13, <1>14, <1>15, StillSound DEF SameFrame
<1>17. Seen(r) \subseteq Seen(q) \cup {}
  <2>1. host.activeTerminal \in Seen(q) /\ host.selectedBt \in Seen(q)
        /\ q.currentTerminal \in Seen(q)
    BY <1>4, <1>5 DEF Seen
  <2> QED BY <1>4, <1>7, <1>9, <2>1, StillSeen DEF SameFrame, SameView
<1>18. \A g \in DOMAIN q.hosts : Shown(q.hosts[g]) \ {} \subseteq Shown(r.hosts[g])
  BY <1>5, <1>9, <1>13 DEF SameHosts
<1>19. Effect(q, r, {}, {})
  BY <1>9, <1>16, <1>17, <1>18 DEF Effect, SameHosts
<1>20. Effect(p, r, {}, {})
  BY <1>4, <1>19, EffectOfBoth
<1> QED BY <1>10, <1>20, EffectWeakened

\* RemoteHost.removeTerminalById()
LEMMA RemoveTerminalById ==
    ASSUME NEW p, Sound(p), p.ok, NEW h \in DOMAIN p.hosts, NEW t \in TerminalId
    PROVE  LET r == removeTerminalById(p, h, t)
           IN  Effect(p, r, {NoTerminal}, {t}) /\ t \notin Shown(r.hosts[h])
<1>1. PICK host \in RemoteHost : host = p.hosts[h]
  BY PageFields DEF Sound
<1>2. t # AddBt
  BY DEF TerminalId, AddBt, NoTerminal
<1>3. CASE t \notin Range(host.buttons)
  <2>1. removeTerminalById(p, h, t) = p
    BY <1>1, <1>3 DEF removeTerminalById
  <2>2. t \notin Shown(p.hosts[h])
    BY <1>1, <1>3 DEF Shown
  <2> QED BY <2>1, <2>2, EffectTrivial
<1>4. CASE t \in Range(host.buttons)
  <2>1. PICK new : new = [host EXCEPT !.activeTerminal = IF @ = t THEN NoTerminal ELSE @]
    OBVIOUS
  <2>2. /\ new \in RemoteHost /\ SameButtons(host, new) /\ new.selectedBt = host.selectedBt
        /\ new.activeTerminal = IF host.activeTerminal = t THEN NoTerminal
                                                           ELSE host.activeTerminal
    BY <2>1 DEF RemoteHost, SameButtons, NoTerminal
  <2>3. PICK q : q = [p EXCEPT !.hosts[h] = new]
    OBVIOUS
  <2>4. p \in Page /\ Selected(p.hosts[h])
    BY DEF Sound
  <2>5. /\ q \in Page /\ SameHosts(p, q, h) /\ q.hosts[h] = new
        /\ SameFrame(p, q) /\ SameView(p, q)
    BY <2>2, <2>3, <2>4, HostChanged DEF SameHosts
  <2>6. t \in Shown(p.hosts[h])
    BY <1>1, <1>2, <1>4 DEF Shown
  <2>7. host.selectedBt = host.activeTerminal
    BY <1>1, <2>4, <2>6 DEF Selected
  <2>8. removeTerminalById(p, h, t) = removeTerminalButton(q, h, t)
    BY <1>1, <1>4, <2>1, <2>3 DEF removeTerminalById
  <2>9. PICK r : r = removeTerminalButton(q, h, t)
    OBVIOUS
  <2>10. SameButtons(p.hosts[h], q.hosts[h])
         /\ q.hosts[h].selectedBt = p.hosts[h].selectedBt
    BY <1>1, <2>2, <2>5
  <2>11. \/ q.hosts[h].activeTerminal = p.hosts[h].activeTerminal
         \/ q.hosts[h].activeTerminal = NoTerminal /\ p.hosts[h].selectedBt = t
    BY <1>1, <2>2, <2>5, <2>7
  <2>12. q \in Page /\ Forgets(p, q, h, t)
    BY <2>5, <2>10, <2>11 DEF Forgets
  <2>13. Effect(p, r, {NoTerminal}, {t}) /\ t \notin Shown(r.hosts[h])
    BY <2>6, <2>9, <2>12, RemoveTerminalButton
  <2> QED BY <2>8, <2>9, <2>13
<1> QED BY <1>3, <1>4

\* TerminalView.removeTerminal() of a terminal that has no button any more.
LEMMA RemoveTerminal ==
    ASSUME NEW p, Sound(p), NEW t, \A h \in DOMAIN p.hosts : t \notin Shown(p.hosts[h])
    PROVE  Effect(p, removeTerminal(p, t), {NoTerminal}, {})
<1>1. CASE t \notin p.terminals
  <2>1. removeTerminal(p, t) = p
    BY <1>1 DEF removeTerminal
  <2> QED BY <2>1, EffectTrivial
<1>2. CASE t \in p.terminals
  <2>1. PICK r : r = [p EXCEPT !.attached = @ \ {t}, !.terminals = @ \ {t},
                               !.currentTerminal = NoTerminal]
    OBVIOUS
  <2>2. removeTerminal(p, t) = r
    BY <1>2, <2>1 DEF removeTerminal, deleteNode
  <2>3. /\ r \in Page /\ r.hosts = p.hosts /\ r.currentHost = p.currentHost /\ r.info = p.info
        /\ r.terminals = p.terminals \ {t} /\ r.attached = p.attached \ {t}
        /\ r.currentTerminal = NoTerminal
    BY <2>1 DEF Sound, Page, NoTerminal
  <2>4. Displayed(r)
    <3>1. NoTerminal \notin r.terminals
      BY <2>3, PageFields DEF TerminalId, NoTerminal
    <3> QED BY <2>3, <3>1 DEF Sound, Displayed
  <2>5. \A h \in DOMAIN r.hosts : ButtonsOf(r, h)
    BY <2>3 DEF Sound, ButtonsOf
  <2>6. Sound(r)
    BY <2>3, <2>4, <2>5 DEF Sound
  <2>7. Seen(r) \subseteq Seen(p) \cup {NoTerminal}
    BY <2>3 DEF Seen
  <2> QED BY <2>2, <2>3, <2>6, <2>7 DEF Effect
<1> QED BY <1>1, <1>2

\* TerminalManager.onTerminalClosed(): the terminal runs on h, so that no other
\* host has a button for it.
LEMMA TerminalClosed ==
    ASSUME NEW p, Sound(p), p.ok, NEW h, NEW t \in TerminalId,
           t \in DOMAIN ordered, ordered[t] = h
    PROVE  Effect(p, onTerminalClosed(p, h, t), {NoTerminal}, {t})
<1>1. PICK q : q = removeTerminalForHost(p, h, t)
  OBVIOUS
<1>2. Effect(p, q, {NoTerminal}, {t}) /\ (h \in DOMAIN p.hosts => t \notin Shown(q.hosts[h]))
  <2>1. CASE h \in DOMAIN p.hosts
    <3>1. q = removeTerminalById(p, h, t)
      BY <1>1, <2>1 DEF removeTerminalForHost, hasHost
    <3> QED BY <2>1, <3>1, RemoveTerminalById
  <2>2. CASE h \notin DOMAIN p.hosts
    <3>1. q = p
      BY <1>1, <2>2 DEF removeTerminalForHost, hasHost
    <3> QED BY <2>2, <3>1, EffectTrivial
  <2> QED BY <2>1, <2>2
<1>3. Sound(q) /\ DOMAIN q.hosts = DOMAIN p.hosts
  BY <1>2 DEF Effect
<1>4. \A g \in DOMAIN q.hosts : t \notin Shown(q.hosts[g])
  BY <1>2, <1>3 DEF Sound, ButtonsOf
<1>5. CASE q.ok
  <2>1. onTerminalClosed(p, h, t) = removeTerminal(q, t)
    BY <1>1, <1>5 DEF onTerminalClosed
  <2>2. Effect(q, removeTerminal(q, t), {NoTerminal}, {})
    BY <1>3, <1>4, RemoveTerminal
  <2> QED BY <1>2, <2>1, <2>2, EffectOfBoth
<1>6. CASE ~q.ok
  <2>1. onTerminalClosed(p, h, t) = q
    BY <1>1, <1>6 DEF onTerminalClosed
  <2> QED BY <1>2, <2>1
<1> QED BY <1>5, <1>6

\* TerminalManager.onTerminalAdded() of a terminal that is new to the page.
LEMMA TerminalAdded ==
    ASSUME NEW p, Sound(p), p.ok, NEW h, NEW t \in TerminalId, t \notin Seen(p),
           t \in DOMAIN ordered, ordered[t] = h
    PROVE  LET r == onTerminalAdded(p, h, t)
           IN  /\ Effect(p, r, {NoTerminal, t}, {})
               /\ h \in DOMAIN p.hosts => t \in Shown(r.hosts[h])
<1>1. PICK c : c = createTerminalNode(p, t)
  OBVIOUS
<1>2. /\ c \in Page /\ c.hosts = p.hosts /\ c.terminals = p.terminals \cup {t}
      /\ c.currentHost = p.currentHost /\ c.info = p.info /\ c.ok
      /\ c.currentTerminal = p.currentTerminal /\ c.attached = p.attached
  BY <1>1 DEF createTerminalNode, Sound, Page
<1>3. Displayed(c) /\ c.currentTerminal \in Seen(p)
  BY <1>2 DEF Sound, Displayed, Seen
<1>4. c.currentHost \in DOMAIN p.hosts \cup {NoHost}
  BY <1>2 DEF Sound
<1>5. Effect(p, c, {NoTerminal, t}, {})
  BY <1>2, <1>3, <1>4, SameHostsSound
<1>6. Sound(c)
  BY <1>5 DEF Effect
<1>7. PICK q : q = addTerminalForHost(c, h, t)
  OBVIOUS
<1>8. /\ Effect(p, q, {NoTerminal, t}, {})
      /\ h \in DOMAIN p.hosts => t \in Shown(q.hosts[h])
  <2>1. CASE h \in DOMAIN p.hosts
    <3>1. q = addTerminal(c, h, t) /\ h \in DOMAIN c.hosts
      BY <1>2, <1>7, <2>1 DEF addTerminalForHost, hasHost
    <3>2. t # c.hosts[h].selectedBt
      BY <1>2, <2>1 DEF Seen
    <3>3. t \notin Range(c.hosts[h].buttons)
      <4>1. t # AddBt /\ t \notin p.terminals
        BY DEF TerminalId, AddBt, NoTerminal, Seen
      <4> QED BY <1>2, <2>1, <4>1 DEF Sound, ButtonsOf, Shown
    <3>4. Effect(c, q, {NoTerminal}, {}) /\ t \in Shown(q.hosts[h])
      BY <1>2, <1>6, <3>1, <3>2, <3>3, AddTerminal
    <3>5. Effect(p, q, {NoTerminal, t}, {})
      BY <1>5, <3>4, EffectOfBoth
    <3> QED BY <3>4, <3>5
  <2>2. CASE h \notin DOMAIN p.hosts
    <3>1. q = c
      BY <1>2, <1>7, <2>2 DEF addTerminalForHost, hasHost
    <3> QED BY <1>5, <2>2, <3>1
  <2> QED BY <2>1, <2>2
<1>9. Sound(q) /\ DOMAIN q.hosts = DOMAIN p.hosts
  BY <1>8 DEF Effect
\* What is done to q keeps its buttons.
<1>10. ASSUME NEW r, Effect(q, r, {NoTerminal}, {})
       PROVE  /\ Effect(p, r, {NoTerminal, t}, {})
              /\ h \in DOMAIN p.hosts => t \in Shown(r.hosts[h])
  <2>1. Effect(p, r, {NoTerminal, t}, {})
    BY <1>8, <1>10, EffectOfBoth
  <2>2. h \in DOMAIN p.hosts => Shown(q.hosts[h]) \subseteq Shown(r.hosts[h])
    BY <1>9, <1>10 DEF Effect
  <2> QED BY <1>8, <2>1, <2>2
<1>11. t \notin p.terminals
  BY DEF Seen
<1>12. CASE ~q.ok
  <2>1. onTerminalAdded(p, h, t) = q
    BY <1>1, <1>7, <1>11, <1>12 DEF onTerminalAdded
  <2> QED BY <1>8, <2>1
<1>13. CASE q.ok /\ q.currentHost = NoHost
  <2>1. onTerminalAdded(p, h, t) = Throw(q)
    BY <1>1, <1>7, <1>11, <1>13 DEF onTerminalAdded
  <2>2. Effect(q, Throw(q), {NoTerminal}, {})
    BY <1>9, ThrowSound, EffectWeakened
  <2> QED BY <1>10, <2>1, <2>2
<1>14. CASE q.ok /\ q.currentHost # NoHost /\ q.currentHost = h
  <2>1. PICK u : u = q.hosts[h].activeTerminal
    OBVIOUS
  <2>2. onTerminalAdded(p, h, t) = setTerminal(q, u)
    BY <1>1, <1>7, <1>11, <1>14, <2>1 DEF onTerminalAdded
  <2>3. h \in DOMAIN q.hosts
    BY <1>9, <1>14 DEF Sound
  <2>4. u \in Seen(q)
    BY <2>1, <2>3 DEF Seen
  <2>5. Effect(q, setTerminal(q, u), {NoTerminal}, {})
    BY <1>9, <1>14, <2>4, SetKnownTerminal
  <2> QED BY <1>10, <2>2, <2>5
<1>15. CASE q.ok /\ q.currentHost # NoHost /\ q.currentHost # h
  <2>1. onTerminalAdded(p, h, t) = q
    BY <1>1, <1>7, <1>11, <1>15 DEF onTerminalAdded
  <2> QED BY <1>8, <2>1
<1> QED BY <1>12, <1>13, <1>14, <1>15

LEMMA NewHostSound ==
    NewHost \in RemoteHost /\ InOrder(NewHost) /\ Selected(NewHost) /\ Shown(NewHost) = {}
<1>1. NewHost.buttons = <<>> /\ NewHost.connectingBt = "none" /\ NewHost \in RemoteHost
      /\ DOMAIN NewHost.buttons = {}
  BY DEF NewHost, RemoteHost, NoTerminal
<1>2. Range(NewHost.buttons) = {}
  BY <1>1 DEF Range
<1> QED BY <1>1, <1>2 DEF InOrder, Orderly, HasAdd, Selected, Shown

\* RemoteHostList.addHost() and TerminalManager.onHostConnected()
LEMMA HostAdded ==
    ASSUME NEW p, Sound(p), NEW h \in Hosts, h \notin DOMAIN p.hosts
    PROVE  LET r == onHostConnected(p, h)
           IN  /\ Sound(r)
               /\ Seen(r) \subseteq Seen(p) \cup {NoTerminal}
               /\ DOMAIN r.hosts = DOMAIN p.hosts \cup {h}
               /\ \A g \in DOMAIN p.hosts : r.hosts[g] = p.hosts[g]
<1>1. PICK listed \in SUBSET Hosts : p.hosts \in [listed -> RemoteHost] /\ listed = DOMAIN p.hosts
  BY DEF Sound, Page, HostMap
<1>2. PICK hosts : hosts = Assign(p.hosts, h, NewHost)
  OBVIOUS
<1>3. /\ hosts \in [listed \cup {h} -> RemoteHost] /\ DOMAIN hosts = DOMAIN p.hosts \cup {h}
      /\ hosts[h] = NewHost /\ \A g \in DOMAIN p.hosts : hosts[g] = p.hosts[g]
  BY <1>1, <1>2, NewHostSound DEF Assign
<1>4. hosts \in HostMap
  BY <1>3 DEF HostMap
<1>5. IsFiniteSet(DOMAIN p.hosts) /\ p \in Page
  BY DEF Sound
<1>6. /\ IsFiniteSet(DOMAIN hosts)
      /\ Cardinality(DOMAIN hosts) = 1 => DOMAIN p.hosts = {}
      /\ Cardinality(DOMAIN hosts) # 1 => DOMAIN p.hosts # {}
  <2>1. PICK n \in Nat : n = Cardinality(DOMAIN p.hosts)
    BY <1>5, FS_CardinalityType
  <2>2. IsFiniteSet(DOMAIN hosts) /\ Cardinality(DOMAIN hosts) = n + 1
    BY <1>3, <1>5, <2>1, FS_AddElement
  <2>3. n = 0 <=> DOMAIN p.hosts = {}
    BY <1>5, <2>1, FS_EmptySet
  <2>4. n + 1 = 1 <=> n = 0
    BY <2>1
  <2> QED BY <2>2, <2>3, <2>4
<1>7. PICK c : c = [p EXCEPT !.hosts = hosts]
  OBVIOUS
<1>8. /\ c \in Page /\ c.hosts = hosts /\ SameFrame(p, c) /\ SameView(p, c)
  BY <1>4, <1>5, <1>7 DEF Page, SameFrame, SameView
<1>9. PICK q : q = IF Cardinality(DOMAIN hosts) = 1 THEN [c EXCEPT !.currentHost = h] ELSE c
  OBVIOUS
<1>10. addHost(p, h) = q
  BY <1>2, <1>7, <1>8, <1>9 DEF addHost, size
<1>11. /\ q \in Page /\ q.hosts = hosts /\ q.currentHost \in {p.currentHost, h}
       /\ q.terminals = p.terminals /\ q.info = p.info
       /\ q.currentTerminal = p.currentTerminal /\ q.attached = p.attached
  BY <1>8, <1>9 DEF Page, SameFrame, SameView
<1>12. PICK req \in Request : req = [type |-> "terminal_req", h |-> h]
  BY RequestsOfPage
<1>13. PICK r : r = IF Cardinality(DOMAIN hosts) = 1
                    THEN [q EXCEPT !.out = @ \cup {req}, !.info = FALSE] ELSE q
  OBVIOUS
<1>14. onHostConnected(p, h) = r
  BY <1>10, <1>11, <1>12, <1>13
  DEF onHostConnected, hideNoTerminalsInfo, sendNewTerminalRequest, Send, size
<1>15. /\ r \in Page /\ r.hosts = hosts /\ r.currentHost \in {p.currentHost, h}
       /\ r.terminals = p.terminals
       /\ r.currentTerminal = p.currentTerminal /\ r.attached = p.attached
       /\ r.info => Cardinality(DOMAIN hosts) # 1 /\ p.info
  <2>1. CASE Cardinality(DOMAIN hosts) = 1
    <3>1. r = [q EXCEPT !.out = @ \cup {req}, !.info = FALSE]
      BY <1>13, <2>1
    <3> QED BY <1>11, <3>1 DEF Page
  <2>2. CASE Cardinality(DOMAIN hosts) # 1
    <3>1. r = q
      BY <1>13, <2>2
    <3> QED BY <1>11, <2>2, <3>1
  <2> QED BY <2>1, <2>2
<1>16. ~r.info
  BY <1>6, <1>15 DEF Sound
<1>17. ASSUME NEW g \in DOMAIN r.hosts
       PROVE  InOrder(r.hosts[g]) /\ Selected(r.hosts[g]) /\ ButtonsOf(r, g)
  <2>1. CASE g = h
    BY <1>3, <1>15, <2>1, NewHostSound DEF ButtonsOf
  <2>2. CASE g # h
    <3>1. g \in DOMAIN p.hosts /\ r.hosts[g] = p.hosts[g]
      BY <1>3, <1>15, <2>2
    <3> QED BY <1>15, <3>1 DEF Sound, ButtonsOf
  <2> QED BY <2>1, <2>2
<1>18. Displayed(r) /\ (r.currentHost # NoHost => r.currentHost \in DOMAIN r.hosts)
  BY <1>3, <1>15 DEF Sound, Displayed
<1>19. Sound(r)
  BY <1>3, <1>6, <1>15, <1>16, <1>17, <1>18 DEF Sound
<1>20. Seen(r) \subseteq Seen(p) \cup {NoTerminal}
  <2>1. ASSUME NEW g \in DOMAIN r.hosts
        PROVE  /\ r.hosts[g].activeTerminal \in Seen(p) \cup {NoTerminal}
               /\ r.hosts[g].selectedBt \in Seen(p) \cup {NoTerminal}
    <3>1. CASE g = h
      BY <1>3, <1>15, <3>1 DEF NewHost
    <3>2. CASE g # h
      <4>1. g \in DOMAIN p.hosts /\ r.hosts[g] = p.hosts[g]
        BY <1>3, <1>15, <3>2
      <4> QED BY <4>1 DEF Seen
    <3> QED BY <3>1, <3>2
  <2>2. r.terminals \cup {r.currentTerminal} \subseteq Seen(p)
    BY <1>15 DEF Seen
  <2> QED BY <2>1, <2>2 DEF Seen
<1> QED BY <1>3, <1>14, <1>15, <1>19, <1>20

\* RemoteHostList.removeHost() and TerminalManager.onHostDisconnected()
LEMMA HostRemoved ==
    ASSUME NEW p, Sound(p), p.ok, NEW h \in Hosts
    PROVE  LET r == onHostDisconnected(p, h)
           IN  /\ Sound(r)
               /\ Seen(r) \subseteq Seen(p)
               /\ DOMAIN r.hosts = DOMAIN p.hosts \ {h}
               /\ \A g \in DOMAIN p.hosts \ {h} : r.hosts[g] = p.hosts[g]
<1>1. p \in Page /\ IsFiniteSet(DOMAIN p.hosts)
  BY DEF Sound
<1>2. CASE h \notin DOMAIN p.hosts
  <2>1. PICK r : r = IF size(p) = 0 THEN [p EXCEPT !.info = TRUE] ELSE p
    OBVIOUS
  <2>2. onHostDisconnected(p, h) = r
    BY <1>2, <2>1 DEF onHostDisconnected, removeHost, hasHost, showNoTerminalsInfo
  <2>3. /\ r \in Page /\ r.hosts = p.hosts /\ r.currentHost = p.currentHost
        /\ r.terminals = p.terminals
        /\ r.currentTerminal = p.currentTerminal /\ r.attached = p.attached
        /\ r.info => p.info \/ size(p) = 0
    <3>1. CASE size(p) = 0
      <4>1. r = [p EXCEPT !.info = TRUE]
        BY <2>1, <3>1
      <4> QED BY <1>1, <3>1, <4>1 DEF Page
    <3>2. CASE size(p) # 0
      BY <1>1, <2>1, <3>2
    <3> QED BY <3>1, <3>2
  <2>4. r.info => DOMAIN r.hosts = {}
    <3>1. size(p) = 0 => DOMAIN p.hosts = {}
      BY <1>1, FS_EmptySet DEF size
    <3> QED BY <2>3, <3>1 DEF Sound
  <2>5. \A g \in DOMAIN r.hosts : ButtonsOf(r, g)
    BY <2>3 DEF Sound, ButtonsOf
  <2>6. Displayed(r)
    BY <2>3 DEF Sound, Displayed
  <2>7. Sound(r)
    BY <2>3, <2>4, <2>5, <2>6 DEF Sound
  <2>8. Seen(r) \subseteq Seen(p)
    BY <2>3 DEF Seen
  <2> QED BY <1>2, <2>2, <2>3, <2>7, <2>8
<1>3. CASE h \in DOMAIN p.hosts
  <2>1. PICK listed \in SUBSET Hosts :
           p.hosts \in [listed -> RemoteHost] /\ listed = DOMAIN p.hosts
    BY <1>1 DEF Page, HostMap
  <2>2. PICK hosts : hosts = Erase(p.hosts, h)
    OBVIOUS
  <2>3. /\ hosts \in [listed \ {h} -> RemoteHost] /\ DOMAIN hosts = DOMAIN p.hosts \ {h}
        /\ \A g \in DOMAIN p.hosts \ {h} : hosts[g] = p.hosts[g]
    BY <2>1, <2>2 DEF Erase, Restrict
  <2>4. hosts \in HostMap
    BY <2>3 DEF HostMap
  <2>5. PICK current : current = IF p.currentHost = h THEN NoHost ELSE p.currentHost
    OBVIOUS
  <2>6. current \in Hosts \cup {NoHost} /\ (current # NoHost => current \in DOMAIN hosts)
    BY <1>1, <2>3, <2>5, PageFields DEF Sound
  <2>7. PICK r : r = [p EXCEPT !.hosts = hosts, !.currentHost = current, !.ok = FALSE]
    OBVIOUS
  <2>8. /\ r \in Page /\ r.hosts = hosts /\ r.currentHost = current
        /\ r.terminals = p.terminals /\ r.info = p.info /\ ~r.ok
        /\ r.currentTerminal = p.currentTerminal /\ r.attached = p.attached
    BY <1>1, <2>4, <2>6, <2>7 DEF Page
  <2>9. removeHost(p, h) = r
    BY <1>3, <2>2, <2>5, <2>7 DEF removeHost, hasHost, Throw
  <2>10. onHostDisconnected(p, h) = r
    BY <2>8, <2>9 DEF onHostDisconnected
  <2>11. ~r.info
    BY <1>3, <2>8 DEF Sound
  <2>12. ASSUME NEW g \in DOMAIN r.hosts
         PROVE  InOrder(r.hosts[g]) /\ Selected(r.hosts[g]) /\ ButtonsOf(r, g)
    <3>1. g \in DOMAIN p.hosts /\ r.hosts[g] = p.hosts[g]
      BY <2>3, <2>8
    <3> QED BY <2>8, <3>1 DEF Sound, ButtonsOf
  <2>13. Displayed(r)
    BY <2>8 DEF Sound, Displayed
  <2>14. IsFiniteSet(DOMAIN r.hosts)
    BY <1>1, <2>3, <2>8, FS_RemoveElement
  <2>15. Sound(r)
    BY <2>6, <2>8, <2>11, <2>12, <2>13, <2>14 DEF Sound
  <2>16. Seen(r) \subseteq Seen(p)
    <3>1. ASSUME NEW g \in DOMAIN r.hosts
          PROVE  r.hosts[g].activeTerminal \in Seen(p) /\ r.hosts[g].selectedBt \in Seen(p)
      <4>1. g \in DOMAIN p.hosts /\ r.hosts[g] = p.hosts[g]
        BY <2>3, <2>8
      <4> QED BY <4>1 DEF Seen
    <3>2. r.terminals \cup {r.currentTerminal} \subseteq Seen(p)
      BY <2>8 DEF Seen
    <3> QED BY <3>1, <3>2 DEF Seen
  <2> QED BY <2>3, <2>8, <2>10, <2>15, <2>16
<1> QED BY <1>2, <1>3

\* TerminalManager.clear(): nothing is left but the current terminal, 0.
LEMMA Cleared ==
    ASSUME NEW p, Sound(p)
    PROVE  LET r == clear(p)
           IN  /\ Sound(r) /\ DOMAIN r.hosts = {} /\ Seen(r) \subseteq {NoTerminal}
               /\ r.out = p.out /\ r.ok = p.ok
<1>1. PICK r : r = [p EXCEPT !.hosts = EmptyMap, !.currentHost = NoHost, !.terminals = {},
                             !.currentTerminal = NoTerminal, !.attached = {}]
  OBVIOUS
<1>2. clear(p) = r
  BY <1>1 DEF clear, clearView, clearHosts
<1>3. EmptyMap \in HostMap /\ DOMAIN EmptyMap = {}
  <2>1. EmptyMap \in [{} -> RemoteHost] /\ DOMAIN EmptyMap = {}
    BY DEF EmptyMap
  <2> QED BY <2>1 DEF HostMap
<1>4. /\ r \in Page /\ r.hosts = EmptyMap /\ r.currentHost = NoHost /\ r.terminals = {}
      /\ r.currentTerminal = NoTerminal /\ r.attached = {} /\ r.out = p.out /\ r.ok = p.ok
  BY <1>1, <1>3 DEF Sound, Page, NoTerminal
<1>5. IsFiniteSet(DOMAIN r.hosts) /\ DOMAIN r.hosts = {}
  BY <1>3, <1>4, FS_EmptySet
<1>6. Sound(r)
  BY <1>4, <1>5 DEF Sound, Displayed
<1>7. Seen(r) \subseteq {NoTerminal}
  BY <1>4, <1>5 DEF Seen
<1> QED BY <1>2, <1>4, <1>5, <1>6, <1>7
-----------------------------------------------------------------------------
\* A sequence of a finite set is one of all its elements.
LEMMA AllInOrder ==
    ASSUME NEW S, IsFiniteSet(S), NEW order \in SetToSeqs(S)
    PROVE  /\ order \in Seq(S)
           /\ \A i, j \in DOMAIN order : order[i] = order[j] => i = j
           /\ \A x \in S : \E i \in DOMAIN order : order[i] = x
<1>1. PICK n \in Nat : n = Cardinality(S)
  BY FS_CardinalityType
<1>2. order \in [1 .. n -> S] /\ \A i, j \in 1 .. n : i # j => order[i] # order[j]
  BY <1>1 DEF SetToSeqs
<1>3. order \in Injection(1 .. n, S)
  BY <1>2 DEF Injection, IsInjective
<1>4. Cardinality(1 .. n) = n
  <2>1. Cardinality(1 .. n) = IF 1 > n THEN 0 ELSE n - 1 + 1
    BY FS_Interval
  <2> QED BY <2>1
<1>5. IsFiniteSet(1 .. n)
  BY FS_Interval
<1>6. order \in Surjection(1 .. n, S)
  BY <1>1, <1>3, <1>4, <1>5, FS_Injection
<1> QED BY <1>2, <1>6 DEF Surjection

\* The server takes the requests of the page.
LEMMA Taken ==
    ASSUME ServerInv, NEW requests \in SUBSET Request, Takes(requests),
           UNCHANGED <<up, gone>>
    PROVE  /\ ServerInv'
           /\ live' \subseteq live
           /\ \A t \in live' : [type |-> "terminal_del", t |-> t] \notin requests
           /\ Len(ordered') \in Nat /\ Len(ordered) <= Len(ordered')
           /\ \A t \in DOMAIN ordered : t \in DOMAIN ordered' /\ ordered'[t] = ordered[t]
           /\ \A t \in starting' : t \in starting \/ (t \in Nat /\ t > Len(ordered))
<1>1. PICK orders : orders = {r.h : r \in {x \in requests : x.type = "terminal_req" /\ x.h \in up}}
  OBVIOUS
<1>2. PICK deletes : deletes = {r.t : r \in {x \in requests : x.type = "terminal_del"}}
  OBVIOUS
<1>3. PICK order \in SetToSeqs(orders) :
         /\ ordered' = ordered \o order
         /\ starting' = starting \cup {Len(ordered) + i : i \in DOMAIN order}
  BY <1>1 DEF Takes
<1>4. live' = live \ deletes
  BY <1>2 DEF Takes
<1>5. orders \subseteq up /\ IsFiniteSet(orders)
  <2>1. orders \subseteq up
    BY <1>1
  <2> QED BY <2>1, FS_Subset DEF ServerInv
<1>6. order \in Seq(orders)
  BY <1>5, AllInOrder
<1>7. PICK n, m : n = Len(ordered) /\ m = Len(order)
  OBVIOUS
<1>8. /\ n \in Nat /\ m \in Nat /\ ordered \in Seq(Hosts) /\ order \in Seq(Hosts)
      /\ DOMAIN ordered = 1 .. n /\ DOMAIN order = 1 .. m
      /\ \A i \in 1 .. m : order[i] \in up
  BY <1>5, <1>6, <1>7 DEF ServerInv
<1>9. /\ ordered' \in Seq(Hosts) /\ Len(ordered') = n + m
      /\ \A i \in 1 .. n + m : ordered'[i] = IF i <= n THEN ordered[i] ELSE order[i - n]
  BY <1>3, <1>7, <1>8, ConcatProperties
<1>10. DOMAIN ordered' = 1 .. n + m
  BY <1>8, <1>9
<1>11. \A t \in 1 .. n : t \in 1 .. n + m /\ ordered'[t] = ordered[t]
  BY <1>8, <1>9
<1>12. \A i \in 1 .. m : n + i \in 1 .. n + m /\ ~(n + i <= n) /\ (n + i) - n = i
  BY <1>8
<1>13. \A i \in 1 .. m : n + i \in 1 .. n + m /\ n + i > n /\ ordered'[n + i] = order[i]
  BY <1>8, <1>9, <1>12
<1>14. \A t \in starting' : t \in starting \/ \E i \in 1 .. m : t = n + i
  BY <1>3, <1>7, <1>8
<1>15. starting' \subseteq 1 .. n + m
  BY <1>8, <1>11, <1>13, <1>14 DEF ServerInv
<1>16. live' \subseteq live /\ live' \subseteq 1 .. n + m
  BY <1>4, <1>8, <1>11 DEF ServerInv
<1>17. starting' \cap live' = {}
  <2>1. ASSUME NEW t \in starting', t \in live' PROVE FALSE
    <3>1. t \in live /\ t \in 1 .. n
      BY <1>8, <1>16, <2>1 DEF ServerInv
    <3>2. t \notin starting
      BY <3>1 DEF ServerInv
    <3>3. PICK i \in 1 .. m : t = n + i
      BY <1>14, <2>1, <3>2
    <3> QED BY <1>8, <3>1, <3>3
  <2> QED BY <2>1
<1>18. \A t \in starting' \cup live' : ordered'[t] \in up
  <2>1. ASSUME NEW t \in starting \cup live PROVE ordered'[t] \in up
    BY <1>8, <1>11 DEF ServerInv
  <2>2. \A t \in live' : t \in live
    BY <1>16
  <2> QED BY <1>8, <1>13, <1>14, <2>1, <2>2
<1>19. ServerInv'
  BY <1>9, <1>10, <1>15, <1>16, <1>17, <1>18 DEF ServerInv
<1>20. \A t \in live' : [type |-> "terminal_del", t |-> t] \notin requests
  <2>1. ASSUME NEW t, NEW x \in requests, x = [type |-> "terminal_del", t |-> t]
        PROVE  t \in deletes
    <3>1. x.type = "terminal_del" /\ x.t = t
      BY <2>1
    <3> QED BY <1>2, <3>1
  <2> QED BY <1>4, <2>1
<1>21. \A t \in starting' : t \in starting \/ (t \in Nat /\ t > n)
  BY <1>8, <1>13, <1>14
<1>22. Len(ordered') \in Nat /\ n <= Len(ordered')
  BY <1>8, <1>9
<1> QED BY <1>7, <1>8, <1>10, <1>11, <1>16, <1>19, <1>20, <1>21, <1>22

\* A handler that ran, or threw, and the requests it sent.
LEMMA Handled ==
    ASSUME ServerInv, NEW r, Sound(r), Handle(r), UNCHANGED <<up, gone>>
    PROVE  /\ Sound(page)' /\ page'.out = {} /\ page'.ok
           /\ page'.hosts = r.hosts /\ Seen(page)' = Seen(r)
           /\ ServerInv'
           /\ live' \subseteq live
           /\ \A t \in live' : [type |-> "terminal_del", t |-> t] \notin r.out
           /\ Len(ordered') \in Nat /\ Len(ordered) <= Len(ordered')
           /\ \A t \in DOMAIN ordered : t \in DOMAIN ordered' /\ ordered'[t] = ordered[t]
           /\ \A t \in starting' : t \in starting \/ (t \in Nat /\ t > Len(ordered))
<1>1. r \in Page /\ r.out \in SUBSET Request
  BY PageFields DEF Sound
<1>2. PICK q : q = [r EXCEPT !.out = {}, !.ok = TRUE]
  OBVIOUS
<1>3. /\ q \in Page /\ q.hosts = r.hosts /\ q.currentHost = r.currentHost /\ q.info = r.info
      /\ q.terminals = r.terminals /\ q.out = {} /\ q.ok
      /\ q.currentTerminal = r.currentTerminal /\ q.attached = r.attached
  BY <1>1, <1>2 DEF Page
<1>4. page' = q
  BY <1>2 DEF Handle
<1>5. PICK requests \in SUBSET Request : requests = r.out /\ Takes(requests)
  BY <1>1 DEF Handle
<1>6. /\ ServerInv' /\ live' \subseteq live
      /\ \A t \in live' : [type |-> "terminal_del", t |-> t] \notin requests
      /\ Len(ordered') \in Nat /\ Len(ordered) <= Len(ordered')
      /\ \A t \in DOMAIN ordered : t \in DOMAIN ordered' /\ ordered'[t] = ordered[t]
      /\ \A t \in starting' : t \in starting \/ (t \in Nat /\ t > Len(ordered))
  BY <1>5, Taken
<1>7. ASSUME NEW h \in DOMAIN q.hosts
      PROVE  /\ InOrder(q.hosts[h]) /\ Selected(q.hosts[h])
             /\ \A t \in Shown(q.hosts[h]) :
                   t \in q.terminals /\ t \in DOMAIN ordered' /\ ordered'[t] = h
  BY <1>3, <1>6 DEF Sound, ButtonsOf
<1>8. Displayed(q) /\ IsFiniteSet(DOMAIN q.hosts)
      /\ (q.currentHost # NoHost => q.currentHost \in DOMAIN q.hosts)
      /\ (q.info => DOMAIN q.hosts = {})
  BY <1>3 DEF Sound, Displayed
<1>9. Sound(page)'
  BY <1>3, <1>4, <1>7, <1>8 DEF Sound, ButtonsOf
<1>10. Seen(page)' = Seen(r)
  BY <1>3, <1>4 DEF Seen
<1> QED BY <1>3, <1>4, <1>5, <1>6, <1>9, <1>10

\* What a step of the page does that handles the first k messages: it learns of
\* a host or of a terminal by its message only, and forgets lost hosts only.
Handles(k, r) ==
    /\ k \in {0, 1}
    /\ toPage' \in Seq(Message)
    /\ \A i \in DOMAIN toPage' : i + k \in DOMAIN toPage /\ toPage'[i] = toPage[i + k]
    /\ \A i \in DOMAIN toPage : i > k => i - k \in DOMAIN toPage'
    /\ \A h \in DOMAIN r.hosts :
          h \in DOMAIN page.hosts \/ (k = 1 /\ Sent(1, "host_connected") /\ toPage[1].h = h)
    /\ \A h \in DOMAIN page.hosts : h \in DOMAIN r.hosts \/ h \in gone
    /\ k = 1 /\ Sent(1, "host_connected") => toPage[1].h \in DOMAIN r.hosts
    /\ \A t \in Seen(r) :
          \/ t \in Seen(page) \/ t = NoTerminal
          \/ k = 1 /\ Sent(1, "terminal_added") /\ toPage[1].t = t

LEMMA MessageFields ==
    ASSUME NEW m \in Message
    PROVE  /\ m.h \in Hosts
           /\ m.type \in {"host_connected", "host_disconnected", "terminal_added",
                          "terminal_closed"}
           /\ m.type \in {"terminal_added", "terminal_closed"} => m.t \in TerminalId
  BY DEF Message

LEMMA PageStep ==
    ASSUME WebPageInv, linked, NEW r, Sound(r), Handle(r),
           UNCHANGED <<linked, up, gone>>, NEW k, Handles(k, r)
    PROVE  WebPageInv'
<1>1. /\ ServerInv /\ QueueInv /\ HostsFirst /\ FreshInv
  BY DEF WebPageInv
<1>2. PICK n : n = Len(ordered)
  OBVIOUS
<1>3. n \in Nat /\ ordered \in Seq(Hosts) /\ DOMAIN ordered = 1 .. n
  BY <1>1, <1>2 DEF ServerInv
<1>4. /\ Sound(page)' /\ page'.out = {} /\ page'.ok
      /\ page'.hosts = r.hosts /\ Seen(page)' = Seen(r)
      /\ ServerInv'
      /\ live' \subseteq live
      /\ Len(ordered') \in Nat /\ n <= Len(ordered')
      /\ \A t \in DOMAIN ordered : t \in DOMAIN ordered' /\ ordered'[t] = ordered[t]
      /\ \A t \in starting' : t \in starting \/ (t \in Nat /\ t > n)
  BY <1>1, <1>2, Handled
<1>5. /\ k \in {0, 1} /\ k \in Nat
      /\ toPage' \in Seq(Message) /\ toPage \in Seq(Message)
      /\ \A i \in DOMAIN toPage' : i + k \in DOMAIN toPage /\ toPage'[i] = toPage[i + k]
      /\ \A i \in DOMAIN toPage : i > k => i - k \in DOMAIN toPage'
  BY <1>1 DEF Handles, QueueInv
<1>7. QueueInv'
  <2>1. \A h \in DOMAIN r.hosts : h \in up \cup gone
    BY <1>1 DEF Handles, QueueInv, Sent
  <2>2. \A i \in DOMAIN toPage' : toPage'[i].h \in up \cup gone
    BY <1>1, <1>5 DEF QueueInv
  <2>3. ASSUME NEW i \in DOMAIN toPage', toPage'[i].type = "host_connected"
        PROVE  toPage'[i].h \notin DOMAIN r.hosts
    <3>1. PICK j \in DOMAIN toPage : j = i + k
      BY <1>5
    <3>2. Sent(j, "host_connected") /\ toPage[j].h = toPage'[i].h
      BY <1>5, <2>3, <3>1 DEF Sent
    <3>3. toPage[j].h \notin DOMAIN page.hosts
      BY <1>1, <3>2 DEF QueueInv
    <3>4. ~(k = 1 /\ Sent(1, "host_connected") /\ toPage[1].h = toPage[j].h)
      <4>1. CASE k = 1
        <5>1. j # 1 /\ 1 \in DOMAIN toPage
          BY <1>5, <3>1, <4>1
        <5> QED BY <1>1, <3>2, <5>1 DEF QueueInv
      <4>2. CASE k # 1
        BY <4>2
      <4> QED BY <4>1, <4>2
    <3> QED BY <3>2, <3>3, <3>4 DEF Handles
  <2>4. ASSUME NEW i \in DOMAIN toPage'
        PROVE  /\ toPage'[i].type = "host_disconnected" => toPage'[i].h \in gone
               /\ toPage'[i].type \in {"terminal_added", "terminal_closed"} =>
                     toPage'[i].t \in DOMAIN ordered' /\ ordered'[toPage'[i].t] = toPage'[i].h
    <3>1. PICK j \in DOMAIN toPage : j = i + k
      BY <1>5
    <3>2. toPage'[i] = toPage[j]
      BY <1>5, <3>1
    <3>3. /\ toPage[j].type = "host_disconnected" => toPage[j].h \in gone
          /\ toPage[j].type \in {"terminal_added", "terminal_closed"} =>
                toPage[j].t \in DOMAIN ordered /\ ordered[toPage[j].t] = toPage[j].h
      BY <1>1 DEF QueueInv, Sent
    <3> QED BY <1>4, <3>2, <3>3
  <2>5. ASSUME NEW i \in DOMAIN toPage', toPage'[i].type = "terminal_added"
        PROVE  toPage'[i].t \notin Seen(r) \cup starting'
    <3>1. PICK j \in DOMAIN toPage : j = i + k
      BY <1>5
    <3>2. Sent(j, "terminal_added") /\ toPage[j].t = toPage'[i].t
      BY <1>5, <2>5, <3>1 DEF Sent
    <3>3. toPage[j].t \notin Seen(page) \cup starting /\ toPage[j].t \in 1 .. n
      BY <1>1, <1>3, <3>2 DEF QueueInv
    <3>4. toPage[j].t \notin starting' /\ toPage[j].t # NoTerminal
      BY <1>3, <1>4, <3>3 DEF NoTerminal
    <3>5. ~(k = 1 /\ Sent(1, "terminal_added") /\ toPage[1].t = toPage[j].t)
      <4>1. CASE k = 1
        <5>1. j # 1 /\ 1 \in DOMAIN toPage
          BY <1>5, <3>1, <4>1
        <5> QED BY <1>1, <3>2, <5>1 DEF QueueInv
      <4>2. CASE k # 1
        BY <4>2
      <4> QED BY <4>1, <4>2
    <3> QED BY <3>2, <3>3, <3>4, <3>5 DEF Handles
  <2>6. ASSUME NEW i \in DOMAIN toPage', toPage'[i].type = "terminal_closed"
        PROVE  toPage'[i].t \notin live' \cup starting'
    <3>1. PICK j \in DOMAIN toPage : j = i + k
      BY <1>5
    <3>2. Sent(j, "terminal_closed") /\ toPage[j].t = toPage'[i].t
      BY <1>5, <2>6, <3>1 DEF Sent
    <3>3. toPage[j].t \notin live \cup starting /\ toPage[j].t \in 1 .. n
      BY <1>1, <1>3, <3>2 DEF QueueInv
    <3> QED BY <1>3, <1>4, <3>2, <3>3
  <2>7. ASSUME NEW i \in DOMAIN toPage', NEW j \in DOMAIN toPage', i # j
        PROVE  /\ toPage'[i].type = "host_connected" /\ toPage'[j].type = "host_connected"
                     => toPage'[i].h # toPage'[j].h
               /\ toPage'[i].type = "terminal_added" /\ toPage'[j].type = "terminal_added"
                     => toPage'[i].t # toPage'[j].t
    <3>1. PICK x \in DOMAIN toPage : x = i + k /\ toPage'[i] = toPage[x]
      BY <1>5
    <3>2. PICK y \in DOMAIN toPage : y = j + k /\ toPage'[j] = toPage[y]
      BY <1>5
    <3>3. x # y
      BY <1>5, <2>7, <3>1, <3>2
    <3> QED BY <1>1, <3>1, <3>2, <3>3 DEF QueueInv, Sent
  <2> QED BY <1>4, <1>5, <2>1, <2>2, <2>3, <2>4, <2>5, <2>6, <2>7 DEF QueueInv, Sent
<1>8. HostsFirst'
  <2>1. ASSUME NEW h \in up, h \notin DOMAIN r.hosts
        PROVE  \E i \in DOMAIN toPage' : toPage'[i].type = "host_connected" /\ toPage'[i].h = h
    <3>1. h \notin gone
      BY <1>1 DEF ServerInv
    <3>2. h \notin DOMAIN page.hosts
      BY <2>1, <3>1 DEF Handles
    <3>3. PICK j \in DOMAIN toPage : Sent(j, "host_connected") /\ toPage[j].h = h
      BY <1>1, <3>2 DEF HostsFirst
    <3>4. ~(k = 1 /\ j = 1)
      BY <2>1, <3>3 DEF Handles
    <3>5. j > k /\ (j - k) + k = j
      BY <1>5, <3>4
    <3>6. j - k \in DOMAIN toPage' /\ toPage'[j - k] = toPage[j]
      BY <1>5, <3>5
    <3> QED BY <3>3, <3>6 DEF Sent
  <2>2. ASSUME NEW i \in DOMAIN toPage', toPage'[i].type = "terminal_added",
               toPage'[i].h \notin DOMAIN r.hosts \cup gone
        PROVE  \E j \in DOMAIN toPage' :
                  j < i /\ toPage'[j].type = "host_connected" /\ toPage'[j].h = toPage'[i].h
    <3>1. PICK x \in DOMAIN toPage : x = i + k /\ toPage'[i] = toPage[x]
      BY <1>5
    <3>2. Sent(x, "terminal_added") /\ toPage[x].h \notin DOMAIN page.hosts \cup gone
      BY <2>2, <3>1 DEF Handles, Sent
    <3>3. PICK y \in DOMAIN toPage :
             y < x /\ Sent(y, "host_connected") /\ toPage[y].h = toPage[x].h
      BY <1>1, <3>2 DEF HostsFirst
    <3>4. ~(k = 1 /\ y = 1)
      BY <2>2, <3>1, <3>3 DEF Handles
    <3>5. y > k /\ (y - k) + k = y /\ y - k < i
      BY <1>5, <3>1, <3>3, <3>4
    <3>6. y - k \in DOMAIN toPage' /\ toPage'[y - k] = toPage[y]
      BY <1>5, <3>5
    <3> QED BY <3>1, <3>3, <3>5, <3>6 DEF Sent
  <2>3. \A h \in up' : linked' => \/ h \in DOMAIN page'.hosts
                                  \/ \E i \in DOMAIN toPage' :
                                        toPage'[i].type = "host_connected" /\ toPage'[i].h = h
    BY <1>4, <2>1
  <2>4. \A i \in DOMAIN toPage' : toPage'[i].type = "terminal_added" =>
           \/ toPage'[i].h \in DOMAIN page'.hosts \cup gone'
           \/ \E j \in DOMAIN toPage' :
                 j < i /\ toPage'[j].type = "host_connected" /\ toPage'[j].h = toPage'[i].h
    BY <1>4, <2>2
  <2> QED BY <2>3, <2>4 DEF HostsFirst, Sent
<1>9. FreshInv'
  <2>1. ASSUME NEW t \in Seen(r) PROVE t \notin starting' /\ t \in 0 .. Len(ordered')
    <3>1. t \in Seen(page) \/ t = 0 \/ (t \in 1 .. n /\ t \notin starting)
      <4>1. CASE k = 1 /\ Sent(1, "terminal_added") /\ toPage[1].t = t
        <5>1. 1 \in DOMAIN toPage
          BY <4>1 DEF Sent
        <5>2. t \in DOMAIN ordered /\ t \notin starting
          BY <1>1, <4>1, <5>1 DEF QueueInv
        <5> QED BY <1>3, <5>2
      <4>2. CASE ~(k = 1 /\ Sent(1, "terminal_added") /\ toPage[1].t = t)
        BY <2>1, <4>2 DEF Handles, NoTerminal
      <4> QED BY <4>1, <4>2
    <3>2. t \in 0 .. n /\ t \notin starting
      <4>1. CASE t \in Seen(page)
        BY <1>1, <1>2, <4>1 DEF FreshInv
      <4>2. CASE t = 0
        BY <1>1, <1>3, <4>2 DEF ServerInv
      <4>3. CASE t \in 1 .. n /\ t \notin starting
        BY <1>3, <4>3
      <4> QED BY <3>1, <4>1, <4>2, <4>3
    <3>3. t \notin starting'
      BY <1>3, <1>4, <3>2
    <3> QED BY <1>3, <1>4, <3>2, <3>3
  <2> QED BY <1>4, <2>1 DEF FreshInv
<1>10. LinkInv' /\ linked' \in BOOLEAN
  BY DEF LinkInv
<1> QED BY <1>4, <1>7, <1>8, <1>9, <1>10 DEF WebPageInv
-----------------------------------------------------------------------------
\* The buttons of connected hosts that a step keeps.
Keeps(r, lost) ==
    \A h \in DOMAIN page.hosts \ gone :
        h \in DOMAIN r.hosts /\ Shown(page.hosts[h]) \ lost \subseteq Shown(r.hosts[h])

LEMMA EffectKeeps ==
    ASSUME NEW r, NEW X, NEW lost, Effect(page, r, X, lost)
    PROVE  Keeps(r, lost)
  BY DEF Effect, Keeps

LEMMA Clicked ==
    ASSUME QueueInv, UNCHANGED toPage, NEW r, NEW lost, Effect(page, r, {NoTerminal}, lost)
    PROVE  Sound(r) /\ Handles(0, r) /\ Keeps(r, lost)
<1>1. toPage' \in Seq(Message) /\ toPage' = toPage
  BY DEF QueueInv
<1>2. /\ \A i \in DOMAIN toPage' : i + 0 \in DOMAIN toPage /\ toPage'[i] = toPage[i + 0]
      /\ \A i \in DOMAIN toPage : i > 0 => i - 0 \in DOMAIN toPage'
  BY <1>1
<1>3. DOMAIN r.hosts = DOMAIN page.hosts /\ Seen(r) \subseteq Seen(page) \cup {NoTerminal}
      /\ Sound(r)
  BY DEF Effect
<1> QED BY <1>1, <1>2, <1>3, EffectKeeps DEF Handles

LEMMA UserStep ==
    ASSUME WebPageInv, User
    PROVE  /\ linked /\ UNCHANGED <<linked, up, gone, toPage>>
           /\ \E r, lost :
                 /\ Sound(r) /\ Handle(r) /\ Handles(0, r) /\ Keeps(r, lost)
                 /\ \A t \in lost : [type |-> "terminal_del", t |-> t] \in r.out \/ Stuck(page)
<1>1. Sound(page) /\ page.ok /\ QueueInv
  BY DEF WebPageInv
<1>2. PICK h \in DOMAIN page.hosts :
         \/ HostClicked(h)
         \/ \E t \in Buttons(h) : TermBtSelectClicked(h, t)
         \/ \E t \in Buttons(h) : TermBtCloseClicked(h, t)
         \/ TermBtAddClicked(h)
  BY DEF User
<1>3. \A t \in Buttons(h) : t \in Shown(page.hosts[h])
  BY DEF Buttons, Shown
<1>4. CASE HostClicked(h)
  <2>1. PICK r : r = onHostSelected(page, h)
    OBVIOUS
  <2>2. linked /\ UNCHANGED <<linked, up, gone, toPage>> /\ Handle(r)
    BY <1>4, <2>1 DEF HostClicked, Click
  <2>3. Effect(page, r, {NoTerminal}, {})
    BY <1>1, <2>1, HostSelected
  <2>4. Sound(r) /\ Handles(0, r) /\ Keeps(r, {})
    BY <1>1, <2>2, <2>3, Clicked
  <2> QED BY <2>2, <2>4
<1>5. CASE \E t \in Buttons(h) : TermBtSelectClicked(h, t)
  <2>1. PICK t \in Shown(page.hosts[h]) : TermBtSelectClicked(h, t)
    BY <1>3, <1>5
  <2>2. PICK r : r = selectTermBt(page, h, t)
    OBVIOUS
  <2>3. linked /\ UNCHANGED <<linked, up, gone, toPage>> /\ Handle(r)
    BY <2>1, <2>2 DEF TermBtSelectClicked, Click
  <2>4. Effect(page, r, {NoTerminal}, {})
    BY <1>1, <2>2, TermBtSelected
  <2>5. Sound(r) /\ Handles(0, r) /\ Keeps(r, {})
    BY <1>1, <2>3, <2>4, Clicked
  <2> QED BY <2>3, <2>5
<1>6. CASE \E t \in Buttons(h) : TermBtCloseClicked(h, t)
  <2>1. PICK t \in Shown(page.hosts[h]) : TermBtCloseClicked(h, t)
    BY <1>3, <1>6
  <2>2. PICK r : r = onTermBtCloseClicked(page, h, t)
    OBVIOUS
  <2>3. linked /\ UNCHANGED <<linked, up, gone, toPage>> /\ Handle(r)
    BY <2>1, <2>2 DEF TermBtCloseClicked, Click
  <2>4. Effect(page, r, {NoTerminal}, {t})
        /\ ([type |-> "terminal_del", t |-> t] \in r.out \/ Stuck(page))
    BY <1>1, <2>2, TermBtClosed
  <2>5. Sound(r) /\ Handles(0, r) /\ Keeps(r, {t})
    BY <1>1, <2>3, <2>4, Clicked
  <2> QED BY <2>3, <2>4, <2>5
<1>7. CASE TermBtAddClicked(h)
  <2>1. PICK r : r = onTermBtAddClicked(page, h)
    OBVIOUS
  <2>2. linked /\ UNCHANGED <<linked, up, gone, toPage>> /\ Handle(r)
    BY <1>7, <2>1 DEF TermBtAddClicked, Click
  <2>3. Effect(page, r, {NoTerminal}, {})
    BY <1>1, <1>7, <2>1, TermBtAdd DEF TermBtAddClicked
  <2>4. Sound(r) /\ Handles(0, r) /\ Keeps(r, {})
    BY <1>1, <2>2, <2>3, Clicked
  <2> QED BY <2>2, <2>4
<1> QED BY <1>2, <1>4, <1>5, <1>6, <1>7

\* The messages of the server.
LEMMA MessageStep ==
    ASSUME WebPageInv, onWsMessage
    PROVE  LET m == toPage[1]
               r == onMessage(page, m)
           IN  /\ linked /\ UNCHANGED <<linked, up, gone>>
               /\ Sound(r) /\ Handle(r) /\ Handles(1, r)
               /\ 1 \in DOMAIN toPage
               /\ Keeps(r, {t \in {m.t} : m.type = "terminal_closed"})
               /\ m.type = "terminal_added" /\ m.h \in DOMAIN page.hosts =>
                     m.t \in Shown(r.hosts[m.h])
<1>1. /\ Sound(page) /\ page.ok /\ QueueInv /\ ServerInv /\ toPage \in Seq(Message)
      /\ toPage # <<>> /\ linked
  BY DEF WebPageInv, QueueInv, LinkInv, onWsMessage
<1>2. PICK m \in Message : m = toPage[1] /\ m = Head(toPage)
  BY <1>1
<1>3. PICK r : r = onMessage(page, m)
  OBVIOUS
<1>4. UNCHANGED <<linked, up, gone>> /\ Handle(r) /\ toPage' = Tail(toPage)
  BY <1>2, <1>3 DEF onWsMessage
<1>5. 1 \in DOMAIN toPage
  BY <1>1
<1>6. /\ toPage' \in Seq(Message)
      /\ \A i \in DOMAIN toPage' : i + 1 \in DOMAIN toPage /\ toPage'[i] = toPage[i + 1]
      /\ \A i \in DOMAIN toPage : i > 1 => i - 1 \in DOMAIN toPage'
  BY <1>1, <1>4
<1>7. /\ m.h \in Hosts
      /\ m.type \in {"host_connected", "host_disconnected", "terminal_added", "terminal_closed"}
      /\ m.type \in {"terminal_added", "terminal_closed"} => m.t \in TerminalId
  BY MessageFields
<1>8. /\ m.type = "host_connected" => m.h \notin DOMAIN page.hosts
      /\ m.type = "host_disconnected" => m.h \in gone
      /\ m.type \in {"terminal_added", "terminal_closed"} =>
            m.t \in DOMAIN ordered /\ ordered[m.t] = m.h
      /\ m.type = "terminal_added" => m.t \notin Seen(page)
  BY <1>1, <1>2, <1>5 DEF QueueInv, Sent
<1>9. CASE m.type = "host_connected"
  <2>1. r = onHostConnected(page, m.h)
    BY <1>3, <1>9 DEF onMessage
  <2>2. /\ Sound(r) /\ Seen(r) \subseteq Seen(page) \cup {NoTerminal}
        /\ DOMAIN r.hosts = DOMAIN page.hosts \cup {m.h}
        /\ \A g \in DOMAIN page.hosts : r.hosts[g] = page.hosts[g]
    BY <1>1, <1>7, <1>8, <1>9, <2>1, HostAdded
  <2>3. Handles(1, r)
    BY <1>2, <1>5, <1>6, <1>9, <2>2 DEF Handles, Sent
  <2>4. Keeps(r, {t \in {m.t} : m.type = "terminal_closed"})
    BY <2>2 DEF Keeps
  <2> QED BY <1>1, <1>2, <1>3, <1>4, <1>5, <1>9, <2>2, <2>3, <2>4
<1>10. CASE m.type = "host_disconnected"
  <2>1. r = onHostDisconnected(page, m.h)
    BY <1>3, <1>10 DEF onMessage
  <2>2. /\ Sound(r) /\ Seen(r) \subseteq Seen(page)
        /\ DOMAIN r.hosts = DOMAIN page.hosts \ {m.h}
        /\ \A g \in DOMAIN page.hosts \ {m.h} : r.hosts[g] = page.hosts[g]
    BY <1>1, <1>7, <2>1, HostRemoved
  <2>3. Handles(1, r)
    BY <1>2, <1>5, <1>6, <1>8, <1>10, <2>2 DEF Handles, Sent
  <2>4. Keeps(r, {t \in {m.t} : m.type = "terminal_closed"})
    BY <1>8, <1>10, <2>2 DEF Keeps
  <2> QED BY <1>1, <1>2, <1>3, <1>4, <1>5, <1>10, <2>2, <2>3, <2>4
<1>11. CASE m.type = "terminal_added"
  <2>1. r = onTerminalAdded(page, m.h, m.t)
    BY <1>3, <1>11 DEF onMessage
  <2>2. PICK t \in TerminalId : t = m.t /\ t \in DOMAIN ordered /\ ordered[t] = m.h
                                /\ t \notin Seen(page)
    BY <1>7, <1>8, <1>11
  <2>3. /\ Effect(page, r, {NoTerminal, t}, {})
        /\ m.h \in DOMAIN page.hosts => t \in Shown(r.hosts[m.h])
    BY <1>1, <2>1, <2>2, TerminalAdded
  <2>4. Sound(r) /\ DOMAIN r.hosts = DOMAIN page.hosts
        /\ Seen(r) \subseteq Seen(page) \cup {NoTerminal, t}
    BY <2>3 DEF Effect
  <2>5. Handles(1, r)
    BY <1>2, <1>5, <1>6, <1>11, <2>2, <2>4 DEF Handles, Sent
  <2>6. Keeps(r, {u \in {m.t} : m.type = "terminal_closed"})
    <3>1. Keeps(r, {})
      BY <2>3, EffectKeeps
    <3> QED BY <3>1 DEF Keeps
  <2> QED BY <1>1, <1>2, <1>3, <1>4, <1>5, <1>11, <2>2, <2>3, <2>4, <2>5, <2>6
<1>12. CASE m.type = "terminal_closed"
  <2>1. r = onTerminalClosed(page, m.h, m.t)
    BY <1>3, <1>12 DEF onMessage
  <2>2. PICK t \in TerminalId : t = m.t /\ t \in DOMAIN ordered /\ ordered[t] = m.h
    BY <1>7, <1>8, <1>12
  <2>3. Effect(page, r, {NoTerminal}, {t})
    BY <1>1, <2>1, <2>2, TerminalClosed
  <2>4. Sound(r) /\ DOMAIN r.hosts = DOMAIN page.hosts
        /\ Seen(r) \subseteq Seen(page) \cup {NoTerminal}
    BY <2>3 DEF Effect
  <2>5. Handles(1, r)
    BY <1>2, <1>5, <1>6, <1>12, <2>4 DEF Handles, Sent
  <2>6. Keeps(r, {u \in {m.t} : m.type = "terminal_closed"})
    <3>1. Keeps(r, {t})
      BY <2>3, EffectKeeps
    <3> QED BY <1>12, <2>2, <3>1 DEF Keeps
  <2> QED BY <1>1, <1>2, <1>3, <1>4, <1>5, <1>12, <2>4, <2>5, <2>6
<1> QED BY <1>7, <1>9, <1>10, <1>11, <1>12
-----------------------------------------------------------------------------
\* Steps of the server leave the page alone.
LEMMA PageStays ==
    ASSUME WebPageInv, UNCHANGED <<page, ordered>>
    PROVE  /\ Sound(page)' /\ page'.out = {} /\ page'.ok
           /\ Seen(page)' = Seen(page)
<1>1. page' = page /\ ordered' = ordered
  OBVIOUS
<1>2. Sound(page)' = Sound(page)
  BY <1>1 DEF Sound, ButtonsOf, Displayed
<1> QED BY <1>1, <1>2 DEF WebPageInv, Seen

\* A message that is added to the others, or, to a page without a session, not sent.
Adds(m) == toPage' = Append(toPage, m)

LEMMA Added ==
    ASSUME QueueInv, NEW m \in Message, Adds(m)
    PROVE  /\ toPage' \in Seq(Message)
           /\ Len(toPage) + 1 \in DOMAIN toPage' /\ toPage'[Len(toPage) + 1] = m
           /\ \A i \in DOMAIN toPage :
                 i \in DOMAIN toPage' /\ toPage'[i] = toPage[i] /\ i < Len(toPage) + 1
           /\ \A i \in DOMAIN toPage' : i \in DOMAIN toPage \/ i = Len(toPage) + 1
<1>1. toPage \in Seq(Message) /\ Len(toPage) \in Nat
  BY DEF QueueInv
<1> QED BY <1>1 DEF Adds

\* A message keeps the queue in order when it fits what the server does.
LEMMA QueueGrows ==
    ASSUME ServerInv, QueueInv, HostsFirst, NEW m \in Message, Adds(m),
           UNCHANGED <<page, linked, ordered>>, linked,
           \A h \in up : h \in up' \cup gone', gone \subseteq gone', ServerInv',
           \A t \in DOMAIN ordered :
              t \notin live \cup starting => t \notin live' \cup starting',
           starting' \subseteq starting,
           m.h \in up' \cup gone',
           \A h \in up' : h \in up \/ (m.type = "host_connected" /\ m.h = h),
           m.type = "host_connected" => m.h \notin up \cup gone,
           m.type = "host_disconnected" => m.h \in gone',
           m.type \in {"terminal_added", "terminal_closed"} =>
              m.t \in DOMAIN ordered /\ ordered[m.t] = m.h,
           m.type = "terminal_added" =>
              /\ m.t \notin Seen(page) \cup starting' /\ m.h \in up
              /\ \A i \in DOMAIN toPage : Sent(i, "terminal_added") => toPage[i].t # m.t,
           m.type = "terminal_closed" => m.t \notin live' \cup starting'
    PROVE  QueueInv' /\ HostsFirst'
<1>1. PICK n : n = Len(toPage) + 1
  OBVIOUS
<1>2. /\ toPage' \in Seq(Message)
      /\ n \in DOMAIN toPage' /\ toPage'[n] = m /\ n \notin DOMAIN toPage
      /\ \A i \in DOMAIN toPage : i \in DOMAIN toPage' /\ toPage'[i] = toPage[i] /\ i < n
      /\ \A i \in DOMAIN toPage' : i \in DOMAIN toPage \/ i = n
  BY <1>1, Added DEF QueueInv
<1>3. Seen(page)' = Seen(page) /\ page' = page /\ ordered' = ordered
  BY DEF Seen
<1>4. ASSUME NEW h \in up \cup gone PROVE h \in up' \cup gone'
  OBVIOUS
<1>5. \A h \in DOMAIN page.hosts : h \in up \cup gone
  BY DEF QueueInv
<1>6. ASSUME NEW i \in DOMAIN toPage'
      PROVE  /\ toPage'[i].h \in up' \cup gone'
             /\ toPage'[i].type = "host_connected" => toPage'[i].h \notin DOMAIN page.hosts
             /\ toPage'[i].type = "host_disconnected" => toPage'[i].h \in gone'
             /\ toPage'[i].type \in {"terminal_added", "terminal_closed"} =>
                   toPage'[i].t \in DOMAIN ordered /\ ordered[toPage'[i].t] = toPage'[i].h
             /\ toPage'[i].type = "terminal_added" =>
                   toPage'[i].t \notin Seen(page) \cup starting'
             /\ toPage'[i].type = "terminal_closed" => toPage'[i].t \notin live' \cup starting'
  <2>1. CASE i = n
    BY <1>2, <1>5, <2>1
  <2>2. CASE i # n
    <3>1. i \in DOMAIN toPage /\ toPage'[i] = toPage[i]
      BY <1>2, <2>2
    <3>2. /\ toPage[i].h \in up \cup gone
          /\ toPage[i].type = "host_connected" => toPage[i].h \notin DOMAIN page.hosts
          /\ toPage[i].type = "host_disconnected" => toPage[i].h \in gone
          /\ toPage[i].type \in {"terminal_added", "terminal_closed"} =>
                toPage[i].t \in DOMAIN ordered /\ ordered[toPage[i].t] = toPage[i].h
          /\ toPage[i].type = "terminal_added" => toPage[i].t \notin Seen(page) \cup starting
          /\ toPage[i].type = "terminal_closed" => toPage[i].t \notin live \cup starting
      BY <3>1 DEF QueueInv, Sent
    <3> QED BY <1>4, <3>1, <3>2
  <2> QED BY <2>1, <2>2
<1>7. ASSUME NEW i \in DOMAIN toPage', NEW j \in DOMAIN toPage', i # j
      PROVE  /\ toPage'[i].type = "host_connected" /\ toPage'[j].type = "host_connected"
                   => toPage'[i].h # toPage'[j].h
             /\ toPage'[i].type = "terminal_added" /\ toPage'[j].type = "terminal_added"
                   => toPage'[i].t # toPage'[j].t
  <2>1. CASE i # n /\ j # n
    <3>1. i \in DOMAIN toPage /\ j \in DOMAIN toPage
          /\ toPage'[i] = toPage[i] /\ toPage'[j] = toPage[j]
      BY <1>2, <2>1
    <3> QED BY <1>7, <3>1 DEF QueueInv, Sent
  <2>2. ASSUME NEW x \in DOMAIN toPage
        PROVE  /\ toPage[x].type = "host_connected" /\ m.type = "host_connected"
                     => toPage[x].h # m.h
               /\ toPage[x].type = "terminal_added" /\ m.type = "terminal_added"
                     => toPage[x].t # m.t
    BY DEF QueueInv, Sent
  <2>3. CASE i = n
    <3>1. j \in DOMAIN toPage /\ toPage'[j] = toPage[j] /\ toPage'[i] = m
      BY <1>2, <1>7, <2>3
    <3> QED BY <2>2, <3>1
  <2>4. CASE j = n
    <3>1. i \in DOMAIN toPage /\ toPage'[i] = toPage[i] /\ toPage'[j] = m
      BY <1>2, <1>7, <2>4
    <3> QED BY <2>2, <3>1
  <2> QED BY <2>1, <2>3, <2>4
<1>8. QueueInv'
  <2>1. \A h \in DOMAIN page.hosts : h \in up' \cup gone'
    BY <1>4, <1>5
  <2> QED BY <1>2, <1>3, <1>6, <1>7, <2>1 DEF QueueInv, Sent
<1>9. ASSUME NEW h \in up', h \notin DOMAIN page.hosts
      PROVE  \E i \in DOMAIN toPage' : toPage'[i].type = "host_connected" /\ toPage'[i].h = h
  <2>1. CASE h \in up
    <3>1. PICK i \in DOMAIN toPage : Sent(i, "host_connected") /\ toPage[i].h = h
      BY <1>9, <2>1 DEF HostsFirst
    <3> QED BY <1>2, <3>1 DEF Sent
  <2>2. CASE h \notin up
    BY <1>2, <2>2
  <2> QED BY <2>1, <2>2
<1>10. ASSUME NEW i \in DOMAIN toPage', toPage'[i].type = "terminal_added",
              toPage'[i].h \notin DOMAIN page.hosts \cup gone'
       PROVE  \E j \in DOMAIN toPage' :
                 j < i /\ toPage'[j].type = "host_connected" /\ toPage'[j].h = toPage'[i].h
  <2>1. CASE i = n
    <3>1. m.type = "terminal_added" /\ m.h \in up /\ m.h \notin DOMAIN page.hosts
      BY <1>2, <1>10, <2>1
    <3>2. PICK j \in DOMAIN toPage : Sent(j, "host_connected") /\ toPage[j].h = m.h
      BY <3>1 DEF HostsFirst
    <3> QED BY <1>2, <2>1, <3>2 DEF Sent
  <2>2. CASE i # n
    <3>1. i \in DOMAIN toPage /\ toPage'[i] = toPage[i]
      BY <1>2, <2>2
    <3>2. PICK j \in DOMAIN toPage :
             j < i /\ Sent(j, "host_connected") /\ toPage[j].h = toPage[i].h
      BY <1>10, <3>1 DEF HostsFirst, Sent
    <3> QED BY <1>2, <3>1, <3>2 DEF Sent
  <2> QED BY <2>1, <2>2
<1>11. HostsFirst'
  <2>1. \A h \in up' : linked' => \/ h \in DOMAIN page'.hosts
                                  \/ \E i \in DOMAIN toPage' :
                                        toPage'[i].type = "host_connected" /\ toPage'[i].h = h
    BY <1>3, <1>9
  <2>2. \A i \in DOMAIN toPage' : toPage'[i].type = "terminal_added" =>
           \/ toPage'[i].h \in DOMAIN page'.hosts \cup gone'
           \/ \E j \in DOMAIN toPage' :
                 j < i /\ toPage'[j].type = "host_connected" /\ toPage'[j].h = toPage'[i].h
    BY <1>3, <1>10
  <2> QED BY <2>1, <2>2 DEF HostsFirst, Sent
<1> QED BY <1>8, <1>11

\* A step of the server that sends nothing, and one that sends m.
LEMMA ServerStep ==
    ASSUME WebPageInv, UNCHANGED <<page, linked, ordered>>, ServerInv',
           starting' \subseteq starting,
           ~linked => UNCHANGED toPage /\ starting' = {} /\ live' = {},
           linked => QueueInv' /\ HostsFirst',
           \A h \in up \cup gone : h \in up' \cup gone'
    PROVE  WebPageInv'
<1>1. /\ Sound(page)' /\ page'.out = {} /\ page'.ok /\ Seen(page)' = Seen(page)
      /\ page' = page /\ ordered' = ordered /\ linked' = linked
  BY PageStays
<1>2. linked \in BOOLEAN /\ QueueInv /\ LinkInv /\ FreshInv
  BY DEF WebPageInv
<1>3. FreshInv'
  BY <1>1, <1>2 DEF FreshInv
<1>4. CASE linked
  BY <1>1, <1>2, <1>3, <1>4 DEF WebPageInv, LinkInv
<1>5. CASE ~linked
  <2>1. toPage' = <<>> /\ DOMAIN page'.hosts = {} /\ DOMAIN toPage' = {}
        /\ starting' = {} /\ live' = {}
    BY <1>1, <1>2, <1>5 DEF LinkInv
  <2>2. toPage' \in Seq(Message)
    BY <2>1
  <2>3. QueueInv'
    BY <2>1, <2>2 DEF QueueInv
  <2>4. HostsFirst'
    BY <1>1, <1>5, <2>1 DEF HostsFirst
  <2>5. LinkInv'
    BY <2>1 DEF LinkInv
  <2> QED BY <1>1, <1>2, <1>3, <2>3, <2>4, <2>5 DEF WebPageInv
<1> QED BY <1>2, <1>4, <1>5

LEMMA SentByServer ==
    /\ \A h \in Hosts : /\ [type |-> "host_connected", h |-> h] \in Message
                        /\ [type |-> "host_disconnected", h |-> h] \in Message
    /\ \A h \in Hosts, t \in TerminalId :
          /\ [type |-> "terminal_added", h |-> h, t |-> t] \in Message
          /\ [type |-> "terminal_closed", h |-> h, t |-> t] \in Message
  BY DEF Message

LEMMA HostConnectsStep ==
    ASSUME WebPageInv, NEW h \in Hosts, HostConnects(h)
    PROVE  WebPageInv'
<1>1. ServerInv /\ QueueInv /\ HostsFirst /\ LinkInv
  BY DEF WebPageInv
<1>2. /\ h \notin up /\ h \notin gone /\ up' = up \cup {h} /\ gone' = gone
      /\ UNCHANGED <<page, linked, ordered, starting, live>>
  BY DEF HostConnects
<1>3. ServerInv'
  <2>1. IsFiniteSet(up')
    BY <1>1, <1>2, FS_AddElement DEF ServerInv
  <2> QED BY <1>1, <1>2, <2>1 DEF ServerInv
<1>4. PICK m \in Message : m = [type |-> "host_connected", h |-> h]
  BY SentByServer
<1>5. CASE linked
  <2>1. Adds(m)
    BY <1>4, <1>5 DEF HostConnects, Tell, Adds
  <2>2. m.type = "host_connected" /\ m.h = h
    BY <1>4
  <2>3. QueueInv' /\ HostsFirst'
    BY <1>1, <1>2, <1>3, <1>5, <2>1, <2>2, QueueGrows
  <2> QED BY <1>2, <1>3, <1>5, <2>3, ServerStep
<1>6. CASE ~linked
  <2>1. UNCHANGED toPage /\ starting' = {} /\ live' = {}
    BY <1>1, <1>2, <1>6 DEF HostConnects, LinkInv
  <2> QED BY <1>2, <1>3, <1>6, <2>1, ServerStep
<1> QED BY <1>5, <1>6

LEMMA HostLostStep ==
    ASSUME WebPageInv, NEW h \in Hosts, HostLost(h)
    PROVE  WebPageInv'
<1>1. ServerInv /\ QueueInv /\ HostsFirst /\ LinkInv
  BY DEF WebPageInv
<1>2. /\ h \in up /\ up' = up \ {h} /\ gone' = gone \cup {h}
      /\ starting' = starting \ Of(h, starting) /\ live' = live \ Of(h, live)
      /\ UNCHANGED <<page, linked, ordered>>
  BY DEF HostLost
<1>3. ServerInv'
  <2>1. IsFiniteSet(up')
    BY <1>1, <1>2, FS_RemoveElement DEF ServerInv
  <2>2. \A t \in starting' \cup live' : ordered[t] \in up'
    BY <1>1, <1>2 DEF ServerInv, Of
  <2> QED BY <1>1, <1>2, <2>1, <2>2 DEF ServerInv
<1>4. PICK m \in Message : m = [type |-> "host_disconnected", h |-> h]
  BY SentByServer
<1>5. CASE linked
  <2>1. Adds(m)
    BY <1>4, <1>5 DEF HostLost, Tell, Adds
  <2>2. m.type = "host_disconnected" /\ m.h = h
    BY <1>4
  <2>3. /\ starting' \subseteq starting /\ live' \subseteq live
        /\ h \in gone' /\ gone \subseteq gone' /\ (\A g \in up' : g \in up)
        /\ \A g \in up : g \in up' \cup gone'
    BY <1>2
  <2>4. QueueInv' /\ HostsFirst'
    BY <1>1, <1>2, <1>3, <1>5, <2>1, <2>2, <2>3, QueueGrows
  <2> QED BY <1>2, <1>3, <1>5, <2>4, ServerStep
<1>6. CASE ~linked
  <2>1. UNCHANGED toPage /\ starting' = {} /\ live' = {}
    BY <1>1, <1>2, <1>6 DEF HostLost, LinkInv
  <2> QED BY <1>2, <1>3, <1>6, <2>1, ServerStep
<1> QED BY <1>5, <1>6

LEMMA TerminalCreatedStep ==
    ASSUME WebPageInv, NEW t \in starting, TerminalCreated(t)
    PROVE  WebPageInv' /\ Adds([type |-> "terminal_added", h |-> ordered[t], t |-> t])
<1>1. ServerInv /\ QueueInv /\ HostsFirst /\ LinkInv /\ FreshInv /\ linked
  BY DEF WebPageInv, LinkInv
<1>2. /\ starting' = starting \ {t} /\ live' = live \cup {t}
      /\ UNCHANGED <<page, linked, ordered, up, gone>>
  BY DEF TerminalCreated
<1>3. t \in TerminalId /\ ordered[t] \in Hosts /\ ordered[t] \in up /\ t \in DOMAIN ordered
  BY <1>1 DEF ServerInv, TerminalId
<1>4. PICK m \in Message : m = [type |-> "terminal_added", h |-> ordered[t], t |-> t]
  BY <1>3, SentByServer
<1>5. m.type = "terminal_added" /\ m.h = ordered[t] /\ m.t = t
  BY <1>4
<1>6. Adds(m)
  BY <1>4 DEF TerminalCreated, Tell, Adds
<1>7. ServerInv'
  BY <1>1, <1>2 DEF ServerInv
<1>8. /\ m.t \notin Seen(page) \cup starting'
      /\ \A i \in DOMAIN toPage : Sent(i, "terminal_added") => toPage[i].t # m.t
  BY <1>1, <1>2, <1>5 DEF FreshInv, QueueInv
<1>9. \A u \in DOMAIN ordered : u \notin live \cup starting => u \notin live' \cup starting'
  BY <1>2
<1>10. QueueInv' /\ HostsFirst'
  BY <1>1, <1>2, <1>3, <1>5, <1>6, <1>7, <1>8, <1>9, QueueGrows
<1>11. WebPageInv'
  BY <1>1, <1>2, <1>7, <1>10, ServerStep
<1> QED BY <1>4, <1>6, <1>11

LEMMA ShellEndsStep ==
    ASSUME WebPageInv, NEW t \in live, ShellEnds(t)
    PROVE  WebPageInv'
<1>1. ServerInv /\ QueueInv /\ HostsFirst /\ LinkInv /\ FreshInv /\ linked
  BY DEF WebPageInv, LinkInv
<1>2. /\ live' = live \ {t} /\ UNCHANGED <<page, linked, ordered, up, gone, starting>>
  BY DEF ShellEnds
<1>3. t \in TerminalId /\ ordered[t] \in Hosts /\ ordered[t] \in up /\ t \in DOMAIN ordered
      /\ t \notin starting
  BY <1>1 DEF ServerInv, TerminalId
<1>4. PICK m \in Message : m = [type |-> "terminal_closed", h |-> ordered[t], t |-> t]
  BY <1>3, SentByServer
<1>5. m.type = "terminal_closed" /\ m.h = ordered[t] /\ m.t = t
  BY <1>4
<1>6. Adds(m)
  BY <1>4 DEF ShellEnds, Tell, Adds
<1>7. ServerInv'
  BY <1>1, <1>2 DEF ServerInv
<1>8. m.t \notin live' \cup starting'
  BY <1>2, <1>3, <1>5
<1>9. QueueInv' /\ HostsFirst'
  BY <1>1, <1>2, <1>3, <1>5, <1>6, <1>7, <1>8, QueueGrows
<1> QED BY <1>1, <1>2, <1>7, <1>9, ServerStep

LEMMA ConnectedStep ==
    ASSUME WebPageInv, Connected
    PROVE  WebPageInv'
<1>1. ServerInv /\ LinkInv /\ FreshInv /\ ~linked
  BY DEF WebPageInv, Connected
<1>2. linked' = TRUE /\ UNCHANGED <<page, up, gone, ordered, starting, live>>
  BY DEF Connected, serverVars
<1>3. /\ Sound(page)' /\ page'.out = {} /\ page'.ok /\ Seen(page)' = Seen(page)
      /\ page' = page /\ ordered' = ordered
  BY <1>2, PageStays
<1>4. ServerInv' /\ FreshInv'
  BY <1>1, <1>2, <1>3 DEF ServerInv, FreshInv
<1>5. PICK order \in SetToSeqs(up) :
         toPage' = [i \in DOMAIN order |-> [type |-> "host_connected", h |-> order[i]]]
  BY DEF Connected
<1>6. /\ order \in Seq(up)
      /\ \A i, j \in DOMAIN order : order[i] = order[j] => i = j
      /\ \A h \in up : \E i \in DOMAIN order : order[i] = h
  BY <1>1, <1>5, AllInOrder DEF ServerInv
<1>7. \A i \in DOMAIN order : order[i] \in up
  BY <1>6
<1>8. /\ DOMAIN toPage' = DOMAIN order
      /\ \A i \in DOMAIN order : toPage'[i].type = "host_connected" /\ toPage'[i].h = order[i]
  BY <1>5
<1>9. toPage' \in Seq(Message)
  <2>1. \A i \in DOMAIN order : [type |-> "host_connected", h |-> order[i]] \in Message
    BY <1>1, <1>7, SentByServer DEF ServerInv
  <2> QED BY <1>5, <1>6, <2>1
<1>10. DOMAIN page.hosts = {}
  BY <1>1 DEF LinkInv
<1>11. QueueInv'
  BY <1>2, <1>3, <1>6, <1>7, <1>8, <1>9, <1>10 DEF QueueInv, Sent
<1>12. HostsFirst'
  <2>1. \A h \in up : \E i \in DOMAIN toPage' :
           toPage'[i].type = "host_connected" /\ toPage'[i].h = h
    BY <1>6, <1>8
  <2> QED BY <1>2, <1>8, <2>1 DEF HostsFirst, Sent
<1>13. LinkInv'
  BY <1>2 DEF LinkInv
<1> QED BY <1>2, <1>3, <1>4, <1>11, <1>12, <1>13 DEF WebPageInv

LEMMA DisconnectedStep ==
    ASSUME WebPageInv, onDisconnected
    PROVE  WebPageInv'
<1>1. ServerInv /\ Sound(page) /\ page.out = {} /\ page.ok
  BY DEF WebPageInv
<1>2. PICK r : r = clear(page)
  OBVIOUS
<1>3. /\ Sound(r) /\ DOMAIN r.hosts = {} /\ Seen(r) \subseteq {NoTerminal}
      /\ r.out = {} /\ r.ok
  BY <1>1, <1>2, Cleared
<1>4. /\ page' = r /\ linked' = FALSE /\ toPage' = <<>> /\ starting' = {} /\ live' = {}
      /\ UNCHANGED <<up, gone, ordered>>
  BY <1>2 DEF onDisconnected
<1>5. Sound(page)' /\ Seen(page)' = Seen(r)
  <2>1. /\ r \in Page /\ IsFiniteSet(DOMAIN r.hosts) /\ Displayed(r)
        /\ (r.currentHost # NoHost => r.currentHost \in DOMAIN r.hosts)
        /\ (r.info => DOMAIN r.hosts = {})
    BY <1>3 DEF Sound
  <2>2. Sound(page)'
    BY <1>3, <1>4, <2>1 DEF Sound, Displayed
  <2>3. Seen(page)' = Seen(r)
    BY <1>4 DEF Seen
  <2> QED BY <2>2, <2>3
<1>6. ServerInv'
  BY <1>1, <1>4 DEF ServerInv
<1>7. DOMAIN toPage' = {} /\ toPage' \in Seq(Message)
  BY <1>4
<1>8. QueueInv' /\ LinkInv'
  BY <1>3, <1>4, <1>7 DEF QueueInv, LinkInv
<1>9. HostsFirst'
  BY <1>4, <1>7 DEF HostsFirst
<1>10. FreshInv'
  <2>1. Len(ordered) \in Nat
    BY <1>1 DEF ServerInv
  <2>2. NoTerminal \in 0 .. Len(ordered)
    BY <2>1 DEF NoTerminal
  <2> QED BY <1>3, <1>4, <1>5, <2>2 DEF FreshInv
<1> QED BY <1>3, <1>4, <1>5, <1>6, <1>8, <1>9, <1>10 DEF WebPageInv

LEMMA WebPageInit == Init => WebPageInv
<1> SUFFICES ASSUME Init PROVE WebPageInv
  OBVIOUS
<1>1. /\ page.hosts = EmptyMap /\ page.currentHost = NoHost /\ page.terminals = {}
      /\ page.currentTerminal = NoTerminal /\ page.attached = {} /\ page.out = {} /\ page.ok
      /\ page \in Page
  <2>1. EmptyMap \in [{} -> RemoteHost]
    BY DEF EmptyMap
  <2>2. EmptyMap \in HostMap
    BY <2>1 DEF HostMap
  <2> QED BY <2>2 DEF Init, Page, NoTerminal
<1>2. DOMAIN page.hosts = {}
  BY <1>1 DEF EmptyMap
<1>3. Sound(page)
  BY <1>1, <1>2, FS_EmptySet DEF Sound, Displayed
<1>4. Seen(page) \subseteq {0}
  BY <1>1, <1>2 DEF Seen, NoTerminal
<1>5. ServerInv /\ DOMAIN ordered = {} /\ Len(ordered) = 0
  BY FS_EmptySet DEF Init, ServerInv
<1>6. toPage \in Seq(Message) /\ DOMAIN toPage = {} /\ ~linked /\ linked \in BOOLEAN
      /\ up = {} /\ starting = {} /\ live = {} /\ toPage = <<>>
  <2>1. toPage = <<>> /\ up = {} /\ starting = {} /\ live = {}
    BY DEF Init
  <2>2. linked = FALSE
    BY DEF Init
  <2>3. toPage \in Seq(Message) /\ DOMAIN toPage = {}
    BY <2>1
  <2> QED BY <2>1, <2>2, <2>3
<1>7. QueueInv /\ LinkInv /\ HostsFirst /\ FreshInv
  BY <1>2, <1>4, <1>5, <1>6 DEF QueueInv, LinkInv, HostsFirst, FreshInv
<1> QED BY <1>1, <1>3, <1>5, <1>6, <1>7 DEF WebPageInv

LEMMA WebPageNext == WebPageInv /\ [Next]_vars => WebPageInv'
<1> SUFFICES ASSUME WebPageInv, [Next]_vars PROVE WebPageInv'
  OBVIOUS
<1>1. CASE \E h \in Hosts : HostConnects(h)
  BY <1>1, HostConnectsStep
<1>2. CASE \E h \in Hosts : HostLost(h)
  BY <1>2, HostLostStep
<1>3. CASE \E t \in starting : TerminalCreated(t)
  BY <1>3, TerminalCreatedStep
<1>4. CASE \E t \in live : ShellEnds(t)
  BY <1>4, ShellEndsStep
<1>5. CASE Connected
  BY <1>5, ConnectedStep
<1>6. CASE onDisconnected
  BY <1>6, DisconnectedStep
<1>7. CASE onWsMessage
  <2>1. PICK r : r = onMessage(page, toPage[1])
    OBVIOUS
  <2>2. linked /\ UNCHANGED <<linked, up, gone>> /\ Sound(r) /\ Handle(r) /\ Handles(1, r)
    BY <1>7, <2>1, MessageStep
  <2> QED BY <2>2, PageStep
<1>8. CASE User
  <2>1. linked /\ UNCHANGED <<linked, up, gone>>
    BY <1>8, UserStep
  <2>2. PICK r : Sound(r) /\ Handle(r) /\ Handles(0, r)
    BY <1>8, UserStep
  <2> QED BY <2>1, <2>2, PageStep
<1>9. CASE UNCHANGED vars
  <2>1. UNCHANGED <<page, linked, up, gone, ordered, starting, live, toPage>>
    BY <1>9 DEF vars, serverVars
  <2>2. /\ Sound(page)' /\ page'.out = {} /\ page'.ok /\ Seen(page)' = Seen(page)
    BY <2>1, PageStays
  <2> QED BY <2>1, <2>2
     DEF WebPageInv, ServerInv, LinkInv, QueueInv, HostsFirst, FreshInv, Sent
<1> QED BY <1>1, <1>2, <1>3, <1>4, <1>5, <1>6, <1>7, <1>8, <1>9 DEF Next

LEMMA WebPageInvariant == Spec => []WebPageInv
  BY WebPageInit, WebPageNext, PTL DEF Spec
-----------------------------------------------------------------------------
\* The page is well formed, and no handler leaves a request or an error behind.
THEOREM WebPageTypeCorrect == Spec => []WebPageTypeOK
<1>1. WebPageInv => WebPageTypeOK
  <2> SUFFICES ASSUME WebPageInv PROVE WebPageTypeOK
    OBVIOUS
  <2>1. Sound(page) /\ page \in Page /\ page.out = {} /\ page.ok /\ linked \in BOOLEAN
        /\ ServerInv /\ QueueInv
    BY DEF WebPageInv, Sound
  <2>2. page.attached \subseteq page.terminals
    BY <2>1 DEF Sound, Displayed
  <2> QED BY <2>1, <2>2, PageFields DEF WebPageTypeOK, ServerInv, QueueInv
<1> QED BY <1>1, WebPageInvariant, PTL

\* A host's buttons are its terminals, each once, and the button that adds comes
\* last (remote.host.js addTerminal, removeTerminalButton).
THEOREM ButtonsOrdered == Spec => []ButtonsInOrder
<1>1. WebPageInv => ButtonsInOrder
  <2> SUFFICES ASSUME WebPageInv, NEW h \in DOMAIN page.hosts, NEW host, host = page.hosts[h],
                      NEW n, n = Len(host.buttons)
               PROVE  /\ \A i, j \in 1 .. n : host.buttons[i] = host.buttons[j] => i = j
                      /\ \A i \in 1 .. n : host.buttons[i] = AddBt => i = n
                      /\ host.connectingBt # "none" <=> (n > 0 /\ host.buttons[n] = AddBt)
                      /\ \A i \in 1 .. n :
                            host.buttons[i] # AddBt => ordered[host.buttons[i]] = h
    BY DEF ButtonsInOrder
  <2>1. page \in Page /\ InOrder(host) /\ ButtonsOf(page, h)
    BY DEF WebPageInv, Sound
  <2>2. host.buttons \in Seq(Nat)
    BY <2>1, PageFields, HostFields
  <2>3. n \in Nat /\ DOMAIN host.buttons = 1 .. n
    BY <2>2
  <2>4. HasAdd(host.buttons) <=> (n > 0 /\ host.buttons[n] = AddBt)
    <3>1. ASSUME HasAdd(host.buttons) PROVE n > 0 /\ host.buttons[n] = AddBt
      <4>1. PICK i \in 1 .. n : host.buttons[i] = AddBt
        BY <2>3, <3>1 DEF HasAdd, Range
      <4>2. i = n
        BY <2>1, <2>3, <4>1 DEF InOrder, Orderly
      <4> QED BY <2>3, <4>1, <4>2
    <3>2. ASSUME n > 0, host.buttons[n] = AddBt PROVE HasAdd(host.buttons)
      <4>1. n \in DOMAIN host.buttons
        BY <2>3, <3>2
      <4> QED BY <3>2, <4>1 DEF HasAdd, Range
    <3> QED BY <3>1, <3>2
  <2>5. \A i \in 1 .. n : host.buttons[i] # AddBt => ordered[host.buttons[i]] = h
    BY <2>1, <2>3 DEF ButtonsOf, Shown, Range
  <2>6. host.connectingBt # "none" <=> HasAdd(host.buttons)
    BY <2>1 DEF InOrder
  <2>7. /\ \A i, j \in 1 .. n : host.buttons[i] = host.buttons[j] => i = j
        /\ \A i \in 1 .. n : host.buttons[i] = AddBt => i = n
    BY <2>1, <2>3 DEF InOrder, Orderly
  <2> QED BY <2>4, <2>5, <2>6, <2>7
<1> QED BY <1>1, WebPageInvariant, PTL

\* The current host is a listed one (remote.host.list.js removeHost).
THEOREM CurrentListed == Spec => []CurrentHostListed
<1>1. WebPageInv => CurrentHostListed
  BY DEF WebPageInv, Sound, CurrentHostListed
<1> QED BY <1>1, WebPageInvariant, PTL

\* A host with terminals has one of them selected, and it is the active one,
\* whichever was closed last and by whom (remote.host.js selectTermBt,
\* removeTerminalById).
THEOREM ActiveSelected == Spec => []ActiveIsSelected
<1>1. WebPageInv => ActiveIsSelected
  BY DEF WebPageInv, Sound, Selected, Shown, ActiveIsSelected
<1> QED BY <1>1, WebPageInvariant, PTL

\* A terminal that runs stays within reach of the user, unless a wedged page
\* loses it (remote.host.js onTermBtCloseClicked, terminal.view.js setTerminal).
THEOREM WedgedOnly == Spec => OnlyWedgedPageLoses
<1>1. ASSUME WebPageInv, Next, NEW t \in live', t \in live => Reachable(t)
      PROVE  Reachable(t)' \/ Wedged
  <2>1. /\ Sound(page) /\ ServerInv /\ LinkInv /\ QueueInv /\ HostsFirst
    BY <1>1 DEF WebPageInv
  <2>2. Sound(page)' /\ ServerInv'
    BY <1>1, WebPageNext DEF WebPageInv
  <2>3. ASSUME ordered'[t] \in DOMAIN page'.hosts, t \in Shown(page'.hosts[ordered'[t]])
        PROVE  Reachable(t)'
    <3>1. ~page'.info
      BY <2>2, <2>3 DEF Sound
    <3> QED BY <2>3, <3>1 DEF Reachable, Shown
  <2>4. ASSUME NEW i \in DOMAIN toPage', toPage'[i].type = "terminal_added", toPage'[i].t = t
        PROVE  Reachable(t)'
    BY <2>4 DEF Reachable, Announced
  <2>5. ASSUME t \in live
        PROVE  /\ t \in DOMAIN ordered /\ ordered[t] \in up /\ ordered[t] \notin gone
               /\ \/ Announced(t)
                  \/ ordered[t] \in DOMAIN page.hosts /\ t \in Shown(page.hosts[ordered[t]])
    <3>1. t \in DOMAIN ordered /\ t # AddBt /\ ordered[t] \in up
      BY <2>1, <2>5 DEF ServerInv, AddBt, NoTerminal
    <3> QED BY <1>1, <2>1, <2>5, <3>1 DEF ServerInv, Reachable, Shown
  <2>6. ASSUME t \in live, page' = page, ordered' = ordered,
               \A i \in DOMAIN toPage : i \in DOMAIN toPage' /\ toPage'[i] = toPage[i]
        PROVE  Reachable(t)'
    BY <2>3, <2>4, <2>5, <2>6 DEF Announced
  <2>7. ASSUME NEW m \in Message, Adds(m)
        PROVE  \A i \in DOMAIN toPage : i \in DOMAIN toPage' /\ toPage'[i] = toPage[i]
    BY <2>1, <2>7, Added
  <2>8. CASE \E h \in Hosts : HostConnects(h)
    <3>1. PICK h \in Hosts : HostConnects(h)
      BY <2>8
    <3>2. UNCHANGED toPage \/ Adds([type |-> "host_connected", h |-> h])
      BY <3>1 DEF HostConnects, Tell, Adds
    <3>3. \A i \in DOMAIN toPage : i \in DOMAIN toPage' /\ toPage'[i] = toPage[i]
      BY <2>7, <3>2, SentByServer
    <3> QED BY <2>6, <3>1, <3>3 DEF HostConnects
  <2>9. CASE \E h \in Hosts : HostLost(h)
    <3>1. PICK h \in Hosts : HostLost(h)
      BY <2>9
    <3>2. UNCHANGED toPage \/ Adds([type |-> "host_disconnected", h |-> h])
      BY <3>1 DEF HostLost, Tell, Adds
    <3>3. \A i \in DOMAIN toPage : i \in DOMAIN toPage' /\ toPage'[i] = toPage[i]
      BY <2>7, <3>2, SentByServer
    <3>4. t \in live
      BY <3>1 DEF HostLost
    <3> QED BY <2>6, <3>1, <3>3, <3>4 DEF HostLost
  <2>10. CASE \E u \in starting : TerminalCreated(u)
    <3>1. PICK u \in starting : TerminalCreated(u)
      BY <2>10
    <3>2. u \in TerminalId /\ ordered[u] \in Hosts
      BY <2>1 DEF ServerInv, TerminalId
    <3>3. PICK m \in Message : m = [type |-> "terminal_added", h |-> ordered[u], t |-> u]
      BY <3>2, SentByServer
    <3>4. Adds(m)
      BY <1>1, <3>1, <3>3, TerminalCreatedStep
    <3>5. CASE t = u
      <4>1. Len(toPage) + 1 \in DOMAIN toPage' /\ toPage'[Len(toPage) + 1] = m
        BY <2>1, <3>4, Added
      <4> QED BY <2>4, <3>3, <3>5, <4>1
    <3>6. CASE t # u
      <4>1. t \in live /\ page' = page /\ ordered' = ordered
        BY <3>1, <3>6 DEF TerminalCreated
      <4> QED BY <2>6, <2>7, <3>4, <4>1
    <3> QED BY <3>5, <3>6
  <2>11. CASE \E u \in live : ShellEnds(u)
    <3>1. PICK u \in live : ShellEnds(u)
      BY <2>11
    <3>2. u \in TerminalId /\ ordered[u] \in Hosts
      BY <2>1 DEF ServerInv, TerminalId
    <3>3. PICK m \in Message : m = [type |-> "terminal_closed", h |-> ordered[u], t |-> u]
      BY <3>2, SentByServer
    <3>4. Adds(m) /\ t \in live /\ page' = page /\ ordered' = ordered
      BY <3>1, <3>3 DEF ShellEnds, Tell, Adds
    <3> QED BY <2>6, <2>7, <3>4
  <2>12. CASE Connected
    BY <2>1, <2>12 DEF Connected, LinkInv, serverVars
  <2>13. CASE onDisconnected
    BY <2>13 DEF onDisconnected
\* A step of the page keeps the announcements of later messages, and buttons.
  <2>14. ASSUME NEW r, NEW k, NEW lost, Sound(r), Handle(r), UNCHANGED <<up, gone>>,
                Handles(k, r), Keeps(r, lost), t \notin lost,
                k = 1 /\ Sent(1, "terminal_added") /\ toPage[1].h \in DOMAIN page.hosts =>
                   toPage[1].t \in Shown(r.hosts[toPage[1].h])
         PROVE  Reachable(t)'
    <3>1. /\ page'.hosts = r.hosts /\ live' \subseteq live
          /\ \A u \in DOMAIN ordered : ordered'[u] = ordered[u]
      BY <2>1, <2>14, Handled
    <3>2. t \in live /\ t \in DOMAIN ordered /\ ordered[t] \in up /\ ordered[t] \notin gone
          /\ ordered'[t] = ordered[t]
      BY <2>5, <3>1
    <3>3. ASSUME ordered[t] \in DOMAIN r.hosts, t \in Shown(r.hosts[ordered[t]])
          PROVE  Reachable(t)'
      BY <2>3, <3>1, <3>2, <3>3
    <3>4. CASE ordered[t] \in DOMAIN page.hosts /\ t \in Shown(page.hosts[ordered[t]])
      BY <2>14, <3>2, <3>3, <3>4 DEF Keeps
    <3>5. CASE Announced(t)
      <4>1. PICK i \in DOMAIN toPage : toPage[i].type = "terminal_added" /\ toPage[i].t = t
        BY <3>5 DEF Announced
      <4>2. k \in {0, 1} /\ i \in Nat /\ i >= 1
        BY <2>1, <2>14 DEF Handles, QueueInv
      <4>3. CASE i > k
        <5>1. PICK j : j = i - k
          OBVIOUS
        <5>2. j \in DOMAIN toPage' /\ j + k = i
          BY <2>14, <4>2, <4>3, <5>1 DEF Handles
        <5>3. toPage'[j] = toPage[i]
          BY <2>14, <5>2 DEF Handles
        <5> QED BY <2>4, <4>1, <5>2, <5>3
      <4>4. CASE ~(i > k)
        <5>1. k = 1 /\ i = 1
          BY <4>2, <4>4
        <5>2. Sent(1, "terminal_added") /\ toPage[1].t = t
          BY <4>1, <5>1 DEF Sent
        <5>3. toPage[1].h = ordered[t]
          BY <2>1, <5>1, <5>2 DEF QueueInv
        <5>4. toPage[1].h \in DOMAIN page.hosts
          <6>1. \/ toPage[1].h \in DOMAIN page.hosts \cup gone
                \/ \E j \in DOMAIN toPage : j < 1
            BY <2>1, <5>1, <5>2 DEF HostsFirst
          <6>2. \A j \in DOMAIN toPage : ~(j < 1)
            BY <2>1 DEF QueueInv
          <6> QED BY <3>2, <5>3, <6>1, <6>2
        <5>5. t \in Shown(r.hosts[ordered[t]])
          BY <2>14, <5>1, <5>2, <5>3, <5>4
        <5>6. ordered[t] \in DOMAIN r.hosts
          BY <2>14, <3>2, <5>3, <5>4 DEF Keeps
        <5> QED BY <3>3, <5>5, <5>6
      <4> QED BY <4>3, <4>4
    <3> QED BY <2>5, <3>2, <3>4, <3>5
  <2>15. CASE onWsMessage
    <3>1. PICK m, r : m = toPage[1] /\ r = onMessage(page, m)
      OBVIOUS
    <3>2. PICK lost : lost = {u \in {m.t} : m.type = "terminal_closed"}
      OBVIOUS
    <3>3. /\ UNCHANGED <<up, gone>> /\ Sound(r) /\ Handle(r) /\ Handles(1, r)
          /\ 1 \in DOMAIN toPage /\ Keeps(r, lost)
          /\ m.type = "terminal_added" /\ m.h \in DOMAIN page.hosts =>
                m.t \in Shown(r.hosts[m.h])
      BY <1>1, <2>15, <3>1, <3>2, MessageStep
    <3>4. t \notin lost
      <4>1. t \in live
        BY <2>1, <3>3, Handled
      <4> QED BY <2>1, <3>1, <3>2, <3>3, <4>1 DEF QueueInv, Sent
    <3> QED BY <2>14, <3>1, <3>3, <3>4 DEF Sent
  <2>16. CASE User
    <3>1. UNCHANGED <<up, gone>>
      BY <1>1, <2>16, UserStep
    <3>2. PICK r, lost :
             /\ Sound(r) /\ Handle(r) /\ Handles(0, r) /\ Keeps(r, lost)
             /\ \A u \in lost : [type |-> "terminal_del", t |-> u] \in r.out \/ Stuck(page)
      BY <1>1, <2>16, UserStep
    <3>3. CASE t \notin lost
      BY <2>14, <3>1, <3>2, <3>3
    <3>4. CASE t \in lost
      <4>1. [type |-> "terminal_del", t |-> t] \notin r.out
        BY <2>1, <3>1, <3>2, Handled
      <4>2. Stuck(page)
        BY <3>2, <3>4, <4>1
      <4> QED BY <2>1, <4>2 DEF Stuck, Wedged, Sound, Displayed
    <3> QED BY <3>3, <3>4
  <2> QED BY <1>1, <2>8, <2>9, <2>10, <2>11, <2>12, <2>13, <2>15, <2>16 DEF Next
<1>2. WebPageInv /\ [Next]_vars =>
         [\A t \in live' : (t \in live => Reachable(t)) => Reachable(t)' \/ Wedged]_vars
  BY <1>1
<1> QED BY <1>2, WebPageInvariant, PTL DEF Spec, OnlyWedgedPageLoses
=============================================================================
