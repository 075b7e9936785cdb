--------------------------- MODULE MailboxProofs ---------------------------
(***************************************************************************)
(* The safety of the mailbox library for any programs, connections and     *)
(* messages, and of if_control, one of the programs behind a mailbox, for  *)
(* any settings and values, and any number of frames, commands and         *)
(* failures.                                                               *)
(*                                                                         *)
(* What keeps a message from being lost, read twice or out of order is     *)
(* spread over both ends of a connection: the backlog, the entries, the    *)
(* job of the sender and what is unread.  The invariant has four parts,    *)
(* each needed by the next: Structure, Msgs, CalmFine and Flow.            *)
(***************************************************************************)
EXTENDS Sock, IfControl, WellFoundedInduction, FiniteSetTheorems, TLAPS

USE SockAssumption DEF SockAssumption

\* A set of natural numbers that is not empty has a least element.
LEMMA LeastOf ==
    ASSUME NEW S \in SUBSET Nat, S # {}
    PROVE  \E n \in S : \A m \in S : n <= m
  <1> DEFINE R == {ss \in Nat \X Nat : ss[1] < ss[2]}
  <1>1. IsWellFoundedOn(R, Nat)
    <2>1. R = OpToRel(<, Nat)
      BY Zenon DEF OpToRel
    <2> QED
      BY <2>1, NatLessThanWellFounded, Zenon
  <1>2. PICK n \in S : \A m \in S : ~ (<<m, n>> \in R)
    BY <1>1, WFMin, Zenon
  <1>3. ASSUME NEW m \in S PROVE n <= m
    <2>1. ~ (<<m, n>> \in R) /\ m \in Nat /\ n \in Nat
      BY <1>2
    <2> QED
      BY <2>1, SMT
  <1> QED
    BY <1>3

\* Max() of a set of handles is its largest element.
LEMMA MaxOf ==
    ASSUME NEW k \in Nat, NEW S \in SUBSET (1 .. k), S # {}
    PROVE  Max(S) \in S /\ \A h \in S : h <= Max(S)
  <1> DEFINE T == {k - h : h \in S}
  <1>1. PICK n \in T : \A m \in T : n <= m
    <2>1. ASSUME NEW h \in S PROVE h \in Int /\ k - h \in Nat
      BY SMT
    <2>2. ASSUME NEW t \in T PROVE t \in Nat
      BY <2>1
    <2>3. \E h \in S : k - h \in T
      OBVIOUS
    <2> HIDE DEF T
    <2> QED
      BY <2>2, <2>3, LeastOf
  <1>2. PICK g \in S : n = k - g
    BY <1>1
  <1>3. \A h \in S : g >= h
    <2> SUFFICES ASSUME NEW h \in S PROVE g >= h
      OBVIOUS
    <2>1. n <= k - h
      BY <1>1
    <2> QED
      BY <1>2, <2>1, SMT
  <1>4. \E x \in S : \A h \in S : x >= h
    BY <1>3
  <1>5. Max(S) \in S /\ \A h \in S : Max(S) >= h
    BY <1>4 DEF Max
  <1> QED
    BY <1>5, SMT

\* Contains() of the sequences that a step makes.
LEMMA ContainsEmpty == \A e : ~ Contains(<<>>, e)
  BY DEF Contains

\* Appending an element adds it to what a sequence contains.
LEMMA ContainsAppend ==
    ASSUME NEW S, NEW s \in Seq(S), NEW x \in S, NEW e
    PROVE  Contains(Append(s, x), e) <=> Contains(s, e) \/ e = x
  <1>1. Len(Append(s, x)) = Len(s) + 1 /\ Len(s) \in Nat
    OBVIOUS
  <1>2. ASSUME Contains(Append(s, x), e) PROVE Contains(s, e) \/ e = x
    BY <1>1, <1>2 DEF Contains
  <1>3. ASSUME Contains(s, e) PROVE Contains(Append(s, x), e)
    BY <1>1, <1>3 DEF Contains
  <1>4. ASSUME e = x PROVE Contains(Append(s, x), e)
    <2>1. Append(s, x)[Len(s) + 1] = e /\ Len(s) + 1 \in 1 .. Len(Append(s, x))
      BY <1>1, <1>4
    <2> QED
      BY <2>1 DEF Contains
  <1> QED
    BY <1>2, <1>3, <1>4

\* The shape of a sequence, and of what Head() and Tail() take from it.
LEMMA TailType ==
    ASSUME NEW S, NEW s \in Seq(S), s # <<>>
    PROVE  /\ Tail(s) \in Seq(S) /\ Head(s) \in S
           /\ Len(s) \in Nat /\ Len(s) > 0 /\ Len(Tail(s)) = Len(s) - 1
           /\ DOMAIN s = 1 .. Len(s) /\ DOMAIN Tail(s) = 1 .. Len(s) - 1
           /\ Head(s) = s[1] /\ \A i \in DOMAIN Tail(s) : Tail(s)[i] = s[i + 1]
  OBVIOUS

\* What Tail() drops is the first element.
LEMMA ContainsTail ==
    ASSUME NEW S, NEW s \in Seq(S), s # <<>>, NEW e
    PROVE  /\ Contains(Tail(s), e) => Contains(s, e)
           /\ Contains(s, e) => Contains(Tail(s), e) \/ e = Head(s)
           /\ Contains(s, Head(s))
           /\ (\A i, j \in DOMAIN s : s[i] = s[j] => i = j)
              => ~ Contains(Tail(s), Head(s))
  <1>1. /\ Len(Tail(s)) = Len(s) - 1 /\ Len(s) \in Nat /\ Len(s) >= 1
        /\ \A i \in 1 .. Len(Tail(s)) : Tail(s)[i] = s[i + 1]
        /\ Head(s) = s[1] /\ DOMAIN s = 1 .. Len(s)
    OBVIOUS
  <1>2. ASSUME Contains(Tail(s), e) PROVE Contains(s, e)
    <2> PICK i \in 1 .. Len(Tail(s)) : Tail(s)[i] = e
      BY <1>2 DEF Contains
    <2>1. s[i + 1] = e /\ i + 1 \in 1 .. Len(s)
      BY <1>1
    <2> QED
      BY <2>1 DEF Contains
  <1>3. ASSUME Contains(s, e), e # Head(s) PROVE Contains(Tail(s), e)
    <2> PICK i \in 1 .. Len(s) : s[i] = e
      BY <1>3 DEF Contains
    <2>1. i # 1
      BY <1>1, <1>3
    <2>2. i - 1 \in 1 .. Len(Tail(s)) /\ Tail(s)[i - 1] = e
      BY <1>1, <2>1
    <2> QED
      BY <2>2 DEF Contains
  <1>4. Contains(s, Head(s))
    BY <1>1 DEF Contains
  <1>5. ASSUME \A i, j \in DOMAIN s : s[i] = s[j] => i = j,
               Contains(Tail(s), Head(s))
        PROVE  FALSE
    <2> PICK i \in 1 .. Len(Tail(s)) : Tail(s)[i] = Head(s)
      BY <1>5 DEF Contains
    <2>1. s[i + 1] = s[1] /\ i + 1 \in DOMAIN s /\ 1 \in DOMAIN s /\ i + 1 # 1
      BY <1>1
    <2> QED
      BY <1>5, <2>1
  <1> QED
    BY <1>2, <1>3, <1>4, <1>5

-------------------------------------------------------------------------------
(* Connections and entries *)

\* The fields of the connections, entries and jobs of a typed state.
LEMMA Fields ==
    ASSUME TypeOK
    PROVE  /\ DOMAIN conns = 1 .. Len(conns) /\ Len(conns) \in 0 .. MaxConns
           /\ \A c \in DOMAIN conns :
                  /\ conns[c] \in Conn /\ conns[c].from \in Progs
                  /\ conns[c].to \in Named /\ conns[c].to \in Progs
                  /\ conns[c].open \in SUBSET Progs
                  /\ conns[c].reset \in SUBSET Progs
                  /\ conns[c].named \in BOOLEAN
                  /\ conns[c].unread \in [Progs -> Seq(1 .. MaxSends)]
                  /\ c \in 1 .. MaxConns
           /\ \A p \in Progs :
                  /\ backlog[p] \in Seq(1 .. MaxConns)
                  /\ list[p] \in Seq(Entry) /\ Handles(p) = 1 .. Len(list[p])
                  /\ \A h \in Handles(p) :
                         /\ list[p][h] \in Entry /\ h # None
                         /\ list[p][h].name \in Named \cup {Anonymous, None}
                         /\ Fd(p, h) \in 0 .. MaxConns
                         /\ list[p][h].linked \in BOOLEAN
                  /\ Linked(p) \subseteq Handles(p)
  <1>1. conns \in Seq(Conn) /\ Len(conns) <= MaxConns
    BY DEF TypeOK
  <1>2. DOMAIN conns = 1 .. Len(conns) /\ Len(conns) \in 0 .. MaxConns
    BY <1>1
  <1>3. ASSUME NEW c \in DOMAIN conns
        PROVE  /\ conns[c] \in Conn /\ c \in 1 .. MaxConns
    BY <1>1, <1>2
  <1>4. ASSUME NEW c \in DOMAIN conns
        PROVE  /\ conns[c].from \in Progs
                  /\ conns[c].to \in Named /\ conns[c].to \in Progs
                  /\ conns[c].open \in SUBSET Progs
                  /\ conns[c].reset \in SUBSET Progs
                  /\ conns[c].named \in BOOLEAN
                  /\ conns[c].unread \in [Progs -> Seq(1 .. MaxSends)]
    BY <1>3 DEF Conn, Progs
  <1>5. ASSUME NEW p \in Progs
        PROVE  /\ backlog[p] \in Seq(1 .. MaxConns)
               /\ list[p] \in Seq(Entry) /\ Handles(p) = 1 .. Len(list[p])
    BY DEF TypeOK, Handles
  <1>6. ASSUME NEW p \in Progs, NEW h \in Handles(p)
        PROVE  /\ list[p][h] \in Entry /\ h # None
    BY <1>5 DEF None
  <1>7. ASSUME NEW p \in Progs, NEW h \in Handles(p)
        PROVE  /\ list[p][h].name \in Named \cup {Anonymous, None}
                         /\ Fd(p, h) \in 0 .. MaxConns
                         /\ list[p][h].linked \in BOOLEAN
    BY <1>6 DEF Entry, Fd
  <1> QED
    BY <1>2, <1>3, <1>4, <1>5, <1>6, <1>7 DEF Linked

\* What Closed() makes of one connection.
ClosedConn(C, p, c) ==
    /\ Closed(C, p)[c].from = conns[c].from
    /\ Closed(C, p)[c].to = conns[c].to
    /\ Closed(C, p)[c].named = conns[c].named
    /\ c \notin C => Closed(C, p)[c] = conns[c]
    /\ c \in C =>
           /\ Closed(C, p)[c].open = conns[c].open \ {p}
           /\ Closed(C, p)[c].unread = [conns[c].unread EXCEPT ![p] = <<>>]
           /\ Unread(c, p) # <<>> \/ Contains(backlog[p], c) =>
                  Closed(C, p)[c].reset = conns[c].reset \cup {Other(c, p)}
           /\ ~ (Unread(c, p) # <<>> \/ Contains(backlog[p], c)) =>
                  Closed(C, p)[c].reset = conns[c].reset

\* close() of one end, connection by connection.
LEMMA ClosedFields ==
    ASSUME TypeOK, NEW p \in Progs, NEW C
    PROVE  /\ Closed(C, p) \in Seq(Conn) /\ Len(Closed(C, p)) = Len(conns)
           /\ DOMAIN Closed(C, p) = DOMAIN conns
           /\ \A c \in DOMAIN conns : ClosedConn(C, p, c)
  <1> DEFINE new(c) ==
               [conns[c] EXCEPT !.open = @ \ {p}, !.unread[p] = <<>>,
                 !.reset = IF Unread(c, p) # <<>> \/ Contains(backlog[p], c)
                           THEN @ \cup {Other(c, p)} ELSE @]
  <1>1. ASSUME NEW c \in DOMAIN conns
        PROVE  /\ new(c).from = conns[c].from /\ new(c).to = conns[c].to
               /\ new(c).named = conns[c].named
               /\ new(c).open = conns[c].open \ {p}
               /\ new(c).unread = [conns[c].unread EXCEPT ![p] = <<>>]
               /\ new(c).reset =
                      IF Unread(c, p) # <<>> \/ Contains(backlog[p], c)
                      THEN conns[c].reset \cup {Other(c, p)} ELSE conns[c].reset
               /\ new(c) \in Conn
    <2> DEFINE R == IF Unread(c, p) # <<>> \/ Contains(backlog[p], c)
                    THEN conns[c].reset \cup {Other(c, p)} ELSE conns[c].reset
    <2>1. /\ conns[c] \in Conn /\ conns[c].open \in SUBSET Progs
          /\ conns[c].unread \in [Progs -> Seq(1 .. MaxSends)]
          /\ R \in SUBSET Progs
      BY Fields DEF Other
    <2>2. PICK r \in Conn : r = [conns[c] EXCEPT !.open = @ \ {p}]
      BY <2>1 DEF Conn
    <2>3. [conns[c].unread EXCEPT ![p] = <<>>] \in [Progs -> Seq(1 .. MaxSends)]
      BY <2>1
    <2>4. PICK s \in Conn : s = [r EXCEPT !.unread = [conns[c].unread EXCEPT ![p] = <<>>]]
      BY <2>2, <2>3 DEF Conn
    <2>5. [s EXCEPT !.reset = R] \in Conn
      BY <2>1, <2>4 DEF Conn
    <2>6. new(c) = [s EXCEPT !.reset = R]
      BY <2>1, <2>2, <2>4 DEF Conn
    <2>7. /\ r.from = conns[c].from /\ r.to = conns[c].to
          /\ r.named = conns[c].named /\ r.open = conns[c].open \ {p}
      BY <2>1, <2>2 DEF Conn
    <2>8. /\ s.from = conns[c].from /\ s.to = conns[c].to
          /\ s.named = conns[c].named /\ s.open = conns[c].open \ {p}
          /\ s.unread = [conns[c].unread EXCEPT ![p] = <<>>]
      BY <2>4, <2>7 DEF Conn
    <2> QED
      BY <2>5, <2>6, <2>8 DEF Conn
  <1> HIDE DEF new
  <1>2. Closed(C, p) = [c \in DOMAIN conns |-> IF c \in C THEN new(c) ELSE conns[c]]
    BY DEF Closed, new
  <1>3. ASSUME NEW c \in DOMAIN conns PROVE Closed(C, p)[c] \in Conn
    <2>1. new(c) \in Conn
      BY <1>1
    <2>2. conns[c] \in Conn
      BY Fields
    <2> QED
      BY <1>2, <2>1, <2>2
  <1>4. Closed(C, p) \in [1 .. Len(conns) -> Conn] /\ Len(conns) \in Nat
    BY <1>2, <1>3, Fields
  <1>5. Closed(C, p) \in Seq(Conn) /\ Len(Closed(C, p)) = Len(conns)
    BY <1>4
  <1>6. ASSUME NEW c \in DOMAIN conns PROVE ClosedConn(C, p, c)
    <2>1. CASE c \notin C
      <3>1. Closed(C, p)[c] = conns[c]
        BY <1>2, <2>1
      <3> QED
        BY <2>1, <3>1 DEF ClosedConn
    <2>2. CASE c \in C
      <3>1. Closed(C, p)[c] = new(c)
        BY <1>2, <2>2
      <3> QED
        BY <1>1, <2>2, <3>1 DEF ClosedConn
    <2> QED
      BY <2>1, <2>2
  <1> QED
    BY <1>2, <1>5, <1>6

-------------------------------------------------------------------------------
(* The inductive invariant, first part: how connections, backlogs, entries and *)
(* jobs fit together                                                           *)

\* Only the two programs hold ends; a closed end holds no data; a reset comes
\* from an end that is closed.
Sound(conn) ==
    /\ conn.from # conn.to
    /\ conn.open \subseteq {conn.from, conn.to}
    /\ \A p \in Progs \ conn.open : conn.unread[p] = <<>>
    /\ \A p \in conn.reset : /\ p \in {conn.from, conn.to}
                             /\ (IF conn.from = p THEN conn.to ELSE conn.from)
                                    \notin conn.open

\* A connection waits in the backlog of the program it was opened to, once.
BacklogFine(p) ==
    /\ \A i \in DOMAIN backlog[p] :
           LET c == backlog[p][i] IN
           c \in DOMAIN conns /\ conns[c].to = p /\ p \in conns[c].open
    /\ \A i, j \in DOMAIN backlog[p] : backlog[p][i] = backlog[p][j] => i = j

\* What an entry may hold: an accepted connection to the program of its name.
Holdable(p, name, c) ==
    /\ c \in DOMAIN conns /\ p \in conns[c].open
    /\ ~ Contains(backlog[p], c) /\ NameOf(Other(c, p)) = name

\* Entries hold accepted connections, and no two the same.
EntriesFine(p) ==
    /\ \A h \in Handles(p) :
           /\ list[p][h].name # p
           /\ Fd(p, h) # None => Holdable(p, list[p][h].name, Fd(p, h))
    /\ \A g, h \in Handles(p) : Fd(p, g) = Fd(p, h) /\ Fd(p, g) # None => g = h

\* No accepted end is left without an entry.
Owned(p) ==
    \A c \in DOMAIN conns :
        p \in conns[c].open /\ ~ Contains(backlog[p], c) =>
            \E h \in Handles(p) : Fd(p, h) = c

\* What one program's backlog and entries say of the connections.
View(p) == BacklogFine(p) /\ EntriesFine(p) /\ Owned(p)

\* An entry that messages to q may be written to.
Addressed(p, h, q) ==
    IF list[p][h].name = Anonymous
    THEN Fd(p, h) # None /\ q = Other(Fd(p, h), p)
    ELSE q = list[p][h].name /\ q \in Named

\* A job writes its own message, to an entry that reaches the receiver.
JobFine(p) ==
    job[p] # Idle =>
        /\ p \in up
        /\ job[p].handle \in Handles(p) /\ job[p].msg \in DOMAIN sent
        /\ sent[job[p].msg].from = p
        /\ Addressed(p, job[p].handle, sent[job[p].msg].to)
        /\ job[p].at = "connect" <=> Fd(p, job[p].handle) = None

\* A program sends one message at a time.
Newest(p) ==
    job[p] # Idle => \A m \in DOMAIN sent : sent[m].from = p => m <= job[p].msg

\* last_conn is not an entry that sock_close() emptied.
LastFine(p) == last[p] # None => list[p][last[p]].name # None

\* The first part of the invariant: types, connections, who holds each end of
\* them, and what a job and last_conn point to.
Structure ==
    /\ TypeOK
    /\ Len(sent) <= MaxSends
    /\ \A c \in DOMAIN conns : Sound(conns[c])
    /\ \A p \in Progs : View(p)
    /\ \A p \in Progs : JobFine(p) /\ Newest(p) /\ LastFine(p)

\* It holds at the start.
LEMMA InitStructure == Init => Structure
  <1> SUFFICES ASSUME Init PROVE Structure
    OBVIOUS
  <1>1. TypeOK
    <2>1. PICK P \in SUBSET Progs : left \in [P -> 0 .. MaxSends]
      BY DEF Init
    <2>2. up = P /\ down = {}
      BY <2>1 DEF Init
    <2>3. left \in [up \cup down -> 0 .. MaxSends] /\ up \subseteq Progs
      BY <2>1, <2>2
    <2>4. /\ conns \in Seq(Conn) /\ Len(conns) <= MaxConns
          /\ sent \in Seq([from : Progs, to : Progs])
          /\ delivered \in Seq([msg : 1 .. MaxSends, by : Progs])
      BY DEF Init
    <2>5. /\ backlog \in [Progs -> Seq(1 .. MaxConns)]
          /\ list \in [Progs -> Seq(Entry)]
      BY DEF Init
    <2> QED
      BY <2>2, <2>3, <2>4, <2>5 DEF Init, TypeOK, None
  <1>2. Len(sent) <= MaxSends
    BY DEF Init
  <1>3. DOMAIN conns = {}
    BY DEF Init
  <1>4. ASSUME NEW p \in Progs
        PROVE  View(p) /\ JobFine(p) /\ Newest(p) /\ LastFine(p)
    <2>1. DOMAIN backlog[p] = {} /\ Handles(p) = {}
      BY DEF Init, Handles
    <2>2. job[p] = Idle /\ last[p] = None
      BY DEF Init
    <2> QED
      BY <1>3, <2>1, <2>2
         DEF View, BacklogFine, EntriesFine, Owned, JobFine, Newest, LastFine
  <1> QED
    BY <1>1, <1>2, <1>3, <1>4 DEF Structure

\* What a program sees is kept by steps that leave its ends and entries alone.
LEMMA ViewKept ==
    ASSUME TypeOK, NEW p \in Progs, View(p),
           list'[p] = list[p], backlog'[p] = backlog[p],
           DOMAIN conns \subseteq DOMAIN conns',
           \A c \in DOMAIN conns :
               /\ conns'[c].from = conns[c].from /\ conns'[c].to = conns[c].to
               /\ p \in conns'[c].open <=> p \in conns[c].open,
           \A c \in DOMAIN conns' \ DOMAIN conns : p \notin conns'[c].open
    PROVE  View(p)'
  <1>1. Handles(p)' = Handles(p) /\ \A h \in Handles(p) : Fd(p, h)' = Fd(p, h)
    BY DEF Handles, Fd
  <1>2. BacklogFine(p)'
    BY DEF View, BacklogFine
  <1>3. \A name : \A c \in DOMAIN conns : Holdable(p, name, c) => Holdable(p, name, c)'
    BY DEF Holdable, NameOf, Other
  <1>4. EntriesFine(p)'
    BY <1>1, <1>3 DEF View, EntriesFine, Holdable
  <1>5. Owned(p)'
    BY <1>1 DEF View, Owned
  <1> QED
    BY <1>2, <1>4, <1>5 DEF View

\* So is its job.
LEMMA JobKept ==
    ASSUME TypeOK, NEW p \in Progs, View(p), JobFine(p), Newest(p), LastFine(p),
           list'[p] = list[p], job'[p] = job[p], last'[p] \in {last[p], None},
           p \in up => p \in up',
           DOMAIN sent \subseteq DOMAIN sent',
           \A m \in DOMAIN sent : sent'[m] = sent[m],
           \A m \in DOMAIN sent' \ DOMAIN sent : sent'[m].from # p,
           DOMAIN conns \subseteq DOMAIN conns',
           \A c \in DOMAIN conns :
               conns'[c].from = conns[c].from /\ conns'[c].to = conns[c].to
    PROVE  JobFine(p)' /\ Newest(p)' /\ LastFine(p)'
  <1>1. Handles(p)' = Handles(p) /\ \A h \in Handles(p) : Fd(p, h)' = Fd(p, h)
    BY DEF Handles, Fd
  <1>2. \A h \in Handles(p) : Fd(p, h) # None => Fd(p, h) \in DOMAIN conns
    BY DEF View, EntriesFine, Holdable
  <1>3. \A h \in Handles(p) : \A q : Addressed(p, h, q) => Addressed(p, h, q)'
    BY <1>1, <1>2 DEF Addressed, Other
  <1>4. JobFine(p)'
    BY <1>1, <1>3 DEF JobFine
  <1>5. Newest(p)'
    BY DEF Newest
  <1>6. LastFine(p)'
    BY DEF LastFine
  <1> QED
    BY <1>4, <1>5, <1>6

\* The entry sock_connect() returns, old or new.
LEMMA HandleFacts ==
    ASSUME TypeOK, NEW p \in Progs, NEW name \in Named \cup {Anonymous}
    PROVE  /\ WithEntry(p, name) \in Seq(Entry)
           /\ HandleFor(p, name) \in DOMAIN WithEntry(p, name)
           /\ DOMAIN WithEntry(p, name) = Handles(p) \cup {HandleFor(p, name)}
           /\ \A h \in Handles(p) : WithEntry(p, name)[h] = list[p][h]
           /\ WithEntry(p, name)[HandleFor(p, name)].name = name
           /\ WithEntry(p, name)[HandleFor(p, name)].linked
           /\ \/ /\ Existing(p, name) = {}
                 /\ HandleFor(p, name) \notin Handles(p)
                 /\ WithEntry(p, name)[HandleFor(p, name)].fd = None
              \/ /\ HandleFor(p, name) \in Existing(p, name)
                 /\ HandleFor(p, name) \in Handles(p)
  <1> DEFINE new == [name |-> name, fd |-> None, linked |-> TRUE]
  <1>1. /\ list[p] \in Seq(Entry) /\ Handles(p) = 1 .. Len(list[p])
        /\ Existing(p, name) \subseteq Handles(p) /\ Len(list[p]) \in Nat
    BY Fields DEF Existing
  <1>2. CASE Existing(p, name) = {}
    <2>1. new \in Entry
      BY DEF Entry, None
    <2>2. WithEntry(p, name) = Append(list[p], new)
      BY <1>2 DEF WithEntry
    <2>3. HandleFor(p, name) = Len(list[p]) + 1
      BY <1>2 DEF HandleFor
    <2> HIDE DEF new
    <2>4. /\ Append(list[p], new) \in Seq(Entry)
          /\ DOMAIN Append(list[p], new) = 1 .. Len(list[p]) + 1
          /\ Append(list[p], new)[Len(list[p]) + 1] = new
          /\ \A h \in 1 .. Len(list[p]) : Append(list[p], new)[h] = list[p][h]
      BY <1>1, <2>1
    <2>5. 1 .. Len(list[p]) + 1 = Handles(p) \cup {Len(list[p]) + 1}
      BY <1>1
    <2>6. Len(list[p]) + 1 \notin Handles(p)
      BY <1>1
    <2> QED
      BY <1>2, <2>2, <2>3, <2>4, <2>5, <2>6 DEF new
  <1>3. CASE Existing(p, name) # {}
    <2>1. WithEntry(p, name) = list[p]
      BY <1>3 DEF WithEntry
    <2>2. HandleFor(p, name) \in Existing(p, name)
      BY <1>1, <1>3, MaxOf DEF HandleFor
    <2>3. \A h \in Existing(p, name) : list[p][h].name = name /\ list[p][h].linked
      BY DEF Existing, Linked
    <2> QED
      BY <1>1, <2>1, <2>2, <2>3 DEF Handles
  <1> QED
    BY <1>2, <1>3

\* The number of a message is within the bound while one may still be sent.
LEMMA SentFields ==
    ASSUME TypeOK, Len(sent) < MaxSends, NEW p \in Progs, NEW q \in Progs,
           sent' = Append(sent, [from |-> p, to |-> q])
    PROVE  /\ sent' \in Seq([from : Progs, to : Progs])
           /\ Len(sent') = Len(sent) + 1 /\ Len(sent') <= MaxSends
           /\ Len(sent) \in Nat
           /\ DOMAIN sent = 1 .. Len(sent)
           /\ DOMAIN sent' = DOMAIN sent \cup {Len(sent) + 1}
           /\ \A m \in DOMAIN sent : sent'[m] = sent[m] /\ m < Len(sent) + 1
           /\ sent'[Len(sent) + 1].from = p /\ sent'[Len(sent) + 1].to = q
  <1> DEFINE R == [from : Progs, to : Progs]
             e == [from |-> p, to |-> q]
  <1>1. sent \in Seq(R) /\ e \in R
    BY DEF TypeOK
  <1> HIDE DEF R
  <1>2. e.from = p /\ e.to = q
    OBVIOUS
  <1> HIDE DEF e
  <1>3. sent' = Append(sent, e)
    BY DEF e
  <1> QED
    BY <1>1, <1>2, <1>3 DEF R

\* sock_write() begins at an entry that may be written to.
LEMMA BeginStructure ==
    ASSUME Structure, NEW p \in Progs, NEW h, NEW l, NEW q \in Progs, MaySend(p),
           l \in Seq(Entry), h \in DOMAIN l, Handles(p) \subseteq DOMAIN l,
           \A g \in Handles(p) : l[g] = list[p][g],
           \A g \in DOMAIN l \ Handles(p) : l[g].fd = None /\ l[g].name # p,
           IF l[h].name = Anonymous
           THEN l[h].fd # None /\ q = Other(l[h].fd, p)
           ELSE q = l[h].name /\ q \in Named,
           Begin(p, h, l, q)
    PROVE  Structure'
  <1>1. TypeOK /\ Len(sent) < MaxSends /\ p \in up /\ job[p] = Idle /\ left[p] > 0
    BY DEF Structure, MaySend
  <1>2. /\ list' = [list EXCEPT ![p] = l]
        /\ left' = [left EXCEPT ![p] = @ - 1]
        /\ sent' = Append(sent, [from |-> p, to |-> q])
        /\ job' = [job EXCEPT ![p] =
               [at |-> IF l[h].fd = None THEN "connect" ELSE "write",
                handle |-> h, msg |-> Len(sent) + 1, flag |-> 0]]
        /\ UNCHANGED <<up, down, conns, backlog, last, accepted, delivered, upset,
                       crossed, faults>>
    BY DEF Begin
  <1>3. /\ sent' \in Seq([from : Progs, to : Progs])
        /\ Len(sent') = Len(sent) + 1 /\ Len(sent') <= MaxSends /\ Len(sent) \in Nat
        /\ DOMAIN sent' = DOMAIN sent \cup {Len(sent) + 1}
        /\ \A m \in DOMAIN sent : sent'[m] = sent[m] /\ m < Len(sent) + 1
        /\ sent'[Len(sent) + 1].from = p /\ sent'[Len(sent) + 1].to = q
    BY <1>1, <1>2, SentFields
  <1>4. /\ list' \in [Progs -> Seq(Entry)] /\ list'[p] = l
        /\ \A r \in Progs \ {p} : list'[r] = list[r]
    BY <1>1, <1>2 DEF TypeOK
  <1>5. /\ job' \in [Progs -> {Idle} \cup Job]
        /\ job'[p].handle = h /\ job'[p].msg = Len(sent) + 1
        /\ job'[p].at = "connect" <=> l[h].fd = None
        /\ \A r \in Progs \ {p} : job'[r] = job[r]
    <2> DEFINE j == [at |-> IF l[h].fd = None THEN "connect" ELSE "write",
                     handle |-> h, msg |-> Len(sent) + 1, flag |-> 0]
    <2>1. h \in Nat /\ Len(sent) + 1 \in 1 .. MaxSends
      BY <1>3
    <2>2. j \in Job
      BY <2>1 DEF Job
    <2>3. job' = [job EXCEPT ![p] = j] /\ job \in [Progs -> {Idle} \cup Job]
      BY <1>1, <1>2 DEF TypeOK
    <2> HIDE DEF j
    <2>4. /\ job' \in [Progs -> {Idle} \cup Job] /\ job'[p] = j
          /\ \A r \in Progs \ {p} : job'[r] = job[r]
      BY <2>2, <2>3
    <2> QED
      BY <2>4 DEF j
  <1>6. TypeOK'
    <2>1. left' \in [up \cup down -> 0 .. MaxSends]
      BY <1>1, <1>2 DEF TypeOK
    <2>2. \A r \in Progs : last'[r] <= Len(list'[r])
      <3>1. Handles(p) = 1 .. Len(list[p]) /\ Len(list[p]) \in Nat
        BY <1>1, Fields
      <3>2. DOMAIN l = 1 .. Len(l) /\ Len(l) \in Nat
        OBVIOUS
      <3>3. Len(list[p]) <= Len(l)
        BY <3>1, <3>2
      <3> QED
        BY <1>1, <1>2, <1>4, <3>1, <3>2, <3>3 DEF TypeOK
    <2> QED
      BY <1>1, <1>2, <1>3, <1>4, <1>5, <2>1, <2>2 DEF TypeOK
  <1>7. \A c \in DOMAIN conns' : Sound(conns'[c])
    BY <1>2 DEF Structure, Sound
  <1>8. ASSUME NEW r \in Progs \ {p}
        PROVE  View(r)' /\ JobFine(r)' /\ Newest(r)' /\ LastFine(r)'
    <2>1. View(r) /\ JobFine(r) /\ Newest(r) /\ LastFine(r)
      BY DEF Structure
    <2>2. list'[r] = list[r] /\ job'[r] = job[r]
      BY <1>4, <1>5
    <2>3. View(r)'
      BY <1>1, <1>2, <2>1, <2>2, ViewKept
    <2>4. \A m \in DOMAIN sent' \ DOMAIN sent : sent'[m].from # r
      BY <1>3
    <2> QED
      BY <1>1, <1>2, <1>3, <2>1, <2>2, <2>3, <2>4, JobKept
  <1>9. View(p)'
    <2>1. View(p)
      BY DEF Structure
    <2>2. Handles(p)' = DOMAIN l /\ \A g \in DOMAIN l : list'[p][g] = l[g]
      BY <1>4 DEF Handles
    <2>3. BacklogFine(p)'
      BY <1>2, <2>1 DEF View, BacklogFine
    <2>4. \A name : \A c : Holdable(p, name, c) => Holdable(p, name, c)'
      BY <1>2 DEF Holdable, NameOf, Other
    <2>5. \A g \in DOMAIN l : /\ Fd(p, g)' = l[g].fd
                              /\ l[g].fd # None => g \in Handles(p)
      BY <2>2 DEF Fd
    <2>6. \A g \in Handles(p) : l[g].fd = Fd(p, g) /\ l[g].name = list[p][g].name
      BY DEF Fd
    <2>7. EntriesFine(p)'
      BY <2>1, <2>2, <2>4, <2>5, <2>6 DEF View, EntriesFine
    <2>8. Owned(p)'
      <3> SUFFICES ASSUME NEW c \in DOMAIN conns,
                          p \in conns[c].open, ~ Contains(backlog[p], c)
                   PROVE  \E g \in DOMAIN l : l[g].fd = c
        BY <1>2, <2>2, <2>5 DEF Owned
      <3> QED
        BY <2>1, <2>6 DEF View, Owned
    <2> QED
      BY <2>3, <2>7, <2>8 DEF View
  <1>10. JobFine(p)' /\ Newest(p)' /\ LastFine(p)'
    <2>1. Handles(p)' = DOMAIN l /\ list'[p] = l /\ Fd(p, h)' = l[h].fd
      BY <1>4 DEF Handles, Fd
    <2>2. Addressed(p, h, q)'
      BY <1>2, <2>1 DEF Addressed, Other
    <2>3. JobFine(p)'
      BY <1>1, <1>2, <1>3, <1>5, <2>1, <2>2 DEF JobFine
    <2>4. Newest(p)'
      BY <1>3, <1>5 DEF Newest
    <2>5. last[p] # None => last[p] \in Handles(p)
      BY <1>1 DEF TypeOK, Handles, None
    <2>6. LastFine(p)'
      BY <1>2, <2>1, <2>5 DEF Structure, LastFine
    <2> QED
      BY <2>3, <2>4, <2>6
  <1> QED
    BY <1>3, <1>6, <1>7, <1>8, <1>9, <1>10 DEF Structure

\* sock_send(sock_connect()) keeps it.
LEMMA SendToStructure ==
    ASSUME Structure, NEW p \in Progs, NEW q \in Named, SendTo(p, q)
    PROVE  Structure'
  <1> DEFINE h == HandleFor(p, q)
             l == WithEntry(p, q)
  <1>1. TypeOK /\ MaySend(p) /\ q # p /\ q \in Progs /\ q # Anonymous /\ Begin(p, h, l, q)
    BY DEF Structure, SendTo, Progs
  <1>2. /\ l \in Seq(Entry) /\ h \in DOMAIN l /\ DOMAIN l = Handles(p) \cup {h}
        /\ \A g \in Handles(p) : l[g] = list[p][g]
        /\ l[h].name = q
        /\ h \notin Handles(p) => l[h].fd = None
    <2>1. q \in Named \cup {Anonymous}
      OBVIOUS
    <2> QED
      BY <1>1, <2>1, HandleFacts, Zenon
  <1> HIDE DEF h, l
  <1>3. \A g \in DOMAIN l \ Handles(p) : l[g].fd = None /\ l[g].name # p
    BY <1>1, <1>2
  <1> QED
    BY <1>1, <1>2, <1>3, BeginStructure

\* sock_send(last_msg()) keeps it.
LEMMA ReplyStructure ==
    ASSUME Structure, NEW p \in Progs, Reply(p)
    PROVE  Structure'
  <1> DEFINE h == last[p]
             e == list[p][h]
             q == IF e.name = Anonymous THEN Other(e.fd, p) ELSE e.name
  <1>1. /\ TypeOK /\ MaySend(p) /\ h # None /\ (e.fd = None => e.name # Anonymous)
        /\ Begin(p, h, list[p], q) /\ View(p) /\ LastFine(p)
    BY DEF Structure, Reply
  <1>2. h \in Handles(p) /\ e.name # None
    BY <1>1, Fields DEF TypeOK, None, LastFine
  <1>3. e.name \in Named \cup {Anonymous} /\ Fd(p, h) = e.fd /\ list[p] \in Seq(Entry)
    BY <1>1, <1>2, Fields DEF Fd
  <1>4. e.name = Anonymous => e.fd # None /\ e.fd \in DOMAIN conns
    BY <1>1, <1>2, <1>3 DEF View, EntriesFine, Holdable
  <1>5. q \in Progs /\ (e.name # Anonymous => q \in Named)
    BY <1>1, <1>3, <1>4, Fields DEF Other, Progs
  <1> HIDE DEF h, e, q
  <1> QED
    BY <1>1, <1>2, <1>3, <1>4, <1>5, BeginStructure DEF e, q, Handles

\* A step of sock_write() that leaves ends and entries alone.
LEMMA StayStructure ==
    ASSUME Structure, NEW p \in Progs, job[p] # Idle, NEW j \in {Idle} \cup Job,
           job' = [job EXCEPT ![p] = j],
           j = Idle \/ /\ j.handle = job[p].handle /\ j.msg = job[p].msg
                       /\ j.at # "connect" /\ job[p].at # "connect",
           conns' \in Seq(Conn), DOMAIN conns' = DOMAIN conns,
           \A c \in DOMAIN conns :
               /\ conns'[c].from = conns[c].from /\ conns'[c].to = conns[c].to
               /\ conns'[c].open = conns[c].open /\ Sound(conns'[c]),
           accepted' = accepted \/ accepted' = accepted \cup {job[p].msg},
           UNCHANGED <<up, down, backlog, list, last, left, sent, delivered, upset,
                       crossed, faults>>
    PROVE  Structure'
  <1>1. /\ TypeOK /\ View(p) /\ JobFine(p) /\ Newest(p) /\ LastFine(p)
        /\ job \in [Progs -> {Idle} \cup Job]
    BY DEF Structure, TypeOK
  <1>2. /\ job' \in [Progs -> {Idle} \cup Job] /\ job'[p] = j
        /\ \A r \in Progs \ {p} : job'[r] = job[r]
    BY <1>1
  <1>3. accepted' \subseteq 1 .. MaxSends
    <2>1. job[p] \in Job
      BY <1>1
    <2>2. job[p].msg \in 1 .. MaxSends
      BY <2>1 DEF Job
    <2> QED
      BY <2>2 DEF Structure, TypeOK
  <1>4. Len(conns') <= MaxConns
    <2>1. DOMAIN conns = 1 .. Len(conns) /\ DOMAIN conns' = 1 .. Len(conns')
          /\ Len(conns) \in Nat /\ Len(conns') \in Nat
      BY <1>1 DEF TypeOK
    <2> QED
      BY <1>1, <2>1 DEF TypeOK
  <1>5. TypeOK'
    BY <1>1, <1>2, <1>3, <1>4 DEF TypeOK
  <1>6. ASSUME NEW r \in Progs PROVE View(r)'
    BY <1>1, ViewKept DEF Structure
  <1>7. ASSUME NEW r \in Progs \ {p} PROVE JobFine(r)' /\ Newest(r)' /\ LastFine(r)'
    BY <1>1, <1>2, JobKept DEF Structure
  <1>8. JobFine(p)' /\ Newest(p)' /\ LastFine(p)'
    <2>1. CASE j = Idle
      BY <1>1, <1>2, <2>1 DEF JobFine, Newest, LastFine
    <2>2. CASE j # Idle
      <3> PICK h : h = job[p].handle
        OBVIOUS
      <3>1. /\ h \in Handles(p) /\ Handles(p)' = Handles(p) /\ Fd(p, h)' = Fd(p, h)
            /\ Addressed(p, h, sent[job[p].msg].to)
        BY <1>1 DEF JobFine, Handles, Fd
      <3>2. Fd(p, h) # None => Fd(p, h) \in DOMAIN conns
        BY <1>1, <3>1 DEF View, EntriesFine, Holdable
      <3>3. Addressed(p, h, sent[job[p].msg].to)'
        <4>1. job'[p].msg = job[p].msg /\ job'[p].handle = h
          BY <1>2, <2>2
        <4>2. list[p][h].name = Anonymous => Other(Fd(p, h), p)' = Other(Fd(p, h), p)
          BY <3>1, <3>2 DEF Addressed, Other
        <4> QED
          BY <3>1, <4>1, <4>2 DEF Addressed
      <3> QED
        BY <1>1, <1>2, <2>2, <3>1, <3>3 DEF JobFine, Newest, LastFine
    <2> QED
      BY <2>1, <2>2
  <1> QED
    BY <1>5, <1>6, <1>7, <1>8 DEF Structure

\* One connection changes.
LEMMA OneConn ==
    ASSUME TypeOK, NEW c \in DOMAIN conns, NEW r \in Conn,
           conns' = [conns EXCEPT ![c] = r]
    PROVE  /\ conns' \in Seq(Conn) /\ DOMAIN conns' = DOMAIN conns
           /\ Len(conns') = Len(conns) /\ conns'[c] = r
           /\ \A d \in DOMAIN conns : d # c => conns'[d] = conns[d]
  BY DEF TypeOK

\* A program in sock_write(), past its connect().
LEMMA JobFacts ==
    ASSUME Structure, NEW p \in Progs, job[p].at # "loop"
    PROVE  LET h == job[p].handle
               c == Fd(p, h)
           IN
           /\ job[p] # Idle /\ job[p] \in Job /\ p \in up
           /\ h \in Handles(p) /\ job[p].msg \in DOMAIN sent
           /\ sent[job[p].msg].from = p
           /\ Addressed(p, h, sent[job[p].msg].to)
           /\ list[p][h].name \in Named \cup {Anonymous} /\ list[p][h].name # p
           /\ job[p].at = "connect" <=> c = None
           /\ job[p].at # "connect" =>
                  /\ c \in DOMAIN conns /\ p \in conns[c].open /\ p \in Pair(c)
                  /\ ~ Contains(backlog[p], c)
                  /\ Sound(conns[c])
                  /\ NameOf(Other(c, p)) = list[p][h].name
                  /\ sent[job[p].msg].to = Other(c, p)
                  /\ Other(c, p) \in Progs \ {p} /\ Other(Fd(p, h), Other(c, p)) = p
  <1> DEFINE h == job[p].handle
             c == Fd(p, h)
  <1>1. TypeOK /\ View(p) /\ JobFine(p)
    BY DEF Structure
  <1>2. job[p] # Idle /\ job[p] \in Job
    BY <1>1 DEF Idle, TypeOK
  <1>3. /\ p \in up /\ h \in Handles(p) /\ job[p].msg \in DOMAIN sent
        /\ sent[job[p].msg].from = p
        /\ Addressed(p, h, sent[job[p].msg].to)
        /\ job[p].at = "connect" <=> c = None
    BY <1>1, <1>2 DEF JobFine
  <1>4. list[p][h].name # p /\ list[p][h].name \in Named \cup {Anonymous}
    BY <1>1, <1>3 DEF View, EntriesFine, Addressed
  <1>5. ASSUME job[p].at # "connect"
        PROVE  /\ c \in DOMAIN conns /\ p \in conns[c].open /\ p \in Pair(c)
               /\ ~ Contains(backlog[p], c) /\ Sound(conns[c])
               /\ NameOf(Other(c, p)) = list[p][h].name
    <2>1. Holdable(p, list[p][h].name, c)
      BY <1>1, <1>3, <1>5 DEF View, EntriesFine
    <2>2. Sound(conns[c])
      BY <2>1 DEF Structure, Holdable
    <2> QED
      BY <2>1, <2>2 DEF Holdable, Sound, Pair
  <1>6. ASSUME job[p].at # "connect"
        PROVE  /\ sent[job[p].msg].to = Other(c, p)
               /\ Other(c, p) \in Progs \ {p} /\ Other(c, Other(c, p)) = p
    <2>1. Other(c, p) \in Progs \ {p} /\ Other(c, Other(c, p)) = p
      BY <1>1, <1>5, <1>6, Fields DEF Other, Pair, Sound
    <2>2. sent[job[p].msg].to = Other(c, p)
      BY <1>3, <1>5, <1>6, <2>1 DEF Addressed, NameOf
    <2> QED
      BY <2>1, <2>2
  <1> QED
    BY <1>2, <1>3, <1>4, <1>5, <1>6

\* So does the frame that names the program,
LEMMA SendNameStructure ==
    ASSUME Structure, NEW p \in Progs, SendName(p)
    PROVE  Structure'
  <1> DEFINE c == Fd(p, job[p].handle)
             r == [conns[c] EXCEPT !.named = TRUE]
             j == [job[p] EXCEPT !.at = "write"]
  <1>1. TypeOK /\ job[p].at = "name" /\ job[p].at # "connect"
    BY DEF Structure, SendName
  <1>2. job[p] # Idle /\ job[p] \in Job /\ c \in DOMAIN conns /\ Sound(conns[c])
    BY <1>1, JobFacts
  <1>3. r \in Conn /\ r.from = conns[c].from /\ r.to = conns[c].to
        /\ r.open = conns[c].open /\ r.reset = conns[c].reset
        /\ r.unread = conns[c].unread
    BY <1>1, <1>2, Fields DEF Conn
  <1>4. Sound(r)
    BY <1>2, <1>3 DEF Sound
  <1>5. conns' = [conns EXCEPT ![c] = r]
    BY DEF SendName
  <1>6. /\ j \in Job /\ j.handle = job[p].handle /\ j.msg = job[p].msg
        /\ j.at # "connect"
    BY <1>2 DEF Job
  <1>7. job' = [job EXCEPT ![p] = j]
    BY DEF SendName, Goto
  <1> HIDE DEF c, r, j
  <1>8. /\ conns' \in Seq(Conn) /\ DOMAIN conns' = DOMAIN conns
        /\ \A d \in DOMAIN conns :
               /\ conns'[d].from = conns[d].from /\ conns'[d].to = conns[d].to
               /\ conns'[d].open = conns[d].open /\ Sound(conns'[d])
    BY <1>1, <1>2, <1>3, <1>4, <1>5, OneConn DEF Structure
  <1>9. UNCHANGED <<up, down, backlog, list, last, left, sent, accepted, delivered,
                    upset, crossed, faults>>
    BY DEF SendName
  <1> QED
    BY <1>1, <1>2, <1>6, <1>7, <1>8, <1>9, StayStructure

\* a frame that is written or fails,
LEMMA WriteFrameStructure ==
    ASSUME Structure, NEW p \in Progs, WriteFrame(p),
           p \notin conns[Fd(p, job[p].handle)].reset
    PROVE  Structure'
  <1> DEFINE c == Fd(p, job[p].handle)
             q == Other(c, p)
             j == [job[p] EXCEPT !.at = "check"]
             u == [conns[c].unread EXCEPT ![q] = Append(@, job[p].msg)]
             r == IF q \in conns[c].open THEN [conns[c] EXCEPT !.unread = u]
                  ELSE [conns[c] EXCEPT !.reset = @ \cup {p}]
  <1>1. TypeOK /\ job[p].at = "write" /\ job[p].at # "connect"
    BY DEF Structure, WriteFrame
  <1>2. /\ job[p] # Idle /\ job[p] \in Job /\ c \in DOMAIN conns /\ Sound(conns[c])
        /\ p \in Pair(c) /\ q \in Progs \ {p} /\ Other(c, q) = p
    BY <1>1, JobFacts
  <1>3. /\ conns[c] \in Conn /\ conns[c].unread \in [Progs -> Seq(1 .. MaxSends)]
        /\ conns[c].reset \in SUBSET Progs /\ job[p].msg \in 1 .. MaxSends
    BY <1>1, <1>2, Fields DEF Job
  <1>4. /\ u \in [Progs -> Seq(1 .. MaxSends)]
        /\ \A s \in Progs \ {q} : u[s] = conns[c].unread[s]
    BY <1>2, <1>3
  <1>5. /\ r \in Conn /\ r.from = conns[c].from /\ r.to = conns[c].to
        /\ r.open = conns[c].open
        /\ q \in conns[c].open => r.reset = conns[c].reset /\ r.unread = u
        /\ q \notin conns[c].open =>
               r.reset = conns[c].reset \cup {p} /\ r.unread = conns[c].unread
    <2> HIDE DEF u
    <2>1. CASE q \in conns[c].open
      BY <1>3, <1>4, <2>1 DEF Conn
    <2>2. CASE q \notin conns[c].open
      BY <1>2, <1>3, <2>2 DEF Conn
    <2> QED
      BY <2>1, <2>2
  <1>6. conns' = [conns EXCEPT ![c] = r]
    <2>1. CASE q \in conns[c].open
      <3>1. conns' = [conns EXCEPT ![c].unread[q] = Append(@, job[p].msg)]
        BY <2>1 DEF WriteFrame
      <3> QED
        BY <2>1, <3>1
    <2>2. CASE q \notin conns[c].open
      <3>1. conns' = [conns EXCEPT ![c].reset = @ \cup {p}]
        BY <2>2 DEF WriteFrame
      <3> QED
        BY <2>2, <3>1
    <2> QED
      BY <2>1, <2>2
  <1>7. /\ j \in Job /\ j.handle = job[p].handle /\ j.msg = job[p].msg
        /\ j.at # "connect"
    BY <1>2 DEF Job
  <1>8. job' = [job EXCEPT ![p] = j]
    BY DEF WriteFrame, Goto
  <1>9. UNCHANGED <<up, down, backlog, list, last, left, sent, accepted, delivered,
                    upset, crossed, faults>>
    BY DEF WriteFrame
  <1>10. Sound(r)
    <2>1. q = IF conns[c].from = p THEN conns[c].to ELSE conns[c].from
      BY DEF Other
    <2> HIDE DEF c, r, j, q, u
    <2>2. CASE q \in conns[c].open
      BY <1>2, <1>4, <1>5, <2>2 DEF Sound
    <2>3. CASE q \notin conns[c].open
      BY <1>2, <1>5, <2>1, <2>3 DEF Sound, Pair
    <2> QED
      BY <2>2, <2>3
  <1> HIDE DEF c, r, j, q, u
  <1>11. /\ conns' \in Seq(Conn) /\ DOMAIN conns' = DOMAIN conns
         /\ \A d \in DOMAIN conns :
                /\ conns'[d].from = conns[d].from /\ conns'[d].to = conns[d].to
                /\ conns'[d].open = conns[d].open /\ Sound(conns'[d])
    BY <1>1, <1>2, <1>5, <1>6, <1>10, OneConn DEF Structure
  <1> QED
    BY <1>1, <1>2, <1>7, <1>8, <1>9, <1>11, StayStructure

\* sock_write() returns without touching a connection.
LEMMA ReturnStructure ==
    ASSUME Structure, NEW p \in Progs, job[p] # Idle, Return(p),
           accepted' = accepted \/ accepted' = accepted \cup {job[p].msg},
           UNCHANGED <<up, down, conns, backlog, list, last, left, sent, delivered,
                       upset, crossed, faults>>
    PROVE  Structure'
  <1>1. TypeOK /\ \A d \in DOMAIN conns : Sound(conns[d])
    BY DEF Structure
  <1>2. conns' \in Seq(Conn) /\ conns' = conns
    BY <1>1 DEF TypeOK
  <1> DEFINE j == Idle
  <1>3. job' = [job EXCEPT ![p] = j] /\ j \in {Idle} \cup Job
    BY DEF Return
  <1> QED
    BY <1>1, <1>2, <1>3, StayStructure

\* One entry changes.
LEMMA OneEntry ==
    ASSUME TypeOK, NEW p \in Progs, NEW h \in Handles(p), NEW fd \in 0 .. MaxConns,
           list' = [list EXCEPT ![p][h].fd = fd]
    PROVE  /\ list' \in [Progs -> Seq(Entry)]
           /\ Handles(p)' = Handles(p) /\ Len(list'[p]) = Len(list[p])
           /\ list'[p][h].name = list[p][h].name
           /\ list'[p][h].linked = list[p][h].linked
           /\ Fd(p, h)' = fd
           /\ \A g \in Handles(p) \ {h} : list'[p][g] = list[p][g] /\ Fd(p, g)' = Fd(p, g)
           /\ \A r \in Progs \ {p} : list'[r] = list[r]
  <1> DEFINE e == [list[p][h] EXCEPT !.fd = fd]
             l == [list[p] EXCEPT ![h] = e]
  <1>1. /\ list[p] \in Seq(Entry) /\ list[p][h] \in Entry
        /\ Handles(p) = 1 .. Len(list[p])
    BY Fields
  <1>2. /\ e \in Entry /\ e.fd = fd /\ e.name = list[p][h].name
        /\ e.linked = list[p][h].linked
    BY <1>1 DEF Entry
  <1> HIDE DEF e
  <1>3. /\ l \in Seq(Entry) /\ DOMAIN l = Handles(p) /\ Len(l) = Len(list[p])
        /\ l[h] = e /\ \A g \in Handles(p) \ {h} : l[g] = list[p][g]
    BY <1>1, <1>2
  <1>4. list' = [list EXCEPT ![p] = l]
    BY DEF e
  <1> HIDE DEF l
  <1>5. /\ list' \in [Progs -> Seq(Entry)] /\ list'[p] = l
        /\ \A r \in Progs \ {p} : list'[r] = list[r]
    <2>1. list \in [Progs -> Seq(Entry)]
      BY DEF TypeOK
    <2> QED
      BY <1>3, <1>4, <2>1
  <1> QED
    BY <1>2, <1>3, <1>5 DEF Handles, Fd

\* Connections closed at p's end stay sound.
LEMMA ClosedSound ==
    ASSUME TypeOK, NEW p \in Progs, NEW C,
           \A c \in C \cap DOMAIN conns : p \in conns[c].open,
           NEW c \in DOMAIN conns, Sound(conns[c])
    PROVE  Sound(Closed(C, p)[c])
  <1> DEFINE n == Closed(C, p)[c]
  <1>1. /\ n.from = conns[c].from /\ n.to = conns[c].to
        /\ c \notin C => n = conns[c]
        /\ c \in C =>
               /\ n.open = conns[c].open \ {p}
               /\ n.unread = [conns[c].unread EXCEPT ![p] = <<>>]
               /\ n.reset = conns[c].reset \/ n.reset = conns[c].reset \cup {Other(c, p)}
    <2>1. ClosedConn(C, p, c)
      BY ClosedFields
    <2> QED
      BY <2>1 DEF ClosedConn
  <1>2. conns[c].unread \in [Progs -> Seq(1 .. MaxSends)]
    BY Fields
  <1> HIDE DEF n
  <1>3. CASE c \in C
    <2>1. p \in {conns[c].from, conns[c].to}
      BY <1>3 DEF Sound
    <2>2. n.from # n.to /\ n.open \subseteq {n.from, n.to}
      BY <1>1, <1>3 DEF Sound
    <2>3. \A r \in Progs \ n.open : n.unread[r] = <<>>
      BY <1>1, <1>2, <1>3 DEF Sound
    <2>4. ASSUME NEW r \in n.reset
          PROVE  /\ r \in {n.from, n.to}
                 /\ (IF n.from = r THEN n.to ELSE n.from) \notin n.open
      BY <1>1, <1>3, <2>1, <2>4 DEF Sound, Other
    <2>5. Sound(n)
      BY <2>2, <2>3, <2>4 DEF Sound
    <2> QED
      BY <2>5 DEF n
  <1>4. CASE c \notin C
    BY <1>1, <1>4 DEF n
  <1> QED
    BY <1>3, <1>4

\* What a program sees after it closed the connections C of its entries.
LEMMA ViewShut ==
    ASSUME TypeOK, NEW p \in Progs, View(p), NEW C,
           DOMAIN conns' = DOMAIN conns, backlog'[p] = backlog[p],
           \A c \in C : ~ Contains(backlog[p], c),
           \A c \in DOMAIN conns :
               /\ conns'[c].from = conns[c].from /\ conns'[c].to = conns[c].to
               /\ p \in conns'[c].open <=> p \in conns[c].open /\ c \notin C,
           Handles(p)' = Handles(p),
           \A h \in Handles(p) :
               /\ Fd(p, h)' = IF Fd(p, h) \in C THEN None ELSE Fd(p, h)
               /\ \/ list'[p][h].name = list[p][h].name
                  \/ list'[p][h].name = None /\ Fd(p, h)' = None
    PROVE  View(p)'
  <1>1. BacklogFine(p)'
    <2>1. ASSUME NEW i \in DOMAIN backlog[p] PROVE Contains(backlog[p], backlog[p][i])
      BY Fields DEF Contains
    <2> QED
      BY <2>1 DEF View, BacklogFine
  <1>2. \A name : \A c \in DOMAIN conns \ C : Holdable(p, name, c) => Holdable(p, name, c)'
    BY DEF Holdable, NameOf, Other
  <1>3. EntriesFine(p)'
    <2>1. ASSUME NEW h \in Handles(p)
          PROVE  /\ list'[p][h].name # p
                 /\ Fd(p, h)' # None => Holdable(p, list[p][h].name, Fd(p, h))'
      BY <1>2 DEF View, EntriesFine, Holdable
    <2>2. \A g, h \in Handles(p) : Fd(p, g)' = Fd(p, h)' /\ Fd(p, g)' # None => g = h
      BY DEF View, EntriesFine
    <2> QED
      BY <2>1, <2>2 DEF EntriesFine, Holdable
  <1>4. Owned(p)'
    BY DEF View, Owned
  <1> QED
    BY <1>1, <1>3, <1>4 DEF View

\* All that is kept for a program by a step of another.
LEMMA OthersKept ==
    ASSUME Structure, NEW r \in Progs,
           list'[r] = list[r], backlog'[r] = backlog[r], job'[r] = job[r],
           last'[r] = last[r], r \in up => r \in up', sent' = sent,
           DOMAIN conns' = DOMAIN conns,
           \A c \in DOMAIN conns :
               /\ conns'[c].from = conns[c].from /\ conns'[c].to = conns[c].to
               /\ r \in conns'[c].open <=> r \in conns[c].open
    PROVE  View(r)' /\ JobFine(r)' /\ Newest(r)' /\ LastFine(r)'
  <1>1. TypeOK /\ View(r) /\ JobFine(r) /\ Newest(r) /\ LastFine(r)
    BY DEF Structure
  <1>2. View(r)'
    BY <1>1, ViewKept
  <1> QED
    BY <1>1, <1>2, JobKept

\* last_conn is an entry of the list.
LEMMA LastHandle ==
    ASSUME TypeOK, NEW p \in Progs, last[p] # None
    PROVE  last[p] \in Handles(p)
  <1>1. Handles(p) = 1 .. Len(list[p]) /\ Len(list[p]) \in Nat
    BY Fields
  <1> QED
    BY <1>1 DEF TypeOK, None

\* The step of a job that goes on at its entry.
LEMMA JobGoesOn ==
    ASSUME Structure, NEW p \in Progs, job[p] # Idle, NEW j \in Job,
           j.handle = job[p].handle, j.msg = job[p].msg,
           job' = [job EXCEPT ![p] = j], sent' = sent, up' = up, last' = last,
           Handles(p)' = Handles(p),
           \A h \in Handles(p) : list'[p][h].name = list[p][h].name,
           list[p][j.handle].name # Anonymous,
           j.at = "connect" <=> Fd(p, j.handle)' = None
    PROVE  JobFine(p)' /\ Newest(p)' /\ LastFine(p)'
  <1>1. /\ TypeOK /\ JobFine(p) /\ Newest(p) /\ LastFine(p)
        /\ job \in [Progs -> {Idle} \cup Job]
    BY DEF Structure, TypeOK
  <1>2. job'[p] = j
    BY <1>1
  <1>3. /\ p \in up /\ j.handle \in Handles(p) /\ j.msg \in DOMAIN sent
        /\ sent[j.msg].from = p /\ Addressed(p, j.handle, sent[j.msg].to)
    BY <1>1 DEF JobFine
  <1>4. \A q : Addressed(p, j.handle, q) => Addressed(p, j.handle, q)'
    BY <1>3 DEF Addressed
  <1>5. JobFine(p)'
    BY <1>2, <1>3, <1>4 DEF JobFine
  <1>6. Newest(p)'
    BY <1>1, <1>2 DEF Newest
  <1>7. last[p] # None => last[p] \in Handles(p)
    BY <1>1, Fields DEF TypeOK, None
  <1>8. LastFine(p)'
    BY <1>1, <1>7 DEF LastFine
  <1> QED
    BY <1>5, <1>6, <1>8

\* connect() succeeds.
LEMMA ConnectStep ==
    ASSUME Structure, NEW p \in Progs, Connect(p)
    PROVE  LET h == job[p].handle
               q == list[p][h].name
               c == Len(conns) + 1
           IN
           /\ job[p] # Idle /\ job[p] \in Job /\ h \in Handles(p) /\ Fd(p, h) = None
           /\ q \in Named /\ q \in Progs /\ p # q /\ q = sent[job[p].msg].to
           /\ job[p].at = "connect"
           /\ \/ Return(p) /\ UNCHANGED <<conns, backlog, list, crossed>>
              \/ /\ q \in up /\ c \in 1 .. MaxConns /\ c \notin DOMAIN conns
                 /\ conns' \in Seq(Conn) /\ Len(conns') = c
                 /\ DOMAIN conns' = DOMAIN conns \cup {c}
                 /\ \A d \in DOMAIN conns : conns'[d] = conns[d]
                 /\ conns'[c].from = p /\ conns'[c].to = q
                 /\ conns'[c].open = {p, q} /\ conns'[c].reset = {}
                 /\ ~ conns'[c].named
                 /\ conns'[c].unread = [r \in Progs |-> <<>>]
                 /\ backlog' = [backlog EXCEPT ![q] = Append(@, c)]
                 /\ list' = [list EXCEPT ![p][h].fd = c]
                 /\ crossed' = IF \E d \in DOMAIN conns : conns[d].open = {p, q}
                               THEN crossed \cup {{p, q}} ELSE crossed
                 /\ Goto(p, "name")
  <1> DEFINE h == job[p].handle
             q == list[p][h].name
             c == Len(conns) + 1
             new == [from |-> p, to |-> q, open |-> {p, q}, reset |-> {},
                     named |-> FALSE, unread |-> [r \in Progs |-> <<>>]]
  <1>1. TypeOK /\ job[p].at = "connect"
    BY DEF Structure, Connect
  <1>2. /\ job[p] # Idle /\ job[p] \in Job /\ h \in Handles(p) /\ Fd(p, h) = None
        /\ Addressed(p, h, sent[job[p].msg].to) /\ p # q
    BY <1>1, JobFacts
  <1>3. q \in Named /\ q \in Progs /\ q = sent[job[p].msg].to
    BY <1>2 DEF Addressed, Progs
  <1>4. \/ Return(p) /\ UNCHANGED <<conns, backlog, list, crossed>>
        \/ /\ q \in up /\ ~ c > MaxConns
           /\ conns' = Append(conns, new)
           /\ backlog' = [backlog EXCEPT ![q] = Append(@, c)]
           /\ list' = [list EXCEPT ![p][h].fd = c]
           /\ crossed' = IF \E d \in DOMAIN conns : conns[d].open = {p, q}
                         THEN crossed \cup {{p, q}} ELSE crossed
           /\ Goto(p, "name")
    BY DEF Connect
  <1>5. CASE Return(p) /\ UNCHANGED <<conns, backlog, list, crossed>>
    BY <1>1, <1>2, <1>3, <1>5
  <1>6. CASE ~ (Return(p) /\ UNCHANGED <<conns, backlog, list, crossed>>)
    <2>1. q \in up /\ ~ c > MaxConns /\ conns' = Append(conns, new)
      BY <1>4, <1>6
    <2>2. new \in Conn
      <3>1. {p, q} \in SUBSET Progs /\ [r \in Progs |-> <<>>] \in [Progs -> Seq(1 .. MaxSends)]
        BY <1>3
      <3> QED
        BY <1>3, <3>1 DEF Conn
    <2>3. /\ new.from = p /\ new.to = q /\ new.open = {p, q} /\ new.reset = {}
          /\ ~ new.named /\ new.unread = [r \in Progs |-> <<>>]
      OBVIOUS
    <2> HIDE DEF new
    <2>4. conns \in Seq(Conn) /\ Len(conns) \in Nat /\ DOMAIN conns = 1 .. Len(conns)
      BY <1>1 DEF TypeOK
    <2>5. /\ conns' \in Seq(Conn) /\ Len(conns') = c /\ c \in 1 .. MaxConns
          /\ c \notin DOMAIN conns /\ conns'[c] = new
          /\ DOMAIN conns' = DOMAIN conns \cup {c}
          /\ \A d \in DOMAIN conns : conns'[d] = conns[d]
      BY <2>1, <2>2, <2>4
    <2> QED
      BY <1>1, <1>2, <1>3, <1>4, <1>6, <2>1, <2>3, <2>5
  <1> QED
    BY <1>5, <1>6

\* a connection that is opened or refused,
LEMMA ConnectStructure ==
    ASSUME Structure, NEW p \in Progs, Connect(p)
    PROVE  Structure'
  <1>1. PICK h, q, c : h = job[p].handle /\ q = list[p][h].name /\ c = Len(conns) + 1
    OBVIOUS
  <1>2. /\ TypeOK
        /\ UNCHANGED <<up, down, last, left, sent, accepted, delivered, upset, faults>>
    BY DEF Structure, Connect
  <1>3. CASE Return(p) /\ UNCHANGED <<conns, backlog, list, crossed>>
    <2>1. job[p] # Idle
      BY ConnectStep
    <2> QED
      BY <1>2, <1>3, <2>1, ReturnStructure
  <1>4. CASE ~ (Return(p) /\ UNCHANGED <<conns, backlog, list, crossed>>)
    <2>1. /\ job[p] # Idle /\ job[p] \in Job /\ h \in Handles(p) /\ Fd(p, h) = None
          /\ q \in Named /\ q \in Progs /\ p # q /\ c \in 1 .. MaxConns
          /\ c \notin DOMAIN conns
          /\ conns' \in Seq(Conn) /\ Len(conns') = c
          /\ DOMAIN conns' = DOMAIN conns \cup {c}
          /\ \A d \in DOMAIN conns : conns'[d] = conns[d]
          /\ conns'[c].from = p /\ conns'[c].to = q
          /\ conns'[c].open = {p, q} /\ conns'[c].reset = {}
          /\ conns'[c].unread = [r \in Progs |-> <<>>]
          /\ backlog' = [backlog EXCEPT ![q] = Append(@, c)]
          /\ list' = [list EXCEPT ![p][h].fd = c]
          /\ crossed' = crossed \/ crossed' = crossed \cup {{p, q}}
          /\ Goto(p, "name")
      BY <1>1, <1>4, ConnectStep
    <2>2. /\ list' \in [Progs -> Seq(Entry)]
          /\ Handles(p)' = Handles(p) /\ Len(list'[p]) = Len(list[p])
          /\ list'[p][h].name = list[p][h].name
          /\ Fd(p, h)' = c
          /\ \A g \in Handles(p) \ {h} : list'[p][g] = list[p][g] /\ Fd(p, g)' = Fd(p, g)
          /\ \A r \in Progs \ {p} : list'[r] = list[r]
      <3>1. c \in 0 .. MaxConns /\ h \in Handles(p) /\ list' = [list EXCEPT ![p][h].fd = c]
        BY <2>1
      <3> QED
        BY <1>2, <3>1, OneEntry
    <2>3. /\ backlog' \in [Progs -> Seq(1 .. MaxConns)]
          /\ backlog'[q] = Append(backlog[q], c)
          /\ \A r \in Progs \ {q} : backlog'[r] = backlog[r]
      <3>1. backlog \in [Progs -> Seq(1 .. MaxConns)]
        BY <1>2 DEF TypeOK
      <3>2. Append(backlog[q], c) \in Seq(1 .. MaxConns)
        BY <2>1, <3>1
      <3> QED
        BY <2>1, <3>1, <3>2
    <2>4. PICK j \in Job : /\ j.handle = h /\ j.msg = job[p].msg /\ j.at = "name"
                           /\ job' = [job EXCEPT ![p] = j]
      <3> DEFINE j == [job[p] EXCEPT !.at = "name"]
      <3>1. j \in Job /\ j.handle = h /\ j.msg = job[p].msg /\ j.at = "name"
        BY <1>1, <2>1 DEF Job
      <3>2. job' = [job EXCEPT ![p] = j]
        BY <2>1 DEF Goto
      <3> QED
        BY <3>1, <3>2
    <2>5. /\ job' \in [Progs -> {Idle} \cup Job]
          /\ \A r \in Progs \ {p} : job'[r] = job[r]
      <3>1. job \in [Progs -> {Idle} \cup Job]
        BY <1>2 DEF TypeOK
      <3> QED
        BY <2>4, <3>1
    <2>6. TypeOK'
      <3>1. crossed' \subseteq SUBSET Progs
        <4>1. {p, q} \in SUBSET Progs /\ crossed \subseteq SUBSET Progs
          BY <1>2, <2>1 DEF TypeOK
        <4>2. crossed' = crossed \/ crossed' = crossed \cup {{p, q}}
          BY <2>1
        <4> QED
          BY <4>1, <4>2
      <3>2. \A r \in Progs : Len(list'[r]) = Len(list[r])
        BY <2>2
      <3>3. conns' \in Seq(Conn) /\ Len(conns') <= MaxConns
        BY <2>1
      <3>4. list' \in [Progs -> Seq(Entry)] /\ backlog' \in [Progs -> Seq(1 .. MaxConns)]
        BY <2>2, <2>3
      <3> QED
        BY <1>2, <2>5, <3>1, <3>2, <3>3, <3>4 DEF TypeOK
    <2>7. \A d \in DOMAIN conns' : Sound(conns'[d])
      <3>1. Sound(conns'[c])
        BY <2>1 DEF Sound
      <3> QED
        BY <2>1, <3>1 DEF Structure
    <2>8. ASSUME NEW r \in Progs \ {p} PROVE JobFine(r)' /\ Newest(r)' /\ LastFine(r)'
      <3>1. View(r) /\ JobFine(r) /\ Newest(r) /\ LastFine(r)
        BY DEF Structure
      <3> QED
        BY <1>2, <2>1, <2>2, <2>5, <3>1, JobKept
    <2>9. JobFine(p)' /\ Newest(p)' /\ LastFine(p)'
      <3>1. \A g \in Handles(p) : list'[p][g].name = list[p][g].name
        BY <2>2
      <3>2. list[p][j.handle].name # Anonymous
        BY <1>1, <2>1, <2>4 DEF Progs
      <3>3. Fd(p, j.handle)' # None
        <4>1. Fd(p, h)' = c /\ c \in 1 .. MaxConns /\ j.handle = h
          BY <2>1, <2>2, <2>4
        <4>2. Fd(p, j.handle)' = Fd(p, h)'
          BY <4>1 DEF Fd
        <4> QED
          BY <4>1, <4>2 DEF None
      <3>4. Handles(p)' = Handles(p) /\ job[p] # Idle
        BY <2>1, <2>2
      <3> QED
        BY <1>1, <1>2, <2>4, <3>1, <3>2, <3>3, <3>4, JobGoesOn
    <2>10. ASSUME NEW r \in Progs \ {p, q} PROVE View(r)'
      <3>1. View(r) /\ list'[r] = list[r] /\ backlog'[r] = backlog[r]
        BY <2>2, <2>3 DEF Structure
      <3>2. /\ DOMAIN conns \subseteq DOMAIN conns'
            /\ \A d \in DOMAIN conns : conns'[d] = conns[d]
            /\ \A d \in DOMAIN conns' \ DOMAIN conns : r \notin conns'[d].open
        BY <2>1
      <3> QED
        BY <1>2, <3>1, <3>2, ViewKept
    <2>11. \A r \in Progs : View(r) /\ ~ Contains(backlog[r], c)
      <3>1. \A r \in Progs : View(r) /\ backlog[r] \in Seq(1 .. MaxConns)
        BY <1>2, Fields DEF Structure
      <3> QED
        BY <2>1, <3>1 DEF View, BacklogFine, Contains
    <2>12. View(q)'
      <3>1. /\ backlog[q] \in Seq(1 .. MaxConns) /\ View(q)
            /\ \A e : Contains(backlog'[q], e) <=> Contains(backlog[q], e) \/ e = c
        <4>1. backlog[q] \in Seq(1 .. MaxConns)
          BY <1>2, <2>1, Fields
        <4>2. backlog'[q] = Append(backlog[q], c) /\ c \in 1 .. MaxConns /\ View(q)
          BY <2>1, <2>3, <2>11
        <4> QED
          BY <4>1, <4>2, ContainsAppend
      <3>2. /\ Len(backlog[q]) \in Nat /\ DOMAIN backlog[q] = 1 .. Len(backlog[q])
            /\ DOMAIN backlog'[q] = 1 .. Len(backlog[q]) + 1
            /\ \A i \in DOMAIN backlog[q] : backlog'[q][i] = backlog[q][i]
            /\ backlog'[q][Len(backlog[q]) + 1] = c
        BY <2>3, <3>1
      <3>3. BacklogFine(q)'
        <4>1. \A i \in DOMAIN backlog[q] : backlog[q][i] # c
          BY <2>1, <3>1 DEF View, BacklogFine
        <4>2. ASSUME NEW i \in DOMAIN backlog'[q], NEW k \in DOMAIN backlog'[q],
                     backlog'[q][i] = backlog'[q][k]
              PROVE  i = k
          <5>1. \A m, n \in DOMAIN backlog[q] : backlog[q][m] = backlog[q][n] => m = n
            BY <3>1 DEF View, BacklogFine
          <5>2. \A m \in DOMAIN backlog'[q] \ DOMAIN backlog[q] : m = Len(backlog[q]) + 1
            BY <3>2
          <5> QED
            BY <3>2, <4>1, <4>2, <5>1, <5>2
        <4>3. \A i \in DOMAIN backlog'[q] :
                  /\ backlog'[q][i] \in DOMAIN conns'
                  /\ conns'[backlog'[q][i]].to = q /\ q \in conns'[backlog'[q][i]].open
          BY <2>1, <3>1, <3>2 DEF View, BacklogFine
        <4> QED
          BY <4>2, <4>3 DEF BacklogFine
      <3>4. Handles(q)' = Handles(q) /\ \A g \in Handles(q) : Fd(q, g)' = Fd(q, g)
        BY <2>1, <2>2 DEF Handles, Fd
      <3>5. \A name : \A d \in DOMAIN conns : Holdable(q, name, d) => Holdable(q, name, d)'
        BY <2>1, <3>1 DEF Holdable, NameOf, Other
      <3>6. EntriesFine(q)'
        BY <2>1, <2>2, <3>1, <3>4, <3>5 DEF View, EntriesFine, Holdable
      <3>7. Owned(q)'
        BY <2>1, <3>1, <3>4 DEF View, Owned
      <3> QED
        BY <3>3, <3>6, <3>7 DEF View
    <2>13. View(p)'
      <3>1. backlog'[p] = backlog[p] /\ View(p) /\ ~ Contains(backlog[p], c)
        BY <2>1, <2>3, <2>11
      <3>2. BacklogFine(p)'
        BY <2>1, <3>1 DEF View, BacklogFine
      <3>3. \A name : \A d \in DOMAIN conns : Holdable(p, name, d) => Holdable(p, name, d)'
        BY <2>1, <3>1 DEF Holdable, NameOf, Other
      <3>4. Holdable(p, q, c)'
        BY <2>1, <3>1 DEF Holdable, NameOf, Other
      <3>5. EntriesFine(p)'
        <4>1. ASSUME NEW g \in Handles(p)
              PROVE  /\ list'[p][g].name # p
                     /\ Fd(p, g)' # None => Holdable(p, list[p][g].name, Fd(p, g))'
          <5>1. CASE g = h
            <6>1. list'[p][g].name = q /\ Fd(p, g)' = c
              BY <1>1, <2>2, <5>1
            <6>2. Holdable(p, list[p][g].name, Fd(p, g))'
              BY <3>4, <6>1 DEF Holdable
            <6> QED
              BY <2>1, <6>1, <6>2
          <5>2. CASE g # h
            <6>1. /\ list'[p][g].name = list[p][g].name /\ Fd(p, g)' = Fd(p, g)
                  /\ list[p][g].name # p
                  /\ Fd(p, g) # None => Holdable(p, list[p][g].name, Fd(p, g))
              BY <2>2, <3>1, <5>2 DEF View, EntriesFine
            <6>2. ASSUME Fd(p, g) # None
                  PROVE  Holdable(p, list[p][g].name, Fd(p, g))'
              <7>1. PICK d \in DOMAIN conns : d = Fd(p, g)
                BY <6>1, <6>2 DEF Holdable
              <7>2. PICK name : name = list[p][g].name
                OBVIOUS
              <7>3. Holdable(p, name, d)'
                BY <3>3, <6>1, <6>2, <7>1, <7>2
              <7> QED
                BY <6>1, <7>1, <7>2, <7>3 DEF Holdable
            <6> QED
              BY <6>1, <6>2
          <5> QED
            BY <5>1, <5>2
        <4>2. \A g \in Handles(p) \ {h} : Fd(p, g)' # c /\ Fd(p, g)' = Fd(p, g)
          <5>1. \A g \in Handles(p) : Fd(p, g) # None => Fd(p, g) \in DOMAIN conns
            BY <3>1 DEF View, EntriesFine, Holdable
          <5>2. c # None /\ c \notin DOMAIN conns
            BY <2>1 DEF None
          <5> QED
            BY <2>2, <5>1, <5>2
        <4>3. \A g, k \in Handles(p) : Fd(p, g)' = Fd(p, k)' /\ Fd(p, g)' # None => g = k
          BY <2>2, <3>1, <4>2 DEF View, EntriesFine
        <4> QED
          BY <2>2, <4>1, <4>3 DEF EntriesFine
      <3>6. Owned(p)'
        <4>1. \E g \in Handles(p) : Fd(p, g)' = c
          BY <2>1, <2>2
        <4>2. ASSUME NEW d \in DOMAIN conns, p \in conns[d].open, ~ Contains(backlog[p], d)
              PROVE  \E g \in Handles(p) : Fd(p, g)' = d
          <5>1. PICK g \in Handles(p) : Fd(p, g) = d
            BY <3>1, <4>2 DEF View, Owned
          <5>2. d # None
            BY <1>2, Fields DEF None
          <5> QED
            BY <2>1, <2>2, <5>1, <5>2
        <4> QED
          BY <2>1, <2>2, <3>1, <4>1, <4>2 DEF Owned
      <3> QED
        BY <3>2, <3>5, <3>6 DEF View
    <2>14. Len(sent') <= MaxSends
      BY <1>2 DEF Structure
    <2> QED
      BY <2>6, <2>7, <2>8, <2>9, <2>10, <2>12, <2>13, <2>14 DEF Structure
  <1> QED
    BY <1>3, <1>4

\* What Closed() does to the ends: p's are closed, no other is touched.
LEMMA ClosedEnds ==
    ASSUME TypeOK, NEW p \in Progs, NEW C, conns' = Closed(C, p)
    PROVE  /\ conns' \in Seq(Conn) /\ DOMAIN conns' = DOMAIN conns
           /\ Len(conns') = Len(conns)
           /\ \A c \in DOMAIN conns :
                  /\ conns'[c].from = conns[c].from /\ conns'[c].to = conns[c].to
                  /\ p \in conns'[c].open <=> p \in conns[c].open /\ c \notin C
                  /\ \A r \in Progs \ {p} :
                         r \in conns'[c].open <=> r \in conns[c].open
  <1>1. /\ conns' \in Seq(Conn) /\ DOMAIN conns' = DOMAIN conns
        /\ Len(conns') = Len(conns)
    BY ClosedFields
  <1>2. ASSUME NEW c \in DOMAIN conns
        PROVE  /\ conns'[c].from = conns[c].from /\ conns'[c].to = conns[c].to
               /\ p \in conns'[c].open <=> p \in conns[c].open /\ c \notin C
               /\ \A r \in Progs \ {p} :
                      r \in conns'[c].open <=> r \in conns[c].open
    <2>1. ClosedConn(C, p, c)
      BY ClosedFields
    <2> QED
      BY <2>1 DEF ClosedConn
  <1> QED
    BY <1>1, <1>2

\* The attempt failed: sock_write() tries once more, or returns.
LEMMA AgainCases ==
    ASSUME Structure, NEW p \in Progs, job[p] \in Job, Again(p)
    PROVE  \/ /\ job' = [job EXCEPT ![p] = Idle]
              /\ \/ accepted' = accepted
                 \/ accepted' = accepted \cup {job[p].msg} /\ job[p].flag = 1
           \/ /\ accepted' = accepted /\ list[p][job[p].handle].name # Anonymous
              /\ job[p].flag # 1
              /\ \E j \in Job : /\ j.handle = job[p].handle /\ j.msg = job[p].msg
                                /\ j.at = "connect" /\ job' = [job EXCEPT ![p] = j]
  <1> DEFINE j == [job[p] EXCEPT !.flag = 1, !.at = "connect"]
  <1>1. /\ j \in Job /\ j.handle = job[p].handle /\ j.msg = job[p].msg
        /\ j.at = "connect"
    BY DEF Job
  <1>2. CASE job[p].flag = 1 \/ list[p][job[p].handle].name = Anonymous
    BY <1>2 DEF Again, Return
  <1>3. CASE ~ (job[p].flag = 1 \/ list[p][job[p].handle].name = Anonymous)
    <2>1. job' = [job EXCEPT ![p].flag = 1, ![p].at = "connect"] /\ accepted' = accepted
      BY <1>3 DEF Again
    <2>2. job \in [Progs -> {Idle} \cup Job]
      BY DEF Structure, TypeOK
    <2>3. job' = [job EXCEPT ![p] = j]
      BY <2>1, <2>2
    <2> QED
      BY <1>1, <1>3, <2>1, <2>3
  <1> QED
    BY <1>2, <1>3

\* an attempt that is given up,
LEMMA DropStructure ==
    ASSUME Structure, NEW p \in Progs, job[p].at \in {"write", "check"}, Drop(p),
           UNCHANGED <<up, down, backlog, last, left, sent, delivered, upset, crossed,
                       faults>>
    PROVE  Structure'
  <1>1. PICK h, c : h = job[p].handle /\ c = Fd(p, h)
    OBVIOUS
  <1>2. /\ TypeOK /\ View(p) /\ JobFine(p) /\ Newest(p) /\ LastFine(p)
        /\ job \in [Progs -> {Idle} \cup Job]
    BY DEF Structure, TypeOK
  <1>3. /\ job[p] # Idle /\ job[p] \in Job /\ h \in Handles(p)
        /\ c \in DOMAIN conns /\ p \in conns[c].open /\ ~ Contains(backlog[p], c)
    BY <1>1, JobFacts
  <1>4. /\ list' = [list EXCEPT ![p][h].fd = None] /\ conns' = Closed({c}, p)
        /\ Again(p)
    BY <1>1 DEF Drop
  <1>5. /\ list' \in [Progs -> Seq(Entry)]
        /\ Handles(p)' = Handles(p) /\ Len(list'[p]) = Len(list[p])
        /\ list'[p][h].name = list[p][h].name
        /\ Fd(p, h)' = None
        /\ \A g \in Handles(p) \ {h} : list'[p][g] = list[p][g] /\ Fd(p, g)' = Fd(p, g)
        /\ \A r \in Progs \ {p} : list'[r] = list[r]
    <2>1. /\ None \in 0 .. MaxConns /\ h \in Handles(p)
          /\ list' = [list EXCEPT ![p][h].fd = None] /\ TypeOK
      BY <1>2, <1>3, <1>4 DEF None
    <2> QED
      BY <2>1, OneEntry
  <1>6. /\ conns' \in Seq(Conn) /\ DOMAIN conns' = DOMAIN conns
        /\ Len(conns') = Len(conns)
        /\ \A d \in DOMAIN conns :
               /\ conns'[d].from = conns[d].from /\ conns'[d].to = conns[d].to
               /\ p \in conns'[d].open <=> p \in conns[d].open /\ d \notin {c}
               /\ \A r \in Progs \ {p} :
                      r \in conns'[d].open <=> r \in conns[d].open
    BY <1>2, <1>4, ClosedEnds
  <1>7. \A d \in DOMAIN conns' : Sound(conns'[d])
    BY <1>2, <1>3, <1>4, <1>6, ClosedSound DEF Structure
  <1>8. /\ job' \in [Progs -> {Idle} \cup Job]
        /\ \A r \in Progs \ {p} : job'[r] = job[r]
        /\ accepted' \subseteq accepted \cup {job[p].msg}
    BY <1>2, <1>3, <1>4, AgainCases
  <1>9. TypeOK'
    <2>1. job[p].msg \in 1 .. MaxSends
      BY <1>3 DEF Job
    <2>2. accepted' \subseteq 1 .. MaxSends
      BY <1>2, <1>8, <2>1 DEF TypeOK
    <2>3. \A r \in Progs : Len(list'[r]) = Len(list[r])
      BY <1>5
    <2>4. Len(conns') <= MaxConns
      BY <1>2, <1>6 DEF TypeOK
    <2> QED
      BY <1>2, <1>5, <1>6, <1>8, <2>2, <2>3, <2>4 DEF TypeOK
  <1>10. ASSUME NEW r \in Progs \ {p}
         PROVE  View(r)' /\ JobFine(r)' /\ Newest(r)' /\ LastFine(r)'
    BY <1>5, <1>6, <1>8, OthersKept
  <1>11. View(p)'
    <2>1. \A g \in Handles(p) : Fd(p, g) = c => g = h
      BY <1>1, <1>2, <1>3, Fields DEF View, EntriesFine, None
    <2>2. \A g \in Handles(p) : Fd(p, g)' = IF Fd(p, g) \in {c} THEN None ELSE Fd(p, g)
      BY <1>1, <1>5, <2>1
    <2>3. \A g \in Handles(p) : list'[p][g].name = list[p][g].name
      BY <1>5
    <2>4. \A d \in {c} : ~ Contains(backlog[p], d)
      BY <1>3
    <2> QED
      BY <1>2, <1>5, <1>6, <2>2, <2>3, <2>4, ViewShut
  <1>12. JobFine(p)' /\ Newest(p)' /\ LastFine(p)'
    <2>1. \A g \in Handles(p) : list'[p][g].name = list[p][g].name
      BY <1>5
    <2>2. CASE job' = [job EXCEPT ![p] = Idle]
      <3>1. job'[p] = Idle
        BY <1>2, <2>2
      <3>2. last[p] # None => last[p] \in Handles(p)
        BY <1>2, LastHandle
      <3> QED
        BY <1>2, <2>1, <3>1, <3>2 DEF JobFine, Newest, LastFine
    <2>3. CASE job' # [job EXCEPT ![p] = Idle]
      <3>1. /\ list[p][h].name # Anonymous
            /\ \E j \in Job : /\ j.handle = job[p].handle /\ j.msg = job[p].msg
                              /\ j.at = "connect" /\ job' = [job EXCEPT ![p] = j]
        BY <1>1, <1>3, <1>4, <2>3, AgainCases
      <3>2. PICK j \in Job : /\ j.handle = job[p].handle /\ j.msg = job[p].msg
                             /\ j.at = "connect" /\ job' = [job EXCEPT ![p] = j]
        BY <3>1
      <3>3. j.handle = h /\ Fd(p, j.handle)' = None
        BY <1>1, <1>5, <3>2 DEF Fd
      <3> QED
        BY <1>3, <1>5, <2>1, <3>1, <3>2, <3>3, JobGoesOn
    <2> QED
      BY <2>2, <2>3
  <1> QED
    BY <1>7, <1>9, <1>10, <1>11, <1>12 DEF Structure

\* the look at SO_ERROR,
LEMMA CheckStructure ==
    ASSUME Structure, NEW p \in Progs, Check(p)
    PROVE  Structure'
  <1>1. job[p].at = "check" /\ UNCHANGED <<up, down, backlog, last, left, sent, delivered,
                                           upset, crossed, faults>>
    BY DEF Check
  <1>2. CASE Drop(p)
    BY <1>1, <1>2, DropStructure
  <1>3. CASE ~ Drop(p)
    <2>1. /\ Return(p) /\ accepted' = accepted \cup {job[p].msg}
          /\ UNCHANGED <<list, conns>>
      BY <1>3 DEF Check
    <2>2. job[p] # Idle
      BY <1>1 DEF Idle
    <2> QED
      BY <1>1, <2>1, <2>2, ReturnStructure
  <1> QED
    BY <1>2, <1>3

\* and so every step of sock_write().
LEMMA WritingStructure ==
    ASSUME Structure, NEW p \in Progs, Writing(p)
    PROVE  Structure'
  <1>1. CASE Connect(p)
    BY <1>1, ConnectStructure
  <1>2. CASE SendName(p)
    BY <1>2, SendNameStructure
  <1>3. CASE WriteFrame(p)
    <2>1. CASE p \in conns[Fd(p, job[p].handle)].reset
      BY <1>3, <2>1, DropStructure DEF WriteFrame
    <2>2. CASE p \notin conns[Fd(p, job[p].handle)].reset
      BY <1>3, <2>2, WriteFrameStructure
    <2> QED
      BY <2>1, <2>2
  <1>4. CASE Check(p)
    BY <1>4, CheckStructure
  <1> QED
    BY <1>1, <1>2, <1>3, <1>4 DEF Writing

\* A program that starts keeps it,
LEMMA StartStructure ==
    ASSUME Structure, NEW p \in Progs, Start(p)
    PROVE  Structure'
  <1>1. /\ TypeOK /\ p \in down /\ up' = up \cup {p} /\ down' = down \ {p}
        /\ UNCHANGED <<conns, backlog, list, last, job, left, sent, accepted, delivered,
                       upset, crossed, faults>>
    BY DEF Structure, Start
  <1>2. TypeOK'
    <2>1. up' \cup down' = up \cup down
      BY <1>1
    <2> QED
      BY <1>1, <2>1 DEF TypeOK
  <1>3. ASSUME NEW r \in Progs
        PROVE  View(r)' /\ JobFine(r)' /\ Newest(r)' /\ LastFine(r)'
    BY <1>1, OthersKept
  <1> QED
    BY <1>1, <1>2, <1>3 DEF Structure

\* one that calls sock_close(),
LEMMA SockCloseStructure ==
    ASSUME Structure, NEW p \in Progs, NEW h \in Handles(p), SockClose(p, h)
    PROVE  Structure'
  <1> DEFINE head == h = Max(Linked(p))
             gone == [name |-> None, fd |-> None, linked |-> FALSE]
             left1 == [g \in Handles(p) |->
                          IF g = h THEN gone
                          ELSE [list[p][g] EXCEPT !.linked = @ /\ ~ head]]
  <1>1. /\ TypeOK /\ View(p) /\ JobFine(p) /\ Newest(p) /\ LastFine(p)
        /\ p \in up /\ job[p] = Idle /\ faults < MaxFaults
    BY DEF Structure, SockClose
  <1>2. /\ list' = [list EXCEPT ![p] = left1]
        /\ conns' = Closed({Fd(p, h)}, p)
        /\ last' = [last EXCEPT ![p] = IF @ = h THEN None ELSE @]
        /\ faults' = faults + 1
        /\ UNCHANGED <<up, down, backlog, job, left, sent, accepted, delivered, crossed>>
    BY DEF SockClose
  <1>3. \E cut \in SUBSET Handles(p) :
            upset' = upset \cup {Pair(Fd(p, g)) : g \in {k \in cut : Fd(p, k) # None}}
    <2>1. Linked(p) \in SUBSET Handles(p) /\ {h} \in SUBSET Handles(p)
      BY DEF Linked
    <2> QED
      BY <2>1 DEF SockClose
  <1>4. ASSUME NEW g \in Handles(p)
        PROVE  /\ left1[g] \in Entry
               /\ g = h => left1[g].name = None /\ left1[g].fd = None
               /\ g # h => left1[g].name = list[p][g].name /\ left1[g].fd = Fd(p, g)
    <2>1. CASE g = h
      BY <2>1 DEF Entry, None
    <2>2. CASE g # h
      <3>1. list[p][g] \in Entry
        BY <1>1, Fields
      <3>2. left1[g] = [list[p][g] EXCEPT !.linked = @ /\ ~ head]
        BY <2>2
      <3>3. (list[p][g].linked /\ ~ head) \in BOOLEAN
        OBVIOUS
      <3> HIDE DEF head, left1
      <3> QED
        BY <2>2, <3>1, <3>2 DEF Entry, Fd
    <2> QED
      BY <2>1, <2>2
  <1>5. /\ Handles(p) = 1 .. Len(list[p]) /\ Len(list[p]) \in Nat
        /\ list \in [Progs -> Seq(Entry)] /\ last \in [Progs -> Nat]
        /\ \A r \in Progs : last[r] <= Len(list[r])
    BY <1>1, Fields DEF TypeOK
  <1>6. left1 \in [1 .. Len(list[p]) -> Entry]
    BY <1>4, <1>5
  <1>7. /\ left1 \in Seq(Entry) /\ Len(left1) = Len(list[p]) /\ DOMAIN left1 = Handles(p)
    <2> HIDE DEF left1
    <2>1. PICK n \in Nat : n = Len(list[p]) /\ Handles(p) = 1 .. n
      BY <1>5
    <2>2. left1 \in [1 .. n -> Entry]
      BY <1>6, <2>1
    <2> QED
      BY <2>1, <2>2
  <1> HIDE DEF left1
  <1>8. /\ list' \in [Progs -> Seq(Entry)] /\ list'[p] = left1
        /\ \A r \in Progs \ {p} : list'[r] = list[r]
    BY <1>2, <1>5, <1>7
  <1>9. /\ Handles(p)' = Handles(p)
        /\ \A g \in Handles(p) : Fd(p, g)' = left1[g].fd /\ list'[p][g].name = left1[g].name
    BY <1>7, <1>8 DEF Handles, Fd
  <1>10. /\ conns' \in Seq(Conn) /\ DOMAIN conns' = DOMAIN conns
         /\ Len(conns') = Len(conns)
         /\ \A d \in DOMAIN conns :
               /\ conns'[d].from = conns[d].from /\ conns'[d].to = conns[d].to
               /\ p \in conns'[d].open <=> p \in conns[d].open /\ d \notin {Fd(p, h)}
               /\ \A r \in Progs \ {p} :
                      r \in conns'[d].open <=> r \in conns[d].open
    BY <1>1, <1>2, ClosedEnds
  <1>11. Fd(p, h) # None => Holdable(p, list[p][h].name, Fd(p, h))
    BY <1>1 DEF View, EntriesFine
  <1>12. \A d \in DOMAIN conns' : Sound(conns'[d])
    <2>1. \A c \in {Fd(p, h)} \cap DOMAIN conns : p \in conns[c].open
      BY <1>1, <1>11, Fields DEF Holdable, None
    <2>2. \A c \in DOMAIN conns : Sound(conns[c])
      BY DEF Structure
    <2> QED
      BY <1>1, <1>2, <1>10, <2>1, <2>2, ClosedSound
  <1>13. TypeOK'
    <2>1. upset' \subseteq SUBSET Progs
      <3>1. PICK cut \in SUBSET Handles(p) :
                upset' = upset \cup {Pair(Fd(p, g)) : g \in {k \in cut : Fd(p, k) # None}}
        BY <1>3
      <3>2. ASSUME NEW g \in cut, Fd(p, g) # None PROVE Pair(Fd(p, g)) \in SUBSET Progs
        <4>1. g \in Handles(p)
          BY <3>1
        <4>2. Fd(p, g) \in DOMAIN conns
          BY <1>1, <3>2, <4>1 DEF View, EntriesFine, Holdable
        <4> QED
          BY <1>1, <4>2, Fields DEF Pair
      <3>3. upset \subseteq SUBSET Progs
        BY <1>1 DEF TypeOK
      <3> QED
        BY <3>1, <3>2, <3>3
    <2>2. last' \in [Progs -> Nat] /\ \A r \in Progs : last'[r] <= Len(list'[r])
      BY <1>2, <1>5, <1>7, <1>8 DEF None
    <2>3. faults' \in 0 .. MaxFaults
      BY <1>1, <1>2 DEF TypeOK
    <2>4. Len(conns') <= MaxConns
      BY <1>1, <1>10 DEF TypeOK
    <2> QED
      BY <1>1, <1>2, <1>8, <1>10, <2>1, <2>2, <2>3, <2>4 DEF TypeOK
  <1>14. ASSUME NEW r \in Progs \ {p}
         PROVE  View(r)' /\ JobFine(r)' /\ Newest(r)' /\ LastFine(r)'
    <2>1. last'[r] = last[r] /\ list'[r] = list[r] /\ backlog'[r] = backlog[r]
          /\ job'[r] = job[r] /\ up' = up /\ sent' = sent
      BY <1>2, <1>5, <1>8
    <2> QED
      BY <1>10, <2>1, OthersKept
  <1>15. View(p)'
    <2>1. \A d \in {Fd(p, h)} : ~ Contains(backlog[p], d)
      <3>1. ~ Contains(backlog[p], None)
        BY <1>1, Fields DEF Contains, None
      <3> QED
        BY <1>11, <3>1 DEF Holdable
    <2>2. \A g \in Handles(p) :
             /\ Fd(p, g)' = IF Fd(p, g) \in {Fd(p, h)} THEN None ELSE Fd(p, g)
             /\ \/ list'[p][g].name = list[p][g].name
                \/ list'[p][g].name = None /\ Fd(p, g)' = None
      <3>1. \A g \in Handles(p) : Fd(p, g) = Fd(p, h) /\ Fd(p, g) # None => g = h
        BY <1>1 DEF View, EntriesFine
      <3> QED
        BY <1>4, <1>9, <3>1
    <2> QED
      BY <1>1, <1>2, <1>9, <1>10, <2>1, <2>2, ViewShut
  <1>16. JobFine(p)' /\ Newest(p)' /\ LastFine(p)'
    <2>1. job'[p] = Idle
      BY <1>1, <1>2
    <2>2. last'[p] # None => last'[p] = last[p] /\ last[p] # h
      BY <1>2, <1>5
    <2>3. last[p] # None => last[p] \in Handles(p)
      BY <1>1, LastHandle
    <2>4. LastFine(p)'
      BY <1>1, <1>4, <1>9, <2>2, <2>3 DEF LastFine
    <2> QED
      BY <2>1, <2>4 DEF JobFine, Newest
  <1>17. Len(sent') <= MaxSends
    BY <1>2 DEF Structure
  <1> QED
    BY <1>12, <1>13, <1>14, <1>15, <1>16, <1>17 DEF Structure

\* and one that exits.
LEMMA ExitStructure ==
    ASSUME Structure, NEW p \in Progs, Exit(p)
    PROVE  Structure'
  <1> DEFINE C == {c \in DOMAIN conns : p \in conns[c].open}
  <1>1. /\ TypeOK /\ p \in up /\ faults < MaxFaults
        /\ up' = up \ {p} /\ down' = down \cup {p}
        /\ conns' = Closed(C, p)
        /\ backlog' = [backlog EXCEPT ![p] = <<>>]
        /\ list' = [list EXCEPT ![p] = <<>>]
        /\ last' = [last EXCEPT ![p] = None]
        /\ job' = [job EXCEPT ![p] = Idle]
        /\ upset' = upset \cup {{p, q} : q \in Progs \ {p}}
        /\ faults' = faults + 1
        /\ UNCHANGED <<left, sent, accepted, delivered, crossed>>
    BY DEF Structure, Exit, Return
  <1>2. /\ backlog \in [Progs -> Seq(1 .. MaxConns)] /\ list \in [Progs -> Seq(Entry)]
        /\ last \in [Progs -> Nat] /\ job \in [Progs -> {Idle} \cup Job]
        /\ \A r \in Progs : last[r] <= Len(list[r])
    BY <1>1 DEF TypeOK
  <1>3. /\ backlog' \in [Progs -> Seq(1 .. MaxConns)] /\ backlog'[p] = <<>>
        /\ \A r \in Progs \ {p} : backlog'[r] = backlog[r]
    BY <1>1, <1>2
  <1>4. /\ list' \in [Progs -> Seq(Entry)] /\ list'[p] = <<>>
        /\ \A r \in Progs \ {p} : list'[r] = list[r]
    BY <1>1, <1>2
  <1>5. /\ last' \in [Progs -> Nat] /\ last'[p] = None
        /\ \A r \in Progs \ {p} : last'[r] = last[r]
    BY <1>1, <1>2 DEF None
  <1>6. /\ job' \in [Progs -> {Idle} \cup Job] /\ job'[p] = Idle
        /\ \A r \in Progs \ {p} : job'[r] = job[r]
    BY <1>1, <1>2
  <1> HIDE DEF C
  <1>7. /\ conns' \in Seq(Conn) /\ DOMAIN conns' = DOMAIN conns
        /\ Len(conns') = Len(conns)
        /\ \A d \in DOMAIN conns :
               /\ conns'[d].from = conns[d].from /\ conns'[d].to = conns[d].to
               /\ p \in conns'[d].open <=> p \in conns[d].open /\ d \notin C
               /\ \A r \in Progs \ {p} :
                      r \in conns'[d].open <=> r \in conns[d].open
    BY <1>1, ClosedEnds
  <1>8. \A d \in DOMAIN conns : p \notin conns'[d].open
    BY <1>7 DEF C
  <1>9. \A d \in DOMAIN conns' : Sound(conns'[d])
    <2>1. \A c \in C \cap DOMAIN conns : p \in conns[c].open
      BY DEF C
    <2>2. \A c \in DOMAIN conns : Sound(conns[c])
      BY DEF Structure
    <2> QED
      BY <1>1, <1>7, <2>1, <2>2, ClosedSound
  <1>10. TypeOK'
    <2>1. upset' \subseteq SUBSET Progs
      <3>1. upset' = upset \cup {{p, q} : q \in Progs \ {p}} /\ upset \subseteq SUBSET Progs
        BY <1>1 DEF TypeOK
      <3>2. {{p, q} : q \in Progs \ {p}} \subseteq SUBSET Progs
        OBVIOUS
      <3> QED
        BY <3>1, <3>2
    <2>2. ASSUME NEW r \in Progs PROVE last'[r] <= Len(list'[r])
      <3>1. CASE r = p
        BY <1>4, <1>5, <3>1 DEF None
      <3>2. CASE r # p
        BY <1>2, <1>4, <1>5, <3>2
      <3> QED
        BY <3>1, <3>2
    <2>3. faults' \in 0 .. MaxFaults /\ Len(conns') <= MaxConns
      BY <1>1, <1>7 DEF TypeOK
    <2>4. up' \cup down' = up \cup down /\ up' \subseteq Progs /\ down' \subseteq Progs
      BY <1>1 DEF TypeOK
    <2> QED
      BY <1>1, <1>3, <1>4, <1>5, <1>6, <1>7, <2>1, <2>2, <2>3, <2>4 DEF TypeOK
  <1>11. ASSUME NEW r \in Progs \ {p}
         PROVE  View(r)' /\ JobFine(r)' /\ Newest(r)' /\ LastFine(r)'
    <2>1. last'[r] = last[r] /\ list'[r] = list[r] /\ backlog'[r] = backlog[r]
          /\ job'[r] = job[r] /\ (r \in up => r \in up') /\ sent' = sent
      BY <1>1, <1>3, <1>4, <1>5, <1>6
    <2> QED
      BY <1>7, <2>1, OthersKept
  <1>12. View(p)'
    <2>1. DOMAIN backlog'[p] = {} /\ Handles(p)' = {}
      BY <1>3, <1>4 DEF Handles
    <2> QED
      BY <1>7, <1>8, <2>1 DEF View, BacklogFine, EntriesFine, Owned
  <1>13. JobFine(p)' /\ Newest(p)' /\ LastFine(p)'
    BY <1>5, <1>6 DEF JobFine, Newest, LastFine
  <1>14. Len(sent') <= MaxSends
    BY <1>1 DEF Structure
  <1> QED
    BY <1>9, <1>10, <1>11, <1>12, <1>13, <1>14 DEF Structure

-------------------------------------------------------------------------------
(* One turn of sock_sel() *)

\* accept_sock() takes the first connection of the backlog over, in which entry.
Taken(p) == backlog[p] # <<>> /\ conns[Head(backlog[p])].named
Taker(p) == HandleFor(p, NameOf(conns[Head(backlog[p])].from))

\* What a turn closes when the entries F fail to read.
Gone(p, F) == Take(p).shut \cup {Fd(p, h) : h \in F}

\* A turn of p that drops the connections of F and reads from the entry w.
Turn(p, F, w) ==
    /\ p \in up /\ job[p] = Idle
    /\ F \subseteq Handles(p) /\ w \in Handles(p) \cup {None} /\ w \notin F
    /\ \A h \in F : /\ Fd(p, h) # None /\ Take(p).list[h].fd = Fd(p, h)
                    /\ Unread(Fd(p, h), p) = <<>>
                    /\ \/ Other(Fd(p, h), p) \notin conns[Fd(p, h)].open
                       \/ p \in conns[Fd(p, h)].reset
    /\ w # None => /\ Fd(p, w) # None /\ Take(p).list[w].fd = Fd(p, w)
                   /\ Unread(Fd(p, w), p) # <<>>
    /\ list' = [list EXCEPT ![p] =
           [h \in DOMAIN Take(p).list |->
               IF h \in F THEN [Take(p).list[h] EXCEPT !.fd = None]
               ELSE Take(p).list[h]]]
    /\ backlog' = [backlog EXCEPT ![p] = IF @ = <<>> THEN @ ELSE Tail(@)]
    /\ upset' = upset \cup {Pair(c) : c \in {d \in Take(p).shut : ~ conns[d].named}}
    /\ conns' = IF w = None THEN Closed(Gone(p, F), p)
                ELSE [Closed(Gone(p, F), p) EXCEPT ![Fd(p, w)].unread[p] = Tail(@)]
    /\ \/ last' = last
       \/ last' = [last EXCEPT ![p] = None]
       \/ w # None /\ last' = [last EXCEPT ![p] = w]
    /\ delivered' = IF w = None THEN delivered
                    ELSE Append(delivered,
                                [msg |-> Head(Unread(Fd(p, w), p)), by |-> p])
    /\ UNCHANGED <<up, down, job, left, sent, accepted, crossed, faults>>

\* What Round() does, with its walk reduced to the two results.
LEMMA RoundTurn ==
    ASSUME Structure, NEW p \in Progs, NEW W \in SUBSET Handles(p), Round(p, W)
    PROVE  \E F, w : Turn(p, F, w)
  <1> DEFINE t == Take(p)
             R == {h \in W : Fd(p, h) # None /\ Readable(Fd(p, h), p)}
             S == {h \in R : t.list[h].fd = Fd(p, h)}
             w == First(p, {h \in S : ReadSock(p, h)})
             F == {h \in S : h > w /\ ~ ReadSock(p, h)}
  <1>1. /\ p \in up /\ job[p] = Idle
        /\ list' = [list EXCEPT ![p] =
               [h \in DOMAIN t.list |->
                   IF h \in F THEN [t.list[h] EXCEPT !.fd = None] ELSE t.list[h]]]
        /\ backlog' = [backlog EXCEPT ![p] = IF @ = <<>> THEN @ ELSE Tail(@)]
        /\ upset' = upset \cup {Pair(c) : c \in {d \in t.shut : ~ conns[d].named}}
        /\ UNCHANGED <<up, down, job, left, sent, accepted, crossed, faults>>
    BY DEF Round
  <1>2. /\ conns' = IF w = None THEN Closed(Gone(p, F), p)
                    ELSE [Closed(Gone(p, F), p) EXCEPT ![Fd(p, w)].unread[p] = Tail(@)]
        /\ \/ last' = last
           \/ last' = [last EXCEPT ![p] = None]
           \/ w # None /\ last' = [last EXCEPT ![p] = w]
        /\ delivered' = IF w = None THEN delivered
                        ELSE Append(delivered,
                                    [msg |-> Head(Unread(Fd(p, w), p)), by |-> p])
    BY DEF Round, Gone
  <1>3. w = None \/ w \in {h \in S : ReadSock(p, h)}
    <2>1. CASE {h \in S : ReadSock(p, h)} = {}
      BY <2>1 DEF First
    <2>2. CASE {h \in S : ReadSock(p, h)} # {}
      <3> DEFINE H == {h \in S : ReadSock(p, h)}
      <3>1. H \in SUBSET (1 .. Len(list[p])) /\ Len(list[p]) \in Nat
        BY Fields DEF Structure
      <3>2. Max(H) \in H
        <4> HIDE DEF H
        <4> QED
          BY <2>2, <3>1, MaxOf DEF H
      <3> QED
        BY <2>2, <3>2 DEF First
    <2> QED
      BY <2>1, <2>2
  <1>4. w # None => /\ w \in Handles(p) /\ w \notin F
                    /\ Fd(p, w) # None /\ t.list[w].fd = Fd(p, w)
                    /\ Unread(Fd(p, w), p) # <<>>
    <2> SUFFICES ASSUME w # None
                 PROVE  /\ w \in Handles(p) /\ w \notin F
                        /\ Fd(p, w) # None /\ t.list[w].fd = Fd(p, w)
                        /\ Unread(Fd(p, w), p) # <<>>
      OBVIOUS
    <2>1. w \in S /\ ReadSock(p, w)
      BY <1>3
    <2> QED
      BY <2>1 DEF ReadSock
  <1>5. F \subseteq Handles(p)
    OBVIOUS
  <1>6. ASSUME NEW h \in F
        PROVE  /\ Fd(p, h) # None /\ t.list[h].fd = Fd(p, h)
               /\ Unread(Fd(p, h), p) = <<>>
               /\ \/ Other(Fd(p, h), p) \notin conns[Fd(p, h)].open
                  \/ p \in conns[Fd(p, h)].reset
    BY DEF ReadSock, Readable
  <1>7. w = None => w \notin F
    BY <1>5, Fields DEF Structure
  <1> HIDE DEF F, w, S, R
  <1>8. Turn(p, F, w)
    BY <1>1, <1>2, <1>4, <1>5, <1>6, <1>7 DEF Turn
  <1> QED
    BY <1>8

\* What accept_sock() does to the list.
LEMMA TakeFacts ==
    ASSUME TypeOK, NEW p \in Progs, View(p)
    PROVE  /\ Take(p).list \in Seq(Entry)
           /\ backlog[p] # <<>> =>
                  /\ Head(backlog[p]) \in DOMAIN conns
                  /\ conns[Head(backlog[p])].to = p
                  /\ p \in conns[Head(backlog[p])].open
                  /\ Contains(backlog[p], Head(backlog[p]))
           /\ ~ Taken(p) =>
                  /\ Take(p).list = list[p]
                  /\ backlog[p] = <<>> => Take(p).shut = {}
                  /\ backlog[p] # <<>> => Take(p).shut = {Head(backlog[p])}
           /\ Taken(p) =>
                  /\ DOMAIN Take(p).list = Handles(p) \cup {Taker(p)}
                  /\ Take(p).list[Taker(p)].fd = Head(backlog[p])
                  /\ Take(p).list[Taker(p)].name = NameOf(conns[Head(backlog[p])].from)
                  /\ Take(p).list[Taker(p)].linked
                  /\ \A h \in Handles(p) \ {Taker(p)} : Take(p).list[h] = list[p][h]
                  /\ Taker(p) \in Handles(p) =>
                         /\ Take(p).shut = {Fd(p, Taker(p))} \ {None}
                         /\ Taker(p) \in
                                Existing(p, NameOf(conns[Head(backlog[p])].from))
                  /\ Taker(p) \notin Handles(p) =>
                         /\ Take(p).shut = {}
                         /\ Existing(p, NameOf(conns[Head(backlog[p])].from)) = {}
  <1> DEFINE c == Head(backlog[p])
             name == NameOf(conns[c].from)
             k == HandleFor(p, name)
             l == WithEntry(p, name)
  <1>1. list[p] \in Seq(Entry)
    BY Fields
  <1>2. ASSUME backlog[p] # <<>>
        PROVE  /\ c \in DOMAIN conns /\ conns[c].to = p /\ p \in conns[c].open
               /\ Contains(backlog[p], c)
    <2>1. backlog[p] \in Seq(1 .. MaxConns)
      BY Fields
    <2>2. c = backlog[p][1] /\ 1 \in DOMAIN backlog[p] /\ 1 \in 1 .. Len(backlog[p])
      BY <1>2, <2>1
    <2> QED
      BY <2>2 DEF View, BacklogFine, Contains
  <1>3. CASE backlog[p] = <<>>
    BY <1>1, <1>3 DEF Take, Taken
  <1>4. CASE backlog[p] # <<>> /\ ~ conns[c].named
    BY <1>1, <1>2, <1>4 DEF Take, Taken
  <1>5. CASE backlog[p] # <<>> /\ conns[c].named
    <2>1. /\ Take(p).list = [l EXCEPT ![k].fd = c]
          /\ Take(p).shut = {l[k].fd} \ {None}
      BY <1>5 DEF Take
    <2>2. name \in Named \cup {Anonymous}
      BY DEF NameOf
    <2>3. /\ l \in Seq(Entry) /\ k \in DOMAIN l /\ DOMAIN l = Handles(p) \cup {k}
          /\ \A h \in Handles(p) : l[h] = list[p][h]
          /\ l[k].name = name /\ l[k].linked
          /\ \/ Existing(p, name) = {} /\ k \notin Handles(p) /\ l[k].fd = None
             \/ k \in Existing(p, name) /\ k \in Handles(p)
      <3> HIDE DEF name
      <3> QED
        BY <2>2, HandleFacts
    <2>4. c \in 1 .. MaxConns
      BY <1>2, <1>5, Fields
    <2> HIDE DEF c, k, l, name
    <2> DEFINE e == [l[k] EXCEPT !.fd = c]
    <2>5. /\ e \in Entry /\ e.fd = c /\ e.name = l[k].name /\ e.linked = l[k].linked
      <3>1. l[k] \in Entry
        BY <2>3
      <3> QED
        BY <2>4, <3>1 DEF Entry
    <2>6. Take(p).list = [l EXCEPT ![k] = e]
      BY <2>1
    <2> HIDE DEF e
    <2>7. /\ Take(p).list \in Seq(Entry) /\ DOMAIN Take(p).list = Handles(p) \cup {k}
          /\ Take(p).list[k] = e
          /\ \A h \in Handles(p) \ {k} : Take(p).list[h] = list[p][h]
      BY <2>3, <2>5, <2>6
    <2>8. k = Taker(p) /\ Taken(p)
      BY <1>5 DEF Taker, Taken, k, name, c
    <2>9. k \in Handles(p) => l[k].fd = Fd(p, k)
      BY <2>3 DEF Fd
    <2> QED
      BY <1>2, <2>1, <2>3, <2>5, <2>7, <2>8, <2>9 DEF c, name
  <1> QED
    BY <1>3, <1>4, <1>5

\* The entries after a turn.
LEMMA TurnEntries ==
    ASSUME Structure, NEW p \in Progs, NEW F, NEW w, Turn(p, F, w)
    PROVE  /\ list' \in [Progs -> Seq(Entry)]
           /\ \A r \in Progs \ {p} : list'[r] = list[r]
           /\ Handles(p)' = DOMAIN Take(p).list
           /\ Handles(p) \subseteq Handles(p)'
           /\ \A h \in Handles(p)' :
                  /\ list'[p][h].name = Take(p).list[h].name
                  /\ list'[p][h].linked = Take(p).list[h].linked
                  /\ h \in F => Fd(p, h)' = None
                  /\ h \notin F => Fd(p, h)' = Take(p).list[h].fd
           /\ \A h \in Handles(p) :
                  /\ list'[p][h].name = list[p][h].name
                  /\ list'[p][h].linked = list[p][h].linked
                  /\ ~ Taken(p) \/ h # Taker(p) =>
                         Fd(p, h)' = IF h \in F THEN None ELSE Fd(p, h)
           /\ Taken(p) =>
                  /\ Taker(p) \in Handles(p)' /\ Taker(p) \notin F
                  /\ Handles(p)' = Handles(p) \cup {Taker(p)}
                  /\ list'[p][Taker(p)].fd = Head(backlog[p])
                  /\ list'[p][Taker(p)].name = NameOf(conns[Head(backlog[p])].from)
                  /\ list'[p][Taker(p)].linked
                  /\ Taker(p) # w
           /\ ~ Taken(p) => Handles(p)' = Handles(p)
  <1> DEFINE l == Take(p).list
             n == [h \in DOMAIN l |-> IF h \in F THEN [l[h] EXCEPT !.fd = None] ELSE l[h]]
  <1>1. TypeOK /\ View(p) /\ list \in [Progs -> Seq(Entry)]
    BY DEF Structure, TypeOK
  <1>2. l \in Seq(Entry)
    BY <1>1, TakeFacts
  <1>3. list' = [list EXCEPT ![p] = n]
    BY DEF Turn
  <1>4. ASSUME NEW h \in DOMAIN l
        PROVE  /\ n[h] \in Entry /\ n[h].name = l[h].name /\ n[h].linked = l[h].linked
               /\ n[h].fd = IF h \in F THEN None ELSE l[h].fd
    <2>1. l[h] \in Entry
      BY <1>2
    <2>2. None \in 0 .. MaxConns
      BY DEF None
    <2> HIDE DEF l
    <2> QED
      BY <2>1, <2>2 DEF Entry
  <1>5. n \in Seq(Entry) /\ DOMAIN n = DOMAIN l
    <2> HIDE DEF l
    <2>1. DOMAIN l = 1 .. Len(l) /\ Len(l) \in Nat
      BY <1>2
    <2>2. n \in [1 .. Len(l) -> Entry]
      BY <1>4, <2>1
    <2> HIDE DEF n
    <2> QED
      BY <2>1, <2>2
  <1> HIDE DEF n
  <1>6. /\ list' \in [Progs -> Seq(Entry)] /\ list'[p] = n
        /\ \A r \in Progs \ {p} : list'[r] = list[r]
    BY <1>1, <1>3, <1>5
  <1>7. Handles(p)' = DOMAIN l
    BY <1>5, <1>6 DEF Handles
  <1>8. ASSUME NEW h \in DOMAIN l
        PROVE  /\ list'[p][h].name = l[h].name /\ list'[p][h].linked = l[h].linked
               /\ Fd(p, h)' = IF h \in F THEN None ELSE l[h].fd
    BY <1>4, <1>6 DEF Fd
  <1>9. F \subseteq Handles(p) /\ \A h \in F : Fd(p, h) # None /\ l[h].fd = Fd(p, h)
    BY DEF Turn
  <1>10. w # None => w \in Handles(p) /\ Fd(p, w) # None /\ l[w].fd = Fd(p, w)
    BY DEF Turn
  <1>11. \A h \in Handles(p) : Fd(p, h) # None => ~ Contains(backlog[p], Fd(p, h))
    BY <1>1 DEF View, EntriesFine, Holdable
  <1>12. CASE ~ Taken(p)
    <2>1. l = list[p] /\ Handles(p) = DOMAIN l
      BY <1>1, <1>12, TakeFacts DEF Handles
    <2>2. \A h \in Handles(p) : l[h].fd = Fd(p, h)
      BY <2>1 DEF Fd
    <2> HIDE DEF l
    <2> QED
      BY <1>6, <1>7, <1>8, <1>12, <2>1, <2>2 DEF l
  <1>13. CASE Taken(p)
    <2> PICK k, c, name : /\ k = Taker(p) /\ c = Head(backlog[p])
                          /\ name = NameOf(conns[c].from)
      OBVIOUS
    <2>1. /\ DOMAIN l = Handles(p) \cup {k} /\ l[k].fd = c
          /\ l[k].name = name /\ l[k].linked
          /\ \A h \in Handles(p) \ {k} : l[h] = list[p][h]
          /\ Contains(backlog[p], c)
          /\ k \in Handles(p) => k \in Existing(p, name)
      BY <1>1, <1>13, TakeFacts DEF Taken
    <2>2. \A h \in Handles(p) \ {k} : l[h].fd = Fd(p, h)
      BY <2>1 DEF Fd
    <2>3. k \in Handles(p) => list[p][k].name = name /\ list[p][k].linked
      BY <2>1 DEF Existing, Linked
    <2>4. k \notin F
      BY <1>9, <1>11, <2>1
    <2>5. k # w
      <3>1. k # None
        <4>1. DOMAIN l = 1 .. Len(l)
          BY <1>2
        <4> QED
          BY <2>1, <4>1 DEF None
      <3> QED
        BY <1>10, <1>11, <2>1, <3>1
    <2> HIDE DEF l
    <2>6. /\ k \in Handles(p)' /\ Handles(p)' = Handles(p) \cup {k}
          /\ Fd(p, k)' = c /\ list'[p][k].name = name /\ list'[p][k].linked
      BY <1>7, <1>8, <2>1, <2>4
    <2>7. \A h \in Handles(p) :
              /\ list'[p][h].name = list[p][h].name
              /\ list'[p][h].linked = list[p][h].linked
              /\ h # k => Fd(p, h)' = IF h \in F THEN None ELSE Fd(p, h)
      <3> SUFFICES ASSUME NEW h \in Handles(p)
                   PROVE  /\ list'[p][h].name = list[p][h].name
                          /\ list'[p][h].linked = list[p][h].linked
                          /\ h # k => Fd(p, h)' = IF h \in F THEN None ELSE Fd(p, h)
        OBVIOUS
      <3>1. /\ list'[p][h].name = l[h].name /\ list'[p][h].linked = l[h].linked
            /\ Fd(p, h)' = IF h \in F THEN None ELSE l[h].fd
        BY <1>8, <2>1
      <3>2. CASE h = k
        <4>1. list[p][h].linked = l[h].linked
          <5>1. list[p][h].linked /\ l[h].linked
            BY <2>1, <2>3, <3>2
          <5>2. list[p][h].linked \in BOOLEAN /\ l[h].linked \in BOOLEAN
            <6>1. h \in DOMAIN l
              BY <2>1
            <6>2. l[h] \in Entry /\ list[p][h] \in Entry
              BY <1>1, <1>2, <6>1, Fields DEF l
            <6> QED
              BY <6>2 DEF Entry
          <5> QED
            BY <5>1, <5>2, Zenon
        <4> QED
          BY <2>1, <2>3, <3>1, <3>2, <4>1
      <3>3. CASE h # k
        BY <2>1, <2>2, <3>1, <3>3
      <3> QED
        BY <3>2, <3>3
    <2> QED
      BY <1>6, <1>7, <1>8, <1>13, <2>1, <2>4, <2>5, <2>6, <2>7 DEF l, Fd
  <1> QED
    BY <1>12, <1>13

\* The connections after a turn.
\* What a turn that closes its ends of G does to the connections, when it reads
\* from f (from none if w is None).
TurnShape(p, w, G, f) ==
    /\ conns' \in Seq(Conn) /\ DOMAIN conns' = DOMAIN conns
    /\ Len(conns') = Len(conns)
    /\ G \subseteq DOMAIN conns /\ \A c \in G : p \in conns[c].open
    /\ w # None => /\ f \in DOMAIN conns /\ f \notin G /\ p \in conns[f].open
                   /\ Unread(f, p) # <<>>
    /\ \A c \in DOMAIN conns :
           /\ c \in G \/ w = None \/ c # f => conns'[c] = Closed(G, p)[c]
           /\ conns'[c].from = conns[c].from /\ conns'[c].to = conns[c].to
           /\ p \in conns'[c].open <=> p \in conns[c].open /\ c \notin G
           /\ \A r \in Progs \ {p} :
                  r \in conns'[c].open <=> r \in conns[c].open
    /\ w # None =>
           /\ conns'[f].open = conns[f].open /\ conns'[f].reset = conns[f].reset
           /\ conns'[f].named = conns[f].named
           /\ conns'[f].unread =
                  [conns[f].unread EXCEPT ![p] = Tail(conns[f].unread[p])]
    /\ \A c \in DOMAIN conns : Sound(conns'[c])

\* The connections after a turn.
LEMMA TurnConns ==
    ASSUME Structure, NEW p \in Progs, NEW F, NEW w, Turn(p, F, w),
           NEW G, G = Gone(p, F), NEW f, f = Fd(p, w)
    PROVE  TurnShape(p, w, G, f)
  <1> DEFINE C == Closed(G, p)
             u == [conns[f].unread EXCEPT ![p] = Tail(conns[f].unread[p])]
             r == [conns[f] EXCEPT !.unread = u]
  <1>1. TypeOK /\ View(p) /\ \A c \in DOMAIN conns : Sound(conns[c])
    BY DEF Structure
  <1>2. F \subseteq Handles(p) /\ \A h \in F : Fd(p, h) # None
    BY DEF Turn
  <1>3. \A h \in Handles(p) : Fd(p, h) # None =>
            /\ Fd(p, h) \in DOMAIN conns /\ p \in conns[Fd(p, h)].open
            /\ ~ Contains(backlog[p], Fd(p, h))
    BY <1>1 DEF View, EntriesFine, Holdable
  <1>4. ASSUME NEW c \in Take(p).shut
        PROVE  /\ c \in DOMAIN conns /\ p \in conns[c].open
               /\ \/ ~ Taken(p) /\ Contains(backlog[p], c)
                  \/ Taken(p) /\ Taker(p) \in Handles(p) /\ c = Fd(p, Taker(p))
    <2>1. CASE Taken(p)
      <3>1. Taker(p) \in Handles(p) /\ c = Fd(p, Taker(p)) /\ c # None
        BY <1>1, <2>1, TakeFacts
      <3> QED
        BY <1>3, <2>1, <3>1
    <2>2. CASE ~ Taken(p)
      <3>1. backlog[p] # <<>> /\ c = Head(backlog[p])
        BY <1>1, <2>2, TakeFacts
      <3> QED
        BY <1>1, <2>2, <3>1, TakeFacts
    <2> QED
      BY <2>1, <2>2
  <1>5. G \subseteq DOMAIN conns /\ \A c \in G : p \in conns[c].open
    BY <1>2, <1>3, <1>4 DEF Gone
  <1>6. ASSUME w # None
        PROVE  /\ f \in DOMAIN conns /\ f \notin G /\ p \in conns[f].open
               /\ Unread(f, p) # <<>>
    <2>1. w \in Handles(p) /\ f # None /\ w \notin F /\ Unread(f, p) # <<>>
      BY <1>6 DEF Turn
    <2>2. \A h \in F : Fd(p, h) # f
      BY <1>1, <1>2, <2>1 DEF View, EntriesFine
    <2>3. f \notin Take(p).shut
      <3>1. CASE Taken(p)
        <4>1. Taker(p) # w
          BY <3>1, TurnEntries
        <4>2. Taker(p) \in Handles(p) => Fd(p, Taker(p)) # f
          BY <1>1, <2>1, <4>1 DEF View, EntriesFine
        <4> QED
          BY <1>4, <3>1, <4>2
      <3>2. CASE ~ Taken(p)
        BY <1>3, <1>4, <2>1, <3>2
      <3> QED
        BY <3>1, <3>2
    <2> QED
      BY <1>3, <2>1, <2>2, <2>3 DEF Gone
  <1>7. conns' = IF w = None THEN C ELSE [C EXCEPT ![f].unread[p] = Tail(@)]
    BY DEF Turn
  <1>8. /\ C \in Seq(Conn) /\ DOMAIN C = DOMAIN conns /\ Len(C) = Len(conns)
        /\ \A c \in DOMAIN conns : ClosedConn(G, p, c)
    BY <1>1, ClosedFields
  <1>9. \A c \in DOMAIN conns : Sound(C[c])
    <2>1. \A c \in G \cap DOMAIN conns : p \in conns[c].open
      BY <1>5
    <2> QED
      BY <1>1, <2>1, ClosedSound
  <1>10. CASE w = None
    <2>1. conns' = C
      BY <1>7, <1>10
    <2>2. ASSUME NEW c \in DOMAIN conns
          PROVE  /\ conns'[c].from = conns[c].from /\ conns'[c].to = conns[c].to
                 /\ p \in conns'[c].open <=> p \in conns[c].open /\ c \notin G
                 /\ \A s \in Progs \ {p} :
                        s \in conns'[c].open <=> s \in conns[c].open
      BY <1>8, <2>1 DEF ClosedConn
    <2> QED
      BY <1>5, <1>8, <1>9, <1>10, <2>1, <2>2 DEF TurnShape
  <1>11. CASE w # None
    <2>1. /\ f \in DOMAIN conns /\ f \notin G /\ p \in conns[f].open
          /\ Unread(f, p) # <<>>
      BY <1>6, <1>11
    <2>2. C[f] = conns[f]
      BY <1>8, <2>1 DEF ClosedConn
    <2>3. /\ conns[f] \in Conn /\ conns[f].unread \in [Progs -> Seq(1 .. MaxSends)]
          /\ conns[f].unread[p] # <<>>
      BY <1>1, <2>1, Fields DEF Unread
    <2>4. u \in [Progs -> Seq(1 .. MaxSends)] /\ \A s \in Progs \ {p} : u[s] = conns[f].unread[s]
      <3>1. Tail(conns[f].unread[p]) \in Seq(1 .. MaxSends)
        BY <2>3, TailType
      <3> QED
        BY <2>3, <3>1
    <2>5. conns' = [C EXCEPT ![f] = r]
      BY <1>7, <1>11, <2>2
    <2> HIDE DEF u
    <2>6. /\ r \in Conn /\ r.from = conns[f].from /\ r.to = conns[f].to
          /\ r.open = conns[f].open /\ r.reset = conns[f].reset
          /\ r.named = conns[f].named /\ r.unread = u
      BY <2>3, <2>4 DEF Conn
    <2> HIDE DEF r, C
    <2>7. /\ conns' \in Seq(Conn) /\ DOMAIN conns' = DOMAIN conns
          /\ Len(conns') = Len(conns) /\ conns'[f] = r
          /\ \A c \in DOMAIN conns : c # f => conns'[c] = C[c]
      BY <1>8, <2>1, <2>5, <2>6
    <2>8. Sound(r)
      BY <1>1, <2>1, <2>4, <2>6 DEF Sound
    <2>9. ASSUME NEW c \in DOMAIN conns
          PROVE  /\ c \in G \/ c # f => conns'[c] = C[c]
                 /\ conns'[c].from = conns[c].from /\ conns'[c].to = conns[c].to
                 /\ p \in conns'[c].open <=> p \in conns[c].open /\ c \notin G
                 /\ \A s \in Progs \ {p} :
                        s \in conns'[c].open <=> s \in conns[c].open
      <3>1. CASE c = f
        BY <2>1, <2>6, <2>7, <3>1
      <3>2. CASE c # f
        <4>1. conns'[c] = C[c] /\ ClosedConn(G, p, c)
          BY <1>8, <2>7, <3>2
        <4> QED
          BY <3>2, <4>1 DEF ClosedConn, C
      <3> QED
        BY <3>1, <3>2
    <2>10. \A c \in DOMAIN conns : Sound(conns'[c])
      BY <1>9, <2>7, <2>8 DEF C
    <2> QED
      BY <1>5, <1>11, <2>1, <2>6, <2>7, <2>9, <2>10 DEF C, u, TurnShape
  <1> QED
    BY <1>10, <1>11

\* The backlog after a turn.
LEMMA TurnBacklog ==
    ASSUME Structure, NEW p \in Progs, NEW F, NEW w, Turn(p, F, w)
    PROVE  /\ backlog' \in [Progs -> Seq(1 .. MaxConns)]
           /\ \A r \in Progs \ {p} : backlog'[r] = backlog[r]
           /\ backlog[p] = <<>> => backlog'[p] = <<>>
           /\ backlog[p] # <<>> =>
                  /\ backlog'[p] = Tail(backlog[p])
                  /\ ~ Contains(backlog'[p], Head(backlog[p]))
           /\ \A c : /\ Contains(backlog'[p], c) => Contains(backlog[p], c)
                     /\ Contains(backlog[p], c) =>
                            Contains(backlog'[p], c) \/ c = Head(backlog[p])
           /\ \A c \in Gone(p, F) : ~ Contains(backlog'[p], c)
           /\ \A c \in Gone(p, F) :
                  \/ ~ Taken(p) /\ backlog[p] # <<>> /\ c = Head(backlog[p])
                  \/ \E h \in Handles(p) : c = Fd(p, h)
  <1>1. /\ backlog' = [backlog EXCEPT ![p] = IF @ = <<>> THEN @ ELSE Tail(@)]
        /\ F \subseteq Handles(p) /\ \A h \in F : Fd(p, h) # None
    BY DEF Turn
  <1>2. /\ backlog \in [Progs -> Seq(1 .. MaxConns)] /\ TypeOK /\ View(p)
        /\ backlog[p] \in Seq(1 .. MaxConns)
    BY DEF Structure, TypeOK
  <1>3. backlog[p] # <<>> => Tail(backlog[p]) \in Seq(1 .. MaxConns)
    BY <1>2, TailType
  <1>4. /\ backlog' \in [Progs -> Seq(1 .. MaxConns)]
        /\ \A r \in Progs \ {p} : backlog'[r] = backlog[r]
        /\ backlog[p] = <<>> => backlog'[p] = <<>>
        /\ backlog[p] # <<>> => backlog'[p] = Tail(backlog[p])
    BY <1>1, <1>2, <1>3
  <1>5. /\ \A c : /\ Contains(backlog'[p], c) => Contains(backlog[p], c)
                  /\ Contains(backlog[p], c) =>
                         Contains(backlog'[p], c) \/ c = Head(backlog[p])
        /\ backlog[p] # <<>> => ~ Contains(backlog'[p], Head(backlog[p]))
    <2>1. CASE backlog[p] = <<>>
      BY <1>4, <2>1, ContainsEmpty
    <2>2. CASE backlog[p] # <<>>
      <3>1. \A i, j \in DOMAIN backlog[p] : backlog[p][i] = backlog[p][j] => i = j
        BY <1>2 DEF View, BacklogFine
      <3>2. PICK s \in Seq(1 .. MaxConns) : s = backlog[p] /\ s # <<>>
        BY <1>2, <2>2
      <3>3. backlog'[p] = Tail(s)
        BY <1>4, <3>2
      <3>4. \A i, j \in DOMAIN s : s[i] = s[j] => i = j
        BY <3>1, <3>2
      <3>5. \A c : /\ Contains(Tail(s), c) => Contains(s, c)
                   /\ Contains(s, c) => Contains(Tail(s), c) \/ c = Head(s)
        BY <3>2, ContainsTail
      <3>6. ~ Contains(Tail(s), Head(s))
        BY <3>2, <3>4, ContainsTail
      <3> QED
        BY <3>2, <3>3, <3>5, <3>6, Zenon
    <2> QED
      BY <2>1, <2>2
  <1>6. ASSUME NEW c \in Gone(p, F)
        PROVE  \/ ~ Taken(p) /\ backlog[p] # <<>> /\ c = Head(backlog[p])
               \/ \E h \in Handles(p) : c = Fd(p, h) /\ c # None
    <2>1. CASE c \in {Fd(p, h) : h \in F}
      BY <1>1, <2>1
    <2>2. CASE c \in Take(p).shut
      <3>1. CASE ~ Taken(p)
        BY <1>2, <2>2, <3>1, TakeFacts
      <3>2. CASE Taken(p)
        <4>1. /\ Taker(p) \in Handles(p) => Take(p).shut = {Fd(p, Taker(p))} \ {None}
              /\ Taker(p) \notin Handles(p) => Take(p).shut = {}
          BY <1>2, <3>2, TakeFacts
        <4> QED
          BY <2>2, <4>1
      <3> QED
        BY <3>1, <3>2
    <2> QED
      BY <2>1, <2>2 DEF Gone
  <1>7. \A h \in Handles(p) : Fd(p, h) # None => ~ Contains(backlog[p], Fd(p, h))
    BY <1>2 DEF View, EntriesFine, Holdable
  <1>8. \A c \in Gone(p, F) : ~ Contains(backlog'[p], c)
    BY <1>5, <1>6, <1>7
  <1>9. \A c \in Gone(p, F) :
            \/ ~ Taken(p) /\ backlog[p] # <<>> /\ c = Head(backlog[p])
            \/ \E h \in Handles(p) : c = Fd(p, h)
    BY <1>6
  <1> QED
    BY <1>4, <1>5, <1>8, <1>9

\* The entries and the backlog after a turn agree with the connections.
LEMMA TurnView ==
    ASSUME Structure, NEW p \in Progs, NEW F, NEW w, Turn(p, F, w)
    PROVE  View(p)'
  <1>1. PICK c, k, G, f : /\ c = Head(backlog[p]) /\ k = Taker(p)
                          /\ G = Gone(p, F) /\ f = Fd(p, w)
    OBVIOUS
  <1>2. TypeOK /\ View(p)
    BY DEF Structure
  <1>3. /\ Handles(p) \subseteq Handles(p)'
        /\ \A h \in Handles(p) :
               /\ list'[p][h].name = list[p][h].name
               /\ ~ Taken(p) \/ h # k =>
                      Fd(p, h)' = IF h \in F THEN None ELSE Fd(p, h)
        /\ Taken(p) =>
               /\ k \in Handles(p)' /\ k \notin F
               /\ Handles(p)' = Handles(p) \cup {k}
               /\ Fd(p, k)' = c /\ list'[p][k].name = NameOf(conns[c].from)
        /\ ~ Taken(p) => Handles(p)' = Handles(p)
    BY <1>1, TurnEntries DEF Fd
  <1>4. /\ DOMAIN conns' = DOMAIN conns
        /\ \A d \in DOMAIN conns :
                  /\ conns'[d].from = conns[d].from /\ conns'[d].to = conns[d].to
                  /\ p \in conns'[d].open <=> p \in conns[d].open /\ d \notin G
        /\ \A d \in DOMAIN conns : Sound(conns'[d])
    <2>1. PICK H, g : H = Gone(p, F) /\ g = Fd(p, w)
      OBVIOUS
    <2>2. TurnShape(p, w, H, g)
      BY <1>1, <2>1, TurnConns
    <2> QED
      BY <1>1, <2>1, <2>2 DEF TurnShape
  <1>5. /\ backlog[p] = <<>> => backlog'[p] = <<>>
        /\ backlog[p] # <<>> => backlog'[p] = Tail(backlog[p]) /\ ~ Contains(backlog'[p], c)
        /\ \A d : /\ Contains(backlog'[p], d) => Contains(backlog[p], d)
                  /\ Contains(backlog[p], d) => Contains(backlog'[p], d) \/ d = c
        /\ \A d \in G : ~ Contains(backlog'[p], d)
        /\ backlog[p] \in Seq(1 .. MaxConns)
        /\ backlog'[p] \in Seq(1 .. MaxConns)
    BY <1>1, <1>2, TurnBacklog, Fields
  <1>6. ASSUME backlog[p] # <<>>
        PROVE  /\ c \in DOMAIN conns /\ conns[c].to = p /\ p \in conns[c].open
               /\ Contains(backlog[p], c)
    BY <1>1, <1>2, <1>6, TakeFacts
  <1>7. /\ \A h \in Handles(p) : Fd(p, h) # None =>
               /\ Holdable(p, list[p][h].name, Fd(p, h))
               /\ ~ Contains(backlog[p], Fd(p, h)) /\ Fd(p, h) \in DOMAIN conns
        /\ \A g, h \in Handles(p) : Fd(p, g) = Fd(p, h) /\ Fd(p, g) # None => g = h
        /\ \A h \in Handles(p) : list[p][h].name # p
    BY <1>2 DEF View, EntriesFine, Holdable
  <1>8. \A h \in F : h \in Handles(p) /\ Fd(p, h) # None /\ Fd(p, h) \in G
    BY <1>1 DEF Turn, Gone
  <1>9. ASSUME ~ Taken(p), backlog[p] # <<>> PROVE c \in G
    BY <1>1, <1>2, <1>9, TakeFacts DEF Gone
  <1>10. ASSUME Taken(p)
         PROVE  /\ k \in Handles(p) /\ Fd(p, k) # None => Fd(p, k) \in G
                /\ c \notin G /\ backlog[p] # <<>>
    <2>1. backlog[p] # <<>>
      BY <1>10 DEF Taken
    <2>2. k \in Handles(p) /\ Fd(p, k) # None => Fd(p, k) \in Take(p).shut
      BY <1>1, <1>2, <1>10, TakeFacts
    <2>3. ASSUME c \in G PROVE FALSE
      <3>1. \E h \in Handles(p) : c = Fd(p, h)
        BY <1>1, <1>10, <2>3, TurnBacklog
      <3>2. c # None
        BY <1>2, <1>6, <2>1, Fields DEF None
      <3> QED
        BY <1>6, <1>7, <2>1, <3>1, <3>2
    <2> QED
      BY <1>1, <2>1, <2>2, <2>3 DEF Gone
  <1>11. ASSUME NEW d \in G
         PROVE  \/ ~ Taken(p) /\ backlog[p] # <<>> /\ d = c
                \/ d \in {Fd(p, h) : h \in F}
                \/ Taken(p) /\ k \in Handles(p) /\ d = Fd(p, k)
    <2>1. CASE d \in {Fd(p, h) : h \in F}
      BY <2>1
    <2>2. CASE d \in Take(p).shut
      BY <1>1, <1>2, <2>2, TakeFacts
    <2> QED
      BY <1>1, <2>1, <2>2 DEF Gone
  <1>12. BacklogFine(p)'
    <2>1. CASE backlog[p] = <<>>
      <3>1. DOMAIN backlog'[p] = {}
        BY <1>5, <2>1
      <3> QED
        BY <3>1 DEF BacklogFine
    <2>2. CASE backlog[p] # <<>>
      <3>1. /\ DOMAIN backlog[p] = 1 .. Len(backlog[p]) /\ Len(backlog[p]) \in Nat
            /\ DOMAIN backlog'[p] = 1 .. Len(backlog[p]) - 1
            /\ \A i \in DOMAIN backlog'[p] : backlog'[p][i] = backlog[p][i + 1]
        <4>1. backlog[p] \in Seq(1 .. MaxConns) /\ backlog'[p] = Tail(backlog[p])
          BY <1>5, <2>2
        <4>2. /\ DOMAIN backlog[p] = 1 .. Len(backlog[p]) /\ Len(backlog[p]) \in Nat
              /\ DOMAIN Tail(backlog[p]) = 1 .. Len(backlog[p]) - 1
              /\ \A i \in DOMAIN Tail(backlog[p]) : Tail(backlog[p])[i] = backlog[p][i + 1]
          BY <2>2, <4>1, TailType
        <4> QED
          BY <4>1, <4>2
      <3>2. ASSUME NEW i \in DOMAIN backlog'[p]
            PROVE  /\ i + 1 \in DOMAIN backlog[p]
                   /\ Contains(backlog'[p], backlog'[p][i])
        <4>1. i \in 1 .. Len(backlog'[p])
          BY <1>5
        <4> QED
          BY <3>1, <4>1 DEF Contains
      <3>3. ASSUME NEW i \in DOMAIN backlog'[p]
            PROVE  /\ backlog'[p][i] \in DOMAIN conns
                   /\ conns[backlog'[p][i]].to = p /\ p \in conns[backlog'[p][i]].open
                   /\ backlog'[p][i] \notin G
        <4>1. PICK d : d = backlog'[p][i]
          OBVIOUS
        <4>2. d = backlog[p][i + 1] /\ i + 1 \in DOMAIN backlog[p]
          BY <3>1, <3>2, <4>1
        <4>3. BacklogFine(p)
          BY <1>2 DEF View
        <4>4. d \in DOMAIN conns /\ conns[d].to = p /\ p \in conns[d].open
          BY <4>2, <4>3 DEF BacklogFine
        <4>5. Contains(backlog'[p], d)
          BY <3>2, <4>1
        <4>6. d \notin G
          BY <1>5, <4>5
        <4> QED
          BY <4>1, <4>4, <4>6
      <3>4. \A i, j \in DOMAIN backlog'[p] : backlog'[p][i] = backlog'[p][j] => i = j
        BY <1>2, <3>1, <3>2 DEF View, BacklogFine
      <3> QED
        BY <1>4, <3>3, <3>4 DEF BacklogFine
    <2> QED
      BY <2>1, <2>2
  <1>13. ASSUME NEW h \in Handles(p), Fd(p, h) # None, h \notin F, ~ Taken(p) \/ h # k
         PROVE  Fd(p, h) \notin G
    BY <1>6, <1>7, <1>8, <1>11, <1>13
  <1>14. EntriesFine(p)'
    <2>1. ASSUME NEW h \in Handles(p)'
          PROVE  /\ list'[p][h].name # p
                 /\ Fd(p, h)' # None => Holdable(p, list[p][h].name, Fd(p, h))'
      <3>1. CASE Taken(p) /\ h = k
        <4>1. Fd(p, h)' = c /\ list'[p][h].name = NameOf(conns[c].from)
          BY <1>3, <3>1
        <4>2. Other(c, p)' = conns[c].from /\ conns[c].from # p
          <5>1. Sound(conns[c])
            BY <1>6, <1>10, <3>1 DEF Structure
          <5> QED
            BY <1>4, <1>6, <1>10, <3>1, <5>1 DEF Sound, Other
        <4>3. NameOf(conns[c].from) # p
          BY <4>2 DEF NameOf
        <4>4. NameOf(Other(c, p))' = NameOf(conns[c].from)
          BY <4>2 DEF NameOf
        <4> QED
          BY <1>4, <1>5, <1>6, <1>10, <3>1, <4>1, <4>3, <4>4 DEF Holdable, NameOf
      <3>2. CASE ~ (Taken(p) /\ h = k)
        <4>1. /\ h \in Handles(p) /\ list'[p][h].name = list[p][h].name
              /\ Fd(p, h)' = IF h \in F THEN None ELSE Fd(p, h)
          BY <1>3, <3>2
        <4>2. ASSUME Fd(p, h)' # None PROVE Holdable(p, list[p][h].name, Fd(p, h))'
          <5>1. PICK d : d = Fd(p, h) /\ d # None /\ d \notin G /\ Fd(p, h)' = d
            BY <1>13, <3>2, <4>1, <4>2
          <5>2. /\ d \in DOMAIN conns /\ p \in conns[d].open
                /\ ~ Contains(backlog[p], d) /\ NameOf(Other(d, p)) = list[p][h].name
            BY <1>7, <4>1, <5>1 DEF Holdable
          <5>3. Other(d, p)' = Other(d, p)
            BY <1>4, <5>2 DEF Other
          <5>4. NameOf(Other(d, p))' = NameOf(Other(d, p))
            BY <5>3 DEF NameOf
          <5>5. Holdable(p, list[p][h].name, d)'
            BY <1>4, <1>5, <4>1, <5>1, <5>2, <5>4 DEF Holdable
          <5> QED
            BY <5>1, <5>5 DEF Holdable, Other, NameOf
        <4> QED
          BY <1>7, <4>1, <4>2
      <3> QED
        BY <3>1, <3>2
    <2>2. ASSUME NEW g \in Handles(p)', NEW h \in Handles(p)', Fd(p, g)' = Fd(p, h)',
                 Fd(p, g)' # None
          PROVE  g = h
      <3>1. \A e \in Handles(p) : (~ Taken(p) \/ e # k) /\ Fd(p, e)' # None =>
                Fd(p, e)' = Fd(p, e) /\ (Taken(p) => Fd(p, e) # c)
        BY <1>3, <1>6, <1>7, <1>10
      <3>2. CASE Taken(p) /\ (g = k \/ h = k)
        BY <1>3, <2>2, <3>1, <3>2
      <3>3. CASE ~ (Taken(p) /\ (g = k \/ h = k))
        <4>1. g \in Handles(p) /\ h \in Handles(p)
          BY <1>3, <3>3
        <4> QED
          BY <1>7, <2>2, <3>1, <3>3, <4>1
      <3> QED
        BY <3>2, <3>3
    <2> QED
      BY <2>1, <2>2 DEF EntriesFine
  <1>15. Owned(p)'
    <2> SUFFICES ASSUME NEW d \in DOMAIN conns, p \in conns'[d].open,
                        ~ Contains(backlog'[p], d)
                 PROVE  \E h \in Handles(p)' : Fd(p, h)' = d
      BY <1>4 DEF Owned
    <2>1. p \in conns[d].open /\ d \notin G
      BY <1>4
    <2>2. CASE Contains(backlog[p], d)
      <3>1. d = c /\ backlog[p] # <<>>
        BY <1>5, <2>2, ContainsEmpty
      <3>2. Taken(p)
        BY <1>9, <2>1, <3>1
      <3> QED
        BY <1>3, <3>1, <3>2
    <2>3. CASE ~ Contains(backlog[p], d)
      <3>1. PICK h \in Handles(p) : Fd(p, h) = d
        BY <1>2, <2>1, <2>3 DEF View, Owned
      <3>2. d # None
        BY <1>2, Fields DEF None
      <3>3. h \notin F /\ (~ Taken(p) \/ h # k)
        BY <1>8, <1>10, <2>1, <3>1, <3>2
      <3> QED
        BY <1>3, <3>1, <3>3
    <2> QED
      BY <2>2, <2>3
  <1> QED
    BY <1>12, <1>14, <1>15 DEF View

\* A turn of sock_sel() keeps the first part of the invariant.
LEMMA RoundStructure ==
    ASSUME Structure, NEW p \in Progs, NEW W \in SUBSET Handles(p), Round(p, W)
    PROVE  Structure'
  <1>1. PICK F, w : Turn(p, F, w)
    BY RoundTurn
  <1>2. /\ TypeOK /\ View(p) /\ LastFine(p) /\ job[p] = Idle
        /\ F \subseteq Handles(p) /\ w \in Handles(p) \cup {None}
        /\ UNCHANGED <<up, down, job, left, sent, accepted, crossed, faults>>
    BY <1>1 DEF Structure, Turn
  <1>3. /\ list' \in [Progs -> Seq(Entry)]
        /\ \A r \in Progs \ {p} : list'[r] = list[r]
        /\ Handles(p) \subseteq Handles(p)'
        /\ \A h \in Handles(p) : list'[p][h].name = list[p][h].name
    BY <1>1, TurnEntries
  <1>4. /\ conns' \in Seq(Conn) /\ DOMAIN conns' = DOMAIN conns
        /\ Len(conns') = Len(conns)
        /\ \A c \in DOMAIN conns :
                  /\ conns'[c].from = conns[c].from /\ conns'[c].to = conns[c].to
                  /\ \A r \in Progs \ {p} :
                         r \in conns'[c].open <=> r \in conns[c].open
        /\ \A c \in DOMAIN conns : Sound(conns'[c])
    <2>1. PICK H, g : H = Gone(p, F) /\ g = Fd(p, w)
      OBVIOUS
    <2>2. TurnShape(p, w, H, g)
      BY <1>1, <2>1, TurnConns
    <2> QED
      BY <1>1, <2>1, <2>2 DEF TurnShape
  <1>5. /\ backlog' \in [Progs -> Seq(1 .. MaxConns)]
        /\ \A r \in Progs \ {p} : backlog'[r] = backlog[r]
    BY <1>1, TurnBacklog
  <1>6. /\ last' \in [Progs -> Nat] /\ \A r \in Progs \ {p} : last'[r] = last[r]
        /\ last'[p] \in {last[p], None, w}
    <2>1. w \in Nat
      BY <1>2, Fields DEF None
    <2>2. \/ last' = last
          \/ last' = [last EXCEPT ![p] = None]
          \/ w # None /\ last' = [last EXCEPT ![p] = w]
      BY <1>1 DEF Turn
    <2>3. last \in [Progs -> Nat]
      BY <1>2 DEF TypeOK
    <2> QED
      BY <2>1, <2>2, <2>3 DEF None
  <1>7. \A h \in {last'[p]} \ {None} : h \in Handles(p) /\ h \in Handles(p)'
    BY <1>2, <1>3, <1>6, LastHandle
  <1>8. TypeOK'
    <2>1. upset' \subseteq SUBSET Progs
      <3>1. upset' = upset \cup {Pair(c) : c \in {d \in Take(p).shut : ~ conns[d].named}}
        BY <1>1 DEF Turn
      <3>2. \A c \in Take(p).shut : c \in DOMAIN conns
        <4>1. PICK G, f : G = Gone(p, F) /\ f = Fd(p, w)
          OBVIOUS
        <4>2. G \subseteq DOMAIN conns
          <5>1. TurnShape(p, w, G, f)
            BY <1>1, <4>1, TurnConns
          <5> QED
            BY <5>1 DEF TurnShape
        <4> QED
          BY <4>1, <4>2 DEF Gone
      <3>3. \A c \in Take(p).shut : Pair(c) \in SUBSET Progs
        BY <1>2, <3>2, Fields DEF Pair
      <3>4. upset \subseteq SUBSET Progs
        BY <1>2 DEF TypeOK
      <3> QED
        BY <3>1, <3>3, <3>4
    <2>2. \A r \in Progs : last'[r] <= Len(list'[r])
      <3>1. last'[p] <= Len(list'[p])
        <4>1. CASE last'[p] = None
          BY <1>3, <4>1 DEF None
        <4>2. CASE last'[p] # None
          <5>1. last'[p] \in DOMAIN list'[p] /\ list'[p] \in Seq(Entry)
            BY <1>3, <1>7, <4>2 DEF Handles
          <5> QED
            BY <5>1
        <4> QED
          BY <4>1, <4>2
      <3> QED
        BY <1>2, <1>3, <1>6, <3>1 DEF TypeOK
    <2>3. delivered' \in Seq([msg : 1 .. MaxSends, by : Progs])
      <3> DEFINE R == [msg : 1 .. MaxSends, by : Progs]
                 e == [msg |-> Head(Unread(Fd(p, w), p)), by |-> p]
      <3>1. delivered \in Seq(R)
        BY <1>2 DEF TypeOK
      <3>2. CASE w = None
        BY <1>1, <3>1, <3>2 DEF Turn
      <3>3. CASE w # None
        <4>1. Unread(Fd(p, w), p) \in Seq(1 .. MaxSends) /\ Unread(Fd(p, w), p) # <<>>
          <5>1. PICK G, f : G = Gone(p, F) /\ f = Fd(p, w)
            OBVIOUS
          <5>2. f \in DOMAIN conns /\ Unread(f, p) # <<>>
            <6>1. TurnShape(p, w, G, f)
              BY <1>1, <5>1, TurnConns
            <6> QED
              BY <3>3, <6>1 DEF TurnShape
          <5> QED
            BY <1>2, <5>1, <5>2, Fields DEF Unread
        <4>2. Head(Unread(Fd(p, w), p)) \in 1 .. MaxSends
          BY <4>1, TailType
        <4>3. e \in R
          BY <4>2
        <4>4. delivered' = Append(delivered, e)
          BY <1>1, <3>3 DEF Turn
        <4> HIDE DEF e, R
        <4>5. delivered' \in Seq(R)
          BY <3>1, <4>3, <4>4
        <4> QED
          BY <4>5 DEF R
      <3> QED
        BY <3>2, <3>3
    <2>4. Len(conns') <= MaxConns
      BY <1>2, <1>4 DEF TypeOK
    <2> QED
      BY <1>2, <1>3, <1>4, <1>5, <1>6, <2>1, <2>2, <2>3, <2>4 DEF TypeOK
  <1>9. ASSUME NEW r \in Progs \ {p}
        PROVE  View(r)' /\ JobFine(r)' /\ Newest(r)' /\ LastFine(r)'
    BY <1>2, <1>3, <1>4, <1>5, <1>6, OthersKept
  <1>10. View(p)'
    BY <1>1, TurnView
  <1>11. JobFine(p)' /\ Newest(p)' /\ LastFine(p)'
    <2>1. last'[p] # None => list[p][last'[p]].name # None
      <3>1. CASE last'[p] = last[p]
        BY <1>2, <3>1 DEF LastFine
      <3>2. CASE last'[p] # last[p] /\ last'[p] # None
        <4>1. last'[p] = w /\ w # None /\ w \in Handles(p) /\ Fd(p, w) # None
          BY <1>1, <1>6, <3>2 DEF Turn
        <4>2. Holdable(p, list[p][w].name, Fd(p, w))
          BY <1>2, <4>1 DEF View, EntriesFine
        <4>3. NameOf(Other(Fd(p, w), p)) # None
          BY <1>2, <4>2, Fields DEF Holdable, NameOf, Other, Progs
        <4> QED
          BY <4>1, <4>2, <4>3 DEF Holdable
      <3> QED
        BY <3>1, <3>2
    <2>2. LastFine(p)'
      BY <1>3, <1>7, <2>1 DEF LastFine
    <2> QED
      BY <1>2, <2>2 DEF JobFine, Newest
  <1>12. Len(sent') <= MaxSends
    BY <1>2 DEF Structure
  <1> QED
    BY <1>4, <1>8, <1>9, <1>10, <1>11, <1>12 DEF Structure

\* Every step keeps the first part of the invariant.
LEMMA NextStructure == Structure /\ [Next]_vars => Structure'
  <1> SUFFICES ASSUME Structure, [Next]_vars PROVE Structure'
    OBVIOUS
  <1>1. ASSUME NEW p \in Progs, NEW q \in Named, SendTo(p, q) PROVE Structure'
    BY <1>1, SendToStructure
  <1>2. ASSUME NEW p \in Progs, Reply(p) PROVE Structure'
    BY <1>2, ReplyStructure
  <1>3. ASSUME NEW p \in Progs, Writing(p) PROVE Structure'
    BY <1>3, WritingStructure
  <1>4. ASSUME NEW p \in Progs, NEW W \in SUBSET Handles(p), Round(p, W) PROVE Structure'
    BY <1>4, RoundStructure
  <1>5. ASSUME NEW p \in Progs,
               Select(p) \/ \E h \in Handles(p) : SelectBut(p, h) \/ Only(p, h)
        PROVE  Structure'
    <2>1. Linked(p) \in SUBSET Handles(p)
      BY DEF Linked
    <2> QED
      BY <1>4, <1>5, <2>1 DEF Select, SelectBut, Only
  <1>6. ASSUME NEW p \in Progs, NEW h \in Handles(p), SockClose(p, h) PROVE Structure'
    BY <1>6, SockCloseStructure
  <1>7. ASSUME NEW p \in Progs, Exit(p) PROVE Structure'
    BY <1>7, ExitStructure
  <1>8. ASSUME NEW p \in Progs, Start(p) PROVE Structure'
    BY <1>8, StartStructure
  <1>9. CASE UNCHANGED vars
    <2>1. /\ UNCHANGED <<up, down, conns, backlog, list, last, job>>
          /\ UNCHANGED <<left, sent, accepted, delivered, upset, crossed, faults>>
      BY <1>9 DEF vars
    <2>2. TypeOK' /\ \A r \in Progs : View(r)' /\ JobFine(r)' /\ Newest(r)' /\ LastFine(r)'
      <3>1. TypeOK'
        BY <2>1 DEF Structure, TypeOK
      <3> QED
        BY <2>1, <3>1, OthersKept
    <2> QED
      BY <2>1, <2>2 DEF Structure
  <1> QED
    BY <1>1, <1>2, <1>3, <1>5, <1>6, <1>7, <1>8, <1>9 DEF Next

-------------------------------------------------------------------------------
(* The second part of the invariant: where each message is *)

\* What is left of a sequence of unread messages: all, all but the first, none.
Rest(t, s) == t = s \/ t = <<>> \/ (s # <<>> /\ t = Tail(s))

\* The numbers of messages grow along a sequence.
Increasing(s) == \A i, j \in DOMAIN s : i < j => s[i] < s[j]

\* What is left has nothing new in it and keeps its order.
LEMMA RestFine ==
    ASSUME NEW s \in Seq(1 .. MaxSends), NEW t, Rest(t, s)
    PROVE  /\ \A m : Contains(t, m) => Contains(s, m)
           /\ Increasing(s) => Increasing(t)
  <1>1. CASE t = s
    BY <1>1
  <1>2. CASE t = <<>>
    <2>1. DOMAIN t = {}
      BY <1>2
    <2> QED
      BY <1>2, <2>1, ContainsEmpty DEF Increasing
  <1>3. CASE s # <<>> /\ t = Tail(s)
    <2>1. \A m : Contains(t, m) => Contains(s, m)
      BY <1>3, ContainsTail
    <2>2. PICK n \in Nat : /\ n = Len(s) /\ s \in [1 .. n -> 1 .. MaxSends]
                           /\ DOMAIN t = 1 .. n - 1
                           /\ \A i \in DOMAIN t : t[i] = s[i + 1]
      BY <1>3, TailType
    <2>3. ASSUME Increasing(s) PROVE Increasing(t)
      <3> SUFFICES ASSUME NEW i \in DOMAIN t, NEW j \in DOMAIN t, i < j
                   PROVE  t[i] < t[j]
        BY DEF Increasing
      <3>1. i + 1 \in DOMAIN s /\ j + 1 \in DOMAIN s /\ i + 1 < j + 1
        BY <2>2
      <3> QED
        BY <2>2, <2>3, <3>1 DEF Increasing
    <2> QED
      BY <2>1, <2>3
  <1> QED
    BY <1>1, <1>2, <1>3 DEF Rest

\* Something of a sequence that is not empty, and nothing of an empty one.
LEMMA ContainsFirst ==
    ASSUME NEW s \in Seq(1 .. MaxSends), s # <<>>, Increasing(s)
    PROVE  /\ Contains(s, Head(s)) /\ Head(s) \in 1 .. MaxSends
           /\ ~ Contains(Tail(s), Head(s))
           /\ \A m : Contains(Tail(s), m) => Head(s) < m
           /\ \A m : Contains(s, m) => Contains(Tail(s), m) \/ m = Head(s)
  <1>1. PICK n \in Nat \ {0} : n = Len(s) /\ s \in [1 .. n -> 1 .. MaxSends]
    BY TailType
  <1>2. Head(s) = s[1] /\ DOMAIN Tail(s) = 1 .. n - 1
        /\ \A i \in DOMAIN Tail(s) : Tail(s)[i] = s[i + 1]
    BY <1>1, TailType
  <1>3. Len(Tail(s)) = n - 1
    BY <1>1, TailType
  <1>4. ASSUME NEW m, Contains(Tail(s), m) PROVE Head(s) < m
    <2>1. PICK i \in 1 .. n - 1 : Tail(s)[i] = m
      BY <1>3, <1>4 DEF Contains
    <2>2. m = s[i + 1] /\ i + 1 \in DOMAIN s /\ 1 \in DOMAIN s /\ 1 < i + 1
      BY <1>1, <1>2, <2>1
    <2> QED
      BY <1>2, <2>2 DEF Increasing
  <1>5. Head(s) \in 1 .. MaxSends
    BY <1>1, <1>2
  <1>6. ~ Contains(Tail(s), Head(s))
    <2> SUFFICES ASSUME Contains(Tail(s), Head(s)) PROVE FALSE
      OBVIOUS
    <2>1. Head(s) < Head(s)
      BY <1>4
    <2> QED
      BY <1>5, <2>1
  <1> QED
    BY <1>4, <1>5, <1>6, ContainsTail

\* An unread message is on the way to its receiver, and has not been read.
MsgFine(m, c, q) ==
    /\ m \in DOMAIN sent /\ q \in Pair(c)
    /\ sent[m].to = q /\ sent[m].from = Other(c, q)
    /\ ~ IsDelivered(m)

\* Each unread message is in one place, and in the order of sending.
Streams ==
    /\ \A c \in DOMAIN conns : \A q \in Progs :
           /\ Increasing(Unread(c, q))
           /\ \A m : Contains(Unread(c, q), m) => MsgFine(m, c, q)
    /\ \A c, d \in DOMAIN conns : \A q \in Progs : \A m :
           Contains(Unread(c, q), m) /\ Contains(Unread(d, q), m) => c = d

\* Each message is read once, by the program it was sent to.
ReadOnce ==
    /\ \A i \in DOMAIN delivered :
           /\ delivered[i].msg \in DOMAIN sent
           /\ sent[delivered[i].msg].to = delivered[i].by
    /\ \A i, j \in DOMAIN delivered : delivered[i].msg = delivered[j].msg => i = j
    /\ accepted \subseteq DOMAIN sent

\* The message a program is sending: not yet written, or in the connection it was
\* written to, or read from it, with nothing left there that could be lost.
JobMsg(r) ==
    job[r] # Idle =>
        LET m == job[r].msg
            f == Fd(r, job[r].handle)
        IN
        /\ \A c \in DOMAIN conns : \A q \in Progs :
               Contains(Unread(c, q), m) => c = f /\ job[r].at = "check"
        /\ IsDelivered(m) =>
               /\ job[r].at = "check" /\ r \notin conns[f].reset
               /\ Unread(f, Other(f, r)) = <<>>
               /\ ~ Contains(backlog[Other(f, r)], f)

\* The second part of the invariant.
Msgs == Streams /\ ReadOnce /\ \A r \in Progs : JobMsg(r)

\* What a step of p may do to a connection when it writes nothing to it.
Worn(new, c, p) ==
    /\ new.from = conns[c].from /\ new.to = conns[c].to
    /\ \A q \in Progs : Rest(new.unread[q], Unread(c, q))
    /\ \A r \in new.reset \ {p} :
           \/ r \in conns[c].reset
           \/ p = Other(c, r) /\ (Unread(c, p) # <<>> \/ Contains(backlog[p], c))

\* A step of p that writes nothing.
Quiet(p) ==
    /\ DOMAIN conns \subseteq DOMAIN conns'
    /\ \A c \in DOMAIN conns : Worn(conns'[c], c, p)
    /\ \A c \in DOMAIN conns' \ DOMAIN conns : \A q \in Progs : conns'[c].unread[q] = <<>>
    /\ \A r \in Progs : \A c \in DOMAIN conns :
           Contains(backlog'[r], c) => Contains(backlog[r], c)
    /\ \A r \in Progs \ {p} : list'[r] = list[r] /\ job'[r] = job[r] /\ last'[r] = last[r]
    /\ DOMAIN sent \subseteq DOMAIN sent'
    /\ \A m \in DOMAIN sent : sent'[m] = sent[m]
    /\ upset \subseteq upset' /\ crossed \subseteq crossed'

\* Unread messages are a sequence.
LEMMA UnreadFields ==
    ASSUME TypeOK
    PROVE  \A c \in DOMAIN conns : \A q \in Progs : Unread(c, q) \in Seq(1 .. MaxSends)
  BY Fields DEF Unread

\* A step that writes nothing leaves only messages that were unread before.
LEMMA QuietUnread ==
    ASSUME TypeOK, TypeOK', NEW p \in Progs, Quiet(p),
           NEW c \in DOMAIN conns', NEW q \in Progs
    PROVE  /\ \A m : Contains(conns'[c].unread[q], m) =>
                         c \in DOMAIN conns /\ Contains(Unread(c, q), m)
           /\ c \in DOMAIN conns /\ Increasing(Unread(c, q)) =>
                  Increasing(conns'[c].unread[q])
           /\ c \notin DOMAIN conns => Increasing(conns'[c].unread[q])
  <1>1. CASE c \in DOMAIN conns
    <2>1. Rest(conns'[c].unread[q], Unread(c, q)) /\ Unread(c, q) \in Seq(1 .. MaxSends)
      BY <1>1, UnreadFields DEF Quiet, Worn
    <2> QED
      BY <1>1, <2>1, RestFine
  <1>2. CASE c \notin DOMAIN conns
    <2>1. conns'[c].unread[q] = <<>>
      BY <1>2 DEF Quiet
    <2>2. DOMAIN conns'[c].unread[q] = {}
      BY <2>1
    <2> QED
      BY <1>2, <2>1, <2>2, ContainsEmpty DEF Increasing
  <1> QED
    BY <1>1, <1>2

\* It keeps them in one place and in order.
LEMMA QuietStreams ==
    ASSUME Structure, Structure', NEW p \in Progs, Quiet(p), Streams,
           delivered' = delivered
    PROVE  Streams'
  <1>1. /\ TypeOK /\ TypeOK' /\ DOMAIN sent \subseteq DOMAIN sent'
        /\ \A m \in DOMAIN sent : sent'[m] = sent[m]
    BY DEF Structure, Quiet
  <1>2. ASSUME NEW c \in DOMAIN conns', NEW q \in Progs
        PROVE  /\ Increasing(Unread(c, q)')
               /\ \A m : Contains(Unread(c, q)', m) =>
                             c \in DOMAIN conns /\ Contains(Unread(c, q), m)
    <2>1. c \in DOMAIN conns => Increasing(Unread(c, q))
      BY DEF Streams
    <2> QED
      BY <1>1, <2>1, QuietUnread DEF Unread
  <1>3. ASSUME NEW c \in DOMAIN conns', NEW q \in Progs, NEW m, Contains(Unread(c, q)', m)
        PROVE  MsgFine(m, c, q)'
    <2>1. MsgFine(m, c, q) /\ c \in DOMAIN conns
      BY <1>2, <1>3 DEF Streams
    <2>2. conns'[c].from = conns[c].from /\ conns'[c].to = conns[c].to
      BY <2>1 DEF Quiet, Worn
    <2> QED
      BY <1>1, <2>1, <2>2 DEF MsgFine, Pair, Other, IsDelivered
  <1>4. ASSUME NEW c \in DOMAIN conns', NEW d \in DOMAIN conns', NEW q \in Progs, NEW m,
               Contains(Unread(c, q)', m), Contains(Unread(d, q)', m)
        PROVE  c = d
    <2>1. /\ c \in DOMAIN conns /\ Contains(Unread(c, q), m)
          /\ d \in DOMAIN conns /\ Contains(Unread(d, q), m)
      BY <1>2, <1>4
    <2> QED
      BY <2>1 DEF Streams
  <1>5. \A c \in DOMAIN conns' : \A q \in Progs : Increasing(Unread(c, q)')
    BY <1>2
  <1>6. \A c \in DOMAIN conns' : \A q \in Progs : \A m :
            Contains(Unread(c, q)', m) => MsgFine(m, c, q)'
    BY <1>3
  <1>7. \A c, d \in DOMAIN conns' : \A q \in Progs : \A m :
            Contains(Unread(c, q)', m) /\ Contains(Unread(d, q)', m) => c = d
    BY <1>4
  <1> QED
    BY <1>5, <1>6, <1>7 DEF Streams

\* The job of another program that the step does not deliver the message of.
LEMMA QuietJobMsg ==
    ASSUME Structure, Structure', NEW p \in Progs, Quiet(p),
           NEW r \in Progs \ {p}, JobMsg(r),
           job[r] # Idle /\ IsDelivered(job[r].msg)' => IsDelivered(job[r].msg)
    PROVE  JobMsg(r)'
  <1> SUFFICES ASSUME job[r] # Idle PROVE JobMsg(r)'
    BY DEF Quiet, JobMsg
  <1>1. PICK m, f, h : m = job[r].msg /\ h = job[r].handle /\ f = Fd(r, h)
    OBVIOUS
  <1>2. /\ job'[r] = job[r] /\ list'[r] = list[r] /\ Fd(r, h)' = f
        /\ TypeOK /\ TypeOK'
    BY <1>1 DEF Quiet, Fd, Structure
  <1>3. \A c \in DOMAIN conns' : \A q \in Progs :
            Contains(conns'[c].unread[q], m) => c = f /\ job[r].at = "check"
    BY <1>1, <1>2, QuietUnread DEF JobMsg
  <1>4. ASSUME IsDelivered(m)'
        PROVE  /\ job[r].at = "check" /\ r \notin conns'[f].reset
               /\ Unread(f, Other(f, r))' = <<>>
               /\ ~ Contains(backlog[Other(f, r)], f)'
    <2>1. /\ job[r].at = "check" /\ r \notin conns[f].reset
          /\ Unread(f, Other(f, r)) = <<>> /\ ~ Contains(backlog[Other(f, r)], f)
      <3>1. IsDelivered(m)
        BY <1>1, <1>2, <1>4 DEF IsDelivered
      <3> QED
        BY <1>1, <3>1 DEF JobMsg
    <2>2. PICK o : o = Other(f, r) /\ o \in Progs /\ f \in DOMAIN conns
      <3>1. job[r].at # "loop"
        BY <2>1
      <3> QED
        BY <1>1, <2>1, <3>1, JobFacts
    <2>3. Worn(conns'[f], f, p)
      BY <2>2 DEF Quiet
    <2>4. r \notin conns'[f].reset
      BY <2>1, <2>2, <2>3 DEF Worn
    <2>5. Other(f, r)' = o
      BY <2>2, <2>3 DEF Worn, Other
    <2>6. conns'[f].unread[o] = <<>>
      BY <2>1, <2>2, <2>3 DEF Worn, Rest
    <2>7. ~ Contains(backlog'[o], f)
      BY <2>1, <2>2 DEF Quiet
    <2>8. Unread(f, Other(f, r))' = <<>>
      BY <2>5, <2>6 DEF Unread
    <2> QED
      BY <2>1, <2>4, <2>5, <2>7, <2>8
  <1>5. \A c \in DOMAIN conns' : \A q \in Progs :
            Contains(Unread(c, q)', m) => c = f /\ job[r].at = "check"
    BY <1>3 DEF Unread
  <1> QED
    BY <1>1, <1>2, <1>4, <1>5 DEF JobMsg

\* All of a sequence, or nothing of it, may be left.
LEMMA RestSome == \A s : Rest(s, s) /\ Rest(<<>>, s)
  BY DEF Rest

\* A connection may be left alone,
LEMMA WornSame ==
    ASSUME NEW p \in Progs, NEW c
    PROVE  Worn(conns[c], c, p)
  BY RestSome DEF Worn, Unread

\* or closed at one end.
LEMMA WornClosed ==
    ASSUME TypeOK, NEW p \in Progs, NEW C, NEW c \in DOMAIN conns, Sound(conns[c]),
           c \in C => p \in conns[c].open
    PROVE  Worn(Closed(C, p)[c], c, p)
  <1>1. ClosedConn(C, p, c)
    BY ClosedFields
  <1>2. CASE c \notin C
    <2>1. Closed(C, p)[c] = conns[c]
      BY <1>1, <1>2 DEF ClosedConn
    <2> QED
      BY <2>1, WornSame
  <1>3. CASE c \in C
    <2>1. PICK n : n = Closed(C, p)[c]
      OBVIOUS
    <2>2. conns[c].unread \in [Progs -> Seq(1 .. MaxSends)]
      BY Fields
    <2>3. /\ n.from = conns[c].from /\ n.to = conns[c].to
          /\ n.unread = [conns[c].unread EXCEPT ![p] = <<>>]
          /\ \/ n.reset = conns[c].reset
             \/ /\ n.reset = conns[c].reset \cup {Other(c, p)}
                /\ Unread(c, p) # <<>> \/ Contains(backlog[p], c)
      BY <1>1, <1>3, <2>1 DEF ClosedConn
    <2>4. Other(c, Other(c, p)) = p
      BY <1>3 DEF Sound, Other
    <2>5. \A q \in Progs : Rest(n.unread[q], Unread(c, q))
      <3>1. \A q \in Progs : n.unread[q] = <<>> \/ n.unread[q] = Unread(c, q)
        BY <2>2, <2>3 DEF Unread
      <3> QED
        BY <3>1, RestSome, Zenon
    <2>6. \A r \in n.reset \ {p} :
              \/ r \in conns[c].reset
              \/ p = Other(c, r) /\ (Unread(c, p) # <<>> \/ Contains(backlog[p], c))
      BY <2>3, <2>4
    <2> QED
      BY <2>1, <2>3, <2>5, <2>6 DEF Worn
  <1> QED
    BY <1>2, <1>3

-------------------------------------------------------------------------------
(* The third part: two programs that nothing disturbed *)

\* Nothing disturbed these two programs.
Calm(P) == P \notin upset \cup crossed

\* They have one connection, open at both ends.
Whole(c) == Calm(Pair(c)) => conns[c].open = Pair(c) /\ conns[c].reset = {}

\* They have one connection.
OneEach ==
    \A c, d \in DOMAIN conns : Pair(c) = Pair(d) /\ Calm(Pair(c)) => c = d

\* Each keeps it in the one entry of that name that is in its list, and writes to
\* no other entry of that name.
Kept(p) ==
    /\ \A h \in Handles(p) :
           Fd(p, h) # None /\ Calm(Pair(Fd(p, h))) => list[p][h].linked
    /\ \A g, h \in Linked(p) :
           list[p][g].name = list[p][h].name /\ list[p][h].name \in Named => g = h
    /\ last[p] # None /\ list[p][last[p]].name \in Named
           /\ Fd(p, last[p]) = None => ~ Calm({p, list[p][last[p]].name})
    /\ job[p] # Idle /\ list[p][job[p].handle].name \in Named
           /\ ~ list[p][job[p].handle].linked
                 => ~ Calm({p, list[p][job[p].handle].name})

\* The third part of the invariant.
CalmFine == OneEach /\ (\A c \in DOMAIN conns : Whole(c)) /\ \A p \in Progs : Kept(p)

\* A message between them that was written has been read or is unread, and none is
\* read before an earlier one.
Coming(m) == \E c \in DOMAIN conns : Contains(Unread(c, sent[m].to), m)

\* A message has been read, or is on its way, or was disturbed.
Arrives(m) == IsDelivered(m) \/ Coming(m) \/ ~ Calm(PairOf(m))

\* The fourth part: what was written arrives, in order.
Flow ==
    /\ \A m \in accepted : Arrives(m)
    /\ \A p \in Progs : job[p] # Idle /\ job[p].at = "check" => Arrives(job[p].msg)
    /\ \A i, j \in DOMAIN delivered :
           i < j /\ sent[delivered[i].msg] = sent[delivered[j].msg] =>
               delivered[i].msg < delivered[j].msg \/ ~ Calm(PairOf(delivered[i].msg))
    /\ \A i \in DOMAIN delivered : \A m \in DOMAIN sent :
           sent[m] = sent[delivered[i].msg] /\ Coming(m) =>
               delivered[i].msg < m \/ ~ Calm(PairOf(m))

\* The whole invariant.
Inv == Structure /\ Msgs /\ CalmFine /\ Flow

\* A quiet step that leaves the connections of undisturbed programs alone.
Settled ==
    \A c \in DOMAIN conns : Calm(Pair(c))' =>
        /\ conns'[c].open = conns[c].open /\ conns'[c].reset = conns[c].reset
        /\ conns'[c].unread = conns[c].unread

\* A step that writes nothing leaves the ends of a connection as they are.
LEMMA QuietPair ==
    ASSUME NEW p \in Progs, Quiet(p), NEW c \in DOMAIN conns
    PROVE  /\ Pair(c)' = Pair(c) /\ c \in DOMAIN conns'
           /\ \A q : Other(c, q)' = Other(c, q)
           /\ Calm(Pair(c))' => Calm(Pair(c))
  BY DEF Quiet, Worn, Pair, Other, Calm

\* It leaves the connections of undisturbed programs as they are.
LEMMA QuietOneEach ==
    ASSUME NEW p \in Progs, Quiet(p), CalmFine,
           \A c \in DOMAIN conns : Calm(Pair(c))' =>
               conns'[c].open = conns[c].open /\ conns'[c].reset = conns[c].reset,
           \A c \in DOMAIN conns' \ DOMAIN conns : Whole(c)' /\
               \A d \in DOMAIN conns' : Pair(d)' = Pair(c)' /\ Calm(Pair(c))' => d = c
    PROVE  OneEach' /\ \A c \in DOMAIN conns' : Whole(c)'
  <1>1. ASSUME NEW c \in DOMAIN conns' PROVE Whole(c)'
    <2>1. CASE c \in DOMAIN conns
      <3>1. Whole(c) /\ Pair(c)' = Pair(c) /\ (Calm(Pair(c))' => Calm(Pair(c)))
        BY <2>1, QuietPair DEF CalmFine
      <3> QED
        BY <2>1, <3>1 DEF Whole
    <2> QED
      BY <2>1
  <1>2. ASSUME NEW c \in DOMAIN conns', NEW d \in DOMAIN conns',
               Pair(c)' = Pair(d)', Calm(Pair(c))'
        PROVE  c = d
    <2>1. CASE c \in DOMAIN conns /\ d \in DOMAIN conns
      <3>1. Pair(c)' = Pair(c) /\ Pair(d)' = Pair(d) /\ Calm(Pair(c))
        BY <1>2, <2>1, QuietPair
      <3> QED
        BY <1>2, <2>1, <3>1 DEF CalmFine, OneEach
    <2>2. CASE c \notin DOMAIN conns
      BY <1>2, <2>2
    <2>3. CASE d \notin DOMAIN conns
      <3>1. Calm(Pair(d))'
        BY <1>2 DEF Calm
      <3> QED
        BY <1>2, <2>3, <3>1
    <2> QED
      BY <2>1, <2>2, <2>3
  <1>3. OneEach'
    BY <1>2 DEF OneEach
  <1> QED
    BY <1>1, <1>3

\* The entries of a program whose entries the step leaves alone.
LEMMA KeptSame ==
    ASSUME Structure, NEW r \in Progs, Kept(r),
           upset \subseteq upset', crossed \subseteq crossed',
           \A c \in DOMAIN conns : Pair(c)' = Pair(c),
           list'[r] = list[r], last'[r] = last[r],
           job'[r] = Idle \/ (job[r] # Idle /\ job'[r].handle = job[r].handle)
    PROVE  Kept(r)'
  <1>1. /\ Handles(r)' = Handles(r) /\ Linked(r)' = Linked(r)
        /\ \A h : Fd(r, h)' = Fd(r, h)
        /\ \A P : Calm(P)' => Calm(P)
    BY DEF Handles, Linked, Fd, Calm
  <1>2. \A h \in Handles(r) : Fd(r, h) # None =>
            Pair(Fd(r, h))' = Pair(Fd(r, h))
    <2> SUFFICES ASSUME NEW h \in Handles(r), NEW f, f = Fd(r, h), f # None
                 PROVE  Pair(f)' = Pair(f)
      BY <1>1 DEF Pair
    <2>1. f \in DOMAIN conns
      BY DEF Structure, View, EntriesFine, Holdable
    <2> QED
      BY <2>1
  <1>3. /\ \A h \in Handles(r) :
               Fd(r, h) # None /\ Calm(Pair(Fd(r, h)))' => list[r][h].linked
    BY <1>1, <1>2 DEF Kept, Calm
  <1> QED
    BY <1>1, <1>3 DEF Kept

\* The two programs of a message.
LEMMA Ends ==
    ASSUME NEW s \in Seq([from : Progs, to : Progs])
    PROVE  /\ DOMAIN s = 1 .. Len(s) /\ Len(s) \in Nat
           /\ \A m \in DOMAIN s : s[m].from \in Progs /\ s[m].to \in Progs
  <1>1. DOMAIN s = 1 .. Len(s) /\ Len(s) \in Nat
    OBVIOUS
  <1>2. ASSUME NEW m \in DOMAIN s PROVE s[m] \in [from : Progs, to : Progs]
    <2> DEFINE R == [from : Progs, to : Progs]
    <2>1. s \in Seq(R)
      OBVIOUS
    <2> HIDE DEF R
    <2>2. s[m] \in R
      BY <2>1
    <2> QED
      BY <2>2 DEF R
  <1> QED
    BY <1>1, <1>2

\* It leaves messages on their way.
LEMMA QuietFlow ==
    ASSUME Structure, Structure', NEW p \in Progs, Quiet(p), Settled,
           Streams, ReadOnce, Streams', Flow, delivered' = delivered,
           \A m \in accepted' : m \in accepted \/ (m \in DOMAIN sent /\ Arrives(m)'),
           job'[p] # Idle /\ job'[p].at = "check" => Arrives(job[p].msg)'
    PROVE  Flow' /\ accepted' \subseteq DOMAIN sent'
  <1>1. /\ DOMAIN sent \subseteq DOMAIN sent'
        /\ \A m \in DOMAIN sent : sent'[m] = sent[m] /\ PairOf(m)' = PairOf(m)
        /\ \A P : Calm(P)' => Calm(P)
        /\ \A m : IsDelivered(m)' <=> IsDelivered(m)
        /\ accepted \subseteq DOMAIN sent
        /\ \A i \in DOMAIN delivered : delivered[i].msg \in DOMAIN sent
        /\ TypeOK /\ TypeOK'
    BY DEF Quiet, Calm, PairOf, IsDelivered, ReadOnce, Structure
  <1>2. ASSUME NEW m \in DOMAIN sent, Coming(m), Calm(PairOf(m))' PROVE Coming(m)'
    <2>1. PICK c \in DOMAIN conns : Contains(Unread(c, sent[m].to), m)
      BY <1>2 DEF Coming
    <2>2. sent[m].to \in Progs
      BY <1>1, Ends DEF TypeOK
    <2>3. MsgFine(m, c, sent[m].to)
      BY <2>1, <2>2 DEF Streams
    <2>4. PairOf(m) = Pair(c)
      BY <2>3 DEF MsgFine, PairOf, Pair, Other
    <2>5. c \in DOMAIN conns' /\ Calm(Pair(c))'
      <3>1. Pair(c)' = Pair(c) /\ c \in DOMAIN conns'
        BY QuietPair
      <3> QED
        BY <1>1, <1>2, <2>4, <3>1 DEF Calm
    <2>6. Unread(c, sent[m].to)' = Unread(c, sent[m].to)
      BY <1>1, <2>5 DEF Settled, Unread
    <2> QED
      BY <1>1, <2>1, <2>5, <2>6 DEF Coming
  <1>3. ASSUME NEW m \in DOMAIN sent, Coming(m)' PROVE Coming(m)
    <2>1. PICK c \in DOMAIN conns' : Contains(Unread(c, sent[m].to)', m)
      BY <1>1, <1>3 DEF Coming, Unread
    <2>2. sent[m].to \in Progs
      BY <1>1, Ends DEF TypeOK
    <2>3. c \in DOMAIN conns /\ Contains(Unread(c, sent[m].to), m)
      BY <1>1, <2>1, <2>2, QuietUnread DEF Unread
    <2> QED
      BY <2>3 DEF Coming
  <1>4. \A m \in DOMAIN sent : Arrives(m) => Arrives(m)'
    BY <1>1, <1>2 DEF Arrives, Calm
  <1>5. \A m \in accepted' : m \in DOMAIN sent /\ Arrives(m)'
    BY <1>1, <1>4 DEF Flow
  <1>6. ASSUME NEW r \in Progs, job'[r] # Idle, job'[r].at = "check"
        PROVE  Arrives(job[r].msg)'
    <2>1. CASE r = p
      BY <1>6, <2>1
    <2>2. CASE r # p
      <3>1. job'[r] = job[r]
        BY <2>2 DEF Quiet
      <3>2. Arrives(job[r].msg) /\ job[r].msg \in DOMAIN sent
        BY <1>6, <3>1 DEF Flow, Structure, JobFine
      <3> QED
        BY <1>4, <3>1, <3>2
    <2> QED
      BY <2>1, <2>2
  <1>7. ASSUME NEW i \in DOMAIN delivered, NEW j \in DOMAIN delivered,
               i < j, sent'[delivered[i].msg] = sent'[delivered[j].msg]
        PROVE  delivered[i].msg < delivered[j].msg \/ ~ Calm(PairOf(delivered[i].msg))'
    <2>1. PICK m, n : m = delivered[i].msg /\ n = delivered[j].msg
      OBVIOUS
    <2>2. m \in DOMAIN sent /\ n \in DOMAIN sent /\ sent[m] = sent[n]
      BY <1>1, <1>7, <2>1
    <2>3. m < n \/ ~ Calm(PairOf(m))
      BY <1>7, <2>1, <2>2 DEF Flow
    <2>4. m < n \/ ~ Calm(PairOf(m))'
      BY <1>1, <2>2, <2>3 DEF Calm
    <2> QED
      BY <2>1, <2>4 DEF PairOf
  <1>8. ASSUME NEW i \in DOMAIN delivered, NEW m \in DOMAIN sent',
               sent'[m] = sent'[delivered[i].msg], Coming(m)'
        PROVE  delivered[i].msg < m \/ ~ Calm(PairOf(m))'
    <2>1. m \in DOMAIN sent
      <3>2. PICK c \in DOMAIN conns' : \E q \in Progs : Contains(Unread(c, q)', m)
        <4>1. sent'[m].to \in Progs
          BY <1>1, Ends DEF TypeOK
        <4> QED
          BY <1>8, <4>1 DEF Coming, Unread
      <3>3. PICK q \in Progs : Contains(Unread(c, q), m) /\ c \in DOMAIN conns
        BY <1>1, <3>2, QuietUnread DEF Unread
      <3> QED
        BY <3>3 DEF Streams, MsgFine
    <2>2. Coming(m) /\ sent[m] = sent[delivered[i].msg]
      BY <1>1, <1>3, <1>8, <2>1
    <2>3. delivered[i].msg < m \/ ~ Calm(PairOf(m))
      BY <2>1, <2>2 DEF Flow
    <2> QED
      BY <1>1, <2>1, <2>3 DEF Calm
  <1>9. /\ \A m \in accepted' : Arrives(m)'
        /\ \A r \in Progs : job'[r] # Idle /\ job'[r].at = "check" => Arrives(job[r].msg)'
        /\ \A i, j \in DOMAIN delivered' :
               i < j /\ sent'[delivered'[i].msg] = sent'[delivered'[j].msg] =>
                   \/ delivered'[i].msg < delivered'[j].msg
                   \/ ~ Calm(PairOf(delivered[i].msg))'
        /\ \A i \in DOMAIN delivered' : \A m \in DOMAIN sent' :
               sent'[m] = sent'[delivered'[i].msg] /\ Coming(m)' =>
                   delivered'[i].msg < m \/ ~ Calm(PairOf(m))'
    BY <1>5, <1>6, <1>7, <1>8
  <1>10. Flow'
    BY <1>9 DEF Flow
  <1> QED
    BY <1>1, <1>5, <1>10

\* A step that writes and reads nothing keeps the whole invariant.
LEMMA QuietInv ==
    ASSUME Inv, Structure', NEW p \in Progs, Quiet(p), Settled,
           delivered' = delivered,
           \A c \in DOMAIN conns' \ DOMAIN conns : Whole(c)' /\
               \A d \in DOMAIN conns' : Pair(d)' = Pair(c)' /\ Calm(Pair(c))' => d = c,
           JobMsg(p)', Kept(p)',
           \A m \in accepted' : m \in accepted \/ (m \in DOMAIN sent /\ Arrives(m)'),
           job'[p] # Idle /\ job'[p].at = "check" => Arrives(job[p].msg)'
    PROVE  Inv'
  <1>1. Structure /\ Streams /\ ReadOnce /\ CalmFine /\ Flow
    BY DEF Inv, Msgs
  <1>2. Streams'
    BY <1>1, QuietStreams
  <1>3. Flow' /\ accepted' \subseteq DOMAIN sent'
    BY <1>1, <1>2, QuietFlow
  <1>4. ReadOnce'
    <2>1. /\ DOMAIN sent \subseteq DOMAIN sent'
          /\ \A m \in DOMAIN sent : sent'[m] = sent[m]
      BY DEF Quiet
    <2> QED
      BY <1>1, <1>3, <2>1 DEF ReadOnce
  <1>5. ASSUME NEW r \in Progs PROVE JobMsg(r)'
    <2>1. CASE r = p
      BY <2>1
    <2>2. CASE r # p
      <3>1. JobMsg(r) /\ r \in Progs \ {p}
        BY <2>2 DEF Inv, Msgs
      <3>2. job'[r] = job[r]
        BY <2>2 DEF Quiet
      <3>3. job[r] # Idle /\ IsDelivered(job[r].msg)' => IsDelivered(job[r].msg)
        BY <3>2 DEF IsDelivered
      <3> QED
        BY <1>1, <3>1, <3>3, QuietJobMsg
    <2> QED
      BY <2>1, <2>2
  <1>6. ASSUME NEW r \in Progs PROVE Kept(r)'
    <2>1. CASE r = p
      BY <2>1
    <2>2. CASE r # p
      <3>1. /\ Kept(r) /\ list'[r] = list[r] /\ last'[r] = last[r]
            /\ job'[r] = job[r]
        BY <1>1, <2>2 DEF CalmFine, Quiet
      <3>2. /\ upset \subseteq upset' /\ crossed \subseteq crossed'
            /\ \A c \in DOMAIN conns : Pair(c)' = Pair(c)
        BY QuietPair DEF Quiet
      <3> QED
        BY <1>1, <3>1, <3>2, KeptSame
    <2> QED
      BY <2>1, <2>2
  <1>7. OneEach' /\ \A c \in DOMAIN conns' : Whole(c)'
    BY <1>1, QuietOneEach DEF Settled
  <1> QED
    BY <1>2, <1>3, <1>4, <1>5, <1>6, <1>7 DEF Inv, Msgs, CalmFine

\* What an entry that holds a connection knows about it.
LEMMA Held ==
    ASSUME Structure, NEW p \in Progs, NEW h \in Handles(p), NEW c, c = Fd(p, h), c # None
    PROVE  /\ c \in DOMAIN conns /\ p \in conns[c].open /\ ~ Contains(backlog[p], c)
           /\ Sound(conns[c]) /\ NameOf(Other(c, p)) = list[p][h].name
           /\ Other(c, p) \in Progs \ {p} /\ Other(c, Other(c, p)) = p
           /\ Pair(c) = {p, Other(c, p)}
           /\ list[p][h].name \in Named => Other(c, p) = list[p][h].name
  <1>1. TypeOK /\ View(p)
    BY DEF Structure
  <1>2. Holdable(p, list[p][h].name, c)
    BY <1>1 DEF View, EntriesFine
  <1>3. /\ c \in DOMAIN conns /\ p \in conns[c].open /\ ~ Contains(backlog[p], c)
        /\ NameOf(Other(c, p)) = list[p][h].name
    BY <1>2 DEF Holdable
  <1>4. Sound(conns[c]) /\ conns[c].from \in Progs /\ conns[c].to \in Progs
    BY <1>1, <1>3, Fields DEF Structure
  <1>5. /\ Other(c, p) \in Progs \ {p} /\ Other(c, Other(c, p)) = p
        /\ Pair(c) = {p, Other(c, p)}
    BY <1>3, <1>4 DEF Sound, Other, Pair
  <1>6. list[p][h].name \in Named => Other(c, p) = list[p][h].name
    BY <1>3 DEF NameOf, Progs
  <1> QED
    BY <1>3, <1>4, <1>5, <1>6

\* A connection with a closed end, or reset, is not between undisturbed programs.
LEMMA NotWhole ==
    ASSUME Structure, CalmFine, NEW c \in DOMAIN conns, NEW p, p \in Pair(c),
           Other(c, p) \notin conns[c].open \/ p \in conns[c].reset
    PROVE  ~ Calm(Pair(c))
  BY DEF CalmFine, Whole, Pair, Other

\* Closing connections of disturbed programs is such a step.
LEMMA ClosedQuiet ==
    ASSUME Structure, NEW p \in Progs, NEW C, conns' = Closed(C, p),
           \A c \in C \cap DOMAIN conns : p \in conns[c].open /\ ~ Calm(Pair(c))',
           \A r \in Progs \ {p} :
               /\ list'[r] = list[r] /\ job'[r] = job[r] /\ last'[r] = last[r],
           \A r \in Progs : \A c \in DOMAIN conns :
               Contains(backlog'[r], c) => Contains(backlog[r], c),
           sent' = sent, upset \subseteq upset', crossed \subseteq crossed'
    PROVE  /\ Quiet(p) /\ Settled /\ DOMAIN conns' = DOMAIN conns
           /\ \A c \in DOMAIN conns \ C : conns'[c] = conns[c]
  <1>1. /\ TypeOK /\ DOMAIN conns' = DOMAIN conns
        /\ \A c \in DOMAIN conns : ClosedConn(C, p, c) /\ Sound(conns[c])
    BY ClosedFields DEF Structure
  <1>2. \A c \in DOMAIN conns : Worn(conns'[c], c, p)
    BY <1>1, WornClosed
  <1>3. \A c \in DOMAIN conns \ C : conns'[c] = conns[c]
    BY <1>1 DEF ClosedConn
  <1>4. Quiet(p)
    BY <1>1, <1>2 DEF Quiet
  <1>5. Settled
    BY <1>3 DEF Settled
  <1> QED
    BY <1>1, <1>3, <1>4, <1>5

\* A step of p that leaves every end, reset and message where it was.
LEMMA SameQuiet ==
    ASSUME Structure, NEW p \in Progs, DOMAIN conns' = DOMAIN conns,
           \A c \in DOMAIN conns :
               /\ conns'[c].from = conns[c].from /\ conns'[c].to = conns[c].to
               /\ conns'[c].open = conns[c].open /\ conns'[c].reset = conns[c].reset
               /\ conns'[c].unread = conns[c].unread,
           \A r \in Progs \ {p} :
               /\ list'[r] = list[r] /\ job'[r] = job[r] /\ last'[r] = last[r],
           \A r \in Progs : \A c \in DOMAIN conns :
               Contains(backlog'[r], c) => Contains(backlog[r], c),
           DOMAIN sent \subseteq DOMAIN sent', \A m \in DOMAIN sent : sent'[m] = sent[m],
           upset \subseteq upset', crossed \subseteq crossed'
    PROVE  Quiet(p) /\ Settled
  <1>1. ASSUME NEW c \in DOMAIN conns PROVE Worn(conns'[c], c, p)
    BY RestSome DEF Worn, Unread
  <1> QED
    BY <1>1 DEF Quiet, Settled

\* sock_close() keeps the invariant.
LEMMA SockCloseInv ==
    ASSUME Inv, NEW p \in Progs, NEW h \in Handles(p), SockClose(p, h)
    PROVE  Inv'
  <1> DEFINE head == h = Max(Linked(p))
             cut == IF head THEN Linked(p) ELSE {h}
  <1>1. /\ Structure /\ Structure' /\ TypeOK /\ Kept(p) /\ CalmFine
        /\ job[p] = Idle /\ h \in Linked(p)
        /\ list' = [list EXCEPT ![p] =
                [g \in Handles(p) |->
                    IF g = h THEN [name |-> None, fd |-> None, linked |-> FALSE]
                    ELSE [list[p][g] EXCEPT !.linked = @ /\ ~ head]]]
        /\ upset' = upset \cup {Pair(Fd(p, g)) : g \in {k \in cut : Fd(p, k) # None}}
        /\ conns' = Closed({Fd(p, h)}, p)
        /\ last' = [last EXCEPT ![p] = IF @ = h THEN None ELSE @]
        /\ UNCHANGED <<backlog, job, sent, accepted, delivered, crossed>>
    BY SockCloseStructure DEF Inv, SockClose, Structure, CalmFine
  <1>2. /\ list \in [Progs -> Seq(Entry)] /\ last \in [Progs -> Nat]
        /\ \A g \in Handles(p) : /\ list[p][g] \in Entry /\ list[p][g].linked \in BOOLEAN
        /\ h \in cut /\ Linked(p) \subseteq Handles(p)
    BY <1>1, Fields DEF TypeOK
  <1>3. /\ \A r \in Progs \ {p} : list'[r] = list[r] /\ last'[r] = last[r] /\ job'[r] = job[r]
        /\ last'[p] = IF last[p] = h THEN None ELSE last[p]
        /\ DOMAIN list'[p] = Handles(p)
        /\ list'[p][h] = [name |-> None, fd |-> None, linked |-> FALSE]
        /\ \A g \in Handles(p) \ {h} :
               list'[p][g] = [list[p][g] EXCEPT !.linked = @ /\ ~ head]
    BY <1>1, <1>2
  <1>4. ASSUME NEW g \in Handles(p) \ {h}
        PROVE  /\ list'[p][g].name = list[p][g].name /\ Fd(p, g)' = Fd(p, g)
               /\ list'[p][g].linked <=> list[p][g].linked /\ ~ head
    <2>1. list'[p][g] = [list[p][g] EXCEPT !.linked = @ /\ ~ head]
      BY <1>3
    <2>2. list[p][g] \in Entry
      BY <1>2
    <2> HIDE DEF head
    <2> QED
      BY <2>1, <2>2 DEF Entry, Fd
  <1>5. \A g \in cut : Fd(p, g) # None => Pair(Fd(p, g)) \in upset'
    BY <1>1
  <1> HIDE DEF cut
  <1>6. Quiet(p) /\ Settled /\ DOMAIN conns' = DOMAIN conns
    <2>1. \A c \in {Fd(p, h)} \cap DOMAIN conns : p \in conns[c].open /\ ~ Calm(Pair(c))'
      <3> SUFFICES ASSUME NEW c, c = Fd(p, h), c \in DOMAIN conns
                   PROVE  p \in conns[c].open /\ ~ Calm(Pair(c))'
        OBVIOUS
      <3>1. c # None
        BY <1>1, Fields DEF None
      <3>2. p \in conns[c].open
        BY <1>1, <3>1, Held
      <3>3. conns'[c].from = conns[c].from /\ conns'[c].to = conns[c].to
        BY <1>1, ClosedEnds
      <3>4. Pair(c) \in upset' /\ Pair(c)' = Pair(c)
        BY <1>2, <1>5, <3>1, <3>3 DEF Pair
      <3> QED
        BY <3>2, <3>4 DEF Calm
    <2> QED
      BY <1>1, <1>3, <2>1, ClosedQuiet
  <1>7. \A P : Calm(P)' => Calm(P)
    BY <1>1 DEF Calm
  <1>8. Kept(p)'
    <2>1. ASSUME NEW g \in Handles(p)', Fd(p, g)' # None, Calm(Pair(Fd(p, g)))'
          PROVE  list'[p][g].linked
      <3>1. PICK f : f = Fd(p, g) /\ g # h /\ Fd(p, g)' = f /\ g \in Handles(p) /\ f # None
        BY <1>3, <1>4, <2>1 DEF Fd, Handles
      <3>2. f \in DOMAIN conns
        BY <1>1, <3>1, Held
      <3>3. Pair(f)' = Pair(f) /\ Calm(Pair(f))'
        BY <1>6, <2>1, <3>1, <3>2, QuietPair DEF Pair
      <3>4. list[p][g].linked
        BY <1>1, <1>7, <3>1, <3>3 DEF Kept, Calm
      <3>5. ~ head
        <4>1. Pair(f) \notin upset'
          BY <3>3 DEF Calm
        <4>2. g \in Linked(p)
          BY <3>1, <3>4 DEF Linked
        <4> QED
          BY <1>5, <3>1, <4>1, <4>2 DEF cut
      <3> QED
        BY <1>4, <3>1, <3>4, <3>5
    <2>2. \A g \in Linked(p)' : /\ g \in Linked(p) /\ g \in Handles(p) \ {h}
                                /\ list'[p][g].name = list[p][g].name
      <3> SUFFICES ASSUME NEW g \in Linked(p)'
                   PROVE  /\ g \in Linked(p) /\ g \in Handles(p) \ {h}
                          /\ list'[p][g].name = list[p][g].name
        OBVIOUS
      <3>1. g \in Handles(p) /\ list'[p][g].linked
        BY <1>3 DEF Linked, Handles
      <3>2. ~ list'[p][h].linked
        BY <1>3
      <3>3. g # h
        BY <3>1, <3>2
      <3>4. list[p][g].linked /\ list'[p][g].name = list[p][g].name
        BY <1>4, <3>1, <3>3
      <3> QED
        BY <3>1, <3>3, <3>4 DEF Linked
    <2>3. \A f, g \in Linked(p)' :
              list'[p][f].name = list'[p][g].name /\ list'[p][g].name \in Named => f = g
      BY <1>1, <2>2 DEF Kept
    <2>4. ASSUME last'[p] # None, list'[p][last'[p]].name \in Named, Fd(p, last[p])' = None
          PROVE  ~ Calm({p, list[p][last[p]].name})'
      <3>1. last'[p] = last[p] /\ last[p] # h /\ last[p] # None
        BY <1>3, <2>4
      <3>2. last[p] \in Handles(p)
        BY <1>1, <3>1, LastHandle
      <3>3. PICK e : e = last[p] /\ e \in Handles(p) \ {h}
        BY <3>1, <3>2
      <3>4. list'[p][e].name = list[p][e].name /\ Fd(p, e)' = Fd(p, e)
        BY <1>4, <3>3
      <3>5. Fd(p, last[p])' = Fd(p, e)'
        BY <3>1, <3>3 DEF Fd
      <3>6. ~ Calm({p, list[p][e].name})
        BY <1>1, <2>4, <3>1, <3>3, <3>4, <3>5 DEF Kept
      <3>7. ~ Calm({p, list[p][e].name})'
        BY <1>7, <3>1, <3>3, <3>4, <3>6 DEF Calm
      <3> QED
        BY <3>1, <3>3, <3>7 DEF Calm
    <2>5. job'[p] = Idle
      BY <1>1
    <2> QED
      BY <2>1, <2>3, <2>4, <2>5 DEF Kept
  <1>9. JobMsg(p)' /\ job'[p] = Idle
    BY <1>1 DEF JobMsg
  <1> QED
    BY <1>1, <1>6, <1>8, <1>9, QuietInv

\* An exit keeps it.
LEMMA ExitInv ==
    ASSUME Inv, NEW p \in Progs, Exit(p)
    PROVE  Inv'
  <1> DEFINE C == {c \in DOMAIN conns : p \in conns[c].open}
  <1>1. /\ Structure /\ Structure' /\ TypeOK /\ CalmFine
        /\ conns' = Closed(C, p)
        /\ backlog' = [backlog EXCEPT ![p] = <<>>]
        /\ list' = [list EXCEPT ![p] = <<>>]
        /\ last' = [last EXCEPT ![p] = None]
        /\ job' = [job EXCEPT ![p] = Idle]
        /\ upset' = upset \cup {{p, q} : q \in Progs \ {p}}
        /\ UNCHANGED <<sent, accepted, delivered, crossed>>
    BY ExitStructure DEF Inv, Exit, Return, Structure
  <1>2. /\ backlog \in [Progs -> Seq(1 .. MaxConns)] /\ list \in [Progs -> Seq(Entry)]
        /\ last \in [Progs -> Nat] /\ job \in [Progs -> {Idle} \cup Job]
    BY <1>1 DEF TypeOK
  <1>3. /\ backlog'[p] = <<>> /\ list'[p] = <<>> /\ last'[p] = None /\ job'[p] = Idle
        /\ \A r \in Progs \ {p} : /\ backlog'[r] = backlog[r] /\ list'[r] = list[r]
                                  /\ last'[r] = last[r] /\ job'[r] = job[r]
    BY <1>1, <1>2
  <1>4. ASSUME NEW c \in C PROVE p \in conns[c].open /\ ~ Calm(Pair(c))'
    <2>1. Sound(conns[c]) /\ conns[c].from \in Progs /\ conns[c].to \in Progs
      BY <1>1, Fields DEF Structure
    <2>2. \E q \in Progs \ {p} : Pair(c) = {p, q}
      BY <2>1 DEF Sound, Pair
    <2>3. Pair(c)' = Pair(c)
      BY <1>1, ClosedEnds DEF Pair
    <2> QED
      BY <1>1, <2>2, <2>3 DEF Calm
  <1>5. \A r \in Progs : \A c \in DOMAIN conns :
            Contains(backlog'[r], c) => Contains(backlog[r], c)
    BY <1>3, ContainsEmpty
  <1> HIDE DEF C
  <1>6. Quiet(p) /\ Settled /\ DOMAIN conns' = DOMAIN conns
    BY <1>1, <1>3, <1>4, <1>5, ClosedQuiet
  <1>7. Kept(p)'
    <2>1. Handles(p)' = {} /\ Linked(p)' = {}
      BY <1>3 DEF Handles, Linked
    <2> QED
      BY <1>3, <2>1 DEF Kept
  <1>8. JobMsg(p)'
    BY <1>3 DEF JobMsg
  <1> QED
    BY <1>1, <1>3, <1>6, <1>7, <1>8, QuietInv

\* A step that changes nothing of what the invariant speaks of keeps it,
LEMMA StillInv ==
    ASSUME Inv, Structure', NEW p \in Progs,
           UNCHANGED <<conns, backlog, list, last, job, sent, accepted, delivered,
                       upset, crossed>>
    PROVE  Inv'
  <1>1. /\ Structure /\ CalmFine /\ Flow /\ Kept(p) /\ JobMsg(p)
        /\ conns' = conns /\ backlog' = backlog /\ list' = list /\ last' = last
        /\ job' = job /\ sent' = sent /\ accepted' = accepted
        /\ delivered' = delivered /\ upset' = upset /\ crossed' = crossed
    BY DEF Inv, CalmFine, Msgs
  <1>2. Quiet(p) /\ Settled
    BY <1>1, SameQuiet
  <1>3. Kept(p)'
    BY <1>1 DEF Kept, Calm, Handles, Linked, Fd, Pair
  <1>4. JobMsg(p)'
    BY <1>1 DEF JobMsg, Fd, Unread, Other, IsDelivered
  <1>5. job[p] # Idle /\ job[p].at = "check" => Arrives(job[p].msg)'
    BY <1>1 DEF Flow, Arrives, Coming, IsDelivered, Unread, Calm, PairOf
  <1> QED
    BY <1>1, <1>2, <1>3, <1>4, <1>5, QuietInv

\* as the start of a program.
LEMMA StartInv ==
    ASSUME Inv, NEW p \in Progs, Start(p)
    PROVE  Inv'
  <1>1. Structure /\ Structure'
    BY StartStructure DEF Inv
  <1> QED
    BY <1>1, StillInv DEF Start

\* A program that goes on with its job, or returns, and leaves its entries alone.
LEMMA StepInv ==
    ASSUME Inv, Structure', NEW p \in Progs, job[p] # Idle, NEW j,
           job' = [job EXCEPT ![p] = j], j = Idle \/ (j # Idle /\ j.handle = job[p].handle),
           Quiet(p), Settled, DOMAIN conns' = DOMAIN conns, list' = list, last' = last,
           delivered' = delivered, JobMsg(p)',
           \A m \in accepted' : m \in accepted \/ (m \in DOMAIN sent /\ Arrives(m)'),
           j # Idle /\ j.at = "check" => Arrives(job[p].msg)'
    PROVE  Inv'
  <1>1. Structure /\ CalmFine /\ Kept(p) /\ job \in [Progs -> {Idle} \cup Job]
    BY DEF Inv, CalmFine, Structure, TypeOK
  <1>2. job'[p] = j
    BY <1>1
  <1>3. Kept(p)'
    <2>1. /\ upset \subseteq upset' /\ crossed \subseteq crossed'
          /\ \A c \in DOMAIN conns : Pair(c)' = Pair(c)
      BY QuietPair DEF Quiet
    <2> QED
      BY <1>1, <1>2, <2>1, KeptSame
  <1> QED
    BY <1>1, <1>2, <1>3, QuietInv

\* The message of a job that is nowhere yet stays so in a step that writes nothing.
LEMMA FreshJob ==
    ASSUME Structure, Structure', NEW p \in Progs, Quiet(p), delivered' = delivered,
           job[p] # Idle, ~ IsDelivered(job[p].msg),
           \A c \in DOMAIN conns : \A q \in Progs : ~ Contains(Unread(c, q), job[p].msg),
           job'[p] # Idle => job'[p].msg = job[p].msg
    PROVE  JobMsg(p)'
  <1> SUFFICES ASSUME job'[p] # Idle PROVE JobMsg(p)'
    BY DEF JobMsg
  <1>1. PICK m : m = job[p].msg /\ job'[p].msg = m
    OBVIOUS
  <1>2. ~ IsDelivered(m)'
    BY <1>1 DEF IsDelivered
  <1>3. \A c \in DOMAIN conns' : \A q \in Progs : ~ Contains(Unread(c, q)', m)
    <2>1. TypeOK /\ TypeOK'
      BY DEF Structure
    <2> QED
      BY <1>1, <2>1, QuietUnread DEF Unread
  <1> QED
    BY <1>1, <1>2, <1>3 DEF JobMsg

\* Before it is written, a message is nowhere.
LEMMA NotYet ==
    ASSUME Msgs, NEW p \in Progs, job[p] # Idle, job[p].at # "check"
    PROVE  /\ ~ IsDelivered(job[p].msg)
           /\ \A c \in DOMAIN conns : \A q \in Progs :
                  ~ Contains(Unread(c, q), job[p].msg)
  BY DEF Msgs, JobMsg

\* The connection a program writes to is the one between it and the receiver.
LEMMA JobPair ==
    ASSUME Structure, NEW p \in Progs, job[p].at # "loop", job[p].at # "connect"
    PROVE  /\ PairOf(job[p].msg) = Pair(Fd(p, job[p].handle))
           /\ Pair(Fd(p, job[p].handle)) = {p, sent[job[p].msg].to}
  <1>1. PICK m, h, f : m = job[p].msg /\ h = job[p].handle /\ f = Fd(p, h)
    OBVIOUS
  <1>2. /\ h \in Handles(p) /\ f # None /\ sent[m].from = p
        /\ sent[m].to = Other(f, p)
    BY <1>1, JobFacts
  <1>3. Pair(f) = {p, Other(f, p)}
    BY <1>1, <1>2, Held
  <1> QED
    BY <1>1, <1>2, <1>3 DEF PairOf

\* A program without a job is in its loop.
LEMMA NotLoop == Idle.at = "loop"
  BY DEF Idle

\* sock_write() that returns keeps the invariant,
LEMMA ReturnInv ==
    ASSUME Inv, Structure', NEW p \in Progs, job[p].at # "loop", Return(p),
           \/ accepted' = accepted
           \/ job[p].at = "check" /\ accepted' = accepted \cup {job[p].msg},
           UNCHANGED <<conns, backlog, list, last, sent, delivered, upset, crossed>>
    PROVE  Inv'
  <1>1. /\ Structure /\ Flow /\ job[p] # Idle /\ job[p].msg \in DOMAIN sent
        /\ job \in [Progs -> {Idle} \cup Job] /\ job' = [job EXCEPT ![p] = Idle]
        /\ conns' = conns /\ backlog' = backlog /\ list' = list /\ last' = last
        /\ sent' = sent /\ delivered' = delivered /\ upset' = upset
        /\ crossed' = crossed
    BY JobFacts DEF Inv, Structure, TypeOK, Return
  <1>2. Quiet(p) /\ Settled
    BY <1>1, SameQuiet
  <1>3. job'[p] = Idle /\ JobMsg(p)'
    BY <1>1 DEF JobMsg
  <1>4. ASSUME NEW m \in accepted'
        PROVE  m \in accepted \/ (m \in DOMAIN sent /\ Arrives(m)')
    <2>1. CASE m \in accepted
      BY <2>1
    <2>2. CASE m \notin accepted
      <3>1. m = job[p].msg /\ job[p].at = "check"
        BY <2>2
      <3>2. Arrives(m)
        BY <1>1, <3>1 DEF Flow
      <3>3. Arrives(m)'
        BY <1>1, <3>2 DEF Arrives, Coming, IsDelivered, Unread, Calm, PairOf
      <3> QED
        BY <1>1, <3>1, <3>3
    <2> QED
      BY <2>1, <2>2
  <1> QED
    BY <1>1, <1>2, <1>3, <1>4, StepInv

\* and so does the frame that names the program,
LEMMA SendNameInv ==
    ASSUME Inv, NEW p \in Progs, SendName(p)
    PROVE  Inv'
  <1>1. PICK h, c, j : h = job[p].handle /\ c = Fd(p, h) /\ j = [job[p] EXCEPT !.at = "write"]
    OBVIOUS
  <1>2. /\ Structure /\ Structure' /\ TypeOK /\ Msgs /\ job[p].at = "name"
        /\ conns' = [conns EXCEPT ![c].named = TRUE]
        /\ job' = [job EXCEPT ![p].at = "write"]
        /\ UNCHANGED <<backlog, list, last, sent, accepted, delivered, upset, crossed>>
    BY <1>1, SendNameStructure DEF Inv, SendName, Goto, Structure
  <1>3. job[p] # Idle /\ job[p] \in Job /\ c \in DOMAIN conns
    BY <1>1, <1>2, JobFacts
  <1>4. job \in [Progs -> {Idle} \cup Job] /\ conns[c] \in Conn
    BY <1>2, <1>3, Fields DEF TypeOK
  <1>5. job' = [job EXCEPT ![p] = j] /\ job'[p] = j
    BY <1>1, <1>2, <1>4
  <1>6. /\ j.handle = job[p].handle /\ j.msg = job[p].msg /\ j.at = "write"
    BY <1>1, <1>3 DEF Job
  <1>7. PICK r : /\ r = [conns[c] EXCEPT !.named = TRUE]
                 /\ r.from = conns[c].from /\ r.to = conns[c].to
                 /\ r.open = conns[c].open /\ r.reset = conns[c].reset
                 /\ r.unread = conns[c].unread /\ r \in Conn
    <2> DEFINE s == [conns[c] EXCEPT !.named = TRUE]
    <2>1. s \in Conn /\ s.from = conns[c].from /\ s.to = conns[c].to
          /\ s.open = conns[c].open /\ s.reset = conns[c].reset
          /\ s.unread = conns[c].unread
      BY <1>4 DEF Conn
    <2> QED
      BY <2>1
  <1>8. conns' = [conns EXCEPT ![c] = r]
    BY <1>2, <1>7
  <1>9. /\ DOMAIN conns' = DOMAIN conns
        /\ \A d \in DOMAIN conns :
               /\ conns'[d].from = conns[d].from /\ conns'[d].to = conns[d].to
               /\ conns'[d].open = conns[d].open /\ conns'[d].reset = conns[d].reset
               /\ conns'[d].unread = conns[d].unread
    <2>1. /\ DOMAIN conns' = DOMAIN conns /\ conns'[c] = r
          /\ \A d \in DOMAIN conns : d # c => conns'[d] = conns[d]
      BY <1>2, <1>3, <1>7, <1>8, OneConn
    <2> QED
      BY <1>7, <2>1
  <1>10. \A r2 \in Progs \ {p} : job'[r2] = job[r2]
    BY <1>4, <1>5
  <1>11. Quiet(p) /\ Settled
    BY <1>2, <1>9, <1>10, SameQuiet
  <1>12. j # Idle
    BY <1>6, NotLoop
  <1>13. JobMsg(p)'
    BY <1>2, <1>3, <1>5, <1>6, <1>11, NotYet, FreshJob
  <1> QED
    BY <1>2, <1>3, <1>5, <1>6, <1>9, <1>11, <1>12, <1>13, StepInv

\* Closing the connection after a write that failed.
LEMMA DropInv ==
    ASSUME Inv, Structure', NEW p \in Progs, job[p].at \in {"write", "check"}, Drop(p),
           p \in conns[Fd(p, job[p].handle)].reset,
           UNCHANGED <<up, down, backlog, last, left, sent, delivered, upset, crossed,
                       faults>>
    PROVE  Inv'
  <1>1. PICK h, f, m : h = job[p].handle /\ f = Fd(p, h) /\ m = job[p].msg
    OBVIOUS
  <1>2. /\ Structure /\ TypeOK /\ CalmFine /\ Msgs /\ Flow /\ Kept(p)
        /\ job[p].at # "loop" /\ job[p].at # "connect"
        /\ list' = [list EXCEPT ![p][h].fd = None]
        /\ conns' = Closed({f}, p) /\ Again(p)
        /\ UNCHANGED <<backlog, last, sent, delivered, upset, crossed>>
        /\ job \in [Progs -> {Idle} \cup Job]
    BY <1>1 DEF Inv, Structure, CalmFine, Drop, TypeOK
  <1>3. /\ job[p] # Idle /\ job[p] \in Job /\ h \in Handles(p) /\ m \in DOMAIN sent
        /\ f \in DOMAIN conns /\ f # None /\ p \in conns[f].open /\ p \in Pair(f)
        /\ Sound(conns[f]) /\ sent[m].to = Other(f, p)
        /\ list[p][h].name \in Named \cup {Anonymous}
    BY <1>1, <1>2, JobFacts
  <1>4. ~ Calm(Pair(f)) /\ PairOf(m) = Pair(f) /\ Pair(f)' = Pair(f)
    <2>1. ~ Calm(Pair(f))
      BY <1>1, <1>2, <1>3, NotWhole
    <2>2. PairOf(m) = Pair(f)
      BY <1>1, <1>2, JobPair
    <2>3. Pair(f)' = Pair(f)
      BY <1>2, <1>3, ClosedEnds DEF Pair
    <2> QED
      BY <2>1, <2>2, <2>3
  <1>5. /\ Handles(p)' = Handles(p) /\ list'[p][h].name = list[p][h].name
        /\ list'[p][h].linked = list[p][h].linked /\ Fd(p, h)' = None
        /\ \A g \in Handles(p) \ {h} : list'[p][g] = list[p][g] /\ Fd(p, g)' = Fd(p, g)
        /\ \A r \in Progs \ {p} : list'[r] = list[r]
    <2>1. None \in 0 .. MaxConns
      BY DEF None
    <2>2. TypeOK /\ h \in Handles(p) /\ list' = [list EXCEPT ![p][h].fd = None]
      BY <1>2, <1>3
    <2> QED
      BY <2>1, <2>2, OneEntry
  <1>6. PICK j \in {Idle} \cup Job :
            /\ job' = [job EXCEPT ![p] = j] /\ job'[p] = j
            /\ j = Idle \/ (j # Idle /\ j.handle = h /\ j.msg = m /\ j.at = "connect")
            /\ accepted' = accepted \/ accepted' = accepted \cup {m}
    <2>1. CASE job' = [job EXCEPT ![p] = Idle]
      <3>1. accepted' = accepted \/ accepted' = accepted \cup {m}
        BY <1>1, <1>2, <1>3, AgainCases, <2>1 DEF Again
      <3> QED
        BY <1>2, <2>1, <3>1
    <2>2. CASE job' # [job EXCEPT ![p] = Idle]
      <3>1. PICK j \in Job : /\ j.handle = h /\ j.msg = m /\ j.at = "connect"
                             /\ job' = [job EXCEPT ![p] = j]
        BY <1>1, <1>2, <1>3, <2>2, AgainCases
      <3>2. accepted' = accepted
        BY <1>1, <1>2, <1>3, <2>2, AgainCases
      <3>3. j # Idle
        BY <3>1, NotLoop
      <3> QED
        BY <1>2, <3>1, <3>2, <3>3
    <2> QED
      BY <2>1, <2>2
  <1>7. \A r \in Progs \ {p} : job'[r] = job[r]
    BY <1>2, <1>6
  <1>8. \A P : Calm(P)' <=> Calm(P)
    BY <1>2 DEF Calm
  <1>9. Quiet(p) /\ Settled /\ DOMAIN conns' = DOMAIN conns
    <2>1. \A c \in {f} \cap DOMAIN conns : p \in conns[c].open /\ ~ Calm(Pair(c))'
      BY <1>3, <1>4, <1>8 DEF Calm
    <2>2. upset' = upset /\ crossed' = crossed /\ sent' = sent /\ last' = last
          /\ backlog' = backlog
      BY <1>2
    <2> QED
      BY <1>2, <1>5, <1>7, <2>1, <2>2, ClosedQuiet
  <1>10. Kept(p)'
    <2>1. Linked(p)' = Linked(p) /\ \A g \in Handles(p) : list'[p][g].name = list[p][g].name
      BY <1>5 DEF Linked
    <2>2. ASSUME NEW g \in Handles(p), Fd(p, g)' # None, Calm(Pair(Fd(p, g)))'
          PROVE  list'[p][g].linked
      <3>1. PICK d : d = Fd(p, g) /\ g # h /\ Fd(p, g)' = d /\ d # None
        BY <1>5, <2>2
      <3>2. d \in DOMAIN conns
        BY <1>2, <3>1, Held
      <3>3. Pair(d)' = Pair(d) /\ Calm(Pair(d))'
        BY <1>9, <2>2, <3>1, <3>2, QuietPair DEF Pair
      <3>4. list[p][g].linked
        BY <1>2, <1>8, <3>1, <3>3 DEF Kept, Calm
      <3> QED
        BY <1>5, <3>1, <3>4
    <2>3. \A e, g \in Linked(p)' :
              list'[p][e].name = list'[p][g].name /\ list'[p][g].name \in Named => e = g
      <3>1. Linked(p) \subseteq Handles(p)
        BY DEF Linked
      <3> QED
        BY <1>2, <2>1, <3>1 DEF Kept
    <2>4. ASSUME last[p] # None, list'[p][last[p]].name \in Named, Fd(p, last[p])' = None
          PROVE  ~ Calm({p, list'[p][last[p]].name})
      <3>1. PICK e : e = last[p] /\ e \in Handles(p)
        BY <1>2, <2>4, LastHandle
      <3>2. CASE e = h
        <4>1. Pair(f) = {p, list[p][h].name}
          BY <1>1, <1>2, <1>3, <1>5, <2>4, <3>1, <3>2, Held
        <4>2. list'[p][last[p]].name = list[p][h].name
          BY <1>5, <3>1, <3>2
        <4>3. ~ Calm({p, list[p][h].name})
          BY <1>4, <4>1
        <4> QED
          BY <4>2, <4>3, Zenon
      <3>3. CASE e # h
        <4>1. last'[p] = e
          BY <1>2, <3>1
        <4>2. Fd(p, e)' = None
          BY <2>4, <3>1, <4>1 DEF Fd
        <4>3. list'[p][e].name = list[p][e].name /\ Fd(p, e)' = Fd(p, e)
          BY <1>5, <3>1, <3>3
        <4>4. ~ Calm({p, list[p][e].name})
          BY <1>2, <2>4, <3>1, <4>2, <4>3 DEF Kept
        <4> QED
          BY <3>1, <4>3, <4>4
      <3> QED
        BY <3>2, <3>3
    <2>5. ASSUME job'[p] # Idle, list'[p][h].name \in Named, ~ list'[p][h].linked
          PROVE  ~ Calm({p, list'[p][h].name})
      BY <1>1, <1>2, <1>3, <1>5, <2>5 DEF Kept
    <2>6. last'[p] = last[p] /\ (job'[p] # Idle => job'[p].handle = h)
      BY <1>2, <1>6
    <2>7. /\ last'[p] # None /\ list'[p][last'[p]].name \in Named
                 /\ Fd(p, last[p])' = None => ~ Calm({p, list[p][last[p]].name})'
      BY <1>8, <2>4, <2>6 DEF Calm
    <2>8. job'[p] # Idle /\ list'[p][job'[p].handle].name \in Named
               /\ ~ list'[p][job'[p].handle].linked
              => ~ Calm({p, list[p][job[p].handle].name})'
      BY <1>8, <2>5, <2>6 DEF Calm
    <2> QED
      BY <1>5, <2>2, <2>3, <2>7, <2>8 DEF Kept
  <1>11. JobMsg(p)'
    <2>1. ~ IsDelivered(m) /\ \A c \in DOMAIN conns : \A q \in Progs :
              ~ Contains(Unread(c, q), m)
      <3>1. CASE job[p].at # "check"
        BY <1>1, <1>2, <1>3, <3>1, NotYet
      <3>2. CASE job[p].at = "check"
        <4>1. ~ IsDelivered(m)
          BY <1>1, <1>2, <1>3 DEF Msgs, JobMsg
        <4>2. ASSUME NEW c \in DOMAIN conns, NEW q \in Progs, Contains(Unread(c, q), m)
              PROVE  FALSE
          <5>1. c = f
            BY <1>1, <1>2, <1>3, <4>2 DEF Msgs, JobMsg
          <5>2. MsgFine(m, c, q)
            BY <1>2, <4>2 DEF Msgs, Streams
          <5>3. q = Other(f, p)
            BY <1>3, <5>2 DEF MsgFine
          <5>4. Other(f, p) \notin conns[f].open
            BY <1>1, <1>3 DEF Sound, Other
          <5>5. Unread(c, q) = <<>>
            BY <1>3, <5>1, <5>3, <5>4 DEF Sound, Unread
          <5> QED
            BY <4>2, <5>5, ContainsEmpty
        <4> QED
          BY <4>1, <4>2
      <3> QED
        BY <3>1, <3>2
    <2> QED
      BY <1>1, <1>2, <1>3, <1>6, <1>9, <2>1, FreshJob
  <1>12. \A n \in accepted' : n \in accepted \/ (n \in DOMAIN sent /\ Arrives(n)')
    <2>1. ~ Calm(PairOf(m))'
      BY <1>2, <1>4 DEF Calm, PairOf
    <2> QED
      BY <1>3, <1>6, <2>1 DEF Arrives
  <1>13. job'[p] # Idle => job'[p].at # "check"
    BY <1>6
  <1> QED
    BY <1>2, <1>9, <1>10, <1>11, <1>12, <1>13, QuietInv

\* A connection that is opened or refused keeps the invariant.
LEMMA ConnectInv ==
    ASSUME Inv, NEW p \in Progs, Connect(p)
    PROVE  Inv'
  <1>1. PICK h, q, c, m : /\ h = job[p].handle /\ q = list[p][h].name
                          /\ c = Len(conns) + 1 /\ m = job[p].msg
    OBVIOUS
  <1>2. /\ Structure /\ Structure' /\ TypeOK /\ CalmFine /\ Msgs /\ Flow /\ Kept(p)
        /\ UNCHANGED <<last, sent, accepted, delivered, upset>>
        /\ job \in [Progs -> {Idle} \cup Job]
    BY ConnectStructure DEF Inv, Structure, CalmFine, Connect, TypeOK
  <1>3. /\ job[p] # Idle /\ job[p] \in Job /\ h \in Handles(p) /\ Fd(p, h) = None
        /\ q \in Named /\ q \in Progs /\ p # q /\ job[p].at = "connect"
        /\ \/ Return(p) /\ UNCHANGED <<conns, backlog, list, crossed>>
           \/ /\ c \in 1 .. MaxConns /\ c \notin DOMAIN conns
              /\ DOMAIN conns' = DOMAIN conns \cup {c}
              /\ \A d \in DOMAIN conns : conns'[d] = conns[d]
              /\ conns'[c].from = p /\ conns'[c].to = q
              /\ conns'[c].open = {p, q} /\ conns'[c].reset = {}
              /\ conns'[c].unread = [r \in Progs |-> <<>>]
              /\ backlog' = [backlog EXCEPT ![q] = Append(@, c)]
              /\ list' = [list EXCEPT ![p][h].fd = c]
              /\ crossed' = IF \E d \in DOMAIN conns : conns[d].open = {p, q}
                            THEN crossed \cup {{p, q}} ELSE crossed
              /\ job' = [job EXCEPT ![p].at = "name"]
    <2>1. /\ job[p] # Idle /\ job[p] \in Job /\ h \in Handles(p) /\ Fd(p, h) = None
          /\ q \in Named /\ q \in Progs /\ p # q /\ job[p].at = "connect"
      BY <1>1, <1>2, ConnectStep
    <2>2. CASE Return(p) /\ UNCHANGED <<conns, backlog, list, crossed>>
      BY <2>1, <2>2
    <2>3. CASE ~ (Return(p) /\ UNCHANGED <<conns, backlog, list, crossed>>)
      <3>1. /\ c \in 1 .. MaxConns /\ c \notin DOMAIN conns
            /\ DOMAIN conns' = DOMAIN conns \cup {c}
            /\ \A d \in DOMAIN conns : conns'[d] = conns[d]
            /\ conns'[c].from = p /\ conns'[c].to = q
            /\ conns'[c].open = {p, q} /\ conns'[c].reset = {}
            /\ conns'[c].unread = [r \in Progs |-> <<>>]
        BY <1>1, <1>2, <2>3, ConnectStep
      <3>2. /\ backlog' = [backlog EXCEPT ![q] = Append(@, c)]
            /\ list' = [list EXCEPT ![p][h].fd = c]
            /\ crossed' = IF \E d \in DOMAIN conns : conns[d].open = {p, q}
                          THEN crossed \cup {{p, q}} ELSE crossed
            /\ Goto(p, "name")
        BY <1>1, <1>2, <2>3, ConnectStep
      <3>3. job' = [job EXCEPT ![p].at = "name"]
        BY <3>2 DEF Goto
      <3> QED
        BY <2>1, <3>1, <3>2, <3>3
    <2> QED
      BY <2>2, <2>3
  <1>4. CASE Return(p) /\ UNCHANGED <<conns, backlog, list, crossed>>
    <2>1. job[p].at # "loop"
      BY <1>3
    <2> QED
      BY <1>2, <1>4, <2>1, ReturnInv
  <1>5. CASE /\ c \in 1 .. MaxConns /\ c \notin DOMAIN conns
             /\ DOMAIN conns' = DOMAIN conns \cup {c}
             /\ \A d \in DOMAIN conns : conns'[d] = conns[d]
             /\ conns'[c].from = p /\ conns'[c].to = q
             /\ conns'[c].open = {p, q} /\ conns'[c].reset = {}
             /\ conns'[c].unread = [r \in Progs |-> <<>>]
             /\ backlog' = [backlog EXCEPT ![q] = Append(@, c)]
             /\ list' = [list EXCEPT ![p][h].fd = c]
             /\ crossed' = IF \E d \in DOMAIN conns : conns[d].open = {p, q}
                           THEN crossed \cup {{p, q}} ELSE crossed
             /\ job' = [job EXCEPT ![p].at = "name"]
    <2>1. /\ Handles(p)' = Handles(p) /\ list'[p][h].name = q
          /\ list'[p][h].linked = list[p][h].linked /\ Fd(p, h)' = c
          /\ \A g \in Handles(p) \ {h} : list'[p][g] = list[p][g] /\ Fd(p, g)' = Fd(p, g)
          /\ \A r \in Progs \ {p} : list'[r] = list[r]
      <3>1. TypeOK /\ h \in Handles(p) /\ list' = [list EXCEPT ![p][h].fd = c]
            /\ c \in 0 .. MaxConns
        BY <1>2, <1>3, <1>5
      <3>2. PICK fd \in 0 .. MaxConns : fd = c /\ list' = [list EXCEPT ![p][h].fd = fd]
        BY <3>1
      <3>3. /\ Handles(p)' = Handles(p) /\ list'[p][h].name = list[p][h].name
            /\ list'[p][h].linked = list[p][h].linked /\ Fd(p, h)' = fd
            /\ \A g \in Handles(p) \ {h} : list'[p][g] = list[p][g] /\ Fd(p, g)' = Fd(p, g)
            /\ \A r \in Progs \ {p} : list'[r] = list[r]
        <4>1. TypeOK /\ h \in Handles(p)
          BY <3>1
        <4>2. list' = [list EXCEPT ![p][h].fd = fd]
          BY <3>2
        <4> QED
          BY <4>1, <4>2, OneEntry
      <3> QED
        BY <1>1, <3>2, <3>3
    <2>2. PICK j : /\ j = [job[p] EXCEPT !.at = "name"] /\ job'[p] = j
                   /\ j.handle = h /\ j.msg = m /\ j.at = "name" /\ j # Idle
                   /\ \A r \in Progs \ {p} : job'[r] = job[r]
      <3> DEFINE n == [job[p] EXCEPT !.at = "name"]
      <3>1. n.handle = h /\ n.msg = m /\ n.at = "name"
        BY <1>1, <1>3 DEF Job
      <3>2. job'[p] = n /\ \A r \in Progs \ {p} : job'[r] = job[r]
        BY <1>2, <1>5
      <3> QED
        BY <3>1, <3>2, NotLoop
    <2>3. /\ upset' = upset /\ crossed \subseteq crossed' /\ \A P : Calm(P)' => Calm(P)
      BY <1>2, <1>5 DEF Calm
    <2>4. \A r \in Progs : \A d \in DOMAIN conns :
              Contains(backlog'[r], d) => Contains(backlog[r], d)
      <3> SUFFICES ASSUME NEW r \in Progs, NEW d \in DOMAIN conns, Contains(backlog'[r], d)
                   PROVE  Contains(backlog[r], d)
        OBVIOUS
      <3>1. backlog \in [Progs -> Seq(1 .. MaxConns)]
        BY <1>2 DEF TypeOK
      <3>2. CASE r # q
        BY <1>5, <3>1, <3>2
      <3>3. CASE r = q
        <4>1. backlog'[q] = Append(backlog[q], c) /\ backlog[q] \in Seq(1 .. MaxConns)
              /\ c \in 1 .. MaxConns /\ d # c
          BY <1>3, <1>5, <3>1
        <4>2. Contains(Append(backlog[q], c), d)
          BY <3>3, <4>1
        <4> QED
          BY <3>3, <4>1, <4>2, ContainsAppend
      <3> QED
        BY <3>2, <3>3
    <2>5. Quiet(p)
      <3>1. \A d \in DOMAIN conns : Worn(conns'[d], d, p)
        BY <1>5, WornSame
      <3>2. last' = last /\ sent' = sent
        BY <1>2
      <3> QED
        BY <1>5, <2>1, <2>2, <2>3, <2>4, <3>1, <3>2 DEF Quiet
    <2>6. Settled
      BY <1>5 DEF Settled
    <2>7. Pair(c)' = {p, q} /\ Whole(c)'
      BY <1>5 DEF Whole, Pair
    <2>8. ASSUME NEW d \in DOMAIN conns', Pair(d)' = Pair(c)', Calm(Pair(c))'
          PROVE  d = c
      <3> SUFFICES ASSUME d \in DOMAIN conns PROVE FALSE
        BY <1>5
      <3>1. Pair(d) = {p, q} /\ Calm(Pair(d))'
        BY <2>5, <2>7, <2>8, QuietPair DEF Calm
      <3>2. Calm(Pair(d))
        BY <2>5, <3>1, QuietPair
      <3>3. conns[d].open = {p, q}
        BY <1>2, <3>1, <3>2 DEF CalmFine, Whole
      <3>4. {p, q} \in crossed'
        BY <1>5, <3>3
      <3>5. {p, q} \notin crossed'
        BY <2>7, <2>8 DEF Calm
      <3> QED
        BY <3>4, <3>5
    <2>9. Kept(p)'
      <3>1. Linked(p)' = Linked(p) /\ \A g \in Handles(p) : list'[p][g].name = list[p][g].name
        BY <1>1, <2>1 DEF Linked
      <3>2. ASSUME NEW g \in Handles(p), Fd(p, g)' # None, Calm(Pair(Fd(p, g)))'
            PROVE  list'[p][g].linked
        <4>1. CASE g = h
          <5>1. Calm(Pair(c))'
            BY <2>1, <3>2, <4>1 DEF Pair
          <5>2. Calm({p, q})
            BY <2>3, <2>7, <5>1 DEF Calm
          <5> QED
            BY <1>1, <1>2, <1>3, <2>1, <4>1, <5>2 DEF Kept
        <4>2. CASE g # h
          <5>1. PICK d : d = Fd(p, g) /\ Fd(p, g)' = d /\ d # None
            BY <2>1, <3>2, <4>2
          <5>2. d \in DOMAIN conns
            BY <1>2, <5>1, Held
          <5>3. Pair(d)' = Pair(d) /\ Calm(Pair(d))'
            BY <2>5, <3>2, <5>1, <5>2, QuietPair DEF Pair
          <5>4. list[p][g].linked
            BY <1>2, <2>3, <5>1, <5>3 DEF Kept, Calm
          <5> QED
            BY <2>1, <4>2, <5>4
        <4> QED
          BY <4>1, <4>2
      <3>3. \A e, g \in Linked(p)' :
                list'[p][e].name = list'[p][g].name /\ list'[p][g].name \in Named => e = g
        <4>1. Linked(p) \subseteq Handles(p)
          BY DEF Linked
        <4> QED
          BY <1>2, <3>1, <4>1 DEF Kept
      <3>4. ASSUME last[p] # None, list'[p][last[p]].name \in Named, Fd(p, last[p])' = None
            PROVE  ~ Calm({p, list'[p][last[p]].name})
        <4>1. PICK e : e = last[p] /\ e \in Handles(p)
          BY <1>2, <3>4, LastHandle
        <4>2. last'[p] = e
          BY <1>2, <4>1
        <4>3. Fd(p, e)' = None
          BY <3>4, <4>1, <4>2 DEF Fd
        <4>4. e # h
          BY <1>5, <2>1, <4>3 DEF None
        <4>5. list'[p][e].name = list[p][e].name /\ Fd(p, e)' = Fd(p, e)
          BY <2>1, <4>1, <4>4
        <4>6. ~ Calm({p, list[p][e].name})
          BY <1>2, <3>4, <4>1, <4>3, <4>5 DEF Kept
        <4> QED
          BY <4>1, <4>5, <4>6
      <3>5. ASSUME list'[p][h].name \in Named, ~ list'[p][h].linked
            PROVE  ~ Calm({p, list'[p][h].name})
        BY <1>1, <1>2, <1>3, <2>1, <3>5 DEF Kept
      <3>6. last'[p] = last[p] /\ job'[p].handle = h
        BY <1>2, <2>2
      <3>7. /\ last'[p] # None /\ list'[p][last'[p]].name \in Named
                   /\ Fd(p, last[p])' = None => ~ Calm({p, list[p][last[p]].name})'
        BY <2>3, <3>4, <3>6 DEF Calm
      <3>8. job'[p] # Idle /\ list'[p][job'[p].handle].name \in Named
                 /\ ~ list'[p][job'[p].handle].linked
                => ~ Calm({p, list[p][job[p].handle].name})'
        BY <2>3, <3>5, <3>6 DEF Calm
      <3> QED
        BY <2>1, <3>2, <3>3, <3>7, <3>8 DEF Kept
    <2>10. JobMsg(p)'
      <3>1. ~ IsDelivered(m) /\ \A d \in DOMAIN conns : \A s \in Progs :
                ~ Contains(Unread(d, s), m)
        BY <1>1, <1>2, <1>3, NotYet
      <3>2. /\ Structure /\ Structure' /\ delivered' = delivered /\ job[p] # Idle
            /\ job[p].msg = m /\ job'[p].msg = m
        BY <1>1, <1>2, <1>3, <2>2
      <3> QED
        BY <2>5, <3>1, <3>2, FreshJob
    <2>11. \A d \in DOMAIN conns' \ DOMAIN conns : Whole(d)' /\
               \A e \in DOMAIN conns' : Pair(e)' = Pair(d)' /\ Calm(Pair(d))' => e = d
      <3>1. DOMAIN conns' \ DOMAIN conns \subseteq {c}
        BY <1>5
      <3> QED
        BY <2>7, <2>8, <3>1
    <2>12. /\ accepted' = accepted /\ delivered' = delivered
           /\ job'[p].at # "check"
      BY <1>2, <2>2
    <2> QED
      BY <1>2, <2>5, <2>6, <2>9, <2>10, <2>11, <2>12, QuietInv
  <1> QED
    BY <1>3, <1>4, <1>5

\* A program that starts to send by the entry h of the list l.
LEMMA BeginInv ==
    ASSUME Inv, Structure', NEW p \in Progs, NEW h, NEW l, NEW q, MaySend(p),
           l \in Seq(Entry), h \in DOMAIN l, Handles(p) \subseteq DOMAIN l,
           \A g \in Handles(p) : l[g] = list[p][g],
           \A g \in DOMAIN l \ Handles(p) : l[g].fd = None,
           \A e, g \in DOMAIN l :
               l[e].linked /\ l[g].linked /\ l[e].name = l[g].name /\ l[g].name \in Named
                   => e = g,
           l[h].name \in Named /\ ~ l[h].linked => ~ Calm({p, l[h].name}),
           Begin(p, h, l, q), Len(sent) < MaxSends, q \in Progs
    PROVE  Inv'
  <1>1. /\ Structure /\ TypeOK /\ CalmFine /\ Msgs /\ Flow /\ Kept(p) /\ job[p] = Idle
        /\ list' = [list EXCEPT ![p] = l]
        /\ sent' = Append(sent, [from |-> p, to |-> q])
        /\ UNCHANGED <<conns, backlog, last, accepted, delivered, upset, crossed>>
        /\ job \in [Progs -> {Idle} \cup Job] /\ list \in [Progs -> Seq(Entry)]
    BY DEF Inv, Structure, CalmFine, Begin, MaySend, TypeOK
  <1>2. PICK j, m : /\ job' = [job EXCEPT ![p] = j] /\ m = Len(sent) + 1
                    /\ j.handle = h /\ j.msg = m /\ j.at \in {"connect", "write"}
    <2> DEFINE j == [at |-> IF l[h].fd = None THEN "connect" ELSE "write",
                     handle |-> h, msg |-> Len(sent) + 1, flag |-> 0]
    <2>1. job' = [job EXCEPT ![p] = j]
      BY DEF Begin
    <2>2. j.handle = h /\ j.msg = Len(sent) + 1 /\ j.at \in {"connect", "write"}
      OBVIOUS
    <2> HIDE DEF j
    <2> QED
      BY <2>1, <2>2
  <1>3. /\ list'[p] = l /\ job'[p] = j /\ j # Idle /\ last' = last
        /\ \A r \in Progs \ {p} : list'[r] = list[r] /\ job'[r] = job[r]
    BY <1>1, <1>2, NotLoop
  <1>4. /\ DOMAIN sent \subseteq DOMAIN sent' /\ m \notin DOMAIN sent
        /\ \A n \in DOMAIN sent : sent'[n] = sent[n]
    BY <1>1, <1>2, SentFields
  <1>5. conns' = conns /\ backlog' = backlog /\ upset' = upset /\ crossed' = crossed
        /\ delivered' = delivered /\ accepted' = accepted
    BY <1>1
  <1>6. Quiet(p) /\ Settled
    BY <1>1, <1>3, <1>4, <1>5, SameQuiet
  <1>7. Kept(p)'
    <2>1. /\ Handles(p)' = DOMAIN l
          /\ \A g : Fd(p, g)' = l[g].fd
          /\ \A g \in Linked(p)' : g \in DOMAIN l /\ l[g].linked
          /\ \A P : Calm(P)' <=> Calm(P)
          /\ \A c : Pair(c)' = Pair(c)
      BY <1>3, <1>5 DEF Handles, Fd, Linked, Calm, Pair
    <2>2. ASSUME NEW g \in DOMAIN l, l[g].fd # None, Calm(Pair(l[g].fd))
          PROVE  l[g].linked
      <3>1. g \in Handles(p) /\ l[g] = list[p][g]
        BY <2>2
      <3> QED
        BY <1>1, <2>2, <3>1 DEF Kept, Fd
    <2>3. ASSUME last[p] # None, l[last[p]].name \in Named, l[last[p]].fd = None
          PROVE  ~ Calm({p, l[last[p]].name})
      <3>1. last[p] \in Handles(p)
        BY <1>1, <2>3, LastHandle
      <3>2. l[last[p]] = list[p][last[p]]
        BY <3>1
      <3> QED
        BY <1>1, <2>3, <3>2 DEF Kept, Fd
    <2>4. \A g \in Handles(p)' :
              Fd(p, g)' # None /\ Calm(Pair(Fd(p, g)))' => list'[p][g].linked
      <3> SUFFICES ASSUME NEW g \in DOMAIN l, Fd(p, g)' # None, Calm(Pair(Fd(p, g)))'
                   PROVE  l[g].linked
        BY <1>3, <2>1
      <3>1. Calm(Pair(l[g].fd))
        BY <1>3, <1>5 DEF Calm, Pair, Fd
      <3> QED
        BY <2>1, <2>2, <3>1
    <2>5. \A e, g \in Linked(p)' :
              list'[p][e].name = list'[p][g].name /\ list'[p][g].name \in Named => e = g
      BY <1>3, <2>1
    <2>6. /\ last'[p] # None /\ list'[p][last'[p]].name \in Named
                 /\ Fd(p, last[p])' = None => ~ Calm({p, list[p][last[p]].name})'
      BY <1>3, <2>1, <2>3 DEF Fd
    <2>7. job'[p] # Idle /\ list'[p][job'[p].handle].name \in Named
               /\ ~ list'[p][job'[p].handle].linked
              => ~ Calm({p, list[p][job[p].handle].name})'
      BY <1>2, <1>3, <2>1
    <2> QED
      BY <2>4, <2>5, <2>6, <2>7 DEF Kept
  <1>8. JobMsg(p)'
    <2>1. \A c \in DOMAIN conns : \A s \in Progs : ~ Contains(Unread(c, s), m)
      BY <1>1, <1>4 DEF Msgs, Streams, MsgFine
    <2>2. ~ IsDelivered(m)
      BY <1>1, <1>4 DEF Msgs, ReadOnce, IsDelivered
    <2>3. ~ IsDelivered(m)' /\ \A c \in DOMAIN conns' : \A s \in Progs :
              ~ Contains(Unread(c, s)', m)
      BY <1>5, <2>1, <2>2 DEF IsDelivered, Unread
    <2> QED
      BY <1>2, <1>3, <2>3 DEF JobMsg
  <1>9. job'[p].at # "check"
    BY <1>2, <1>3
  <1>10. /\ DOMAIN conns' \ DOMAIN conns = {}
         /\ \A n \in accepted' : n \in accepted
    BY <1>5
  <1> QED
    BY <1>1, <1>5, <1>6, <1>7, <1>8, <1>9, <1>10, QuietInv

\* sock_send(sock_connect()) keeps it.
LEMMA SendToInv ==
    ASSUME Inv, NEW p \in Progs, NEW q \in Named, SendTo(p, q)
    PROVE  Inv'
  <1> DEFINE h == HandleFor(p, q)
             l == WithEntry(p, q)
  <1>1. /\ Structure /\ Structure' /\ TypeOK /\ MaySend(p) /\ q \in Named \ {p}
        /\ Begin(p, h, l, q) /\ Len(sent) < MaxSends /\ Kept(p) /\ q \in Progs
    BY SendToStructure DEF Inv, SendTo, Structure, MaySend, CalmFine, Progs
  <1>2. /\ l \in Seq(Entry) /\ h \in DOMAIN l /\ DOMAIN l = Handles(p) \cup {h}
        /\ \A g \in Handles(p) : l[g] = list[p][g]
        /\ l[h].name = q /\ l[h].linked
        /\ \/ Existing(p, q) = {} /\ h \notin Handles(p) /\ l[h].fd = None
           \/ h \in Existing(p, q) /\ h \in Handles(p)
    <2>1. TypeOK /\ q \in Named \cup {Anonymous}
      BY <1>1
    <2> QED
      BY <2>1, HandleFacts
  <1> HIDE DEF h, l
  <1>3. ASSUME NEW e \in DOMAIN l, NEW g \in DOMAIN l, l[e].linked, l[g].linked,
               l[e].name = l[g].name, l[g].name \in Named
        PROVE  e = g
    <2>1. \A f \in Handles(p) : l[f].linked => f \in Linked(p)
      BY <1>2 DEF Linked
    <2>2. CASE e \in Handles(p) /\ g \in Handles(p)
      BY <1>1, <1>2, <1>3, <2>1, <2>2 DEF Kept
    <2>3. CASE e \notin Handles(p) \/ g \notin Handles(p)
      <3>1. Existing(p, q) = {} /\ h \notin Handles(p)
        BY <1>2, <2>3
      <3>2. \A f \in Handles(p) : l[f].linked => l[f].name # q
        BY <1>1, <1>2, <2>1, <3>1 DEF Existing, Progs
      <3> QED
        BY <1>2, <1>3, <2>3, <3>2
    <2> QED
      BY <2>2, <2>3
  <1>4. \A g \in DOMAIN l \ Handles(p) : l[g].fd = None
    BY <1>2
  <1> QED
    BY <1>1, <1>2, <1>3, <1>4, BeginInv

\* sock_send(last_msg()) keeps it.
LEMMA ReplyInv ==
    ASSUME Inv, NEW p \in Progs, Reply(p)
    PROVE  Inv'
  <1>1. PICK h : h = last[p]
    OBVIOUS
  <1>2. PICK q : q = IF list[p][h].name = Anonymous THEN Other(Fd(p, h), p)
                     ELSE list[p][h].name
    OBVIOUS
  <1>3. /\ Structure /\ Structure' /\ TypeOK /\ Kept(p) /\ MaySend(p) /\ h # None
        /\ Fd(p, h) = None => list[p][h].name # Anonymous
        /\ Begin(p, h, list[p], q) /\ Len(sent) < MaxSends /\ CalmFine
    BY <1>1, <1>2, ReplyStructure DEF Inv, Reply, Structure, MaySend, CalmFine, Fd
  <1>4. /\ list[p] \in Seq(Entry) /\ h \in Handles(p) /\ Handles(p) = DOMAIN list[p]
    BY <1>1, <1>3, LastHandle, Fields DEF Handles
  <1>5. LastFine(p) /\ list[p][h].name \in Named \cup {Anonymous, None}
    BY <1>3, <1>4, Fields DEF Structure
  <1>6. q \in Progs
    <2>1. CASE list[p][h].name = Anonymous
      BY <1>2, <1>3, <1>4, <2>1, Held
    <2>2. CASE list[p][h].name # Anonymous
      BY <1>1, <1>2, <1>3, <1>5, <2>2 DEF LastFine, Progs
    <2> QED
      BY <2>1, <2>2
  <1>7. list[p][h].name \in Named /\ ~ list[p][h].linked => ~ Calm({p, list[p][h].name})
    <2> SUFFICES ASSUME list[p][h].name \in Named, ~ list[p][h].linked
                 PROVE  ~ Calm({p, list[p][h].name})
      OBVIOUS
    <2>1. CASE Fd(p, h) = None
      BY <1>1, <1>3, <2>1 DEF Kept
    <2>2. CASE Fd(p, h) # None
      <3>1. PICK c : c = Fd(p, h)
        OBVIOUS
      <3>2. Pair(c) = {p, list[p][h].name}
        BY <1>3, <1>4, <2>2, <3>1, Held
      <3>3. ~ Calm(Pair(c))
        BY <1>3, <1>4, <2>2, <3>1 DEF Kept
      <3> QED
        BY <3>2, <3>3
    <2> QED
      BY <2>1, <2>2
  <1>8. \A e, g \in DOMAIN list[p] :
            list[p][e].linked /\ list[p][g].linked /\ list[p][e].name = list[p][g].name
                /\ list[p][g].name \in Named => e = g
    BY <1>3, <1>4 DEF Kept, Linked
  <1> QED
    BY <1>3, <1>4, <1>6, <1>7, <1>8, BeginInv

\* Writing to a connection whose other end is closed.
LEMMA LostFrameInv ==
    ASSUME Inv, NEW p \in Progs, WriteFrame(p),
           p \notin conns[Fd(p, job[p].handle)].reset,
           Other(Fd(p, job[p].handle), p) \notin conns[Fd(p, job[p].handle)].open
    PROVE  Inv'
  <1>1. PICK h, f, m, j : /\ h = job[p].handle /\ f = Fd(p, h) /\ m = job[p].msg
                          /\ j = [job[p] EXCEPT !.at = "check"]
    OBVIOUS
  <1>2. /\ Structure /\ Structure' /\ TypeOK /\ CalmFine /\ Msgs
        /\ job[p].at = "write"
        /\ conns' = [conns EXCEPT ![f].reset = @ \cup {p}]
        /\ job' = [job EXCEPT ![p].at = "check"]
        /\ UNCHANGED <<backlog, list, last, sent, accepted, delivered, upset, crossed>>
        /\ job \in [Progs -> {Idle} \cup Job]
    BY <1>1, WriteFrameStructure DEF Inv, WriteFrame, Goto, Structure, TypeOK
  <1>3. /\ job[p] # Idle /\ job[p] \in Job /\ f \in DOMAIN conns /\ p \in Pair(f)
        /\ conns[f] \in Conn /\ conns[f].reset \in SUBSET Progs
    BY <1>1, <1>2, JobFacts, Fields
  <1>4. /\ job'[p] = j /\ job' = [job EXCEPT ![p] = j]
        /\ \A r \in Progs \ {p} : job'[r] = job[r]
        /\ j.handle = h /\ j.msg = m /\ j.at = "check" /\ j # Idle
    <2>1. j.handle = h /\ j.msg = m /\ j.at = "check"
      BY <1>1, <1>3 DEF Job
    <2> QED
      BY <1>1, <1>2, <2>1, NotLoop
  <1>5. PICK n \in Conn : /\ n.from = conns[f].from /\ n.to = conns[f].to
                          /\ n.open = conns[f].open /\ n.unread = conns[f].unread
                          /\ n.reset = conns[f].reset \cup {p}
                          /\ conns' = [conns EXCEPT ![f] = n]
    <2> DEFINE r == [conns[f] EXCEPT !.reset = @ \cup {p}]
    <2>1. r \in Conn /\ r.from = conns[f].from /\ r.to = conns[f].to
          /\ r.open = conns[f].open /\ r.unread = conns[f].unread
          /\ r.reset = conns[f].reset \cup {p}
      BY <1>3 DEF Conn
    <2>2. conns' = [conns EXCEPT ![f] = r]
      BY <1>2
    <2> QED
      BY <2>1, <2>2
  <1>6. /\ DOMAIN conns' = DOMAIN conns /\ conns'[f] = n
        /\ \A d \in DOMAIN conns : d # f => conns'[d] = conns[d]
    BY <1>2, <1>3, <1>5, OneConn
  <1>7. ~ Calm(Pair(f)) /\ PairOf(m) = Pair(f)
    BY <1>1, <1>2, <1>3, NotWhole, JobPair
  <1>8. Quiet(p)
    <2>1. Worn(conns'[f], f, p)
      BY <1>5, <1>6, RestSome DEF Worn, Unread
    <2>2. \A d \in DOMAIN conns : Worn(conns'[d], d, p)
      BY <1>6, <2>1, WornSame
    <2> QED
      BY <1>2, <1>4, <1>6, <2>2 DEF Quiet
  <1>9. Settled
    <2>1. \A d \in DOMAIN conns : Calm(Pair(d))' => d # f
      BY <1>2, <1>7, <1>8, QuietPair
    <2> QED
      BY <1>6, <2>1 DEF Settled
  <1>10. JobMsg(p)'
    <2>1. ~ IsDelivered(m) /\ \A d \in DOMAIN conns : \A s \in Progs :
              ~ Contains(Unread(d, s), m)
      BY <1>1, <1>2, <1>3, NotYet
    <2>2. /\ Structure /\ Structure' /\ delivered' = delivered /\ job[p] # Idle
          /\ job[p].msg = m /\ job'[p].msg = m
      BY <1>1, <1>2, <1>3, <1>4
    <2> QED
      BY <1>8, <2>1, <2>2, FreshJob
  <1>11. Arrives(job[p].msg)'
    <2>1. ~ Calm(PairOf(m))'
      BY <1>2, <1>7 DEF Calm, PairOf
    <2>2. job'[p].msg = m
      BY <1>4
    <2> QED
      BY <2>1, <2>2 DEF Arrives, PairOf
  <1>12. /\ list' = list /\ last' = last /\ delivered' = delivered
         /\ \A x \in accepted' : x \in accepted
    BY <1>2
  <1> QED
    BY <1>1, <1>2, <1>3, <1>4, <1>6, <1>8, <1>9, <1>10, <1>11, <1>12, StepInv

\* A newer message is appended to older ones.
LEMMA IncreasingAppend ==
    ASSUME NEW s \in Seq(1 .. MaxSends), NEW m \in 1 .. MaxSends, Increasing(s),
           \A x : Contains(s, x) => x < m
    PROVE  Increasing(Append(s, m))
  <1>1. PICK n \in Nat : n = Len(s) /\ s \in [1 .. n -> 1 .. MaxSends]
    OBVIOUS
  <1>2. PICK t : t = Append(s, m)
    OBVIOUS
  <1>3. /\ DOMAIN t = 1 .. n + 1 /\ t[n + 1] = m
        /\ \A i \in 1 .. n : t[i] = s[i] /\ t[i] \in 1 .. MaxSends
    BY <1>1, <1>2
  <1>4. \A i \in 1 .. n : t[i] < m
    BY <1>1, <1>3 DEF Contains
  <1>5. \A i, j \in 1 .. n : i < j => t[i] < t[j]
    BY <1>1, <1>3 DEF Increasing
  <1>6. \A i, j \in 1 .. n + 1 : i < j => t[i] < t[j]
    <2> SUFFICES ASSUME NEW i \in 1 .. n + 1, NEW j \in 1 .. n + 1, i < j
                 PROVE  t[i] < t[j]
      OBVIOUS
    <2>1. i \in 1 .. n
      OBVIOUS
    <2>2. CASE j = n + 1
      BY <1>3, <1>4, <2>1, <2>2
    <2>3. CASE j # n + 1
      <3>1. j \in 1 .. n
        BY <2>3
      <3> QED
        BY <1>5, <2>1, <3>1
    <2> QED
      BY <2>2, <2>3
  <1> QED
    BY <1>2, <1>3, <1>6 DEF Increasing

\* Writing to a connection whose other end is open.
LEMMA PutFrameInv ==
    ASSUME Inv, NEW p \in Progs, WriteFrame(p),
           p \notin conns[Fd(p, job[p].handle)].reset,
           Other(Fd(p, job[p].handle), p) \in conns[Fd(p, job[p].handle)].open
    PROVE  Inv'
  <1>1. PICK h, f, m, q, j : /\ h = job[p].handle /\ f = Fd(p, h) /\ m = job[p].msg
                             /\ q = Other(f, p) /\ j = [job[p] EXCEPT !.at = "check"]
    OBVIOUS
  <1>2. /\ Structure /\ Structure' /\ TypeOK /\ CalmFine /\ Msgs /\ Flow
        /\ Streams /\ ReadOnce
        /\ job[p].at = "write"
        /\ conns' = [conns EXCEPT ![f].unread[q] = Append(@, m)]
        /\ job' = [job EXCEPT ![p].at = "check"]
        /\ job \in [Progs -> {Idle} \cup Job]
    BY <1>1, WriteFrameStructure DEF Inv, WriteFrame, Goto, Structure, TypeOK, Msgs
  <1>3. /\ backlog' = backlog /\ list' = list /\ last' = last /\ sent' = sent
        /\ accepted' = accepted /\ delivered' = delivered /\ upset' = upset
        /\ crossed' = crossed
    BY <1>1 DEF WriteFrame
  <1>4. /\ job[p] # Idle /\ job[p] \in Job /\ f \in DOMAIN conns /\ p \in Pair(f)
        /\ h \in Handles(p) /\ f # None
        /\ m \in DOMAIN sent /\ sent[m].from = p /\ sent[m].to = q
        /\ q \in Progs \ {p} /\ Other(f, q) = p
        /\ conns[f] \in Conn /\ conns[f].unread \in [Progs -> Seq(1 .. MaxSends)]
        /\ m \in 1 .. MaxSends
    BY <1>1, <1>2, JobFacts, Fields DEF Job
  <1>5. q \in Pair(f)
    BY <1>1, <1>4 DEF Pair, Other
  <1>6. /\ job'[p] = j
        /\ \A r \in Progs \ {p} : job'[r] = job[r]
        /\ j.handle = h /\ j.msg = m /\ j.at = "check" /\ j # Idle
    <2>1. j.handle = h /\ j.msg = m /\ j.at = "check"
      BY <1>1, <1>4 DEF Job
    <2> QED
      BY <1>1, <1>2, <2>1, NotLoop
  <1>7. PICK n \in Conn : /\ n.from = conns[f].from /\ n.to = conns[f].to
                          /\ n.open = conns[f].open /\ n.reset = conns[f].reset
                          /\ n.unread = [conns[f].unread EXCEPT ![q] = Append(@, m)]
                          /\ conns' = [conns EXCEPT ![f] = n]
    <2> DEFINE u == [conns[f].unread EXCEPT ![q] = Append(@, m)]
               r == [conns[f] EXCEPT !.unread = u]
    <2>1. u \in [Progs -> Seq(1 .. MaxSends)]
      <3>1. Append(conns[f].unread[q], m) \in Seq(1 .. MaxSends)
        BY <1>4
      <3> QED
        BY <1>4, <3>1
    <2>2. conns' = [conns EXCEPT ![f] = r]
      BY <1>2
    <2> HIDE DEF u
    <2>3. r \in Conn /\ r.from = conns[f].from /\ r.to = conns[f].to
          /\ r.open = conns[f].open /\ r.reset = conns[f].reset /\ r.unread = u
      BY <1>4, <2>1 DEF Conn
    <2> HIDE DEF r
    <2> QED
      BY <2>2, <2>3 DEF u
  <1>8. /\ DOMAIN conns' = DOMAIN conns /\ conns'[f] = n
        /\ \A d \in DOMAIN conns : d # f => conns'[d] = conns[d]
    BY <1>2, <1>4, <1>7, OneConn
  <1>9. /\ Unread(f, q)' = Append(Unread(f, q), m)
        /\ Unread(f, q) \in Seq(1 .. MaxSends)
        /\ \A c \in DOMAIN conns : \A r \in Progs :
               c # f \/ r # q => Unread(c, r)' = Unread(c, r)
    BY <1>4, <1>7, <1>8 DEF Unread
  <1>10. \A c \in DOMAIN conns : \A r \in Progs : \A x :
             Contains(Unread(c, r)', x) <=>
                 Contains(Unread(c, r), x) \/ (c = f /\ r = q /\ x = m)
    <2> SUFFICES ASSUME NEW c \in DOMAIN conns, NEW r \in Progs, NEW x
                 PROVE  Contains(Unread(c, r)', x) <=>
                           Contains(Unread(c, r), x) \/ (c = f /\ r = q /\ x = m)
      OBVIOUS
    <2>1. CASE c = f /\ r = q
      <3>1. PICK s \in Seq(1 .. MaxSends) : s = Unread(f, q) /\ Unread(f, q)' = Append(s, m)
        BY <1>9
      <3>2. Contains(Append(s, m), x) <=> Contains(s, x) \/ x = m
        <4>1. m \in 1 .. MaxSends /\ s \in Seq(1 .. MaxSends)
          BY <1>4
        <4>2. \A S : s \in Seq(S) /\ m \in S =>
                  (Contains(Append(s, m), x) <=> Contains(s, x) \/ x = m)
          BY ContainsAppend
        <4> QED
          BY <4>1, <4>2
      <3>3. Unread(c, r)' = Append(s, m) /\ Unread(c, r) = s
        BY <2>1, <3>1 DEF Unread
      <3> QED
        BY <2>1, <3>2, <3>3
    <2>2. CASE ~ (c = f /\ r = q)
      BY <1>9, <2>2
    <2> QED
      BY <2>1, <2>2
  <1>11. /\ \A c \in DOMAIN conns :
                /\ Pair(c)' = Pair(c) /\ \A r : Other(c, r)' = Other(c, r)
                /\ conns'[c].open = conns[c].open /\ conns'[c].reset = conns[c].reset
         /\ \A P : Calm(P)' <=> Calm(P)
         /\ \A x : (IsDelivered(x)' <=> IsDelivered(x)) /\ PairOf(x)' = PairOf(x)
    <2>1. \A c \in DOMAIN conns :
              /\ conns'[c].from = conns[c].from /\ conns'[c].to = conns[c].to
              /\ conns'[c].open = conns[c].open /\ conns'[c].reset = conns[c].reset
      BY <1>7, <1>8
    <2> QED
      BY <1>3, <2>1 DEF Pair, Other, Calm, IsDelivered, PairOf
  <1>12. /\ ~ IsDelivered(m)
         /\ \A c \in DOMAIN conns : \A r \in Progs : ~ Contains(Unread(c, r), m)
    BY <1>1, <1>2, <1>4, NotYet
  <1>13. \A x \in DOMAIN sent : sent[x].from = p => x <= m
    BY <1>1, <1>2, <1>4 DEF Structure, Newest
  <1>14. DOMAIN sent \subseteq Nat
    <2>1. DOMAIN sent = 1 .. Len(sent) /\ Len(sent) \in Nat
      BY <1>2, Ends DEF TypeOK
    <2> QED
      BY <2>1
  <1>15. Streams'
    <2>1. \A c \in DOMAIN conns : \A r \in Progs : Increasing(Unread(c, r)')
      <3>1. \A x : Contains(Unread(f, q), x) => x < m
        <4> SUFFICES ASSUME NEW x, Contains(Unread(f, q), x) PROVE x < m
          OBVIOUS
        <4>1. MsgFine(x, f, q)
          BY <1>2, <1>4 DEF Streams
        <4>2. x \in DOMAIN sent /\ sent[x].from = p /\ x # m
          BY <1>4, <1>12, <4>1 DEF MsgFine
        <4> QED
          BY <1>4, <1>13, <1>14, <4>2
      <3>2. \A c \in DOMAIN conns : \A r \in Progs : Increasing(Unread(c, r))
        BY <1>2 DEF Streams
      <3>3. Increasing(Append(Unread(f, q), m))
        BY <1>4, <1>9, <3>1, <3>2, IncreasingAppend
      <3> QED
        BY <1>9, <3>2, <3>3
    <2>2. ASSUME NEW c \in DOMAIN conns, NEW r \in Progs, NEW x, Contains(Unread(c, r)', x)
          PROVE  MsgFine(x, c, r)'
      <3>1. MsgFine(x, c, r) \/ (c = f /\ r = q /\ x = m)
        BY <1>2, <1>10, <2>2 DEF Streams
      <3>2. MsgFine(x, c, r)
        BY <1>4, <1>5, <1>12, <3>1 DEF MsgFine
      <3> QED
        BY <1>3, <1>11, <3>2 DEF MsgFine
    <2>3. ASSUME NEW c \in DOMAIN conns, NEW d \in DOMAIN conns, NEW r \in Progs, NEW x,
                 Contains(Unread(c, r)', x), Contains(Unread(d, r)', x)
          PROVE  c = d
      <3>1. CASE x = m
        BY <1>10, <1>12, <2>3, <3>1
      <3>2. CASE x # m
        BY <1>2, <1>10, <2>3, <3>2 DEF Streams
      <3> QED
        BY <3>1, <3>2
    <2> QED
      BY <1>8, <2>1, <2>2, <2>3 DEF Streams
  <1>16. ReadOnce'
    BY <1>2, <1>3 DEF ReadOnce
  <1>17. JobMsg(p)'
    <2>1. Fd(p, h)' = f
      BY <1>1, <1>3 DEF Fd
    <2>2. \A c \in DOMAIN conns' : \A r \in Progs :
              Contains(Unread(c, r)', m) => c = f
      BY <1>8, <1>10, <1>12
    <2>3. ~ IsDelivered(m)'
      BY <1>11, <1>12
    <2> QED
      BY <1>6, <2>1, <2>2, <2>3 DEF JobMsg
  <1>18. ASSUME NEW r \in Progs \ {p} PROVE JobMsg(r)'
    <2> SUFFICES ASSUME job[r] # Idle PROVE JobMsg(r)'
      BY <1>6 DEF JobMsg
    <2>1. PICK e, g, x : e = job[r].handle /\ g = Fd(r, e) /\ x = job[r].msg
      OBVIOUS
    <2>2. JobMsg(r) /\ JobFine(r)
      BY <1>2 DEF Msgs, Structure
    <2>3. job'[r] = job[r] /\ Fd(r, e)' = g
      BY <1>3, <1>6, <2>1 DEF Fd
    <2>4. x # m
      BY <1>4, <2>1, <2>2 DEF JobFine
    <2>5. \A c \in DOMAIN conns' : \A s \in Progs :
              Contains(Unread(c, s)', x) => c = g /\ job[r].at = "check"
      BY <1>8, <1>10, <2>1, <2>2, <2>4 DEF JobMsg
    <2>6. ASSUME IsDelivered(x)'
          PROVE  /\ job[r].at = "check" /\ r \notin conns'[g].reset
                 /\ Unread(g, Other(g, r))' = <<>>
                 /\ ~ Contains(backlog[Other(g, r)], g)'
      <3>1. IsDelivered(x)
        BY <1>11, <2>6
      <3>2. /\ job[r].at = "check" /\ r \notin conns[g].reset
            /\ Unread(g, Other(g, r)) = <<>> /\ ~ Contains(backlog[Other(g, r)], g)
        BY <2>1, <2>2, <3>1 DEF JobMsg
      <3>3. PICK o : o = Other(g, r) /\ o \in Progs /\ g \in DOMAIN conns /\ Other(g, o) = r
        <4>1. job[r].at # "loop"
          BY <3>2
        <4> QED
          BY <1>2, <2>1, <3>2, <4>1, JobFacts
      <3>4. g # f \/ o # q
        BY <1>4, <3>3
      <3>5. Unread(g, o)' = <<>> /\ Other(g, r)' = o /\ r \notin conns'[g].reset
        BY <1>9, <1>11, <3>2, <3>3, <3>4
      <3> QED
        BY <1>3, <3>2, <3>3, <3>5 DEF Unread
    <2> QED
      BY <2>1, <2>3, <2>5, <2>6 DEF JobMsg
  <1>19. CalmFine'
    <2>1. OneEach' /\ \A c \in DOMAIN conns' : Whole(c)'
      BY <1>2, <1>8, <1>11 DEF CalmFine, OneEach, Whole
    <2>2. ASSUME NEW r \in Progs PROVE Kept(r)'
      <3>1. job'[r] = Idle \/ (job[r] # Idle /\ job'[r].handle = job[r].handle)
        BY <1>1, <1>4, <1>6
      <3>2. Kept(r)
        BY <1>2 DEF CalmFine
      <3> QED
        BY <1>2, <1>3, <1>11, <3>1, <3>2, KeptSame
    <2> QED
      BY <2>1, <2>2 DEF CalmFine
  <1>20. \A x \in DOMAIN sent : Coming(x)' <=> Coming(x) \/ x = m
    <2> SUFFICES ASSUME NEW x \in DOMAIN sent PROVE Coming(x)' <=> Coming(x) \/ x = m
      OBVIOUS
    <2>1. sent[x].to \in Progs /\ sent'[x].to = sent[x].to
      BY <1>2, <1>3, Ends DEF TypeOK
    <2>2. Coming(x)' <=> \E c \in DOMAIN conns : Contains(Unread(c, sent[x].to)', x)
      BY <1>3, <1>8 DEF Coming, Unread
    <2> QED
      BY <1>4, <1>10, <2>1, <2>2 DEF Coming
  <1>21. Flow'
    <2>1. \A x \in DOMAIN sent : Arrives(x) => Arrives(x)'
      BY <1>11, <1>20 DEF Arrives, Calm, PairOf
    <2>2. \A x \in accepted' : Arrives(x)'
      BY <1>2, <1>3, <2>1 DEF Flow, ReadOnce
    <2>3. ASSUME NEW r \in Progs, job'[r] # Idle, job'[r].at = "check"
          PROVE  Arrives(job[r].msg)'
      <3>1. CASE r = p
        <4>1. Coming(m)'
          BY <1>4, <1>20
        <4>2. job'[r].msg = m
          BY <1>6, <3>1
        <4> QED
          BY <4>1, <4>2 DEF Arrives, Coming
      <3>2. CASE r # p
        <4>1. job'[r] = job[r] /\ job[r].msg \in DOMAIN sent /\ Arrives(job[r].msg)
          BY <1>2, <1>6, <2>3, <3>2 DEF Structure, JobFine, Flow
        <4>2. PICK x \in DOMAIN sent : x = job[r].msg /\ Arrives(x)'
          BY <2>1, <4>1
        <4>3. job'[r].msg = x
          BY <4>1, <4>2
        <4> QED
          BY <4>2, <4>3 DEF Arrives, IsDelivered, Coming, PairOf
      <3> QED
        BY <3>1, <3>2
    <2>4. ASSUME NEW i \in DOMAIN delivered, NEW x \in DOMAIN sent,
                 sent[x] = sent[delivered[i].msg], Coming(x)'
          PROVE  delivered[i].msg < x \/ ~ Calm(PairOf(x))'
      <3>1. CASE x # m
        <4>1. Coming(x)
          BY <1>20, <2>4, <3>1
        <4> QED
          BY <1>2, <1>11, <2>4, <4>1 DEF Flow, Calm, PairOf
      <3>2. CASE x = m
        <4>1. PICK y : y = delivered[i].msg /\ y \in DOMAIN sent /\ y # m
          BY <1>2, <1>12 DEF ReadOnce, IsDelivered
        <4>2. sent[y].from = p
          BY <1>4, <2>4, <3>2, <4>1
        <4>3. y <= m
          BY <1>13, <4>1, <4>2
        <4> QED
          BY <1>4, <1>14, <3>2, <4>1, <4>3
      <3> QED
        BY <3>1, <3>2
    <2>5. \A i, k \in DOMAIN delivered' :
              i < k /\ sent'[delivered'[i].msg] = sent'[delivered'[k].msg] =>
                  delivered'[i].msg < delivered'[k].msg
                      \/ ~ Calm(PairOf(delivered[i].msg))'
      BY <1>2, <1>3 DEF Flow, Calm, PairOf
    <2>6. \A i \in DOMAIN delivered' : \A x \in DOMAIN sent' :
              sent'[x] = sent'[delivered'[i].msg] /\ Coming(x)' =>
                  delivered'[i].msg < x \/ ~ Calm(PairOf(x))'
      BY <1>3, <2>4
    <2> QED
      BY <2>2, <2>3, <2>5, <2>6 DEF Flow
  <1> QED
    BY <1>2, <1>15, <1>16, <1>17, <1>18, <1>19, <1>21 DEF Inv, Msgs

\* The look at SO_ERROR keeps the invariant,
LEMMA CheckInv ==
    ASSUME Inv, NEW p \in Progs, Check(p)
    PROVE  Inv'
  <1>1. /\ Structure /\ Structure' /\ job[p].at = "check" /\ job[p].at # "loop"
        /\ UNCHANGED <<up, down, backlog, last, left, sent, delivered, upset, crossed, faults>>
    BY CheckStructure DEF Inv, Check
  <1>2. CASE p \in conns[Fd(p, job[p].handle)].reset /\ Drop(p)
    BY <1>1, <1>2, DropInv
  <1>3. CASE /\ Return(p) /\ accepted' = accepted \cup {job[p].msg}
             /\ UNCHANGED <<list, conns>>
    BY <1>1, <1>3, ReturnInv
  <1> QED
    BY <1>2, <1>3 DEF Check

\* and so does every step of sock_write().
LEMMA WritingInv ==
    ASSUME Inv, NEW p \in Progs, Writing(p)
    PROVE  Inv'
  <1>1. ASSUME WriteFrame(p), p \in conns[Fd(p, job[p].handle)].reset PROVE Inv'
    <2>1. Structure'
      BY WritingStructure DEF Inv
    <2>2. /\ job[p].at = "write" /\ Drop(p)
          /\ UNCHANGED <<up, down, backlog, last, left, sent, delivered, upset, crossed, faults>>
      BY <1>1 DEF WriteFrame
    <2> QED
      BY <1>1, <2>1, <2>2, DropInv
  <1>2. ASSUME WriteFrame(p) PROVE Inv'
    BY <1>1, <1>2, LostFrameInv, PutFrameInv
  <1> QED
    BY <1>2, ConnectInv, SendNameInv, CheckInv DEF Writing

-------------------------------------------------------------------------------
(* A turn of the loop *)

\* What a turn closes was not between undisturbed programs, or is not any more.
LEMMA TurnCalm ==
    ASSUME Inv, NEW p \in Progs, NEW F, NEW w, Turn(p, F, w)
    PROVE  /\ \A c \in Gone(p, F) : ~ Calm(Pair(c))'
           /\ \A h \in F : ~ Calm(Pair(Fd(p, h)))
           /\ upset \subseteq upset' /\ crossed' = crossed
  <1>1. /\ Structure /\ TypeOK /\ View(p) /\ CalmFine
        /\ F \subseteq Handles(p)
        /\ upset' = upset \cup {Pair(c) : c \in {d \in Take(p).shut : ~ conns[d].named}}
        /\ crossed' = crossed
    BY DEF Inv, Structure, Turn
  <1>2. /\ Gone(p, F) \subseteq DOMAIN conns
        /\ \A c \in DOMAIN conns : Pair(c)' = Pair(c)
    <2>1. PICK G, f : G = Gone(p, F) /\ f = Fd(p, w)
      OBVIOUS
    <2> QED
      <3>1. TurnShape(p, w, G, f)
        BY <1>1, <2>1, TurnConns
      <3> QED
        BY <2>1, <3>1 DEF TurnShape, Pair
  <1>3. ASSUME NEW h \in F PROVE ~ Calm(Pair(Fd(p, h)))
    <2>1. PICK f : f = Fd(p, h)
      OBVIOUS
    <2>2. /\ h \in Handles(p) /\ f # None
          /\ Other(f, p) \notin conns[f].open \/ p \in conns[f].reset
      BY <1>1, <2>1 DEF Turn
    <2>3. f \in DOMAIN conns /\ p \in Pair(f)
      BY <1>1, <2>1, <2>2, Held
    <2> QED
      BY <1>1, <2>1, <2>2, <2>3, NotWhole
  <1>4. ASSUME NEW c \in Take(p).shut PROVE ~ Calm(Pair(c)) \/ Pair(c) \in upset'
    <2>1. CASE ~ Taken(p)
      <3>1. backlog[p] # <<>> /\ c = Head(backlog[p])
        BY <1>1, <2>1, TakeFacts
      <3>2. ~ conns[c].named
        BY <2>1, <3>1 DEF Taken
      <3> QED
        BY <1>1, <3>2
    <2>2. CASE Taken(p)
      <3>1. PICK k, b, name : k = Taker(p) /\ b = Head(backlog[p])
                              /\ name = NameOf(conns[b].from)
        OBVIOUS
      <3>2. /\ k \in Handles(p) /\ c = Fd(p, k) /\ c # None
            /\ k \in Existing(p, name)
        BY <1>1, <2>2, <3>1, TakeFacts
      <3>3. /\ b \in DOMAIN conns /\ conns[b].to = p /\ Contains(backlog[p], b)
            /\ p \in conns[b].open
        BY <1>1, <2>2, <3>1, TakeFacts DEF Taken
      <3>4. list[p][k].name = name /\ name # Anonymous
        BY <3>2 DEF Existing
      <3>5. name \in Named /\ conns[b].from = name
        BY <3>1, <3>4 DEF NameOf
      <3>6. /\ c \in DOMAIN conns /\ ~ Contains(backlog[p], c)
            /\ Pair(c) = {p, Other(c, p)} /\ Other(c, p) = name
        BY <1>1, <3>2, <3>4, <3>5, Held
      <3>7. Pair(b) = Pair(c) /\ b # c
        BY <3>3, <3>5, <3>6 DEF Pair
      <3> QED
        BY <1>1, <3>3, <3>6, <3>7 DEF CalmFine, OneEach
    <2> QED
      BY <2>1, <2>2
  <1>5. ASSUME NEW c \in Gone(p, F) PROVE ~ Calm(Pair(c))'
    <2>1. ~ Calm(Pair(c)) \/ Pair(c) \in upset'
      BY <1>3, <1>4 DEF Gone
    <2>2. Pair(c)' = Pair(c)
      BY <1>2
    <2> QED
      BY <1>1, <2>1, <2>2 DEF Calm
  <1> QED
    BY <1>1, <1>3, <1>5

\* A turn writes nothing, and takes nothing from undisturbed programs but what it
\* reads.
LEMMA TurnQuiet ==
    ASSUME Inv, NEW p \in Progs, NEW F, NEW w, Turn(p, F, w)
    PROVE  /\ Quiet(p) /\ DOMAIN conns' = DOMAIN conns
           /\ w = None => Settled
           /\ \A c \in DOMAIN conns : Calm(Pair(c))' =>
                  /\ conns'[c].open = conns[c].open /\ conns'[c].reset = conns[c].reset
                  /\ \A q \in Progs : w = None \/ c # Fd(p, w) \/ q # p =>
                         Unread(c, q)' = Unread(c, q)
  <1>1. PICK G, f : G = Gone(p, F) /\ f = Fd(p, w)
    OBVIOUS
  <1>2. /\ Structure /\ TypeOK /\ \A c \in DOMAIN conns : Sound(conns[c])
        /\ sent' = sent /\ job' = job
        /\ last' = last \/ \E l : last' = [last EXCEPT ![p] = l]
        /\ last \in [Progs -> Nat]
    BY DEF Inv, Structure, Turn, TypeOK
  <1>3. /\ DOMAIN conns' = DOMAIN conns
        /\ \A c \in G : p \in conns[c].open
        /\ w # None => f \in DOMAIN conns /\ f \notin G /\ Unread(f, p) # <<>>
        /\ \A c \in DOMAIN conns :
               /\ c \in G \/ w = None \/ c # f => conns'[c] = Closed(G, p)[c]
               /\ conns'[c].from = conns[c].from /\ conns'[c].to = conns[c].to
        /\ w # None =>
               /\ conns'[f].open = conns[f].open /\ conns'[f].reset = conns[f].reset
               /\ conns'[f].unread =
                      [conns[f].unread EXCEPT ![p] = Tail(conns[f].unread[p])]
    <2>1. TurnShape(p, w, G, f)
      BY <1>1, <1>2, TurnConns
    <2> QED
      BY <2>1 DEF TurnShape
  <1>4. /\ \A r \in Progs \ {p} : backlog'[r] = backlog[r]
        /\ \A c : Contains(backlog'[p], c) => Contains(backlog[p], c)
    BY <1>2, TurnBacklog
  <1>5. \A r \in Progs \ {p} : list'[r] = list[r]
    BY <1>2, TurnEntries
  <1>6. /\ upset \subseteq upset' /\ crossed' = crossed
        /\ \A c \in G : ~ Calm(Pair(c))'
    BY <1>1, TurnCalm
  <1>7. ASSUME NEW c \in DOMAIN conns PROVE Worn(conns'[c], c, p)
    <2>1. CASE c \in G \/ w = None \/ c # f
      BY <1>2, <1>3, <2>1, WornClosed
    <2>2. CASE ~ (c \in G \/ w = None \/ c # f)
      <3>1. conns[f].unread \in [Progs -> Seq(1 .. MaxSends)]
        BY <1>2, <1>3, <2>2, Fields
      <3>2. \A q \in Progs : \/ conns'[f].unread[q] = Unread(f, q)
                             \/ /\ Unread(f, q) # <<>>
                                /\ conns'[f].unread[q] = Tail(Unread(f, q))
        BY <1>3, <2>2, <3>1 DEF Unread
      <3>3. \A q \in Progs : Rest(conns'[f].unread[q], Unread(f, q))
        BY <3>2 DEF Rest
      <3> QED
        BY <1>3, <2>2, <3>3 DEF Worn
    <2> QED
      BY <2>1, <2>2
  <1>8. Quiet(p)
    <2>1. \A r \in Progs \ {p} : last'[r] = last[r]
      BY <1>2
    <2> QED
      BY <1>2, <1>3, <1>4, <1>5, <1>6, <1>7, <2>1 DEF Quiet
  <1>9. \A c \in DOMAIN conns : c \notin G /\ (w = None \/ c # f) => conns'[c] = conns[c]
    <2>1. \A c \in DOMAIN conns : ClosedConn(G, p, c)
      BY <1>2, ClosedFields
    <2> QED
      BY <1>3, <2>1 DEF ClosedConn
  <1>10. ASSUME NEW c \in DOMAIN conns, Calm(Pair(c))'
         PROVE  /\ conns'[c].open = conns[c].open /\ conns'[c].reset = conns[c].reset
                /\ w = None => conns'[c].unread = conns[c].unread
                /\ \A q \in Progs : w = None \/ c # f \/ q # p =>
                       Unread(c, q)' = Unread(c, q)
    <2>1. c \notin G
      BY <1>6, <1>10
    <2>2. CASE w = None \/ c # f
      BY <1>9, <2>1, <2>2 DEF Unread
    <2>3. CASE ~ (w = None \/ c # f)
      <3>1. conns[f].unread \in [Progs -> Seq(1 .. MaxSends)]
        BY <1>2, <1>3, <2>3, Fields
      <3> QED
        BY <1>3, <2>3, <3>1 DEF Unread
    <2> QED
      BY <2>2, <2>3
  <1>11. w = None => Settled
    BY <1>10 DEF Settled
  <1> QED
    BY <1>1, <1>3, <1>8, <1>10, <1>11

\* The entries of a program after a turn of its loop.
LEMMA TurnKept ==
    ASSUME Inv, NEW p \in Progs, NEW F, NEW w, Turn(p, F, w)
    PROVE  Kept(p)'
  <1>1. PICK k, c, name, e, E, G, f :
            /\ k = Taker(p) /\ c = Head(backlog[p]) /\ name = NameOf(conns[c].from)
            /\ e = last'[p] /\ E = Existing(p, name)
            /\ G = Gone(p, F) /\ f = Fd(p, w)
    OBVIOUS
  <1>2. /\ Structure /\ TypeOK /\ View(p) /\ Kept(p)
        /\ job'[p] = Idle
        /\ w \in Handles(p) \cup {None} /\ w \notin F
        /\ w # None => Fd(p, w) # None
    BY DEF Inv, Structure, CalmFine, Turn
  <1>3. e \in {last[p], None, w}
    BY <1>1, <1>2 DEF Turn, TypeOK
  <1>4. \A P : ~ Calm(P) => ~ Calm(P)'
    BY TurnCalm DEF Calm
  <1>5. \A h \in Handles(p) :
            /\ list'[p][h].name = list[p][h].name
            /\ list'[p][h].linked = list[p][h].linked
    BY <1>2, TurnEntries
  <1>6. \A h \in Handles(p) : ~ Taken(p) \/ h # k =>
            Fd(p, h)' = IF h \in F THEN None ELSE Fd(p, h)
    BY <1>1, <1>2, TurnEntries
  <1>7. Taken(p) =>
            /\ k \notin F /\ k # w /\ Handles(p)' = Handles(p) \cup {k}
            /\ list'[p][k].fd = c /\ list'[p][k].name = name /\ list'[p][k].linked
    BY <1>1, <1>2, TurnEntries
  <1>8. ~ Taken(p) => Handles(p)' = Handles(p)
    BY <1>2, TurnEntries
  <1>9. Taken(p) => c \in DOMAIN conns /\ c # None
    <2>1. Taken(p) => c \in DOMAIN conns
      BY <1>1, <1>2, TakeFacts DEF Taken
    <2>2. None \notin DOMAIN conns
      BY <1>2, Fields DEF None
    <2> QED
      BY <2>1, <2>2
  <1>10. \A d \in DOMAIN conns : Pair(d)' = Pair(d)
    <2>1. TurnShape(p, w, G, f)
      BY <1>1, <1>2, TurnConns
    <2> QED
      BY <2>1 DEF TurnShape, Pair
  <1>11. ASSUME NEW h \in Handles(p)', Fd(p, h)' # None, Calm(Pair(Fd(p, h)))'
         PROVE  list'[p][h].linked
    <2>1. CASE Taken(p) /\ h = k
      BY <1>7, <2>1
    <2>2. CASE ~ (Taken(p) /\ h = k)
      <3>1. PICK d : d = Fd(p, h)
        OBVIOUS
      <3>2. h \in Handles(p) /\ Fd(p, h)' = d /\ d # None
        BY <1>6, <1>7, <1>8, <1>11, <2>2, <3>1
      <3>3. d \in DOMAIN conns
        BY <1>2, <3>1, <3>2, Held
      <3>4. Calm(Pair(d))
        <4>1. Calm(Pair(d))'
          BY <1>11, <3>2
        <4>2. Pair(d)' = Pair(d)
          BY <1>10, <3>3
        <4> QED
          BY <1>4, <4>1, <4>2 DEF Calm
      <3>5. list[p][h].linked
        BY <1>2, <3>1, <3>2, <3>4 DEF Kept
      <3> QED
        BY <1>5, <3>2, <3>5
    <2> QED
      BY <2>1, <2>2
  <1>12. ASSUME NEW g \in Linked(p)', NEW h \in Linked(p)',
                list'[p][g].name = list'[p][h].name, list'[p][h].name \in Named
         PROVE  g = h
    <2>1. /\ g \in Handles(p)' /\ h \in Handles(p)'
          /\ list'[p][g].linked /\ list'[p][h].linked
      BY DEF Linked
    <2>2. CASE g \in Handles(p) /\ h \in Handles(p)
      BY <1>2, <1>5, <1>12, <2>1, <2>2 DEF Kept, Linked
    <2>3. ASSUME NEW a \in Handles(p), NEW b, b \notin Handles(p), Taken(p), b = k,
                 list'[p][a].linked, list'[p][a].name = list'[p][b].name,
                 list'[p][b].name \in Named
          PROVE  FALSE
      <3>1. name \in Named /\ name # Anonymous
        BY <1>7, <2>3 DEF Progs
      <3>3. E = {}
        BY <1>1, <1>2, <2>3, TakeFacts
      <3>4. a \in E
        BY <1>1, <1>5, <1>7, <2>3, <3>1 DEF Existing, Linked
      <3> QED
        BY <3>3, <3>4
    <2>4. CASE g \notin Handles(p) \/ h \notin Handles(p)
      <3>1. /\ Taken(p)
            /\ g \in Handles(p) \/ g = k
            /\ h \in Handles(p) \/ h = k
        BY <1>7, <1>8, <2>1, <2>4
      <3> QED
        BY <1>12, <2>1, <2>3, <2>4, <3>1
    <2> QED
      BY <2>2, <2>4
  <1>13. ASSUME NEW n, n = list'[p][e].name, e # None, n \in Named, Fd(p, e)' = None
         PROVE  ~ Calm({p, n})'
    <2>1. e \in Handles(p)
      <3>1. last[p] # None => last[p] \in Handles(p)
        BY <1>2, LastHandle
      <3> QED
        BY <1>2, <1>3, <1>13, <3>1
    <2>2. CASE e = w
      <3>1. ~ Taken(p) \/ w # k
        BY <1>7
      <3> QED
        BY <1>2, <1>6, <1>13, <2>1, <2>2, <3>1
    <2>3. CASE e = last[p]
      <3>1. n = list[p][e].name
        BY <1>5, <1>13, <2>1
      <3>2. CASE Fd(p, e) = None
        <4>1. ~ Calm({p, n})
          BY <1>2, <1>13, <2>3, <3>1, <3>2 DEF Kept
        <4> QED
          BY <1>4, <3>1, <4>1 DEF Calm
      <3>3. CASE Fd(p, e) # None
        <4>1. ~ Taken(p) \/ e # k
          BY <1>7, <1>9, <1>13 DEF Fd
        <4>2. e \in F
          BY <1>6, <1>13, <2>1, <3>3, <4>1
        <4>3. PICK d : d = Fd(p, e)
          OBVIOUS
        <4>4. ~ Calm(Pair(d))
          BY <4>2, <4>3, TurnCalm
        <4>5. Pair(d) = {p, n}
          BY <1>2, <1>13, <2>1, <3>1, <3>3, <4>3, Held
        <4> QED
          BY <1>4, <3>1, <4>4, <4>5 DEF Calm
      <3> QED
        BY <3>2, <3>3
    <2> QED
      BY <1>3, <1>13, <2>2, <2>3
  <1>14. /\ \A h \in Handles(p)' :
                Fd(p, h)' # None /\ Calm(Pair(Fd(p, h)))' => list'[p][h].linked
         /\ \A g, h \in Linked(p)' :
                list'[p][g].name = list'[p][h].name /\ list'[p][h].name \in Named => g = h
    BY <1>11, <1>12
  <1>15. last'[p] # None /\ list'[p][last'[p]].name \in Named /\ Fd(p, last[p])' = None =>
             ~ Calm({p, list[p][last[p]].name})'
    <2>1. PICK n : n = list'[p][e].name
      OBVIOUS
    <2>2. list'[p][last'[p]].name = n /\ Fd(p, last[p])' = Fd(p, e)'
      BY <1>1, <2>1 DEF Fd
    <2>3. e # None /\ n \in Named /\ Fd(p, e)' = None => ~ Calm({p, n})'
      BY <1>13, <2>1
    <2> QED
      BY <1>1, <2>2, <2>3 DEF Calm
  <1> QED
    BY <1>2, <1>14, <1>15 DEF Kept

\* A turn that reads nothing.
LEMMA TurnNothing ==
    ASSUME Inv, Structure', NEW p \in Progs, NEW F, Turn(p, F, None)
    PROVE  Inv'
  <1>1. /\ delivered' = delivered /\ accepted' = accepted
        /\ job'[p] = Idle
    BY DEF Turn
  <1>2. Quiet(p) /\ DOMAIN conns' = DOMAIN conns /\ Settled
    BY TurnQuiet
  <1>3. Kept(p)'
    BY TurnKept
  <1>4. JobMsg(p)'
    BY <1>1 DEF JobMsg
  <1> QED
    BY <1>1, <1>2, <1>3, <1>4, QuietInv

\* A sequence that contains nothing is empty.
LEMMA ContainsNothing ==
    ASSUME NEW s \in Seq(1 .. MaxSends), \A m \in 1 .. MaxSends : ~ Contains(s, m)
    PROVE  s = <<>>
  <1> SUFFICES ASSUME s # <<>> PROVE FALSE
    OBVIOUS
  <1>1. PICK n \in Nat \ {0} : n = Len(s) /\ s \in [1 .. n -> 1 .. MaxSends]
    BY TailType
  <1>2. Contains(s, s[1]) /\ s[1] \in 1 .. MaxSends
    BY <1>1 DEF Contains
  <1> QED
    BY <1>2

\* The messages that have been read once one more is.
LEMMA OneMore ==
    ASSUME TypeOK, NEW n \in 1 .. MaxSends, NEW p \in Progs,
           delivered' = Append(delivered, [msg |-> n, by |-> p])
    PROVE  \E k \in Nat :
               /\ k \notin DOMAIN delivered /\ DOMAIN delivered' = DOMAIN delivered \cup {k}
               /\ \A i \in DOMAIN delivered : delivered'[i] = delivered[i] /\ i < k /\ i \in Nat
               /\ delivered'[k].msg = n /\ delivered'[k].by = p
               /\ \A x : IsDelivered(x)' <=> IsDelivered(x) \/ x = n
  <1> DEFINE R == [msg : 1 .. MaxSends, by : Progs]
             e == [msg |-> n, by |-> p]
             k == Len(delivered) + 1
  <1>1. delivered \in Seq(R) /\ delivered' = Append(delivered, e) /\ e \in R
    BY DEF TypeOK
  <1>2. e.msg = n /\ e.by = p
    OBVIOUS
  <1> HIDE DEF R, e
  <1>3. /\ DOMAIN delivered = 1 .. k - 1 /\ k \in Nat
        /\ DOMAIN delivered' = 1 .. k
        /\ \A i \in DOMAIN delivered : delivered'[i] = delivered[i]
        /\ delivered'[k] = e
    BY <1>1
  <1> HIDE DEF k
  <1>4. /\ k \notin DOMAIN delivered /\ DOMAIN delivered' = DOMAIN delivered \cup {k}
        /\ \A i \in DOMAIN delivered : i < k /\ i \in Nat
    BY <1>3
  <1>5. ASSUME NEW x PROVE IsDelivered(x)' <=> IsDelivered(x) \/ x = n
    BY <1>2, <1>3, <1>4 DEF IsDelivered
  <1> QED
    BY <1>2, <1>3, <1>4, <1>5

\* What a turn of p that reads message n from connection f leaves unread.
Reads(p, f, n) ==
    /\ f \in DOMAIN conns /\ n \in DOMAIN sent /\ n \in 1 .. MaxSends
    /\ Contains(Unread(f, p), n) /\ ~ Contains(backlog[p], f)
    /\ p \in conns'[f].open /\ Sound(conns'[f])
    /\ DOMAIN conns' = DOMAIN conns
    /\ sent' = sent /\ job' = job /\ accepted' = accepted
    /\ \A c \in DOMAIN conns : conns'[c].from = conns[c].from /\ conns'[c].to = conns[c].to
    /\ Unread(f, p)' \in Seq(1 .. MaxSends)
    /\ \A m : Contains(Unread(f, p)', m) => n < m
    /\ \A m : Contains(Unread(f, p), m) => Contains(Unread(f, p)', m) \/ m = n
    /\ \A c \in DOMAIN conns : \A q \in Progs : \A m :
           Contains(Unread(c, q)', m) => Contains(Unread(c, q), m) /\ m # n
    /\ \A x : IsDelivered(x)' <=> IsDelivered(x) \/ x = n

\* A turn that reads the first message of an entry.
LEMMA TurnReads ==
    ASSUME Inv, Structure', NEW p \in Progs, NEW F, NEW w, w # None, Turn(p, F, w),
           NEW f, f = Fd(p, w), NEW n, n = Head(Unread(f, p))
    PROVE  /\ Reads(p, f, n)
           /\ delivered' = Append(delivered, [msg |-> n, by |-> p])
  <1>1. PICK G, s : G = Gone(p, F) /\ s = Unread(f, p)
    OBVIOUS
  <1>2. /\ Structure /\ TypeOK /\ TypeOK' /\ Streams
        /\ sent' = sent /\ job' = job /\ accepted' = accepted
        /\ w \in Handles(p) /\ f # None /\ s # <<>>
        /\ delivered' = Append(delivered, [msg |-> n, by |-> p])
    BY <1>1 DEF Inv, Msgs, Structure, Turn
  <1>3. /\ f \in DOMAIN conns /\ p \in conns[f].open
        /\ DOMAIN conns' = DOMAIN conns /\ conns'[f].open = conns[f].open
        /\ conns'[f].unread = [conns[f].unread EXCEPT ![p] = Tail(s)]
        /\ Sound(conns'[f])
        /\ \A c \in DOMAIN conns :
               conns'[c].from = conns[c].from /\ conns'[c].to = conns[c].to
    <2>1. TurnShape(p, w, G, f)
      BY <1>1, <1>2, TurnConns
    <2> QED
      BY <1>1, <2>1 DEF TurnShape, Unread
  <1>4. ~ Contains(backlog[p], f)
    BY <1>2, Held
  <1>5. s \in Seq(1 .. MaxSends) /\ Increasing(s)
    BY <1>1, <1>2, <1>3, UnreadFields DEF Streams
  <1>6. /\ Contains(s, n) /\ n \in 1 .. MaxSends
        /\ ~ Contains(Tail(s), n)
        /\ \A m : Contains(Tail(s), m) => n < m
        /\ \A m : Contains(s, m) => Contains(Tail(s), m) \/ m = n
    BY <1>1, <1>2, <1>5, ContainsFirst
  <1>7. Unread(f, p)' = Tail(s) /\ Tail(s) \in Seq(1 .. MaxSends)
    <2>1. conns[f].unread \in [Progs -> Seq(1 .. MaxSends)]
      BY <1>2, <1>3, Fields
    <2>2. Tail(s) \in Seq(1 .. MaxSends)
      BY <1>2, <1>5, TailType
    <2> QED
      BY <1>3, <2>1, <2>2 DEF Unread
  <1>8. MsgFine(n, f, p)
    BY <1>1, <1>2, <1>3, <1>6 DEF Streams
  <1>9. ASSUME NEW c \in DOMAIN conns, NEW q \in Progs, NEW m, Contains(Unread(c, q)', m)
        PROVE  Contains(Unread(c, q), m) /\ m # n
    <2>1. Contains(Unread(c, q), m)
      <3>1. Quiet(p)
        BY TurnQuiet
      <3> QED
        BY <1>2, <1>3, <1>9, <3>1, QuietUnread DEF Unread
    <2>2. ASSUME m = n PROVE FALSE
      <3>1. MsgFine(n, c, q)
        BY <1>2, <2>1, <2>2 DEF Streams
      <3>2. q = p
        BY <1>8, <3>1 DEF MsgFine
      <3>3. c = f
        BY <1>1, <1>2, <1>3, <1>6, <2>1, <2>2, <3>2 DEF Streams
      <3> QED
        BY <1>6, <1>7, <1>9, <2>2, <3>2, <3>3
    <2> QED
      BY <2>1, <2>2
  <1>10. \A x : IsDelivered(x)' <=> IsDelivered(x) \/ x = n
    BY <1>2, <1>6, OneMore
  <1>11. n \in DOMAIN sent
    BY <1>8 DEF MsgFine
  <1> QED
    BY <1>1, <1>2, <1>3, <1>4, <1>6, <1>7, <1>9, <1>10, <1>11 DEF Reads

\* Reading leaves the other messages in one place and in order.
LEMMA ReadsStreams ==
    ASSUME Structure, Structure', Streams, NEW p \in Progs, Quiet(p), NEW f, NEW n,
           Reads(p, f, n)
    PROVE  Streams'
  <1>1. /\ TypeOK /\ TypeOK' /\ DOMAIN conns' = DOMAIN conns /\ sent' = sent
        /\ \A c \in DOMAIN conns :
               conns'[c].from = conns[c].from /\ conns'[c].to = conns[c].to
        /\ \A c \in DOMAIN conns : \A q \in Progs : \A m :
               Contains(Unread(c, q)', m) => Contains(Unread(c, q), m) /\ m # n
        /\ \A x : IsDelivered(x)' <=> IsDelivered(x) \/ x = n
    BY DEF Structure, Reads
  <1>2. ASSUME NEW c \in DOMAIN conns', NEW q \in Progs PROVE Increasing(Unread(c, q)')
    <2>1. c \in DOMAIN conns => Increasing(Unread(c, q))
      BY DEF Streams
    <2> QED
      BY <1>1, <2>1, QuietUnread DEF Unread
  <1>3. ASSUME NEW c \in DOMAIN conns', NEW q \in Progs, NEW m, Contains(Unread(c, q)', m)
        PROVE  MsgFine(m, c, q)'
    <2>1. c \in DOMAIN conns /\ Contains(Unread(c, q), m) /\ m # n
      BY <1>1, <1>3
    <2>2. MsgFine(m, c, q)
      BY <2>1 DEF Streams
    <2>3. ~ IsDelivered(m)'
      BY <1>1, <2>1, <2>2 DEF MsgFine
    <2>4. Pair(c)' = Pair(c) /\ Other(c, q)' = Other(c, q)
      BY <1>1, <2>1 DEF Pair, Other
    <2> QED
      BY <1>1, <2>2, <2>3, <2>4 DEF MsgFine
  <1>4. ASSUME NEW c \in DOMAIN conns', NEW d \in DOMAIN conns', NEW q \in Progs, NEW m,
               Contains(Unread(c, q)', m), Contains(Unread(d, q)', m)
        PROVE  c = d
    BY <1>1, <1>4 DEF Streams
  <1>5. \A c \in DOMAIN conns' : \A q \in Progs : Increasing(Unread(c, q)')
    BY <1>2
  <1>6. \A c \in DOMAIN conns' : \A q \in Progs : \A m :
            Contains(Unread(c, q)', m) => MsgFine(m, c, q)'
    BY <1>3
  <1>7. \A c, d \in DOMAIN conns' : \A q \in Progs : \A m :
            Contains(Unread(c, q)', m) /\ Contains(Unread(d, q)', m) => c = d
    BY <1>4
  <1> QED
    BY <1>5, <1>6, <1>7 DEF Streams

\* A job whose message is read has nothing left in its connection.
LEMMA ReadsJobMsg ==
    ASSUME Structure, Structure', Streams, NEW p \in Progs, Quiet(p), NEW f, NEW n,
           Reads(p, f, n), job[p] = Idle, NEW r \in Progs, JobMsg(r)
    PROVE  JobMsg(r)'
  <1>1. /\ job' = job
        /\ \A x : IsDelivered(x)' <=> IsDelivered(x) \/ x = n
    BY DEF Reads
  <1>2. CASE job[r] = Idle
    BY <1>1, <1>2 DEF JobMsg
  <1>3. CASE job[r] # Idle /\ job[r].msg # n
    <2>1. r # p
      BY <1>3
    <2> QED
      BY <1>1, <1>3, <2>1, QuietJobMsg
  <1>4. CASE job[r] # Idle /\ job[r].msg = n
    <2>1. /\ f \in DOMAIN conns /\ n \in DOMAIN sent /\ n \in 1 .. MaxSends
          /\ Contains(Unread(f, p), n) /\ ~ Contains(backlog[p], f)
          /\ p \in conns'[f].open /\ Sound(conns'[f])
          /\ DOMAIN conns' = DOMAIN conns /\ sent' = sent
          /\ \A c \in DOMAIN conns :
                 conns'[c].from = conns[c].from /\ conns'[c].to = conns[c].to
          /\ Unread(f, p)' \in Seq(1 .. MaxSends)
          /\ \A m : Contains(Unread(f, p)', m) => Contains(Unread(f, p), m) /\ n < m
          /\ \A c \in DOMAIN conns : \A q \in Progs : ~ Contains(Unread(c, q)', n)
      BY DEF Reads
    <2>2. /\ r # p /\ f = Fd(r, job[r].handle) /\ job[r].at = "check"
      BY <1>4, <2>1 DEF JobMsg
    <2>3. /\ job[r].at # "loop" /\ job[r].at # "connect" /\ n \in Nat
      BY <2>1, <2>2
    <2>4. /\ sent[n].to = p /\ sent[n].from = Other(f, p)
      BY <2>1 DEF Streams, MsgFine
    <2>5. Other(f, r) = p /\ Other(f, p) = r
      BY <1>4, <2>2, <2>3, <2>4, JobFacts
    <2>6. Other(f, r)' = p
      BY <2>1, <2>5 DEF Other
    <2>7. r \notin conns'[f].reset
      BY <2>1, <2>5, <2>6 DEF Sound, Other
    <2>8. ASSUME NEW m \in 1 .. MaxSends, Contains(Unread(f, p)', m) PROVE FALSE
      <3>1. n < m /\ MsgFine(m, f, p)
        BY <2>1, <2>8 DEF Streams
      <3>2. m \in DOMAIN sent /\ sent[m].from = r
        BY <2>5, <3>1 DEF MsgFine
      <3>3. m <= n
        BY <1>4, <3>2 DEF Structure, Newest
      <3> QED
        BY <2>3, <3>1, <3>3
    <2>9. Unread(f, p)' = <<>>
      BY <2>1, <2>8, ContainsNothing
    <2>10. ~ Contains(backlog'[p], f)
      BY <2>1 DEF Quiet
    <2>11. Fd(r, job[r].handle)' = f
      BY <1>1, <2>2 DEF Quiet, Fd
    <2>12. \A c \in DOMAIN conns' : \A q \in Progs : ~ Contains(Unread(c, q)', n)
      BY <2>1
    <2>13. Unread(f, Other(f, r))' = <<>> /\ ~ Contains(backlog[Other(f, r)], f)'
      BY <2>6, <2>9, <2>10 DEF Unread
    <2> QED
      BY <1>1, <1>4, <2>2, <2>7, <2>11, <2>12, <2>13 DEF JobMsg
  <1> QED
    BY <1>2, <1>3, <1>4

\* What is read was not read before.
LEMMA ReadsOnce ==
    ASSUME TypeOK, ReadOnce, NEW p \in Progs, NEW n \in 1 .. MaxSends,
           n \in DOMAIN sent, sent[n].to = p, ~ IsDelivered(n),
           sent' = sent, accepted' = accepted,
           delivered' = Append(delivered, [msg |-> n, by |-> p])
    PROVE  ReadOnce'
  <1>1. PICK k \in Nat :
            /\ k \notin DOMAIN delivered /\ DOMAIN delivered' = DOMAIN delivered \cup {k}
            /\ \A i \in DOMAIN delivered : delivered'[i] = delivered[i]
            /\ delivered'[k].msg = n /\ delivered'[k].by = p
    BY OneMore
  <1>2. \A i \in DOMAIN delivered : delivered[i].msg # n
    BY DEF IsDelivered
  <1>3. \A i \in DOMAIN delivered' :
            /\ delivered'[i].msg \in DOMAIN sent
            /\ sent[delivered'[i].msg].to = delivered'[i].by
    BY <1>1 DEF ReadOnce
  <1>4. \A i, j \in DOMAIN delivered' : delivered'[i].msg = delivered'[j].msg => i = j
    BY <1>1, <1>2 DEF ReadOnce
  <1> QED
    BY <1>3, <1>4 DEF ReadOnce

\* Two undisturbed programs after a turn.
LEMMA TurnCalmFine ==
    ASSUME Inv, NEW p \in Progs, NEW F, NEW w, Turn(p, F, w)
    PROVE  CalmFine'
  <1>1. /\ Structure /\ CalmFine /\ Quiet(p) /\ DOMAIN conns' = DOMAIN conns
        /\ upset \subseteq upset' /\ crossed' = crossed /\ job' = job
    BY TurnQuiet, TurnCalm DEF Inv, Turn
  <1>2. OneEach' /\ \A c \in DOMAIN conns' : Whole(c)'
    <2>1. \A c \in DOMAIN conns : Calm(Pair(c))' =>
              conns'[c].open = conns[c].open /\ conns'[c].reset = conns[c].reset
      BY TurnQuiet
    <2> QED
      BY <1>1, <2>1, QuietOneEach
  <1>3. ASSUME NEW r \in Progs PROVE Kept(r)'
    <2>1. CASE r = p
      BY <2>1, TurnKept
    <2>2. CASE r # p
      <3>1. /\ list'[r] = list[r] /\ last'[r] = last[r] /\ Kept(r)
            /\ \A c \in DOMAIN conns : Pair(c)' = Pair(c)
        BY <1>1, <2>2, QuietPair DEF Quiet, CalmFine
      <3> QED
        BY <1>1, <3>1, KeptSame
    <2> QED
      BY <2>1, <2>2
  <1> QED
    BY <1>2, <1>3 DEF CalmFine

\* A message that was on its way still is, or is the one read.
LEMMA ReadsArrives ==
    ASSUME Structure, Streams, NEW p \in Progs, Quiet(p), NEW f, NEW n, Reads(p, f, n),
           \A c \in DOMAIN conns : Calm(Pair(c))' =>
               \A q \in Progs : c # f \/ q # p => Unread(c, q)' = Unread(c, q),
           NEW x \in DOMAIN sent, Arrives(x)
    PROVE  Arrives(x)'
  <1>1. /\ DOMAIN conns' = DOMAIN conns /\ sent' = sent
        /\ \A m : Contains(Unread(f, p), m) => Contains(Unread(f, p)', m) \/ m = n
        /\ \A m : IsDelivered(m)' <=> IsDelivered(m) \/ m = n
    BY DEF Reads
  <1>2. /\ PairOf(x)' = PairOf(x) /\ sent[x].to \in Progs
        /\ \A P : Calm(P)' => Calm(P)
    BY <1>1, Ends DEF PairOf, Structure, TypeOK, Quiet, Calm
  <1>3. ASSUME Coming(x), Calm(PairOf(x))', x # n PROVE Coming(x)'
    <2>1. PICK c, q : c \in DOMAIN conns /\ q = sent[x].to /\ Contains(Unread(c, q), x)
      BY <1>3 DEF Coming
    <2>2. MsgFine(x, c, q)
      BY <1>2, <2>1 DEF Streams
    <2>3. PairOf(x) = Pair(c)
      BY <2>1, <2>2 DEF MsgFine, PairOf, Pair, Other
    <2>4. Pair(c)' = Pair(c)
      BY <2>1, QuietPair
    <2>5. Calm(Pair(c))'
      BY <1>2, <1>3, <2>3, <2>4 DEF Calm
    <2>6. Contains(Unread(c, q)', x)
      BY <1>1, <1>2, <1>3, <2>1, <2>5
    <2> QED
      BY <1>1, <2>1, <2>6 DEF Coming, Unread
  <1> QED
    BY <1>1, <1>2, <1>3 DEF Arrives, Calm

\* What is read comes before what stays unread between the same programs.
LEMMA ReadsFlow ==
    ASSUME Inv, NEW p \in Progs, Quiet(p), NEW f, NEW n, Reads(p, f, n),
           delivered' = Append(delivered, [msg |-> n, by |-> p]),
           \A c \in DOMAIN conns : Calm(Pair(c))' =>
               \A q \in Progs : c # f \/ q # p => Unread(c, q)' = Unread(c, q)
    PROVE  Flow'
  <1>1. /\ Structure /\ TypeOK /\ Streams /\ ReadOnce /\ Flow /\ OneEach
        /\ sent' = sent /\ job' = job /\ accepted' = accepted
        /\ DOMAIN conns' = DOMAIN conns
        /\ f \in DOMAIN conns /\ n \in DOMAIN sent /\ n \in 1 .. MaxSends
        /\ Contains(Unread(f, p), n)
        /\ \A m : Contains(Unread(f, p)', m) => n < m
        /\ \A c \in DOMAIN conns : \A q \in Progs : \A m :
               Contains(Unread(c, q)', m) => Contains(Unread(c, q), m) /\ m # n
    BY DEF Inv, Msgs, CalmFine, Structure, Reads
  <1>2. PICK k \in Nat :
            /\ k \notin DOMAIN delivered /\ DOMAIN delivered' = DOMAIN delivered \cup {k}
            /\ \A i \in DOMAIN delivered : delivered'[i] = delivered[i] /\ i < k /\ i \in Nat
            /\ delivered'[k].msg = n /\ delivered'[k].by = p
    BY <1>1, OneMore
  <1>3. /\ \A P : Calm(P)' => Calm(P)
        /\ \A m \in DOMAIN sent : PairOf(m)' = PairOf(m) /\ sent[m].to \in Progs
        /\ \A i \in DOMAIN delivered : delivered[i].msg \in DOMAIN sent
    BY <1>1, Ends DEF PairOf, TypeOK, Quiet, Calm, ReadOnce
  <1>4. MsgFine(n, f, p) /\ sent[n].to = p
    BY <1>1 DEF Streams, MsgFine
  <1>5. Coming(n) /\ PairOf(n) = Pair(f)
    BY <1>1, <1>4 DEF Coming, MsgFine, PairOf, Pair, Other
  <1>6. ASSUME NEW x \in DOMAIN sent, Coming(x)' PROVE Coming(x)
    BY <1>1, <1>3, <1>6 DEF Coming, Unread
  <1>7. \A m \in accepted' : Arrives(m)'
    <2>1. \A m \in accepted : m \in DOMAIN sent /\ Arrives(m)
      BY <1>1 DEF Flow, ReadOnce
    <2> QED
      BY <1>1, <2>1, ReadsArrives
  <1>8. ASSUME NEW r \in Progs, job'[r] # Idle, job'[r].at = "check"
        PROVE  Arrives(job[r].msg)'
    <2>1. PICK x : x = job[r].msg
      OBVIOUS
    <2>2. x \in DOMAIN sent /\ Arrives(x)
      BY <1>1, <1>8, <2>1 DEF Flow, Structure, JobFine
    <2>3. Arrives(x)'
      BY <1>1, <2>2, ReadsArrives
    <2>4. job'[r].msg = x
      BY <1>1, <2>1
    <2> QED
      BY <2>3, <2>4 DEF Arrives, IsDelivered, Coming, PairOf
  <1>9. ASSUME NEW i \in DOMAIN delivered', NEW j \in DOMAIN delivered', i < j,
               sent[delivered'[i].msg] = sent[delivered'[j].msg]
        PROVE  delivered'[i].msg < delivered'[j].msg \/ ~ Calm(PairOf(delivered[i].msg))'
    <2>1. i \in DOMAIN delivered
      BY <1>2, <1>9
    <2>2. PICK a, b : a = delivered'[i].msg /\ b = delivered'[j].msg
      OBVIOUS
    <2>3. a = delivered[i].msg /\ a \in DOMAIN sent /\ sent[a] = sent[b]
      BY <1>2, <1>3, <1>9, <2>1, <2>2
    <2>4. a < b \/ ~ Calm(PairOf(a))
      <3>1. CASE j \in DOMAIN delivered
        BY <1>1, <1>2, <1>9, <2>1, <2>2, <2>3, <3>1 DEF Flow
      <3>2. CASE j = k
        <4>1. b = n /\ sent[n] = sent[delivered[i].msg]
          BY <1>2, <2>2, <2>3, <3>2
        <4>2. a < n \/ ~ Calm(PairOf(n))
          BY <1>1, <1>5, <2>1, <2>3, <4>1 DEF Flow
        <4>3. PairOf(n) = PairOf(a)
          BY <2>3, <4>1 DEF PairOf
        <4> QED
          BY <4>1, <4>2, <4>3
      <3> QED
        BY <1>2, <3>1, <3>2
    <2>5. a < b \/ ~ Calm(PairOf(a))'
      BY <1>3, <2>3, <2>4 DEF Calm
    <2>6. delivered'[i].msg = a
      BY <2>2
    <2> QED
      BY <2>2, <2>5, <2>6 DEF PairOf
  <1>10. ASSUME NEW i \in DOMAIN delivered', NEW x \in DOMAIN sent,
                sent[x] = sent[delivered'[i].msg], Coming(x)'
         PROVE  delivered'[i].msg < x \/ ~ Calm(PairOf(x))'
    <2>1. CASE i \in DOMAIN delivered
      <3>1. delivered'[i].msg = delivered[i].msg /\ Coming(x)
        BY <1>2, <1>6, <1>10, <2>1
      <3>2. delivered[i].msg < x \/ ~ Calm(PairOf(x))
        BY <1>1, <1>10, <2>1, <3>1 DEF Flow
      <3> QED
        BY <1>3, <3>1, <3>2 DEF Calm
    <2>2. CASE i = k
      <3>1. delivered'[i].msg = n /\ sent[x] = sent[n]
        BY <1>2, <1>10, <2>2
      <3> SUFFICES ASSUME Calm(PairOf(x))' PROVE n < x
        BY <3>1
      <3>2. PICK c \in DOMAIN conns : Contains(Unread(c, p)', x)
        BY <1>1, <1>4, <1>10, <3>1 DEF Coming, Unread
      <3>3. MsgFine(x, c, p)
        BY <1>1, <3>2 DEF Streams
      <3>4. Pair(c) = PairOf(x) /\ PairOf(x) = PairOf(n)
        BY <3>1, <3>3 DEF MsgFine, PairOf, Pair, Other
      <3>5. Calm(Pair(c))
        BY <1>3, <3>4 DEF Calm
      <3>6. c = f
        BY <1>1, <1>5, <3>4, <3>5 DEF OneEach
      <3> QED
        BY <1>1, <3>2, <3>6
    <2> QED
      BY <1>2, <2>1, <2>2
  <1>11. \A r \in Progs : job'[r] # Idle /\ job'[r].at = "check" => Arrives(job[r].msg)'
    BY <1>8
  <1>12. \A i, j \in DOMAIN delivered' :
             i < j /\ sent'[delivered'[i].msg] = sent'[delivered'[j].msg] =>
                 delivered'[i].msg < delivered'[j].msg
                     \/ ~ Calm(PairOf(delivered[i].msg))'
    BY <1>1, <1>9
  <1>13. \A i \in DOMAIN delivered' : \A x \in DOMAIN sent' :
             sent'[x] = sent'[delivered'[i].msg] /\ Coming(x)' =>
                 delivered'[i].msg < x \/ ~ Calm(PairOf(x))'
    BY <1>1, <1>10
  <1> QED
    BY <1>7, <1>11, <1>12, <1>13 DEF Flow

\* A turn that reads a message.
LEMMA TurnDelivers ==
    ASSUME Inv, Structure', NEW p \in Progs, NEW F, NEW w, w # None, Turn(p, F, w)
    PROVE  Inv'
  <1>1. PICK f, n : f = Fd(p, w) /\ n = Head(Unread(f, p))
    OBVIOUS
  <1>2. /\ Reads(p, f, n)
        /\ delivered' = Append(delivered, [msg |-> n, by |-> p])
    BY <1>1, TurnReads
  <1>3. /\ Structure /\ TypeOK /\ Streams /\ ReadOnce /\ job[p] = Idle
        /\ \A r \in Progs : JobMsg(r)
    BY DEF Inv, Msgs, Structure, Turn
  <1>4. /\ Quiet(p)
        /\ \A c \in DOMAIN conns : Calm(Pair(c))' =>
               \A q \in Progs : c # f \/ q # p => Unread(c, q)' = Unread(c, q)
    BY <1>1, TurnQuiet
  <1>5. Streams'
    BY <1>2, <1>3, <1>4, ReadsStreams
  <1>6. ReadOnce'
    <2>1. /\ n \in 1 .. MaxSends /\ f \in DOMAIN conns /\ Contains(Unread(f, p), n)
          /\ sent' = sent /\ accepted' = accepted
      BY <1>2 DEF Reads
    <2>2. n \in DOMAIN sent /\ sent[n].to = p /\ ~ IsDelivered(n)
      BY <1>3, <2>1 DEF Streams, MsgFine
    <2> QED
      BY <1>2, <1>3, <2>1, <2>2, ReadsOnce
  <1>7. \A r \in Progs : JobMsg(r)'
    BY <1>2, <1>3, <1>4, ReadsJobMsg
  <1>8. CalmFine'
    BY TurnCalmFine
  <1>9. Flow'
    BY <1>2, <1>4, ReadsFlow
  <1> QED
    BY <1>5, <1>6, <1>7, <1>8, <1>9 DEF Inv, Msgs

\* A turn of sock_sel() keeps the invariant.
LEMMA RoundInv ==
    ASSUME Inv, NEW p \in Progs, NEW W \in SUBSET Handles(p), Round(p, W)
    PROVE  Inv'
  <1>1. Structure /\ Structure'
    BY RoundStructure DEF Inv
  <1>2. PICK F, w : Turn(p, F, w)
    BY <1>1, RoundTurn
  <1>3. CASE w = None
    <2>1. Turn(p, F, None)
      BY <1>2, <1>3
    <2> QED
      BY <1>1, <2>1, TurnNothing
  <1>4. CASE w # None
    BY <1>1, <1>2, <1>4, TurnDelivers
  <1> QED
    BY <1>3, <1>4

\* A step of none of the programs keeps it.
LEMMA StutterInv == Inv /\ UNCHANGED vars => Inv'
  <1> SUFFICES ASSUME Inv, UNCHANGED vars PROVE Inv'
    OBVIOUS
  <1>1. /\ conns' = conns /\ backlog' = backlog /\ list' = list /\ last' = last
        /\ job' = job /\ sent' = sent /\ accepted' = accepted
        /\ delivered' = delivered /\ upset' = upset /\ crossed' = crossed
    BY DEF vars
  <1>2. Structure /\ Structure'
    BY NextStructure DEF Inv
  <1>3. ASSUME NEW p \in Progs PROVE Inv'
    BY <1>1, <1>2, StillInv
  <1>4. CASE Progs = {}
    <2>1. DOMAIN conns = {}
      <3>1. ASSUME NEW c \in DOMAIN conns PROVE FALSE
        BY <1>2, <1>4, Fields DEF Structure
      <3> QED
        BY <3>1
    <2>2. DOMAIN sent = {}
      BY <1>2, <1>4, Ends DEF Structure, TypeOK
    <2>3. DOMAIN delivered = {} /\ accepted = {}
      BY <2>2 DEF Inv, Msgs, ReadOnce
    <2>4. Msgs'
      BY <1>1, <1>4, <2>1, <2>3 DEF Msgs, Streams, ReadOnce
    <2>5. CalmFine'
      BY <1>1, <1>4, <2>1 DEF CalmFine, OneEach
    <2>6. Flow'
      BY <1>1, <1>4, <2>3 DEF Flow
    <2> QED
      BY <1>2, <2>4, <2>5, <2>6 DEF Inv
  <1> QED
    BY <1>3, <1>4

\* Every step keeps the whole invariant.
LEMMA NextInv == Inv /\ [Next]_vars => Inv'
  <1> SUFFICES ASSUME Inv, [Next]_vars PROVE Inv'
    OBVIOUS
  <1>1. ASSUME NEW p \in Progs, NEW q \in Named, SendTo(p, q) PROVE Inv'
    BY <1>1, SendToInv
  <1>2. ASSUME NEW p \in Progs, Reply(p) PROVE Inv'
    BY <1>2, ReplyInv
  <1>3. ASSUME NEW p \in Progs, Writing(p) PROVE Inv'
    BY <1>3, WritingInv
  <1>4. ASSUME NEW p \in Progs, NEW W \in SUBSET Handles(p), Round(p, W) PROVE Inv'
    BY <1>4, RoundInv
  <1>5. ASSUME NEW p \in Progs,
               Select(p) \/ \E h \in Handles(p) : SelectBut(p, h) \/ Only(p, h)
        PROVE  Inv'
    <2>1. Linked(p) \in SUBSET Handles(p)
      BY DEF Linked
    <2> QED
      BY <1>4, <1>5, <2>1 DEF Select, SelectBut, Only
  <1>6. ASSUME NEW p \in Progs, NEW h \in Handles(p), SockClose(p, h) PROVE Inv'
    BY <1>6, SockCloseInv
  <1>7. ASSUME NEW p \in Progs, Exit(p) PROVE Inv'
    BY <1>7, ExitInv
  <1>8. ASSUME NEW p \in Progs, Start(p) PROVE Inv'
    BY <1>8, StartInv
  <1>9. CASE UNCHANGED vars
    BY <1>9, StutterInv
  <1> QED
    BY <1>1, <1>2, <1>3, <1>5, <1>6, <1>7, <1>8, <1>9 DEF Next

\* The invariant holds before any program does anything.
LEMMA InitInv == Init => Inv
  <1> SUFFICES ASSUME Init PROVE Inv
    OBVIOUS
  <1>1. /\ DOMAIN conns = {} /\ DOMAIN sent = {} /\ DOMAIN delivered = {}
        /\ accepted = {} /\ Structure
    BY InitStructure DEF Init
  <1>2. \A p \in Progs : job[p] = Idle /\ last[p] = None /\ Handles(p) = {}
    BY DEF Init, Handles
  <1>3. Msgs
    BY <1>1, <1>2 DEF Msgs, Streams, ReadOnce, JobMsg
  <1>4. CalmFine
    BY <1>1, <1>2 DEF CalmFine, OneEach, Kept, Linked
  <1>5. Flow
    BY <1>1, <1>2 DEF Flow
  <1> QED
    BY <1>1, <1>3, <1>4, <1>5 DEF Inv

\* The invariant holds for any programs, names, connections and messages, across
\* retries, reconnections, exits and restarts.
THEOREM MailboxInvariant == Spec => []Inv
  BY InitInv, NextInv, PTL DEF Spec

\* Every variable of the mailbox library keeps its type, whatever the programs do.
THEOREM MailboxTypes == Spec => []TypeOK
  <1>1. Inv => TypeOK
    BY DEF Inv, Structure
  <1> QED
    BY <1>1, MailboxInvariant, PTL

\* An accepted end that is open is held by one entry, any other by none.
LEMMA HoldersCount ==
    ASSUME Structure, NEW p \in Progs, NEW c \in DOMAIN conns
    PROVE  Cardinality(Holders(p, c)) =
               IF p \in conns[c].open /\ ~ Contains(backlog[p], c) THEN 1 ELSE 0
  <1>1. TypeOK /\ View(p)
    BY DEF Structure
  <1>2. c # None
    BY <1>1, Fields DEF None
  <1>3. CASE p \in conns[c].open /\ ~ Contains(backlog[p], c)
    <2>1. PICK h \in Handles(p) : Fd(p, h) = c
      BY <1>1, <1>3 DEF View, Owned
    <2>2. \A g \in Handles(p) : Fd(p, g) = c => g = h
      BY <1>1, <1>2, <2>1 DEF View, EntriesFine
    <2>3. Holders(p, c) = {h}
      BY <2>1, <2>2 DEF Holders
    <2> QED
      BY <1>3, <2>3, FS_Singleton
  <1>4. CASE ~ (p \in conns[c].open /\ ~ Contains(backlog[p], c))
    <2>1. \A h \in Handles(p) : Fd(p, h) # c
      BY <1>1, <1>2, <1>4 DEF View, EntriesFine, Holdable
    <2>2. Holders(p, c) = {}
      BY <2>1 DEF Holders
    <2> QED
      BY <1>4, <2>2, FS_EmptySet
  <1> QED
    BY <1>3, <1>4

\* No connection leaks or has two owners, no entry keeps a closed descriptor, and
\* each entry holds a connection to the program it is named for.
THEOREM ConnectionsOwned == Spec => []EntriesOwnTheirConnections
  <1>1. Inv => EntriesOwnTheirConnections
    <2> SUFFICES ASSUME Inv PROVE EntriesOwnTheirConnections
      OBVIOUS
    <2>1. Structure /\ TypeOK
      BY DEF Inv, Structure
    <2>2. ASSUME NEW p \in Progs, NEW h \in Handles(p), Fd(p, h) # None
          PROVE  NameOf(Other(Fd(p, h), p)) = list[p][h].name
      BY <2>1, <2>2 DEF Structure, View, EntriesFine, Holdable
    <2> QED
      BY <2>1, <2>2, HoldersCount DEF EntriesOwnTheirConnections
  <1> QED
    BY <1>1, MailboxInvariant, PTL

\* A message is read once and by its receiver, and in the order of sending between
\* programs that nothing disturbed.
THEOREM ReadInOrder == Spec => []OrderedOnce
  <1>1. Inv => OrderedOnce
    <2> SUFFICES ASSUME Inv PROVE OrderedOnce
      OBVIOUS
    <2>1. ReadOnce /\ Flow /\ TypeOK
      BY DEF Inv, Msgs, Structure
    <2>2. ASSUME NEW i \in DOMAIN delivered, NEW j \in DOMAIN delivered, i < j
          PROVE  /\ delivered[i].msg # delivered[j].msg
                 /\ sent[delivered[i].msg] = sent[delivered[j].msg] =>
                        \/ delivered[i].msg < delivered[j].msg
                        \/ PairOf(delivered[i].msg) \in upset \cup crossed
      <3>1. i # j
        <4>1. DOMAIN delivered = 1 .. Len(delivered)
          BY <2>1 DEF TypeOK
        <4> QED
          BY <2>2, <4>1
      <3>2. delivered[i].msg # delivered[j].msg
        BY <2>1, <3>1 DEF ReadOnce
      <3>3. sent[delivered[i].msg] = sent[delivered[j].msg] =>
                delivered[i].msg < delivered[j].msg \/ ~ Calm(PairOf(delivered[i].msg))
        BY <2>1, <2>2 DEF Flow
      <3> QED
        BY <3>2, <3>3 DEF Calm
    <2>3. \A i \in DOMAIN delivered : sent[delivered[i].msg].to = delivered[i].by
      BY <2>1 DEF ReadOnce
    <2> QED
      BY <2>2, <2>3 DEF OrderedOnce
  <1> QED
    BY <1>1, MailboxInvariant, PTL

\* What sock_write() accepted between programs that nothing disturbed has been read
\* or is where its receiver will look.
THEOREM NothingIsLost == Spec => []NothingLostWhileCalm
  <1>1. Inv => NothingLostWhileCalm
    <2> SUFFICES ASSUME Inv, NEW m \in accepted, ~ IsDelivered(m),
                        PairOf(m) \notin upset \cup crossed
                 PROVE  OnItsWay(m)
      BY DEF NothingLostWhileCalm
    <2>1. Structure /\ TypeOK /\ Streams /\ CalmFine /\ Calm(PairOf(m)) /\ Coming(m)
      BY DEF Inv, Msgs, Structure, Flow, Arrives, Calm
    <2>2. PICK c, q : /\ c \in DOMAIN conns /\ q = sent[m].to
                      /\ Contains(Unread(c, q), m)
      BY <2>1 DEF Coming
    <2>3. q \in Progs
      BY <2>1, <2>2, Ends DEF Inv, Msgs, ReadOnce, TypeOK
    <2>4. MsgFine(m, c, q)
      BY <2>1, <2>2, <2>3 DEF Streams
    <2>5. Pair(c) = PairOf(m) /\ q \in Pair(c)
      BY <2>2, <2>4 DEF MsgFine, Pair, PairOf, Other
    <2>6. q \in conns[c].open
      BY <2>1, <2>2, <2>5 DEF CalmFine, Whole
    <2>7. CASE Contains(backlog[q], c)
      BY <2>2, <2>7 DEF OnItsWay
    <2>8. CASE ~ Contains(backlog[q], c)
      <3>1. PICK h \in Handles(q) : Fd(q, h) = c
        BY <2>1, <2>2, <2>3, <2>6, <2>8 DEF Structure, View, Owned
      <3>2. c # None
        BY <2>1, <2>2, Fields DEF None
      <3>3. h \in Linked(q)
        BY <2>1, <2>3, <2>5, <3>1, <3>2 DEF CalmFine, Kept, Linked
      <3> QED
        BY <2>2, <3>1, <3>3 DEF OnItsWay
    <2> QED
      BY <2>7, <2>8
  <1> QED
    BY <1>1, MailboxInvariant, PTL

-------------------------------------------------------------------------------
(* if_control *)

HIDE SockAssumption DEF SockAssumption
USE IfControlAssumption DEF IfControlAssumption

\* Why points are fresh: while a measurement is read, the socket holds none
\* that was made before the last point.
NothingOld ==
    at \in {"data", "init"} => \A i \in DOMAIN can : can[i] # "old"

-------------------------------------------------------------------------------
(* Types *)

\* if_control starts with its variables in their types.
LEMMA InitTypes == IfInit => IfTypeOK
  <1> SUFFICES ASSUME IfInit PROVE IfTypeOK
    OBVIOUS
  <1>1. setting \in [Settings -> Values]
    BY DEF IfInit
  <1>2. /\ can \in Seq(FrameKind) /\ Len(can) <= MaxQueue
        /\ inbox \in Seq(Commands)
    BY DEF IfInit
  <1>3. commands \in 0 .. MaxCommands /\ failures \in 0 .. MaxFailures
    BY DEF IfInit
  <1>4. QED
    BY <1>1, <1>2, <1>3 DEF IfInit, IfTypeOK

\* Frames that grow old remain frames.
LEMMA AgedFrames ==
    ASSUME NEW q \in Seq(FrameKind)
    PROVE  /\ Aged(q) \in Seq(FrameKind) /\ Len(Aged(q)) = Len(q)
  BY DEF Aged, FrameKind

\* A command has the fields of its kind.
LEMMA CommandFields ==
    ASSUME NEW c \in Commands
    PROVE  /\ c.cmd \in {"SET", "QUERY"} => c.name \in Settings
           /\ c.cmd = "SET" => c.value \in Values
  BY DEF Commands

\* Taking frames from the socket leaves frames in it.
LEMMA TailFrames ==
    ASSUME IfTypeOK, can # <<>>
    PROVE  /\ Tail(can) \in Seq(FrameKind)
           /\ Len(Tail(can)) <= MaxQueue
  <1>1. Tail(can) \in Seq(FrameKind) /\ Len(Tail(can)) = Len(can) - 1
    BY DEF IfTypeOK
  <1>2. Len(can) \in Nat /\ Len(can) <= MaxQueue
    BY DEF IfTypeOK
  <1>3. QED
    BY <1>1, <1>2

\* A point keeps the types of the count and its history.
LEMMA PointTypes ==
    ASSUME IfTypeOK, NEW reached \in BOOLEAN, Point(reached)
    PROVE  /\ indx' \in {0, 1} /\ phase' \in {0, 1}
           /\ running' \in BOOLEAN /\ missed' \in BOOLEAN /\ at' = "read"
  BY DEF IfTypeOK, Point

\* send_data() keeps the types.
LEMMA SendDataTypes ==
    ASSUME IfTypeOK, SendData
    PROVE  IfTypeOK'
  <1>1. CASE can # <<>> /\ can' = Tail(can)
               /\ UNCHANGED <<at, running, indx, heard, history, failures>>
    BY <1>1, TailFrames DEF IfTypeOK, SendData, history
  <1>2. CASE /\ can # <<>> /\ can' = Aged(Tail(can))
             /\ \/ Point(TRUE) /\ UNCHANGED failures
                \/ Point(FALSE) /\ Fault
             /\ repeated' = (repeated \/ Head(can) = "old")
    <2>1. can' \in Seq(FrameKind) /\ Len(can') <= MaxQueue
      BY <1>2, TailFrames, AgedFrames
    <2>2. failures' = failures \/ Fault
      BY <1>2
    <2>3. /\ indx' \in {0, 1} /\ phase' \in {0, 1}
          /\ running' \in BOOLEAN /\ missed' \in BOOLEAN /\ at' = "read"
      BY <1>2, PointTypes
    <2>4. QED
      BY <1>2, <2>1, <2>2, <2>3 DEF IfTypeOK, SendData, Fault
  <1>3. CASE Fault /\ Point(TRUE) /\ can' = Aged(can) /\ UNCHANGED repeated
    <2>1. can' \in Seq(FrameKind) /\ Len(can') <= MaxQueue
      BY <1>3, AgedFrames DEF IfTypeOK
    <2>2. failures' \in 0 .. MaxFailures
      BY <1>3 DEF IfTypeOK, Fault
    <2>3. /\ indx' \in {0, 1} /\ phase' \in {0, 1}
          /\ running' \in BOOLEAN /\ missed' \in BOOLEAN /\ at' = "read"
      BY <1>3, PointTypes
    <2>4. QED
      BY <1>3, <2>1, <2>2, <2>3 DEF IfTypeOK, SendData
  <1>4. QED
    BY <1>1, <1>2, <1>3 DEF SendData

\* A handled command keeps the types.
LEMMA HandleTypes ==
    ASSUME IfTypeOK, Handle
    PROVE  IfTypeOK'
  <1>1. inbox # <<>> => Head(inbox) \in Commands
    BY DEF IfTypeOK
  <1>2. CASE InitBegin
    BY <1>2 DEF IfTypeOK, InitBegin, Receive, history
  <1>3. CASE SetReport
    BY <1>3 DEF IfTypeOK, SetReport, CountAfter, Receive, history
  <1>4. CASE Set
    <2>1. inbox # <<>> /\ Head(inbox).cmd = "SET"
      BY <1>4 DEF Set, Is
    <2>2. Head(inbox).value \in Values
      BY <1>1, <2>1, CommandFields
    <2>3. setting' \in [Settings -> Values]
      BY <1>4, <2>2 DEF IfTypeOK, Set, Parsed
    <2>4. QED
      BY <1>4, <2>3 DEF IfTypeOK, Set, Receive, history
  <1>5. CASE Query
    BY <1>5 DEF IfTypeOK, Query, Receive, history
  <1>6. CASE Config
    <2>1. /\ at' = "top" /\ inbox' = <<>> /\ client' = TRUE
          /\ UNCHANGED <<running, indx, setting, can, failures, history, commands>>
      BY <1>6, Zenon DEF Config, Receive
    <2>2. QED
      BY <2>1 DEF IfTypeOK, history
  <1>7. CASE TotalPower
    BY <1>7 DEF IfTypeOK, TotalPower, Receive, history
  <1>8. QED
    BY <1>2, <1>3, <1>4, <1>5, <1>6, <1>7 DEF Handle

\* Every step keeps the types.
LEMMA NextTypes == IfTypeOK /\ [IfNext]_ifVars => IfTypeOK'
  <1> SUFFICES ASSUME IfTypeOK, [IfNext]_ifVars PROVE IfTypeOK'
    OBVIOUS
  <1>1. CASE Frame
    <2>1. PICK f \in FrameKind : can' = Append(can, f)
      BY <1>1 DEF Frame, FrameKind
    <2>2. can' \in Seq(FrameKind) /\ Len(can') <= MaxQueue
      BY <1>1, <2>1 DEF IfTypeOK, Frame
    <2>3. QED
      BY <1>1, <2>2 DEF IfTypeOK, Frame, progVars, history
  <1>2. CASE Top
    BY <1>2 DEF IfTypeOK, Top, Opened, Fault, progVars, history
  <1>3. CASE SendData
    BY <1>3, SendDataTypes
  <1>4. CASE NoCommand
    BY <1>4 DEF IfTypeOK, NoCommand, progVars, history
  <1>5. CASE InitEnd
    <2>1. can' \in Seq(FrameKind) /\ Len(can') <= MaxQueue
      BY <1>5, TailFrames DEF IfTypeOK, InitEnd
    <2>2. QED
      BY <1>5, <2>1 DEF IfTypeOK, InitEnd, Fault, progVars, history
  <1>6. CASE Handle
    BY <1>6, HandleTypes
  <1>7. CASE Command
    <2>1. PICK c \in Commands : inbox' = <<c>>
      BY <1>7 DEF Command
    <2>2. QED
      BY <1>7, <2>1 DEF IfTypeOK, Command, progVars, history
  <1>8. CASE UNCHANGED ifVars
    BY <1>8 DEF IfTypeOK, ifVars, progVars, history
  <1>9. QED
    BY <1>1, <1>2, <1>3, <1>4, <1>5, <1>6, <1>7, <1>8 DEF IfNext, Program

\* Every variable of if_control keeps its type, whatever is sent to it.
THEOREM IfControlTypes == IfSpec => []IfTypeOK
  BY InitTypes, NextTypes, PTL DEF IfSpec

-------------------------------------------------------------------------------
(* Phases *)

\* A point that arrives has the phase its predecessors call for, and one that
\* does not arrive shifts the phase of the next.
LEMMA PointInStep ==
    ASSUME IfTypeOK, PhasesInStep, Point(TRUE) \/ Point(FALSE)
    PROVE  PhasesInStep'
  <1>1. indx \in {0, 1} /\ phase \in {0, 1} /\ missed \in BOOLEAN
    BY DEF IfTypeOK
  <1>2. CASE Point(TRUE)
    <2>1. indx' = (indx + 1) % 2 /\ phase' = 1 - indx
      BY <1>2 DEF Point
    <2>2. 1 - indx' # phase'
      BY <1>1, <2>1
    <2>3. ~ missed'
      BY <1>2 DEF Point
    <2>4. QED
      BY <2>2, <2>3 DEF PhasesInStep
  <1>3. CASE Point(FALSE)
    <2>1. indx' = (indx + 1) % 2 /\ phase' = phase
      BY <1>3 DEF Point
    <2>2. (1 - indx' = phase') <=> ~ (1 - indx = phase)
      BY <1>1, <2>1
    <2>3. missed' <=> ~ missed
      BY <1>3 DEF Point
    <2>4. QED
      BY <2>2, <2>3 DEF PhasesInStep
  <1>4. QED
    BY <1>2, <1>3

\* Every step keeps the count and the phases in step.
LEMMA NextInStep == IfTypeOK /\ PhasesInStep /\ [IfNext]_ifVars => PhasesInStep'
  <1> SUFFICES ASSUME IfTypeOK, PhasesInStep, [IfNext]_ifVars PROVE PhasesInStep'
    OBVIOUS
  <1>1. CASE UNCHANGED <<indx, phase, missed>>
    BY <1>1 DEF PhasesInStep
  <1>2. CASE SendData
    BY <1>1, <1>2, PointInStep DEF SendData, history
  <1>3. CASE Handle
    BY <1>1, <1>3 DEF Handle, InitBegin, SetReport, CountAfter, Set, Query, Config,
                      TotalPower, Receive, history
  <1>4. QED
    BY <1>1, <1>2, <1>3
    DEF IfNext, Program, Frame, Top, NoCommand, InitEnd, Command, ifVars, progVars,
        history

\* For any number of commands and failures: the stuffer can fold the stream of
\* points by its phases, across REPORT 0 and 1 and points it did not get.
THEOREM PhasesStayInStep == IfSpec => []PhasesInStep
  <1>1. IfInit => PhasesInStep
    BY DEF IfInit, PhasesInStep
  <1>2. QED
    BY <1>1, InitTypes, NextTypes, NextInStep, PTL DEF IfSpec

-------------------------------------------------------------------------------
(* Freshness *)

\* What is taken from the front leaves no old measurement behind.
LEMMA TailNothingOld ==
    ASSUME IfTypeOK, can # <<>>, \A i \in DOMAIN can : can[i] # "old"
    PROVE  \A i \in DOMAIN Tail(can) : Tail(can)[i] # "old"
  BY DEF IfTypeOK

\* Every step keeps old measurements out of a socket that is read, since each
\* point opens a new one.
LEMMA NextNothingOld == IfTypeOK /\ NothingOld /\ [IfNext]_ifVars => NothingOld'
  <1> SUFFICES ASSUME IfTypeOK, NothingOld, [IfNext]_ifVars PROVE NothingOld'
    OBVIOUS
  <1>1. CASE UNCHANGED <<at, can>>
    BY <1>1 DEF NothingOld
  <1>2. CASE at' \notin {"data", "init"}
    BY <1>2 DEF NothingOld
  <1>3. CASE Frame
    <2>1. PICK f \in {"new", "other"} : can' = Append(can, f)
      BY <1>3 DEF Frame
    <2>2. \A i \in DOMAIN can : can[i] # "old"
      BY <1>3 DEF Frame, NothingOld
    <2>3. \A i \in DOMAIN Append(can, f) : Append(can, f)[i] # "old"
      BY <2>2 DEF IfTypeOK
    <2>4. QED
      BY <2>1, <2>3 DEF NothingOld
  <1>4. CASE can' = <<>>
    BY <1>4 DEF NothingOld
  <1>5. CASE SendData
    <2>1. CASE can # <<>> /\ can' = Tail(can) /\ UNCHANGED at
      BY <1>5, <2>1, TailNothingOld DEF NothingOld, SendData
    <2>2. CASE ~ (can # <<>> /\ can' = Tail(can) /\ UNCHANGED at)
      BY <1>2, <1>5, <2>2 DEF SendData, Point
    <2>3. QED
      BY <2>1, <2>2
  <1>6. CASE InitEnd
    <2>1. CASE can # <<>> /\ can' = Tail(can) /\ UNCHANGED at
      BY <1>6, <2>1, TailNothingOld DEF NothingOld, InitEnd
    <2>2. CASE ~ (can # <<>> /\ can' = Tail(can) /\ UNCHANGED at)
      BY <1>2, <1>6, <2>2 DEF InitEnd
    <2>3. QED
      BY <2>1, <2>2
  <1>7. CASE Handle
    BY <1>2, <1>4, <1>7
    DEF Handle, InitBegin, SetReport, Set, Query, Config, TotalPower
  <1>8. QED
    BY <1>1, <1>2, <1>3, <1>4, <1>5, <1>6, <1>7
    DEF IfNext, Program, Top, Opened, NoCommand, Command, ifVars

\* Every step keeps the points fresh while that is so.
LEMMA NextFresh ==
    IfTypeOK /\ NothingOld /\ PointsFresh /\ [IfNext]_ifVars => PointsFresh'
  <1> SUFFICES ASSUME IfTypeOK, NothingOld, PointsFresh, [IfNext]_ifVars PROVE PointsFresh'
    OBVIOUS
  <1>1. CASE UNCHANGED repeated
    BY <1>1 DEF PointsFresh
  <1>2. CASE SendData
    <2>1. CASE can # <<>> /\ repeated' = (repeated \/ Head(can) = "old")
      <3>1. 1 \in DOMAIN can /\ Head(can) = can[1]
        BY <2>1 DEF IfTypeOK
      <3>2. can[1] # "old"
        BY <1>2, <3>1 DEF NothingOld, SendData
      <3>3. QED
        BY <2>1, <3>1, <3>2 DEF PointsFresh
    <2>2. CASE ~ (can # <<>> /\ repeated' = (repeated \/ Head(can) = "old"))
      BY <1>1, <1>2, <2>2 DEF SendData, history
    <2>3. QED
      BY <2>1, <2>2
  <1>3. CASE Handle
    BY <1>1, <1>3 DEF Handle, InitBegin, SetReport, Set, Query, Config, TotalPower,
                      Receive, history
  <1>4. QED
    BY <1>1, <1>2, <1>3
    DEF IfNext, Program, Frame, Top, NoCommand, InitEnd, Command, ifVars, history

\* For any socket and any other traffic on the bus: no point carries a
\* measurement from before the point that preceded it, unless a read failed.
THEOREM PointsStayFresh == IfSpec => []PointsFresh
  <1>1. IfInit => NothingOld /\ PointsFresh
    BY DEF IfInit, NothingOld, PointsFresh
  <1>2. QED
    BY <1>1, InitTypes, NextTypes, NextNothingOld, NextFresh, PTL DEF IfSpec

===============================================================================
