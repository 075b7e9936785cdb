-------------------------------- MODULE Sock --------------------------------
(***************************************************************************)
(* The mailbox library of caclib: sock_connect(), sock_write(), the        *)
(* sock_sel() family, accept_sock(), read_sock(), sock_close() and         *)
(* last_msg() of socklib.c and socknoxvlib.c, for several programs at once. *)
(*                                                                         *)
(* A program keeps one list entry per mailbox it talks to.  An entry holds *)
(* the one connection used in both directions, whoever opened it: what     *)
(* connected last replaces, and closes, what the entry held before.  A     *)
(* message is one count-and-data frame; the first frame of a connection    *)
(* names the program that opened it.                                       *)
(***************************************************************************)
EXTENDS Integers, Sequences, SequencesExt, FiniteSetsExt

CONSTANTS
    Named,     \* programs that called sock_bind() on a mailbox of their own
    Nameless,  \* programs that never bind: others know them as ANONYMOUS
    Anonymous, \* the name ANONYMOUS
    MaxConns,  \* connections opened before socket() fails (a bound)
    MaxSends,  \* messages sent in all (a bound of the model)
    Casts,     \* the programs there are, with the number each sends (a bound)
    MaxFaults  \* exits and sock_close() calls in all (a bound of the model)

Progs == Named \cup Nameless
None == 0                     \* no entry, no message; fd = -1

ASSUME SockAssumption ==
    /\ Named \cap Nameless = {} /\ Anonymous \notin Progs
    /\ None \notin Progs \cup {Anonymous}
    /\ MaxConns \in Nat /\ MaxSends \in Nat /\ MaxFaults \in Nat
    /\ Casts \subseteq UNION {[P -> 0 .. MaxSends] : P \in SUBSET Progs}

VARIABLES
    up,        \* the programs running
    down,      \* the programs that exited
    conns,     \* the connections opened so far
    backlog,   \* connections each program has not accepted yet
    list,      \* each program's SOCK entries in the order they were made
    last,      \* last_conn: the entry of the last message (0: none)
    job,       \* where each program is: its loop, or a step of sock_write()
    left,      \* how many messages each program may still send
    sent,      \* history: the messages handed to sock_write()
    accepted,  \* history: those for which it returned 1
    delivered, \* history: what sock_sel() and its kin returned, in order
    upset,     \* history: the pairs of programs disturbed: see the uses
    crossed,   \* history: those that connected to each other at once
    faults     \* history: exits and sock_close() calls so far

vars == <<up, down, conns, backlog, list, last, job, left, sent, accepted,
          delivered, upset, crossed, faults>>

Idle == [at |-> "loop"]
Handles(p) == DOMAIN list[p]
NameOf(p) == IF p \in Named THEN p ELSE Anonymous

\* The entries a walk from bs->head meets, which is newest first.
Linked(p) == {h \in Handles(p) : list[p][h].linked}
Fd(p, h) == list[p][h].fd
Other(c, p) == IF conns[c].from = p THEN conns[c].to ELSE conns[c].from
Pair(c) == {conns[c].from, conns[c].to}

\* What p may read from c.  After the other end is closed, or reset, the data
\* that came before is still read, and then end of file or an error.
Unread(c, p) == conns[c].unread[p]
Readable(c, p) ==
    Unread(c, p) # <<>> \/ Other(c, p) \notin conns[c].open
                        \/ p \in conns[c].reset

\* close() of p's ends of the connections C.  An end closed with data unread,
\* or before it was accepted, resets the connection.
Closed(C, p) ==
    [c \in DOMAIN conns |->
        IF c \in C
        THEN [conns[c] EXCEPT !.open = @ \ {p}, !.unread[p] = <<>>,
                 !.reset = IF Unread(c, p) # <<>> \/ Contains(backlog[p], c)
                           THEN @ \cup {Other(c, p)} ELSE @]
        ELSE conns[c]]

-------------------------------------------------------------------------------
(* sock_connect() *)

\* Fault for the mutation checks: one entry for all nameless programs, used or
\* not.
OneAnonymous(p, name) == {h \in Linked(p) : list[p][h].name = name}

\* The entries sock_connect(name) may return instead of making a new one: the
\* mailbox's own, or an ANONYMOUS one whose connection is gone.
Existing(p, name) ==
    {h \in Linked(p) : /\ list[p][h].name = name
                       /\ name = Anonymous => Fd(p, h) = None}

\* Fault for the mutation checks: the new entry is left out of the list.
Unlinked(p, name) ==
    IF Existing(p, name) # {} THEN list[p]
    ELSE Append(list[p], [name |-> name, fd |-> None, linked |-> FALSE])

\* The walk starts at the newest entry; a new one becomes the head.
HandleFor(p, name) ==
    IF Existing(p, name) = {} THEN Len(list[p]) + 1 ELSE Max(Existing(p, name))

WithEntry(p, name) ==
    IF Existing(p, name) # {} THEN list[p]
    ELSE Append(list[p], [name |-> name, fd |-> None, linked |-> TRUE])

-------------------------------------------------------------------------------
(* sock_send() and sock_write(): the program is busy until it returns *)

Begin(p, h, l, q) ==
    /\ list' = [list EXCEPT ![p] = l]
    /\ left' = [left EXCEPT ![p] = @ - 1]
    /\ sent' = Append(sent, [from |-> p, to |-> q])
    /\ job' = [job EXCEPT ![p] =
           [at |-> IF l[h].fd = None THEN "connect" ELSE "write",
            handle |-> h, msg |-> Len(sent) + 1, flag |-> 0]]
    /\ UNCHANGED <<up, down, conns, backlog, last, accepted, delivered, upset,
                   crossed, faults>>

MaySend(p) == p \in up /\ job[p] = Idle /\ left[p] > 0 /\ Len(sent) < MaxSends

\* sock_send(sock_connect(q), message)
SendTo(p, q) ==
    /\ MaySend(p) /\ q \in Named \ {p}
    /\ Begin(p, HandleFor(p, q), WithEntry(p, q), q)

\* sock_send(last_msg(), message).  ANONYMOUS cannot be connected to.
Reply(p) ==
    /\ MaySend(p) /\ last[p] # None
    /\ LET e == list[p][last[p]] IN
       /\ e.fd = None => e.name # Anonymous
       /\ Begin(p, last[p], list[p],
                IF e.name = Anonymous THEN Other(e.fd, p) ELSE e.name)

Return(p) == job' = [job EXCEPT ![p] = Idle]
Goto(p, step) == job' = [job EXCEPT ![p].at = step]

\* Connection refused, or no descriptor left: sock_write() returns 0.
Connect(p) ==
    /\ job[p].at = "connect"
    /\ LET h == job[p].handle
           q == list[p][h].name
           c == Len(conns) + 1
       IN IF q \notin up \/ c > MaxConns
          THEN /\ Return(p)
               /\ UNCHANGED <<conns, backlog, list, crossed>>
          ELSE LET crossing == \E d \in DOMAIN conns : conns[d].open = {p, q}
               IN
               /\ conns' = Append(conns,
                      [from |-> p, to |-> q, open |-> {p, q}, reset |-> {},
                       named |-> FALSE, unread |-> [r \in Progs |-> <<>>]])
               /\ backlog' = [backlog EXCEPT ![q] = Append(@, c)]
               /\ list' = [list EXCEPT ![p][h].fd = c]
               /\ crossed' = IF crossing THEN crossed \cup {{p, q}} ELSE crossed
               /\ Goto(p, "name")
    /\ UNCHANGED <<up, down, last, left, sent, accepted, delivered, upset, faults>>

\* The first frame: the program's mailbox, or ANONYMOUS if it never bound.
SendName(p) ==
    /\ job[p].at = "name"
    /\ LET c == Fd(p, job[p].handle) IN
       conns' = [conns EXCEPT ![c].named = TRUE]
    /\ Goto(p, "write")
    /\ UNCHANGED <<up, down, backlog, list, last, left, sent, accepted, delivered, upset,
                   crossed, faults>>

\* A failed attempt closes the connection; a second one ends the loop, and
\* sock_write() returns 1 all the same.
Again(p) ==
    IF job[p].flag = 1
    THEN Return(p) /\ accepted' = accepted \cup {job[p].msg}
    ELSE /\ UNCHANGED accepted
         /\ IF list[p][job[p].handle].name = Anonymous THEN Return(p)
            ELSE job' = [job EXCEPT ![p].flag = 1, ![p].at = "connect"]

\* Fault for the mutation checks: fd is not reset to -1.
KeepFd(p) ==
    /\ conns' = Closed({Fd(p, job[p].handle)}, p)
    /\ UNCHANGED list
    /\ Again(p)

Drop(p) ==
    /\ list' = [list EXCEPT ![p][job[p].handle].fd = None]
    /\ conns' = Closed({Fd(p, job[p].handle)}, p)
    /\ Again(p)

\* write() to a connection known to be reset fails.  Written to one whose other
\* end is closed, the bytes are lost and a reset comes back.
WriteFrame(p) ==
    /\ job[p].at = "write"
    /\ LET c == Fd(p, job[p].handle)
           q == Other(c, p)
       IN IF p \in conns[c].reset
          THEN Drop(p)
          ELSE /\ conns' = IF q \in conns[c].open
                           THEN [conns EXCEPT ![c].unread[q] =
                                                  Append(@, job[p].msg)]
                           ELSE [conns EXCEPT ![c].reset = @ \cup {p}]
               /\ Goto(p, "check")
               /\ UNCHANGED <<list, accepted>>
    /\ UNCHANGED <<up, down, backlog, last, left, sent, delivered, upset, crossed, faults>>

\* Fault for the mutation checks: SO_ERROR is tested the wrong way round.
CheckBackwards(p) ==
    /\ job[p].at = "check"
    /\ IF p \in conns[Fd(p, job[p].handle)].reset
       THEN /\ Return(p)
            /\ accepted' = accepted \cup {job[p].msg}
            /\ UNCHANGED <<list, conns>>
       ELSE Drop(p)
    /\ UNCHANGED <<up, down, backlog, last, left, sent, delivered, upset, crossed, faults>>

\* usleep(1), then SO_ERROR, which reports the reset only if it is there by then.
Check(p) ==
    /\ job[p].at = "check"
    /\ \/ /\ p \in conns[Fd(p, job[p].handle)].reset
          /\ Drop(p)
       \/ /\ Return(p)
          /\ accepted' = accepted \cup {job[p].msg}
          /\ UNCHANGED <<list, conns>>
    /\ UNCHANGED <<up, down, backlog, last, left, sent, delivered, upset, crossed, faults>>

-------------------------------------------------------------------------------
(* sock_sel() and its kin *)

\* accept_sock() on the first connection waiting: the entry of the name it
\* brings takes it over, and what the entry held is closed.  Without a name
\* (the other end is gone, or five seconds have passed) it is closed.
Take(p) ==
    IF backlog[p] = <<>>
    THEN [list |-> list[p], shut |-> {}]
    ELSE LET c == Head(backlog[p])
             name == NameOf(conns[c].from)
             h == HandleFor(p, name)
             l == WithEntry(p, name)
         IN IF ~ conns[c].named
            THEN [list |-> list[p], shut |-> {c}]
            ELSE [list |-> [l EXCEPT ![h].fd = c],
                  shut |-> {l[h].fd} \ {None}]

\* The entry a message is read from: the newest that has one.
First(p, H) == IF H = {} THEN None ELSE Max(H)

\* read_sock() returns the next message; at the end it closes the connection.
ReadSock(p, h) == Unread(Fd(p, h), p) # <<>>

\* One turn of the loop: select() sees the listening socket and the entries W,
\* at most one connection is accepted, and the walk tries the entries whose
\* descriptor select() reported (not the one just accepted) until a read
\* succeeds.  A read that fails closes its connection.
Round(p, W) ==
    LET t == Take(p)
        R == {h \in W : Fd(p, h) # None /\ Readable(Fd(p, h), p)}
        S == {h \in R : t.list[h].fd = Fd(p, h)}
        w == First(p, {h \in S : ReadSock(p, h)})
        failed == {h \in S : h > w /\ ~ ReadSock(p, h)}
        after == Closed(t.shut \cup {Fd(p, h) : h \in failed}, p)
    IN
    /\ p \in up /\ job[p] = Idle
    /\ backlog[p] # <<>> \/ R # {}
    /\ list' = [list EXCEPT ![p] =
           [h \in DOMAIN t.list |->
               IF h \in failed THEN [t.list[h] EXCEPT !.fd = None]
               ELSE t.list[h]]]
    /\ backlog' = [backlog EXCEPT ![p] = IF @ = <<>> THEN @ ELSE Tail(@)]
    /\ upset' = upset \cup {Pair(c) : c \in {d \in t.shut : ~ conns[d].named}}
    /\ IF w = None
       THEN /\ conns' = after
            /\ last' = IF failed = {} THEN last ELSE [last EXCEPT ![p] = None]
            /\ UNCHANGED delivered
       ELSE /\ conns' = [after EXCEPT ![Fd(p, w)].unread[p] = Tail(@)]
            /\ last' = [last EXCEPT ![p] = w]
            /\ delivered' = Append(delivered,
                   [msg |-> Head(Unread(Fd(p, w), p)), by |-> p])
    /\ UNCHANGED <<up, down, job, left, sent, accepted, crossed, faults>>

\* sock_sel() and sock_fastsel() wait for all entries, sock_ssel() for all but
\* some, sock_only() and sock_poll() for one.
Select(p) == Round(p, Linked(p))
SelectBut(p, h) == Round(p, Linked(p) \ {h})
Only(p, h) == list[p][h].name # None /\ Round(p, {h})

-------------------------------------------------------------------------------
(* sock_close(), exit and restart *)

\* Closing the newest entry unlinks all the others with it.
SockClose(p, h) ==
    /\ p \in up /\ job[p] = Idle /\ faults < MaxFaults
    /\ h \in Linked(p) /\ h = Max({g \in Linked(p) :
                                      list[p][g].name = list[p][h].name})
    /\ LET head == h = Max(Linked(p))
           cut == IF head THEN Linked(p) ELSE {h}
       IN /\ list' = [list EXCEPT ![p] =
                [g \in Handles(p) |->
                    IF g = h THEN [name |-> None, fd |-> None, linked |-> FALSE]
                    ELSE [list[p][g] EXCEPT !.linked = @ /\ ~ head]]]
          /\ upset' = upset \cup {Pair(Fd(p, g)) :
                                      g \in {k \in cut : Fd(p, k) # None}}
    /\ conns' = Closed({Fd(p, h)}, p)
    /\ last' = [last EXCEPT ![p] = IF @ = h THEN None ELSE @]
    /\ faults' = faults + 1
    /\ UNCHANGED <<up, down, backlog, job, left, sent, accepted, delivered, crossed>>

\* The kernel closes all a program had open, whatever it was doing.
Exit(p) ==
    /\ p \in up /\ faults < MaxFaults
    /\ up' = up \ {p} /\ down' = down \cup {p}
    /\ conns' = Closed({c \in DOMAIN conns : p \in conns[c].open}, p)
    /\ backlog' = [backlog EXCEPT ![p] = <<>>]
    /\ list' = [list EXCEPT ![p] = <<>>]
    /\ last' = [last EXCEPT ![p] = None]
    /\ Return(p)
    /\ upset' = upset \cup {{p, q} : q \in Progs \ {p}}
    /\ faults' = faults + 1
    /\ UNCHANGED <<left, sent, accepted, delivered, crossed>>

\* sock_bind() of a new instance, which waits until the port is free.
Start(p) ==
    /\ p \in down
    /\ up' = up \cup {p} /\ down' = down \ {p}
    /\ UNCHANGED <<conns, backlog, list, last, job, left, sent, accepted, delivered,
                   upset, crossed, faults>>

-------------------------------------------------------------------------------
Init ==
    /\ left \in Casts /\ up = DOMAIN left /\ down = {} /\ conns = <<>>
    /\ backlog = [p \in Progs |-> <<>>]
    /\ list = [p \in Progs |-> <<>>]
    /\ last = [p \in Progs |-> None]
    /\ job = [p \in Progs |-> Idle]
    /\ sent = <<>> /\ accepted = {} /\ delivered = <<>>
    /\ upset = {} /\ crossed = {} /\ faults = 0

Writing(p) == Connect(p) \/ SendName(p) \/ WriteFrame(p) \/ Check(p)

Next ==
    \E p \in Progs :
        \/ \E q \in Named : SendTo(p, q)
        \/ Reply(p)
        \/ Writing(p)
        \/ Select(p)
        \/ \E h \in Handles(p) :
               SelectBut(p, h) \/ Only(p, h) \/ SockClose(p, h)
        \/ Exit(p)
        \/ Start(p)

Spec == Init /\ [][Next]_vars

\* A running program goes on calling sock_sel(), and sock_write() returns.
FairSpec ==
    Spec /\ \A p \in Progs : WF_vars(Writing(p)) /\ WF_vars(Select(p))

-------------------------------------------------------------------------------
(* Properties *)

Conn == [from : Progs, to : Named, open : SUBSET Progs, reset : SUBSET Progs,
         named : BOOLEAN, unread : [Progs -> Seq(1 .. MaxSends)]]
Entry == [name : Named \cup {Anonymous, None}, fd : 0 .. MaxConns,
          linked : BOOLEAN]
Job == [at : {"connect", "name", "write", "check"}, handle : Nat,
        msg : 1 .. MaxSends, flag : {0, 1}]

\* Every variable stays in its type.
TypeOK ==
    /\ up \subseteq Progs /\ down \subseteq Progs
    /\ conns \in Seq(Conn) /\ Len(conns) <= MaxConns
    /\ backlog \in [Progs -> Seq(1 .. MaxConns)]
    /\ list \in [Progs -> Seq(Entry)]
    /\ last \in [Progs -> Nat] /\ \A p \in Progs : last[p] <= Len(list[p])
    /\ job \in [Progs -> {Idle} \cup Job]
    /\ left \in [up \cup down -> 0 .. MaxSends]
    /\ sent \in Seq([from : Progs, to : Progs])
    /\ accepted \subseteq 1 .. MaxSends
    /\ delivered \in Seq([msg : 1 .. MaxSends, by : Progs])
    /\ upset \subseteq SUBSET Progs /\ crossed \subseteq SUBSET Progs
    /\ faults \in 0 .. MaxFaults

Holders(p, c) == {h \in Handles(p) : Fd(p, h) = c}

\* accept_sock(), read_sock(), sock_write() and sock_close() open and close
\* connections behind one another's back.  Still, each end a program has open
\* waits in its backlog or belongs to one entry, never both or two (else it
\* would leak, or be closed under its owner); an entry never keeps a descriptor
\* it closed, which the kernel may have given out anew; and the other end is
\* the program the entry is named for.
EntriesOwnTheirConnections ==
    /\ TypeOK
    /\ \A p \in Progs : \A c \in DOMAIN conns :
           Cardinality(Holders(p, c)) =
               IF p \in conns[c].open /\ ~ Contains(backlog[p], c) THEN 1 ELSE 0
    /\ \A p \in Progs : \A h \in Handles(p) :
           Fd(p, h) # None => NameOf(Other(Fd(p, h), p)) = list[p][h].name

PairOf(m) == {sent[m].from, sent[m].to}

\* A message goes to the program it was sent to and is read once, across
\* retries, reconnections, restarts and replaced connections.  Two messages from
\* one program to another are read in the order they were sent, unless one of the
\* two exited, closed the mailbox, took over five seconds to name itself, or
\* connected while the other did: what was sent on the connection accepted first
\* then overtakes what waits in the one still in the backlog.
OrderedOnce ==
    /\ \A i \in DOMAIN delivered :
           sent[delivered[i].msg].to = delivered[i].by
    /\ \A i, j \in DOMAIN delivered :
           LET m == delivered[i].msg
               n == delivered[j].msg
           IN i < j => /\ m # n
                       /\ sent[m] = sent[n] =>
                              m < n \/ PairOf(m) \in upset \cup crossed

IsDelivered(m) == \E i \in DOMAIN delivered : delivered[i].msg = m

\* On its way: unread in a connection its receiver watches or is yet to accept.
OnItsWay(m) ==
    LET q == sent[m].to IN
    \E c \in DOMAIN conns :
        /\ Contains(Unread(c, q), m)
        /\ Contains(backlog[q], c) \/ \E h \in Linked(q) : Fd(q, h) = c

\* When sock_write() returns 1 the message has been read or will be, unless one
\* of the two programs exited, closed the mailbox, took over five seconds to
\* name itself, or connected while the other did.
NothingLostWhileCalm ==
    \A m \in accepted : IsDelivered(m) \/ OnItsWay(m)
                       \/ PairOf(m) \in upset \cup crossed

\* Such a message is read in the end: a connection behind many others, or
\* replaced, is not forgotten by the walk.
AcceptedArrives ==
    \A m \in 1 .. MaxSends :
        m \in accepted ~> (m \in DOMAIN sent /\
                  (IsDelivered(m) \/ PairOf(m) \in upset \cup crossed))
=============================================================================
