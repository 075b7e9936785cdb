------------------------------ MODULE ConnServer ------------------------------
(***************************************************************************)
(* The connection manager of the BIMA control server and the thread that   *)
(* relays the CAN bus: manage_conn() and the connarr_* functions of        *)
(* coreServer/Server.c, can_receiver_thread() and writeCan() of            *)
(* hardware/can.c, and the "can" command (setCanOut, rxServer/Commands.c). *)
(*                                                                         *)
(* The main thread sleeps in select(), accepts at most one client, then    *)
(* scans client_list and serves each descriptor select() reported.         *)
(* Clients and the CAN thread act between any two of its steps.  A message *)
(* is what one readline() makes of the client's bytes (LineReader models   *)
(* how): a command, an empty line, or a partial line.                      *)
(***************************************************************************)
EXTENDS Integers, Sequences, FiniteSets

CONSTANTS
    Conns,      \* connections clients may open; each is opened once
    MaxClients, \* slots of client_list
    Fds,        \* the descriptors the kernel may hand out
    FirstFd,    \* the initial destination, 6 in the code
    Msgs,       \* the messages clients send, a subset of AllMsgs
    MaxInbox,   \* messages a client may have unread (a bound of the model)
    MaxSends,   \* messages sent in all (a bound of the model)
    NoFd,       \* an unused slot, -1 in the code
    Free,       \* an unused descriptor
    Leaked      \* a descriptor that writeCan() or tellSerial() left open

AllMsgs == {"can", "reply", "transmit", "quit", "blank", "partial"}

ASSUME ConnServerAssumption ==
    /\ MaxClients \in Nat \ {0}
    /\ Fds \subseteq Nat /\ FirstFd \in Fds /\ NoFd \notin Fds
    /\ Msgs \subseteq AllMsgs
    /\ MaxInbox \in Nat \ {0} /\ MaxSends \in Nat
    /\ Free \notin Conns /\ Leaked \notin Conns /\ Free # Leaked

VARIABLES
    peer,        \* a connection's other end: idle, live, fin, rst; gone once
                 \* the server has closed it
    inbox,       \* messages sent and not yet read
    sends,       \* history: how many messages were sent
    backlog,     \* connections waiting in the listening socket
    owner,       \* the descriptor table: what each descriptor is open on
    fdin,        \* client_list[].fdin (fdout and fderr are always the same)
    stage,       \* main thread: in select(), at accept(), or in the scan
    cursor,      \* the scan's slot, cc
    ready,       \* server_set as select() left it: the readable clients
    knock,       \* whether select() reported the listening socket
    pipe,        \* pipe_deadflag
    destination, \* where CAN text should go, set by the "can" command
    fdout,       \* the CAN thread's copy of destination
    listening,   \* CAN thread: blocked in read() (else about to copy)
    late         \* history: frames sent to an old destination since "can"

mainVars == <<fdin, stage, cursor, ready, knock>>
canVars == <<destination, fdout, listening, late>>
vars == <<peer, inbox, sends, backlog, owner, mainVars, pipe, canVars>>

Slots == 1 .. MaxClients

Readable(c) == inbox[c] # <<>> \/ peer[c] \in {"fin", "rst"}

\* open(), socket(), accept() return the lowest free descriptor.
Lowest(f) == owner[f] = Free /\ \A g \in Fds : owner[g] = Free => f <= g
TableFull == \A f \in Fds : owner[f] # Free

\* A write to a connection whose peer is gone may raise SIGPIPE, whose handler
\* sets the flag: the first write after the peer closed still succeeds.
Write(f) ==
    \/ UNCHANGED pipe
    \/ /\ owner[f] \in Conns /\ peer[owner[f]] \in {"fin", "rst"}
       /\ pipe' = TRUE

-------------------------------------------------------------------------------
(* The main thread, manage_conn() *)

\* Faults for the mutation checks: every client is taken for readable; the
\* listening socket is left out while the slots are full.
WokenAll(f) == owner[f] \in Conns
KnockedUnlessFull == backlog # {} /\ \E s \in Slots : fdin[s] = NoFd

\* What connarr_fdin_set() puts in server_set, and what select() leaves there.
Watched(f) == \E s \in Slots : fdin[s] = f
Woken(f) == owner[f] \in Conns /\ Readable(owner[f])
Knocked == backlog # {}

Select ==
    /\ stage = "select"
    /\ ready' = {f \in Fds : Watched(f) /\ Woken(f)}
    /\ knock' = Knocked
    /\ ready' # {} \/ knock'
    /\ stage' = "accept"
    /\ UNCHANGED <<peer, inbox, sends, backlog, owner, fdin, cursor, pipe, canVars>>

StartScan == stage' = "scan" /\ knock' = FALSE

\* accept() and connarr_insert(): the first unused slot.
AcceptInsert(c, f) ==
    \E s \in Slots :
        /\ fdin[s] = NoFd /\ \A t \in Slots : t < s => fdin[t] # NoFd
        /\ fdin' = [fdin EXCEPT ![s] = f]
        /\ owner' = [owner EXCEPT ![f] = c]
        /\ UNCHANGED <<peer, inbox>>

\* "Maximum load... denied client": the new descriptor is closed again.
AcceptDeny(c) ==
    /\ \A s \in Slots : fdin[s] # NoFd
    /\ peer' = [peer EXCEPT ![c] = "gone"]
    /\ inbox' = [inbox EXCEPT ![c] = <<>>]
    /\ UNCHANGED <<fdin, owner>>

Accept ==
    /\ stage = "accept" /\ knock
    /\ \/ \E c \in backlog, f \in Fds :
            /\ Lowest(f)
            /\ AcceptInsert(c, f) \/ AcceptDeny(c)
            /\ backlog' = backlog \ {c}
       \/ TableFull /\ UNCHANGED <<peer, inbox, backlog, owner, fdin>>
    /\ StartScan
    /\ UNCHANGED <<sends, cursor, ready, pipe, canVars>>

NoAccept ==
    /\ stage = "accept" /\ ~knock
    /\ StartScan
    /\ UNCHANGED <<peer, inbox, sends, backlog, owner, fdin, cursor, ready, pipe, canVars>>

\* Fault: the scan goes one slot too far.
NextSlotFar ==
    IF cursor > MaxClients
    THEN stage' = "select" /\ cursor' = 1 /\ ready' = {}
    ELSE cursor' = cursor + 1 /\ UNCHANGED <<stage, ready>>

\* The scan ends with the last slot; server_set is built anew for select().
NextSlot ==
    IF cursor = MaxClients
    THEN stage' = "select" /\ cursor' = 1 /\ ready' = {}
    ELSE cursor' = cursor + 1 /\ UNCHANGED <<stage, ready>>

\* Fault: the descriptor is closed, its slot not freed.
CloseKeepsSlot(f) ==
    /\ UNCHANGED fdin
    /\ peer' = [peer EXCEPT ![owner[f]] = "gone"]
    /\ inbox' = [inbox EXCEPT ![owner[f]] = <<>>]
    /\ owner' = [owner EXCEPT ![f] = Free]

\* connarr_close()
Close(f) ==
    /\ fdin' = [s \in Slots |-> IF fdin[s] = f THEN NoFd ELSE fdin[s]]
    /\ peer' = [peer EXCEPT ![owner[f]] = "gone"]
    /\ inbox' = [inbox EXCEPT ![owner[f]] = <<>>]
    /\ owner' = [owner EXCEPT ![f] = Free]

Consume(f) == inbox' = [inbox EXCEPT ![owner[f]] = Tail(@)]

SkipSlot ==
    /\ stage = "scan" /\ fdin[cursor] \notin ready
    /\ NextSlot
    /\ UNCHANGED <<peer, inbox, sends, backlog, owner, fdin, knock, pipe, canVars>>

\* readline() < 0: the error is logged, the slot stays.
ReadFails(f) ==
    /\ inbox[owner[f]] = <<>> /\ peer[owner[f]] = "rst"
    /\ peer' = [peer EXCEPT ![owner[f]] = "fin"]
    /\ UNCHANGED <<inbox, owner, fdin, pipe, canVars>>

\* Fault: a partial line is taken for the end of the connection.
CloseServedPartial(f) ==
    /\ \/ inbox[owner[f]] = <<>> /\ peer[owner[f]] = "fin"
       \/ inbox[owner[f]] # <<>> /\ (pipe \/ Head(inbox[owner[f]]) \in {"blank", "partial"})
    /\ Close(f)
    /\ pipe' = FALSE
    /\ UNCHANGED canVars

\* readline() = 0, or any other result while pipe_deadflag is set: the
\* connection is closed, and what it sent is dropped.
CloseServed(f) ==
    /\ \/ inbox[owner[f]] = <<>> /\ peer[owner[f]] = "fin"
       \/ inbox[owner[f]] # <<>> /\ (pipe \/ Head(inbox[owner[f]]) = "blank")
    /\ Close(f)
    /\ pipe' = FALSE
    /\ UNCHANGED canVars

\* setCanOut()
DoCan(f) ==
    /\ Consume(f)
    /\ destination' = f
    /\ late' = IF destination = f THEN late ELSE 0
    /\ UNCHANGED <<peer, owner, fdin, pipe, fdout, listening>>

\* Any command, or error text, that writes to the client.
DoReply(f) ==
    /\ Consume(f) /\ Write(f)
    /\ UNCHANGED <<peer, owner, fdin, canVars>>

\* A command that calls writeCan() or tellSerial(), and may then reply: each
\* closes the descriptor it opened, but leaves it open when ioctl(), bind() or
\* write() fails, and its caller ignores the result.
DoTransmit(f) ==
    /\ Consume(f) /\ Write(f)
    /\ \E lost \in SUBSET Fds :
         /\ \A g \in lost : owner[g] = Free
         /\ \A g \in lost, h \in Fds : owner[h] = Free /\ h < g => h \in lost
         /\ owner' = [g \in Fds |-> IF g \in lost THEN Leaked ELSE owner[g]]
    /\ UNCHANGED <<peer, fdin, canVars>>

DoQuit(f) == Close(f) /\ UNCHANGED <<pipe, canVars>>

\* "Only got a partial line"
DoPartial(f) == Consume(f) /\ UNCHANGED <<peer, owner, fdin, pipe, canVars>>

Dispatch(f) ==
    /\ inbox[owner[f]] # <<>> /\ ~pipe
    /\ LET m == Head(inbox[owner[f]])
       IN  \/ m = "can" /\ DoCan(f)
           \/ m = "reply" /\ DoReply(f)
           \/ m = "transmit" /\ DoTransmit(f)
           \/ m = "quit" /\ DoQuit(f)
           \/ m = "partial" /\ DoPartial(f)

ServeSlot ==
    /\ stage = "scan" /\ fdin[cursor] \in ready
    /\ ReadFails(fdin[cursor]) \/ CloseServed(fdin[cursor]) \/ Dispatch(fdin[cursor])
    /\ NextSlot
    /\ UNCHANGED <<sends, backlog, knock>>

-------------------------------------------------------------------------------
(* can_receiver_thread() *)

\* Fault: the copy of destination is made once and never renewed.
CanCheckOnce ==
    /\ ~listening
    /\ listening' = TRUE
    /\ UNCHANGED <<peer, inbox, sends, backlog, owner, mainVars, pipe, destination, fdout,
                   late>>

\* Under destination_lock: fdout follows destination (last_dest only tells
\* whether to print that it changed).
CanCheck ==
    /\ ~listening
    /\ fdout' = destination
    /\ listening' = TRUE
    /\ UNCHANGED <<peer, inbox, sends, backlog, owner, mainVars, pipe, destination, late>>

\* read() returns a frame; its text goes to fdout, whatever that is by now.
CanFrame ==
    /\ listening
    /\ IF fdout \in Fds THEN Write(fdout) ELSE UNCHANGED pipe
    /\ late' = IF fdout = destination THEN late ELSE late + 1
    /\ listening' = FALSE
    /\ UNCHANGED <<peer, inbox, sends, backlog, owner, mainVars, destination, fdout>>

-------------------------------------------------------------------------------
(* The clients *)

Connect(c) ==
    /\ peer[c] = "idle"
    /\ peer' = [peer EXCEPT ![c] = "live"]
    /\ backlog' = backlog \cup {c}
    /\ UNCHANGED <<inbox, sends, owner, mainVars, pipe, canVars>>

Send(c) ==
    /\ peer[c] = "live" /\ Len(inbox[c]) < MaxInbox /\ sends < MaxSends
    /\ sends' = sends + 1
    /\ \E m \in Msgs : inbox' = [inbox EXCEPT ![c] = Append(@, m)]
    /\ UNCHANGED <<peer, backlog, owner, mainVars, pipe, canVars>>

Leave(c) ==
    /\ peer[c] = "live"
    /\ \E how \in {"fin", "rst"} : peer' = [peer EXCEPT ![c] = how]
    /\ UNCHANGED <<inbox, sends, backlog, owner, mainVars, pipe, canVars>>

-------------------------------------------------------------------------------
Init ==
    /\ peer = [c \in Conns |-> "idle"]
    /\ inbox = [c \in Conns |-> <<>>]
    /\ sends = 0
    /\ backlog = {}
    /\ owner = [f \in Fds |-> Free]
    /\ fdin = [s \in Slots |-> NoFd]
    /\ stage = "select" /\ cursor = 1 /\ ready = {} /\ knock = FALSE
    /\ pipe = FALSE
    /\ destination = FirstFd /\ fdout = FirstFd /\ listening = FALSE
    /\ late = 0

MainThread == Select \/ Accept \/ NoAccept \/ SkipSlot \/ ServeSlot
CanThread == CanCheck \/ CanFrame
Client(c) == Connect(c) \/ Send(c) \/ Leave(c)

Next == MainThread \/ CanThread \/ \E c \in Conns : Client(c)

Spec == Init /\ [][Next]_vars

\* The main thread never waits for anything but select(): every handler
\* returns (setBias and setLNAdrain after a second).
FairSpec == Spec /\ WF_vars(MainThread)

-------------------------------------------------------------------------------
(* Properties *)

TypeOK ==
    /\ peer \in [Conns -> {"idle", "live", "fin", "rst", "gone"}]
    /\ inbox \in [Conns -> Seq(Msgs)]
    /\ sends \in 0 .. MaxSends
    /\ backlog \subseteq Conns
    /\ owner \in [Fds -> Conns \cup {Free, Leaked}]
    /\ fdin \in [Slots -> Fds \cup {NoFd}]
    /\ stage \in {"select", "accept", "scan"}
    /\ cursor \in Slots
    /\ ready \subseteq Fds
    /\ knock \in BOOLEAN /\ pipe \in BOOLEAN
    /\ destination \in Fds /\ fdout \in Fds
    /\ listening \in BOOLEAN
    /\ late \in Nat

\* No two slots hold the same descriptor.
NoSharedFd == \A s, t \in Slots : fdin[s] # NoFd /\ fdin[s] = fdin[t] => s = t

\* A slot's descriptor is open on a client connection: none was closed under
\* the slot, or closed and handed out again for something else.
SlotsOpen == \A s \in Slots : fdin[s] # NoFd => owner[fdin[s]] \in Conns

\* A descriptor open on a connection is in a slot: the server leaks none, also
\* when it denies a client, and serves every client it accepted.
OpenInSlot ==
    \A f \in Fds : owner[f] \in Conns => \E s \in Slots : fdin[s] = f

\* One connection per descriptor, and it is no longer waiting nor closed.
OneFdPerConn ==
    /\ \A f, g \in Fds : owner[f] \in Conns /\ owner[f] = owner[g] => f = g
    /\ \A f \in Fds : owner[f] \in Conns =>
         peer[owner[f]] \notin {"idle", "gone"} /\ owner[f] \notin backlog

\* The descriptor table and client_list agree through every accept, deny,
\* close, quit and reuse of a descriptor number.
TableConsistent == NoSharedFd /\ SlotsOpen /\ OpenInSlot /\ OneFdPerConn

\* The scan never reads a descriptor that has nothing to read, which would
\* block the whole server: what select() reported before accept() is still
\* true when the scan gets there.
ReadNeverBlocks ==
    stage # "select" => \A s \in Slots :
        (stage = "scan" => s >= cursor) /\ fdin[s] \in ready
            => Readable(owner[fdin[s]])

\* After a "can" command at most one more frame goes to the old destination:
\* the one the CAN thread was already waiting for.
AtMostOneLateFrame == late <= 1

\* Server.c:245, "Did the connection close?": as long as no client has gone
\* away, a client is closed only when it said quit or sent an empty line, or
\* when all slots are taken.  Not so once one has gone: the SIGPIPE its reply
\* raised closes whichever client is read next.
ClosedForCauseWhileAllLive ==
    [][(\A c \in Conns : peer[c] \in {"idle", "live"}) => \A c \in Conns :
          peer[c] = "live" /\ peer'[c] = "gone" =>
          \/ c \in backlog /\ \A s \in Slots : fdin[s] # NoFd
          \/ inbox[c] # <<>> /\ Head(inbox[c]) \in {"quit", "blank"}]_vars

\* A client that connects is accepted or denied, and what an accepted client has
\* sent is read, or the client is closed; only without a free descriptor a
\* client may wait for good, and only to be accepted.
EveryClientServed ==
    \A c \in Conns : (c \in backlog \/ inbox[c] # <<>>)
        ~> \/ c \notin backlog /\ inbox[c] = <<>>
           \/ c \in backlog /\ TableFull
           \/ peer[c] = "gone"
===============================================================================
