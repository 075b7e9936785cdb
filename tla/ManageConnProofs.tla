--------------------------- MODULE ManageConnProofs ---------------------------
(***************************************************************************)
(* The safety of manage_conn(), for any number of connections, slots,      *)
(* descriptors and messages (ConnServer), and of the dispatch() it calls,  *)
(* for any line, command table and lexicon (Dispatch).                     *)
(***************************************************************************)
EXTENDS ConnServer, Dispatch, WellFoundedInduction, FiniteSetTheorems,
        FunctionTheorems, SequenceTheorems, TLAPS

-------------------------------------------------------------------------------
(* ConnServer.  Table is inductive by itself; Scan and Late are inductive  *)
(* relative to it, Flag by itself.                                         *)

USE ConnServerAssumption DEF ConnServerAssumption

\* A connection the server could still read from: opened and not yet closed.
Opened(c) == peer[c] \notin {"idle", "gone"}

\* The listening socket only holds connections that are open.
BacklogOpen == \A c \in backlog : Opened(c)

Table == TypeOK /\ TableConsistent /\ BacklogOpen

\* What the scan relies on: server_set never outlives its round, and a
\* reported descriptor stays taken until accept() has had its turn.
Scan ==
    /\ stage = "select" => ready = {}
    /\ stage = "accept" => \A f \in ready : owner[f] \in Conns
    /\ ReadNeverBlocks

\* Why one frame is the most: having sent it the CAN thread copies destination
\* before it reads the next.
Late ==
    /\ late \in {0, 1}
    /\ late = 1 => ~listening \/ fdout = destination

\* SIGPIPE has a cause: some client has gone away.
Flag == pipe => \E c \in Conns : peer[c] \notin {"idle", "live"}

-------------------------------------------------------------------------------
(* The descriptor table *)

\* The server starts with no connection and an empty table.
LEMMA InitTable == Init => Table
  <1> SUFFICES ASSUME Init PROVE Table
    OBVIOUS
  <1>1. TypeOK
    <2>1. inbox \in [Conns -> Seq(Msgs)]
      BY DEF Init
    <2>2. cursor \in Slots /\ sends \in 0 .. MaxSends
      BY DEF Init, Slots
    <2>3. QED
      BY <2>1, <2>2 DEF Init, TypeOK
  <1>2. TableConsistent
    BY DEF Init, TableConsistent, NoSharedFd, SlotsOpen, OpenInSlot, OneFdPerConn
  <1>3. BacklogOpen
    BY DEF Init, BacklogOpen
  <1>4. QED
    BY <1>1, <1>2, <1>3 DEF Table

\* A step that leaves both tables alone keeps them in step, as long as it
\* neither closes nor re-opens a connection.
LEMMA TableUntouched ==
    ASSUME Table, UNCHANGED <<owner, fdin>>, backlog' \subseteq backlog,
           \A c \in Conns : Opened(c) => Opened(c)'
    PROVE  TableConsistent' /\ BacklogOpen'
  <1> USE DEF Table, TypeOK, TableConsistent
  <1>1. NoSharedFd' /\ SlotsOpen' /\ OpenInSlot'
    BY DEF NoSharedFd, SlotsOpen, OpenInSlot
  <1>2. OneFdPerConn'
    BY DEF OneFdPerConn, Opened
  <1>3. BacklogOpen'
    BY DEF BacklogOpen
  <1>4. QED
    BY <1>1, <1>2, <1>3

\* select() only notes which descriptors are readable.
LEMMA SelectTable == ASSUME Table, Select PROVE Table'
  <1>1. TypeOK'
    BY DEF Table, TypeOK, Select, Knocked, canVars
  <1>2. QED
    BY <1>1, TableUntouched DEF Table, Select, Opened

\* accept() fills the first free slot with a free descriptor, or denies the
\* client and leaves both tables as they were.
LEMMA AcceptTable == ASSUME Table, Accept PROVE Table'
  <1> USE DEF Table
  <1>1. CASE TableFull /\ UNCHANGED <<peer, inbox, backlog, owner, fdin>>
    <2>1. TypeOK'
      BY <1>1 DEF TypeOK, Accept, StartScan, canVars
    <2>2. QED
      BY <1>1, <2>1, TableUntouched DEF Opened
  <1>2. ASSUME NEW c \in backlog, NEW f \in Fds, Lowest(f), AcceptInsert(c, f),
               backlog' = backlog \ {c}
        PROVE  Table'
    <2>1. PICK s \in Slots : /\ fdin[s] = NoFd
                             /\ fdin' = [fdin EXCEPT ![s] = f]
                             /\ owner' = [owner EXCEPT ![f] = c]
                             /\ UNCHANGED <<peer, inbox>>
      BY <1>2 DEF AcceptInsert
    <2>2. c \in Conns /\ owner[f] = Free
      BY <1>2 DEF TypeOK, Lowest
    <2>3. TypeOK'
      BY <1>2, <2>1, <2>2 DEF TypeOK, Accept, StartScan, canVars
    <2>4. \A t \in Slots : fdin[t] # f
      BY <2>2 DEF TableConsistent, SlotsOpen, TypeOK
    <2>5. Opened(c) /\ \A g \in Fds : owner[g] # c
      BY <1>2, <2>2 DEF TableConsistent, OneFdPerConn, BacklogOpen
    <2>6. NoSharedFd'
      BY <2>1, <2>4 DEF TableConsistent, NoSharedFd, TypeOK
    <2>7. SlotsOpen'
      BY <2>1, <2>2, <2>4 DEF TableConsistent, SlotsOpen, TypeOK
    <2>8. OpenInSlot'
      <3> SUFFICES ASSUME NEW g \in Fds, owner'[g] \in Conns
                   PROVE  \E t \in Slots : fdin'[t] = g
        BY DEF OpenInSlot
      <3>1. CASE g = f
        BY <2>1, <3>1 DEF TypeOK
      <3>2. CASE g # f
        <4>1. PICK t \in Slots : fdin[t] = g
          BY <2>1, <3>2 DEF TableConsistent, OpenInSlot, TypeOK
        <4>2. t # s
          BY <2>1, <4>1
        <4>3. QED
          BY <2>1, <4>1, <4>2 DEF TypeOK
      <3>3. QED
        BY <3>1, <3>2
    <2>9. OneFdPerConn'
      BY <1>2, <2>1, <2>2, <2>5 DEF TableConsistent, OneFdPerConn, TypeOK, Opened
    <2>10. BacklogOpen'
      BY <1>2, <2>1 DEF BacklogOpen, Opened
    <2>11. QED
      BY <2>3, <2>6, <2>7, <2>8, <2>9, <2>10 DEF TableConsistent
  <1>3. ASSUME NEW c \in backlog, AcceptDeny(c), backlog' = backlog \ {c}
        PROVE  Table'
    <2>1. c \in Conns /\ \A g \in Fds : owner[g] # c
      BY DEF TypeOK, TableConsistent, OneFdPerConn
    <2>2. TypeOK'
      <3>1. peer' \in [Conns -> {"idle", "live", "fin", "rst", "gone"}]
        BY <1>3 DEF AcceptDeny, TypeOK
      <3>2. inbox' \in [Conns -> Seq(Msgs)]
        BY <1>3 DEF AcceptDeny, TypeOK
      <3>3. backlog' \subseteq Conns
        BY <1>3 DEF TypeOK
      <3>4. QED
        BY <1>3, <3>1, <3>2, <3>3 DEF TypeOK, Accept, AcceptDeny, StartScan, canVars
    <2>3. NoSharedFd' /\ SlotsOpen' /\ OpenInSlot'
      BY <1>3 DEF AcceptDeny, TableConsistent, NoSharedFd, SlotsOpen, OpenInSlot
    <2>4. OneFdPerConn'
      BY <1>3, <2>1 DEF AcceptDeny, TableConsistent, OneFdPerConn, TypeOK
    <2>5. BacklogOpen'
      BY <1>3, <2>1 DEF AcceptDeny, BacklogOpen, Opened, TypeOK
    <2>6. QED
      BY <2>2, <2>3, <2>4, <2>5 DEF TableConsistent
  <1>4. QED
    BY <1>1, <1>2, <1>3 DEF Accept

\* A round without a new client goes straight to the scan.
LEMMA NoAcceptTable == ASSUME Table, NoAccept PROVE Table'
  <1>1. TypeOK'
    BY DEF Table, TypeOK, NoAccept, StartScan, canVars
  <1>2. QED
    BY <1>1, TableUntouched DEF Table, NoAccept, Opened

\* The scan's bookkeeping stays within its types.
LEMMA NextSlotType ==
    ASSUME TypeOK, stage = "scan", NextSlot
    PROVE  /\ stage' \in {"select", "scan"} /\ cursor' \in Slots
           /\ ready' \subseteq Fds
  <1>1. CASE cursor = MaxClients
    BY <1>1 DEF TypeOK, NextSlot, Slots
  <1>2. CASE cursor # MaxClients
    <2>1. cursor' = cursor + 1 /\ stage' = stage /\ ready' = ready
      BY <1>2 DEF NextSlot
    <2>2. cursor \in 1 .. MaxClients /\ MaxClients \in Nat /\ ready \subseteq Fds
      BY DEF TypeOK, Slots
    <2>3. QED
      BY <1>2, <2>1, <2>2 DEF Slots
  <1>3. QED
    BY <1>1, <1>2

\* A slot that was not reported is passed over.
LEMMA SkipSlotTable == ASSUME Table, SkipSlot PROVE Table'
  <1>1. TypeOK'
    BY NextSlotType DEF Table, TypeOK, SkipSlot, canVars
  <1>2. QED
    BY <1>1, TableUntouched DEF Table, SkipSlot, Opened

\* A reported descriptor of a slot is open on a client.
LEMMA ServedIsOpen ==
    ASSUME Table, fdin[cursor] \in ready
    PROVE  /\ fdin[cursor] \in Fds /\ owner[fdin[cursor]] \in Conns
           /\ Opened(owner[fdin[cursor]])
  BY DEF Table, TypeOK, TableConsistent, SlotsOpen, OneFdPerConn, Opened

\* connarr_close() on a descriptor of a slot keeps the two tables in step.
LEMMA CloseTable ==
    ASSUME Table, NEW f \in Fds, owner[f] \in Conns, Close(f), backlog' = backlog
    PROVE  /\ TableConsistent' /\ BacklogOpen'
           /\ peer' \in [Conns -> {"idle", "live", "fin", "rst", "gone"}]
           /\ inbox' \in [Conns -> Seq(Msgs)]
           /\ owner' \in [Fds -> Conns \cup {Free, Leaked}]
           /\ fdin' \in [Slots -> Fds \cup {NoFd}]
  <1> USE DEF Table, TypeOK, TableConsistent, Close
  <1>1. NoSharedFd'
    BY DEF NoSharedFd
  <1>2. SlotsOpen'
    BY DEF SlotsOpen
  <1>3. OpenInSlot'
    BY DEF OpenInSlot
  <1>4. OneFdPerConn'
    BY DEF OneFdPerConn
  <1>5. BacklogOpen'
    BY DEF BacklogOpen, OneFdPerConn, Opened
  <1>6. QED
    BY <1>1, <1>2, <1>3, <1>4, <1>5

\* Reading the next message leaves the others in place.
LEMMA ConsumeType ==
    ASSUME TypeOK, NEW f \in Fds, inbox[owner[f]] # <<>>, owner[f] \in Conns, Consume(f)
    PROVE  inbox' \in [Conns -> Seq(Msgs)]
  <1>1. inbox[owner[f]] \in Seq(Msgs)
    BY DEF TypeOK
  <1>2. Tail(inbox[owner[f]]) \in Seq(Msgs)
    BY <1>1
  <1>3. QED
    BY <1>2 DEF TypeOK, Consume

\* No command breaks the tables: of those, only "quit" closes a descriptor and
\* only what writeCan() or tellSerial() leaks stays open.
LEMMA DispatchTable ==
    ASSUME Table, ServeSlot, Dispatch(fdin[cursor])
    PROVE  Table'
  <1> DEFINE f == fdin[cursor]
  <1> USE DEF Table
  <1>1. /\ f \in Fds /\ owner[f] \in Conns /\ inbox[owner[f]] # <<>>
        /\ stage' \in {"select", "scan"} /\ cursor' \in Slots /\ ready' \subseteq Fds
        /\ UNCHANGED <<sends, backlog, knock>>
    BY ServedIsOpen, NextSlotType DEF ServeSlot, Dispatch
  <1>2. CASE DoCan(f)
    <2>1. TypeOK'
      BY <1>1, <1>2, ConsumeType DEF DoCan, TypeOK
    <2>2. QED
      BY <1>1, <1>2, <2>1, TableUntouched DEF DoCan, Opened
  <1>3. CASE DoReply(f)
    <2>1. TypeOK'
      BY <1>1, <1>3, ConsumeType DEF DoReply, Write, TypeOK, canVars
    <2>2. QED
      BY <1>1, <1>3, <2>1, TableUntouched DEF DoReply, Opened
  <1>4. CASE DoTransmit(f)
    <2>1. PICK lost \in SUBSET Fds :
              /\ \A g \in lost : owner[g] = Free
              /\ owner' = [g \in Fds |-> IF g \in lost THEN Leaked ELSE owner[g]]
      BY <1>4 DEF DoTransmit
    <2>2. TypeOK'
      <3>1. owner' \in [Fds -> Conns \cup {Free, Leaked}]
        BY <2>1 DEF TypeOK
      <3>2. pipe' \in BOOLEAN
        BY <1>4 DEF DoTransmit, Write, TypeOK
      <3>3. QED
        BY <1>1, <1>4, <3>1, <3>2, ConsumeType DEF DoTransmit, TypeOK, canVars
    <2>3. \A t \in Slots : fdin[t] \notin lost
      BY <2>1 DEF TableConsistent, SlotsOpen
    <2>4. \A g \in Fds : owner'[g] \in Conns => owner[g] \in Conns /\ owner'[g] = owner[g]
      BY <2>1
    <2>5. NoSharedFd' /\ SlotsOpen' /\ OpenInSlot'
      <3>1. fdin' = fdin
        BY <1>4 DEF DoTransmit
      <3>2. \A t \in Slots : fdin[t] # NoFd => owner'[fdin[t]] = owner[fdin[t]]
        BY <2>1, <2>3 DEF TypeOK
      <3>3. QED
        BY <2>4, <3>1, <3>2 DEF TableConsistent, NoSharedFd, SlotsOpen, OpenInSlot
    <2>6. OneFdPerConn'
      BY <1>1, <1>4, <2>4 DEF DoTransmit, TypeOK, TableConsistent, OneFdPerConn
    <2>7. BacklogOpen'
      BY <1>1, <1>4 DEF DoTransmit, BacklogOpen, Opened
    <2>8. QED
      BY <2>2, <2>5, <2>6, <2>7 DEF TableConsistent
  <1>5. CASE DoQuit(f)
    <2>1. TypeOK'
      BY <1>1, <1>5, CloseTable DEF DoQuit, TypeOK, canVars
    <2>2. QED
      BY <1>1, <1>5, <2>1, CloseTable DEF DoQuit
  <1>6. CASE DoPartial(f)
    <2>1. TypeOK'
      BY <1>1, <1>6, ConsumeType DEF DoPartial, TypeOK, canVars
    <2>2. QED
      BY <1>1, <1>6, <2>1, TableUntouched DEF DoPartial, Opened
  <1>7. QED
    BY <1>2, <1>3, <1>4, <1>5, <1>6 DEF Dispatch

\* Serving a descriptor, whatever readline() returns, keeps the tables in step.
LEMMA ServeSlotTable == ASSUME Table, ServeSlot PROVE Table'
  <1> DEFINE f == fdin[cursor]
  <1> USE DEF Table
  <1>1. /\ f \in Fds /\ owner[f] \in Conns
        /\ stage' \in {"select", "scan"} /\ cursor' \in Slots /\ ready' \subseteq Fds
        /\ UNCHANGED <<sends, backlog, knock>>
    BY ServedIsOpen, NextSlotType DEF ServeSlot
  <1>2. CASE ReadFails(f)
    <2>1. TypeOK'
      BY <1>1, <1>2 DEF ReadFails, TypeOK, canVars
    <2>2. \A c \in Conns : Opened(c) => Opened(c)'
      BY <1>1, <1>2 DEF ReadFails, Opened, TypeOK
    <2>3. QED
      BY <1>1, <1>2, <2>1, <2>2, TableUntouched DEF ReadFails
  <1>3. CASE CloseServed(f)
    <2>1. TypeOK'
      BY <1>1, <1>3, CloseTable DEF CloseServed, TypeOK, canVars
    <2>2. QED
      BY <1>1, <1>3, <2>1, CloseTable DEF CloseServed
  <1>4. CASE Dispatch(f)
    BY <1>4, DispatchTable
  <1>5. QED
    BY <1>2, <1>3, <1>4 DEF ServeSlot

\* The CAN thread writes to descriptors but neither opens nor closes any.
LEMMA CanTable == ASSUME Table, CanThread PROVE Table'
  <1> USE DEF Table, mainVars
  <1>1. CASE CanCheck
    <2>1. TypeOK'
      BY <1>1 DEF CanCheck, TypeOK
    <2>2. QED
      BY <1>1, <2>1, TableUntouched DEF CanCheck, Opened
  <1>2. CASE CanFrame
    <2>1. late' \in Nat
      BY <1>2 DEF CanFrame, TypeOK
    <2>2. pipe' \in BOOLEAN
      <3>1. pipe' = pipe \/ pipe' = TRUE
        BY <1>2 DEF CanFrame, Write
      <3>2. QED
        BY <3>1 DEF TypeOK
    <2>3. TypeOK'
      BY <1>2, <2>1, <2>2 DEF CanFrame, TypeOK
    <2>4. QED
      BY <1>2, <2>3, TableUntouched DEF CanFrame, Opened
  <1>3. QED
    BY <1>1, <1>2 DEF CanThread

\* A client connects, sends or leaves without touching the server's tables.
LEMMA ClientTable == ASSUME Table, NEW c \in Conns, Client(c) PROVE Table'
  <1> USE DEF Table, mainVars, canVars
  <1>1. CASE Connect(c)
    <2>1. TypeOK'
      BY <1>1 DEF Connect, TypeOK
    <2>2. \A f \in Fds : owner[f] # c
      BY <1>1 DEF Connect, TableConsistent, OneFdPerConn
    <2>3. NoSharedFd' /\ SlotsOpen' /\ OpenInSlot'
      BY <1>1 DEF Connect, TableConsistent, NoSharedFd, SlotsOpen, OpenInSlot
    <2>4. OneFdPerConn'
      BY <1>1, <2>2 DEF Connect, TypeOK, TableConsistent, OneFdPerConn
    <2>5. BacklogOpen'
      BY <1>1 DEF Connect, TypeOK, BacklogOpen, Opened
    <2>6. QED
      BY <2>1, <2>3, <2>4, <2>5 DEF TableConsistent
  <1>2. CASE Send(c)
    <2>1. PICK m \in Msgs : inbox' = [inbox EXCEPT ![c] = Append(@, m)]
      BY <1>2 DEF Send
    <2>2. inbox' \in [Conns -> Seq(Msgs)]
      BY <2>1 DEF TypeOK
    <2>3. sends' \in 0 .. MaxSends
      BY <1>2 DEF Send, TypeOK
    <2>4. TypeOK'
      BY <1>2, <2>2, <2>3 DEF Send, TypeOK
    <2>5. QED
      BY <1>2, <2>4, TableUntouched DEF Send, Opened
  <1>3. CASE Leave(c)
    <2>1. TypeOK'
      BY <1>3 DEF Leave, TypeOK
    <2>2. \A d \in Conns : Opened(d) => Opened(d)'
      BY <1>3 DEF Leave, TypeOK, Opened
    <2>3. QED
      BY <1>3, <2>1, <2>2, TableUntouched DEF Leave
  <1>4. QED
    BY <1>1, <1>2, <1>3 DEF Client

\* Table is inductive.
LEMMA NextTable == ASSUME Table, [Next]_vars PROVE Table'
  <1>1. CASE MainThread
    BY <1>1, SelectTable, AcceptTable, NoAcceptTable, SkipSlotTable, ServeSlotTable
       DEF MainThread
  <1>2. CASE CanThread
    BY <1>2, CanTable
  <1>3. ASSUME NEW c \in Conns, Client(c) PROVE Table'
    BY <1>3, ClientTable
  <1>4. CASE UNCHANGED vars
    <2>1. TypeOK'
      BY <1>4 DEF vars, mainVars, canVars, Table, TypeOK
    <2>2. QED
      BY <1>4, <2>1, TableUntouched DEF vars, mainVars, Table, Opened
  <1>5. QED
    BY <1>1, <1>2, <1>3, <1>4 DEF Next

\* The inductive invariant behind the theorems on the tables: types, the
\* agreement of client_list with the descriptor table, and that a connection
\* waiting in the listening socket is still open.
THEOREM TableInvariant == Spec => []Table
  BY InitTable, NextTable, PTL DEF Spec

-------------------------------------------------------------------------------
(* The scan *)

\* Nothing is reported before the first select().
LEMMA InitScan == Init => Scan
  BY DEF Init, Scan, ReadNeverBlocks

\* The descriptors a scan has still to read keep what select() found there, if
\* the step leaves client_list, the table and server_set alone.
LEMMA ScanUntouched ==
    ASSUME Table, Scan, UNCHANGED <<owner, mainVars>>,
           \A c \in Conns : Readable(c) => Readable(c)'
    PROVE  Scan'
  <1>1. \A s \in Slots : fdin[s] \in ready => owner[fdin[s]] \in Conns
    BY DEF Table, TypeOK, TableConsistent, SlotsOpen
  <1>2. ReadNeverBlocks'
    BY <1>1 DEF Scan, ReadNeverBlocks, mainVars
  <1>3. QED
    BY <1>2 DEF Scan, mainVars

\* select() reports a descriptor only if it has something to read.
LEMMA SelectScan == ASSUME Table, Scan, Select PROVE Scan'
  BY DEF Table, Scan, Select, Woken, ReadNeverBlocks, Readable

\* An accept() between select() and the scan takes a descriptor that was free,
\* hence not reported.
LEMMA AcceptScan == ASSUME Table, Scan, Accept PROVE Scan'
  <1> USE DEF Table, Readable
  <1>0. /\ stage = "accept" /\ stage' = "scan" /\ ready' = ready
        /\ \A t \in Slots : fdin[t] \in ready => Readable(owner[fdin[t]])
    BY DEF Accept, StartScan, Scan, ReadNeverBlocks
  <1>1. SUFFICES ASSUME NEW t \in Slots, fdin'[t] \in ready
                 PROVE  Readable(owner[fdin[t]])'
    BY <1>0 DEF Scan, ReadNeverBlocks
  <1>2. owner[fdin'[t]] \in Conns /\ fdin'[t] \in Fds
    BY <1>0, <1>1 DEF Scan, TypeOK
  <1>3. CASE TableFull /\ UNCHANGED <<peer, inbox, backlog, owner, fdin>>
    BY <1>0, <1>1, <1>3
  <1>4. ASSUME NEW c \in backlog, NEW f \in Fds, Lowest(f), AcceptInsert(c, f)
        PROVE  Readable(owner[fdin[t]])'
    <2>1. PICK s \in Slots : /\ fdin' = [fdin EXCEPT ![s] = f]
                             /\ owner' = [owner EXCEPT ![f] = c]
                             /\ UNCHANGED <<peer, inbox>>
      BY <1>4 DEF AcceptInsert
    <2>2. fdin'[t] # f
      BY <1>2, <1>4 DEF Lowest
    <2>3. fdin'[t] = fdin[t] /\ owner'[fdin'[t]] = owner[fdin[t]]
      BY <1>2, <2>1, <2>2 DEF TypeOK
    <2>4. QED
      BY <1>0, <1>1, <2>1, <2>3
  <1>5. ASSUME NEW c \in backlog, AcceptDeny(c)
        PROVE  Readable(owner[fdin[t]])'
    <2>1. fdin' = fdin /\ owner' = owner /\ owner[fdin[t]] # c
      BY <1>2, <1>5 DEF AcceptDeny, TableConsistent, OneFdPerConn
    <2>2. owner[fdin[t]] \in Conns
      BY <1>2, <2>1
    <2>3. inbox'[owner[fdin[t]]] = inbox[owner[fdin[t]]] /\ peer'[owner[fdin[t]]] = peer[owner[fdin[t]]]
      BY <1>5, <2>1, <2>2 DEF AcceptDeny, TypeOK
    <2>4. QED
      BY <1>0, <1>1, <2>1, <2>3
  <1>6. QED
    BY <1>3, <1>4, <1>5 DEF Accept

\* Without an accept() the scan starts with what select() reported.
LEMMA NoAcceptScan == ASSUME Table, Scan, NoAccept PROVE Scan'
  BY DEF Table, Scan, NoAccept, StartScan, ReadNeverBlocks, Readable

\* The rest of the scan after one slot, if what happened to that slot's
\* connection does not reach the connections of the later slots.
LEMMA NextScan ==
    ASSUME Table, Scan, stage = "scan", NextSlot,
           \A t \in Slots : t > cursor /\ fdin'[t] \in ready =>
               fdin'[t] = fdin[t] /\ (Readable(owner[fdin[t]]) => Readable(owner[fdin[t]])')
    PROVE  Scan'
  <1> USE DEF Readable
  <1>1. CASE cursor = MaxClients
    <2>1. stage' = "select" /\ ready' = {}
      BY <1>1 DEF NextSlot
    <2>2. QED
      BY <2>1 DEF Scan, ReadNeverBlocks
  <1>2. CASE cursor # MaxClients
    <2>1. cursor' = cursor + 1 /\ stage' = "scan" /\ ready' = ready /\ cursor \in Int
      BY <1>2 DEF NextSlot, Table, TypeOK, Slots
    <2>2. ASSUME NEW t \in Slots, t >= cursor + 1, fdin'[t] \in ready
          PROVE  Readable(owner[fdin[t]])'
      <3>1. t > cursor /\ t >= cursor
        BY <2>1, <2>2 DEF Slots
      <3>2. fdin'[t] = fdin[t]
        BY <2>2, <3>1
      <3>3. Readable(owner[fdin[t]])
        BY <2>2, <3>1, <3>2 DEF Scan, ReadNeverBlocks
      <3>4. QED
        BY <2>2, <3>1, <3>3
    <2>3. QED
      BY <2>1, <2>2 DEF Scan, ReadNeverBlocks
  <1>3. QED
    BY <1>1, <1>2

\* Passing over a slot leaves the later ones readable.
LEMMA SkipScan == ASSUME Table, Scan, SkipSlot PROVE Scan'
  BY NextScan DEF SkipSlot, Readable

\* Serving one descriptor leaves the other slots, their descriptors and their
\* connections alone.
LEMMA ServeOthers ==
    ASSUME Table, ServeSlot, NEW t \in Slots, fdin[t] \in Fds, fdin[t] # fdin[cursor]
    PROVE  /\ fdin'[t] = fdin[t] /\ owner'[fdin[t]] = owner[fdin[t]]
           /\ Readable(owner[fdin[t]]) => Readable(owner[fdin[t]])'
  <1> DEFINE f == fdin[cursor]
  <1> DEFINE c == owner[fdin[t]]
  <1> USE DEF Table, TypeOK
  <1>1. f \in Fds /\ owner[f] \in Conns
    BY ServedIsOpen DEF ServeSlot
  <1>2. c \in Conns /\ c # owner[f]
    BY <1>1 DEF TableConsistent, SlotsOpen, OneFdPerConn
  <1>3. fdin'[t] = fdin[t]
    BY DEF ServeSlot, ReadFails, CloseServed, Dispatch, DoCan, DoReply, DoTransmit, DoQuit,
           DoPartial, Close
  <1>4. owner'[fdin[t]] = c
    <2>1. CASE DoTransmit(f)
      BY <1>2, <2>1 DEF DoTransmit
    <2>2. CASE owner' = owner \/ Close(f)
      BY <1>1, <2>2 DEF Close
    <2>3. QED
      BY <2>1, <2>2 DEF ServeSlot, ReadFails, CloseServed, Dispatch, DoCan, DoReply, DoQuit,
                        DoPartial
  <1>5. inbox'[c] = inbox[c] /\ peer'[c] = peer[c]
    <2>1. CASE Close(f)
      BY <1>1, <1>2, <2>1 DEF Close
    <2>2. CASE Consume(f) /\ UNCHANGED peer
      BY <1>1, <1>2, <2>2 DEF Consume
    <2>3. CASE ReadFails(f)
      BY <1>1, <1>2, <2>3 DEF ReadFails
    <2>4. QED
      BY <2>1, <2>2, <2>3 DEF ServeSlot, CloseServed, Dispatch, DoCan, DoReply, DoTransmit,
                              DoQuit, DoPartial
  <1>6. QED
    BY <1>3, <1>4, <1>5 DEF Readable

\* Serving a slot leaves the later ones readable.
LEMMA ServeScan == ASSUME Table, Scan, ServeSlot PROVE Scan'
  <1> USE DEF Table
  <1>1. fdin[cursor] \in Fds /\ cursor \in Slots /\ ready \subseteq Fds
    BY ServedIsOpen DEF ServeSlot, TypeOK
  <1>2. ASSUME NEW t \in Slots, t > cursor, fdin'[t] \in ready
        PROVE  fdin[t] \in Fds /\ fdin[t] # fdin[cursor]
    <2>1. fdin[t] = fdin'[t]
      BY <1>1, <1>2 DEF ServeSlot, ReadFails, CloseServed, Dispatch, DoCan, DoReply,
                        DoTransmit, DoQuit, DoPartial, Close
    <2>2. t # cursor
      BY <1>1, <1>2 DEF Slots
    <2>3. QED
      BY <1>1, <1>2, <2>1, <2>2 DEF TableConsistent, NoSharedFd
  <1>3. QED
    BY <1>2, ServeOthers, NextScan DEF ServeSlot

\* No client takes back what it sent.
LEMMA ClientScan == ASSUME Table, Scan, NEW c \in Conns, Client(c) PROVE Scan'
  <1>1. \A d \in Conns : Readable(d) => Readable(d)'
    <2>1. CASE Connect(c)
      BY <2>1 DEF Connect, Readable, Table, TypeOK
    <2>2. CASE Send(c)
      BY <2>2 DEF Send, Readable, Table, TypeOK
    <2>3. CASE Leave(c)
      BY <2>3 DEF Leave, Readable, Table, TypeOK
    <2>4. QED
      BY <2>1, <2>2, <2>3 DEF Client
  <1>2. QED
    BY <1>1, ScanUntouched DEF Client, Connect, Send, Leave

\* Scan is inductive relative to Table.
LEMMA NextScanInv == ASSUME Table, Scan, [Next]_vars PROVE Scan'
  <1>1. CASE MainThread
    BY <1>1, SelectScan, AcceptScan, NoAcceptScan, SkipScan, ServeScan DEF MainThread
  <1>2. CASE CanThread
    BY <1>2, ScanUntouched DEF CanThread, CanCheck, CanFrame, Readable
  <1>3. ASSUME NEW c \in Conns, Client(c) PROVE Scan'
    BY <1>3, ClientScan
  <1>4. CASE UNCHANGED vars
    BY <1>4, ScanUntouched DEF vars, Readable
  <1>5. QED
    BY <1>1, <1>2, <1>3, <1>4 DEF Next

-------------------------------------------------------------------------------
(* The CAN thread and the SIGPIPE flag *)

\* At first the CAN thread has sent nothing and nobody has gone away.
LEMMA InitLate == Init => Late /\ Flag
  BY DEF Init, Late, Flag

\* Late is inductive relative to TypeOK.
LEMMA NextLate == ASSUME TypeOK, Late, [Next]_vars PROVE Late'
  <1>1. CASE \E f \in Fds : DoCan(f)
    BY <1>1 DEF DoCan, Late
  <1>2. CASE UNCHANGED canVars
    BY <1>2 DEF canVars, Late
  <1>3. CASE CanCheck
    BY <1>3 DEF CanCheck, Late
  <1>4. CASE CanFrame
    BY <1>4 DEF CanFrame, Late
  <1>5. ASSUME ServeSlot PROVE UNCHANGED canVars \/ \E f \in Fds : DoCan(f)
    BY <1>5 DEF ServeSlot, ReadFails, CloseServed, Dispatch, DoReply, DoTransmit, DoQuit,
                DoPartial, TypeOK
  <1>6. QED
    BY <1>1, <1>2, <1>3, <1>4, <1>5
       DEF Next, MainThread, CanThread, Client, Select, Accept, NoAccept, SkipSlot, Connect,
           Send, Leave, vars

\* A client that has gone away does not come back.
LEMMA GoneForGood ==
    ASSUME Table, [Next]_vars, NEW c \in Conns, peer[c] \notin {"idle", "live"}
    PROVE  peer'[c] \notin {"idle", "live"}
  <1> USE DEF Table, TypeOK
  <1>1. CASE UNCHANGED peer
    BY <1>1
  <1>2. CASE \E d \in Conns : peer' = [peer EXCEPT ![d] = "gone"]
    BY <1>2
  <1>3. CASE Accept
    BY <1>1, <1>2, <1>3 DEF Accept, AcceptInsert, AcceptDeny
  <1>4. CASE ServeSlot
    <2>1. fdin[cursor] \in Fds /\ owner[fdin[cursor]] \in Conns
      BY <1>4, ServedIsOpen DEF ServeSlot
    <2>2. UNCHANGED peer \/ (\E d \in Conns : peer' = [peer EXCEPT ![d] = "gone"])
            \/ ReadFails(fdin[cursor])
      BY <1>4, <2>1 DEF ServeSlot, CloseServed, Dispatch, DoCan, DoReply, DoTransmit, DoQuit,
                        DoPartial, Close
    <2>3. CASE ReadFails(fdin[cursor])
      BY <2>1, <2>3 DEF ReadFails
    <2>4. QED
      BY <1>1, <1>2, <2>2, <2>3
  <1>5. ASSUME NEW d \in Conns, Client(d) PROVE peer'[c] \notin {"idle", "live"}
    BY <1>5 DEF Client, Connect, Send, Leave
  <1>6. QED
    BY <1>1, <1>3, <1>4, <1>5
       DEF Next, MainThread, CanThread, Select, NoAccept, SkipSlot, CanCheck, CanFrame, vars

\* Flag is inductive relative to Table.
LEMMA NextFlag == ASSUME Table, Flag, [Next]_vars PROVE Flag'
  <1>1. CASE pipe' = FALSE
    BY <1>1 DEF Flag
  <1>2. CASE pipe' = pipe
    <2>1. SUFFICES ASSUME pipe PROVE \E c \in Conns : peer'[c] \notin {"idle", "live"}
      BY <1>2 DEF Flag
    <2>2. PICK c \in Conns : peer[c] \notin {"idle", "live"}
      BY <2>1 DEF Flag
    <2>3. QED
      BY <2>2, GoneForGood
  <1>3. ASSUME NEW f \in Fds, owner[f] \in Conns, peer[owner[f]] \in {"fin", "rst"}
        PROVE  Flag'
    BY <1>3, GoneForGood DEF Flag
  <1>4. CASE ServeSlot
    <2>1. fdin[cursor] \in Fds
      BY <1>4, ServedIsOpen DEF ServeSlot
    <2>2. QED
      BY <1>1, <1>2, <1>3, <1>4, <2>1
         DEF ServeSlot, ReadFails, CloseServed, Dispatch, DoCan, DoReply, DoTransmit, DoQuit,
             DoPartial, Write
  <1>5. CASE CanFrame
    BY <1>2, <1>3, <1>5 DEF CanFrame, Write
  <1>6. QED
    BY <1>2, <1>4, <1>5
       DEF Next, MainThread, CanThread, Client, Select, Accept, NoAccept, SkipSlot, CanCheck,
           Connect, Send, Leave, vars

\* A close has a cause while nobody has gone away: SIGPIPE cannot have come.
LEMMA CauseOfClose ==
    ASSUME Table, Flag, [Next]_vars, \A d \in Conns : peer[d] \in {"idle", "live"},
           NEW c \in Conns, peer[c] = "live", peer'[c] = "gone"
    PROVE  \/ c \in backlog /\ \A s \in Slots : fdin[s] # NoFd
           \/ inbox[c] # <<>> /\ Head(inbox[c]) \in {"quit", "blank"}
  <1> USE DEF Table, TypeOK
  <1>1. ~pipe
    BY DEF Flag
  <1>2. CASE Accept
    BY <1>2 DEF Accept, AcceptInsert, AcceptDeny
  <1>3. CASE ServeSlot
    <2> DEFINE f == fdin[cursor]
    <2>1. f \in Fds /\ owner[f] \in Conns
      BY <1>3, ServedIsOpen DEF ServeSlot
    <2>2. Close(f) /\ inbox[owner[f]] # <<>> /\ Head(inbox[owner[f]]) \in {"quit", "blank"}
      BY <1>1, <1>3, <2>1 DEF ServeSlot, ReadFails, CloseServed, Dispatch, DoCan, DoReply,
                              DoTransmit, DoQuit, DoPartial
    <2>3. owner[f] = c
      BY <2>1, <2>2 DEF Close
    <2>4. QED
      BY <2>2, <2>3
  <1>4. ASSUME NEW d \in Conns, Client(d) PROVE FALSE
    BY <1>4 DEF Client, Connect, Send, Leave
  <1>5. QED
    BY <1>2, <1>3, <1>4
       DEF Next, MainThread, CanThread, Select, NoAccept, SkipSlot, CanCheck, CanFrame, vars

-------------------------------------------------------------------------------
\* Type correctness, for every number of connections, slots and descriptors.
THEOREM TypeCorrect == Spec => []TypeOK
  BY TableInvariant, PTL DEF Table

\* client_list and the descriptor table always agree (accept, deny, close, quit
\* and reuse of a descriptor number in any order, with any number of clients).
THEOREM TablesAgree == Spec => []TableConsistent
  BY TableInvariant, PTL DEF Table

\* The scan never blocks the server in read(): with select() once per round and
\* an accept() in between, whatever clients and the CAN thread do meanwhile.
THEOREM ScanNeverBlocks == Spec => []ReadNeverBlocks
  <1>1. Spec => []Scan
    BY InitScan, NextScanInv, TableInvariant, PTL DEF Spec
  <1>2. QED
    BY <1>1, PTL DEF Scan

\* The CAN thread sends at most one frame to a client that another "can"
\* command has replaced.
THEOREM OneLateFrame == Spec => []AtMostOneLateFrame
  <1>1. Spec => []Late
    BY InitLate, NextLate, TypeCorrect, PTL DEF Spec
  <1>2. Late => AtMostOneLateFrame
    BY DEF Late, AtMostOneLateFrame
  <1>3. QED
    BY <1>1, <1>2, PTL

\* Until the first client goes away, nobody is closed but for its own doing.
THEOREM ClosedForCauseUntilOneLeaves == Spec => ClosedForCauseWhileAllLive
  <1>1. Spec => []Flag
    BY InitLate, NextFlag, TableInvariant, PTL DEF Spec
  <1>2. Table /\ Flag /\ [Next]_vars =>
          [(\A c \in Conns : peer[c] \in {"idle", "live"}) => \A c \in Conns :
              peer[c] = "live" /\ peer'[c] = "gone" =>
              \/ c \in backlog /\ \A s \in Slots : fdin[s] # NoFd
              \/ inbox[c] # <<>> /\ Head(inbox[c]) \in {"quit", "blank"}]_vars
    BY CauseOfClose
  <1>3. QED
    BY <1>1, <1>2, TableInvariant, PTL DEF Spec, ClosedForCauseWhileAllLive

HIDE ConnServerAssumption DEF ConnServerAssumption

-------------------------------------------------------------------------------
(* create_arg_list()                                                       *)

Lexemes == Verbs \cup Words \cup {SP, QT}

\* A set of natural numbers that is not empty has a least element.
LEMMA LeastOf ==
    ASSUME NEW S \in SUBSET Nat, S # {}
    PROVE  \E n \in S : \A m \in S : n <= m
  <1> DEFINE R == {ss \in Nat \X Nat : ss[1] < ss[2]}
  <1>1. IsWellFoundedOn(R, Nat)
    <2>1. R = OpToRel(<, Nat)
      BY Zenon DEF OpToRel
    <2> QED
      BY <2>1, NatLessThanWellFounded, Zenon
  <1>2. PICK n \in S : \A m \in S : ~ (<<m, n>> \in R)
    BY <1>1, WFMin, Zenon
  <1>3. ASSUME NEW m \in S PROVE n <= m
    <2>1. ~ (<<m, n>> \in R) /\ m \in Nat /\ n \in Nat
      BY <1>2
    <2> QED
      BY <2>1, SMT
  <1> QED
    BY <1>3

\* Min() of a set of natural numbers is its least element.
LEMMA MinOf ==
    ASSUME NEW S \in SUBSET Nat, S # {}
    PROVE  Min(S) \in S /\ \A m \in S : Min(S) <= m
  <1>1. \E n \in S : \A m \in S : n <= m
    BY LeastOf, Zenon
  <1> QED
    BY <1>1 DEF Min

\* The loop runs over the characters in turn.
LEMMA LoopSteps ==
    ASSUME NEW l \in Seq(Lexemes)
    PROVE  /\ Loop(l)[0] = Start
           /\ \A n \in 1 .. Len(l) : Loop(l)[n] = Step(Loop(l)[n - 1], l[n])
  <1> DEFINE N == Len(l)
             Runs(f, n) == f = [i \in 0 .. n |-> IF i = 0 THEN Start ELSE Step(f[i - 1], l[i])]
             Bad == {n \in 0 .. N : ~ \E f : Runs(f, n)}
             h == CHOOSE f : Runs(f, N)
  <1>1. N \in Nat
    OBVIOUS
  <1>2. Bad = {}
    <2> SUFFICES ASSUME Bad # {} PROVE FALSE
      OBVIOUS
    <2>1. PICK n \in Bad : \A m \in Bad : n <= m
      <3>1. Bad \in SUBSET Nat
        BY <1>1
      <3> QED
        BY <3>1, LeastOf, Zenon
    <2>2. n \in 0 .. N /\ ~ \E f : Runs(f, n)
      BY <2>1
    <2>3. Runs([i \in 0 .. 0 |-> Start], 0)
      OBVIOUS
    <2>4. n # 0
      BY <2>2, <2>3
    <2>5. n - 1 \in 0 .. N /\ ~ (n <= n - 1)
      BY <1>1, <2>2, <2>4
    <2>6. PICK f : Runs(f, n - 1)
      BY <2>1, <2>5
    <2> DEFINE g == [i \in 0 .. n |-> IF i = n THEN Step(f[n - 1], l[n]) ELSE f[i]]
    <2>7. Runs(g, n)
      <3> SUFFICES ASSUME NEW i \in 0 .. n
                   PROVE  g[i] = IF i = 0 THEN Start ELSE Step(g[i - 1], l[i])
        BY <2>2
      <3>1. CASE i = n
        <4>1. n - 1 \in 0 .. n /\ n - 1 # n
          BY <2>2, <2>4
        <4> QED
          BY <2>4, <3>1, <4>1
      <3>2. CASE i # n
        <4>1. i \in 0 .. n - 1 /\ (i # 0 => i - 1 \in 0 .. n /\ i - 1 # n)
          BY <2>2, <3>2
        <4>2. f[i] = IF i = 0 THEN Start ELSE Step(f[i - 1], l[i])
          BY <2>6, <4>1
        <4> QED
          BY <3>2, <4>1, <4>2
      <3> QED
        BY <3>1, <3>2
    <2> QED
      BY <2>2, <2>7
  <1>3. Runs(h, N)
    <2>1. N \in 0 .. N
      BY <1>1
    <2> QED
      BY <1>2, <2>1
  <1>4. Loop(l) = h
    BY DEF Scan
  <1> HIDE DEF h
  <1>5. 0 \in 0 .. N /\ \A n \in 1 .. N : n \in 0 .. N /\ n # 0
    BY <1>1
  <1> QED
    BY <1>3, <1>4, <1>5

-------------------------------------------------------------------------------
(* Quotes, and where tokens begin and end                                  *)

\* What is known of the separators and of argv[]'s size.
LEMMA SpAndQt == SP # QT /\ MaxArgc \in Nat \ {0}
  BY DispatchAssumption DEF DispatchAssumption

\* A quote ends what the one before began.
LEMMA QuotedSteps ==
    ASSUME NEW l \in Seq(Lexemes)
    PROVE  /\ Quoted(l, 1) = FALSE
           /\ \A i \in 1 .. Len(l) :
                Quoted(l, i + 1) = IF l[i] = QT THEN ~ Quoted(l, i) ELSE Quoted(l, i)
  <1> DEFINE Quotes(i) == {j \in 1 .. i - 1 : l[j] = QT}
  <1>1. ASSUME NEW i \in Nat
        PROVE  IsFiniteSet(Quotes(i)) /\ Cardinality(Quotes(i)) \in Nat
    <2>1. IsFiniteSet(1 .. i - 1)
      BY FS_Interval
    <2>2. IsFiniteSet(Quotes(i))
      BY <2>1, FS_Subset
    <2> QED
      BY <2>2, FS_CardinalityType
  <1>2. Quoted(l, 1) = FALSE
    <2>1. Quotes(1) = {}
      OBVIOUS
    <2>2. Cardinality(Quotes(1)) = 0
      BY <2>1, FS_EmptySet
    <2> QED
      BY <2>2 DEF Quoted
  <1>3. ASSUME NEW i \in 1 .. Len(l)
        PROVE  Quoted(l, i + 1) = IF l[i] = QT THEN ~ Quoted(l, i) ELSE Quoted(l, i)
    <2>0. i \in Nat /\ (i + 1) - 1 = i
      OBVIOUS
    <2>1. CASE l[i] = QT
      <3>1. Quotes(i + 1) = Quotes(i) \cup {i} /\ i \notin Quotes(i)
        BY <2>0, <2>1
      <3> DEFINE c == Cardinality(Quotes(i))
      <3>2. Cardinality(Quotes(i + 1)) = c + 1 /\ c \in Nat
        <4> HIDE DEF Quotes
        <4> QED
          BY <1>1, <2>0, <3>1, FS_AddElement
      <3>3. Quoted(l, i) = (c % 2 = 1) /\ Quoted(l, i + 1) = ((c + 1) % 2 = 1)
        BY <3>2 DEF Quoted
      <3> HIDE DEF c
      <3>4. ((c + 1) % 2 = 1) = ~ (c % 2 = 1)
        BY <3>2
      <3> QED
        BY <2>1, <3>3, <3>4
    <2>2. CASE l[i] # QT
      <3>1. Quotes(i + 1) = Quotes(i)
        BY <2>0, <2>2
      <3>2. Quoted(l, i + 1) = Quoted(l, i)
        BY <3>1 DEF Quoted
      <3> QED
        BY <2>2, <3>2
    <2> QED
      BY <2>1, <2>2
  <1> QED
    BY <1>2, <1>3

\* Where the token that begins at i ends in the first n characters, and its text.
End(l, i, n) == Min({j \in i .. n : Between(l, j)} \cup {n + 1})
Cut(l, i, n) == SubSeq(l, i, End(l, i, n) - 1)

Ends(l, i, n, e) ==
    /\ e \in i .. n + 1 /\ (e = n + 1 \/ Between(l, e))
    /\ \A j \in i .. e - 1 : ~ Between(l, j)

\* There is one such end.
LEMMA EndIs ==
    ASSUME NEW l, NEW n \in Nat, NEW i \in 1 .. n + 1
    PROVE  /\ Ends(l, i, n, End(l, i, n))
           /\ \A e : Ends(l, i, n, e) => End(l, i, n) = e
  <1> DEFINE S == {j \in i .. n : Between(l, j)} \cup {n + 1}
  <1>1. S \in SUBSET Nat /\ S # {}
    OBVIOUS
  <1>2. End(l, i, n) = Min(S)
    BY DEF End
  <1>3. Min(S) \in S /\ \A m \in S : Min(S) <= m
    BY <1>1, MinOf, Zenon
  <1> DEFINE m == Min(S)
  <1> HIDE DEF m
  <1>4. m \in S /\ \A k \in S : m <= k
    BY <1>3 DEF m
  <1>5. Ends(l, i, n, m)
    <2>1. m \in i .. n + 1 /\ (m = n + 1 \/ Between(l, m))
      BY <1>4
    <2>2. ASSUME NEW j \in i .. m - 1 PROVE ~ Between(l, j)
      <3>1. j \in i .. n /\ ~ (m <= j)
        BY <2>1
      <3> QED
        BY <1>4, <3>1
    <2> QED
      BY <2>1, <2>2 DEF Ends
  <1>6. ASSUME NEW e, Ends(l, i, n, e) PROVE m = e
    <2>1. /\ e \in i .. n + 1 /\ (e = n + 1 \/ Between(l, e))
          /\ \A j \in i .. e - 1 : ~ Between(l, j)
      BY <1>6 DEF Ends
    <2>2. e \in S
      BY <2>1
    <2>3. m <= e /\ m \in i .. n + 1 /\ (m = n + 1 \/ Between(l, m))
      BY <1>4, <2>2
    <2>4. ~ (m < e)
      <3> SUFFICES ASSUME m < e PROVE FALSE
        OBVIOUS
      <3>1. m \in i .. e - 1 /\ m # n + 1
        BY <2>1, <2>3
      <3> QED
        BY <2>1, <2>3, <3>1
    <2> QED
      BY <2>1, <2>3, <2>4
  <1> QED
    BY <1>2, <1>5, <1>6 DEF m

\* One more character: a token that has ended stays; another one ends or grows.
LEMMA CutSteps ==
    ASSUME NEW l \in Seq(Lexemes), NEW n \in Nat, n + 1 <= Len(l), NEW i \in 1 .. n
    PROVE  /\ (\E j \in i .. n + 1 : Between(l, j)) => Cut(l, i, n + 1) = Cut(l, i, n)
           /\ ~ (\E j \in i .. n + 1 : Between(l, j)) =>
                Cut(l, i, n + 1) = Append(Cut(l, i, n), l[n + 1])
  <1> DEFINE e == End(l, i, n)
  <1>0. n + 1 \in Nat /\ i \in 1 .. n + 1 /\ i \in 1 .. (n + 1) + 1
    OBVIOUS
  <1>1. Ends(l, i, n, e)
    BY <1>0, EndIs
  <1> HIDE DEF e
  <1>2. /\ e \in i .. n + 1 /\ (e = n + 1 \/ Between(l, e))
        /\ \A j \in i .. e - 1 : ~ Between(l, j)
    BY <1>1 DEF Ends
  <1>3. CASE \E j \in i .. n + 1 : Between(l, j)
    <2>1. Between(l, e)
      <3>1. PICK j \in i .. n + 1 : Between(l, j)
        BY <1>3
      <3>2. CASE e = n + 1
        <4>1. ~ (j \in i .. e - 1)
          BY <1>2, <3>1
        <4>2. j = n + 1
          BY <3>2, <4>1
        <4> QED
          BY <3>1, <3>2, <4>2
      <3> QED
        BY <1>2, <3>2
    <2>2. Ends(l, i, n + 1, e)
      <3>1. e \in i .. (n + 1) + 1
        BY <1>2
      <3> QED
        BY <1>2, <2>1, <3>1 DEF Ends
    <2>3. End(l, i, n + 1) = e
      BY <1>0, <2>2, EndIs
    <2> QED
      BY <1>3, <2>3 DEF Cut, e
  <1>4. CASE ~ (\E j \in i .. n + 1 : Between(l, j))
    <2>1. e = n + 1
      BY <1>2, <1>4
    <2>2. Ends(l, i, n + 1, (n + 1) + 1)
      <3>1. (n + 1) + 1 \in i .. (n + 1) + 1 /\ ((n + 1) + 1) - 1 = n + 1
        OBVIOUS
      <3> QED
        BY <1>4, <3>1 DEF Ends
    <2>3. End(l, i, n + 1) = (n + 1) + 1
      BY <1>0, <2>2, EndIs
    <2>4. Cut(l, i, n) = SubSeq(l, i, n) /\ Cut(l, i, n + 1) = SubSeq(l, i, n + 1)
      <3>1. e - 1 = n /\ ((n + 1) + 1) - 1 = n + 1
        BY <2>1
      <3> QED
        BY <2>3, <3>1 DEF Cut, e
    <2>5. SubSeq(l, i, n + 1) = Append(SubSeq(l, i, n), l[n + 1])
      OBVIOUS
    <2> QED
      BY <1>4, <2>4, <2>5
  <1> QED
    BY <1>3, <1>4

-------------------------------------------------------------------------------
(* The loop's invariant                                                    *)

\* st has the beginnings of the tokens in the first n characters, in their order.
Starting(l, n, st) ==
    /\ st \in Seq(Nat)
    /\ \A k \in 1 .. Len(st) : st[k] \in TokenStarts(l) /\ st[k] <= n
    /\ \A i \in TokenStarts(l) : i <= n => \E k \in 1 .. Len(st) : st[k] = i
    /\ \A j, k \in 1 .. Len(st) : j < k => st[j] < st[k]

\* argv has the tokens that begin there.
Covers(l, n, st, argv) ==
    /\ Starting(l, n, st) /\ Len(st) = Len(argv)
    /\ \A k \in 1 .. Len(st) : argv[k].text = Cut(l, st[k], n)

Arg == [text : Seq(Lexemes), gap : Nat]
Scanning == [argv : Seq(Arg), gap : Nat, fresh : BOOLEAN, quoted : BOOLEAN, err : {0, -1}]

\* After n characters: too many tokens, or all so far; a token that goes on is the
\* last one.
Scanned(l, n, s) ==
    /\ s \in Scanning
    /\ s.err = -1 => \E st : Starting(l, n, st) /\ Len(st) > MaxArgc
    /\ s.err = 0 =>
         /\ s.quoted = Quoted(l, n + 1)
         /\ s.fresh = (n = 0 \/ Between(l, n))
         /\ Len(s.argv) <= MaxArgc
         /\ \E st : /\ Covers(l, n, st, s.argv)
                    /\ ~ s.fresh => /\ Len(st) > 0
                                    /\ \A j \in st[Len(st)] .. n : ~ Between(l, j)

\* Tokens begin in the line.
LEMMA StartsIn ==
    ASSUME NEW l \in Seq(Lexemes)
    PROVE  TokenStarts(l) \subseteq 1 .. Len(l)
  BY DEF TokenStarts

\* The next character begins no token.
LEMMA StartsStay ==
    ASSUME NEW l \in Seq(Lexemes), NEW n \in Nat, NEW st, Starting(l, n, st),
           n + 1 \notin TokenStarts(l)
    PROVE  Starting(l, n + 1, st)
  <1>1. ASSUME NEW k \in 1 .. Len(st) PROVE st[k] \in TokenStarts(l) /\ st[k] <= n + 1
    <2>1. st[k] \in TokenStarts(l) /\ st[k] <= n /\ st[k] \in Nat
      BY DEF Starting
    <2> QED
      BY <2>1
  <1>2. ASSUME NEW i \in TokenStarts(l), i <= n + 1
        PROVE  \E k \in 1 .. Len(st) : st[k] = i
    <2>1. i \in Nat /\ i # n + 1
      BY StartsIn
    <2>2. i <= n
      BY <1>2, <2>1
    <2> QED
      BY <2>2 DEF Starting
  <1> QED
    BY <1>1, <1>2 DEF Starting

\* The next character begins a token.
LEMMA StartsGrow ==
    ASSUME NEW l \in Seq(Lexemes), NEW n \in Nat, NEW st, Starting(l, n, st),
           n + 1 \in TokenStarts(l)
    PROVE  /\ Starting(l, n + 1, Append(st, n + 1)) /\ Len(Append(st, n + 1)) = Len(st) + 1
           /\ Append(st, n + 1)[Len(st) + 1] = n + 1
           /\ \A k \in 1 .. Len(st) : Append(st, n + 1)[k] = st[k]
  <1> DEFINE t == Append(st, n + 1)
             m == Len(st)
  <1>0. st \in Seq(Nat) /\ n + 1 \in Nat
    BY DEF Starting
  <1>1. /\ t \in Seq(Nat) /\ Len(t) = m + 1 /\ t[m + 1] = n + 1 /\ m \in Nat
        /\ \A k \in 1 .. m : t[k] = st[k]
    BY <1>0, AppendProperties
  <1> HIDE DEF t
  <1>2. ASSUME NEW k \in 1 .. m PROVE st[k] \in TokenStarts(l) /\ st[k] <= n /\ st[k] \in Nat
    BY <1>0 DEF Starting
  <1>3. ASSUME NEW k \in 1 .. m + 1 PROVE t[k] \in TokenStarts(l) /\ t[k] <= n + 1
    <2>1. CASE k = m + 1
      BY <1>1, <2>1
    <2>2. CASE k # m + 1
      <3>1. k \in 1 .. m
        BY <1>1, <2>2
      <3>2. t[k] = st[k] /\ st[k] \in TokenStarts(l) /\ st[k] <= n /\ st[k] \in Nat
        BY <1>1, <1>2, <3>1
      <3> QED
        BY <3>2
    <2> QED
      BY <2>1, <2>2
  <1>4. ASSUME NEW i \in TokenStarts(l), i <= n + 1
        PROVE  \E k \in 1 .. m + 1 : t[k] = i
    <2>1. CASE i = n + 1
      <3>1. m + 1 \in 1 .. m + 1
        BY <1>1
      <3> QED
        BY <1>1, <2>1, <3>1
    <2>2. CASE i # n + 1
      <3>1. i \in Nat
        BY StartsIn
      <3>2. i <= n
        BY <1>4, <2>2, <3>1
      <3>3. PICK k \in 1 .. m : st[k] = i
        BY <3>2 DEF Starting
      <3>4. k \in 1 .. m + 1
        BY <1>1
      <3> QED
        BY <1>1, <3>3, <3>4
    <2> QED
      BY <2>1, <2>2
  <1>5. ASSUME NEW j \in 1 .. m + 1, NEW k \in 1 .. m + 1, j < k PROVE t[j] < t[k]
    <2>1. j \in 1 .. m
      BY <1>1, <1>5
    <2>2. t[j] = st[j] /\ st[j] <= n /\ st[j] \in Nat
      BY <1>1, <1>2, <2>1
    <2>3. CASE k = m + 1
      BY <1>1, <2>2, <2>3
    <2>4. CASE k # m + 1
      <3>1. k \in 1 .. m
        BY <1>1, <2>4
      <3> QED
        BY <1>1, <1>5, <2>1, <3>1 DEF Starting
    <2> QED
      BY <2>3, <2>4
  <1>6. Starting(l, n + 1, t)
    BY <1>1, <1>3, <1>4, <1>5 DEF Starting
  <1> QED
    BY <1>1, <1>6 DEF t

\* All tokens but the last have ended.
LEMMA EarlierEnded ==
    ASSUME NEW l \in Seq(Lexemes), NEW n \in Nat, NEW st, Starting(l, n, st),
           NEW k \in 1 .. Len(st), k # Len(st)
    PROVE  \E j \in st[k] .. n : Between(l, j)
  <1>1. /\ k \in 1 .. Len(st) /\ k + 1 \in 1 .. Len(st) /\ k < k + 1
    BY DEF Starting
  <1> DEFINE i == st[k + 1]
  <1>2. /\ st[k] \in Nat /\ i \in Nat /\ st[k] < i /\ i <= n /\ i \in TokenStarts(l)
        /\ st[k] \in 1 .. Len(l)
    BY <1>1, StartsIn DEF Starting
  <1> HIDE DEF i
  <1>3. CASE l[i] = QT
    BY <1>2, <1>3 DEF Between
  <1>4. CASE l[i] # QT
    <2>1. i # 1
      BY <1>2
    <2>2. Between(l, i - 1)
      BY <1>2, <1>4, <2>1 DEF TokenStarts
    <2>3. i - 1 \in st[k] .. n
      BY <1>2
    <2> QED
      BY <2>2, <2>3
  <1> QED
    BY <1>3, <1>4

\* The next character by what the loop knows: whether it is quoted, separates, begins
\* a token.
LEMMA Kinds ==
    ASSUME NEW l \in Seq(Lexemes), NEW n \in Nat, n + 1 <= Len(l)
    PROVE  /\ Between(l, n + 1) = (l[n + 1] = QT \/ (l[n + 1] = SP /\ ~ Quoted(l, n + 1)))
           /\ Quoted(l, (n + 1) + 1) = IF l[n + 1] = QT THEN ~ Quoted(l, n + 1)
                                       ELSE Quoted(l, n + 1)
           /\ Quoted(l, n + 1) \in BOOLEAN /\ Between(l, n + 1) \in BOOLEAN
           /\ n + 1 \in TokenStarts(l) <=>
                /\ n = 0 \/ Between(l, n)
                /\ ~ Between(l, n + 1) \/ (l[n + 1] = QT /\ Quoted(l, n + 1))
  <1>0. n + 1 \in 1 .. Len(l) /\ n + 1 \in DOMAIN l /\ (n + 1) - 1 = n /\ (n + 1 = 1 <=> n = 0)
    OBVIOUS
  <1>1. Between(l, n + 1) = (l[n + 1] = QT \/ (l[n + 1] = SP /\ ~ Quoted(l, n + 1)))
    BY DEF Between
  <1>2. Quoted(l, (n + 1) + 1) = IF l[n + 1] = QT THEN ~ Quoted(l, n + 1)
                                 ELSE Quoted(l, n + 1)
    BY <1>0, QuotedSteps
  <1>3. Quoted(l, n + 1) \in BOOLEAN /\ Between(l, n + 1) \in BOOLEAN
    BY DEF Quoted, Between
  <1>4. n + 1 \in TokenStarts(l) <=>
           \/ ~ Between(l, n + 1) /\ (n = 0 \/ Between(l, n))
           \/ l[n + 1] = QT /\ Quoted(l, n + 1) /\ l[n] = QT
    BY <1>0 DEF TokenStarts
  <1>5. Quoted(l, n + 1) => (l[n] = QT <=> (n = 0 \/ Between(l, n)))
    <2>1. CASE n = 0
      <3>1. n + 1 = 1
        BY <2>1
      <3>2. Quoted(l, n + 1) = FALSE
        BY <3>1, QuotedSteps
      <3> QED
        BY <3>2
    <2>2. CASE n # 0
      <3>1. n \in 1 .. Len(l)
        BY <1>0, <2>2
      <3>2. Quoted(l, n + 1) = IF l[n] = QT THEN ~ Quoted(l, n) ELSE Quoted(l, n)
        BY <3>1, QuotedSteps
      <3>3. Between(l, n) <=> (l[n] = QT \/ (l[n] = SP /\ ~ Quoted(l, n)))
        BY DEF Between
      <3>4. Quoted(l, n) \in BOOLEAN
        BY DEF Quoted
      <3>5. ~ (Quoted(l, n + 1) /\ l[n] = SP /\ ~ Quoted(l, n))
        BY <3>2, SpAndQt, Zenon
      <3> QED
        BY <2>2, <3>3, <3>5, Zenon
    <2> QED
      BY <2>1, <2>2
  <1>6. n + 1 \in TokenStarts(l) <=>
          /\ n = 0 \/ Between(l, n)
          /\ ~ Between(l, n + 1) \/ (l[n + 1] = QT /\ Quoted(l, n + 1))
    BY <1>4, <1>5, Zenon
  <1> QED
    BY <1>1, <1>2, <1>3, <1>6, Zenon

\* argv after a separator, which leaves it;
LEMMA CoversStay ==
    ASSUME NEW l \in Seq(Lexemes), NEW n \in Nat, n + 1 <= Len(l), NEW st, NEW argv,
           Covers(l, n, st, argv), n + 1 \notin TokenStarts(l), Between(l, n + 1)
    PROVE  Covers(l, n + 1, st, argv)
  <1>1. Starting(l, n + 1, st) /\ Len(st) = Len(argv)
    BY StartsStay DEF Covers
  <1>2. ASSUME NEW k \in 1 .. Len(st) PROVE argv[k].text = Cut(l, st[k], n + 1)
    <2>1. st[k] \in 1 .. n
      <3>1. st[k] \in TokenStarts(l) /\ st[k] <= n
        BY DEF Covers, Starting
      <3> QED
        BY <3>1, StartsIn
    <2>2. n + 1 \in st[k] .. n + 1
      BY <2>1
    <2>3. Cut(l, st[k], n + 1) = Cut(l, st[k], n)
      BY <2>1, <2>2, CutSteps
    <2> QED
      BY <2>3 DEF Covers
  <1> QED
    BY <1>1, <1>2 DEF Covers

\* after the first character of a token, or "", which adds one;
LEMMA CoversGrow ==
    ASSUME NEW l \in Seq(Lexemes), NEW n \in Nat, n + 1 <= Len(l), NEW st,
           NEW argv \in Seq(Arg), Covers(l, n, st, argv), n + 1 \in TokenStarts(l),
           NEW a \in Arg, a.text = Cut(l, n + 1, n + 1)
    PROVE  Covers(l, n + 1, Append(st, n + 1), Append(argv, a))
  <1> DEFINE t == Append(st, n + 1)
             m == Len(st)
             w == Append(argv, a)
  <1>0. Starting(l, n, st) /\ m = Len(argv) /\ m \in Nat
    BY DEF Covers, Starting
  <1>1. /\ Starting(l, n + 1, t) /\ Len(t) = m + 1 /\ t[m + 1] = n + 1
        /\ \A k \in 1 .. m : t[k] = st[k]
    BY <1>0, StartsGrow
  <1>2. Len(w) = m + 1 /\ w[m + 1] = a /\ \A k \in 1 .. m : w[k] = argv[k]
    BY <1>0, AppendProperties
  <1> HIDE DEF t, w
  <1>3. ASSUME NEW k \in 1 .. m + 1 PROVE w[k].text = Cut(l, t[k], n + 1)
    <2>1. CASE k = m + 1
      BY <1>1, <1>2, <2>1
    <2>2. CASE k # m + 1
      <3>1. k \in 1 .. m
        BY <1>0, <2>2
      <3>2. st[k] \in 1 .. n
        <4>1. st[k] \in TokenStarts(l) /\ st[k] <= n
          BY <1>0, <3>1 DEF Starting
        <4> QED
          BY <4>1, StartsIn
      <3>3. Between(l, n) \/ Between(l, n + 1)
        <4>1. n # 0
          BY <3>2
        <4> QED
          BY <4>1, Kinds
      <3>4. n \in st[k] .. n + 1 /\ n + 1 \in st[k] .. n + 1
        BY <3>2
      <3>5. Cut(l, st[k], n + 1) = Cut(l, st[k], n)
        BY <3>2, <3>3, <3>4, CutSteps
      <3> QED
        BY <1>1, <1>2, <3>1, <3>5 DEF Covers
    <2> QED
      BY <2>1, <2>2
  <1>4. Covers(l, n + 1, t, w)
    BY <1>1, <1>2, <1>3 DEF Covers
  <1> QED
    BY <1>4 DEF t, w

\* and after another character of a token, which extends the last one.
LEMMA CoversExtend ==
    ASSUME NEW l \in Seq(Lexemes), NEW n \in Nat, n + 1 <= Len(l), NEW st,
           NEW argv \in Seq(Arg), Covers(l, n, st, argv), n + 1 \notin TokenStarts(l),
           Len(st) > 0, \A j \in st[Len(st)] .. n : ~ Between(l, j), ~ Between(l, n + 1)
    PROVE  /\ Covers(l, n + 1, st, [argv EXCEPT ![Len(argv)].text = Append(@, l[n + 1])])
           /\ \A j \in st[Len(st)] .. n + 1 : ~ Between(l, j)
  <1> DEFINE m == Len(st)
             w == [argv EXCEPT ![Len(argv)].text = Append(@, l[n + 1])]
  <1>0. Starting(l, n + 1, st) /\ m = Len(argv) /\ m \in Nat /\ Starting(l, n, st) /\ m > 0
    <2>1. Starting(l, n, st) /\ m = Len(argv)
      BY Zenon DEF Covers
    <2>2. Starting(l, n + 1, st)
      BY <2>1, StartsStay, Zenon
    <2>3. m \in Nat
      BY <2>1 DEF Starting
    <2> QED
      BY <2>1, <2>2, <2>3
  <1>1. /\ Len(w) = m /\ w[m].text = Append(argv[m].text, l[n + 1])
        /\ \A k \in 1 .. m : k # m => w[k] = argv[k]
    BY <1>0 DEF Arg
  <1> HIDE DEF w
  <1>2. ASSUME NEW k \in 1 .. m PROVE st[k] \in 1 .. n
    <2>1. st[k] \in TokenStarts(l) /\ st[k] <= n
      BY <1>0 DEF Starting
    <2> QED
      BY <2>1, StartsIn
  <1>3. \A j \in st[m] .. n + 1 : ~ Between(l, j)
    <2>1. st[m] \in 1 .. n
      BY <1>0, <1>2
    <2> QED
      BY <2>1
  <1>4. ASSUME NEW k \in 1 .. m PROVE w[k].text = Cut(l, st[k], n + 1)
    <2>1. CASE k = m
      <3>1. Cut(l, st[m], n + 1) = Append(Cut(l, st[m], n), l[n + 1])
        BY <1>2, <1>3, <2>1, CutSteps
      <3> QED
        BY <1>1, <2>1, <3>1 DEF Covers
    <2>2. CASE k # m
      <3>1. PICK j \in st[k] .. n : Between(l, j)
        BY <1>0, <2>2, EarlierEnded
      <3>2. j \in st[k] .. n + 1
        BY <1>2
      <3>3. Cut(l, st[k], n + 1) = Cut(l, st[k], n)
        BY <1>2, <3>1, <3>2, CutSteps
      <3> QED
        BY <1>1, <2>2, <3>3 DEF Covers
    <2> QED
      BY <2>1, <2>2
  <1>5. Covers(l, n + 1, st, w)
    BY <1>0, <1>1, <1>4 DEF Covers
  <1> QED
    BY <1>3, <1>5 DEF w

\* With a token more than argv[] has room for the error is the right one.
LEMMA TooMany ==
    ASSUME NEW l \in Seq(Lexemes), NEW n \in Nat, NEW st, Starting(l, n, st),
           n + 1 \in TokenStarts(l), Len(st) >= MaxArgc, NEW s \in Scanning, s.err = -1
    PROVE  Scanned(l, n + 1, s)
  <1> DEFINE t == Append(st, n + 1)
  <1>1. Starting(l, n + 1, t) /\ Len(t) = Len(st) + 1
    BY StartsGrow
  <1>2. Len(t) > MaxArgc
    <2>1. Len(st) \in Nat
      BY DEF Starting
    <2> QED
      BY <1>1, <2>1, SpAndQt
  <1> HIDE DEF t
  <1>3. ~ (s.err = 0)
    OBVIOUS
  <1> QED
    BY <1>1, <1>2, <1>3, Zenon DEF Scanned

\* The other way to be a good state is to have no error.
LEMMA AllWell ==
    ASSUME NEW l \in Seq(Lexemes), NEW n \in Nat, NEW s \in Scanning, s.err = 0,
           s.quoted = Quoted(l, n + 1), s.fresh = (n = 0 \/ Between(l, n)),
           Len(s.argv) <= MaxArgc, NEW st, Covers(l, n, st, s.argv),
           ~ s.fresh => Len(st) > 0 /\ \A j \in st[Len(st)] .. n : ~ Between(l, j)
    PROVE  Scanned(l, n, s)
  <1>1. ~ (s.err = -1)
    OBVIOUS
  <1> QED
    BY <1>1, Zenon DEF Scanned

\* What a turn of the loop makes of a state.
LEMMA SeparatorMakes ==
    ASSUME NEW s \in Scanning, NEW q \in BOOLEAN
    PROVE  /\ Separator(s, q) \in Scanning
           /\ Separator(s, q).argv = s.argv /\ Separator(s, q).fresh = TRUE
           /\ Separator(s, q).quoted = q /\ Separator(s, q).err = s.err
  <1> DEFINE g == s.gap + 1
             w == [argv |-> s.argv, gap |-> g, fresh |-> TRUE, quoted |-> q, err |-> s.err]
  <1>1. PICK r : r = Separator(s, q)
    OBVIOUS
  <1>2. r = w
    BY <1>1 DEF Separator, Scanning
  <1>3. g \in Nat /\ s.argv \in Seq(Arg) /\ s.err \in {0, -1}
    BY DEF Scanning
  <1> HIDE DEF g
  <1>4. w \in Scanning
    BY <1>3 DEF Scanning
  <1> QED
    BY <1>1, <1>2, <1>4

\* A token too many only sets the error.
LEMMA FailureMakes ==
    ASSUME NEW s \in Scanning
    PROVE  [s EXCEPT !.err = -1] \in Scanning /\ [s EXCEPT !.err = -1].err = -1
  BY DEF Scanning

\* A new token.
LEMMA AppendMakes ==
    ASSUME NEW s \in Scanning, NEW text \in Seq(Lexemes)
    PROVE  LET a == [text |-> text, gap |-> s.gap]
               w == Append(s.argv, a)
               r == [s EXCEPT !.argv = Append(@, a), !.fresh = FALSE, !.gap = 0]
               e == [s EXCEPT !.argv = Append(@, a), !.gap = 0]
           IN  /\ a \in Arg /\ a.text = text /\ w \in Seq(Arg) /\ Len(w) = Len(s.argv) + 1
               /\ r \in Scanning /\ r.argv = w /\ r.fresh = FALSE
               /\ r.quoted = s.quoted /\ r.err = s.err
               /\ e \in Scanning /\ e.argv = w /\ e.err = s.err
  <1> DEFINE a == [text |-> text, gap |-> s.gap]
             w == Append(s.argv, a)
             rr == [argv |-> w, gap |-> 0, fresh |-> FALSE, quoted |-> s.quoted, err |-> s.err]
             ee == [argv |-> w, gap |-> 0, fresh |-> s.fresh, quoted |-> s.quoted,
                    err |-> s.err]
  <1>1. /\ s.gap \in Nat /\ s.argv \in Seq(Arg) /\ s.err \in {0, -1} /\ s.quoted \in BOOLEAN
        /\ s.fresh \in BOOLEAN
    BY DEF Scanning
  <1>2. a \in Arg /\ a.text = text
    BY <1>1 DEF Arg
  <1> HIDE DEF a
  <1>3. w \in Seq(Arg) /\ Len(w) = Len(s.argv) + 1
    BY <1>1, <1>2, AppendProperties
  <1>4. PICK r : r = [s EXCEPT !.argv = Append(@, a), !.fresh = FALSE, !.gap = 0]
    OBVIOUS
  <1>5. PICK e : e = [s EXCEPT !.argv = Append(@, a), !.gap = 0]
    OBVIOUS
  <1>6. r = [s EXCEPT !.argv = w, !.fresh = FALSE, !.gap = 0] /\ e = [s EXCEPT !.argv = w, !.gap = 0]
    BY <1>4, <1>5, Zenon
  <1> HIDE DEF w
  <1>7. r = rr
    BY <1>6 DEF Scanning
  <1>8. e = ee
    BY <1>6 DEF Scanning
  <1>9. rr \in Scanning /\ ee \in Scanning
    BY <1>1, <1>3 DEF Scanning
  <1>10. /\ r \in Scanning /\ r.argv = w /\ r.fresh = FALSE
         /\ r.quoted = s.quoted /\ r.err = s.err
         /\ e \in Scanning /\ e.argv = w /\ e.err = s.err
    BY <1>7, <1>8, <1>9
  <1> QED
    BY <1>2, <1>3, <1>4, <1>5, <1>10, Zenon DEF a, w

\* The last token grows.
LEMMA ExtendMakes ==
    ASSUME NEW s \in Scanning, NEW x \in Lexemes, Len(s.argv) > 0
    PROVE  LET w == [s.argv EXCEPT ![Len(s.argv)].text = Append(@, x)]
               r == [s EXCEPT !.argv[Len(s.argv)].text = Append(@, x)]
           IN  /\ w \in Seq(Arg) /\ Len(w) = Len(s.argv)
               /\ r \in Scanning /\ r.argv = w /\ r.fresh = s.fresh
               /\ r.quoted = s.quoted /\ r.err = s.err
  <1> DEFINE v == s.argv
             w == [v EXCEPT ![Len(v)].text = Append(@, x)]
             rr == [argv |-> w, gap |-> s.gap, fresh |-> s.fresh, quoted |-> s.quoted,
                    err |-> s.err]
  <1>1. /\ s.gap \in Nat /\ v \in Seq(Arg) /\ s.err \in {0, -1} /\ s.quoted \in BOOLEAN
        /\ s.fresh \in BOOLEAN /\ Len(v) > 0
    BY DEF Scanning
  <1>2. w \in Seq(Arg) /\ Len(w) = Len(v)
    <2> HIDE DEF v
    <2>1. Len(v) \in 1 .. Len(v) /\ v[Len(v)] \in Arg
      BY <1>1
    <2> DEFINE z == v[Len(v)]
               y == [z EXCEPT !.text = Append(@, x)]
    <2>2. y \in Arg
      <3>1. PICK r : r = y
        OBVIOUS
      <3> DEFINE t == Append(z.text, x)
      <3>2. t \in Seq(Lexemes) /\ z.gap \in Nat
        BY <2>1 DEF Arg
      <3>3. r = [text |-> t, gap |-> z.gap]
        BY <2>1, <3>1 DEF Arg
      <3> HIDE DEF t
      <3>4. r \in Arg
        BY <3>2, <3>3 DEF Arg
      <3> QED
        BY <3>1, <3>4
    <2>3. w = [v EXCEPT ![Len(v)] = y]
      OBVIOUS
    <2> HIDE DEF y
    <2>4. [v EXCEPT ![Len(v)] = y] \in Seq(Arg) /\ Len([v EXCEPT ![Len(v)] = y]) = Len(v)
      BY <1>1, <2>1, <2>2, ExceptSeq
    <2> QED
      BY <2>3, <2>4
  <1>3. PICK r : r = [s EXCEPT !.argv[Len(v)].text = Append(@, x)]
    OBVIOUS
  <1>4. r = [s EXCEPT !.argv = w]
    BY <1>3
  <1> HIDE DEF w
  <1>5. r = rr
    BY <1>4 DEF Scanning
  <1>6. rr \in Scanning
    BY <1>1, <1>2 DEF Scanning
  <1>7. r \in Scanning /\ r.argv = w /\ r.fresh = s.fresh /\ r.quoted = s.quoted /\ r.err = s.err
    BY <1>5, <1>6
  <1> QED
    BY <1>2, <1>3, <1>7, Zenon DEF w

\* The text of the token that begins with the next character.
LEMMA NewCut ==
    ASSUME NEW l \in Seq(Lexemes), NEW n \in Nat, n + 1 <= Len(l)
    PROVE  Cut(l, n + 1, n + 1) = IF Between(l, n + 1) THEN <<>> ELSE <<l[n + 1]>>
  <1>0. n + 1 \in Nat /\ n + 1 \in 1 .. (n + 1) + 1 /\ l[n + 1] \in Lexemes
    OBVIOUS
  <1>1. CASE Between(l, n + 1)
    <2>1. Ends(l, n + 1, n + 1, n + 1)
      BY <1>1 DEF Ends
    <2>2. End(l, n + 1, n + 1) = n + 1
      BY <1>0, <2>1, EndIs
    <2>3. Cut(l, n + 1, n + 1) = <<>>
      BY <2>2 DEF Cut
    <2> QED
      BY <1>1, <2>3
  <1>2. CASE ~ Between(l, n + 1)
    <2>1. Ends(l, n + 1, n + 1, n + 2)
      BY <1>2 DEF Ends
    <2>2. End(l, n + 1, n + 1) = n + 2
      BY <1>0, <2>1, EndIs
    <2>3. Cut(l, n + 1, n + 1) = SubSeq(l, n + 1, n + 1)
      BY <2>2 DEF Cut
    <2> DEFINE c == SubSeq(l, n + 1, n + 1)
    <2>4. c \in Seq(Lexemes) /\ Len(c) = 1 /\ c[1] = l[n + 1]
      BY <1>0, SubSeqProperties
    <2>5. c = <<l[n + 1]>>
      <3> HIDE DEF c
      <3> QED
        BY <2>4
    <2> QED
      BY <1>2, <2>3, <2>5
  <1> QED
    BY <1>1, <1>2

\* One turn of the loop.
LEMMA StepScans ==
    ASSUME NEW l \in Seq(Lexemes), NEW n \in Nat, n + 1 <= Len(l), NEW s, Scanned(l, n, s)
    PROVE  Scanned(l, n + 1, Step(s, l[n + 1]))
  <1> DEFINE x == l[n + 1]
             starts == n + 1 \in TokenStarts(l)
  <1>0. x \in Lexemes /\ s \in Scanning /\ n + 1 \in Nat /\ n + 1 # 0 /\ starts \in BOOLEAN
    BY DEF Scanned
  <1>1. CASE s.err # 0
    <2>1. s.err = -1 /\ Step(s, x) = s
      BY <1>0, <1>1 DEF Scanning, Step
    <2>2. PICK st : Starting(l, n, st) /\ Len(st) > MaxArgc
      BY <2>1 DEF Scanned
    <2>3. CASE starts
      <3>1. Len(st) >= MaxArgc
        BY <2>2, SpAndQt DEF Starting
      <3> QED
        BY <1>0, <2>1, <2>2, <2>3, <3>1, TooMany
    <2>4. CASE ~ starts
      <3>1. Starting(l, n + 1, st)
        BY <2>2, <2>4, StartsStay
      <3>2. Scanned(l, n + 1, s)
        BY <1>0, <1>1, <2>2, <3>1, Zenon DEF Scanned
      <3> QED
        BY <2>1, <3>2
    <2> QED
      BY <2>3, <2>4
  <1>2. CASE s.err = 0
    <2>1. /\ s.quoted = Quoted(l, n + 1) /\ s.fresh = (n = 0 \/ Between(l, n))
          /\ Len(s.argv) <= MaxArgc
      BY <1>2 DEF Scanned
    <2>2. PICK st : /\ Covers(l, n, st, s.argv)
                    /\ ~ s.fresh => /\ Len(st) > 0
                                    /\ \A j \in st[Len(st)] .. n : ~ Between(l, j)
      BY <1>2 DEF Scanned
    <2>3. /\ Between(l, n + 1) = (x = QT \/ (x = SP /\ ~ s.quoted))
          /\ Quoted(l, (n + 1) + 1) = IF x = QT THEN ~ s.quoted ELSE s.quoted
          /\ starts <=> s.fresh /\ (~ Between(l, n + 1) \/ (x = QT /\ s.quoted))
          /\ Between(l, n + 1) \in BOOLEAN
      BY <2>1, Kinds
    <2>4. /\ s.argv \in Seq(Arg) /\ s.gap \in Nat /\ s.gap + 1 \in Nat /\ s.fresh \in BOOLEAN
          /\ s.quoted \in BOOLEAN
      BY <1>0 DEF Scanning
    <2>5. Len(s.argv) \in Nat /\ Len(st) = Len(s.argv) /\ Starting(l, n, st)
      BY <2>2, <2>4 DEF Covers
    <2> HIDE DEF x, starts
    \* A separator that is no token.
    <2>6. ASSUME NEW q \in BOOLEAN, Between(l, n + 1), ~ starts, q = Quoted(l, (n + 1) + 1)
          PROVE  Scanned(l, n + 1, Separator(s, q))
      <3> DEFINE r == Separator(s, q)
      <3>1. /\ r \in Scanning /\ r.argv = s.argv /\ r.fresh = TRUE /\ r.quoted = q
            /\ r.err = 0
        BY <1>0, <1>2, SeparatorMakes
      <3> HIDE DEF r
      <3>2. Covers(l, n + 1, st, s.argv)
        BY <2>2, <2>6, CoversStay DEF starts
      <3>3. TRUE = (n + 1 = 0 \/ Between(l, n + 1))
        BY <1>0, <2>3, <2>6, Zenon
      <3>4. Scanned(l, n + 1, r)
        BY <1>0, <2>1, <2>6, <3>1, <3>2, <3>3, AllWell, Zenon
      <3> QED
        BY <3>4 DEF r
    <2>7. CASE x = SP /\ ~ s.quoted
      <3>1. Step(s, x) = Separator(s, FALSE)
        BY <1>2, <2>7, SpAndQt DEF Step
      <3>2. Between(l, n + 1) /\ ~ starts /\ FALSE = Quoted(l, (n + 1) + 1)
        BY <2>3, <2>4, <2>7, SpAndQt
      <3> QED
        BY <2>6, <3>1, <3>2 DEF x
    <2>8. CASE x = QT /\ ~ s.quoted
      <3>1. Step(s, x) = Separator(s, TRUE)
        BY <1>2, <2>8, SpAndQt DEF Step
      <3>2. Between(l, n + 1) /\ ~ starts /\ TRUE = Quoted(l, (n + 1) + 1)
        BY <2>3, <2>4, <2>8, SpAndQt
      <3> QED
        BY <2>6, <3>1, <3>2 DEF x
    <2>9. CASE x = QT /\ s.quoted
      <3>1. Step(s, x) = Separator(Empty(s), FALSE)
        BY <1>2, <2>9, SpAndQt DEF Step
      <3>2. /\ Between(l, n + 1) /\ FALSE = Quoted(l, (n + 1) + 1) /\ (starts <=> s.fresh)
            /\ TRUE = (n + 1 = 0 \/ Between(l, n + 1))
        BY <2>3, <2>4, <2>9
      <3>3. CASE ~ s.fresh
        <4>1. Empty(s) = s
          BY <3>3 DEF Empty
        <4> QED
          BY <2>6, <3>1, <3>2, <3>3, <4>1 DEF x
      <3>4. CASE s.fresh /\ Len(s.argv) >= MaxArgc
        <4> DEFINE e == [s EXCEPT !.err = -1]
        <4>1. e \in Scanning /\ e.err = -1 /\ Empty(s) = e
          BY <1>0, <3>4, FailureMakes DEF Empty
        <4> HIDE DEF e
        <4>2. Separator(e, FALSE) \in Scanning /\ Separator(e, FALSE).err = -1
          BY <4>1, SeparatorMakes
        <4>3. Scanned(l, n + 1, Separator(e, FALSE))
          BY <2>5, <3>2, <3>4, <4>2, TooMany DEF starts
        <4> QED
          BY <3>1, <4>1, <4>3 DEF x
      <3>5. CASE s.fresh /\ ~ (Len(s.argv) >= MaxArgc)
        <4> DEFINE a == [text |-> <<>>, gap |-> s.gap]
                   w == Append(s.argv, a)
                   e == Empty(s)
                   r == Separator(e, FALSE)
        <4>0. <<>> \in Seq(Lexemes)
          OBVIOUS
        <4>1. /\ a \in Arg /\ a.text = <<>> /\ w \in Seq(Arg) /\ Len(w) = Len(s.argv) + 1
              /\ e \in Scanning /\ e.argv = w /\ e.err = 0
          BY <1>0, <1>2, <3>5, <4>0, AppendMakes DEF Empty
        <4>2. a.text = Cut(l, n + 1, n + 1)
          BY <3>2, <4>1, NewCut
        <4> HIDE DEF a
        <4>3. Covers(l, n + 1, Append(st, n + 1), w)
          BY <2>2, <2>4, <3>2, <3>5, <4>1, <4>2, CoversGrow DEF starts
        <4>4. Len(w) <= MaxArgc
          BY <2>5, <3>5, <4>1, SpAndQt
        <4> HIDE DEF w, e
        <4>5. /\ r \in Scanning /\ r.argv = w /\ r.fresh = TRUE /\ r.quoted = FALSE
              /\ r.err = 0
          BY <4>1, SeparatorMakes
        <4> HIDE DEF r
        <4>6. Scanned(l, n + 1, r)
          BY <1>0, <3>2, <4>3, <4>4, <4>5, AllWell, Zenon
        <4> QED
          BY <3>1, <4>6 DEF x, r, e
      <3> QED
        BY <2>4, <3>3, <3>4, <3>5
    <2>10. CASE ~ (x = SP /\ ~ s.quoted) /\ x # QT
      <3>1. Step(s, x) = Visible(s, x)
        BY <1>2, <2>10 DEF Step
      <3>2. /\ ~ Between(l, n + 1) /\ s.quoted = Quoted(l, (n + 1) + 1)
            /\ (starts <=> s.fresh) /\ FALSE = (n + 1 = 0 \/ Between(l, n + 1))
        BY <1>0, <2>3, <2>4, <2>10
      <3>3. CASE ~ s.fresh
        <4> DEFINE w == [s.argv EXCEPT ![Len(s.argv)].text = Append(@, x)]
                   r == [s EXCEPT !.argv[Len(s.argv)].text = Append(@, x)]
        <4>1. Step(s, x) = r
          BY <3>1, <3>3 DEF Visible
        <4>2. Covers(l, n + 1, st, w) /\ \A j \in st[Len(st)] .. n + 1 : ~ Between(l, j)
          BY <2>2, <2>4, <3>2, <3>3, CoversExtend DEF starts, x
        <4>3. Len(s.argv) > 0 /\ Len(st) > 0 /\ s.fresh = FALSE
          BY <2>2, <2>4, <2>5, <3>3
        <4>4. /\ Len(w) = Len(s.argv) /\ r \in Scanning /\ r.argv = w
              /\ r.fresh = FALSE /\ r.quoted = s.quoted /\ r.err = 0
          BY <1>0, <1>2, <4>3, ExtendMakes
        <4> HIDE DEF w, r
        <4>5. Scanned(l, n + 1, r)
          BY <1>0, <2>1, <3>2, <4>2, <4>3, <4>4, AllWell, Zenon
        <4> QED
          BY <4>1, <4>5 DEF x
      <3>4. CASE s.fresh /\ Len(s.argv) >= MaxArgc
        <4> DEFINE r == [s EXCEPT !.err = -1]
        <4>1. r \in Scanning /\ r.err = -1 /\ Visible(s, x) = r
          BY <1>0, <3>4, FailureMakes DEF Visible
        <4> HIDE DEF r
        <4>2. Scanned(l, n + 1, r)
          BY <2>5, <3>2, <3>4, <4>1, TooMany DEF starts
        <4> QED
          BY <3>1, <4>1, <4>2 DEF x
      <3>5. CASE s.fresh /\ ~ (Len(s.argv) >= MaxArgc)
        <4> DEFINE a == [text |-> <<x>>, gap |-> s.gap]
                   w == Append(s.argv, a)
                   t == Append(st, n + 1)
                   r == Visible(s, x)
        <4>0. <<x>> \in Seq(Lexemes)
          BY <1>0
        <4>1. /\ a \in Arg /\ a.text = <<x>> /\ w \in Seq(Arg) /\ Len(w) = Len(s.argv) + 1
              /\ r \in Scanning /\ r.argv = w /\ r.fresh = FALSE /\ r.quoted = s.quoted
              /\ r.err = 0
          BY <1>0, <1>2, <3>5, <4>0, AppendMakes DEF Visible
        <4>2. a.text = Cut(l, n + 1, n + 1)
          BY <3>2, <4>1, NewCut DEF x
        <4> HIDE DEF a
        <4>3. Covers(l, n + 1, t, w)
          BY <2>2, <2>4, <3>2, <3>5, <4>1, <4>2, CoversGrow DEF starts
        <4>4. Len(w) <= MaxArgc
          BY <2>5, <3>5, <4>1, SpAndQt
        <4>5. Len(t) = Len(st) + 1 /\ t[Len(st) + 1] = n + 1
          BY <2>5, <3>2, <3>5, StartsGrow DEF starts
        <4> HIDE DEF w, t, r
        <4>6. Len(t) > 0 /\ \A j \in t[Len(t)] .. n + 1 : ~ Between(l, j)
          BY <2>5, <3>2, <4>5
        <4>7. Scanned(l, n + 1, r)
          BY <1>0, <3>2, <4>1, <4>3, <4>4, <4>6, AllWell, Zenon
        <4> QED
          BY <3>1, <4>7 DEF x, r
      <3> QED
        BY <2>4, <3>3, <3>4, <3>5
    <2> QED
      BY <2>4, <2>7, <2>8, <2>9, <2>10
  <1> QED
    BY <1>1, <1>2


\* The whole loop.
LEMMA LoopScans ==
    ASSUME NEW l \in Seq(Lexemes)
    PROVE  Scanned(l, Len(l), Loop(l)[Len(l)])
  <1> DEFINE N == Len(l)
             S == Loop(l)
             Bad == {n \in 0 .. N : ~ Scanned(l, n, S[n])}
  <1>0. N \in Nat
    OBVIOUS
  <1>1. S[0] = Start /\ \A n \in 1 .. N : S[n] = Step(S[n - 1], l[n])
    BY LoopSteps
  <1>2. Scanned(l, 0, Start)
    <2> DEFINE st == <<>>
    <2>1. Start \in Scanning
      BY DEF Start, Scanning
    <2>2. Starting(l, 0, st)
      <3>1. st \in Seq(Nat) /\ Len(st) = 0
        OBVIOUS
      <3>2. ASSUME NEW i \in TokenStarts(l) PROVE ~ (i <= 0)
        BY StartsIn
      <3> HIDE DEF st
      <3> QED
        BY <3>1, <3>2 DEF Starting
    <2>3. /\ Start.argv = <<>> /\ Start.fresh = TRUE /\ Start.quoted = FALSE /\ Start.err = 0
      BY DEF Start
    <2>4. Covers(l, 0, st, Start.argv) /\ Len(Start.argv) <= MaxArgc
      BY <2>2, <2>3, SpAndQt DEF Covers
    <2>5. FALSE = Quoted(l, 0 + 1)
      <3>1. 0 + 1 = 1
        OBVIOUS
      <3> QED
        BY <3>1, QuotedSteps
    <2>6. 0 \in Nat
      OBVIOUS
    <2> HIDE DEF st
    <2>7. TRUE = (0 = 0 \/ Between(l, 0))
      OBVIOUS
    <2> QED
      BY <2>1, <2>3, <2>4, <2>5, <2>6, <2>7, AllWell, Zenon
  <1> HIDE DEF S, N
  <1>3. Bad = {}
    <2> SUFFICES ASSUME Bad # {} PROVE FALSE
      OBVIOUS
    <2>1. PICK n \in Bad : \A m \in Bad : n <= m
      <3>1. Bad \in SUBSET Nat
        BY <1>0
      <3> QED
        BY <3>1, LeastOf, Zenon
    <2>2. n \in 0 .. N /\ ~ Scanned(l, n, S[n])
      BY <2>1
    <2>3. n # 0
      BY <1>1, <1>2, <2>2
    <2> DEFINE m == n - 1
    <2>4. m \in 0 .. N /\ m \in Nat /\ ~ (n <= m) /\ m + 1 = n /\ n \in 1 .. N
      BY <1>0, <2>2, <2>3
    <2> HIDE DEF m
    <2>5. Scanned(l, m, S[m])
      BY <2>1, <2>4
    <2>6. S[n] = Step(S[m], l[m + 1])
      BY <1>1, <2>4 DEF m
    <2>7. Scanned(l, m + 1, Step(S[m], l[m + 1]))
      BY <2>4, <2>5, StepScans DEF N
    <2> QED
      BY <2>2, <2>4, <2>6, <2>7
  <1> QED
    BY <1>0, <1>3 DEF S, N

\* The first k members of a rising sequence are k.
LEMMA Rising ==
    ASSUME NEW st \in Seq(Nat), \A j, k \in 1 .. Len(st) : j < k => st[j] < st[k],
           NEW k \in 0 .. Len(st)
    PROVE  Cardinality({st[i] : i \in 1 .. k}) = k
  <1> DEFINE f == [i \in 1 .. k |-> st[i]]
             T == {st[i] : i \in 1 .. k}
  <1>0. Len(st) \in Nat
    OBVIOUS
  <1>1. f \in [1 .. k -> T]
    OBVIOUS
  <1>2. ASSUME NEW a \in 1 .. k, NEW b \in 1 .. k, f[a] = f[b] PROVE a = b
    <2>1. a \in 1 .. Len(st) /\ b \in 1 .. Len(st) /\ st[a] = st[b]
      BY <1>0, <1>2
    <2>2. st[a] \in Nat /\ st[b] \in Nat
      BY <2>1
    <2> QED
      BY <2>1, <2>2
  <1>3. ASSUME NEW t \in T PROVE \E s \in 1 .. k : f[s] = t
    OBVIOUS
  <1>4. f \in Bijection(1 .. k, T)
    <2> HIDE DEF f, T
    <2> QED
      BY <1>1, <1>2, <1>3, Fun_IsBij, Zenon
  <1>5. IsFiniteSet(1 .. k) /\ Cardinality(1 .. k) = k
    BY <1>0, FS_Interval
  <1>6. ExistsBijection(1 .. k, T)
    BY <1>4, Fun_ExistsBij
  <1> HIDE DEF T
  <1>7. Cardinality(T) = k
    BY <1>5, <1>6, FS_Bijection
  <1> QED
    BY <1>7 DEF T

\* What the loop calls the k-th token is the k-th token of the definition.
LEMMA TokensAre ==
    ASSUME NEW l \in Seq(Lexemes), NEW st, Starting(l, Len(l), st)
    PROVE  /\ Tokens(l) = [k \in 1 .. Len(st) |-> Cut(l, st[k], Len(l))]
           /\ Len(Tokens(l)) = Len(st) /\ Len(st) \in Nat
  <1> DEFINE S == TokenStarts(l)
             N == Len(st)
             Upto(i) == {j \in S : j <= i}
  <1>1. /\ st \in Seq(Nat) /\ N \in Nat
        /\ \A k \in 1 .. N : st[k] \in S
        /\ \A i \in S : \E k \in 1 .. N : st[k] = i
        /\ \A j, k \in 1 .. N : j < k => st[j] < st[k]
    <2>1. S \subseteq 1 .. Len(l)
      BY StartsIn
    <2>2. \A i \in S : i <= Len(l)
      BY <2>1
    <2> QED
      BY <2>2 DEF Starting
  <1> HIDE DEF S
  <1>2. \A k \in 1 .. N : st[k] \in Nat
    BY <1>1
  <1>3. ASSUME NEW k \in 1 .. N PROVE Cardinality(Upto(st[k])) = k
    <2>1. Upto(st[k]) = {st[i] : i \in 1 .. k}
      <3>1. ASSUME NEW j \in S, j <= st[k] PROVE \E i \in 1 .. k : st[i] = j
        <4>1. PICK i \in 1 .. N : st[i] = j
          BY <1>1
        <4>2. ~ (k < i)
          <5>1. st[i] \in Nat /\ st[k] \in Nat
            BY <1>2
          <5> QED
            BY <1>1, <3>1, <4>1, <5>1
        <4>3. i \in 1 .. k
          BY <1>1, <4>2
        <4> QED
          BY <4>1, <4>3
      <3>2. ASSUME NEW i \in 1 .. k PROVE st[i] \in S /\ st[i] <= st[k]
        <4>1. i \in 1 .. N
          BY <1>1
        <4>2. i = k \/ i < k
          BY <1>1
        <4>3. st[i] \in Nat /\ st[k] \in Nat
          BY <1>2, <4>1
        <4> QED
          BY <1>1, <4>1, <4>2, <4>3
      <3> QED
        BY <3>1, <3>2
    <2>2. k \in 0 .. N
      BY <1>1
    <2> HIDE DEF Upto
    <2>3. Cardinality({st[i] : i \in 1 .. k}) = k
      BY <1>1, <2>2, Rising
    <2> QED
      BY <2>1, <2>3
  <1>4. Cardinality(S) = N
    <2>1. S = {st[i] : i \in 1 .. N}
      BY <1>1
    <2>2. N \in 0 .. N
      BY <1>1
    <2>3. Cardinality({st[i] : i \in 1 .. N}) = N
      BY <1>1, <2>2, Rising
    <2> QED
      BY <2>1, <2>3
  <1>5. ASSUME NEW k \in 1 .. N PROVE Nth(S, k) = st[k]
    <2>1. \E i \in S : Cardinality(Upto(i)) = k
      BY <1>1, <1>3
    <2>2. ASSUME NEW i \in S, Cardinality(Upto(i)) = k PROVE i = st[k]
      <3>1. PICK m \in 1 .. N : st[m] = i
        BY <1>1
      <3>2. Cardinality(Upto(st[m])) = m
        BY <1>3
      <3> QED
        BY <2>2, <3>1, <3>2
    <2>3. Nth(S, k) = CHOOSE i \in S : Cardinality(Upto(i)) = k
      BY DEF Nth
    <2> HIDE DEF Upto
    <2> QED
      BY <2>1, <2>2, <2>3
  <1>6. ASSUME NEW i PROVE TokenAt(l, i) = Cut(l, i, Len(l))
    BY DEF TokenAt, Cut, End
  <1>7. Tokens(l) = [k \in 1 .. N |-> Cut(l, st[k], Len(l))]
    <2>1. Tokens(l) = [k \in 1 .. N |-> TokenAt(l, Nth(S, k))]
      BY <1>4 DEF Tokens, S
    <2> QED
      BY <1>5, <1>6, <2>1
  <1>8. Len(Tokens(l)) = N
    <2>1. DOMAIN Tokens(l) = 1 .. N
      BY <1>7
    <2> QED
      BY <1>1, <1>7
  <1> QED
    BY <1>1, <1>7, <1>8

\* create_arg_list() makes the tokens, or fails for a reason.
LEMMA ArgListIs ==
    ASSUME NEW l \in Seq(Lexemes)
    PROVE  LET s == CreateArgList(l)
           IN  \/ /\ s.err = 0 /\ ~ Quoted(l, Len(l) + 1) /\ s.argv \in Seq(Arg)
                  /\ Len(s.argv) = Len(Tokens(l)) /\ Len(s.argv) <= MaxArgc
                  /\ [k \in DOMAIN s.argv |-> s.argv[k].text] = Tokens(l)
               \/ s.err = -1 /\ Len(Tokens(l)) > MaxArgc
               \/ s.err = -2 /\ Quoted(l, Len(l) + 1)
  <1> DEFINE N == Len(l)
             r == Loop(l)[N]
             s == CreateArgList(l)
  <1>0. Scanned(l, N, r)
    BY LoopScans
  <1>1. s = IF r.err = 0 /\ r.quoted THEN [r EXCEPT !.err = -2] ELSE r
    BY DEF CreateArgList
  <1> HIDE DEF r, s
  <1>2. r \in Scanning
    BY <1>0 DEF Scanned
  <1>3. CASE r.err = -1
    <2>1. s = r
      BY <1>1, <1>3
    <2>2. PICK st : Starting(l, N, st) /\ Len(st) > MaxArgc
      BY <1>0, <1>3 DEF Scanned
    <2>3. Len(Tokens(l)) > MaxArgc
      BY <2>2, TokensAre
    <2> QED
      BY <1>3, <2>1, <2>3 DEF s
  <1>4. CASE r.err = 0 /\ r.quoted
    <2>1. s.err = -2
      BY <1>1, <1>2, <1>4 DEF Scanning
    <2>2. Quoted(l, N + 1)
      BY <1>0, <1>4 DEF Scanned
    <2> QED
      BY <2>1, <2>2 DEF s
  <1>5. CASE r.err = 0 /\ ~ r.quoted
    <2>1. s = r
      BY <1>1, <1>5
    <2>2. r.quoted = Quoted(l, N + 1) /\ Len(r.argv) <= MaxArgc /\ r.argv \in Seq(Arg)
      BY <1>0, <1>2, <1>5 DEF Scanned, Scanning
    <2>3. PICK st : Covers(l, N, st, r.argv)
      BY <1>0, <1>5 DEF Scanned
    <2>4. /\ Starting(l, N, st) /\ Len(st) = Len(r.argv)
          /\ \A k \in 1 .. Len(st) : r.argv[k].text = Cut(l, st[k], N)
      BY <2>3 DEF Covers
    <2>5. /\ Tokens(l) = [k \in 1 .. Len(st) |-> Cut(l, st[k], N)]
          /\ Len(Tokens(l)) = Len(st)
      BY <2>4, TokensAre
    <2>6. DOMAIN r.argv = 1 .. Len(st)
      BY <2>2, <2>4
    <2>7. [k \in DOMAIN r.argv |-> r.argv[k].text] = Tokens(l)
      BY <2>4, <2>5, <2>6
    <2> QED
      BY <1>5, <2>1, <2>2, <2>4, <2>5, <2>7 DEF s
  <1> QED
    BY <1>2, <1>3, <1>4, <1>5 DEF Scanning, s


-------------------------------------------------------------------------------
(* The texts of the tokens, and what the checks see of them                *)

Visibles == Verbs \cup Words \cup {SP}

\* No token has a quote in it.
LEMMA TokenTexts ==
    ASSUME NEW l \in Seq(Lexemes)
    PROVE  Len(Tokens(l)) \in Nat /\ Tokens(l) \in Seq(Seq(Visibles))
  <1> DEFINE S == TokenStarts(l)
             N == Len(l)
  <1>1. PICK st : Starting(l, N, st)
    <2>1. PICK r : r = Loop(l)[N]
      OBVIOUS
    <2>2. Scanned(l, N, r)
      BY <2>1, LoopScans
    <2>3. r.err = -1 \/ r.err = 0
      BY <2>2 DEF Scanned, Scanning
    <2> QED
      BY <2>2, <2>3 DEF Scanned, Covers
  <1>2. /\ Tokens(l) = [k \in 1 .. Len(st) |-> Cut(l, st[k], N)]
        /\ Len(Tokens(l)) = Len(st) /\ Len(st) \in Nat
    BY <1>1, TokensAre
  <1>3. ASSUME NEW k \in 1 .. Len(st) PROVE Cut(l, st[k], N) \in Seq(Visibles)
    <2> DEFINE i == st[k]
               e == End(l, i, N)
    <2>1. i \in 1 .. N
      <3>1. st[k] \in TokenStarts(l)
        BY <1>1 DEF Starting
      <3> QED
        BY <3>1, StartsIn
    <2> HIDE DEF i
    <2>2. Ends(l, i, N, e)
      <3>1. N \in Nat /\ i \in 1 .. N + 1
        BY <2>1
      <3> QED
        BY <3>1, EndIs
    <2> HIDE DEF e
    <2>3. e \in i .. N + 1 /\ \A j \in i .. e - 1 : ~ Between(l, j)
      BY <2>2 DEF Ends
    <2>4. ASSUME NEW j \in i .. e - 1 PROVE l[j] \in Visibles
      <3>1. j \in 1 .. N
        BY <2>1, <2>3
      <3>2. l[j] \in Lexemes /\ l[j] # QT
        BY <2>3, <3>1 DEF Between
      <3> QED
        BY <3>2 DEF Lexemes, Visibles
    <2> DEFINE c == SubSeq(l, i, e - 1)
    <2>5. /\ Len(c) = e - i /\ Len(c) \in Nat /\ c \in Seq(Lexemes)
          /\ \A m \in 1 .. Len(c) : c[m] = l[(i + m) - 1]
      BY <2>1, <2>3
    <2> HIDE DEF c
    <2>6. ASSUME NEW m \in 1 .. Len(c) PROVE c[m] \in Visibles
      <3>1. (i + m) - 1 \in i .. e - 1
        BY <2>1, <2>3, <2>5
      <3> QED
        BY <2>4, <2>5, <3>1
    <2>7. c \in Seq(Visibles)
      BY <2>5, <2>6
    <2> QED
      BY <2>7 DEF Cut, c, e, i
  <1> QED
    BY <1>2, <1>3

\* What is known of words.
LEMMA Sights ==
    /\ \A w \in Visibles : w # SP => /\ w \in Verbs \cup Words
                                     /\ Lexicon[w].num \in Number \cup {None}
                                     /\ Lexicon[w].long \in Int
                                     /\ Lexicon[w].dashed \in BOOLEAN
                                     /\ Lexicon[w].dashed => ~ Lexicon[w].short
    /\ DOMAIN Lexicon = Verbs \cup Words
  BY DispatchAssumption DEF DispatchAssumption, Sight, Visibles

\* strtod() makes a number of a token, or refuses it.
LEMMA ValueType ==
    ASSUME NEW text \in Seq(Visibles)
    PROVE  Value(text) \in Number \cup {None}
  <1> DEFINE n == Len(text)
  <1>1. CASE n > 0 /\ text[n] # SP
    <2>1. text[n] \in Visibles
      BY <1>1
    <2>2. Lexicon[text[n]].num \in Number \cup {None}
      BY <1>1, <2>1, Sights
    <2> QED
      BY <2>2 DEF Value
  <1>2. CASE ~ (n > 0 /\ text[n] # SP)
    BY <1>2 DEF Value
  <1> QED
    BY <1>1, <1>2

\* strtol() always makes a number.
LEMMA LongType ==
    ASSUME NEW text \in Seq(Visibles)
    PROVE  Long(text) \in Int
  <1> DEFINE seen == {i \in DOMAIN text : text[i] # SP}
  <1>1. CASE seen = {}
    <2>1. Long(text) = 0
      BY <1>1 DEF Long
    <2> QED
      BY <2>1
  <1>2. CASE seen # {}
    <2>1. seen \in SUBSET Nat
      OBVIOUS
    <2>2. Min(seen) \in seen
      BY <1>2, <2>1, MinOf, Zenon
    <2>3. text[Min(seen)] \in Visibles /\ text[Min(seen)] # SP
      BY <2>2
    <2>4. Lexicon[text[Min(seen)]].long \in Int
      BY <2>3, Sights
    <2>5. Long(text) = Lexicon[text[Min(seen)]].long
      BY <1>2, Zenon DEF Long
    <2> QED
      BY <2>4, <2>5
  <1> QED
    BY <1>1, <1>2

\* argv_arg() sees the name of a token that is an option.
LEMMA DashedTail ==
    ASSUME NEW argv, NEW i, argv[i].text \in Seq(Visibles), Dashed(argv[i].text)
    PROVE  TailAt(argv, i) = Name(argv[i].text)
  <1> DEFINE t == argv[i].text
  <1>1. t # <<>> /\ t[1] # SP /\ Lexicon[t[1]].dashed
    BY DEF Dashed
  <1>2. t[1] \in Visibles /\ Len(t) \in Nat
    BY <1>1
  <1>3. ~ OneChar(t[1])
    BY <1>1, <1>2, Sights DEF OneChar
  <1> HIDE DEF t
  <1>4. TailAt(argv, i) = CASE t = <<>>                      -> Following(argv, i, 2)
                            [] Len(t) = 1 /\ OneChar(t[1])   -> Following(argv, i, 1)
                            [] Len(t) > 1 /\ OneChar(t[1])   ->
                                 IF OneChar(t[2]) THEN TextOf(SubSeq(t, 3, Len(t))) ELSE ""
                            [] OTHER                         -> Name(t)
    BY DEF TailAt, t
  <1>5. TailAt(argv, i) = Name(t)
    BY <1>1, <1>3, <1>4, Zenon
  <1> QED
    BY <1>5 DEF t

\* What argv_arg() can see of a token.
LEMMA TailCases ==
    ASSUME NEW argv, NEW i, argv[i].text \in Seq(Visibles)
    PROVE  \/ argv[i].text = <<>> /\ TailAt(argv, i) = Following(argv, i, 2)
           \/ /\ Len(argv[i].text) = 1 /\ OneChar(argv[i].text[1])
              /\ TailAt(argv, i) = Following(argv, i, 1)
           \/ TailAt(argv, i) = ""
           \/ TailAt(argv, i) = TextOf(SubSeq(argv[i].text, 3, Len(argv[i].text)))
           \/ argv[i].text # <<>> /\ TailAt(argv, i) = Name(argv[i].text)
  <1> DEFINE t == argv[i].text
             A == t = <<>>
             B == Len(t) = 1 /\ OneChar(t[1])
             C == Len(t) > 1 /\ OneChar(t[1])
  <1>1. A \/ B \/ C \/ (~ A /\ ~ B /\ ~ C)
    BY Zenon
  <1>2. ~ (A /\ B) /\ ~ (A /\ C) /\ ~ (B /\ C)
    <2>1. Len(t) \in Nat /\ (t = <<>> => Len(t) = 0)
      OBVIOUS
    <2> DEFINE m == Len(t)
    <2> HIDE DEF m
    <2>2. (A => m = 0) /\ (B => m = 1) /\ (C => m > 1) /\ m \in Nat
      BY <2>1 DEF m
    <2> HIDE DEF A, B, C
    <2> QED
      BY <2>2
  <1>3. TailAt(argv, i) = CASE A     -> Following(argv, i, 2)
                            [] B     -> Following(argv, i, 1)
                            [] C     -> IF OneChar(t[2]) THEN TextOf(SubSeq(t, 3, Len(t))) ELSE ""
                            [] OTHER -> Name(t)
    BY DEF TailAt
  <1> HIDE DEF A, B, C
  <1>4. CASE A
    BY <1>2, <1>3, <1>4 DEF A
  <1>5. CASE B
    BY <1>2, <1>3, <1>5 DEF B
  <1>6. CASE C
    <2>1. TailAt(argv, i) = IF OneChar(t[2]) THEN TextOf(SubSeq(t, 3, Len(t))) ELSE ""
      BY <1>2, <1>3, <1>6
    <2> QED
      BY <2>1
  <1>7. CASE ~ A /\ ~ B /\ ~ C
    BY <1>3, <1>7 DEF A
  <1> QED
    BY <1>1, <1>4, <1>5, <1>6, <1>7


-------------------------------------------------------------------------------
(* dispatch()                                                              *)

\* Until a line is entered there is no reply; then it is that line's.
DispatchInv ==
    /\ line \in Seq(Lexemes)
    /\ reply = Waiting \/ reply = DispatchLine(line)

\* argv[] has the tokens of the line.
LEMMA Entered ==
    ASSUME NEW l \in Seq(Lexemes), CreateArgList(l).err = 0
    PROVE  LET argv == CreateArgList(l).argv
               toks == Tokens(l)
           IN  /\ Len(argv) = Len(toks) /\ Len(toks) \in Nat /\ argv \in Seq(Arg)
               /\ toks \in Seq(Seq(Visibles))
               /\ \A k \in 1 .. Len(toks) : argv[k].text = toks[k] /\ toks[k] \in Seq(Visibles)
  <1> DEFINE argv == CreateArgList(l).argv
             toks == Tokens(l)
  <1>1. /\ argv \in Seq(Arg) /\ Len(argv) = Len(toks)
        /\ [k \in DOMAIN argv |-> argv[k].text] = toks
    BY ArgListIs
  <1>2. Len(toks) \in Nat /\ toks \in Seq(Seq(Visibles))
    BY TokenTexts
  <1>3. \A k \in 1 .. Len(toks) : argv[k].text = toks[k]
    <2> HIDE DEF toks, argv
    <2>1. DOMAIN argv = 1 .. Len(toks)
      BY <1>1
    <2> QED
      BY <1>1, <2>1
  <1> HIDE DEF toks, argv
  <1>4. \A k \in 1 .. Len(toks) : toks[k] \in Seq(Visibles)
    BY <1>2
  <1> QED
    BY <1>1, <1>2, <1>3, <1>4 DEF toks, argv

\* A line that runs a command passed all checks.
LEMMA RanPassed ==
    ASSUME NEW l \in Seq(Lexemes), "verb" \in DOMAIN DispatchLine(l)
    PROVE  LET argv == CreateArgList(l).argv
               verb == TextOf(argv[1].text)
           IN  /\ CreateArgList(l).err = 0 /\ argv # <<>> /\ verb \in DOMAIN Commands
               /\ ArgsValueNumber(argv, Commands[verb]) /\ ArgsValueRange(argv, Commands[verb])
               /\ AllRequiredArgs(argv, Commands[verb])
               /\ DispatchLine(l) = Executed(argv, verb)
  <1> DEFINE s == CreateArgList(l)
             argv == s.argv
             verb == TextOf(argv[1].text)
             ok == /\ verb \in DOMAIN Commands
                   /\ AllArgsValid(argv, Commands[verb])
                   /\ ArgsValueNumber(argv, Commands[verb])
                   /\ ArgsValueRange(argv, Commands[verb])
                   /\ AllRequiredArgs(argv, Commands[verb])
  <1>1. DispatchLine(l) = IF s.err # 0 THEN Refused
                          ELSE IF argv = <<>> THEN Ignored
                          ELSE IF ok THEN Executed(argv, verb)
                          ELSE Refused
    BY Zenon DEF DispatchLine
  <1>2. "verb" \notin DOMAIN Refused /\ "verb" \notin DOMAIN Ignored
    BY DEF Refused, Ignored
  <1>3. DispatchLine(l) # Refused /\ DispatchLine(l) # Ignored
    BY <1>2
  <1> HIDE DEF s, ok
  <1>4. s.err = 0 /\ argv # <<>> /\ ok /\ DispatchLine(l) = Executed(argv, verb)
    BY <1>1, <1>3
  <1> QED
    BY <1>4, Zenon DEF s, ok

\* What a handler takes from argv[] is a number, or was none.
LEMMA ReadType ==
    ASSUME NEW l \in Seq(Lexemes), CreateArgList(l).err = 0, NEW verb \in DOMAIN Commands,
           NEW r \in Commands[verb].reads
    PROVE  Param(Commands[verb], CreateArgList(l).argv, r) \in Number \cup {None}
  <1> DEFINE argv == CreateArgList(l).argv
             cmd == Commands[verb]
             toks == Tokens(l)
  <1>1. /\ Len(argv) = Len(toks) /\ Len(toks) \in Nat
        /\ \A k \in 1 .. Len(toks) : argv[k].text = toks[k] /\ toks[k] \in Seq(Visibles)
    BY Entered
  <1>2. r \in Nat
    BY DispatchAssumption DEF DispatchAssumption
  <1> HIDE DEF argv, toks, cmd
  <1>3. ASSUME r >= Len(argv) PROVE Param(cmd, argv, r) \in Number \cup {None}
    BY <1>3 DEF Param
  <1>4. ASSUME ~ (r >= Len(argv)) PROVE Param(cmd, argv, r) \in Number \cup {None}
    <2>1. r + 1 \in 1 .. Len(toks)
      BY <1>1, <1>2, <1>4
    <2> DEFINE t == argv[r + 1].text
    <2>2. t \in Seq(Visibles)
      BY <1>1, <2>1
    <2>3. Param(cmd, argv, r) = IF cmd.conv = "strtod" THEN Value(t) ELSE Long(t)
      BY <1>4 DEF Param
    <2> HIDE DEF t
    <2>4. Value(t) \in Number \cup {None} /\ Long(t) \in Int
      BY <2>2, ValueType, LongType
    <2> QED
      BY <2>3, <2>4 DEF Number
  <1> QED
    BY <1>3, <1>4 DEF argv, cmd

\* DispatchInv has the types.
LEMMA DispatchInvTypes == DispatchInv => DispatchTypeOK
  <1> SUFFICES ASSUME DispatchInv PROVE DispatchTypeOK
    OBVIOUS
  <1>1. line \in Seq(Verbs \cup Words \cup {SP, QT})
    BY DEF DispatchInv, Lexemes
  <1>2. CASE reply = Waiting
    <2>1. ~ Ran
      BY <1>2 DEF Ran, Waiting
    <2> QED
      BY <1>1, <1>2, <2>1 DEF DispatchTypeOK
  <1>3. CASE reply = DispatchLine(line) /\ Ran
    <2> DEFINE argv == CreateArgList(line).argv
               verb == TextOf(argv[1].text)
               f == [r \in Commands[verb].reads |-> Param(Commands[verb], argv, r)]
    <2>0. line \in Seq(Lexemes)
      BY DEF DispatchInv
    <2>1. /\ CreateArgList(line).err = 0 /\ verb \in DOMAIN Commands
          /\ reply = Executed(argv, verb)
      BY <1>3, <2>0, RanPassed DEF Ran
    <2>2. /\ reply.code \in {"ok", "quit"} /\ reply.verb = verb
          /\ reply.read = f
      BY <2>1 DEF Executed
    <2>3. \A r \in Commands[verb].reads : Param(Commands[verb], argv, r) \in Number \cup {None}
      BY <2>0, <2>1, ReadType
    <2> HIDE DEF argv, verb
    <2>4. f \in [Commands[verb].reads -> Number \cup {None}]
      BY <2>3
    <2> HIDE DEF f
    <2> QED
      BY <1>1, <1>3, <2>1, <2>2, <2>4 DEF DispatchTypeOK
  <1>4. CASE reply = DispatchLine(line) /\ ~ Ran
    <2>1. reply = Refused \/ reply = Ignored \/ \E argv, verb : reply = Executed(argv, verb)
      BY <1>4, Zenon DEF DispatchLine
    <2>2. ASSUME NEW argv, NEW verb PROVE reply # Executed(argv, verb)
      <3>1. "verb" \in DOMAIN Executed(argv, verb)
        BY DEF Executed
      <3> QED
        BY <1>4, <3>1 DEF Ran
    <2>3. reply = Refused \/ reply = Ignored
      BY <2>1, <2>2
    <2> QED
      BY <1>1, <1>4, <2>3 DEF DispatchTypeOK
  <1> QED
    BY <1>2, <1>3, <1>4 DEF DispatchInv

\* In a state of DispatchInv argv[] has the tokens of the line.
LEMMA DispatchInvArgList == DispatchInv => ArgListCorrect
  <1> SUFFICES ASSUME DispatchInv PROVE ArgListCorrect
    OBVIOUS
  <1>1. line \in Seq(Lexemes)
    BY DEF DispatchInv
  <1> DEFINE s == CreateArgList(line)
  <1>2. \/ s.err = 0 /\ [k \in DOMAIN s.argv |-> s.argv[k].text] = Tokens(line)
        \/ s.err = -1 /\ Len(Tokens(line)) > MaxArgc
        \/ s.err = -2 /\ Quoted(line, Len(line) + 1)
    BY <1>1, ArgListIs
  <1> HIDE DEF s
  <1>3. (CASE s.err = 0  -> [k \in DOMAIN s.argv |-> s.argv[k].text] = Tokens(line)
           [] s.err = -1 -> Len(Tokens(line)) > MaxArgc
           [] OTHER      -> Quoted(line, Len(line) + 1))
    BY <1>2
  <1> QED
    BY <1>3, DispatchInvTypes DEF ArgListCorrect, s


\* What is known of a command's entry.
LEMMA Entry ==
    ASSUME NEW verb \in DOMAIN Commands, NEW args, args = Commands[verb].args
    PROVE  /\ verb # "" /\ args \in Seq(ArgInfo)
           /\ \A a \in DOMAIN args :
                /\ args[a].req \in BOOLEAN /\ args[a].numeric \in BOOLEAN
                /\ args[a].lo \in Int /\ args[a].hi \in Int
                /\ args[a].name # "" /\ (verb \in DOMAIN Lexicon => Lexicon[verb].tail # args[a].name)
                /\ (args[a].name \in DOMAIN Lexicon => ~ Lexicon[args[a].name].dashed)
           /\ \A a, b \in DOMAIN args : args[a].name = args[b].name => a = b
  <1>1. /\ verb # "" /\ args \in Seq(ArgInfo)
        /\ \A a \in DOMAIN args :
             /\ args[a].name # "" /\ (verb \in DOMAIN Lexicon => Lexicon[verb].tail # args[a].name)
             /\ (args[a].name \in DOMAIN Lexicon => ~ Lexicon[args[a].name].dashed)
        /\ \A a, b \in DOMAIN args : args[a].name = args[b].name => a = b
    BY DispatchAssumption DEF DispatchAssumption
  <1>2. ASSUME NEW a \in DOMAIN args PROVE args[a] \in ArgInfo
    <2>1. args \in Seq(ArgInfo)
      BY <1>1
    <2>2. a \in 1 .. Len(args)
      BY <2>1
    <2> QED
      BY <2>1, <2>2, ElementOfSeq
  <1>3. \A a \in DOMAIN args : /\ args[a].req \in BOOLEAN /\ args[a].numeric \in BOOLEAN
                               /\ args[a].lo \in Int /\ args[a].hi \in Int
    BY <1>2 DEF ArgInfo
  <1> QED
    BY <1>1, <1>3

\* In a state of DispatchInv the handler's values are those that were checked:
\* argv_arg() found the name in the token before, and that token was an option.
LEMMA DispatchInvOptions == DispatchInv => OptionsVerified
  <1> DEFINE argv == CreateArgList(line).argv
             toks == Tokens(line)
             cmd == Commands[reply.verb]
             args == cmd.args
  <1> SUFFICES ASSUME DispatchInv, Ran,
                      \A i \in DOMAIN toks : i % 2 = 0 => Dashed(toks[i]),
                      NEW a \in DOMAIN args, args[a].req, args[a].numeric
               PROVE  /\ 2 * a < Len(toks) /\ Name(toks[2 * a]) = args[a].name
                      /\ LET v == Value(toks[2 * a + 1])
                         IN  v # None /\ ~ Below(v, args[a].lo) /\ ~ Above(v, args[a].hi)
    BY DEF OptionsVerified
  <1>0. line \in Seq(Lexemes) /\ reply = DispatchLine(line)
    BY DEF DispatchInv, Ran, Waiting
  <1>1. /\ CreateArgList(line).err = 0 /\ reply.verb \in DOMAIN Commands
        /\ ArgsValueNumber(argv, cmd) /\ ArgsValueRange(argv, cmd) /\ AllRequiredArgs(argv, cmd)
    <2> DEFINE verb == TextOf(argv[1].text)
    <2>1. /\ CreateArgList(line).err = 0 /\ verb \in DOMAIN Commands
          /\ ArgsValueNumber(argv, Commands[verb]) /\ ArgsValueRange(argv, Commands[verb])
          /\ AllRequiredArgs(argv, Commands[verb]) /\ reply = Executed(argv, verb)
      BY <1>0, RanPassed DEF Ran
    <2>2. reply.verb = verb
      BY <2>1 DEF Executed
    <2> QED
      BY <2>1, <2>2
  <1>2. /\ Len(argv) = Len(toks) /\ Len(toks) \in Nat /\ DOMAIN toks = 1 .. Len(toks)
        /\ argv \in Seq(Arg)
        /\ \A k \in 1 .. Len(toks) : argv[k].text = toks[k] /\ toks[k] \in Seq(Visibles)
    <2>1. toks \in Seq(Seq(Visibles))
      BY <1>0, <1>1, Entered
    <2> QED
      BY <1>0, <1>1, <2>1, Entered
  <1>3. a \in Nat \ {0}
    <2>1. args \in Seq(ArgInfo)
      BY <1>1, Entry
    <2> HIDE DEF args
    <2> QED
      BY <2>1
  <1> DEFINE d == 2 * a
             v == Value(toks[2 * a + 1])
  <1>4. ArgvArg(argv, args[a].name) = d /\ d < Len(argv) /\ d \in Nat /\ d >= 2 /\ d % 2 = 0
    <2>1. ArgvArg(argv, args[a].name) = d /\ d < Len(argv)
      BY <1>1, Zenon DEF AllRequiredArgs
    <2>2. d \in Nat /\ d >= 2 /\ d % 2 = 0
      BY <1>3
    <2> QED
      BY <2>1, <2>2
  <1>5. d \in DOMAIN argv /\ TailAt(argv, d) = args[a].name
    <2> DEFINE at == {i \in DOMAIN argv : TailAt(argv, i) = args[a].name}
    <2>1. at # {} /\ d = Min(at)
      <3>1. d # 0
        BY <1>4
      <3> QED
        BY <1>4, <3>1 DEF ArgvArg
    <2>2. at \in SUBSET Nat
      BY <1>2
    <2>3. Min(at) \in at
      BY <2>1, <2>2, MinOf, Zenon
    <2> QED
      BY <2>1, <2>3
  <1> HIDE DEF argv, toks, args, cmd
  <1>6. d \in 1 .. Len(toks) /\ Dashed(toks[d]) /\ argv[d].text = toks[d] /\ toks[d] \in Seq(Visibles)
    BY <1>2, <1>4
  <1>7. Name(toks[d]) = args[a].name
    BY <1>5, <1>6, DashedTail
  <1> HIDE DEF d
  <1>8. d \in Options(argv) /\ a \in ArgOf(cmd, Name(argv[d].text))
    BY <1>2, <1>4, <1>6, <1>7 DEF Options, ArgOf, args
  <1>9. argv[d + 1].text = toks[d + 1] /\ v = Value(toks[d + 1])
    <2>1. d + 1 \in 1 .. Len(toks)
      BY <1>2, <1>4
    <2> QED
      BY <1>2, <2>1 DEF d
  <1>10. v # None
    BY <1>1, <1>8, <1>9, Zenon DEF ArgsValueNumber, EachValue, args
  <1>11. ~ Below(v, args[a].lo) /\ ~ Above(v, args[a].hi)
    BY <1>1, <1>8, <1>9, Zenon DEF ArgsValueRange, EachValue, args
  <1> QED
    BY <1>2, <1>4, <1>7, <1>10, <1>11 DEF d, args, toks


\* A word that begins like an option is the name of no argument.
LEMMA FollowingOption ==
    ASSUME NEW verb \in DOMAIN Commands, NEW a \in DOMAIN Commands[verb].args,
           NEW argv, NEW i, NEW gap,
           i < Len(argv) => argv[i + 1].text \in Seq(Visibles) /\ Dashed(argv[i + 1].text)
    PROVE  Following(argv, i, gap) # Commands[verb].args[a].name
  <1> DEFINE name == Commands[verb].args[a].name
             t == argv[i + 1].text
  <1>1. name # "" /\ (name \in DOMAIN Lexicon => ~ Lexicon[name].dashed)
    BY Entry
  <1> HIDE DEF name
  <1>2. ASSUME i < Len(argv) PROVE TextOf(t) # name
    <2>1. t \in Seq(Visibles) /\ t # <<>> /\ t[1] # SP /\ Lexicon[t[1]].dashed
      BY <1>2 DEF Dashed
    <2> HIDE DEF t
    <2>2. t[1] \in Visibles
      BY <2>1
    <2>3. t[1] \in DOMAIN Lexicon
      BY <2>1, <2>2, Sights
    <2>4. t[1] # name
      BY <1>1, <2>1, <2>3
    <2> QED
      BY <1>1, <2>4 DEF TextOf
  <1> HIDE DEF t
  <1>3. Following(argv, i, gap) = "" \/ (i < Len(argv) /\ Following(argv, i, gap) = TextOf(t))
    BY DEF Following, t
  <1> QED
    BY <1>1, <1>2, <1>3 DEF name

\* In a canonical line argv_arg() finds each argument where it belongs.
LEMMA Found ==
    ASSUME NEW verb \in DOMAIN Commands, NEW n \in Nat, NEW toks, NEW argv,
           Canonical(toks, verb, n), Len(argv) = Len(toks), argv \in Seq(Arg),
           \A k \in 1 .. Len(toks) : argv[k].text = toks[k] /\ toks[k] \in Seq(Visibles),
           NEW aa \in 1 .. n
    PROVE  ArgvArg(argv, Commands[verb].args[aa].name) = 2 * aa
  <1> DEFINE args == Commands[verb].args
             name == args[aa].name
             at == {i \in DOMAIN argv : TailAt(argv, i) = name}
  <1>0. /\ Len(toks) = 2 * n + 1 /\ n <= Len(args) /\ TextOf(toks[1]) = verb
        /\ \A a \in 1 .. n : /\ Dashed(toks[2 * a]) /\ Name(toks[2 * a]) = args[a].name
                             /\ NoName(toks[2 * a + 1], args)
    BY DEF Canonical
  <1>1. /\ verb # "" /\ Len(args) \in Nat /\ DOMAIN args = 1 .. Len(args)
        /\ \A a, b \in DOMAIN args : args[a].name = args[b].name => a = b
        /\ \A a \in DOMAIN args : /\ args[a].name # ""
                                  /\ (verb \in DOMAIN Lexicon => Lexicon[verb].tail # args[a].name)
    <2>1. args \in Seq(ArgInfo)
      BY Entry
    <2>2. Len(args) \in Nat /\ DOMAIN args = 1 .. Len(args)
      BY <2>1
    <2> QED
      BY <2>2, Entry
  <1>2. /\ \A b \in 1 .. n : b \in DOMAIN args
        /\ aa \in DOMAIN args /\ name # "" /\ (verb \in DOMAIN Lexicon => Lexicon[verb].tail # name)
    <2>1. \A b \in 1 .. n : b \in DOMAIN args
      <3>1. n <= Len(args) /\ Len(args) \in Nat /\ DOMAIN args = 1 .. Len(args)
        BY <1>0, <1>1
      <3> HIDE DEF args
      <3> QED
        BY <3>1
    <2> QED
      BY <1>1, <2>1
  \* Options.
  <1>3. ASSUME NEW a \in 1 .. n
        PROVE  /\ 2 * a \in DOMAIN argv /\ argv[2 * a].text \in Seq(Visibles)
               /\ Dashed(argv[2 * a].text) /\ TailAt(argv, 2 * a) = args[a].name
    <2>1. 2 * a \in 1 .. Len(toks) /\ 2 * a \in DOMAIN argv
      BY <1>0
    <2> DEFINE d == 2 * a
    <2>2. /\ argv[d].text = toks[d] /\ toks[d] \in Seq(Visibles) /\ Dashed(toks[d])
          /\ Name(toks[d]) = args[a].name
      BY <1>0, <2>1
    <2> HIDE DEF d
    <2>3. TailAt(argv, d) = args[a].name
      BY <2>2, DashedTail
    <2> QED
      BY <2>1, <2>2, <2>3 DEF d
  <1> HIDE DEF args
  \* What follows one of the tokens before the argument.
  <1>4. ASSUME NEW b \in 0 .. aa - 1, NEW gap PROVE Following(argv, 2 * b + 1, gap) # name
    <2>1. b + 1 \in 1 .. n /\ (2 * b + 1) + 1 = 2 * (b + 1)
      OBVIOUS
    <2> DEFINE i == 2 * b + 1
    <2>2. argv[i + 1].text \in Seq(Visibles) /\ Dashed(argv[i + 1].text)
      BY <1>3, <2>1
    <2> HIDE DEF i
    <2>3. Following(argv, i, gap) # Commands[verb].args[aa].name
      BY <1>2, <2>2, FollowingOption DEF args
    <2> QED
      BY <2>3 DEF i, args
  <1> HIDE DEF name
  <1>5. TailAt(argv, 1) # name
    <2>1. 1 \in 1 .. Len(toks)
      BY <1>0
    <2> DEFINE t == argv[1].text
    <2>2. t \in Seq(Visibles) /\ TextOf(t) = verb /\ t = toks[1]
      BY <1>0, <2>1
    <2>3. Len(t) = 1 /\ t[1] = verb /\ t[1] # SP
      BY <1>1, <2>2 DEF TextOf, IsWord
    <2>4. verb \in DOMAIN Lexicon
      <3>1. t[1] \in Visibles
        BY <2>2, <2>3
      <3> QED
        BY <2>3, <3>1, Sights
    <2>5. Name(t) # name
      BY <1>2, <2>3, <2>4 DEF Name, IsWord
    <2>6. TextOf(SubSeq(t, 3, Len(t))) # name
      <3>1. SubSeq(t, 3, Len(t)) = <<>>
        BY <2>2, <2>3, SubSeqEmpty
      <3>2. TextOf(<<>>) = ""
        BY DEF TextOf, IsWord
      <3> QED
        BY <1>2, <3>1, <3>2
    <2>7. Following(argv, 1, 1) # name /\ Following(argv, 1, 2) # name
      <3>1. 0 \in 0 .. aa - 1 /\ 2 * 0 + 1 = 1
        OBVIOUS
      <3> QED
        BY <1>4, <3>1
    <2> QED
      BY <1>2, <2>2, <2>5, <2>6, <2>7, TailCases
  <1>6. ASSUME NEW b \in 1 .. aa - 1 PROVE TailAt(argv, 2 * b + 1) # name
    <2>1. b \in 1 .. n /\ b \in 0 .. aa - 1 /\ 2 * b + 1 \in 1 .. Len(toks)
      BY <1>0
    <2> DEFINE i == 2 * b + 1
               t == argv[i].text
    <2>2. t \in Seq(Visibles) /\ NoName(t, args)
      BY <1>0, <2>1
    <2>3. Following(argv, i, 1) # name /\ Following(argv, i, 2) # name
      BY <1>4, <2>1
    <2> HIDE DEF i
    <2>4. Name(t) # name /\ TextOf(SubSeq(t, 3, Len(t))) # name
      <3>1. name \notin {Name(t), TextOf(SubSeq(t, 3, Len(t)))}
        BY <1>2, <2>2, Zenon DEF NoName, name
      <3> QED
        BY <3>1
    <2>5. TailAt(argv, i) # name
      BY <1>2, <2>2, <2>3, <2>4, TailCases
    <2> QED
      BY <2>5 DEF i
  <1>7. ASSUME NEW b \in 1 .. n, TailAt(argv, 2 * b) = name PROVE b = aa
    <2>1. b \in DOMAIN args
      BY <1>2
    <2>2. args[b].name = name
      BY <1>3, <1>7
    <2> QED
      BY <1>1, <1>2, <2>1, <2>2 DEF name
  <1>8. 2 * aa \in at
    BY <1>3 DEF name
  <1>9. ASSUME NEW i \in at PROVE ~ (i < 2 * aa)
    <2> SUFFICES ASSUME i < 2 * aa PROVE FALSE
      OBVIOUS
    <2>1. i \in Nat \ {0} /\ TailAt(argv, i) = name
      OBVIOUS
    <2>2. i = 1 \/ (\E b \in 1 .. aa - 1 : i = 2 * b + 1) \/ (\E b \in 1 .. aa - 1 : i = 2 * b)
      <3> DEFINE b == i \div 2
      <3>1. i = 2 * b \/ i = 2 * b + 1
        BY <2>1
      <3>2. b \in Nat
        BY <2>1
      <3> HIDE DEF b
      <3>3. b <= aa - 1 /\ (b = 0 => i = 1)
        BY <2>1, <3>1, <3>2
      <3> QED
        BY <3>1, <3>2, <3>3
    <2>3. i # 1
      BY <1>5, <2>1
    <2>4. ASSUME NEW b \in 1 .. aa - 1 PROVE i # 2 * b + 1
      BY <1>6, <2>1
    <2>5. ASSUME NEW b \in 1 .. aa - 1, i = 2 * b PROVE FALSE
      <3>1. b \in 1 .. n /\ b # aa
        OBVIOUS
      <3> QED
        BY <1>7, <2>1, <2>5, <3>1
    <2> QED
      BY <2>2, <2>3, <2>4, <2>5
  <1>10. at # {} /\ at \in SUBSET Nat /\ ArgvArg(argv, name) = Min(at)
    <2>1. at # {} /\ at \in SUBSET Nat
      BY <1>8
    <2> QED
      BY <2>1 DEF ArgvArg
  <1>11. Min(at) = 2 * aa
    <2>1. Min(at) \in at /\ \A m \in at : Min(at) <= m
      BY <1>10, MinOf, Zenon
    <2> DEFINE m == Min(at)
    <2>2. m \in at /\ m <= 2 * aa /\ m \in Nat
      BY <1>8, <1>10, <2>1
    <2> HIDE DEF m
    <2>3. ~ (m < 2 * aa)
      BY <1>9, <2>2
    <2>4. m = 2 * aa
      BY <2>2, <2>3
    <2> QED
      BY <2>4 DEF m
  <1> QED
    BY <1>10, <1>11 DEF name, args


\* A canonical line passes all checks.
LEMMA CanonicalPasses ==
    ASSUME NEW verb \in DOMAIN Commands, NEW n \in Nat, NEW toks, NEW argv,
           Canonical(toks, verb, n), Len(argv) = Len(toks), argv \in Seq(Arg),
           \A k \in 1 .. Len(toks) : argv[k].text = toks[k] /\ toks[k] \in Seq(Visibles)
    PROVE  /\ AllArgsValid(argv, Commands[verb]) /\ ArgsValueNumber(argv, Commands[verb])
           /\ ArgsValueRange(argv, Commands[verb]) /\ AllRequiredArgs(argv, Commands[verb])
  <1> DEFINE cmd == Commands[verb]
             args == cmd.args
  <1>0. /\ Len(toks) = 2 * n + 1 /\ n <= Len(args) /\ TextOf(toks[1]) = verb
        /\ \A a \in DOMAIN args : args[a].req => a <= n
        /\ \A a \in 1 .. n : /\ Dashed(toks[2 * a]) /\ Name(toks[2 * a]) = args[a].name
                             /\ NoName(toks[2 * a + 1], args)
                             /\ args[a].numeric =>
                                  Value(toks[2 * a + 1]) \in args[a].lo .. args[a].hi
    BY DEF Canonical
  <1>1. /\ args \in Seq(ArgInfo)
        /\ \A a \in DOMAIN args : /\ args[a].lo \in Int /\ args[a].hi \in Int
                                  /\ args[a].req \in BOOLEAN /\ args[a].numeric \in BOOLEAN
        /\ \A a, b \in DOMAIN args : args[a].name = args[b].name => a = b
    BY Entry
  <1>2. /\ DOMAIN args = 1 .. Len(args) /\ Len(args) \in Nat
        /\ \A a \in 1 .. n : a \in DOMAIN args
    <2>1. DOMAIN args = 1 .. Len(args) /\ Len(args) \in Nat
      BY <1>1
    <2>2. n <= Len(args)
      BY <1>0
    <2> HIDE DEF args
    <2> QED
      BY <2>1, <2>2
  <1>3. \A a \in 1 .. n : ArgvArg(argv, args[a].name) = 2 * a
    BY Found
  <1> HIDE DEF args, cmd
  \* Options are at the even positions, before a value.
  <1>4. ASSUME NEW i \in Options(argv)
        PROVE  \E b \in 1 .. n : /\ i = 2 * b /\ b \in DOMAIN args
                                 /\ Name(argv[i].text) = args[b].name
    <2>1. i \in 2 .. Len(toks) /\ Dashed(toks[i]) /\ argv[i].text = toks[i]
      BY DEF Options
    <2>2. i \in Nat /\ i >= 2 /\ i <= 2 * n + 1
      BY <1>0, <2>1
    <2> DEFINE b == i \div 2
    <2>3. b \in Nat /\ (i = 2 * b \/ i = 2 * b + 1)
      BY <2>2
    <2> HIDE DEF b
    <2>4. b \in 1 .. n
      BY <2>2, <2>3
    <2>5. i # 2 * b + 1
      <3>1. ~ Dashed(toks[2 * b + 1])
        BY <1>0, <2>4 DEF NoName
      <3> QED
        BY <2>1, <3>1
    <2>6. i = 2 * b
      BY <2>3, <2>5
    <2>7. Name(toks[2 * b]) = args[b].name
      BY <1>0, <2>4
    <2>8. Name(argv[i].text) = args[b].name
      BY <2>1, <2>6, <2>7
    <2> QED
      BY <1>2, <2>4, <2>6, <2>8
  <1>5. AllArgsValid(argv, cmd)
    <2> SUFFICES ASSUME NEW i \in Options(argv)
                 PROVE  ArgOf(cmd, Name(argv[i].text)) # {}
      BY DEF AllArgsValid
    <2>1. PICK b \in 1 .. n : b \in DOMAIN args /\ Name(argv[i].text) = args[b].name
      BY <1>4
    <2> QED
      BY <2>1 DEF ArgOf, args
  <1>6. ASSUME NEW i \in Options(argv), NEW a \in ArgOf(cmd, Name(argv[i].text)), args[a].numeric
        PROVE  /\ i < Len(argv) /\ Value(argv[i + 1].text) # None
               /\ ~ Below(Value(argv[i + 1].text), args[a].lo)
               /\ ~ Above(Value(argv[i + 1].text), args[a].hi)
    <2> DEFINE v == Value(argv[i + 1].text)
    <2>0. PICK b \in 1 .. n : /\ i = 2 * b /\ b \in DOMAIN args
                              /\ Name(argv[i].text) = args[b].name
      BY <1>4
    <2>1. i < Len(argv) /\ v \in args[a].lo .. args[a].hi /\ a \in DOMAIN args
      <3>1. a \in DOMAIN args /\ args[a].name = args[b].name
        BY <2>0 DEF ArgOf, args
      <3>2. a = b
        BY <1>1, <2>0, <3>1
      <3>3. i < Len(argv) /\ i + 1 \in 1 .. Len(toks) /\ i + 1 = 2 * b + 1
        BY <1>0, <2>0
      <3>4. argv[i + 1].text = toks[2 * b + 1]
        BY <3>3
      <3>5. args[b].numeric => Value(toks[2 * b + 1]) \in args[b].lo .. args[b].hi
        BY <1>0
      <3> QED
        BY <1>6, <3>1, <3>2, <3>3, <3>4, <3>5
    <2> HIDE DEF v
    <2>2. args[a].lo \in Int /\ args[a].hi \in Int
      BY <1>1, <2>1
    <2>3. v \in Int /\ ~ (v < args[a].lo) /\ ~ (v > args[a].hi)
      BY <2>1, <2>2
    <2>4. v # None
      BY <2>3, DispatchAssumption DEF DispatchAssumption, Number
    <2> QED
      BY <2>1, <2>3, <2>4 DEF v, Below, Above
  <1>7. ArgsValueNumber(argv, cmd)
    BY <1>6, Zenon DEF ArgsValueNumber, EachValue, args
  <1>8. ArgsValueRange(argv, cmd)
    BY <1>6, Zenon DEF ArgsValueRange, EachValue, args
  <1>9. AllRequiredArgs(argv, cmd)
    <2> SUFFICES ASSUME NEW aa \in DOMAIN args, args[aa].req
                 PROVE  ArgvArg(argv, args[aa].name) = 2 * aa /\ 2 * aa < Len(argv)
      BY DEF AllRequiredArgs, args
    <2>1. aa \in 1 .. n
      <3>1. aa \in 1 .. Len(args) /\ aa <= n
        BY <1>0, <1>2
      <3> QED
        BY <1>2, <3>1
    <2>2. 2 * aa < Len(argv)
      <3>1. Len(argv) = 2 * n + 1
        BY <1>0
      <3> QED
        BY <2>1, <3>1
    <2> QED
      BY <1>3, <2>1, <2>2
  <1> QED
    BY <1>5, <1>7, <1>8, <1>9 DEF cmd

\* In a state of DispatchInv a canonical line was executed.
LEMMA DispatchInvCanonical == DispatchInv => CanonicalExecuted
  <1> DEFINE s == CreateArgList(line)
             argv == s.argv
             toks == Tokens(line)
  <1> SUFFICES ASSUME DispatchInv, reply # Waiting, ~ Quoted(line, Len(line) + 1),
                      NEW verb \in DOMAIN Commands, NEW n \in 0 .. Len(line),
                      Canonical(toks, verb, n)
               PROVE  /\ Ran /\ reply.verb = verb
                      /\ \A a \in 1 .. n : 2 * a \in Commands[verb].reads =>
                           reply.read[2 * a] = IF Commands[verb].conv = "strtod"
                                               THEN Value(toks[2 * a + 1])
                                               ELSE Long(toks[2 * a + 1])
    BY Zenon DEF CanonicalExecuted
  <1>0. line \in Seq(Lexemes) /\ reply = DispatchLine(line) /\ n \in Nat
    BY DEF DispatchInv
  <1>1. Len(toks) = 2 * n + 1 /\ Len(toks) <= MaxArgc /\ TextOf(toks[1]) = verb
    BY DEF Canonical
  <1>2. Len(toks) \in Nat
    BY <1>0, TokenTexts
  <1>3. s.err = 0
    <2>1. ~ (Len(toks) > MaxArgc)
      BY <1>1, <1>2, SpAndQt
    <2> QED
      BY <1>0, <2>1, ArgListIs
  <1>4. /\ Len(argv) = Len(toks) /\ argv \in Seq(Arg)
        /\ \A k \in 1 .. Len(toks) : argv[k].text = toks[k] /\ toks[k] \in Seq(Visibles)
    BY <1>0, <1>3, Entered
  <1> HIDE DEF s, toks
  <1>5. /\ AllArgsValid(argv, Commands[verb]) /\ ArgsValueNumber(argv, Commands[verb])
        /\ ArgsValueRange(argv, Commands[verb]) /\ AllRequiredArgs(argv, Commands[verb])
    BY <1>0, <1>4, CanonicalPasses
  <1>6. TextOf(argv[1].text) = verb /\ argv # <<>>
    <2>1. 1 \in 1 .. Len(toks)
      BY <1>0, <1>1
    <2>2. Len(argv) # 0
      BY <1>0, <1>1, <1>4
    <2> QED
      BY <1>1, <1>4, <2>1, <2>2
  <1>7. reply = Executed(argv, verb)
    <2>1. DispatchLine(line) =
             IF s.err # 0 THEN Refused
             ELSE IF argv = <<>> THEN Ignored
             ELSE IF /\ TextOf(argv[1].text) \in DOMAIN Commands
                     /\ AllArgsValid(argv, Commands[TextOf(argv[1].text)])
                     /\ ArgsValueNumber(argv, Commands[TextOf(argv[1].text)])
                     /\ ArgsValueRange(argv, Commands[TextOf(argv[1].text)])
                     /\ AllRequiredArgs(argv, Commands[TextOf(argv[1].text)])
             THEN Executed(argv, TextOf(argv[1].text))
             ELSE Refused
      BY Zenon DEF DispatchLine, s
    <2> QED
      BY <1>0, <1>3, <1>5, <1>6, <2>1
  <1>8. Ran /\ reply.verb = verb
    BY <1>7 DEF Executed, Ran
  <1>9. ASSUME NEW a \in 1 .. n, 2 * a \in Commands[verb].reads
        PROVE  reply.read[2 * a] = IF Commands[verb].conv = "strtod"
                                   THEN Value(toks[2 * a + 1])
                                   ELSE Long(toks[2 * a + 1])
    <2> DEFINE d == 2 * a
    <2>1. ~ (d >= Len(argv)) /\ d + 1 \in 1 .. Len(toks)
      BY <1>0, <1>1, <1>4
    <2> HIDE DEF d
    <2>2. reply.read[d] = Param(Commands[verb], argv, d)
      BY <1>7, <1>9 DEF Executed, d
    <2>3. Param(Commands[verb], argv, d) = IF Commands[verb].conv = "strtod"
                                           THEN Value(argv[d + 1].text)
                                           ELSE Long(argv[d + 1].text)
      BY <2>1, Zenon DEF Param
    <2>4. argv[d + 1].text = toks[d + 1]
      BY <1>4, <2>1
    <2> QED
      BY <2>2, <2>3, <2>4 DEF d
  <1> QED
    BY <1>8, <1>9 DEF toks

\* Every state that dispatch() can reach is described by DispatchInv.
THEOREM DispatchInvariant == DispatchSpec => []DispatchInv
  <1>1. DispatchInit => DispatchInv
    BY DEF DispatchInit, DispatchInv
  <1>2. DispatchInv /\ [DispatchNext]_dispatchVars => DispatchInv'
    <2> SUFFICES ASSUME DispatchInv, [DispatchNext]_dispatchVars PROVE DispatchInv'
      OBVIOUS
    <2>1. line \in Seq(Lexemes) /\ (reply = Waiting \/ reply = DispatchLine(line))
      BY DEF DispatchInv
    <2>2. ASSUME NEW x \in Lexemes, Type(x) PROVE DispatchInv'
      <3>1. reply' = Waiting /\ line' = Append(line, x)
        BY <2>2 DEF Type
      <3>2. line' \in Seq(Lexemes)
        BY <2>1, <3>1
      <3> QED
        BY <3>1, <3>2 DEF DispatchInv
    <2>3. CASE TypeWord
      <3>1. PICK x \in Verbs \cup Words : Type(x)
        BY <2>3 DEF TypeWord
      <3>2. x \in Lexemes
        BY DEF Lexemes
      <3> QED
        BY <2>2, <3>1, <3>2
    <2>4. CASE TypeSeparator
      <3>1. PICK x \in {SP, QT} : Type(x)
        BY <2>4 DEF TypeSeparator
      <3>2. x \in Lexemes
        BY DEF Lexemes
      <3> QED
        BY <2>2, <3>1, <3>2
    <2>5. CASE Enter
      <3>1. reply' = DispatchLine(line) /\ line' = line
        BY <2>5 DEF Enter
      <3>2. reply' = DispatchLine(line')
        BY <3>1
      <3> QED
        BY <2>1, <3>1, <3>2 DEF DispatchInv
    <2>6. CASE NextLine
      <3>1. line' = <<>> /\ reply' = Waiting
        BY <2>6 DEF NextLine
      <3>2. line' \in Seq(Lexemes)
        BY <3>1
      <3> QED
        BY <3>1, <3>2 DEF DispatchInv
    <2>7. CASE UNCHANGED dispatchVars
      <3>1. line' = line /\ reply' = reply
        BY <2>7 DEF dispatchVars
      <3>2. reply' = Waiting \/ reply' = DispatchLine(line')
        BY <2>1, <3>1
      <3> QED
        BY <2>1, <3>1, <3>2 DEF DispatchInv
    <2> QED
      BY <2>3, <2>4, <2>5, <2>6, <2>7 DEF DispatchNext
  <1> QED
    BY <1>1, <1>2, PTL DEF DispatchSpec

\* Every line of any length is cut into the tokens that create_arg_list()'s comment
\* describes, or refused for too many of them or an open quote.
THEOREM ArgumentsAreTokens == DispatchSpec => []ArgListCorrect
  BY DispatchInvariant, DispatchInvArgList, PTL

\* A line as the help text shows it is executed with its values, whatever the table
\* of commands.
THEOREM CanonicalLinesRun == DispatchSpec => []CanonicalExecuted
  BY DispatchInvariant, DispatchInvCanonical, PTL

\* What a handler takes by position for a required numeric argument passed the checks,
\* which go by name, if every other token is an option.
THEOREM OptionsAreVerified == DispatchSpec => []OptionsVerified
  BY DispatchInvariant, DispatchInvOptions, PTL

=============================================================================
