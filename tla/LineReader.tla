------------------------------ MODULE LineReader ------------------------------
(***************************************************************************)
(* The byte-level line assembly of the BIMA control server: readline() of  *)
(* coreServer/Dispatch.c and the branch of manage_conn() (Server.c) that   *)
(* looks at its result.  Every client has a readbuf and an append position *)
(* readp; one linebuf, which manage_conn never initialises, is shared by   *)
(* all of them.                                                            *)
(*                                                                         *)
(* A byte is LF, NUL, Junk (left over on the stack or from an error text)  *)
(* or a <<client, line>> pair, the character a line of that client is made *)
(* of: two lines differ and a byte says whose line it came from, which is  *)
(* all the properties look at.                                             *)
(***************************************************************************)
EXTENDS Integers, Sequences, SequencesExt, FiniteSets

CONSTANTS
    Clients,     \* the connections, one per slot of client_list
    LockStep,    \* those that wait for a line to be executed before the next
    Cap,         \* DISPATCH_BUFLEN = CONN_BUFLEN, 1024 in the code
    Window,      \* bytes a client may have unanswered (a bound of the model)
    LineLens,    \* the lengths of the lines clients send, without the LF
    MaxLines,    \* lines sent through a slot (a bound of the model)
    Splittable,  \* which lines of a session may arrive in pieces
    LF, NUL, Junk

ASSUME LineReaderAssumption ==
    /\ LockStep \subseteq Clients
    /\ Cap \in Nat /\ Cap > 2  \* the error text fits
    /\ Window \in 1 .. Cap \div 2  \* memcpy() stays inside linebuf; no readbuf fills
    /\ LineLens \subseteq Nat
    /\ MaxLines \in Nat
    /\ Splittable \subseteq 1 .. MaxLines
    \* Characters, LF and NUL differ; what is left over is neither.
    /\ LF # NUL /\ Junk \notin {LF, NUL}
    /\ {LF, NUL, Junk} \cap (Clients \X (1 .. MaxLines)) = {}

VARIABLES
    peer,     \* what the other end did: closed (no connection), open, fin, rst
    wire,     \* bytes sent and not yet returned by read()
    readbuf,  \* struct conn: readbuf
    readp,    \* struct conn: readp
    linebuf,  \* manage_conn: linebuf
    sent,     \* history: the lines of this session, in the order sent
    got,      \* history: the lines of this session handed to dispatch()
    before    \* history: how many lines earlier sessions of the slot sent

buffers == <<readbuf, readp, linebuf>>
readerVars == <<peer, wire, readbuf, readp, linebuf, sent, got, before>>

Idx == 1 .. Cap
Byte == {LF, NUL, Junk} \cup (Clients \X (1 .. MaxLines))
Filled(x) == [i \in Idx |-> x]
Zeroed == Filled(NUL)   \* memset( buf, 0, readsz )

\* The n-th line of c: l times its character, then the LF.
Line(c, n, l) == [i \in 1 .. l |-> <<c, n>>]
Bytes(lines) == FlattenSeq([i \in DOMAIN lines |-> Append(lines[i], LF)])

-------------------------------------------------------------------------------
(* readline(), Dispatch.c *)

\* Positions count from 1.  memcpy( dst + at, src, n ).
Copy(dst, at, src, n) ==
    SubSeq(dst, 1, at) \o SubSeq(src, 1, n) \o SubSeq(dst, at + n + 1, Cap)

\* strchr( buf, '\n' ): the first LF, unless a NUL ends the string before it;
\* 0 if there is none.
StrChrLF(buf) ==
    LET ends == {p \in Idx : buf[p] \in {LF, NUL}}
    IN  IF ends = {} \/ buf[Min(ends)] = NUL THEN 0 ELSE Min(ends)

\* What a C string in buf holds: the bytes before the first NUL.
CString(buf) ==
    SubSeq(buf, 1, Min({p \in Idx : buf[p] = NUL} \cup {Cap + 1}) - 1)

\* Faults for the mutation checks: the shift starts at the LF itself; readp
\* counts one byte too few.
TakeLineKeepsLF(buf, total, lf) ==
    LET full == Copy(linebuf, 0, buf, total)
    IN  [line |-> [full EXCEPT ![lf] = NUL],
         rest |-> Copy(buf, 0, SubSeq(full, lf, Cap), total - 1),
         left |-> total - lf,
         ret  |-> lf - 1]

TakeLineShort(buf, total, lf) ==
    LET full == Copy(linebuf, 0, buf, total)
    IN  [line |-> [full EXCEPT ![lf] = NUL],
         rest |-> Copy(buf, 0, SubSeq(full, lf + 1, Cap), total - 1),
         left |-> total - lf - 1,
         ret  |-> lf - 1]

\* The line branch: copy readbuf to linebuf, move what follows the LF back to
\* the front of readbuf, end the line.  The second memcpy() moves total - 1
\* bytes, more than follow the LF: stale bytes of linebuf come along.
TakeLine(buf, total, lf) ==
    LET full == Copy(linebuf, 0, buf, total)
    IN  [line |-> [full EXCEPT ![lf] = NUL],
         rest |-> Copy(buf, 0, SubSeq(full, lf + 1, Cap), total - 1),
         left |-> total - lf,
         ret  |-> lf - 1]

\* Fault: the partial branch reports the (empty) line's length, not readp.
KeepPartialZero(buf, total) ==
    [line |-> Zeroed, rest |-> buf, left |-> total, ret |-> 0]

KeepPartial(buf, total) ==
    [line |-> Zeroed, rest |-> buf, left |-> total, ret |-> total]

\* Fault: a LF in the last byte read is not looked at.
ReadLineLate(buf, total, lf) ==
    IF lf = 0 \/ lf = total THEN KeepPartial(buf, total) ELSE TakeLine(buf, total, lf)

ReadLine(buf, total, lf) ==
    IF lf = 0 THEN KeepPartial(buf, total) ELSE TakeLine(buf, total, lf)

-------------------------------------------------------------------------------
(* manage_conn(), Server.c: what happens with the result *)

\* Fault: the slot is freed without clearing its buffer.
CloseSlotDirty(c) ==
    /\ peer' = [peer EXCEPT ![c] = "closed"]
    /\ wire' = [wire EXCEPT ![c] = <<>>]
    /\ UNCHANGED <<readbuf, readp>>

\* connarr_close(): the slot is free and its buffer cleared.
CloseSlot(c) ==
    /\ peer' = [peer EXCEPT ![c] = "closed"]
    /\ wire' = [wire EXCEPT ![c] = <<>>]
    /\ readbuf' = [readbuf EXCEPT ![c] = Zeroed]
    /\ readp' = [readp EXCEPT ![c] = 0]

\* One readable descriptor is served: n bytes arrive; a line is dispatched, a
\* result of 0 closes the connection, an empty linebuf means a partial line.
Serve(c, n) ==
    \E buf \in {Copy(readbuf[c], readp[c], wire[c], n)} :
    \E r \in {ReadLine(buf, readp[c] + n, StrChrLF(buf))} :
        /\ linebuf' = r.line
        /\ IF r.ret = 0
           THEN CloseSlot(c) /\ UNCHANGED got
           ELSE /\ readbuf' = [readbuf EXCEPT ![c] = r.rest]
                /\ readp' = [readp EXCEPT ![c] = r.left]
                /\ wire' = [wire EXCEPT ![c] = SubSeq(@, n + 1, Len(@))]
                /\ got' = IF CString(r.line) = <<>> THEN got
                          ELSE [got EXCEPT ![c] = Append(@, CString(r.line))]
                /\ UNCHANGED peer
        /\ UNCHANGED <<sent, before>>

\* read() returns data: all that has arrived and fits or, inside a line that
\* the network splits, the part up to the split.
ReadData(c) ==
    LET most == Min({Len(wire[c]), Cap - readp[c]})
        SplitAfter(n) == wire[c][n] # LF /\ wire[c][n][2] - before[c] \in Splittable
    IN  /\ peer[c] # "closed" /\ most > 0
        /\ \E n \in 1 .. most : (n = most \/ SplitAfter(n)) /\ Serve(c, n)

\* read() returns 0: the peer has closed.  Both buffers are cleared and the
\* connection closes.  (So it does when readbuf is full and read() is asked for
\* 0 bytes; Window keeps it from filling up.)
ReadNothing(c) ==
    /\ peer[c] = "fin" /\ wire[c] = <<>>
    /\ linebuf' = Zeroed
    /\ CloseSlot(c)
    /\ UNCHANGED <<sent, got, before>>

\* read() fails: readbuf is cleared, linebuf gets an error text with an LF.
\* The slot stays; the next read finds the socket at its end.
ReadError(c) ==
    /\ peer[c] = "rst" /\ wire[c] = <<>>
    /\ linebuf' = Copy(linebuf, 0, <<Junk, LF, NUL>>, 3)
    /\ readbuf' = [readbuf EXCEPT ![c] = Zeroed]
    /\ readp' = [readp EXCEPT ![c] = 0]
    /\ peer' = [peer EXCEPT ![c] = "fin"]
    /\ UNCHANGED <<wire, sent, got, before>>

-------------------------------------------------------------------------------
(* The clients *)

Connect(c) ==
    /\ peer[c] = "closed" /\ before[c] + Len(sent[c]) < MaxLines
    /\ before' = [before EXCEPT ![c] = @ + Len(sent[c])]
    /\ peer' = [peer EXCEPT ![c] = "open"]
    /\ sent' = [sent EXCEPT ![c] = <<>>]
    /\ got' = [got EXCEPT ![c] = <<>>]
    /\ UNCHANGED <<wire, buffers>>

Send(c) ==
    LET n == before[c] + Len(sent[c]) + 1
    IN  /\ peer[c] = "open" /\ n <= MaxLines
        /\ c \in LockStep => Len(got[c]) = Len(sent[c])
        /\ \E l \in LineLens :
             /\ Len(wire[c]) + readp[c] + l + 1 <= Window
             /\ sent' = [sent EXCEPT ![c] = Append(@, Line(c, n, l))]
             /\ wire' = [wire EXCEPT ![c] = @ \o Append(Line(c, n, l), LF)]
        /\ UNCHANGED <<peer, buffers, got, before>>

Disconnect(c) ==
    /\ peer[c] = "open"
    /\ \E how \in {"fin", "rst"} : peer' = [peer EXCEPT ![c] = how]
    /\ UNCHANGED <<wire, buffers, sent, got, before>>

-------------------------------------------------------------------------------
ReaderInit ==
    /\ peer = [c \in Clients |-> "closed"]
    /\ wire = [c \in Clients |-> <<>>]
    /\ readbuf = [c \in Clients |-> Zeroed]
    /\ readp = [c \in Clients |-> 0]
    /\ \E g \in {LF, NUL, Junk} : linebuf = Filled(g)
    /\ sent = [c \in Clients |-> <<>>]
    /\ got = [c \in Clients |-> <<>>]
    /\ before = [c \in Clients |-> 0]

ServerStep(c) == ReadData(c) \/ ReadNothing(c) \/ ReadError(c)

ReaderNext == \E c \in Clients : ServerStep(c) \/ Connect(c) \/ Send(c) \/ Disconnect(c)

ReaderSpec == ReaderInit /\ [][ReaderNext]_readerVars

\* manage_conn() scans every slot of client_list after each select(), so a
\* descriptor that stays readable is served.
FairReaderSpec == ReaderSpec /\ \A c \in Clients : WF_readerVars(ServerStep(c))

-------------------------------------------------------------------------------
(* Properties *)

ReaderTypeOK ==
    /\ peer \in [Clients -> {"closed", "open", "fin", "rst"}]
    /\ wire \in [Clients -> Seq(Byte)]
    /\ readbuf \in [Clients -> [Idx -> Byte]]
    /\ readp \in [Clients -> 0 .. Cap]
    /\ linebuf \in [Idx -> Byte]
    /\ sent \in [Clients -> Seq(Seq(Byte))]
    /\ got \in [Clients -> Seq(Seq(Byte))]
    /\ before \in [Clients -> 0 .. MaxLines]

\* What dispatch() executes for a connection is a prefix of the lines that
\* connection sent: none lost, merged, cut, repeated or out of order, and no
\* byte of another client through the shared linebuf or of an earlier session
\* through a reused slot.
LinesInOrder ==
    \A c \in Clients : peer[c] # "closed" => IsPrefix(got[c], sent[c])

\* Every byte of an open connection is in exactly one place: executed, in the
\* first readp bytes of readbuf, or on the wire, in that order.
BytesConserved ==
    /\ ReaderTypeOK
    /\ \A c \in Clients : peer[c] \in {"open", "rst"} =>
           Bytes(got[c]) \o SubSeq(readbuf[c], 1, readp[c]) \o wire[c]
               = Bytes(sent[c])

\* Dispatch.c:400, "Returns 0 if the fd closed": the server never closes a
\* connection whose peer has neither closed nor reset it.
ClosesOnlyAfterPeer ==
    [][\A c \in Clients : peer[c] = "open" => peer'[c] # "closed"]_readerVars

\* Dispatch.c:402, 451, "Do we have a partial line? If so, keep linebuf
\* empty": nothing is executed before its LF has been read.
PartialNeverExecuted ==
    \A c \in Clients : \A i \in DOMAIN got[c] :
        i <= Len(sent[c]) /\ got[c][i] = sent[c][i]

\* A line of a client that waits for each line before the next one is executed
\* unless the client leaves.  (Pipelined lines wait in readbuf for more data.)
LockStepServed ==
    \A c \in LockStep :
        Len(sent[c]) > Len(got[c]) ~> (Len(sent[c]) = Len(got[c]) \/ peer[c] # "open")
===============================================================================
