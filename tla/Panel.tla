-------------------------------- MODULE Panel --------------------------------
(***************************************************************************)
(* The switches of the bias GUI (start.py) with what is behind them: a     *)
(* click sends dcdc with the mask of all boxes as they are displayed; the  *)
(* server puts it on the CAN bus (setTTL()); the board latches it and      *)
(* reports what it has every second; the CAN thread relays the report to   *)
(* the client that asked for CAN text (setCanOut()); the GUI then displays *)
(* it.  Each of these is on its own time, and displays may be late.        *)
(*                                                                         *)
(* The server is ConnServer's with its descriptors abstracted to the       *)
(* panels, the board is RcvrCtrl's with its first TTL register only.       *)
(***************************************************************************)
EXTENDS Integers, Sequences

CONSTANTS
    Panels,     \* GUIs that may be open
    None,       \* no panel
    Switches,   \* lines of the TTL register (8 in the code)
    MaxClicks,  \* clicks in all (a bound of the model)
    MaxAsks,    \* requests for CAN text in all (a bound of the model)
    MaxReports, \* reports on the bus (a bound of the model)
    MaxText     \* reports on the way to a panel (a bound of the model)

ASSUME PanelAssumption ==
    /\ None \notin Panels
    /\ MaxClicks \in Nat /\ MaxAsks \in Nat
    /\ MaxReports \in Nat \ {0} /\ MaxText \in Nat \ {0}

VARIABLES
    link,     \* a panel's connection: "closed", "open", or "lost" for good
    boxes,    \* the boxes that are checked in a panel
    requests, \* lines from a panel that the server has not read
    destination, fdout, \* where CAN text goes, and the CAN thread's copy
    bus,      \* dcdc frames on their way to the board
    ttl,      \* the board's outputs
    reports,  \* reports on their way to the server
    text,     \* reports on their way to a panel
    start,    \* history: the outputs before the panels were opened
    masks,    \* history: the masks that were sent
    obeyed,   \* history: the number of the mask the board obeyed last, or 0
    basis,    \* history: the number of the mask that a panel displays, 0 for
              \*   start, -1 before its first report
    clicked,  \* history: the switches clicked
    blind,    \* history: a switch was clicked before a report was displayed
    asks      \* history: requests for CAN text

net == <<link, requests, destination, fdout, text>>
board == <<bus, ttl, reports, obeyed>>
history == <<start, masks, basis, clicked, blind, asks>>
vars == <<net, boxes, board, history>>

-------------------------------------------------------------------------------
(* The panel *)

\* SocketWorker connects once; if that fails, or when the connection ends, it
\* finishes.
Connect(p) ==
    /\ link[p] = "closed"
    /\ \E l \in {"open", "lost"} : link' = [link EXCEPT ![p] = l]
    /\ UNCHANGED <<boxes, requests, destination, fdout, text, board, history>>

\* What was on the way is lost with a connection, or the server still reads it.
Lose(p) ==
    /\ link[p] = "open"
    /\ link' = [link EXCEPT ![p] = "lost"]
    /\ text' = [text EXCEPT ![p] = <<>>]
    /\ \/ requests' = [requests EXCEPT ![p] = <<>>]
       \/ UNCHANGED requests
    /\ UNCHANGED <<boxes, destination, fdout, board, history>>

\* Fault for the mutation checks: the connection is not looked at.
SendAnyway(p, r) == requests' = [requests EXCEPT ![p] = Append(@, r)]

\* send_command() without a connection says so and sends nothing.
Send(p, r) ==
    requests' = IF link[p] = "open" THEN [requests EXCEPT ![p] = Append(@, r)]
                ELSE requests

\* btn_clicked().
AskCan(p) ==
    /\ asks < MaxAsks /\ asks' = asks + 1
    /\ Send(p, [cmd |-> "can"])
    /\ UNCHANGED <<link, boxes, destination, fdout, text, board,
                   start, masks, basis, clicked, blind>>

Toggled(p, s) == IF s \in boxes[p] THEN boxes[p] \ {s} ELSE boxes[p] \cup {s}

\* Fault for the mutation checks: the mask as it was before the click.
MaskBefore(p, s) == boxes[p]

\* All boxes of the panel go into the mask, not only the one clicked.
Mask(p, s) == Toggled(p, s)

\* btn_dcdc_clicked().
Click(p, s) ==
    /\ Len(masks) < MaxClicks
    /\ boxes' = [boxes EXCEPT ![p] = Toggled(p, s)]
    /\ Send(p, [cmd |-> "dcdc", mask |-> Mask(p, s), switch |-> s,
                no |-> Len(masks) + 1, basis |-> basis[p]])
    /\ IF link[p] = "open"
       THEN /\ masks' = Append(masks, Mask(p, s))
            /\ basis' = [basis EXCEPT ![p] = IF @ = -1 THEN -1 ELSE Len(masks) + 1]
       ELSE UNCHANGED <<masks, basis>>
    /\ clicked' = clicked \cup {s}
    /\ blind' = (blind \/ basis[p] = -1)
    /\ UNCHANGED <<link, destination, fdout, text, board, start, asks>>

\* Fault for the mutation checks: the inputs are displayed as outputs.
ShownInputs(r) == {}

Shown(r) == r.mask

\* handle_text_block() with a TTL0 line: the boxes are set with their signals
\* blocked, so that nothing is sent.
Show(p) ==
    /\ link[p] = "open" /\ text[p] # <<>>
    /\ boxes' = [boxes EXCEPT ![p] = Shown(Head(text[p]))]
    /\ text' = [text EXCEPT ![p] = Tail(@)]
    /\ basis' = [basis EXCEPT ![p] = Head(text[p]).no]
    /\ UNCHANGED <<link, requests, destination, fdout, board,
                   start, masks, clicked, blind, asks>>

-------------------------------------------------------------------------------
(* The server and the board *)

\* setCanOut() or setTTL(); writeCan() may fail, which nobody is told.
Serve(p) ==
    /\ requests[p] # <<>>
    /\ requests' = [requests EXCEPT ![p] = Tail(@)]
    /\ LET r == Head(requests[p]) IN
       \/ r.cmd = "can" /\ destination' = p /\ UNCHANGED bus
       \/ r.cmd = "dcdc" /\ bus' \in {bus, Append(bus, r)} /\ UNCHANGED destination
    /\ UNCHANGED <<link, boxes, fdout, text, ttl, reports, obeyed, history>>

\* can_receiver_thread(): the frame goes to the client of the last copy; then
\* the next copy is made.
Relay ==
    /\ reports # <<>> /\ reports' = Tail(reports)
    /\ fdout' = destination
    /\ IF fdout # None /\ link[fdout] = "open"
       THEN /\ Len(text[fdout]) < MaxText
            /\ text' = [text EXCEPT ![fdout] = Append(@, Head(reports))]
       ELSE UNCHANGED text
    /\ UNCHANGED <<link, boxes, requests, destination, bus, ttl, obeyed, history>>

\* The firmware's setTTL().
SetTtl ==
    /\ bus # <<>> /\ bus' = Tail(bus)
    /\ ttl' = Head(bus).mask
    /\ obeyed' = Head(bus).no
    /\ UNCHANGED <<net, boxes, reports, history>>

\* TTLStatus(); no is history.
Report ==
    /\ Len(reports) < MaxReports
    /\ reports' = Append(reports, [mask |-> ttl, no |-> obeyed])
    /\ UNCHANGED <<net, boxes, bus, ttl, obeyed, history>>

-------------------------------------------------------------------------------
\* The panels are opened while the board is in use.
Init ==
    /\ link = [p \in Panels |-> "closed"]
    /\ boxes = [p \in Panels |-> {}]
    /\ requests = [p \in Panels |-> <<>>] /\ text = requests
    /\ destination = None /\ fdout = None
    /\ bus = <<>> /\ reports = <<>>
    /\ ttl \in SUBSET Switches /\ start = ttl
    /\ masks = <<>> /\ obeyed = 0 /\ basis = [p \in Panels |-> -1]
    /\ clicked = {} /\ blind = FALSE /\ asks = 0

Operate(p) == AskCan(p) \/ \E s \in Switches : Click(p, s)

Next ==
    \/ \E p \in Panels : Connect(p) \/ Lose(p) \/ Operate(p) \/ Show(p) \/ Serve(p)
    \/ Relay \/ SetTtl \/ Report

Spec == Init /\ [][Next]_vars

-------------------------------------------------------------------------------
(* Properties *)

Dcdc == [cmd : {"dcdc"}, mask : SUBSET Switches, switch : Switches,
         no : 1 .. MaxClicks, basis : -1 .. MaxClicks]
State == [mask : SUBSET Switches, no : 0 .. MaxClicks]

\* Every variable stays in its type; nothing is on its way from a panel that is
\* not connected yet, or to one that is not connected.
TypeOK ==
    /\ link \in [Panels -> {"closed", "open", "lost"}]
    /\ boxes \in [Panels -> SUBSET Switches]
    /\ requests \in [Panels -> Seq(Dcdc \cup [cmd : {"can"}])]
    /\ destination \in Panels \cup {None} /\ fdout \in Panels \cup {None}
    /\ bus \in Seq(Dcdc) /\ ttl \in SUBSET Switches /\ reports \in Seq(State)
    /\ text \in [Panels -> Seq(State)]
    /\ start \in SUBSET Switches /\ clicked \in SUBSET Switches /\ blind \in BOOLEAN
    /\ masks \in Seq(SUBSET Switches) /\ Len(masks) <= MaxClicks
    /\ obeyed \in 0 .. Len(masks) /\ basis \in [Panels -> -1 .. Len(masks)]
    /\ asks \in 0 .. MaxAsks
    /\ \A p \in Panels : /\ link[p] = "closed" => requests[p] = <<>>
                         /\ link[p] # "open" => text[p] = <<>>

Changed == (ttl \ ttl') \cup (ttl' \ ttl)

\* A click switches the one output that was clicked, if the panel displayed the
\* mask that the board obeyed last: no other mask was obeyed since that display,
\* and no earlier click of the panel was lost.  Otherwise it may switch back what
\* an earlier click had switched.
ClickSwitchesOne ==
    [][(bus # <<>> /\ bus' = Tail(bus) /\ Head(bus).basis = obeyed)
           => Changed = {Head(bus).switch}]_vars

\* An output nobody clicked stays as it was before the panels were opened, late
\* displays and lost connections or not, unless a panel is used before its
\* first report: its boxes then are as the form has them, not as the board.
UnclickedStay ==
    ~ blind => \A s \in Switches \ clicked : s \in ttl <=> s \in start
=============================================================================
