----------------------------- MODULE PanelProofs -----------------------------
(***************************************************************************)
(* The safety of Panel for any number of panels, switches, clicks and      *)
(* reports.                                                                *)
(***************************************************************************)
EXTENDS Panel, TLAPS

USE PanelAssumption DEF PanelAssumption

\* The mask with number n; the number 0 is for the outputs at the start.
MaskOf(n) == IF n = 0 THEN start ELSE masks[n]
Known(n, m) == n \in 0 .. Len(masks) /\ m = MaskOf(n)

Toggle(m, s) == IF s \in m THEN m \ {s} ELSE m \cup {s}

\* A command carries the mask of its number, which is the one its panel
\* displayed but for the switch clicked.
Traced(r) ==
    /\ r.no # 0 /\ Known(r.no, r.mask)
    /\ r.basis # -1 => Known(r.basis, MaskOf(r.basis))
                       /\ r.mask = Toggle(MaskOf(r.basis), r.switch)

\* Every mask anywhere is one that was sent, or the outputs at the start, and
\* has that mask's number.
OutputsKnown == Known(obeyed, ttl)
ReportsKnown == \A i \in DOMAIN reports : Known(reports[i].no, reports[i].mask)
TextKnown ==
    \A p \in Panels : \A i \in DOMAIN text[p] : Known(text[p][i].no, text[p][i].mask)
BusTraced == \A i \in DOMAIN bus : Traced(bus[i])
RequestsTraced ==
    \A p \in Panels : \A i \in DOMAIN requests[p] :
        requests[p][i].cmd = "dcdc" => Traced(requests[p][i])
BoxesKnown ==
    \A p \in Panels :
        /\ link[p] = "open" /\ basis[p] # -1 => Known(basis[p], boxes[p])
        /\ link[p] = "closed" => basis[p] = -1

\* While nobody clicked before a first report, every mask sent has the switches
\* nobody clicked as they were at the start.
MasksAgree ==
    ~ blind => \A n \in 0 .. Len(masks) : \A s \in Switches \ clicked :
                   s \in MaskOf(n) <=> s \in start

Origins ==
    /\ OutputsKnown /\ ReportsKnown /\ TextKnown
    /\ BusTraced /\ RequestsTraced /\ BoxesKnown /\ MasksAgree

-------------------------------------------------------------------------------
(* Sequences *)

\* The elements of Tail(q) are elements of q.
LEMMA TailElement ==
    ASSUME NEW S, NEW q \in Seq(S), q # <<>>, NEW i \in DOMAIN Tail(q)
    PROVE  i + 1 \in DOMAIN q /\ Tail(q)[i] = q[i + 1]
  OBVIOUS

\* The elements of Append(q, e) are e and those of q.
LEMMA AppendElement ==
    ASSUME NEW S, NEW q \in Seq(S), NEW e \in S, NEW i \in DOMAIN Append(q, e)
    PROVE  \/ i \in DOMAIN q /\ Append(q, e)[i] = q[i]
           \/ Append(q, e)[i] = e
  OBVIOUS

\* Head(q) is the first element of q.
LEMMA HeadElement ==
    ASSUME NEW S, NEW q \in Seq(S), q # <<>>
    PROVE  1 \in DOMAIN q /\ Head(q) = q[1] /\ Head(q) \in S /\ Tail(q) \in Seq(S)
  OBVIOUS

-------------------------------------------------------------------------------
(* Types *)

\* The panels start with their variables in their types.
LEMMA InitTypes == Init => TypeOK
  <1> SUFFICES ASSUME Init PROVE TypeOK
    OBVIOUS
  <1>1. reports \in Seq(State) /\ bus \in Seq(Dcdc)
    BY DEF Init
  <1>2. masks \in Seq(SUBSET Switches) /\ Len(masks) <= MaxClicks /\ obeyed \in 0 .. Len(masks)
    BY DEF Init
  <1>3. /\ requests \in [Panels -> Seq(Dcdc \cup [cmd : {"can"}])]
        /\ text \in [Panels -> Seq(State)]
    BY DEF Init
  <1>4. basis \in [Panels -> -1 .. Len(masks)]
    BY <1>2 DEF Init
  <1>5. /\ \A p \in Panels : link[p] = "closed" => requests[p] = <<>>
        /\ \A p \in Panels : link[p] # "open" => text[p] = <<>>
    BY DEF Init
  <1>6. /\ link \in [Panels -> {"closed", "open", "lost"}]
        /\ boxes \in [Panels -> SUBSET Switches]
        /\ ttl \in SUBSET Switches /\ start \in SUBSET Switches
        /\ clicked \in SUBSET Switches
    BY DEF Init
  <1>7. /\ destination \in Panels \cup {None} /\ fdout \in Panels \cup {None}
        /\ asks \in 0 .. MaxAsks
    BY DEF Init
  <1>8. blind \in BOOLEAN
    BY DEF Init
  <1>9. QED
    BY <1>1, <1>2, <1>3, <1>4, <1>5, <1>6, <1>7, <1>8 DEF TypeOK

\* A line that is sent is appended, or lost.
LEMMA SendTypes ==
    ASSUME TypeOK, NEW p \in Panels, NEW r \in Dcdc \cup [cmd : {"can"}], Send(p, r)
    PROVE  /\ requests' \in [Panels -> Seq(Dcdc \cup [cmd : {"can"}])]
           /\ \A q \in Panels : link[q] = "closed" => requests'[q] = <<>>
  <1>1. CASE link[p] = "open"
    <2>1. requests' = [requests EXCEPT ![p] = Append(@, r)]
      BY <1>1 DEF Send
    <2>2. requests' \in [Panels -> Seq(Dcdc \cup [cmd : {"can"}])]
      BY <2>1 DEF TypeOK
    <2>3. ASSUME NEW q \in Panels, link[q] = "closed" PROVE requests'[q] = <<>>
      <3>1. q # p
        BY <1>1, <2>3
      <3>2. requests'[q] = requests[q]
        BY <2>1, <3>1 DEF TypeOK
      <3>3. QED
        BY <2>3, <3>2 DEF TypeOK
    <2>4. QED
      BY <2>2, <2>3
  <1>2. CASE link[p] # "open"
    BY <1>2 DEF Send, TypeOK
  <1>3. QED
    BY <1>1, <1>2

\* What a click sends is a command.
LEMMA ClickCommand ==
    ASSUME TypeOK, NEW p \in Panels, NEW s \in Switches, Len(masks) < MaxClicks
    PROVE  /\ Mask(p, s) \in SUBSET Switches
           /\ [cmd |-> "dcdc", mask |-> Mask(p, s), switch |-> s,
               no |-> Len(masks) + 1, basis |-> basis[p]] \in Dcdc
  <1>1. boxes[p] \in SUBSET Switches /\ basis[p] \in -1 .. Len(masks)
    BY DEF TypeOK
  <1>2. Mask(p, s) \in SUBSET Switches
    BY <1>1 DEF Mask, Toggled
  <1>3. Len(masks) \in Nat
    BY DEF TypeOK
  <1>4. basis[p] \in -1 .. MaxClicks /\ Len(masks) + 1 \in 1 .. MaxClicks
    BY <1>1, <1>3
  <1>5. QED
    BY <1>2, <1>4 DEF Dcdc

\* A click keeps the types.
LEMMA ClickTypes ==
    ASSUME TypeOK, NEW p \in Panels, NEW s \in Switches, Click(p, s)
    PROVE  TypeOK'
  <1> DEFINE r == [cmd |-> "dcdc", mask |-> Mask(p, s), switch |-> s,
                   no |-> Len(masks) + 1, basis |-> basis[p]]
  <1>1. r \in Dcdc /\ Mask(p, s) \in SUBSET Switches
    BY ClickCommand DEF Click
  <1>2. Send(p, r)
    BY DEF Click
  <1>3. /\ requests' \in [Panels -> Seq(Dcdc \cup [cmd : {"can"}])]
        /\ \A q \in Panels : link[q] = "closed" => requests'[q] = <<>>
    <2> HIDE DEF r
    <2>1. QED
      BY <1>1, <1>2, SendTypes
  <1>4. boxes' \in [Panels -> SUBSET Switches]
    BY DEF Click, TypeOK, Toggled
  <1>5. /\ masks' \in Seq(SUBSET Switches) /\ Len(masks') <= MaxClicks
        /\ obeyed \in 0 .. Len(masks') /\ basis' \in [Panels -> -1 .. Len(masks')]
    <2>1. CASE link[p] = "open"
      <3>1. masks' = Append(masks, Mask(p, s))
        BY <2>1 DEF Click
      <3>2. /\ masks' \in Seq(SUBSET Switches) /\ Len(masks') = Len(masks) + 1
            /\ Len(masks) \in Nat
        BY <1>1, <3>1 DEF TypeOK
      <3>3. basis' = [basis EXCEPT ![p] = IF @ = -1 THEN -1 ELSE Len(masks) + 1]
        BY <2>1 DEF Click
      <3>4. basis \in [Panels -> -1 .. Len(masks)]
        BY DEF TypeOK
      <3>5. basis' \in [Panels -> -1 .. Len(masks')]
        <4>1. PICK n : n = Len(masks)
          OBVIOUS
        <4>2. /\ n \in Nat /\ Len(masks') = n + 1 /\ basis \in [Panels -> -1 .. n]
              /\ basis' = [basis EXCEPT ![p] = IF @ = -1 THEN -1 ELSE n + 1]
          BY <3>2, <3>3, <3>4, <4>1
        <4>3. basis' \in [Panels -> -1 .. n + 1]
          BY <4>2
        <4>4. QED
          BY <4>2, <4>3
      <3>6. masks' \in Seq(SUBSET Switches) /\ Len(masks') <= MaxClicks
        BY <3>2 DEF Click
      <3>7. obeyed \in 0 .. Len(masks')
        BY <3>2 DEF TypeOK
      <3>8. QED
        BY <3>5, <3>6, <3>7
    <2>2. CASE link[p] # "open"
      BY <2>2 DEF Click, TypeOK
    <2>3. QED
      BY <2>1, <2>2
  <1>6. clicked' \in SUBSET Switches
    BY DEF Click, TypeOK
  <1>7. blind' \in BOOLEAN
    BY DEF Click, TypeOK
  <1>8. /\ UNCHANGED <<link, destination, fdout, text, board, start, asks>>
    BY DEF Click
  <1>9. UNCHANGED <<bus, ttl, reports, obeyed>>
    BY <1>8 DEF board
  <1> HIDE DEF r
  <1>10. QED
    BY <1>3, <1>4, <1>5, <1>6, <1>7, <1>8, <1>9 DEF TypeOK

\* Taking the first line of a panel keeps the types.
LEMMA ServeTypes ==
    ASSUME TypeOK, NEW p \in Panels, Serve(p)
    PROVE  TypeOK'
  <1> DEFINE R == Dcdc \cup [cmd : {"can"}]
  <1>1. requests[p] \in Seq(R) /\ requests[p] # <<>>
    BY DEF TypeOK, Serve
  <1>2. Tail(requests[p]) \in Seq(R) /\ Head(requests[p]) \in R
    <2> HIDE DEF R
    <2>1. QED
      BY <1>1, HeadElement
  <1>3. requests' = [requests EXCEPT ![p] = Tail(@)]
    BY DEF Serve
  <1>4. requests' \in [Panels -> Seq(R)]
    <2> requests \in [Panels -> Seq(R)]
      BY DEF TypeOK
    <2> HIDE DEF R
    <2>1. QED
      BY <1>2, <1>3
  <1>5. Head(requests[p]).cmd = "dcdc" => Head(requests[p]) \in Dcdc
    BY <1>2
  <1>6. bus' \in Seq(Dcdc)
    <2>1. CASE bus' = bus
      BY <2>1 DEF TypeOK
    <2>2. CASE Head(requests[p]).cmd = "dcdc" /\ bus' = Append(bus, Head(requests[p]))
      BY <1>5, <2>2 DEF TypeOK
    <2>3. QED
      BY <2>1, <2>2 DEF Serve
  <1>7. destination' \in Panels \cup {None}
    BY DEF Serve, TypeOK
  <1>8. ASSUME NEW q \in Panels, link[q] = "closed" PROVE requests'[q] = <<>>
    <2>1. q # p
      BY <1>1, <1>8 DEF TypeOK
    <2>2. requests'[q] = requests[q]
      BY <1>3, <2>1 DEF TypeOK
    <2>3. QED
      BY <1>8, <2>2 DEF TypeOK
  <1>9. QED
    BY <1>4, <1>6, <1>7, <1>8 DEF Serve, TypeOK, history

\* The CAN thread keeps the types.
LEMMA RelayTypes ==
    ASSUME TypeOK, Relay
    PROVE  TypeOK'
  <1>1. reports \in Seq(State) /\ reports # <<>>
    BY DEF TypeOK, Relay
  <1>2. Tail(reports) \in Seq(State) /\ Head(reports) \in State
    BY <1>1, HeadElement
  <1>3. reports' \in Seq(State) /\ fdout' \in Panels \cup {None}
    BY <1>2 DEF Relay, TypeOK
  <1>4. CASE fdout # None /\ link[fdout] = "open"
    <2>1. fdout \in Panels
      BY <1>4 DEF TypeOK
    <2>2. text' = [text EXCEPT ![fdout] = Append(@, Head(reports))]
      BY <1>4 DEF Relay
    <2>3. text' \in [Panels -> Seq(State)]
      BY <1>2, <2>1, <2>2 DEF TypeOK
    <2>4. ASSUME NEW q \in Panels, link[q] # "open" PROVE text'[q] = <<>>
      <3>1. q # fdout
        BY <1>4, <2>4
      <3>2. text'[q] = text[q]
        BY <2>2, <3>1 DEF TypeOK
      <3>3. QED
        BY <2>4, <3>2 DEF TypeOK
    <2>5. QED
      BY <1>3, <2>3, <2>4 DEF Relay, TypeOK, history
  <1>5. CASE ~ (fdout # None /\ link[fdout] = "open")
    BY <1>3, <1>5 DEF Relay, TypeOK, history
  <1>6. QED
    BY <1>4, <1>5

\* Every step keeps the types: what comes from a queue has a known number.
LEMMA NextTypes == TypeOK /\ Origins /\ [Next]_vars => TypeOK'
  <1> SUFFICES ASSUME TypeOK, Origins, [Next]_vars PROVE TypeOK'
    OBVIOUS
  <1>1. ASSUME NEW p \in Panels, Connect(p) PROVE TypeOK'
    <2>1. /\ link' \in [Panels -> {"closed", "open", "lost"}]
          /\ \A q \in Panels : link'[q] = "closed" => link[q] = "closed"
          /\ \A q \in Panels : link'[q] # "open" => link[q] # "open"
      BY <1>1 DEF Connect, TypeOK
    <2>2. QED
      BY <1>1, <2>1 DEF Connect, TypeOK, board, history
  <1>2. ASSUME NEW p \in Panels, Lose(p) PROVE TypeOK'
    <2>1. /\ link' \in [Panels -> {"closed", "open", "lost"}]
          /\ \A q \in Panels : link'[q] = "closed" => link[q] = "closed" /\ q # p
          /\ \A q \in Panels : link'[q] # "open" => q = p \/ link[q] # "open"
      BY <1>2 DEF Lose, TypeOK
    <2>2. <<>> \in Seq(State) /\ <<>> \in Seq(Dcdc \cup [cmd : {"can"}])
      OBVIOUS
    <2>3. text' = [text EXCEPT ![p] = <<>>]
      BY <1>2 DEF Lose
    <2>4. text' \in [Panels -> Seq(State)]
      BY <2>2, <2>3 DEF TypeOK
    <2>5. \A q \in Panels : link'[q] # "open" => text'[q] = <<>>
      BY <2>1, <2>3 DEF TypeOK
    <2>6. /\ requests' \in [Panels -> Seq(Dcdc \cup [cmd : {"can"}])]
          /\ \A q \in Panels : q # p => requests'[q] = requests[q]
      <3>1. CASE requests' = [requests EXCEPT ![p] = <<>>]
        BY <2>2, <3>1 DEF TypeOK
      <3>2. CASE requests' = requests
        BY <3>2 DEF TypeOK
      <3>3. QED
        BY <1>2, <3>1, <3>2 DEF Lose
    <2>7. \A q \in Panels : link'[q] = "closed" => requests'[q] = <<>>
      BY <2>1, <2>6 DEF TypeOK
    <2>8. QED
      BY <1>2, <2>1, <2>4, <2>5, <2>6, <2>7 DEF Lose, TypeOK, board, history
  <1>3. ASSUME NEW p \in Panels, AskCan(p) PROVE TypeOK'
    <2>1. [cmd |-> "can"] \in Dcdc \cup [cmd : {"can"}]
      OBVIOUS
    <2>2. Send(p, [cmd |-> "can"])
      BY <1>3 DEF AskCan
    <2>3. /\ requests' \in [Panels -> Seq(Dcdc \cup [cmd : {"can"}])]
          /\ \A q \in Panels : link[q] = "closed" => requests'[q] = <<>>
      BY <2>1, <2>2, SendTypes
    <2>4. asks' \in 0 .. MaxAsks
      BY <1>3 DEF AskCan, TypeOK
    <2>5. QED
      BY <1>3, <2>3, <2>4 DEF AskCan, TypeOK, board
  <1>4. ASSUME NEW p \in Panels, NEW s \in Switches, Click(p, s) PROVE TypeOK'
    BY <1>4, ClickTypes
  <1>5. ASSUME NEW p \in Panels, Show(p) PROVE TypeOK'
    <2>1. text[p] \in Seq(State) /\ text[p] # <<>>
      BY <1>5 DEF Show, TypeOK
    <2>2. Tail(text[p]) \in Seq(State) /\ Head(text[p]) \in State
      BY <2>1, HeadElement
    <2>3. Known(Head(text[p]).no, Head(text[p]).mask)
      BY <2>1, HeadElement DEF Origins, TextKnown
    <2>4. basis' \in [Panels -> -1 .. Len(masks)]
      BY <1>5, <2>3 DEF Show, TypeOK, Known
    <2>5. boxes' \in [Panels -> SUBSET Switches]
      BY <1>5, <2>2 DEF Show, TypeOK, Shown, State
    <2>6. /\ text' \in [Panels -> Seq(State)]
          /\ \A q \in Panels : q # p => text'[q] = text[q]
      BY <1>5, <2>2 DEF Show, TypeOK
    <2>7. \A q \in Panels : link[q] # "open" => text'[q] = <<>>
      BY <1>5, <2>6 DEF Show, TypeOK
    <2>8. QED
      BY <1>5, <2>4, <2>5, <2>6, <2>7 DEF Show, TypeOK, board
  <1>6. ASSUME NEW p \in Panels, Serve(p) PROVE TypeOK'
    BY <1>6, ServeTypes
  <1>7. CASE Relay
    BY <1>7, RelayTypes
  <1>8. CASE SetTtl
    <2>1. bus \in Seq(Dcdc) /\ bus # <<>>
      BY <1>8 DEF SetTtl, TypeOK
    <2>2. Tail(bus) \in Seq(Dcdc) /\ Head(bus) \in Dcdc
      BY <2>1, HeadElement
    <2>3. Traced(Head(bus))
      BY <2>1, HeadElement DEF Origins, BusTraced
    <2>4. obeyed' \in 0 .. Len(masks)
      BY <1>8, <2>3 DEF SetTtl, Traced, Known
    <2>5. ttl' \in SUBSET Switches
      BY <1>8, <2>2 DEF SetTtl, Dcdc
    <2>6. QED
      BY <1>8, <2>2, <2>4, <2>5 DEF SetTtl, TypeOK, net, history
  <1>9. CASE Report
    <2>1. reports' \in Seq(State)
      BY <1>9 DEF Report, TypeOK, State
    <2>2. QED
      BY <1>9, <2>1 DEF Report, TypeOK, net, history
  <1>10. CASE UNCHANGED vars
    BY <1>10 DEF vars, net, board, history, TypeOK
  <1>11. QED
    BY <1>1, <1>2, <1>3, <1>4, <1>5, <1>6, <1>7, <1>8, <1>9, <1>10 DEF Next, Operate
-------------------------------------------------------------------------------
(* Origins *)

\* The masks already sent stay as they are.
LEMMA KnownStays ==
    ASSUME TypeOK, start' = start,
           masks' = masks \/ \E m \in SUBSET Switches : masks' = Append(masks, m)
    PROVE  /\ Len(masks') \in Nat /\ Len(masks) \in Nat /\ Len(masks) <= Len(masks')
           /\ \A n \in 0 .. Len(masks) : MaskOf(n)' = MaskOf(n)
  <1>1. masks \in Seq(SUBSET Switches) /\ Len(masks) \in Nat
    BY DEF TypeOK
  <1>2. CASE masks' = masks
    BY <1>1, <1>2 DEF MaskOf
  <1>3. ASSUME NEW m \in SUBSET Switches, masks' = Append(masks, m)
        PROVE  /\ Len(masks') = Len(masks) + 1
               /\ \A n \in 1 .. Len(masks) : masks'[n] = masks[n]
    BY <1>1, <1>3
  <1>4. CASE \E m \in SUBSET Switches : masks' = Append(masks, m)
    BY <1>1, <1>3, <1>4 DEF MaskOf
  <1>5. QED
    BY <1>2, <1>4

\* What was known stays known.
LEMMA KnownKept ==
    ASSUME TypeOK, start' = start,
           masks' = masks \/ \E m \in SUBSET Switches : masks' = Append(masks, m)
    PROVE  /\ \A n, m : Known(n, m) => Known(n, m)'
           /\ \A r : Traced(r) => Traced(r)'
  <1>1. /\ Len(masks') \in Nat /\ Len(masks) \in Nat /\ Len(masks) <= Len(masks')
        /\ \A n \in 0 .. Len(masks) : MaskOf(n)' = MaskOf(n)
    BY KnownStays
  <1>2. \A n, m : Known(n, m) => Known(n, m)' /\ n \in 0 .. Len(masks)
    BY <1>1 DEF Known
  <1>3. ASSUME NEW r, Traced(r) PROVE Traced(r)'
    <2>1. Known(r.no, r.mask)'
      BY <1>2, <1>3 DEF Traced
    <2>2. CASE r.basis # -1
      <3>1. Known(r.basis, MaskOf(r.basis)) /\ r.mask = Toggle(MaskOf(r.basis), r.switch)
        BY <1>3, <2>2 DEF Traced
      <3>2. MaskOf(r.basis)' = MaskOf(r.basis)
        BY <1>1, <3>1 DEF Known
      <3>3. Known(r.basis, MaskOf(r.basis))'
        BY <1>1, <3>1, <3>2 DEF Known
      <3>4. QED
        BY <1>3, <2>1, <3>1, <3>2, <3>3 DEF Traced
    <2>3. CASE r.basis = -1
      BY <1>3, <2>1, <2>3 DEF Traced
    <2>4. QED
      BY <2>2, <2>3
  <1>4. QED
    BY <1>2, <1>3

\* A step sends one mask or none.
LEMMA MasksGrow ==
    ASSUME TypeOK, [Next]_vars
    PROVE  /\ start' = start
           /\ masks' = masks \/ \E m \in SUBSET Switches : masks' = Append(masks, m)
  <1>1. ASSUME NEW p \in Panels, NEW s \in Switches, Click(p, s)
        PROVE  masks' = masks \/ masks' = Append(masks, Mask(p, s))
    BY <1>1 DEF Click
  <1>2. ASSUME NEW p \in Panels, NEW s \in Switches, Click(p, s)
        PROVE  Mask(p, s) \in SUBSET Switches /\ start' = start
    BY <1>2, ClickCommand DEF Click
  <1>3. CASE \E p \in Panels : \E s \in Switches : Click(p, s)
    BY <1>1, <1>2, <1>3
  <1>4. CASE ~ \E p \in Panels : \E s \in Switches : Click(p, s)
    BY <1>4 DEF Next, Operate, Connect, Lose, AskCan, Show, Serve, Relay, SetTtl,
                Report, vars, history
  <1>5. QED
    BY <1>3, <1>4

\* What a click sends is traced: the panel's boxes are the mask of its number.
LEMMA ClickTraced ==
    ASSUME TypeOK, Origins, NEW p \in Panels, NEW s \in Switches, Click(p, s),
           link[p] = "open",
           NEW r, r = [cmd |-> "dcdc", mask |-> Mask(p, s), switch |-> s,
                       no |-> Len(masks) + 1, basis |-> basis[p]]
    PROVE  /\ masks' = Append(masks, r.mask) /\ Len(masks') = r.no
           /\ MaskOf(r.no)' = r.mask /\ Traced(r)'
  <1> DEFINE b == r.basis
             m == MaskOf(b)
  <1>1. /\ r.mask = Mask(p, s) /\ r.no = Len(masks) + 1 /\ b = basis[p]
        /\ r.switch = s
    OBVIOUS
  <1>2. r.mask \in SUBSET Switches
    BY <1>1, ClickCommand DEF Click
  <1>3. masks' = Append(masks, r.mask) /\ start' = start
    BY <1>1 DEF Click
  <1>4. /\ Len(masks) \in Nat /\ Len(masks') = r.no
        /\ masks'[r.no] = r.mask
    BY <1>1, <1>2, <1>3 DEF TypeOK
  <1>5. MaskOf(r.no)' = r.mask
    BY <1>1, <1>4 DEF MaskOf
  <1>6. r.no # 0 /\ Known(r.no, r.mask)'
    BY <1>1, <1>4, <1>5 DEF Known
  <1>7. ASSUME b # -1
        PROVE  Known(b, MaskOf(b))' /\ r.mask = Toggle(MaskOf(b), s)'
    <2>1. Known(b, boxes[p])
      BY <1>1, <1>7 DEF Origins, BoxesKnown
    <2>2. MaskOf(b)' = MaskOf(b) /\ b \in 0 .. Len(masks)
      BY <1>2, <1>3, <2>1, KnownStays DEF Known
    <2>3. Known(b, MaskOf(b))'
      BY <1>1, <1>4, <2>2 DEF Known
    <2>4. r.mask = Toggle(MaskOf(b), s)
      BY <1>1, <2>1 DEF Known, Mask, Toggled, Toggle
    <2>5. QED
      BY <2>2, <2>3, <2>4 DEF Toggle
  <1>8. QED
    BY <1>1, <1>3, <1>4, <1>5, <1>6, <1>7 DEF Traced

\* The outputs are a known mask at the start, and after a command a panel sent.
LEMMA OutputsStayKnown ==
    ASSUME TypeOK, Origins, [Next]_vars
    PROVE  OutputsKnown'
  <1>1. \A n, m : Known(n, m) => Known(n, m)'
    BY MasksGrow, KnownKept
  <1>2. CASE SetTtl
    <2>1. bus \in Seq(Dcdc) /\ bus # <<>>
      BY <1>2 DEF SetTtl, TypeOK
    <2>2. PICK r : r = Head(bus)
      OBVIOUS
    <2>3. Traced(r)
      BY <2>1, <2>2, HeadElement DEF Origins, BusTraced
    <2>4. Known(r.no, r.mask)'
      BY <1>1, <2>3 DEF Traced
    <2>5. ttl' = r.mask /\ obeyed' = r.no
      BY <1>2, <2>2 DEF SetTtl
    <2>6. QED
      BY <2>4, <2>5 DEF OutputsKnown, Known, MaskOf
  <1>3. CASE ~ SetTtl
    <2>1. ttl' = ttl /\ obeyed' = obeyed
      BY <1>3 DEF Next, Operate, Connect, Lose, AskCan, Click, Show, Serve, Relay,
                  Report, vars, board
    <2>2. Known(obeyed, ttl)
      BY DEF Origins, OutputsKnown
    <2>3. QED
      BY <1>1, <2>1, <2>2 DEF OutputsKnown, Known, MaskOf
  <1>4. QED
    BY <1>2, <1>3

\* A queue in which only known reports were keeps only those.
LEMMA ReportsStayKnown ==
    ASSUME TypeOK, Origins, [Next]_vars
    PROVE  ReportsKnown'
  <1>1. \A n, m : Known(n, m) => Known(n, m)'
    BY MasksGrow, KnownKept
  <1>2. SUFFICES ASSUME NEW i \in DOMAIN reports'
                 PROVE  \E n, m : Known(n, m) /\ reports'[i].no = n /\ reports'[i].mask = m
    BY <1>1 DEF ReportsKnown, Known, MaskOf
  <1>3. CASE reports' = reports
    BY <1>2, <1>3 DEF Origins, ReportsKnown
  <1>4. CASE Relay
    <2>1. reports \in Seq(State) /\ reports # <<>> /\ reports' = Tail(reports)
      BY <1>4 DEF Relay, TypeOK
    <2>2. i + 1 \in DOMAIN reports /\ reports'[i] = reports[i + 1]
      BY <1>2, <2>1, TailElement
    <2>3. QED
      BY <2>2 DEF Origins, ReportsKnown
  <1>5. CASE Report
    <2> DEFINE e == [mask |-> ttl, no |-> obeyed]
    <2>1. reports \in Seq(State) /\ e \in State /\ reports' = Append(reports, e)
      BY <1>5 DEF Report, TypeOK, State
    <2>2. (i \in DOMAIN reports /\ reports'[i] = reports[i]) \/ reports'[i] = e
      <3> HIDE DEF e
      <3>1. QED
        BY <1>2, <2>1, AppendElement
    <2>3. QED
      BY <2>2 DEF Origins, ReportsKnown, OutputsKnown
  <1>6. QED
    BY <1>3, <1>4, <1>5 DEF Next, Operate, Connect, Lose, AskCan, Click, Show, Serve,
                            SetTtl, vars, board

\* So does the text of each panel.
LEMMA TextStaysKnown ==
    ASSUME TypeOK, Origins, [Next]_vars
    PROVE  TextKnown'
  <1>1. \A n, m : Known(n, m) => Known(n, m)'
    BY MasksGrow, KnownKept
  <1>2. SUFFICES ASSUME NEW p \in Panels, NEW i \in DOMAIN text'[p]
                 PROVE  \E n, m : Known(n, m) /\ text'[p][i].no = n /\ text'[p][i].mask = m
    BY <1>1 DEF TextKnown, Known, MaskOf
  <1>3. text \in [Panels -> Seq(State)] /\ text[p] \in Seq(State)
    BY DEF TypeOK
  <1>4. CASE text'[p] = text[p]
    BY <1>2, <1>4 DEF Origins, TextKnown
  <1>5. ASSUME NEW q \in Panels, Lose(q) PROVE text'[p] = text[p]
    <2>1. text' = [text EXCEPT ![q] = <<>>]
      BY <1>5 DEF Lose
    <2>2. CASE q = p
      BY <1>2, <1>3, <2>1, <2>2
    <2>3. CASE q # p
      BY <1>3, <2>1, <2>3
    <2>4. QED
      BY <2>2, <2>3
  <1>6. ASSUME NEW q \in Panels, Show(q), text'[p] # text[p]
        PROVE  i + 1 \in DOMAIN text[p] /\ text'[p][i] = text[p][i + 1]
    <2>1. text' = [text EXCEPT ![q] = Tail(@)] /\ text[q] # <<>>
      BY <1>6 DEF Show
    <2>2. text'[p] = Tail(text[p]) /\ text[p] # <<>>
      BY <1>3, <1>6, <2>1
    <2>3. QED
      BY <1>2, <1>3, <2>2, TailElement
  <1>7. ASSUME Relay, text'[p] # text[p]
        PROVE  \/ i \in DOMAIN text[p] /\ text'[p][i] = text[p][i]
               \/ text'[p][i] = Head(reports)
    <2>1. text' = [text EXCEPT ![fdout] = Append(@, Head(reports))]
      BY <1>7 DEF Relay
    <2>2. text'[p] = Append(text[p], Head(reports))
      BY <1>3, <1>7, <2>1
    <2>3. Head(reports) \in State
      BY <1>7, HeadElement DEF Relay, TypeOK
    <2>4. QED
      BY <1>2, <1>3, <2>2, <2>3, AppendElement
  <1>8. Relay => Known(Head(reports).no, Head(reports).mask)
    BY HeadElement DEF Relay, TypeOK, Origins, ReportsKnown
  <1>9. CASE \E q \in Panels : Show(q)
    BY <1>4, <1>6, <1>9 DEF Origins, TextKnown
  <1>10. CASE Relay
    BY <1>4, <1>7, <1>8, <1>10 DEF Origins, TextKnown
  <1>11. CASE ~ Relay /\ ~ \E q \in Panels : Show(q)
    BY <1>4, <1>5, <1>11 DEF Next, Operate, Connect, AskCan, Click, Serve,
                             SetTtl, Report, vars, net
  <1>12. QED
    BY <1>9, <1>10, <1>11

\* What a panel has sent and the server has not read is traced.
LEMMA RequestsStayTraced ==
    ASSUME TypeOK, Origins, [Next]_vars
    PROVE  RequestsTraced'
  <1> DEFINE R == Dcdc \cup [cmd : {"can"}]
  <1>1. \A r : Traced(r) => Traced(r)'
    BY MasksGrow, KnownKept
  <1>2. SUFFICES ASSUME NEW p \in Panels, NEW i \in DOMAIN requests'[p],
                        NEW r, r = requests'[p][i], r.cmd = "dcdc"
                 PROVE  Traced(r)'
    BY DEF RequestsTraced, Traced, Known, MaskOf
  <1>3. requests \in [Panels -> Seq(R)] /\ requests[p] \in Seq(R)
    BY DEF TypeOK
  <1>4. ASSUME NEW j \in DOMAIN requests[p], r = requests[p][j] PROVE Traced(r)'
    BY <1>1, <1>2, <1>4 DEF Origins, RequestsTraced
  <1>5. CASE requests'[p] = requests[p]
    BY <1>2, <1>4, <1>5
  <1>6. ASSUME NEW q \in Panels, NEW e \in R, Send(q, e), requests'[p] # requests[p]
        PROVE  /\ q = p /\ link[p] = "open"
               /\ (\E j \in DOMAIN requests[p] : r = requests[p][j]) \/ r = e
    <2>1. link[q] = "open" /\ requests' = [requests EXCEPT ![q] = Append(@, e)]
      BY <1>6 DEF Send
    <2>2. q = p /\ requests'[p] = Append(requests[p], e)
      BY <1>3, <1>6, <2>1
    <2> HIDE DEF R
    <2>3. QED
      BY <1>2, <1>3, <2>1, <2>2, AppendElement
  <1>7. CASE \E q \in Panels : AskCan(q)
    <2>1. PICK q \in Panels : AskCan(q)
      BY <1>7
    <2>2. [cmd |-> "can"] \in R /\ Send(q, [cmd |-> "can"])
      BY <2>1 DEF AskCan
    <2>3. r # [cmd |-> "can"]
      BY <1>2
    <2> HIDE DEF R
    <2>4. QED
      BY <1>4, <1>5, <1>6, <2>2, <2>3
  <1>8. CASE \E q \in Panels : \E s \in Switches : Click(q, s)
    <2>1. PICK q \in Panels, s \in Switches : Click(q, s)
      BY <1>8
    <2>2. PICK e : e = [cmd |-> "dcdc", mask |-> Mask(q, s), switch |-> s,
                        no |-> Len(masks) + 1, basis |-> basis[q]]
      OBVIOUS
    <2>3. e \in Dcdc /\ Send(q, e)
      BY <2>1, <2>2, ClickCommand DEF Click
    <2>4. CASE requests'[p] # requests[p]
      <3>1. q = p /\ link[q] = "open"
        BY <1>6, <2>3, <2>4
      <3>2. Traced(e)'
        BY <2>1, <2>2, <3>1, ClickTraced
      <3>3. (\E j \in DOMAIN requests[p] : r = requests[p][j]) \/ r = e
        BY <1>6, <2>3, <2>4
      <3>4. CASE r = e
        BY <3>2, <3>4
      <3>5. QED
        BY <1>4, <3>3, <3>4
    <2>5. QED
      BY <1>5, <2>4
  <1>9. CASE \E q \in Panels : Serve(q)
    <2>1. PICK q \in Panels : Serve(q)
      BY <1>9
    <2>2. requests' = [requests EXCEPT ![q] = Tail(@)] /\ requests[q] # <<>>
      BY <2>1 DEF Serve
    <2>3. CASE requests'[p] # requests[p]
      <3>1. requests'[p] = Tail(requests[p]) /\ requests[p] # <<>>
        BY <1>3, <2>2, <2>3
      <3> HIDE DEF R
      <3>2. i + 1 \in DOMAIN requests[p] /\ r = requests[p][i + 1]
        BY <1>2, <1>3, <3>1, TailElement
      <3>3. QED
        BY <1>4, <3>2
    <2>4. QED
      BY <1>5, <2>3
  <1>10. CASE \E q \in Panels : Lose(q)
    <2>1. PICK q \in Panels : Lose(q)
      BY <1>10
    <2>2. requests' = [requests EXCEPT ![q] = <<>>] \/ requests' = requests
      BY <2>1 DEF Lose
    <2>3. requests'[p] = requests[p] \/ requests'[p] = <<>>
      BY <1>3, <2>2
    <2>4. requests'[p] # <<>>
      BY <1>2
    <2>5. QED
      BY <1>5, <2>3, <2>4
  <1>11. CASE UNCHANGED requests
    BY <1>5, <1>11
  <1>12. QED
    BY <1>7, <1>8, <1>9, <1>10, <1>11
       DEF Next, Operate, Connect, Show, Relay, SetTtl, Report, vars, net

\* So is what the server puts on the bus.
LEMMA BusStaysTraced ==
    ASSUME TypeOK, Origins, [Next]_vars
    PROVE  BusTraced'
  <1> DEFINE R == Dcdc \cup [cmd : {"can"}]
  <1>1. \A r : Traced(r) => Traced(r)'
    BY MasksGrow, KnownKept
  <1>2. SUFFICES ASSUME NEW i \in DOMAIN bus', NEW r, r = bus'[i]
                 PROVE  Traced(r)'
    BY DEF BusTraced, Traced, Known, MaskOf
  <1>3. ASSUME NEW j \in DOMAIN bus, r = bus[j] PROVE Traced(r)'
    BY <1>1, <1>3 DEF Origins, BusTraced
  <1>4. CASE bus' = bus
    BY <1>2, <1>3, <1>4
  <1>5. CASE \E p \in Panels : Serve(p)
    <2>1. PICK p \in Panels : Serve(p)
      BY <1>5
    <2>2. CASE bus' # bus
      <3> DEFINE e == Head(requests[p])
      <3>1. e.cmd = "dcdc" /\ bus' = Append(bus, e)
        BY <2>1, <2>2 DEF Serve
      <3>2. requests[p] \in Seq(R) /\ requests[p] # <<>>
        BY <2>1 DEF Serve, TypeOK
      <3>3. e \in R /\ 1 \in DOMAIN requests[p] /\ e = requests[p][1]
        <4> HIDE DEF R
        <4>1. QED
          BY <3>2, HeadElement
      <3>4. e \in Dcdc /\ Traced(e)
        BY <3>1, <3>3 DEF Origins, RequestsTraced
      <3>5. bus \in Seq(Dcdc)
        BY DEF TypeOK
      <3> HIDE DEF e
      <3>6. (i \in DOMAIN bus /\ r = bus[i]) \/ r = e
        BY <1>2, <3>1, <3>4, <3>5, AppendElement
      <3>7. QED
        BY <1>1, <1>3, <3>4, <3>6
    <2>3. QED
      BY <1>4, <2>2
  <1>6. CASE SetTtl
    <2>1. bus \in Seq(Dcdc) /\ bus # <<>> /\ bus' = Tail(bus)
      BY <1>6 DEF SetTtl, TypeOK
    <2>2. i + 1 \in DOMAIN bus /\ r = bus[i + 1]
      BY <1>2, <2>1, TailElement
    <2>3. QED
      BY <1>3, <2>2
  <1>7. QED
    BY <1>4, <1>5, <1>6 DEF Next, Operate, Connect, Lose, AskCan, Click, Show,
                            Relay, Report, vars, board

\* A connected panel that has shown a report displays a mask it knows the number
\* of: that of the report, or the one it sent last.
LEMMA BoxesStayKnown ==
    ASSUME TypeOK, Origins, [Next]_vars
    PROVE  BoxesKnown'
  <1>1. \A n, m : Known(n, m) => Known(n, m)'
    BY MasksGrow, KnownKept
  <1>2. SUFFICES ASSUME NEW p \in Panels
                 PROVE  /\ (link'[p] = "open" /\ basis'[p] # -1)
                               => \E n, m : Known(n, m)' /\ basis'[p] = n /\ boxes'[p] = m
                        /\ link'[p] = "closed" => basis'[p] = -1
    BY DEF BoxesKnown, Known, MaskOf
  <1>3. /\ link[p] = "open" /\ basis[p] # -1 => Known(basis[p], boxes[p])
        /\ link[p] = "closed" => basis[p] = -1
    BY DEF Origins, BoxesKnown
  <1>4. CASE UNCHANGED <<link, basis, boxes>>
    BY <1>1, <1>3, <1>4
  <1>5. CASE \E q \in Panels : Connect(q)
    <2>1. PICK q \in Panels : Connect(q)
      BY <1>5
    <2>2. basis' = basis /\ boxes' = boxes
      BY <2>1 DEF Connect, history
    <2>3. link'[p] = link[p] \/ (link[p] = "closed" /\ link'[p] # "closed")
      BY <2>1 DEF Connect, TypeOK
    <2>4. QED
      BY <1>1, <1>3, <2>2, <2>3
  <1>6. CASE \E q \in Panels : Lose(q)
    <2>1. PICK q \in Panels : Lose(q)
      BY <1>6
    <2>2. /\ basis' = basis /\ boxes' = boxes
          /\ link'[p] = link[p] \/ link'[p] = "lost"
      BY <2>1 DEF Lose, TypeOK, history
    <2>3. QED
      BY <1>1, <1>3, <2>2
  <1>7. CASE \E q \in Panels : \E s \in Switches : Click(q, s)
    <2>1. PICK q \in Panels, s \in Switches : Click(q, s)
      BY <1>7
    <2>2. link' = link /\ boxes' = [boxes EXCEPT ![q] = Toggled(q, s)]
      BY <2>1 DEF Click
    <2>3. CASE link[q] = "open"
      <3>1. PICK r : r = [cmd |-> "dcdc", mask |-> Mask(q, s), switch |-> s,
                          no |-> Len(masks) + 1, basis |-> basis[q]]
        OBVIOUS
      <3>2. Traced(r)' /\ r.mask = Mask(q, s) /\ r.no = Len(masks) + 1
        BY <2>1, <2>3, <3>1, ClickTraced
      <3>3. Known(r.no, r.mask)'
        BY <3>2 DEF Traced
      <3>4. basis' = [basis EXCEPT ![q] = IF @ = -1 THEN -1 ELSE r.no]
        BY <2>1, <2>3, <3>2 DEF Click
      <3>5. CASE p = q
        <4>1. boxes'[p] = r.mask
          BY <2>2, <3>2, <3>5 DEF TypeOK, Mask
        <4>2. basis'[p] = -1 \/ basis'[p] = r.no
          BY <3>4, <3>5 DEF TypeOK
        <4>3. QED
          BY <2>2, <2>3, <3>3, <3>5, <4>1, <4>2
      <3>6. CASE p # q
        <4>1. boxes'[p] = boxes[p] /\ basis'[p] = basis[p]
          BY <2>2, <3>4, <3>6 DEF TypeOK
        <4>2. QED
          BY <1>1, <1>3, <2>2, <4>1
      <3>7. QED
        BY <3>5, <3>6
    <2>4. CASE link[q] # "open"
      <3>1. basis' = basis /\ (p # q => boxes'[p] = boxes[p])
        BY <2>1, <2>2, <2>4 DEF Click, TypeOK
      <3>2. QED
        BY <1>1, <1>3, <2>2, <2>4, <3>1
    <2>5. QED
      BY <2>3, <2>4
  <1>8. CASE \E q \in Panels : Show(q)
    <2>1. PICK q \in Panels : Show(q)
      BY <1>8
    <2>2. text[q] \in Seq(State) /\ text[q] # <<>>
      BY <2>1 DEF Show, TypeOK
    <2>3. PICK r : r = Head(text[q])
      OBVIOUS
    <2>4. Known(r.no, r.mask)
      BY <2>2, <2>3, HeadElement DEF Origins, TextKnown
    <2>5. /\ link' = link /\ link[q] = "open"
          /\ boxes' = [boxes EXCEPT ![q] = r.mask]
          /\ basis' = [basis EXCEPT ![q] = r.no]
      BY <2>1, <2>3 DEF Show, Shown
    <2>6. CASE p = q
      <3>1. boxes'[p] = r.mask /\ basis'[p] = r.no
        BY <2>5, <2>6 DEF TypeOK
      <3>2. QED
        BY <1>1, <2>4, <2>5, <2>6, <3>1
    <2>7. CASE p # q
      <3>1. boxes'[p] = boxes[p] /\ basis'[p] = basis[p]
        BY <2>5, <2>7 DEF TypeOK
      <3>2. QED
        BY <1>1, <1>3, <2>5, <3>1
    <2>8. QED
      BY <2>6, <2>7
  <1>9. QED
    BY <1>4, <1>5, <1>6, <1>7, <1>8
       DEF Next, Operate, AskCan, Serve, Relay, SetTtl, Report, vars, net, history

\* A click on a display that has been reported changes the clicked switch only.
LEMMA MasksStayAlike ==
    ASSUME TypeOK, Origins, [Next]_vars
    PROVE  MasksAgree'
  <1>1. /\ Len(masks') \in Nat /\ Len(masks) \in Nat /\ Len(masks) <= Len(masks')
        /\ \A n \in 0 .. Len(masks) : MaskOf(n)' = MaskOf(n)
        /\ start' = start
    BY MasksGrow, KnownStays
  <1>2. CASE \E p \in Panels : \E s \in Switches : Click(p, s)
    <2>1. PICK p \in Panels, s \in Switches : Click(p, s)
      BY <1>2
    <2>2. clicked' = clicked \cup {s}
      BY <2>1 DEF Click
    <2>3. ~ blind' => ~ blind /\ basis[p] # -1
      BY <2>1 DEF Click
    <2>4. ASSUME ~ blind, basis[p] # -1,
                 NEW n \in 0 .. Len(masks'), NEW t \in Switches \ (clicked \cup {s})
          PROVE  \E m : m = MaskOf(n)' /\ (t \in m <=> t \in start)
      <3>1. CASE n \in 0 .. Len(masks)
        BY <1>1, <2>4, <3>1 DEF Origins, MasksAgree
      <3>2. CASE n \notin 0 .. Len(masks)
        <4>1. link[p] = "open"
          BY <2>1, <2>4, <3>2 DEF Click
        <4>2. PICK r : r = [cmd |-> "dcdc", mask |-> Mask(p, s), switch |-> s,
                            no |-> Len(masks) + 1, basis |-> basis[p]]
          OBVIOUS
        <4>3. Len(masks') = r.no /\ MaskOf(r.no)' = r.mask /\ r.no = Len(masks) + 1
          BY <2>1, <4>1, <4>2, ClickTraced
        <4>4. n = r.no
          BY <1>1, <2>4, <3>2, <4>3
        <4>5. Known(basis[p], boxes[p])
          BY <2>4, <4>1 DEF Origins, BoxesKnown
        <4>6. t \in boxes[p] <=> t \in start
          BY <2>4, <4>5 DEF Origins, MasksAgree, Known
        <4>7. t \in r.mask <=> t \in boxes[p]
          BY <2>4, <4>2 DEF Mask, Toggled
        <4>8. QED
          BY <4>3, <4>4, <4>6, <4>7
      <3>3. QED
        BY <3>1, <3>2
    <2>5. QED
      BY <1>1, <2>2, <2>3, <2>4 DEF MasksAgree
  <1>3. CASE ~ \E p \in Panels : \E s \in Switches : Click(p, s)
    <2>1. masks' = masks /\ clicked' = clicked
      BY <1>3 DEF Next, Operate, Connect, Lose, AskCan, Show, Serve, Relay, SetTtl,
                  Report, vars, history
    <2>2. blind' = blind
      BY <1>3 DEF Next, Operate, Connect, Lose, AskCan, Show, Serve, Relay, SetTtl,
                  Report, vars, history
    <2>3. QED
      BY <1>1, <2>1, <2>2 DEF Origins, MasksAgree
  <1>4. QED
    BY <1>2, <1>3

\* At the start the board has the outputs with the number 0, and nothing else
\* has any.
LEMMA InitOrigins == Init => Origins
  <1> SUFFICES ASSUME Init PROVE Origins
    OBVIOUS
  <1>1. Len(masks) = 0 /\ obeyed = 0 /\ ttl = start
    BY DEF Init
  <1>2. OutputsKnown
    BY <1>1 DEF OutputsKnown, Known, MaskOf
  <1>3. ReportsKnown /\ BusTraced
    BY DEF Init, ReportsKnown, BusTraced
  <1>4. TextKnown /\ RequestsTraced
    BY DEF Init, TextKnown, RequestsTraced
  <1>5. BoxesKnown
    BY DEF Init, BoxesKnown
  <1>6. MasksAgree
    BY <1>1 DEF MasksAgree, MaskOf
  <1>7. QED
    BY <1>2, <1>3, <1>4, <1>5, <1>6 DEF Origins

\* The invariant holds of every state.
LEMMA AlwaysKnown == Spec => [](TypeOK /\ Origins)
  <1>1. Init => TypeOK /\ Origins
    BY InitTypes, InitOrigins
  <1>2. TypeOK /\ Origins /\ [Next]_vars => (TypeOK /\ Origins)'
    BY NextTypes, OutputsStayKnown, ReportsStayKnown, TextStaysKnown, BusStaysTraced,
       RequestsStayTraced, BoxesStayKnown, MasksStayAlike DEF Origins
  <1>3. QED
    BY <1>1, <1>2, PTL DEF Spec

-------------------------------------------------------------------------------
(* Theorems *)

\* The GUIs, the server and the board keep their types; nothing is on its way
\* from or to a panel that is not connected.
THEOREM TypeCorrect == Spec => []TypeOK
  BY AlwaysKnown, PTL

\* btn_dcdc_clicked() and what is behind it switch no output that nobody
\* clicked, unless a panel was used before its first report.
THEOREM UnclickedStaysSo == Spec => []UnclickedStay
  <1>1. TypeOK /\ Origins => UnclickedStay
    <2> SUFFICES ASSUME TypeOK, Origins, ~ blind, NEW s \in Switches \ clicked
                 PROVE  s \in ttl <=> s \in start
      BY DEF UnclickedStay
    <2>1. Known(obeyed, ttl)
      BY DEF Origins, OutputsKnown
    <2>2. QED
      BY <2>1 DEF Origins, MasksAgree, Known
  <1>2. QED
    BY <1>1, AlwaysKnown, PTL

\* A command whose panel displayed the mask the board obeyed last switches the
\* output that was clicked, and no other.
THEOREM ClickSwitchesOneOutput == Spec => ClickSwitchesOne
  <1>1. TypeOK /\ Origins /\ [Next]_vars
           => [(bus # <<>> /\ bus' = Tail(bus) /\ Head(bus).basis = obeyed)
                  => Changed = {Head(bus).switch}]_vars
    <2>1. SUFFICES ASSUME TypeOK, Origins, Next,
                          bus # <<>>, bus' = Tail(bus), Head(bus).basis = obeyed
                   PROVE  Changed = {Head(bus).switch}
      OBVIOUS
    <2>2. bus \in Seq(Dcdc)
      BY <2>1 DEF TypeOK
    <2>3. Len(bus) \in Nat /\ Len(bus') = Len(bus) - 1
      BY <2>1, <2>2
    <2>4. bus' # bus
      BY <2>3
    <2>5. SetTtl
      <3>1. ASSUME NEW p \in Panels, Serve(p) PROVE FALSE
        <4>1. bus' = Append(bus, Head(requests[p]))
          BY <2>4, <3>1 DEF Serve
        <4>2. Len(bus') = Len(bus) + 1
          BY <2>2, <4>1
        <4>3. QED
          BY <2>3, <4>2
      <3>2. QED
        BY <2>1, <2>4, <3>1 DEF Next, Operate, Connect, Lose, AskCan, Click, Show,
                                Relay, Report, board
    <2>6. 1 \in DOMAIN bus /\ Head(bus) = bus[1] /\ Head(bus) \in Dcdc
      BY <2>1, <2>2, HeadElement
    <2>7. Traced(Head(bus))
      BY <2>1, <2>6 DEF Origins, BusTraced
    <2>8. ttl = MaskOf(obeyed) /\ obeyed # -1
      BY <2>1 DEF Origins, OutputsKnown, Known, TypeOK
    <2>9. ttl' = Toggle(ttl, Head(bus).switch)
      BY <2>1, <2>5, <2>7, <2>8 DEF SetTtl, Traced
    <2>10. Head(bus).switch \in Switches
      BY <2>6 DEF Dcdc
    <2>11. QED
      BY <2>9, <2>10 DEF Toggle, Changed
  <1>2. QED
    BY <1>1, AlwaysKnown, PTL DEF Spec, ClickSwitchesOne
=============================================================================
