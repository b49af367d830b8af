----------------------------- MODULE SpiProofs ------------------------------
(***************************************************************************)
(* Proofs about Spi.tla, for every width of the data words, every set of   *)
(* slots and whatever is plugged into them, every start-up delay and every *)
(* set of dividers.                                                        *)
(***************************************************************************)
EXTENDS Spi, TLAPS

\* While a transfer runs there is a bit left to exchange, until it is done.
Counting ==
  /\ state \in {"STARTED", "SELECTED", "BUSY"} => remaining >= 1
  /\ state = "DONE" => remaining = 0

\* The bits exchanged so far and the bits that are left make up the character;
\* the ones exchanged have been taken from one end of it and the slave's
\* answers have come in at the other.
ExchangeLSB ==
  /\ \A b \in 0 .. width - 1 :
       data[b] = IF b + Len(got) < width THEN tx[b + Len(got)]
                 ELSE got[b + Len(got) - width + 1]
  /\ \A k \in 1 .. Len(got) : sent[k] = tx[k - 1]
ExchangeMSB ==
  /\ \A b \in 0 .. width - 1 :
       data[b] = IF b >= Len(got) THEN tx[b - Len(got)] ELSE got[Len(got) - b]
  /\ \A k \in 1 .. Len(got) : sent[k] = tx[width - k]
Exchange ==
  state # "RESET" /\ width # 0 =>
    /\ Len(sent) = Len(got) /\ Len(got) + remaining = width
    /\ ctrl.LSB => ExchangeLSB
    /\ ~ctrl.LSB => ExchangeMSB

Inv == TypeOK /\ GoMirrorsState /\ Counting /\ LineFollowsSS /\ Exchange


\* The sizes of the registers.
LEMMA Sizes == DataBits \in Nat /\ DataBits > 0
BY WordBitsAssumption DEF DataBits

\* The parts of the type invariant, by the kind of value: numbers, places in
\* the code, bits, select lines and the control register.
Numbers == /\ dividend \in Nat /\ cyc \in 0 .. InitCycles + 1 /\ remaining \in 0 .. DataBits
           /\ divider \in Dividers
Places  == /\ state \in {"RESET", "STARTED", "SELECTED", "BUSY", "DONE"}
           /\ stage \in {"insn", "cycle"}
           /\ halted \in {"no", "GO_BSY", "one-hot", "traffic"}
Bits    == data \in Data /\ tx \in Data /\ sent \in Seq(Bit) /\ got \in Seq(Bit)
Lines   == SS \subseteq Insts /\ line \in [Insts -> BOOLEAN] /\ assMoved \in BOOLEAN
Control == ctrl \in Ctrl

LEMMA TypeParts == TypeOK <=> Numbers /\ Places /\ Bits /\ Lines /\ Control
BY Zenon DEF TypeOK, Numbers, Places, Bits, Lines, Control

LEMMA InitInv == Init => Inv
<1> SUFFICES ASSUME Init PROVE Inv
  OBVIOUS
<1>1. Numbers
  BY Sizes, InitCyclesAssumption, DividersAssumption DEF Init, Numbers
<1>2. Places /\ Counting
  BY DEF Init, Places, Counting
<1>3. Zero \in Data
  BY Sizes DEF Zero, Data, Bit
<1>4. Bits
  BY <1>3 DEF Init, Bits
<1>5. Lines
  BY DEF Init, Lines
<1>6. Control /\ GoMirrorsState
  BY Sizes DEF Init, Control, Ctrl, GoMirrorsState
<1>7. LineFollowsSS
  BY DEF Init, LineFollowsSS
<1>8. Exchange
  BY DEF Init, Exchange
<1>9. QED
  BY <1>1, <1>2, <1>4, <1>5, <1>6, <1>7, <1>8, TypeParts DEF Inv

\* An instruction that leaves the registers alone.
LEMMA OtherInsnInv == Inv /\ OtherInsn => Inv'
<1> SUFFICES ASSUME Inv, OtherInsn PROVE Inv'
  OBVIOUS
<1> USE DEF OtherInsn, Insn, regs, history
<1>1. Numbers' /\ Places' /\ Bits' /\ Lines' /\ Control'
  BY TypeParts DEF Inv, Numbers, Places, Bits, Lines, Control
<1>2. GoMirrorsState' /\ Counting'
  BY DEF Inv, GoMirrorsState, Counting
<1>3. LineFollowsSS'
  BY DEF Inv, LineFollowsSS, Running
<1>4. Exchange'
  BY DEF Inv, Exchange, ExchangeLSB, ExchangeMSB, width
<1>5. QED
  BY <1>1, <1>2, <1>3, <1>4, TypeParts, PTL DEF Inv

\* What does not move bits, and leaves the registers of a transfer alone,
\* leaves the exchange as it is.
LEMMA ExchangeFrame ==
  ASSUME Exchange, UNCHANGED <<remaining, data, ctrl, tx, sent, got>>,
         state' # "RESET" => state # "RESET"
  PROVE  Exchange'
BY DEF Exchange, ExchangeLSB, ExchangeMSB, width

\* A write to a data word, outside a transfer.
LEMMA WriteDataInv ==
  ASSUME Inv, NEW n \in 0 .. 3, NEW v \in [0 .. WordBits - 1 -> Bit], WriteData(n, v)
  PROVE  Inv'
<1> USE DEF WriteData, Insn, history
<1>1. data' \in Data
  <2>1. data \in [0 .. DataBits - 1 -> Bit]
    BY TypeParts DEF Inv, Bits, Data
  <2>2. \A b \in Nat : b % WordBits \in 0 .. WordBits - 1
    BY WordBitsAssumption
  <2>3. \A b \in 0 .. DataBits - 1 : v[b % WordBits] \in Bit
    <3>1. 0 .. DataBits - 1 \subseteq Nat
      BY Sizes
    <3>2. QED
      BY <2>2, <3>1
  <2>4. data' = [b \in 0 .. DataBits - 1 |-> IF b \div WordBits = n THEN v[b % WordBits]
                                             ELSE data[b]]
    BY <2>1
  <2>5. QED
    BY <2>1, <2>3, <2>4, Zenon DEF Data
<1>2. Numbers' /\ Places' /\ Bits' /\ Lines' /\ Control'
  BY <1>1, TypeParts DEF Inv, Numbers, Places, Bits, Lines, Control
<1>3. GoMirrorsState' /\ Counting'
  BY DEF Inv, GoMirrorsState, Counting
<1>4. LineFollowsSS'
  BY DEF Inv, LineFollowsSS, Running
<1>5. Exchange'
  BY DEF Accepts, Exchange
<1>6. QED
  BY <1>1, <1>2, <1>3, <1>4, <1>5, TypeParts, PTL DEF Inv

\* A write to DIVIDER, outside a transfer.
LEMMA WriteDividerInv ==
  ASSUME Inv, NEW v \in Dividers, WriteDivider(v)
  PROVE  Inv'
<1> USE DEF WriteDivider, Insn, history
<1>1. Numbers' /\ Places' /\ Bits' /\ Lines' /\ Control'
  BY TypeParts DEF Inv, Numbers, Places, Bits, Lines, Control
<1>2. GoMirrorsState' /\ Counting'
  BY DEF Inv, GoMirrorsState, Counting
<1>3. LineFollowsSS'
  BY DEF Inv, LineFollowsSS, Running
<1>4. Exchange'
  BY DEF Accepts, Exchange
<1>5. QED
  BY <1>1, <1>2, <1>3, <1>4, TypeParts, PTL DEF Inv

\* A write to SS, outside a transfer: the callbacks it makes keep the lines in step.
LEMMA WriteSSInv ==
  ASSUME Inv, NEW v \in SUBSET Insts, WriteSS(v)
  PROVE  Inv'
<1> USE DEF WriteSS, Insn, history
<1>1. ASSUME NEW i \in Insts PROVE line'[i] \in BOOLEAN
  <2>1. line[i] \in BOOLEAN
    BY TypeParts DEF Inv, Lines
  <2>2. CASE i \in v
    BY <2>1, <2>2, Zenon
  <2>3. CASE i \notin v
    <3>1. (i \in v) = FALSE
      BY <2>3
    <3>2. QED
      BY <2>1, <3>1, Zenon
  <2>4. QED
    BY <2>2, <2>3, Zenon
<1>2. line' = [i \in Insts |-> line'[i]] /\ SS' \subseteq Insts
  BY TypeParts DEF Inv, Lines
<1>3. Lines'
  BY <1>1, <1>2, TypeParts, Zenon DEF Inv, Lines
<1>4. Numbers' /\ Places' /\ Bits' /\ Control'
  BY TypeParts DEF Inv, Numbers, Places, Bits, Control
<1>5. GoMirrorsState' /\ Counting'
  BY DEF Inv, GoMirrorsState, Counting
<1>6. LineFollowsSS'
  BY TypeParts, SlotsAssumption DEF Inv, Lines, LineFollowsSS, Running, Accepts
<1>7. Exchange'
  BY DEF Accepts, Exchange
<1>8. QED
  BY <1>1, <1>2, <1>3, <1>4, <1>5, <1>6, <1>7, TypeParts, PTL DEF Inv

\* A write to CTRL, outside a transfer, that may start one.
LEMMA WriteCtrlInv ==
  ASSUME Inv, NEW c \in Ctrl, WriteCtrl(c)
  PROVE  Inv'
<1> USE DEF WriteCtrl, Insn
<1>1. state = "RESET" /\ ~ctrl.GO_BSY
  BY DEF Inv, GoMirrorsState, Accepts
<1>2. ASSUME c.GO_BSY PROVE c = [ctrl EXCEPT !.GO_BSY = TRUE]
  BY <1>1, <1>2, TypeParts DEF Inv, Control, Ctrl, SameOthers
<1>3. ASSUME c.GO_BSY PROVE c.CHAR_LEN = ctrl.CHAR_LEN /\ c.ASS = ctrl.ASS
  BY <1>2, <1>3, TypeParts DEF Inv, Control, Ctrl
<1>4. remaining' \in 0 .. DataBits /\ (c.GO_BSY => remaining' >= 1)
  BY Sizes, TypeParts DEF Inv, Numbers, Control, Ctrl
<1>5. Numbers' /\ Places'
  BY <1>4, TypeParts DEF Inv, Numbers, Places
<1>6. <<>> \in Seq(Bit)
  OBVIOUS
<1>7. Bits'
  <2>1. CASE c.GO_BSY
    BY <1>6, <2>1, TypeParts DEF Inv, Bits
  <2>2. CASE ~c.GO_BSY
    BY <2>2, TypeParts DEF Inv, Bits
  <2>3. QED
    BY <2>1, <2>2
<1>8. Lines' /\ Control'
  BY TypeParts DEF Inv, Lines, Control
<1>9. GoMirrorsState' /\ Counting'
  BY <1>1, <1>4 DEF Inv, GoMirrorsState, Counting
<1>10. LineFollowsSS'
  BY <1>1, <1>3, TypeParts DEF Inv, Lines, LineFollowsSS, Running, Control, Ctrl
<1>11. Exchange'
  BY <1>1, <1>3, Sizes, TypeParts, SMTT(30)
    DEF Inv, Exchange, ExchangeLSB, ExchangeMSB, width, Control, Ctrl, Bits, Data
<1>12. QED
  BY <1>1, <1>2, <1>3, <1>4, <1>5, <1>6, <1>7, <1>8, <1>9, <1>10, <1>11, TypeParts, PTL DEF Inv

\* The three breakpoints: nothing but the simulation stops.
LEMMA HaltingInv ==
  ASSUME Inv, (\E c \in Ctrl : WriteCtrlMixed(c)) \/ CycleNotOneHot \/ (\E i \in Insts : CycleTraffic(i))
  PROVE  Inv'
<1> USE DEF WriteCtrlMixed, CycleNotOneHot, CycleTraffic, Cycle, Insn, regs, history
<1>1. cyc' \in 0 .. InitCycles + 1
  BY InitCyclesAssumption, TypeParts DEF Inv, Numbers
<1>2. Numbers' /\ Places' /\ Bits' /\ Lines' /\ Control'
  BY <1>1, TypeParts DEF Inv, Numbers, Places, Bits, Lines, Control
<1>3. GoMirrorsState' /\ Counting'
  BY DEF Inv, GoMirrorsState, Counting
<1>4. LineFollowsSS'
  BY DEF LineFollowsSS, Running
<1>5. Exchange'
  BY ExchangeFrame DEF Inv
<1>6. QED
  BY <1>1, <1>2, <1>3, <1>4, <1>5, TypeParts, PTL DEF Inv

\* The cycles in which a transfer does not move.
LEMMA WaitingInv ==
  ASSUME Inv, Divide \/ CycleIdle
  PROVE  Inv'
<1> USE DEF Divide, CycleIdle, Cycle, regs, history
<1>1. cyc' \in 0 .. InitCycles + 1 /\ dividend' \in Nat
  BY InitCyclesAssumption, TypeParts DEF Inv, Numbers
<1>2. Numbers' /\ Places' /\ Bits' /\ Lines' /\ Control'
  BY <1>1, TypeParts DEF Inv, Numbers, Places, Bits, Lines, Control
<1>3. GoMirrorsState' /\ Counting'
  BY DEF Inv, GoMirrorsState, Counting
<1>4. LineFollowsSS'
  BY DEF Inv, LineFollowsSS, Running
<1>5. Exchange'
  BY ExchangeFrame DEF Inv
<1>6. QED
  BY <1>1, <1>2, <1>3, <1>4, <1>5, TypeParts, PTL DEF Inv

\* The slave is selected.
LEMMA CycleStartedInv ==
  ASSUME Inv, NEW i \in Insts, CycleStarted(i)
  PROVE  Inv'
<1> USE DEF CycleStarted, Cycle, regs
<1>1. cyc' \in 0 .. InitCycles + 1
  BY InitCyclesAssumption, TypeParts DEF Inv, Numbers
<1>2. Lines'
  BY TypeParts DEF Inv, Lines
<1>3. Numbers' /\ Places' /\ Bits' /\ Control'
  BY <1>1, TypeParts DEF Inv, Numbers, Places, Bits, Control
<1>4. GoMirrorsState' /\ Counting'
  BY DEF Inv, GoMirrorsState, Counting
<1>5. LineFollowsSS'
  BY TypeParts DEF Inv, Lines, LineFollowsSS, Running, Selected
<1>6. Exchange'
  BY ExchangeFrame DEF Inv
<1>7. QED
  BY <1>1, <1>2, <1>3, <1>4, <1>5, <1>6, TypeParts, PTL DEF Inv

\* The slave gets ready.
LEMMA CycleSelectedInv ==
  ASSUME Inv, NEW i \in Insts, CycleSelected(i)
  PROVE  Inv'
<1> USE DEF CycleSelected, Cycle, regs
<1>1. cyc' \in 0 .. InitCycles + 1
  BY InitCyclesAssumption, TypeParts DEF Inv, Numbers
<1>2. Numbers' /\ Places' /\ Bits' /\ Lines' /\ Control'
  BY <1>1, TypeParts DEF Inv, Numbers, Places, Bits, Lines, Control
<1>3. GoMirrorsState' /\ Counting'
  BY DEF Inv, GoMirrorsState, Counting
<1>4. LineFollowsSS'
  BY DEF Inv, LineFollowsSS, Running
<1>5. Exchange'
  BY ExchangeFrame DEF Inv
<1>6. QED
  BY <1>1, <1>2, <1>3, <1>4, <1>5, TypeParts, PTL DEF Inv

\* The slave is released and GO_BSY cleared.
LEMMA CycleDoneInv ==
  ASSUME Inv, NEW i \in Insts, CycleDone(i)
  PROVE  Inv'
<1> USE DEF CycleDone, Cycle
<1>1. cyc' \in 0 .. InitCycles + 1
  BY InitCyclesAssumption, TypeParts DEF Inv, Numbers
<1>2. Lines'
  BY TypeParts DEF Inv, Lines, Release
<1>3. Zero \in Data
  BY Sizes DEF Zero, Data, Bit
<1>4. ctrl' \in Ctrl /\ ~ctrl'.GO_BSY /\ ctrl'.ASS = ctrl.ASS
  BY TypeParts DEF Inv, Control, Ctrl, ClearGo
<1>5. Numbers' /\ Places' /\ Bits' /\ Control'
  BY <1>1, <1>3, <1>4, TypeParts DEF Inv, Numbers, Places, Bits, Control
<1>6. GoMirrorsState' /\ Counting'
  BY <1>4 DEF Inv, GoMirrorsState, Counting
<1>7. LineFollowsSS'
  BY <1>4, TypeParts DEF Inv, Lines, LineFollowsSS, Running, Selected, Release
<1>8. Exchange'
  BY DEF Exchange
<1>9. QED
  BY <1>1, <1>2, <1>3, <1>4, <1>5, <1>6, <1>7, <1>8, TypeParts, PTL DEF Inv


\* do_one_shift in LSB order: the bit that is pushed is the next of the
\* character, and the bit that is pulled enters behind the ones before it.
LEMMA ShiftLSB ==
  ASSUME TypeOK, ExchangeLSB, ctrl.LSB, width # 0, Len(sent) = Len(got),
         Len(got) < width,
         NEW pull \in Bit, data' = ShiftIn(pull, width - 1),
         sent' = Append(sent, data[0]), got' = Append(got, pull),
         UNCHANGED <<ctrl, tx>>
  PROVE  ExchangeLSB'
<1> DEFINE n == Len(got)
           w == width
<1>1. n \in Nat /\ w \in Nat /\ n < w /\ w < DataBits /\ DataBits \in Nat /\ w' = w
  BY Sizes, TypeParts DEF Bits, Control, Ctrl, width
<1>2. sent \in Seq(Bit) /\ got \in Seq(Bit) /\ data \in Data /\ data[0] \in Bit /\ Len(sent) = n
  BY <1>1, TypeParts DEF Bits, Data
<1>3. /\ Len(got') = n + 1 /\ got'[n + 1] = pull
      /\ \A k \in 1 .. n : got'[k] = got[k]
  BY <1>2
<1>4. sent'[n + 1] = data[0] /\ \A k \in 1 .. n : sent'[k] = sent[k]
  BY <1>2
<1>5. \A b \in 0 .. w - 1 :
        data'[b] = IF b = w - 1 THEN pull ELSE data[b + 1]
  BY <1>1, <1>2 DEF ShiftIn, Data
<1>6. /\ \A b \in 0 .. w - 1 :
           data[b] = IF b + n < w THEN tx[b + n] ELSE got[b + n - w + 1]
      /\ \A k \in 1 .. n : sent[k] = tx[k - 1]
  BY DEF ExchangeLSB
<1> HIDE DEF n, w
<1>7. ASSUME NEW b \in 0 .. w - 1
      PROVE  data'[b] = IF b + (n + 1) < w THEN tx[b + (n + 1)]
                        ELSE got'[b + (n + 1) - w + 1]
  <2>1. CASE b = w - 1
    <3>1. data'[b] = pull
      BY <1>5, <2>1
    <3>2. ~(b + (n + 1) < w) /\ b + (n + 1) - w + 1 = n + 1
      BY <1>1, <2>1
    <3>3. got'[b + (n + 1) - w + 1] = pull
      BY <1>3, <3>2
    <3>4. QED
      BY <3>1, <3>2, <3>3
  <2>2. CASE b # w - 1
    <3>1. b + 1 \in 0 .. w - 1 /\ data'[b] = data[b + 1]
      <4>1. b + 1 \in 0 .. w - 1
        BY <1>1, <2>2
      <4>2. data'[b] = data[b + 1]
        BY <1>5, <2>2
      <4>3. QED
        BY <4>1, <4>2
    <3>2. data[b + 1] = IF (b + 1) + n < w THEN tx[(b + 1) + n] ELSE got[(b + 1) + n - w + 1]
      BY <1>6, <3>1
    <3>3. (b + 1) + n = b + (n + 1) /\ (b + 1) + n - w + 1 = b + (n + 1) - w + 1
      BY <1>1
    <3>4. ~(b + (n + 1) < w) => b + (n + 1) - w + 1 \in 1 .. n
      BY <1>1, <2>2
    <3>5. QED
      BY <3>1, <3>2, <3>3, <3>4, <1>3
  <2>3. QED
    BY <2>1, <2>2
<1>8. data[0] = tx[n]
  BY <1>1, <1>6
<1>9. ASSUME NEW k \in 1 .. n + 1 PROVE sent'[k] = tx[k - 1]
  <2>1. CASE k \in 1 .. n
    BY <1>4, <1>6, <2>1
  <2>2. CASE k = n + 1
    <3>1. k - 1 = n
      BY <1>1, <2>2
    <3>2. QED
      BY <1>4, <1>8, <2>2, <3>1
  <2>3. k \in 1 .. n \/ k = n + 1
    BY <1>1
  <2>4. QED
    BY <2>1, <2>2, <2>3
<1>10. Len(got') = n + 1 /\ width' = w /\ tx' = tx
  BY <1>1, <1>3 DEF w
<1>11. \A b \in 0 .. width' - 1 :
         data'[b] = IF b + Len(got') < width' THEN tx'[b + Len(got')]
                    ELSE got'[b + Len(got') - width' + 1]
  BY <1>7, <1>10, Zenon
<1>12. \A k \in 1 .. Len(got') : sent'[k] = tx'[k - 1]
  BY <1>9, <1>10, Zenon
<1>13. QED
  BY <1>11, <1>12, Zenon DEF ExchangeLSB

\* do_one_shift in MSB order.
LEMMA ShiftMSB ==
  ASSUME TypeOK, ExchangeMSB, ~ctrl.LSB, width # 0, Len(sent) = Len(got),
         Len(got) < width,
         NEW pull \in Bit, data' = ShiftIn(pull, 0),
         sent' = Append(sent, data[width - 1]), got' = Append(got, pull),
         UNCHANGED <<ctrl, tx>>
  PROVE  ExchangeMSB'
<1> DEFINE n == Len(got)
           w == width
<1>1. n \in Nat /\ w \in Nat /\ n < w /\ w < DataBits /\ DataBits \in Nat /\ w' = w
  BY Sizes, TypeParts DEF Bits, Control, Ctrl, width
<1>2. /\ sent \in Seq(Bit) /\ got \in Seq(Bit) /\ data \in Data /\ data[w - 1] \in Bit
      /\ Len(sent) = n
  BY <1>1, TypeParts DEF Bits, Data
<1>3. /\ Len(got') = n + 1 /\ got'[n + 1] = pull
      /\ \A k \in 1 .. n : got'[k] = got[k]
  BY <1>2
<1>4. sent'[n + 1] = data[w - 1] /\ \A k \in 1 .. n : sent'[k] = sent[k]
  BY <1>2
<1>5. \A b \in 0 .. w - 1 : data'[b] = IF b = 0 THEN pull ELSE data[b - 1]
  BY <1>1, <1>2 DEF ShiftIn, Data
<1>6. /\ \A b \in 0 .. w - 1 : data[b] = IF b >= n THEN tx[b - n] ELSE got[n - b]
      /\ \A k \in 1 .. n : sent[k] = tx[w - k]
  BY DEF ExchangeMSB
<1> HIDE DEF n, w
<1>7. ASSUME NEW b \in 0 .. w - 1
      PROVE  data'[b] = IF b >= n + 1 THEN tx[b - (n + 1)] ELSE got'[(n + 1) - b]
  <2>1. CASE b = 0
    BY <1>1, <1>3, <1>5, <2>1
  <2>2. CASE b # 0
    <3>1. b - 1 \in 0 .. w - 1 /\ data'[b] = data[b - 1]
      BY <1>1, <1>5, <2>2
    <3>2. data[b - 1] = IF b - 1 >= n THEN tx[(b - 1) - n] ELSE got[n - (b - 1)]
      BY <1>6, <3>1
    <3>3. (b - 1) - n = b - (n + 1) /\ n - (b - 1) = (n + 1) - b /\ (b - 1 >= n <=> b >= n + 1)
      BY <1>1
    <3>4. ~(b >= n + 1) => (n + 1) - b \in 1 .. n
      BY <1>1, <2>2
    <3>5. QED
      BY <3>1, <3>2, <3>3, <3>4, <1>3
  <2>3. QED
    BY <2>1, <2>2
<1>8. data[w - 1] = tx[w - (n + 1)]
  BY <1>1, <1>6
<1>9. ASSUME NEW k \in 1 .. n + 1 PROVE sent'[k] = tx[w - k]
  <2>1. CASE k \in 1 .. n
    BY <1>4, <1>6, <2>1
  <2>2. CASE k = n + 1
    BY <1>4, <1>8, <2>2
  <2>3. k \in 1 .. n \/ k = n + 1
    BY <1>1
  <2>4. QED
    BY <2>1, <2>2, <2>3
<1>10. QED
  BY <1>1, <1>3, <1>7, <1>9, ZenonT(60) DEF ExchangeMSB, n, w

\* One bit is exchanged with the slave.
LEMMA CycleBusyInv ==
  ASSUME Inv, NEW i \in Insts, NEW push \in Bit, NEW pull \in Bit,
         NEW pos \in 0 .. DataBits - 1, CycleBusy(i, push, pull, pos)
  PROVE  Inv'
<1> USE DEF CycleBusy, Cycle
<1>1. cyc' \in 0 .. InitCycles + 1
  BY InitCyclesAssumption, TypeParts, SMTT(30) DEF Inv, Numbers
<1>2. remaining \in Nat /\ remaining >= 1 /\ remaining <= DataBits
  BY Sizes, TypeParts DEF Inv, Numbers, Counting
<1>3. remaining' \in 0 .. DataBits /\ Counting'
  BY <1>2, Sizes DEF Counting, LastBit
<1>4. Numbers' /\ Places' /\ Control'
  BY <1>1, <1>3, TypeParts DEF Inv, Numbers, Places, Control
<1>5. Lines' /\ LineFollowsSS'
  BY TypeParts DEF Inv, Lines, LineFollowsSS, Running
<1>6. GoMirrorsState'
  BY DEF Inv, GoMirrorsState
<1>7. data \in Data /\ sent \in Seq(Bit) /\ got \in Seq(Bit) /\ tx \in Data
  BY TypeParts DEF Inv, Bits
<1>8. data' \in Data
  <2>1. ~ctrl.LSB => pos = 0
    BY DEF Inserts
  <2>2. ASSUME NEW b \in 0 .. DataBits - 1 PROVE ShiftIn(pull, pos)[b] \in Bit
    <3>1. 0 \in Bit /\ b \in DOMAIN data
      BY <1>7 DEF Bit, Data
    <3>2. b + 1 \in 0 .. DataBits - 1 \/ b = DataBits - 1
      BY Sizes
    <3>3. b - 1 \in 0 .. DataBits - 1 \/ b = 0
      BY Sizes
    <3>4. QED
      BY <1>7, <2>1, <3>1, <3>2, <3>3 DEF ShiftIn, Data
  <2>3. ShiftIn(pull, pos) = [b \in 0 .. DataBits - 1 |-> ShiftIn(pull, pos)[b]]
    BY <1>7 DEF ShiftIn, Data
  <2>4. QED
    BY <2>2, <2>3 DEF Data
<1>9. Bits'
  BY <1>7, <1>8 DEF Bits
<1>10. ASSUME width # 0 PROVE Exchange'
  <2>1. /\ Len(sent) = Len(got) /\ Len(got) + remaining = width
        /\ ctrl.LSB => ExchangeLSB
        /\ ~ctrl.LSB => ExchangeMSB
    BY <1>10 DEF Inv, Exchange
  <2>2. width' = width /\ width \in Nat
    BY Sizes, TypeParts DEF width, Inv, Control, Ctrl
  <2>3. Len(sent') = Len(got') /\ Len(got') + remaining' = width'
    <3>1. Len(sent') = Len(sent) + 1 /\ Len(got') = Len(got) + 1 /\ remaining' = remaining - 1
      BY <1>7
    <3>2. Len(got) \in Nat /\ Len(sent) \in Nat
      BY <1>7
    <3>3. QED
      BY <1>2, <2>1, <2>2, <3>1, <3>2, SMTT(30)
  <2>4. Len(got) < width
    BY <1>2, <1>7, <2>1, <2>2
  <2>5. CASE ctrl.LSB
    <3>1. push = data[0] /\ pos = width - 1
      BY <2>5, <1>10 DEF Pushes, Inserts
    <3>2. ExchangeLSB'
      BY <1>10, <2>1, <2>4, <2>5, <3>1, ShiftLSB DEF Inv
    <3>3. QED
      BY <2>3, <2>5, <3>2 DEF Exchange
  <2>6. CASE ~ctrl.LSB
    <3>1. push = data[width - 1] /\ pos = 0
      BY <2>6, <1>10 DEF Pushes, Inserts
    <3>2. ExchangeMSB'
      BY <1>10, <2>1, <2>4, <2>6, <3>1, ShiftMSB DEF Inv
    <3>3. QED
      BY <2>3, <2>6, <3>2 DEF Exchange
  <2>7. QED
    BY <2>5, <2>6
<1>11. Exchange'
  BY <1>10 DEF Exchange, width
<1>12. QED
  BY <1>3, <1>4, <1>5, <1>6, <1>9, <1>11, TypeParts, PTL DEF Inv

\* Nothing happens.
LEMMA StutterInv == Inv /\ UNCHANGED vars => Inv'
<1> SUFFICES ASSUME Inv, UNCHANGED vars PROVE Inv'
  OBVIOUS
<1> USE DEF vars
<1>1. Numbers' /\ Places' /\ Bits' /\ Lines' /\ Control'
  BY TypeParts DEF Inv, Numbers, Places, Bits, Lines, Control
<1>2. GoMirrorsState' /\ Counting' /\ LineFollowsSS'
  BY DEF Inv, GoMirrorsState, Counting, LineFollowsSS, Running
<1>3. Exchange'
  BY ExchangeFrame DEF Inv
<1>4. QED
  BY <1>1, <1>2, <1>3, TypeParts, PTL DEF Inv

LEMMA NextInv == Inv /\ [Next]_vars => Inv'
BY OtherInsnInv, WriteDataInv, WriteDividerInv, WriteSSInv, WriteCtrlInv, HaltingInv,
   WaitingInv, CycleStartedInv, CycleSelectedInv, CycleDoneInv, CycleBusyInv, StutterInv,
   Zenon
   DEF Next, Halt, Bit

LEMMA Invariance == Spec => []Inv
BY InitInv, NextInv, PTL DEF Spec

-----------------------------------------------------------------------------
\* Type correctness.  The count of the bits that are left never wraps around,
\* so that every transfer that moves is a finite number of bits away from DONE.
THEOREM SpiTypes == Spec => []TypeOK
BY Invariance, PTL DEF Inv

\* The bit a driver polls and the state that protects the registers never
\* disagree, although two pieces of code keep them.
THEOREM GoBusyIsState == Spec => []GoMirrorsState
BY Invariance, PTL DEF Inv

\* The select callbacks agree with SS, ASS and the state as long as ASS is
\* only changed while no slot is selected.
THEOREM LinesFollow == Spec => []LineFollowsSS
BY Invariance, PTL DEF Inv

\* In a finished transfer all bits have been exchanged, not only the first few.
LEMMA DoneIsExchanged == Inv => FullDuplex
<1> SUFFICES ASSUME Inv, state = "DONE", width # 0
             PROVE  /\ Len(sent) = width /\ Len(got) = width
                    /\ \A k \in 1 .. width :
                         LET b == IF ctrl.LSB THEN k - 1 ELSE width - k
                         IN  sent[k] = tx[b] /\ got[k] = data[b]
  BY DEF FullDuplex
<1>1. width \in Nat /\ Len(got) \in Nat
  BY Sizes, TypeParts DEF Inv, Control, Ctrl, Bits, width
<1>2. Len(sent) = width /\ Len(got) = width
  BY <1>1, TypeParts DEF Inv, Exchange, Counting
<1>3. ASSUME ctrl.LSB, NEW k \in 1 .. width PROVE sent[k] = tx[k - 1] /\ got[k] = data[k - 1]
  BY <1>1, <1>2, <1>3 DEF Inv, Exchange, ExchangeLSB
<1>4. ASSUME ~ctrl.LSB, NEW k \in 1 .. width
      PROVE  sent[k] = tx[width - k] /\ got[k] = data[width - k]
  BY <1>1, <1>2, <1>4 DEF Inv, Exchange, ExchangeMSB
<1>5. QED
  BY <1>2, <1>3, <1>4

\* A finished transfer has exchanged the character and the answer, for every
\* width of character the registers can hold and in either order of bits.
THEOREM TransfersAreExchanges == Spec => []FullDuplex
BY Invariance, DoneIsExchanged, PTL

\* Each action by itself: a write is refused outside of RESET, and a cycle
\* changes the data only by exchanging a bit.
LEMMA FrozenStep ==
  Inv /\ [Next]_vars =>
    [state # "RESET" =>
       /\ UNCHANGED <<divider, SS>>
       /\ state' # "RESET" => UNCHANGED ctrl
       /\ data' # data => Len(got') = Len(got) + 1]_vars
<1> SUFFICES ASSUME Inv, Next, state # "RESET"
             PROVE  /\ UNCHANGED <<divider, SS>>
                    /\ state' # "RESET" => UNCHANGED ctrl
                    /\ data' # data => Len(got') = Len(got) + 1
  BY DEF vars
<1>1. got \in Seq(Bit)
  BY TypeParts DEF Inv, Bits
<1>2. CASE OtherInsn
  BY <1>2 DEF OtherInsn, regs
<1>3. CASE Divide \/ CycleIdle \/ CycleNotOneHot
  BY <1>3 DEF Divide, CycleIdle, CycleNotOneHot, regs
<1>4. CASE \E i \in Insts : CycleTraffic(i) \/ CycleStarted(i) \/ CycleSelected(i)
  BY <1>4 DEF CycleTraffic, CycleStarted, CycleSelected, regs
<1>5. CASE \E i \in Insts : CycleDone(i)
  BY <1>5 DEF CycleDone
<1>6. CASE \E i \in Insts, push, pull \in Bit, pos \in 0 .. DataBits - 1 :
             CycleBusy(i, push, pull, pos)
  BY <1>1, <1>6 DEF CycleBusy
<1>7. CASE Halt
  BY <1>7 DEF Halt, vars
<1>8. QED
  BY <1>2, <1>3, <1>4, <1>5, <1>6, <1>7
     DEF Next, WriteData, WriteDivider, WriteSS, WriteCtrl, WriteCtrlMixed, Accepts

\* While a transfer is in progress nothing but the transfer changes a register:
\* what the program writes is refused by the guard on the state.
THEOREM TransferFreezesRegisters == Spec => RegistersFrozen
BY Invariance, FrozenStep, PTL DEF Spec, RegistersFrozen

=============================================================================
