-------------------------------- MODULE Spi ---------------------------------
(***************************************************************************)
(* The simulated SPI master (src/src/devices/spi.c) between the program    *)
(* that the simulator runs and the slaves on its bus.  One simulated       *)
(* instruction does at most one access to the registers (spi_op) and is    *)
(* followed by one call of spi_emu_cycle, so the program and a transfer    *)
(* interleave at that grain; every (DIVIDER + 1) * 2 calls are one SPI     *)
(* cycle, which walks over all slave slots (spi_slave_cycle).              *)
(*                                                                         *)
(* The four data words are one shift register, bit 0 of word 0 first.  A   *)
(* slave answers a clock with any bit while it is selected and with none   *)
(* while it is not ("slave"), or echoes what it is sent whether it is      *)
(* selected or not ("echo", src/src/devices/spidummy.c).                   *)
(***************************************************************************)
EXTENDS Integers, Sequences, FiniteSets

CONSTANTS WordBits,     \* bits of a register word (32)
          InitCycles,   \* SPI_INIT_CYCLES
          Insts,        \* the slots, 0 .. NINST - 1
          Kind,         \* what is plugged into a slot: "none", "slave", "echo"
          Dividers,     \* the values of DIVIDER
          ResetDivider  \* its value after spi_reset_defaults

ASSUME WordBitsAssumption == WordBits \in Nat \ {0}
ASSUME InitCyclesAssumption == InitCycles \in Nat
ASSUME SlotsAssumption == /\ IsFiniteSet(Insts) /\ Insts \subseteq Nat
                          /\ Kind \in [Insts -> {"none", "slave", "echo"}]
ASSUME DividersAssumption == Dividers \subseteq Nat /\ ResetDivider \in Dividers

DataBits == 4 * WordBits
Bit      == {0, 1}
Data     == [0 .. DataBits - 1 -> Bit]
Ctrl     == [CHAR_LEN : 0 .. DataBits - 1, LSB : BOOLEAN, ASS : BOOLEAN, GO_BSY : BOOLEAN]

VARIABLES state,      \* spi->state
          dividend,   \* how far into the division
          cyc,        \* spi->cyc, counted up to InitCycles + 1
          remaining,  \* bits left to transfer
          data,       \* Rx0 .. Rx3, also Tx0 .. Tx3
          ctrl,       \* CTRL
          divider,    \* DIVIDER
          SS,         \* slots whose bit is set in SS
          line,       \* last argument of each slot's select callback
          stage,      \* "insn": an instruction is next, "cycle": spi_emu_cycle is
          halted,     \* "no", or the breakpoint() that ended the simulation
          tx,         \* history: data when the transfer in progress was started
          sent, got,  \* history: bits exchanged with the slave so far
          assMoved    \* history: ASS was changed while a slot was selected

regs    == <<data, ctrl, divider, SS>>
history == <<tx, sent, got, assMoved>>
vars    == <<state, dividend, cyc, remaining, data, ctrl, divider, SS, line, stage,
             halted, tx, sent, got, assMoved>>

Zero == [b \in 0 .. DataBits - 1 |-> 0]

\* spi_emu_init: calloc and spi_reset_defaults.
Init ==
  /\ state = "RESET" /\ dividend = 0 /\ cyc = 0 /\ remaining = 0
  /\ data = Zero
  /\ ctrl = [CHAR_LEN |-> 0, LSB |-> FALSE, ASS |-> FALSE, GO_BSY |-> FALSE]
  /\ divider = ResetDivider
  /\ SS = {}
  /\ line = [i \in Insts |-> FALSE]
  /\ stage = "insn" /\ halted = "no"
  /\ tx = Zero /\ sent = << >> /\ got = << >> /\ assMoved = FALSE

Running == halted = "no"

-----------------------------------------------------------------------------
(* spi_op: what an instruction of the program does to the registers.       *)

\* "When a transfer is in progress, writing to any register of the SPI Master
\* core has no effect."  Reads never change anything.
Insn ==
  /\ Running /\ stage = "insn"
  /\ stage' = "cycle"

\* Mutant of Accepts: a transfer in progress does not protect the registers.
AcceptsAlways == TRUE

Accepts == state = "RESET"

\* Any other instruction, a read, or a write while a transfer is in progress.
OtherInsn ==
  /\ Insn
  /\ UNCHANGED <<state, dividend, cyc, remaining, regs, line, halted, history>>

WriteData(n, v) ==
  /\ Insn /\ Accepts
  /\ data' = [b \in DOMAIN data |-> IF b \div WordBits = n THEN v[b % WordBits] ELSE data[b]]
  /\ UNCHANGED <<state, dividend, cyc, remaining, ctrl, divider, SS, line, halted, history>>

WriteDivider(v) ==
  /\ Insn /\ Accepts
  /\ divider' = v
  /\ UNCHANGED <<state, dividend, cyc, remaining, data, ctrl, SS, line, halted, history>>

\* With ASS clear, the select callbacks follow the bits that change.
WriteSS(v) ==
  /\ Insn /\ Accepts
  /\ line' = [i \in Insts |-> IF Kind[i] # "none" /\ ~ctrl.ASS /\ (i \in v) # (i \in SS)
                              THEN i \in v ELSE line[i]]
  /\ SS' = v
  /\ UNCHANGED <<state, dividend, cyc, remaining, data, ctrl, divider, halted, history>>

SameOthers(c) == [c EXCEPT !.GO_BSY = ctrl.GO_BSY] = ctrl

\* GO_BSY starts a transfer; a CHAR_LEN of 0 stands for all the bits.
WriteCtrl(c) ==
  /\ Insn /\ Accepts
  /\ c.GO_BSY = ctrl.GO_BSY \/ SameOthers(c)
  /\ ctrl' = c
  /\ IF c.GO_BSY
     THEN /\ state' = "STARTED"
          /\ remaining' = IF ctrl.CHAR_LEN = 0 THEN DataBits ELSE ctrl.CHAR_LEN
          /\ tx' = data /\ sent' = << >> /\ got' = << >>
     ELSE UNCHANGED <<state, remaining, tx, sent, got>>
  /\ assMoved' = (assMoved \/ (c.ASS # ctrl.ASS /\ SS # {}))
  /\ UNCHANGED <<dividend, cyc, data, divider, SS, line, halted>>

\* breakpoint: GO_BSY bit changed at the same time as other control bits.
WriteCtrlMixed(c) ==
  /\ Insn /\ Accepts
  /\ c.GO_BSY # ctrl.GO_BSY /\ ~SameOthers(c)
  /\ halted' = "GO_BSY"
  /\ UNCHANGED <<state, dividend, cyc, remaining, regs, line, history>>

-----------------------------------------------------------------------------
(* spi_emu_cycle, spi_slave_cycle, do_one_shift                            *)

Due == dividend >= (divider + 1) * 2 - 1

Divide ==
  /\ Running /\ stage = "cycle" /\ ~Due
  /\ dividend' = dividend + 1
  /\ stage' = "insn"
  /\ UNCHANGED <<state, cyc, remaining, regs, line, halted, history>>

\* One SPI cycle, to be completed by what it does to the transfer.
Cycle ==
  /\ Running /\ stage = "cycle" /\ Due
  /\ dividend' = 0
  /\ cyc' = IF cyc > InitCycles THEN cyc ELSE cyc + 1
  /\ stage' = "insn"

\* The slot that is selected, if a transfer can use it.
Selected(i)  == SS = {i} /\ Kind[i] # "none"

\* The slots that are clocked while not selected: those that the walk over
\* the slots reaches while the state is SELECTED, before slot i has its turn
\* or after it has changed the state to next.
Bystanders(i, next) ==
  {j \in Insts \ {i} : Kind[j] # "none" /\ (IF j < i THEN state ELSE next) = "SELECTED"}
Quiet(i, next) == \A j \in Bystanders(i, next) : Kind[j] # "echo"

\* Mutant of Ready: the slave gets ready in one cycle only.
ReadyExactly == cyc = InitCycles

Ready == cyc > InitCycles

\* No transfer, or nobody on the other end: STARTED waits for ever.
CycleIdle ==
  /\ Cycle
  /\ state = "RESET" \/ (Cardinality(SS) <= 1 /\ ~\E i \in Insts : Selected(i))
  /\ UNCHANGED <<state, remaining, regs, line, halted, tx, sent, got, assMoved>>

CycleNotOneHot ==
  /\ Cycle /\ state # "RESET" /\ Cardinality(SS) > 1
  /\ halted' = "one-hot"
  /\ UNCHANGED <<state, remaining, regs, line, history>>

\* breakpoint: SPI slave generated traffic when not selected.
CycleTraffic(i) ==
  /\ Cycle /\ Selected(i)
  /\ \/ state = "STARTED" /\ ~Quiet(i, "SELECTED")
     \/ state = "SELECTED" /\ ~Quiet(i, IF Ready THEN "BUSY" ELSE "SELECTED")
  /\ halted' = "traffic"
  /\ UNCHANGED <<state, remaining, regs, line, history>>

CycleStarted(i) ==
  /\ Cycle /\ Selected(i) /\ state = "STARTED" /\ Quiet(i, "SELECTED")
  /\ state' = "SELECTED"
  /\ line' = IF ctrl.ASS THEN [line EXCEPT ![i] = TRUE] ELSE line
  /\ UNCHANGED <<remaining, regs, halted, tx, sent, got, assMoved>>

CycleSelected(i) ==
  LET next == IF Ready THEN "BUSY" ELSE "SELECTED" IN
  /\ Cycle /\ Selected(i) /\ state = "SELECTED" /\ Quiet(i, next)
  /\ state' = next
  /\ UNCHANGED <<remaining, regs, line, halted, tx, sent, got, assMoved>>

width == ctrl.CHAR_LEN

\* With CHAR_LEN = 0 the code shifts by -1: the bit that is pushed in MSB
\* order, and the one of word 0 that is overwritten in LSB order, are undefined.
Pushes   == IF ctrl.LSB THEN {data[0]} ELSE IF width = 0 THEN Bit ELSE {data[width - 1]}
Inserts  == IF ~ctrl.LSB THEN {0}
            ELSE IF width = 0 THEN 0 .. WordBits - 1 ELSE {width - 1}

\* Mutant of ShiftIn: bits come in at the top of the register, whatever the
\* length of the character.
ShiftInTop(in, pos) ==
  [b \in DOMAIN data |->
     IF ctrl.LSB
     THEN IF b = DataBits - 1 THEN in ELSE data[b + 1]
     ELSE IF b = pos THEN in ELSE data[b - 1]]

\* All the bits move by one place and the bit that was pulled is inserted.
ShiftIn(in, pos) ==
  [b \in DOMAIN data |->
     IF b = pos THEN in
     ELSE IF ctrl.LSB THEN (IF b = DataBits - 1 THEN 0 ELSE data[b + 1])
     ELSE data[b - 1]]

\* Mutant of LastBit: one bit too many.
LastBitLate == remaining = 0

LastBit == remaining = 1

CycleBusy(i, push, pull, pos) ==
  /\ Cycle /\ Selected(i) /\ state = "BUSY"
  /\ push \in Pushes /\ pos \in Inserts
  /\ Kind[i] = "echo" => pull = push
  /\ data' = ShiftIn(pull, pos)
  /\ remaining' = remaining - 1
  /\ state' = IF LastBit THEN "DONE" ELSE "BUSY"
  /\ sent' = Append(sent, push) /\ got' = Append(got, pull)
  /\ UNCHANGED <<ctrl, divider, SS, line, halted, tx, assMoved>>

\* Mutant of Release: the slave is left selected after the transfer.
ReleaseNot(i) == line

Release(i) == IF ctrl.ASS THEN [line EXCEPT ![i] = FALSE] ELSE line

\* Mutant of ClearGo: software never learns that the transfer is over.
ClearGoNot(c) == c

ClearGo(c) == [c EXCEPT !.GO_BSY = FALSE]

CycleDone(i) ==
  /\ Cycle /\ Selected(i) /\ state = "DONE"
  /\ line' = Release(i)
  /\ state' = "RESET"
  /\ ctrl' = ClearGo(ctrl)
  /\ tx' = Zero /\ sent' = << >> /\ got' = << >>
  /\ UNCHANGED <<remaining, data, divider, SS, halted, assMoved>>

Halt == ~Running /\ UNCHANGED vars

Next ==
  \/ OtherInsn
  \/ \E n \in 0 .. 3, v \in [0 .. WordBits - 1 -> Bit] : WriteData(n, v)
  \/ \E v \in Dividers : WriteDivider(v)
  \/ \E v \in SUBSET Insts : WriteSS(v)
  \/ \E c \in Ctrl : WriteCtrl(c)
  \/ \E c \in Ctrl : WriteCtrlMixed(c)
  \/ Divide \/ CycleIdle \/ CycleNotOneHot
  \/ \E i \in Insts :
       \/ CycleTraffic(i) \/ CycleStarted(i) \/ CycleSelected(i) \/ CycleDone(i)
       \/ \E push, pull \in Bit, pos \in 0 .. DataBits - 1 : CycleBusy(i, push, pull, pos)
  \/ Halt

\* The simulator calls spi_emu_cycle after every instruction it executes.
Spec == Init /\ [][Next]_vars /\ WF_vars(Next)

-----------------------------------------------------------------------------
(* Properties                                                              *)

\* Every variable has its type; in particular remaining never wraps around.
TypeOK ==
  /\ state \in {"RESET", "STARTED", "SELECTED", "BUSY", "DONE"}
  /\ dividend \in Nat /\ cyc \in 0 .. InitCycles + 1
  /\ remaining \in 0 .. DataBits
  /\ data \in Data /\ ctrl \in Ctrl /\ divider \in Dividers /\ SS \subseteq Insts
  /\ line \in [Insts -> BOOLEAN]
  /\ stage \in {"insn", "cycle"}
  /\ halted \in {"no", "GO_BSY", "one-hot", "traffic"}
  /\ tx \in Data /\ sent \in Seq(Bit) /\ got \in Seq(Bit)
  /\ assMoved \in BOOLEAN

\* GO_BSY reads as set exactly while a transfer is in progress: it is what a
\* driver polls (test/spi.tas.cpp, L_put_spi_wait) and state is what spi_op
\* looks at, two copies of one fact kept in step by hand.
GoMirrorsState == ctrl.GO_BSY <=> state # "RESET"

\* "When a transfer is in progress, writing to any register of the SPI Master
\* core has no effect" (spi.c): the data words change only by a bit exchanged
\* with the slave, the others not at all until the transfer is over.
RegistersFrozen ==
  [][state # "RESET" =>
       /\ UNCHANGED <<divider, SS>>
       /\ state' # "RESET" => UNCHANGED ctrl
       /\ data' # data => Len(got') = Len(got) + 1]_vars

\* A transfer of CHAR_LEN bits is an exchange: the slave has been sent the
\* character that was in the data words when GO_BSY was set, in the order LSB
\* asks for, and the character it answered has taken its place.
FullDuplex ==
  state = "DONE" /\ width # 0 =>
    /\ Len(sent) = width /\ Len(got) = width
    /\ \A k \in 1 .. width :
         LET b == IF ctrl.LSB THEN k - 1 ELSE width - k
         IN  sent[k] = tx[b] /\ got[k] = data[b]

\* The select callbacks agree with the registers: with ASS a slot is selected
\* for the length of a transfer, without it as long as its bit of SS is set;
\* spisd's framing depends on it.  Changing ASS while SS is not clear breaks
\* this, since no callback is made then.
LineFollowsSS ==
  Running /\ ~assMoved =>
    \A i \in Insts : Kind[i] # "none" =>
      line[i] = (i \in SS /\ (ctrl.ASS => state \in {"SELECTED", "BUSY", "DONE"}))

\* A transfer to a slave that is there ends, however DIVIDER was changed
\* before it and whatever the program does meanwhile.
TransferCompletes ==
  (state # "RESET" /\ \E i \in Insts : Selected(i)) ~> (state = "RESET" \/ ~Running)

=============================================================================
