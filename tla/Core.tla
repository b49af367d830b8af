-------------------------------- MODULE Core --------------------------------
(***************************************************************************)
(* The hardware core (modules Core, Decode, Shuf, Exec and Reg of          *)
(* src/hw/verilog/tenyr.v) on its bus, with block RAM                      *)
(* (src/hw/verilog/ram.v) and memory-mapped registers (mmr.v) as slaves.   *)
(* One step is one rising edge of the clock: every register takes the      *)
(* value that the wires have just before it.                               *)
(*                                                                         *)
(* Core waits in s1 for the result of Exec, a pipeline that is started in  *)
(* s0 and is not stopped or cleared by anything, in s3 for the             *)
(* acknowledgement of a data access and in s5 for that of the fetch.       *)
(* halt holds it in s0; reset sends it to s5 from anywhere and leaves all  *)
(* the other registers alone.                                              *)
(***************************************************************************)
EXTENDS Isa

CONSTANTS Ram,          \* addresses of the block RAM
          Mmr,          \* addresses of memory-mapped registers
          RESETVECTOR,
          Images,       \* contents of the memory when the core starts
          Junk          \* what a word without a defined value may be

ASSUME MapAssumption    == Ram \subseteq Word /\ Mmr \subseteq Word /\ Ram \cap Mmr = {}
ASSUME VectorAssumption == RESETVECTOR \in Ram /\ Limit - 1 \notin Ram
ASSUME ImagesAssumption == Images \subseteq [Ram \cup Mmr -> Word]
ASSUME JunkAssumption   == Junk \subseteq Word

VARIABLES state,                     \* Core
          adr_o, insn, irhs, data, nextP,
          store,                     \* Reg
          staged, act, add, done,    \* Exec: stages that hold something
          rin, rY, rZ, valZ,         \* Exec: rop, rA, rB, rC; and the stages
          ack, dout,                 \* BlockRAM: acka, douta
          mem,                       \* BlockRAM: store; mmr: store
          rst,                       \* history: reset was high at the last edge
          strayed                    \* history: an address nobody handles

vars == <<state, adr_o, insn, irhs, data, nextP, store, staged, act, add, done,
          rin, rY, rZ, valZ, ack, dout, mem, rst, strayed>>

AllOnes == Limit - 1

-----------------------------------------------------------------------------
(* The wires.                                                              *)

\* Decode
F         == Fields[insn]
idxY      == IF F.p = 3 THEN 0 ELSE F.y
op        == IF F.p = 3 THEN OP_BITWISE_OR ELSE F.op
valI      == IF F.p = 3 THEN F.imm20 ELSE F.imm
storing   == F.dd \in {1, 2}
loading   == F.dd = 3
deref_rhs == F.dd \in {1, 3}
branching == F.z = P /\ ~storing

\* Reg
val(idx) == IF idx = P THEN nextP ELSE store[idx]

\* Shuf
valA == CASE F.p = 2 -> valI [] F.p = 3 -> 0 [] OTHER -> val(F.x)
valB == CASE F.p = 0 -> val(idxY) [] F.p = 1 -> valI [] OTHER -> val(F.x)
valC == IF F.p \in {0, 3} THEN valI ELSE val(idxY)

\* Core
nextZ  == IF deref_rhs THEN data ELSE irhs
nextI  == IF branching THEN nextZ ELSE nextP
adrD   == IF deref_rhs THEN irhs ELSE val(F.z)
dat_o  == IF deref_rhs THEN val(F.z) ELSE irhs
i_strb == state = "s5"
d_strb == state = "s3" /\ (loading \/ storing)
stb_o  == i_strb \/ d_strb
wen_o  == d_strb /\ storing
upZ    == state = "s4" /\ ~storing

\* Mutant of ack_i: RAM is taken to answer at once.
ack_iAtOnce == stb_o

\* Mutant of ack_i: nobody but RAM answers.
ack_iRam == adr_o \in Ram /\ ack

\* The bus: RAM acknowledges one clock after the strobe, everybody else at
\* once; registers drive the bus while they are strobed, and the default
\* slave reads as ones.
ack_i == IF adr_o \in Ram THEN ack ELSE stb_o
dat_i == CASE adr_o \in Ram -> dout
           [] adr_o \in Mmr -> IF stb_o /\ ~wen_o THEN mem[adr_o] ELSE 0
           [] OTHER -> AllOnes

-----------------------------------------------------------------------------
(* The registers at a rising edge.                                         *)

Exec ==
  /\ staged' = (state = "s0") /\ act' = staged /\ add' = act /\ done' = add
  /\ rin' = [op |-> op, A |-> valA, B |-> valB, C |-> valC]
  /\ rY' = IF staged THEN Op(rin.op, rin.A, rin.B) ELSE rY
  /\ rZ' = IF act THEN Plus(rY, rin.C) ELSE rZ
  /\ valZ' = rZ

Reg == store' = IF upZ /\ F.z \notin {0, P} THEN [store EXCEPT ![F.z] = nextZ] ELSE store

\* BlockRAM and mmr.  Whether RAM sees the strobes that are meant for others
\* is up to the bus multiplexer.
Slaves ==
  /\ IF adr_o \in Ram THEN ack' = stb_o ELSE ack' \in {FALSE, stb_o}
  /\ IF adr_o \in Ram THEN dout' = mem[adr_o] ELSE dout' \in Junk
  /\ mem' = IF wen_o /\ adr_o \in DOMAIN mem THEN [mem EXCEPT ![adr_o] = dat_o] ELSE mem
  /\ strayed' = (strayed \/ (i_strb /\ adr_o \notin Ram)
                         \/ (d_strb /\ adr_o \notin DOMAIN mem))

Edge(r) == Exec /\ Reg /\ Slaves /\ rst' = r

s0(halt) ==
  /\ Edge(FALSE) /\ state = "s0" /\ state' = IF halt THEN "s0" ELSE "s1"
  /\ UNCHANGED <<adr_o, insn, irhs, data, nextP>>
s1 ==
  /\ Edge(FALSE) /\ state = "s1" /\ state' = IF done THEN "s2" ELSE "s1"
  /\ irhs' = valZ
  /\ UNCHANGED <<adr_o, insn, data, nextP>>
s2 ==
  /\ Edge(FALSE) /\ state = "s2" /\ state' = IF loading \/ storing THEN "s3" ELSE "s4"
  /\ adr_o' = adrD
  /\ UNCHANGED <<insn, irhs, data, nextP>>
s3 ==
  /\ Edge(FALSE) /\ state = "s3" /\ state' = IF ack_i THEN "s4" ELSE "s3"
  /\ data' = dat_i
  /\ UNCHANGED <<adr_o, insn, irhs, nextP>>
s4 ==
  /\ Edge(FALSE) /\ state = "s4" /\ state' = "s5"
  /\ adr_o' = nextI
  /\ UNCHANGED <<insn, irhs, data, nextP>>
s5 ==
  /\ Edge(FALSE) /\ state = "s5" /\ state' = IF ack_i THEN "s6" ELSE "s5"
  /\ nextP' = Plus(adr_o, 1)
  /\ UNCHANGED <<adr_o, insn, irhs, data>>
s6 ==
  /\ Edge(FALSE) /\ state = "s6" /\ state' = "s0"
  /\ insn' = dat_i
  /\ UNCHANGED <<adr_o, irhs, data, nextP>>
reset ==
  /\ Edge(TRUE)
  /\ state' = "s5" /\ adr_o' = RESETVECTOR
  /\ UNCHANGED <<insn, irhs, data, nextP>>

\* The first edge with reset held has passed.  Registers without an initial
\* value hold anything; one word of Junk stands for those that hold words.
Init ==
  /\ state = "s5" /\ adr_o = RESETVECTOR
  /\ store = [k \in RegIdx \ {P} |-> 0]
  /\ staged = FALSE /\ act \in BOOLEAN /\ add \in BOOLEAN /\ done \in BOOLEAN
  /\ \E w \in Junk :
       /\ insn = w /\ irhs = w /\ data = w /\ nextP = w
       /\ rin = [op |-> OP_BITWISE_OR, A |-> w, B |-> w, C |-> w]
       /\ rY = w /\ rZ = w /\ valZ = w /\ dout = w
  /\ ack \in BOOLEAN
  /\ mem \in Images
  /\ rst = TRUE /\ strayed = FALSE

Next == (\E halt \in BOOLEAN : s0(halt)) \/ s1 \/ s2 \/ s3 \/ s4 \/ s5 \/ s6 \/ reset

\* The clock runs, and halt is not held for ever.
Spec == Init /\ [][Next]_vars /\ WF_vars(Next) /\ WF_vars(s0(FALSE))

-----------------------------------------------------------------------------
(* Properties                                                              *)

\* Every register holds a value of its width.
TypeOK ==
  /\ state \in {"s0", "s1", "s2", "s3", "s4", "s5", "s6"}
  /\ adr_o \in Word /\ insn \in Word /\ irhs \in Word /\ data \in Word /\ nextP \in Word
  /\ store \in [RegIdx \ {P} -> Word]
  /\ <<staged, act, add, done>> \in BOOLEAN \X BOOLEAN \X BOOLEAN \X BOOLEAN
  /\ rin \in [op : Opcodes, A : Word, B : Word, C : Word]
  /\ rY \in Word /\ rZ \in Word /\ valZ \in Word
  /\ ack \in BOOLEAN /\ dout \in Word
  /\ mem \in [Ram \cup Mmr -> Word]
  /\ rst \in BOOLEAN /\ strayed \in BOOLEAN

\* The store that the instruction in progress makes has reached its slave.
Committed ==
  storing /\ (state = "s4" \/ (state = "s3" /\ ack /\ adr_o \in Ram))

\* P, as the program sees it between two instructions.
pc ==
  IF state = "s5" THEN adr_o
  ELSE IF Committed THEN nextP ELSE Plus(nextP, Limit - 1)

regs == [k \in RegIdx |-> IF k = P THEN pc ELSE store[k]]

M == INSTANCE Machine WITH status <- "running"

\* Reset makes P the reset vector.  It does not keep the instruction in
\* progress from being completed by the same edge.
Restart ==
  /\ rst'
  /\ \/ regs' = [regs EXCEPT ![P] = RESETVECTOR] /\ UNCHANGED mem
     \/ regs' = [M!RegsAfter EXCEPT ![P] = RESETVECTOR] /\ mem' = M!MemAfter

\* Seen from the program, every edge is one whole instruction as the
\* simulator executes it, nothing, or a restart: whatever the wait states,
\* halts and resets, no result of Exec and no acknowledgement is taken for
\* that of another instruction.  A program that uses an address nobody
\* handles is on its own: the simulator stops, the core carries on.
RunsMachine ==
  /\ regs = [k \in RegIdx |-> IF k = P THEN RESETVECTOR ELSE 0]
  /\ [][strayed' \/ UNCHANGED <<regs, mem>> \/ M!run_instruction \/ Restart]_vars

\* Without further resets, instructions keep being completed.
Retires == <>[]~rst => []<>(state = "s4")

=============================================================================
