----------------------------- MODULE CoreProofs -----------------------------
(***************************************************************************)
(* The hardware core runs the machine of the simulator: for every program, *)
(* word width, register file, operation and memory map.                    *)
(***************************************************************************)
EXTENDS Core, TLAPS

USE LimitAssumption, RegAssumption, MapAssumption

-----------------------------------------------------------------------------
(* Words and wires.                                                        *)

\* A sum of words is a word.
LEMMA PlusType == \A a, b \in Int : Plus(a, b) \in Word
  BY DEF Plus, Word

\* Incrementing and decrementing a word undo each other, at the ends too.
LEMMA PlusInverse ==
  \A a \in Word : /\ Plus(Plus(a, 1), Limit - 1) = a
                  /\ Plus(Plus(a, Limit - 1), 1) = a
<1> SUFFICES ASSUME NEW a \in Word
             PROVE  /\ Plus(Plus(a, 1), Limit - 1) = a
                    /\ Plus(Plus(a, Limit - 1), 1) = a
  OBVIOUS
<1>1. a \in Int /\ 0 <= a /\ a < Limit
  BY DEF Word
<1>2. \A n \in Int : 0 <= n /\ n < Limit => n % Limit = n
  OBVIOUS
<1>3. \A n \in Int : Limit <= n /\ n < 2 * Limit => n % Limit = n - Limit
  OBVIOUS
<1>4. ASSUME a + 1 < Limit PROVE Plus(Plus(a, 1), Limit - 1) = a
  <2>1. Plus(a, 1) = a + 1
    BY <1>1, <1>2, <1>4 DEF Plus
  <2>2. Plus(a + 1, Limit - 1) = a
    BY <1>1, <1>3 DEF Plus
  <2> QED BY <2>1, <2>2
<1>5. ASSUME a + 1 = Limit PROVE Plus(Plus(a, 1), Limit - 1) = a
  <2>1. Plus(a, 1) = 0
    BY <1>1, <1>3, <1>5 DEF Plus
  <2>2. Plus(0, Limit - 1) = a
    BY <1>1, <1>2, <1>5 DEF Plus
  <2> QED BY <2>1, <2>2
<1>6. ASSUME a = 0 PROVE Plus(Plus(a, Limit - 1), 1) = a
  <2>1. Plus(a, Limit - 1) = Limit - 1
    BY <1>2, <1>6 DEF Plus
  <2>2. Plus(Limit - 1, 1) = 0
    BY <1>3 DEF Plus
  <2> QED BY <1>6, <2>1, <2>2
<1>7. ASSUME a > 0 PROVE Plus(Plus(a, Limit - 1), 1) = a
  <2>1. Plus(a, Limit - 1) = a - 1
    BY <1>1, <1>3, <1>7 DEF Plus
  <2>2. Plus(a - 1, 1) = a
    BY <1>1, <1>2, <1>7 DEF Plus
  <2> QED BY <2>1, <2>2
<1> QED
  <2>1. Plus(Plus(a, 1), Limit - 1) = a
    BY <1>1, <1>4, <1>5
  <2>2. Plus(Plus(a, Limit - 1), 1) = a
    BY <1>1, <1>6, <1>7
  <2> QED BY <2>1, <2>2

\* The wires carry values of their width.
LEMMA WireTypes ==
  ASSUME TypeOK
  PROVE  /\ F \in Insn /\ op \in Opcodes /\ valI \in Word
         /\ \A k \in RegIdx : val(k) \in Word
         /\ valA \in Word /\ valB \in Word /\ valC \in Word
         /\ nextZ \in Word /\ nextI \in Word /\ adrD \in Word
         /\ dat_o \in Word /\ dat_i \in Word
<1>1. F \in Insn
  BY FieldsAssumption DEF TypeOK, F
<1>2. op \in Opcodes /\ valI \in Word /\ idxY \in RegIdx
  BY <1>1, OpcodeAssumption DEF op, valI, idxY, Insn
<1>3. \A k \in RegIdx : val(k) \in Word
  BY DEF TypeOK, val
<1>4. F.x \in RegIdx /\ F.z \in RegIdx /\ F.p \in 0 .. 3 /\ 0 \in Word
  BY <1>1 DEF Insn, Word
<1>5. valA \in Word /\ valB \in Word /\ valC \in Word
  <2>1. val(F.x) \in Word /\ val(idxY) \in Word
    BY <1>2, <1>3, <1>4
  <2> QED BY <1>2, <1>4, <2>1 DEF valA, valB, valC
<1>6. nextZ \in Word /\ nextI \in Word /\ adrD \in Word /\ dat_o \in Word
  BY <1>3, <1>4 DEF TypeOK, nextZ, nextI, adrD, dat_o
<1>7. dat_i \in Word
  BY <1>4 DEF TypeOK, dat_i, AllOnes, Word
<1> QED BY <1>1, <1>2, <1>3, <1>5, <1>6, <1>7

-----------------------------------------------------------------------------
(* Types.                                                                  *)

\* The registers that every edge changes keep their types.
LEMMA EdgeType ==
  ASSUME TypeOK, NEW r \in BOOLEAN, Edge(r)
  PROVE  /\ store' \in [RegIdx \ {P} -> Word]
         /\ <<staged, act, add, done>>' \in BOOLEAN \X BOOLEAN \X BOOLEAN \X BOOLEAN
         /\ rin' \in [op : Opcodes, A : Word, B : Word, C : Word]
         /\ rY' \in Word /\ rZ' \in Word /\ valZ' \in Word
         /\ ack' \in BOOLEAN /\ dout' \in Word
         /\ mem' \in [Ram \cup Mmr -> Word]
         /\ rst' \in BOOLEAN /\ strayed' \in BOOLEAN
<1> USE DEF Edge
<1>1. store' \in [RegIdx \ {P} -> Word]
  BY WireTypes DEF TypeOK, Reg
<1>2. <<staged, act, add, done>>' \in BOOLEAN \X BOOLEAN \X BOOLEAN \X BOOLEAN
  BY DEF TypeOK, Exec
<1>3. rin' \in [op : Opcodes, A : Word, B : Word, C : Word]
  BY WireTypes DEF Exec
<1>4. rY' \in Word
  <2>1. Op(rin.op, rin.A, rin.B) \in Word
    BY OpAssumption DEF TypeOK
  <2> QED BY <2>1 DEF TypeOK, Exec
<1>5. rZ' \in Word
  <2>1. rY \in Int /\ rin.C \in Int
    BY DEF TypeOK, Word
  <2>2. Plus(rY, rin.C) \in Word
    BY <2>1, PlusType
  <2> QED BY <2>2 DEF TypeOK, Exec
<1>6. valZ' \in Word
  BY DEF TypeOK, Exec
<1>7. ack' \in BOOLEAN
  <2>1. stb_o \in BOOLEAN
    BY DEF stb_o, i_strb, d_strb
  <2> QED BY <2>1 DEF TypeOK, Slaves
<1>8. dout' \in Word
  BY JunkAssumption DEF TypeOK, Slaves
<1>9. mem' \in [Ram \cup Mmr -> Word]
  BY WireTypes DEF TypeOK, Slaves
<1>10. rst' \in BOOLEAN /\ strayed' \in BOOLEAN
  BY DEF TypeOK, Slaves, i_strb, d_strb
<1> QED BY <1>1, <1>2, <1>3, <1>4, <1>5, <1>6, <1>7, <1>8, <1>9, <1>10

\* Every state starts with the right types, and every edge keeps them.
LEMMA InitType == Init => TypeOK
<1> SUFFICES ASSUME Init PROVE TypeOK
  OBVIOUS
<1>1. 0 \in Word /\ RESETVECTOR \in Word
  BY VectorAssumption DEF Word
<1>2. PICK w \in Junk :
        /\ insn = w /\ irhs = w /\ data = w /\ nextP = w
        /\ rin = [op |-> OP_BITWISE_OR, A |-> w, B |-> w, C |-> w]
        /\ rY = w /\ rZ = w /\ valZ = w /\ dout = w
  BY DEF Init
<1>3. w \in Word
  BY JunkAssumption
<1>4. rin \in [op : Opcodes, A : Word, B : Word, C : Word]
  BY <1>2, <1>3, OpcodeAssumption
<1> QED BY <1>1, <1>2, <1>3, <1>4, ImagesAssumption DEF Init, TypeOK

\* Every edge of the clock, or none, keeps every register in its type.
LEMMA NextType == TypeOK /\ [Next]_vars => TypeOK'
<1> SUFFICES ASSUME TypeOK, [Next]_vars PROVE TypeOK'
  OBVIOUS
<1>1. CASE UNCHANGED vars
  BY <1>1 DEF vars, TypeOK
<1>2. CASE Next
  <2>1. \E r \in BOOLEAN : Edge(r)
    BY <1>2 DEF Next, s0, s1, s2, s3, s4, s5, s6, reset
  <2>2. /\ state' \in {"s0", "s1", "s2", "s3", "s4", "s5", "s6"}
        /\ adr_o' \in Word /\ insn' \in Word /\ irhs' \in Word
        /\ data' \in Word /\ nextP' \in Word
    <3>1. RESETVECTOR \in Word
      BY VectorAssumption
    <3>2. adr_o \in Int
      BY DEF TypeOK, Word
    <3>3. Plus(adr_o, 1) \in Word
      BY <3>2, PlusType
    <3> QED BY <1>2, <3>1, <3>3, WireTypes DEF TypeOK, Next, s0, s1, s2, s3, s4, s5, s6, reset
  <2> QED BY <2>1, <2>2, EdgeType DEF TypeOK
<1> QED BY <1>1, <1>2

-----------------------------------------------------------------------------
(* The inductive invariant.                                                *)

\* What the wires into Exec carry, and what comes out of it in the end.
Now    == [op |-> op, A |-> valA, B |-> valB, C |-> valC]
Result == Plus(Op(op, valA, valB), valC)

\* From s0 on, everything in the stages of Exec that are marked as holding
\* something belongs to the instruction in progress.
Fresh ==
  /\ state \in {"s0", "s1"} =>
       /\ staged \/ act => rin = Now
       /\ act => rY = Op(op, valA, valB)
       /\ add => rZ = Result
  /\ state = "s1" /\ done => valZ = Result
  /\ state \in {"s2", "s3", "s4"} => irhs = Result

\* It does because the stages have drained by then: a fetch takes longer than
\* what a reset in s0 leaves behind, but only just.
Drained ==
  /\ state = "s6" => ~staged /\ ~act
  /\ state = "s5" /\ ack_i => ~staged

here == Plus(nextP, Limit - 1)

\* insn is the word that P points at.
Fetched ==
  /\ state = "s6" => adr_o \in Ram /\ dout = mem[adr_o] /\ nextP = Plus(adr_o, 1)
  /\ state \in {"s0", "s1", "s2", "s3", "s4"} /\ ~Committed =>
       here \in Ram /\ insn = mem[here]

\* Where a load or a store has got to.
Accessing ==
  /\ state = "s3" =>
       /\ loading \/ storing
       /\ adr_o = adrD
       /\ ack /\ adr_o \in Ram => IF storing THEN mem[adr_o] = dat_o ELSE dout = mem[adr_o]
  /\ state = "s4" /\ loading /\ ~strayed => adrD \in DOMAIN mem /\ data = mem[adrD]

Inv == TypeOK /\ Fresh /\ Drained /\ (~strayed => Fetched) /\ Accessing

-----------------------------------------------------------------------------
(* The invariant holds at the start and is kept by every edge.             *)

\* The invariant holds at the end of the first reset: nothing has been started in
\* Exec or on the bus, whatever the uninitialised registers hold.
LEMMA InitInv == Init => Inv
<1> SUFFICES ASSUME Init PROVE Inv
  OBVIOUS
<1>1. state = "s5" /\ ~staged
  BY DEF Init
<1> QED BY <1>1, InitType DEF Inv, Fresh, Drained, Fetched, Accessing

\* While the instruction and its registers stay, so does all it computes.
LEMMA SameWires ==
  ASSUME UNCHANGED <<insn, nextP, store>>
  PROVE  /\ UNCHANGED <<F, op, valA, valB, valC, Now, Result>>
         /\ UNCHANGED <<storing, loading, deref_rhs, branching>>
         /\ UNCHANGED <<val(F.z), here>>
<1>1. F' = F
  BY DEF F
<1>2. UNCHANGED <<idxY, op, valI, storing, loading, deref_rhs, branching>>
  BY <1>1 DEF idxY, op, valI, storing, loading, deref_rhs, branching
<1>3. UNCHANGED <<val(F.x), val(F.z), val(idxY)>>
  BY <1>1, <1>2 DEF val
<1>4. UNCHANGED <<valA, valB, valC>>
  BY <1>1, <1>2, <1>3 DEF valA, valB, valC
<1>5. here' = here
  BY DEF here, Plus
<1> QED BY <1>1, <1>2, <1>3, <1>4, <1>5 DEF Now, Result, Plus

\* Only s4 writes a register and only s3 the memory.
LEMMA EdgeFrame ==
  ASSUME NEW r \in BOOLEAN, Edge(r)
  PROVE  /\ state # "s4" => store' = store
         /\ state # "s3" => mem' = mem
         /\ state \notin {"s3", "s5"} => ~ack'
         /\ strayed => strayed'
<1>1. state # "s4" => store' = store
  BY DEF Edge, Reg, upZ
<1>2. state # "s3" => mem' = mem
  BY DEF Edge, Slaves, wen_o, d_strb
<1>3. state \notin {"s3", "s5"} => ~ack'
  BY DEF Edge, Slaves, stb_o, i_strb, d_strb
<1>4. strayed => strayed'
  BY DEF Edge, Slaves
<1> QED BY <1>1, <1>2, <1>3, <1>4

\* s0 and s1: the result makes its way through Exec.
LEMMA ExecFresh ==
  ASSUME Inv, NEW r \in BOOLEAN, Edge(r), state \in {"s0", "s1"},
         UNCHANGED <<insn, nextP>>
  PROVE  /\ rin' = Now'
         /\ act' => rY' = Op(op, valA, valB)'
         /\ add' => rZ' = Result'
         /\ done' => valZ' = Result'
<1>1. store' = store
  BY EdgeFrame
<1>2. UNCHANGED <<op, valA, valB, valC, Now, Result>>
  BY <1>1, SameWires
<1>3. rin' = Now
  BY DEF Edge, Exec, Now
<1>4. ASSUME act' PROVE rY' = Op(op, valA, valB)
  <2>1. staged
    BY <1>4 DEF Edge, Exec
  <2>2. rin = Now
    BY <2>1 DEF Inv, Fresh
  <2> QED BY <2>1, <2>2 DEF Edge, Exec, Now
<1>5. ASSUME add' PROVE rZ' = Result
  <2>1. act
    BY <1>5 DEF Edge, Exec
  <2>2. rin = Now /\ rY = Op(op, valA, valB)
    BY <2>1 DEF Inv, Fresh
  <2> QED BY <2>1, <2>2 DEF Edge, Exec, Now, Result
<1>6. ASSUME done' PROVE valZ' = Result
  <2>1. add
    BY <1>6 DEF Edge, Exec
  <2> QED BY <2>1 DEF Edge, Exec, Inv, Fresh
<1>7. Op(op, valA, valB)' = Op(op, valA, valB)
  BY <1>2
<1> QED BY <1>2, <1>3, <1>4, <1>5, <1>6, <1>7

\* s0, halted or not, starts Exec on the operands of the instruction in insn, over
\* and over while halt is high, and each time on the same ones.
LEMMA S0Inv == ASSUME Inv, TypeOK', NEW halt \in BOOLEAN, s0(halt) PROVE Inv'
<1>1. Edge(FALSE) /\ state = "s0" /\ state' \in {"s0", "s1"}
      /\ UNCHANGED <<adr_o, insn, irhs, data, nextP>>
  BY DEF s0
<1>2. UNCHANGED <<store, mem>> /\ (strayed => strayed')
  BY <1>1, EdgeFrame
<1>3. Fresh'
  BY <1>1, ExecFresh DEF Fresh
<1>4. Drained' /\ Accessing'
  BY <1>1 DEF Drained, Accessing
<1>5. ~strayed' => Fetched'
  <2>1. here' = here
    BY <1>1, <1>2, SameWires
  <2>2. ~Committed
    BY <1>1 DEF Committed
  <2> QED BY <1>1, <1>2, <2>1, <2>2 DEF Inv, Fetched
<1> QED BY <1>3, <1>4, <1>5 DEF Inv

\* s1 leaves only with the result of this instruction: what done announces was
\* put into Exec after the instruction was fetched.
LEMMA S1Inv == ASSUME Inv, TypeOK', s1 PROVE Inv'
<1>1. Edge(FALSE) /\ state = "s1" /\ state' = (IF done THEN "s2" ELSE "s1")
      /\ irhs' = valZ /\ UNCHANGED <<adr_o, insn, data, nextP>>
  BY DEF s1
<1>2. UNCHANGED <<store, mem>> /\ (strayed => strayed')
  BY <1>1, EdgeFrame
<1>3. Fresh'
  <2>1. CASE done
    <3>1. valZ = Result /\ Result' = Result
      BY <1>1, <1>2, <2>1, SameWires DEF Inv, Fresh
    <3> QED BY <1>1, <2>1, <3>1 DEF Fresh
  <2>2. CASE ~done
    BY <1>1, <2>2, ExecFresh DEF Fresh
  <2> QED BY <2>1, <2>2
<1>4. Drained' /\ Accessing'
  BY <1>1 DEF Drained, Accessing
<1>5. ~strayed' => Fetched'
  <2>1. here' = here
    BY <1>1, <1>2, SameWires
  <2>2. ~Committed
    BY <1>1 DEF Committed
  <2> QED BY <1>1, <1>2, <2>1, <2>2 DEF Inv, Fetched
<1> QED BY <1>3, <1>4, <1>5 DEF Inv

\* s2 puts the address of the access on the bus, where it stays during s3.
LEMMA S2Inv == ASSUME Inv, TypeOK', s2 PROVE Inv'
<1>1. Edge(FALSE) /\ state = "s2" /\ state' = (IF loading \/ storing THEN "s3" ELSE "s4")
      /\ adr_o' = adrD /\ UNCHANGED <<insn, irhs, data, nextP>>
  BY DEF s2
<1>2. UNCHANGED <<store, mem>> /\ ~ack' /\ (strayed => strayed')
  BY <1>1, EdgeFrame
<1>3. /\ UNCHANGED <<Result, storing, loading, deref_rhs, here>>
      /\ val(F.z)' = val(F.z)
  BY <1>1, <1>2, SameWires
<1>4. Fresh'
  BY <1>1, <1>3 DEF Inv, Fresh
<1>5. Drained'
  BY <1>1 DEF Drained
<1>6. Accessing'
  <2>1. adrD' = adrD
    BY <1>1, <1>3 DEF adrD
  <2> QED BY <1>1, <1>2, <1>3, <2>1 DEF Accessing
<1>7. ~strayed' => Fetched'
  <2>1. ~Committed
    BY <1>1 DEF Committed
  <2> QED BY <1>1, <1>2, <1>3, <2>1 DEF Inv, Fetched
<1> QED BY <1>4, <1>5, <1>6, <1>7 DEF Inv

\* s4 ends the instruction; nothing is put into Exec from here until s0.
LEMMA S4Inv == ASSUME Inv, TypeOK', s4 PROVE Inv'
<1>1. Edge(FALSE) /\ state = "s4" /\ state' = "s5"
  BY DEF s4
<1>2. ~staged'
  BY <1>1 DEF Edge, Exec
<1> QED BY <1>1, <1>2 DEF Inv, Fresh, Drained, Fetched, Accessing

\* s5 fetches: when RAM acknowledges, its output is the word P points at.
LEMMA S5Inv == ASSUME Inv, TypeOK', s5 PROVE Inv'
<1>1. Edge(FALSE) /\ state = "s5" /\ state' = (IF ack_i THEN "s6" ELSE "s5")
      /\ nextP' = Plus(adr_o, 1) /\ UNCHANGED <<adr_o, insn, irhs, data>>
  BY DEF s5
<1>2. mem' = mem
  BY <1>1, EdgeFrame
<1>3. ~staged' /\ act' = staged
  BY <1>1 DEF Edge, Exec
<1>4. Fresh' /\ Accessing'
  BY <1>1 DEF Fresh, Accessing
<1>5. Drained'
  BY <1>1, <1>3 DEF Inv, Drained
<1>6. ~strayed' => Fetched'
  <2>1. ~strayed' => adr_o \in Ram
    BY <1>1 DEF Edge, Slaves, i_strb
  <2>2. adr_o \in Ram => dout' = mem[adr_o]
    BY <1>1 DEF Edge, Slaves
  <2>3. adr_o' = adr_o /\ nextP' = Plus(adr_o, 1)'
    BY <1>1 DEF Plus
  <2> QED BY <1>1, <1>2, <2>1, <2>2, <2>3 DEF Fetched
<1> QED BY <1>4, <1>5, <1>6 DEF Inv

\* s6 latches the fetched word; by then the pipeline of Exec has drained.
LEMMA S6Inv == ASSUME Inv, TypeOK', s6 PROVE Inv'
<1>1. Edge(FALSE) /\ state = "s6" /\ state' = "s0"
      /\ insn' = dat_i /\ UNCHANGED <<adr_o, irhs, data, nextP>>
  BY DEF s6
<1>2. mem' = mem /\ (strayed => strayed')
  BY <1>1, EdgeFrame
<1>3. ~staged' /\ ~act' /\ ~add'
  BY <1>1 DEF Edge, Exec, Inv, Drained
<1>4. Fresh' /\ Drained' /\ Accessing'
  BY <1>1, <1>3 DEF Fresh, Drained, Accessing
<1>5. ~strayed' => Fetched'
  <2> SUFFICES ASSUME ~strayed' PROVE Fetched'
    OBVIOUS
  <2>1. adr_o \in Ram /\ dout = mem[adr_o] /\ nextP = Plus(adr_o, 1)
    BY <1>1, <1>2 DEF Inv, Fetched
  <2>2. insn' = mem[adr_o]
    BY <1>1, <2>1 DEF dat_i
  <2>3. Plus(nextP, Limit - 1) = adr_o
    BY <2>1, PlusInverse
  <2>4. here' = Plus(nextP, Limit - 1)
    BY <1>1 DEF here, Plus
  <2> QED BY <1>1, <1>2, <2>1, <2>2, <2>3, <2>4 DEF Fetched
<1> QED BY <1>4, <1>5 DEF Inv

\* Reset in s0 leaves an operation at the head of Exec; RAM cannot acknowledge
\* the new fetch before it has moved on.
LEMMA ResetInv == ASSUME Inv, TypeOK', reset PROVE Inv'
<1>1. Edge(TRUE) /\ state' = "s5" /\ adr_o' = RESETVECTOR
  BY DEF reset
<1>2. ASSUME ack_i' PROVE ~staged'
  <2>1. ack'
    BY <1>1, <1>2, VectorAssumption DEF ack_i
  <2>2. state # "s0"
    BY <1>1, <2>1, EdgeFrame
  <2> QED BY <1>1, <2>2 DEF Edge, Exec
<1> QED BY <1>1, <1>2 DEF Inv, Fresh, Drained, Fetched, Accessing

\* In s3 the strobe is high and the address and the data on the bus do not move.
LEMMA S3Wires ==
  ASSUME Inv, NEW r \in BOOLEAN, Edge(r), state = "s3", UNCHANGED <<insn, irhs, nextP>>
  PROVE  /\ UNCHANGED <<store, Result, storing, loading, here, adrD, dat_o>>
         /\ stb_o /\ (wen_o <=> storing)
         /\ storing /\ adr_o \in DOMAIN mem => mem' = [mem EXCEPT ![adr_o] = dat_o]
         /\ ~storing => mem' = mem
         /\ ~strayed' => adr_o \in DOMAIN mem
<1>1. store' = store
  BY EdgeFrame
<1>2. /\ UNCHANGED <<Result, storing, loading, deref_rhs, here>>
      /\ val(F.z)' = val(F.z)
  BY <1>1, SameWires
<1>3. d_strb
  BY DEF Inv, Accessing, d_strb
<1>4. UNCHANGED <<adrD, dat_o>>
  BY <1>2 DEF adrD, dat_o
<1>5. stb_o /\ (wen_o <=> storing)
  BY <1>3 DEF stb_o, wen_o
<1> QED BY <1>1, <1>2, <1>3, <1>4, <1>5 DEF Edge, Slaves

\* s3 repeats a store until it is acknowledged, with the same word to the same
\* address, and takes the word of a load from the slave that it addressed.
LEMMA S3Inv == ASSUME Inv, TypeOK', s3 PROVE Inv'
<1>1. Edge(FALSE) /\ state = "s3" /\ state' = (IF ack_i THEN "s4" ELSE "s3")
      /\ data' = dat_i /\ UNCHANGED <<adr_o, insn, irhs, nextP>>
  BY DEF s3
<1>2. /\ UNCHANGED <<store, Result, storing, loading, here, adrD, dat_o>>
      /\ stb_o /\ (wen_o <=> storing)
      /\ storing /\ adr_o \in DOMAIN mem => mem' = [mem EXCEPT ![adr_o] = dat_o]
      /\ ~storing => mem' = mem
      /\ ~strayed' => adr_o \in DOMAIN mem
  BY <1>1, S3Wires
<1>3. Fresh' /\ Drained'
  BY <1>1, <1>2 DEF Inv, Fresh, Drained
<1>4. adr_o = adrD /\ (loading \/ storing) /\ ~(loading /\ storing)
  BY <1>1 DEF Inv, Accessing, loading, storing
<1>5. CASE ~ack_i
  <2>1. adr_o \in Ram /\ adr_o \in DOMAIN mem /\ ack' /\ dout' = mem[adr_o]
    BY <1>1, <1>2, <1>5 DEF Inv, TypeOK, ack_i, Edge, Slaves
  <2>2. storing => mem'[adr_o] = dat_o
    BY <1>2, <2>1
  <2>3. Accessing'
    BY <1>1, <1>2, <1>4, <1>5, <2>1, <2>2 DEF Accessing
  <2>4. storing => Committed'
    BY <1>1, <1>2, <1>5, <2>1 DEF Committed
  <2>5. ~storing /\ ~strayed' => Fetched'
    <3>1. strayed => strayed'
      BY <1>1, EdgeFrame
    <3>2. ~storing => ~Committed
      BY DEF Committed
    <3> QED BY <1>1, <1>2, <1>5, <3>1, <3>2 DEF Inv, Fetched
  <2>6. ~strayed' => Fetched'
    BY <1>1, <1>5, <2>4, <2>5 DEF Fetched
  <2> QED BY <1>3, <2>3, <2>6 DEF Inv
<1>6. CASE ack_i
  <2>1. loading /\ ~strayed' => data' = mem[adr_o]
    <3> SUFFICES ASSUME loading, ~strayed' PROVE dat_i = mem[adr_o]
      BY <1>1
    <3>1. CASE adr_o \in Ram
      BY <1>1, <1>4, <1>6, <3>1 DEF Inv, Accessing, ack_i, dat_i
    <3>2. CASE adr_o \notin Ram
      <4>1. adr_o \in Mmr
        BY <1>2, <3>2 DEF Inv, TypeOK
      <4> QED BY <1>2, <1>4, <3>2, <4>1 DEF dat_i
    <3> QED BY <3>1, <3>2
  <2>2. Accessing'
    BY <1>1, <1>2, <1>4, <1>6, <2>1 DEF Accessing
  <2>3. storing => Committed'
    BY <1>1, <1>2, <1>6 DEF Committed
  <2>4. ~storing /\ ~strayed' => Fetched'
    <3>1. strayed => strayed'
      BY <1>1, EdgeFrame
    <3>2. ~storing => ~Committed
      BY DEF Committed
    <3> QED BY <1>1, <1>2, <1>6, <3>1, <3>2 DEF Inv, Fetched
  <2>5. ~strayed' => Fetched'
    BY <1>1, <1>6, <2>3, <2>4 DEF Fetched
  <2> QED BY <1>3, <2>2, <2>5 DEF Inv
<1> QED BY <1>5, <1>6

\* Every edge of the clock, or none, keeps the invariant.
LEMMA NextInv == Inv /\ [Next]_vars => Inv'
<1> SUFFICES ASSUME Inv, [Next]_vars PROVE Inv'
  OBVIOUS
<1>1. TypeOK'
  BY NextType DEF Inv
<1>2. CASE UNCHANGED vars
  <2>1. UNCHANGED <<insn, nextP, store>>
    BY <1>2 DEF vars
  <2>2. UNCHANGED <<F, op, valA, valB, valC, Now, Result, storing, loading, deref_rhs,
                    val(F.z), here>>
    BY <2>1, SameWires
  <2>3. UNCHANGED <<adrD, dat_o, stb_o, ack_i, Committed>>
    BY <1>2, <2>2 DEF vars, adrD, dat_o, stb_o, i_strb, d_strb, ack_i, Committed
  <2>4. Fresh' /\ Drained'
    BY <1>2, <2>2, <2>3 DEF vars, Inv, Fresh, Drained
  <2>5. ~strayed' => Fetched'
    BY <1>2, <2>2, <2>3 DEF vars, Inv, Fetched, Plus
  <2>6. Accessing'
    BY <1>2, <2>2, <2>3 DEF vars, Inv, Accessing
  <2> QED BY <1>1, <2>4, <2>5, <2>6 DEF Inv
<1>3. CASE Next
  BY <1>1, <1>3, S0Inv, S1Inv, S2Inv, S3Inv, S4Inv, S5Inv, S6Inv, ResetInv DEF Next
<1> QED BY <1>2, <1>3

\* Every register of the core holds a value of its width at all times.
THEOREM CoreTypes == Spec => []TypeOK
<1>1. Init => TypeOK
  BY InitType
<1>2. TypeOK /\ [Next]_vars => TypeOK'
  BY NextType
<1> QED BY <1>1, <1>2, PTL DEF Spec

-----------------------------------------------------------------------------
(* Every edge is an instruction of the machine, or nothing, or a restart.  *)

Vals == [k \in RegIdx |-> val(k)]
Step == M!run_instruction
Idle == UNCHANGED <<regs, mem>>

\* The registers as the program sees them, by the state of the core.
LEMMA Visible ==
  ASSUME TypeOK
  PROVE  /\ regs \in [RegIdx -> Word]
         /\ regs[P] = pc
         /\ \A k \in RegIdx \ {P} : regs[k] = store[k]
<1>1. here \in Word
  <2>1. nextP \in Int /\ Limit - 1 \in Int
    BY DEF TypeOK, Word
  <2> QED BY <2>1, PlusType DEF here
<1>2. pc \in Word
  BY <1>1 DEF TypeOK, pc, here
<1> QED BY <1>2 DEF TypeOK, regs

\* Until it commits, the instruction in progress is the one the machine is
\* about to execute, on the registers that the core reads.
LEMMA Decoded ==
  ASSUME TypeOK, Fetched, ~Committed, state \in {"s3", "s4"}
  PROVE  M!Fetchable /\ M!insn = F /\ M!Advanced = Vals
<1>1. regs[P] = here
  BY Visible DEF pc, here
<1>2. here \in Ram /\ insn = mem[here]
  BY DEF Fetched
<1>3. here # Limit - 1 /\ here \in DOMAIN mem
  BY <1>2, VectorAssumption DEF TypeOK
<1>4. M!Fetchable
  BY <1>1, <1>3 DEF M!Fetchable, M!EndAddress
<1>5. M!insn = F
  BY <1>1, <1>2 DEF M!insn, F
<1>6. M!Plus(here, 1) = nextP
  BY PlusInverse DEF TypeOK, here, M!Plus, Plus
<1>7. M!Advanced = [regs EXCEPT ![P] = nextP]
  BY <1>1, <1>6 DEF M!Advanced
<1>8. [regs EXCEPT ![P] = nextP] = Vals
  BY Visible DEF Vals, val
<1> QED BY <1>4, <1>5, <1>7, <1>8

\* Shuf and Exec compute what do_op does.
LEMMA SameResult == ASSUME TypeOK PROVE M!rhs(F, Vals) = Result
<1>1. F \in Insn
  BY WireTypes
<1>2. F.x \in RegIdx /\ F.y \in RegIdx /\ F.p \in {0, 1, 2, 3}
  BY <1>1 DEF Insn
<1>3. Vals[F.x] = val(F.x) /\ Vals[F.y] = val(F.y)
  BY <1>2 DEF Vals
<1>4. /\ M!Operands(F, Vals)[1] = valA
      /\ M!Operands(F, Vals)[2] = valB
      /\ M!Operands(F, Vals)[3] = valC
  <2>1. CASE F.p = 0
    BY <1>3, <2>1 DEF M!Operands, valA, valB, valC, valI, idxY
  <2>2. CASE F.p = 1
    BY <1>3, <2>2 DEF M!Operands, valA, valB, valC, valI, idxY
  <2>3. CASE F.p = 2
    BY <1>3, <2>3 DEF M!Operands, valA, valB, valC, valI, idxY
  <2>4. CASE F.p = 3
    BY <1>3, <2>4 DEF M!Operands, valA, valB, valC, valI, idxY
  <2> QED BY <1>2, <2>1, <2>2, <2>3, <2>4
<1> QED BY <1>4 DEF M!rhs, M!Plus, Result, Plus, op

\* The access that the machine makes is the one on the bus.
LEMMA SameAccess ==
  ASSUME TypeOK, irhs = Result
  PROVE  /\ M!Loads(F) = loading /\ M!Stores(F) = storing
         /\ loading \/ storing => M!Address(F, Vals) = adrD
         /\ storing => M!Stored(F, Vals) = dat_o
<1>1. F.z \in RegIdx /\ F.dd \in {0, 1, 2, 3}
  BY WireTypes DEF Insn
<1>2. Vals[F.z] = val(F.z) /\ M!rhs(F, Vals) = irhs
  BY <1>1, SameResult DEF Vals
<1> QED BY <1>1, <1>2 DEF M!Loads, M!Stores, loading, storing, M!Address, M!Stored,
                          adrD, dat_o, deref_rhs

\* A store takes effect at the first edge in s3 at which it has not yet.
LEMMA CommitStore ==
  ASSUME Inv, NEW r \in BOOLEAN, Edge(r), UNCHANGED <<insn, irhs, nextP>>,
         ~strayed', state = "s3", storing, ~Committed
  PROVE  /\ M!Fetchable /\ M!Reaches
         /\ M!RegsAfter = Vals
         /\ M!MemAfter = mem'
<1>1. TypeOK /\ Fetched
  BY EdgeFrame DEF Inv
<1>2. M!Fetchable /\ M!insn = F /\ M!Advanced = Vals
  BY <1>1, Decoded
<1>3. irhs = Result /\ adr_o = adrD
  BY DEF Inv, Fresh, Accessing
<1>4. M!Stores(F) /\ M!Address(F, Vals) = adr_o /\ M!Stored(F, Vals) = dat_o
  BY <1>1, <1>3, SameAccess
<1>5. adr_o \in DOMAIN mem /\ mem' = [mem EXCEPT ![adr_o] = dat_o]
  BY S3Wires
<1> QED BY <1>2, <1>4, <1>5 DEF M!Reaches, M!Accessed, M!RegsAfter, M!MemAfter

\* Any other instruction takes effect in s4.
LEMMA CommitRegister ==
  ASSUME Inv, NEW r \in BOOLEAN, Edge(r), ~strayed', state = "s4", ~storing
  PROVE  /\ M!Fetchable /\ M!Reaches
         /\ M!RegsAfter = [k \in RegIdx |-> IF k = P THEN nextI ELSE store'[k]]
         /\ M!MemAfter = mem'
<1>1. TypeOK /\ Fetched /\ ~Committed /\ ~strayed
  BY EdgeFrame DEF Inv, Committed
<1>2. M!Fetchable /\ M!insn = F /\ M!Advanced = Vals
  BY <1>1, Decoded
<1>3. irhs = Result
  BY DEF Inv, Fresh
<1>4. M!Loads(F) = loading /\ ~M!Stores(F) /\ (loading => M!Address(F, Vals) = adrD)
  BY <1>1, <1>3, SameAccess
<1>5. loading => adrD \in DOMAIN mem /\ data = mem[adrD]
  BY <1>1 DEF Inv, Accessing
<1>6. F.z \in RegIdx /\ F.dd \in {0, 3} /\ nextZ \in Word
  BY <1>1, WireTypes DEF Insn, storing
<1>7. nextZ = IF loading THEN mem[M!Address(F, Vals)] ELSE M!rhs(F, Vals)
  BY <1>1, <1>3, <1>4, <1>5, <1>6, SameResult DEF nextZ, deref_rhs, loading
<1>8. M!RegsAfter = M!Put(Vals, F.z, nextZ)
  BY <1>2, <1>4, <1>7 DEF M!RegsAfter, M!Accessed
<1>9. M!Put(Vals, F.z, nextZ) = [k \in RegIdx |-> IF k = P THEN nextI ELSE store'[k]]
  <2>1. store' = IF F.z \notin {0, P} THEN [store EXCEPT ![F.z] = nextZ] ELSE store
    BY DEF Edge, Reg, upZ
  <2>2. nextI = IF F.z = P THEN nextZ ELSE nextP
    BY DEF nextI, branching
  <2>3. store \in [RegIdx \ {P} -> Word]
    BY <1>1 DEF TypeOK
  <2> QED BY <1>6, <2>1, <2>2, <2>3 DEF M!Put, Vals, val
<1>10. M!MemAfter = mem' /\ M!Reaches
  BY <1>2, <1>4, <1>5, EdgeFrame DEF M!MemAfter, M!Reaches, M!Accessed
<1> QED BY <1>2, <1>8, <1>9, <1>10

\* What an edge that leaves P and the other registers alone looks like.
LEMMA IdleEdge ==
  ASSUME TypeOK, TypeOK', pc' = pc, UNCHANGED <<store, mem>>
  PROVE  Idle
  BY Visible DEF Idle, regs

\* The states that prepare an instruction change nothing the program can see.
LEMMA S012Idle ==
  ASSUME Inv, TypeOK', (\E halt \in BOOLEAN : s0(halt)) \/ s1 \/ s2
  PROVE  Idle
<1>1. Edge(FALSE) /\ state \in {"s0", "s1", "s2"}
      /\ state' \in {"s0", "s1", "s2", "s3", "s4"}
      /\ (state' = "s4" => ~storing) /\ UNCHANGED <<insn, nextP>>
  BY DEF s0, s1, s2
<1>2. UNCHANGED <<store, mem>> /\ ~ack'
  BY <1>1, EdgeFrame
<1>3. storing' = storing /\ here' = here
  BY <1>1, <1>2, SameWires
<1>4. ~Committed /\ ~Committed'
  BY <1>1, <1>2, <1>3 DEF Committed
<1>5. pc' = pc
  BY <1>1, <1>3, <1>4 DEF pc, here
<1> QED BY <1>2, <1>5, IdleEdge DEF Inv

\* In s3 a store takes effect once, and anything else not at all.
LEMMA S3Step == ASSUME Inv, TypeOK', s3, ~strayed' PROVE Idle \/ Step
<1>1. Edge(FALSE) /\ state = "s3" /\ state' = (IF ack_i THEN "s4" ELSE "s3")
      /\ UNCHANGED <<adr_o, insn, irhs, nextP>>
  BY DEF s3
<1>2. /\ UNCHANGED <<store, storing, here>>
      /\ storing /\ adr_o \in DOMAIN mem => mem' = [mem EXCEPT ![adr_o] = dat_o]
      /\ ~storing => mem' = mem
      /\ stb_o /\ adr_o \in DOMAIN mem
  BY <1>1, S3Wires
<1>3. CASE ~storing
  <2>1. ~Committed /\ ~Committed'
    BY <1>2, <1>3 DEF Committed
  <2>2. pc' = pc
    BY <1>1, <1>2, <2>1 DEF pc, here
  <2> QED BY <1>2, <1>3, <2>2, IdleEdge DEF Inv
<1>4. CASE storing
  <2>1. Committed'
    BY <1>1, <1>2, <1>4 DEF Committed, ack_i, Edge, Slaves
  <2>2. pc' = nextP
    BY <1>1, <2>1 DEF pc
  <2>3. CASE Committed
    <3>1. pc = nextP
      BY <1>1, <2>3 DEF pc
    <3>2. mem[adr_o] = dat_o
      BY <1>1, <1>4, <2>3 DEF Inv, Accessing, Committed
    <3>3. mem' = mem
      BY <1>2, <1>4, <3>2 DEF Inv, TypeOK
    <3> QED BY <1>2, <2>2, <3>1, <3>3, IdleEdge DEF Inv
  <2>4. CASE ~Committed
    <3>1. M!Fetchable /\ M!Reaches /\ M!RegsAfter = Vals /\ M!MemAfter = mem'
      BY <1>1, <1>4, <2>4, CommitStore
    <3>2. regs' = Vals
      BY <1>2, <2>2 DEF regs, Vals, val
    <3> QED BY <3>1, <3>2 DEF Step, M!run_instruction
  <2> QED BY <2>3, <2>4
<1> QED BY <1>3, <1>4

\* In s4 every instruction that is not a store takes effect.
LEMMA S4Step == ASSUME Inv, TypeOK', s4, ~strayed' PROVE Idle \/ Step
<1>1. Edge(FALSE) /\ state = "s4" /\ state' = "s5" /\ adr_o' = nextI
  BY DEF s4
<1>2. pc' = nextI
  BY <1>1 DEF pc
<1>3. CASE storing
  <2>1. Committed /\ ~upZ /\ ~branching
    BY <1>1, <1>3 DEF Committed, upZ, branching
  <2>2. pc = nextP /\ nextI = nextP
    BY <1>1, <2>1 DEF pc, nextI
  <2>3. UNCHANGED <<store, mem>>
    BY <1>1, <2>1, EdgeFrame DEF Edge, Reg
  <2> QED BY <1>2, <2>2, <2>3, IdleEdge DEF Inv
<1>4. CASE ~storing
  <2>1. /\ M!Fetchable /\ M!Reaches /\ M!MemAfter = mem'
        /\ M!RegsAfter = [k \in RegIdx |-> IF k = P THEN nextI ELSE store'[k]]
    BY <1>1, <1>4, CommitRegister
  <2>2. regs' = [k \in RegIdx |-> IF k = P THEN nextI ELSE store'[k]]
    BY <1>2 DEF regs
  <2> QED BY <2>1, <2>2 DEF Step, M!run_instruction
<1> QED BY <1>3, <1>4

\* Fetching changes nothing the program can see.
LEMMA S56Idle == ASSUME Inv, TypeOK', s5 \/ s6, ~strayed' PROVE Idle
<1>1. Edge(FALSE) /\ state \in {"s5", "s6"} /\ state' \in {"s5", "s6", "s0"}
      /\ adr_o' = adr_o
  BY DEF s5, s6
<1>2. UNCHANGED <<store, mem>> /\ ~strayed
  BY <1>1, EdgeFrame
<1>3. ~Committed /\ ~Committed'
  BY <1>1 DEF Committed
<1>4. pc' = pc
  <2>1. CASE s5
    <3>1. state = "s5" /\ nextP' = Plus(adr_o, 1) /\ state' \in {"s5", "s6"}
      BY <2>1 DEF s5
    <3>2. Plus(nextP', Limit - 1) = adr_o
      BY <3>1, PlusInverse DEF Inv, TypeOK
    <3>3. Plus(nextP, Limit - 1)' = Plus(nextP', Limit - 1)
      BY DEF Plus
    <3> QED BY <1>1, <1>3, <3>1, <3>2, <3>3 DEF pc
  <2>2. CASE s6
    <3>1. state = "s6" /\ state' = "s0" /\ nextP' = nextP
      BY <2>2 DEF s6
    <3>2. Plus(nextP, Limit - 1)' = Plus(nextP, Limit - 1)
      BY <3>1 DEF Plus
    <3> QED BY <1>3, <3>1, <3>2 DEF pc
  <2> QED BY <2>1, <2>2
<1> QED BY <1>2, <1>4, IdleEdge DEF Inv

\* At a reset the instruction in progress is completed or dropped, never half of
\* it, and P becomes the reset vector.
LEMMA ResetStep == ASSUME Inv, TypeOK', reset, ~strayed' PROVE Restart
<1>1. Edge(TRUE) /\ state' = "s5" /\ adr_o' = RESETVECTOR
      /\ UNCHANGED <<insn, irhs, data, nextP>>
  BY DEF reset
<1>2. rst' /\ pc' = RESETVECTOR
  BY <1>1 DEF pc, Edge
<1>3. regs' = [k \in RegIdx |-> IF k = P THEN RESETVECTOR ELSE store'[k]]
  BY <1>2 DEF regs
<1>4. ASSUME UNCHANGED <<store, mem>> PROVE Restart
  <2>1. regs' = [regs EXCEPT ![P] = RESETVECTOR]
    BY <1>3, <1>4 DEF regs
  <2> QED BY <1>2, <1>4, <2>1 DEF Restart
<1>5. CASE state \notin {"s3", "s4"}
  BY <1>1, <1>4, <1>5, EdgeFrame
<1>6. CASE state = "s3" /\ (~storing \/ Committed)
  <2>1. mem' = mem
    <3>1. storing => mem[adr_o] = dat_o /\ adr_o \in DOMAIN mem
      BY <1>6 DEF Inv, TypeOK, Accessing, Committed
    <3> QED BY <1>1, <1>6, <3>1, S3Wires DEF Inv, TypeOK
  <2> QED BY <1>1, <1>4, <1>6, <2>1, EdgeFrame
<1>7. CASE state = "s3" /\ storing /\ ~Committed
  <2>1. M!RegsAfter = Vals /\ M!MemAfter = mem'
    BY <1>1, <1>7, CommitStore
  <2>2. store' = store
    BY <1>1, <1>7, EdgeFrame
  <2>3. regs' = [Vals EXCEPT ![P] = RESETVECTOR]
    BY <1>3, <2>2 DEF Vals, val
  <2> QED BY <1>2, <2>1, <2>3 DEF Restart
<1>8. CASE state = "s4" /\ storing
  BY <1>1, <1>4, <1>8, EdgeFrame DEF Edge, Reg, upZ
<1>9. CASE state = "s4" /\ ~storing
  <2>1. /\ M!MemAfter = mem'
        /\ M!RegsAfter = [k \in RegIdx |-> IF k = P THEN nextI ELSE store'[k]]
    BY <1>1, <1>9, CommitRegister
  <2>2. regs' = [M!RegsAfter EXCEPT ![P] = RESETVECTOR]
    BY <1>3, <2>1
  <2> QED BY <1>2, <2>1, <2>2 DEF Restart
<1> QED BY <1>5, <1>6, <1>7, <1>8, <1>9

\* The core implements the machine of the simulator: from the reset vector
\* and cleared registers, every edge of the clock is one whole instruction,
\* nothing or a restart, as long as the program stays on mapped addresses.
THEOREM CoreRunsMachine == Spec => RunsMachine
<1>1. Init => regs = [k \in RegIdx |-> IF k = P THEN RESETVECTOR ELSE 0]
  BY DEF Init, regs, pc
<1>2. Inv /\ [Next]_vars =>
        [strayed' \/ UNCHANGED <<regs, mem>> \/ M!run_instruction \/ Restart]_vars
  <2> SUFFICES ASSUME Inv, Next, ~strayed'
               PROVE  Idle \/ Step \/ Restart
    BY DEF Idle, Step
  <2>1. TypeOK'
    BY NextType DEF Inv
  <2> QED BY <2>1, S012Idle, S3Step, S4Step, S56Idle, ResetStep DEF Next
<1> QED BY <1>1, <1>2, InitInv, NextInv, PTL DEF Spec, RunsMachine

=============================================================================
