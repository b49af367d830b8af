-------------------------------- MODULE Isa ---------------------------------
(***************************************************************************)
(* What one tenyr instruction computes (src/src/ops.h, do_op and do_common *)
(* in src/src/sim.c), as functions of the registers it sees.               *)
(*                                                                         *)
(* Fields is the bit layout of ops.h with both immediates sign-extended,   *)
(* and Op the operation on two operands that an opcode selects; nothing    *)
(* here or in the modules that use them depends on what they are.          *)
(***************************************************************************)
EXTENDS Integers

CONSTANTS Limit,      \* number of values of a word
          RegIdx, P,  \* register numbers, and 15, the instruction pointer
          Opcodes, OP_BITWISE_OR,
          Op(_, _, _),
          Fields      \* word |-> its fields, in either format

Word == 0 .. Limit - 1

\* p: the position of the immediate, or 3 for the format with the wide one.
Insn == [p : 0 .. 3, dd : 0 .. 3, z : RegIdx, x : RegIdx, y : RegIdx,
         op : Opcodes, imm : Word, imm20 : Word]

ASSUME LimitAssumption  == Limit \in Nat \ {0}
ASSUME RegAssumption    == RegIdx \subseteq Nat /\ 0 \in RegIdx /\ P \in RegIdx \ {0}
ASSUME OpcodeAssumption == OP_BITWISE_OR \in Opcodes
ASSUME OpAssumption     == \A o \in Opcodes, a, b \in Word : Op(o, a, b) \in Word
ASSUME FieldsAssumption == Fields \in [Word -> Insn]

\* Mutant of Plus: a carry out of the word is kept.
PlusCarry(a, b) == a + b

Plus(a, b) == (a + b) % Limit

-----------------------------------------------------------------------------
(* i is an instruction; r the registers, with P already incremented.       *)

\* do_op's p[2] and p[1], and p[0], which is added to the result.
Operands(i, r) ==
  CASE i.p = 0 -> <<r[i.x], r[i.y], i.imm>>
    [] i.p = 1 -> <<r[i.x], i.imm, r[i.y]>>
    [] i.p = 2 -> <<i.imm, r[i.x], r[i.y]>>
    [] i.p = 3 -> <<0, r[i.x], i.imm20>>

rhs(i, r) ==
  LET o == Operands(i, r)
  IN  Plus(Op(IF i.p = 3 THEN OP_BITWISE_OR ELSE i.op, o[1], o[2]), o[3])

Loads(i)  == i.dd = 3
Stores(i) == i.dd \in {1, 2}

\* The address that is accessed, and the word that is stored there.
Address(i, r) == IF i.dd = 2 THEN r[i.z] ELSE rhs(i, r)
Stored(i, r)  == IF i.dd = 2 THEN rhs(i, r) ELSE r[i.z]

\* Writes to register 0 are thrown away.
Put(r, z, v) == IF z = 0 THEN r ELSE [r EXCEPT ![z] = v]

=============================================================================
