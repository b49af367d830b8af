------------------------------- MODULE Disasm -------------------------------
(***************************************************************************)
(* One instruction and its text: print_disassembly (src/src/asm.c) and the *)
(* rules of the assembler for an instruction (src/src/parser.y).           *)
(*                                                                         *)
(* A text is the left side, the arrow and the right side, which is a       *)
(* sequence of operands and operators; the `+' before a third operand is   *)
(* left out.  Type 3 has no operation and no second register: its record   *)
(* has the fields' neutral values.                                         *)
(***************************************************************************)
EXTENDS Integers, Sequences

CONSTANTS Regs,     \* number of registers; 0 is A
          Small,    \* half of the range of a small immediate
          Medium,   \* and of a medium one
          Half      \* and of a word

ASSUME RangesAssumption ==
  /\ {Regs, Small, Medium, Half} \subseteq Nat \ {0}
  /\ Small <= Medium /\ Medium <= Half

SmallImm  == -Small .. Small - 1
MediumImm == -Medium .. Medium - 1
Reg       == 0 .. Regs - 1

Ops == {"+", "-", "*", "^^", "@", "<", "==", ">=", "|", "|~", "&", "&~", "^",
        "<<", ">>", ">>>"}

Insn012 == [p : 0 .. 2, dd : 0 .. 3, z : Reg, x : Reg, y : Reg, op : Ops, imm : SmallImm]
Insn3   == [p : {3}, dd : 0 .. 3, z : Reg, x : Reg, y : {0}, op : {"|"}, imm : MediumImm]
Insn    == Insn012 \cup Insn3

-----------------------------------------------------------------------------
(* print_disassembly. *)

RegTok(r)  == [kind |-> "reg", val |-> r]
OpTok(o)   == [kind |-> "op", val |-> o]

\* "%d", or "0x%08x" of the word.
ImmTok(i, hex) ==
  IF hex THEN [kind |-> "bits", val |-> IF i < 0 THEN i + 2 * Half ELSE i]
  ELSE [kind |-> "dec", val |-> i]

\* The operands in the order of the type.
OperandsOf(w, v) ==
  LET i8 == ImmTok(w.imm, v \/ w.p = 3)
  IN  CASE w.p = 0 -> <<RegTok(w.x), RegTok(w.y), i8>>
        [] w.p = 1 -> <<RegTok(w.x), i8, RegTok(w.y)>>
        [] w.p = 2 -> <<i8, RegTok(w.x), RegTok(w.y)>>
        [] w.p = 3 -> <<i8, RegTok(w.x), i8>>     \* the first is never shown

Mid(w) == CASE w.p = 0 -> w.y [] w.p = 2 -> w.x [] OTHER -> 0

show(b) == IF b THEN 1 ELSE 0

\* Which operands matter to the value: show1, show2 and show3.
Shown(w, v) ==
  IF w.p = 3 THEN <<0, show(v \/ w.x # 0), 1>>
  ELSE IF v THEN <<1, 1, 1>>
  ELSE <<show((IF w.p > 1 THEN w.imm # 0 ELSE w.x # 0) \/ w.op # "|"),
         show((IF w.p = 1 THEN w.imm # 0 ELSE Mid(w) # 0) \/ w.op # "|"),
         show(IF w.p = 0 THEN w.imm # 0 ELSE w.y # 0)>>

All(s) == s = <<1, 1, 1>>

\* Mutant of Ambiguous: the rule for a type 1 difference is left out.
AmbiguousNot(w) ==
  \/ w.p = 0 /\ w.op = "|" /\ IF w.x # 0 THEN w.y = 0 /\ w.imm # 0 ELSE w.y # 0
  \/ w.p = 1 /\ (w.op \in {"|", "+"} \/ w.y # 0) /\ (w.x = 0 \/ w.y # 0 \/ w.op = "|")
  \/ w.p = 2 /\ (w.op = "|" \/ w.y # 0) /\ (w.imm = 0 \/ (w.op = "|" /\ w.x = 0))

\* All operands are shown if the type could not be inferred from fewer.
Ambiguous(w) ==
  \/ w.p = 0 /\ w.op = "|" /\ IF w.x # 0 THEN w.y = 0 /\ w.imm # 0 ELSE w.y # 0
  \/ w.p = 1 /\ \/ w.op = "-"
                \/ (w.op \in {"|", "+"} \/ w.y # 0) /\ (w.x = 0 \/ w.y # 0 \/ w.op = "|")
  \/ w.p = 2 /\ (w.op = "|" \/ w.y # 0) /\ (w.imm = 0 \/ (w.op = "|" /\ w.x = 0))

\* Written as -Y or ~Y, without the first operand.
Unary(w, s) ==
  /\ ~All(s) /\ w.op \in {"-", "|~"}
  /\ (w.p = 0 /\ w.x = 0) \/ (w.p = 2 /\ w.imm = 0)

UnaryName(op) == IF op = "-" THEN "-" ELSE "~"

Edges(w, s) ==
  IF All(s) \/ w.p = 3 THEN s
  ELSE IF Unary(w, s) THEN <<1, 1, IF w.p = 0 THEN 1 ELSE s[3]>>
  ELSE IF Ambiguous(w) THEN <<1, 1, 1>>
  ELSE IF s = <<0, 0, 0>> THEN <<show(w.p # 0), show(w.p # 0), show(w.p # 0)>>
  ELSE s

Rhs(w, v) ==
  LET o == OperandsOf(w, v)
      s == Edges(w, Shown(w, v))
  IN  IF Unary(w, Shown(w, v))
      THEN IF s[3] = 1 THEN <<OpTok(UnaryName(w.op)), o[2], o[3]>>
           ELSE <<OpTok(UnaryName(w.op)), o[2]>>
      ELSE CASE s = <<0, 0, 0>> -> <<ImmTok(0, FALSE)>>
             [] s = <<0, 0, 1>> -> <<o[3]>>
             [] s = <<0, 1, 1>> -> <<o[2], OpTok("+"), o[3]>>
             [] s = <<1, 0, 0>> -> <<o[1]>>
             [] s = <<1, 1, 0>> -> <<o[1], OpTok(w.op), o[2]>>
             [] s = <<1, 1, 1>> -> <<o[1], OpTok(w.op), o[2], o[3]>>
             [] OTHER -> <<>>                          \* fatal()

print_disassembly(w, v) ==
  [z |-> w.z, left |-> w.dd = 2, right |-> w.dd % 2 = 1,
   arrow |-> IF w.dd = 1 THEN "->" ELSE "<-", rhs |-> Rhs(w, v)]

-----------------------------------------------------------------------------
(* The parser.  Error is a text that it refuses. *)

Error == [p |-> -1]

IsReg(t) == t.kind = "reg"
IsImm(t) == t.kind \in {"dec", "bits"}

\* numberise, and the conversion to 32 bits.
ValueOf(t) == IF t.kind = "bits" /\ t.val >= Half THEN t.val - 2 * Half ELSE t.val

is_type3(t) == t.kind = "bits" \/ ValueOf(t) \notin SmallImm

\* A right side.  Its immediate must fit, except that ^^ takes what fits of it.
make_rhs(type, x, op, y, value) ==
  LET imm  == IF op = "^^" THEN ((value + Small) % (2 * Small)) - Small ELSE value
      swap == op \in {">", "<="}
      flip == swap /\ type = 0
  IN  IF imm \notin (IF type = 3 THEN MediumImm ELSE SmallImm) THEN Error
      ELSE [p |-> IF swap /\ type # 0 THEN 3 - type ELSE type,
            x |-> IF flip THEN y ELSE x, y |-> IF flip THEN x ELSE y,
            op |-> CASE op = ">" -> "<" [] op = "<=" -> ">=" [] OTHER -> op,
            imm |-> imm]

UnaryOp(t) == IF t.val = "~" THEN "|~" ELSE "-"

\* X op I: a sum or a difference may be of type 3.
Shorthand(x, op, i) ==
  LET t3op == op \in {"+", "-"} /\ is_type3(i)
      sum  == IF op = "-" THEN "+" ELSE op
      imm  == IF op = "-" THEN -ValueOf(i) ELSE ValueOf(i)
  IN  IF t3op THEN make_rhs(3, x, "|", 0, imm) ELSE make_rhs(1, x, sum, 0, imm)

rhs_plain(s) ==
  CASE Len(s) = 4 /\ IsReg(s[1]) /\ IsReg(s[3]) /\ IsImm(s[4]) ->
         make_rhs(0, s[1].val, s[2].val, s[3].val, ValueOf(s[4]))
    [] Len(s) = 4 /\ IsReg(s[1]) /\ IsImm(s[3]) /\ IsReg(s[4]) ->
         make_rhs(1, s[1].val, s[2].val, s[4].val, ValueOf(s[3]))
    [] Len(s) = 4 /\ IsImm(s[1]) /\ IsReg(s[3]) /\ IsReg(s[4]) ->
         make_rhs(2, s[3].val, s[2].val, s[4].val, ValueOf(s[1]))
    [] Len(s) = 3 /\ IsReg(s[1]) /\ IsReg(s[3]) ->
         make_rhs(0, s[1].val, s[2].val, s[3].val, 0)
    [] Len(s) = 3 /\ IsReg(s[1]) /\ IsImm(s[3]) -> Shorthand(s[1].val, s[2].val, s[3])
    [] Len(s) = 3 /\ IsImm(s[1]) /\ IsReg(s[3]) ->
         make_rhs(2, s[3].val, s[2].val, 0, ValueOf(s[1]))
    [] Len(s) = 3 /\ s[1].kind = "op" /\ IsReg(s[2]) /\ IsImm(s[3]) ->
         make_rhs(0, 0, UnaryOp(s[1]), s[2].val, ValueOf(s[3]))
    [] Len(s) = 3 /\ s[1].kind = "op" /\ IsReg(s[2]) /\ IsReg(s[3]) ->
         make_rhs(2, s[2].val, UnaryOp(s[1]), s[3].val, 0)
    [] Len(s) = 2 /\ s[1].kind = "op" /\ IsReg(s[2]) ->
         make_rhs(2, s[2].val, UnaryOp(s[1]), 0, 0)
    [] Len(s) = 1 /\ IsReg(s[1]) -> make_rhs(0, s[1].val, "|", 0, 0)
    [] Len(s) = 1 /\ IsImm(s[1]) ->
         make_rhs(IF is_type3(s[1]) THEN 3 ELSE 0, 0, "|", 0, ValueOf(s[1]))
    [] OTHER -> Error

make_insn_general(t) ==
  LET r == rhs_plain(t.rhs)
      both == t.arrow = "<-" /\ t.right
  IN  IF r = Error \/ (t.left /\ t.right) \/ (t.arrow = "->" /\ ~t.right) THEN Error
      ELSE [p |-> r.p, z |-> t.z, x |-> r.x, y |-> r.y, op |-> r.op, imm |-> r.imm,
            dd |-> (IF t.left \/ both THEN 2 ELSE 0) + (IF t.right THEN 1 ELSE 0)]

=============================================================================
