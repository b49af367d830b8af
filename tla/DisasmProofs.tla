---------------------------- MODULE DisasmProofs ----------------------------
(***************************************************************************)
(* The disassembly and the files of objects.  First, the two halves of     *)
(* Disasm.tla are inverse, for every number of registers and every width   *)
(* of the immediates.  Then, for every job (every list of elements, every  *)
(* offset, every given file), what Formats.tla's writer leaves is read     *)
(* back as the object it was written from, and a well-formed file given    *)
(* to the loader is loaded whole.                                          *)
(*                                                                         *)
(* The argument follows the program.  TypeInv types the state.  WriteInv   *)
(* says that the file holds, at every step of the writer, exactly the      *)
(* chunks of the words written so far.  Denotes relates a rest of a file   *)
(* to the words its reader will make of it, and ReadInv says that what is  *)
(* loaded so far and what the rest denotes are together the program.  The  *)
(* cycle follows when nothing is left; RecordsInv does the same for files  *)
(* that no writer of ours made.                                            *)
(***************************************************************************)
EXTENDS Formats, FiniteSetTheorems, SequenceTheorems, WellFoundedInduction, TLAPS

\* What the parser makes of the right side of w.
Fields(w) == [p |-> w.p, x |-> w.x, y |-> w.y, op |-> w.op, imm |-> w.imm]

LEMMA Ranges ==
  /\ Small \in Nat /\ Medium \in Nat /\ Half \in Nat /\ Regs \in Nat
  /\ 0 < Small /\ Small <= Medium /\ Medium <= Half
BY RangesAssumption

LEMMA SmallMod ==
  ASSUME NEW a \in Nat, NEW b \in Nat, a < b
  PROVE  a % b = a
OBVIOUS

LEMMA ImmBack ==
  ASSUME NEW i \in MediumImm, NEW hex \in BOOLEAN
  PROVE  /\ ValueOf(ImmTok(i, hex)) = i
         /\ IsImm(ImmTok(i, hex)) /\ ~IsReg(ImmTok(i, hex))
         /\ ImmTok(i, hex).kind # "op"
         /\ i \in SmallImm => (is_type3(ImmTok(i, hex)) <=> hex)
<1>1. CASE hex
  <2>1. ImmTok(i, hex) = [kind |-> "bits", val |-> IF i < 0 THEN i + 2 * Half ELSE i]
    BY <1>1 DEF ImmTok
  <2>2. QED
    BY <2>1, <1>1, Ranges DEF ValueOf, IsImm, IsReg, is_type3, MediumImm
<1>2. CASE ~hex
  <2>1. ImmTok(i, hex) = [kind |-> "dec", val |-> i]
    BY <1>2 DEF ImmTok
  <2>2. QED
    BY <2>1, <1>2, Ranges DEF ValueOf, IsImm, IsReg, is_type3
<1>3. QED
  BY <1>1, <1>2

LEMMA RegBack ==
  ASSUME NEW r
  PROVE  IsReg(RegTok(r)) /\ ~IsImm(RegTok(r)) /\ RegTok(r).val = r /\ RegTok(r).kind # "op"
BY DEF IsReg, IsImm, RegTok

\* An operation that the disassembler prints is kept as it is.
LEMMA RhsSame ==
  ASSUME NEW x, NEW y, NEW op \in Ops, NEW i \in SmallImm, NEW type \in 0 .. 2
  PROVE  make_rhs(type, x, op, y, i) = [p |-> type, x |-> x, y |-> y, op |-> op, imm |-> i]
<1>1. op # ">" /\ op # "<="
  BY DEF Ops
<1>2. ((i + Small) % (2 * Small)) - Small = i
  <2>1. i + Small \in Nat /\ 2 * Small \in Nat /\ i + Small < 2 * Small
    BY Ranges DEF SmallImm
  <2>2. (i + Small) % (2 * Small) = i + Small
    BY <2>1, SmallMod
  <2>3. QED
    BY <2>2, Ranges DEF SmallImm
<1>3. QED
  BY <1>1, <1>2 DEF make_rhs

LEMMA RhsSame3 ==
  ASSUME NEW x, NEW i \in MediumImm
  PROVE  make_rhs(3, x, "|", 0, i) = [p |-> 3, x |-> x, y |-> 0, op |-> "|", imm |-> i]
BY DEF make_rhs

-----------------------------------------------------------------------------
(* What the parser makes of each form. *)

LEMMA SmallIsMedium == SmallImm \subseteq MediumImm /\ 0 \in SmallImm
BY Ranges DEF SmallImm, MediumImm

LEMMA ParseRRI ==
  ASSUME NEW x, NEW y, NEW op \in Ops, NEW i \in SmallImm, NEW h \in BOOLEAN
  PROVE  rhs_plain(<<RegTok(x), OpTok(op), RegTok(y), ImmTok(i, h)>>)
           = [p |-> 0, x |-> x, y |-> y, op |-> op, imm |-> i]
<1> DEFINE s == <<RegTok(x), OpTok(op), RegTok(y), ImmTok(i, h)>>
<1>1. Len(s) = 4 /\ s[1] = RegTok(x) /\ s[2].val = op /\ s[3] = RegTok(y) /\ s[4] = ImmTok(i, h)
  BY DEF OpTok
<1> HIDE DEF s
<1>2. rhs_plain(s) = make_rhs(0, x, op, y, i)
  BY <1>1, SmallIsMedium, RegBack, ImmBack DEF rhs_plain
<1>3. QED
  BY <1>2, RhsSame DEF s

LEMMA ParseRIR ==
  ASSUME NEW x, NEW y, NEW op \in Ops, NEW i \in SmallImm, NEW h \in BOOLEAN
  PROVE  rhs_plain(<<RegTok(x), OpTok(op), ImmTok(i, h), RegTok(y)>>)
           = [p |-> 1, x |-> x, y |-> y, op |-> op, imm |-> i]
<1> DEFINE s == <<RegTok(x), OpTok(op), ImmTok(i, h), RegTok(y)>>
<1>1. Len(s) = 4 /\ s[1] = RegTok(x) /\ s[2].val = op /\ s[3] = ImmTok(i, h) /\ s[4] = RegTok(y)
  BY DEF OpTok
<1> HIDE DEF s
<1>2. rhs_plain(s) = make_rhs(1, x, op, y, i)
  BY <1>1, SmallIsMedium, RegBack, ImmBack DEF rhs_plain
<1>3. QED
  BY <1>2, RhsSame DEF s

LEMMA ParseIRR ==
  ASSUME NEW x, NEW y, NEW op \in Ops, NEW i \in SmallImm, NEW h \in BOOLEAN
  PROVE  rhs_plain(<<ImmTok(i, h), OpTok(op), RegTok(x), RegTok(y)>>)
           = [p |-> 2, x |-> x, y |-> y, op |-> op, imm |-> i]
<1> DEFINE s == <<ImmTok(i, h), OpTok(op), RegTok(x), RegTok(y)>>
<1>1. Len(s) = 4 /\ s[1] = ImmTok(i, h) /\ s[2].val = op /\ s[3] = RegTok(x) /\ s[4] = RegTok(y)
  BY DEF OpTok
<1> HIDE DEF s
<1>2. rhs_plain(s) = make_rhs(2, x, op, y, i)
  BY <1>1, SmallIsMedium, RegBack, ImmBack DEF rhs_plain
<1>3. QED
  BY <1>2, RhsSame DEF s

LEMMA ParseRR ==
  ASSUME NEW x, NEW y, NEW op \in Ops
  PROVE  rhs_plain(<<RegTok(x), OpTok(op), RegTok(y)>>)
           = [p |-> 0, x |-> x, y |-> y, op |-> op, imm |-> 0]
<1> DEFINE s == <<RegTok(x), OpTok(op), RegTok(y)>>
<1>1. Len(s) = 3 /\ s[1] = RegTok(x) /\ s[2].val = op /\ s[3] = RegTok(y)
  BY DEF OpTok
<1> HIDE DEF s
<1>2. rhs_plain(s) = make_rhs(0, x, op, y, 0)
  BY <1>1, RegBack DEF rhs_plain
<1>3. QED
  BY <1>2, SmallIsMedium, RhsSame DEF s

\* Decimal, so that it is not of type 3; and no difference, which would be.
LEMMA ParseRI ==
  ASSUME NEW x, NEW op \in Ops, op # "-", NEW i \in SmallImm, NEW h \in BOOLEAN, ~h
  PROVE  rhs_plain(<<RegTok(x), OpTok(op), ImmTok(i, h)>>)
           = [p |-> 1, x |-> x, y |-> 0, op |-> op, imm |-> i]
<1> DEFINE s == <<RegTok(x), OpTok(op), ImmTok(i, h)>>
<1>1. Len(s) = 3 /\ s[1] = RegTok(x) /\ s[2].val = op /\ s[3] = ImmTok(i, h)
  BY DEF OpTok
<1> HIDE DEF s
<1>2. rhs_plain(s) = Shorthand(x, op, ImmTok(i, h))
  BY <1>1, SmallIsMedium, RegBack, ImmBack DEF rhs_plain
<1>3. Shorthand(x, op, ImmTok(i, h)) = make_rhs(1, x, op, 0, i)
  <2>1. ~is_type3(ImmTok(i, h)) /\ ValueOf(ImmTok(i, h)) = i
    BY SmallIsMedium, ImmBack
  <2>2. QED
    BY <2>1 DEF Shorthand
<1>4. make_rhs(1, x, op, 0, i) = [p |-> 1, x |-> x, y |-> 0, op |-> op, imm |-> i]
  BY RhsSame
<1>5. QED
  BY <1>2, <1>3, <1>4 DEF s

LEMMA ParseRI3 ==
  ASSUME NEW x, NEW i \in MediumImm
  PROVE  rhs_plain(<<RegTok(x), OpTok("+"), ImmTok(i, TRUE)>>)
           = [p |-> 3, x |-> x, y |-> 0, op |-> "|", imm |-> i]
<1> DEFINE s == <<RegTok(x), OpTok("+"), ImmTok(i, TRUE)>>
<1>1. Len(s) = 3 /\ s[1] = RegTok(x) /\ s[2].val = "+" /\ s[3] = ImmTok(i, TRUE)
  BY DEF OpTok
<1> HIDE DEF s
<1>2. rhs_plain(s) = Shorthand(x, "+", ImmTok(i, TRUE))
  BY <1>1, RegBack, ImmBack, ZenonT(60) DEF rhs_plain
<1>3. Shorthand(x, "+", ImmTok(i, TRUE)) = make_rhs(3, x, "|", 0, i)
  <2>1. is_type3(ImmTok(i, TRUE)) /\ ValueOf(ImmTok(i, TRUE)) = i
    BY ImmBack DEF is_type3, ImmTok
  <2>2. QED
    BY <2>1 DEF Shorthand
<1>4. QED
  BY <1>2, <1>3, RhsSame3 DEF s

LEMMA ParseIR ==
  ASSUME NEW x, NEW op \in Ops, NEW i \in SmallImm, NEW h \in BOOLEAN, ~h
  PROVE  rhs_plain(<<ImmTok(i, h), OpTok(op), RegTok(x)>>)
           = [p |-> 2, x |-> x, y |-> 0, op |-> op, imm |-> i]
<1> DEFINE s == <<ImmTok(i, h), OpTok(op), RegTok(x)>>
<1>1. Len(s) = 3 /\ s[1] = ImmTok(i, h) /\ s[2].val = op /\ s[3] = RegTok(x)
  BY DEF OpTok
<1> HIDE DEF s
<1>2. /\ Len(s) = 3 /\ s[2].val = op
      /\ IsImm(s[1]) /\ ~IsReg(s[1]) /\ s[1].kind # "op" /\ ValueOf(s[1]) = i
      /\ IsReg(s[3]) /\ ~IsImm(s[3]) /\ s[3].val = x
  BY <1>1, SmallIsMedium, RegBack, ImmBack
<1>3. rhs_plain(s) = make_rhs(2, x, op, 0, i)
  BY <1>2 DEF rhs_plain
<1>4. make_rhs(2, x, op, 0, i) = [p |-> 2, x |-> x, y |-> 0, op |-> op, imm |-> i]
  BY RhsSame
<1>5. QED
  BY <1>3, <1>4 DEF s

\* -Y + 0 or ~Y + 0, of type 0, and -X or ~X, of type 2.
LEMMA ParseUnary ==
  ASSUME NEW op \in {"-", "|~"}, NEW y, NEW h \in BOOLEAN
  PROVE  /\ rhs_plain(<<OpTok(UnaryName(op)), RegTok(y), ImmTok(0, h)>>)
              = [p |-> 0, x |-> 0, y |-> y, op |-> op, imm |-> 0]
         /\ rhs_plain(<<OpTok(UnaryName(op)), RegTok(y)>>)
              = [p |-> 2, x |-> y, y |-> 0, op |-> op, imm |-> 0]
<1> DEFINE s == <<OpTok(UnaryName(op)), RegTok(y), ImmTok(0, h)>>
           t == <<OpTok(UnaryName(op)), RegTok(y)>>
<1>1. /\ Len(s) = 3 /\ s[1] = OpTok(UnaryName(op)) /\ s[2] = RegTok(y) /\ s[3] = ImmTok(0, h)
      /\ Len(t) = 2 /\ t[1] = OpTok(UnaryName(op)) /\ t[2] = RegTok(y)
  OBVIOUS
<1>2. LET o == OpTok(UnaryName(op)) IN
      o.kind = "op" /\ ~IsReg(o) /\ ~IsImm(o) /\ UnaryOp(o) = op /\ op \in Ops
  BY DEF OpTok, UnaryName, UnaryOp, IsReg, IsImm, Ops
<1> HIDE DEF s, t
<1>3. rhs_plain(s) = make_rhs(0, 0, op, y, 0)
  BY <1>1, <1>2, SmallIsMedium, RegBack, ImmBack DEF rhs_plain
<1>4. rhs_plain(t) = make_rhs(2, y, op, 0, 0)
  BY <1>1, <1>2, RegBack DEF rhs_plain
<1>5. QED
  BY <1>2, <1>3, <1>4, SmallIsMedium, RhsSame DEF s, t

LEMMA ParseR ==
  ASSUME NEW x
  PROVE  rhs_plain(<<RegTok(x)>>) = [p |-> 0, x |-> x, y |-> 0, op |-> "|", imm |-> 0]
<1> DEFINE s == <<RegTok(x)>>
<1>1. Len(s) = 1 /\ s[1] = RegTok(x) /\ "|" \in Ops
  BY DEF Ops
<1> HIDE DEF s
<1>2. rhs_plain(s) = make_rhs(0, x, "|", 0, 0)
  BY <1>1, RegBack DEF rhs_plain
<1>3. QED
  BY <1>1, <1>2, SmallIsMedium, RhsSame DEF s

LEMMA ParseI ==
  ASSUME NEW i \in MediumImm, NEW h \in BOOLEAN, h \/ i \in SmallImm
  PROVE  rhs_plain(<<ImmTok(i, h)>>)
           = [p |-> IF h THEN 3 ELSE 0, x |-> 0, y |-> 0, op |-> "|", imm |-> i]
<1> DEFINE s == <<ImmTok(i, h)>>
<1>1. Len(s) = 1 /\ s[1] = ImmTok(i, h) /\ "|" \in Ops
  BY DEF Ops
<1>2. is_type3(s[1]) <=> h
  BY <1>1, ImmBack DEF is_type3, ImmTok
<1> HIDE DEF s
<1>3. rhs_plain(s) = make_rhs(IF is_type3(s[1]) THEN 3 ELSE 0, 0, "|", 0, i)
  BY <1>1, RegBack, ImmBack DEF rhs_plain
<1>4. QED
  BY <1>1, <1>2, <1>3, RhsSame, RhsSame3 DEF s

-----------------------------------------------------------------------------
(* What the disassembler prints. *)

LEMMA Operands ==
  ASSUME NEW w \in Insn012, NEW v \in BOOLEAN
  PROVE  /\ w.p = 0 => OperandsOf(w, v) = <<RegTok(w.x), RegTok(w.y), ImmTok(w.imm, v)>>
         /\ w.p = 1 => OperandsOf(w, v) = <<RegTok(w.x), ImmTok(w.imm, v), RegTok(w.y)>>
         /\ w.p = 2 => OperandsOf(w, v) = <<ImmTok(w.imm, v), RegTok(w.x), RegTok(w.y)>>
<1>1. w.p \in 0 .. 2 /\ (v \/ w.p = 3) = v
  BY DEF Insn012
<1>2. QED
  BY <1>1 DEF OperandsOf

LEMMA ShownShort ==
  ASSUME NEW w \in Insn012, NEW v \in BOOLEAN, ~v
  PROVE  LET s == Shown(w, v) IN
         /\ w.p = 0 => s = <<show(w.x # 0 \/ w.op # "|"), show(w.y # 0 \/ w.op # "|"), show(w.imm # 0)>>
         /\ w.p = 1 => s = <<show(w.x # 0 \/ w.op # "|"), show(w.imm # 0 \/ w.op # "|"), show(w.y # 0)>>
         /\ w.p = 2 => s = <<show(w.imm # 0 \/ w.op # "|"), show(w.x # 0 \/ w.op # "|"), show(w.y # 0)>>
<1>1. w.p \in 0 .. 2
  BY DEF Insn012
<1>2. CASE w.p = 0
  BY <1>2 DEF Shown, Mid, show
<1>3. CASE w.p = 1
  BY <1>3 DEF Shown, show
<1>4. CASE w.p = 2
  BY <1>4 DEF Shown, Mid, show
<1>5. QED
  BY <1>1, <1>2, <1>3, <1>4

\* The right side for each set of operands to be shown.
LEMMA RhsForms ==
  ASSUME NEW w, NEW v, ~Unary(w, Shown(w, v))
  PROVE  LET o == OperandsOf(w, v)
             s == Edges(w, Shown(w, v))
         IN  /\ s = <<0, 0, 0>> => Rhs(w, v) = <<ImmTok(0, FALSE)>>
             /\ s = <<0, 0, 1>> => Rhs(w, v) = <<o[3]>>
             /\ s = <<0, 1, 1>> => Rhs(w, v) = <<o[2], OpTok("+"), o[3]>>
             /\ s = <<1, 0, 0>> => Rhs(w, v) = <<o[1]>>
             /\ s = <<1, 1, 0>> => Rhs(w, v) = <<o[1], OpTok(w.op), o[2]>>
             /\ s = <<1, 1, 1>> => Rhs(w, v) = <<o[1], OpTok(w.op), o[2], o[3]>>
<1> DEFINE o == OperandsOf(w, v)
           s == Edges(w, Shown(w, v))
<1>1. ASSUME s = <<0, 0, 0>> PROVE Rhs(w, v) = <<ImmTok(0, FALSE)>>
  BY <1>1 DEF Rhs, ImmTok
<1>2. ASSUME s = <<0, 0, 1>> PROVE Rhs(w, v) = <<o[3]>>
  BY <1>2 DEF Rhs
<1>3. ASSUME s = <<0, 1, 1>> PROVE Rhs(w, v) = <<o[2], OpTok("+"), o[3]>>
  BY <1>3 DEF Rhs
<1>4. ASSUME s = <<1, 0, 0>> PROVE Rhs(w, v) = <<o[1]>>
  BY <1>4 DEF Rhs
<1>5. ASSUME s = <<1, 1, 0>> PROVE Rhs(w, v) = <<o[1], OpTok(w.op), o[2]>>
  BY <1>5 DEF Rhs
<1>6. ASSUME s = <<1, 1, 1>> PROVE Rhs(w, v) = <<o[1], OpTok(w.op), o[2], o[3]>>
  BY <1>6 DEF Rhs
<1>7. QED
  BY <1>1, <1>2, <1>3, <1>4, <1>5, <1>6

\* All three operands.
LEMMA LongForm ==
  ASSUME NEW w \in Insn012, NEW v \in BOOLEAN, ~Unary(w, Shown(w, v)),
         Edges(w, Shown(w, v)) = <<1, 1, 1>>
  PROVE  rhs_plain(Rhs(w, v)) = Fields(w)
<1> DEFINE o == OperandsOf(w, v)
<1>1. Rhs(w, v) = <<o[1], OpTok(w.op), o[2], o[3]>>
  BY DEF Rhs
<1>2. w.p \in 0 .. 2 /\ w.op \in Ops /\ w.imm \in SmallImm
  BY DEF Insn012
<1>3. CASE w.p = 0
  BY <1>1, <1>2, <1>3, Operands, ParseRRI DEF Fields
<1>4. CASE w.p = 1
  BY <1>1, <1>2, <1>4, Operands, ParseRIR DEF Fields
<1>5. CASE w.p = 2
  BY <1>1, <1>2, <1>5, Operands, ParseIRR DEF Fields
<1>6. QED
  BY <1>2, <1>3, <1>4, <1>5

\* With all three shown nothing else matters, and verbose shows all three.
LEMMA AllShown ==
  ASSUME NEW w \in Insn012, NEW v \in BOOLEAN, Shown(w, v) = <<1, 1, 1>>
  PROVE  rhs_plain(Rhs(w, v)) = Fields(w)
<1>1. All(Shown(w, v))
  BY DEF All, show
<1>2. ~Unary(w, Shown(w, v)) /\ Edges(w, Shown(w, v)) = <<1, 1, 1>>
  BY <1>1 DEF Unary, Edges
<1>3. QED
  BY <1>2, LongForm

LEMMA Verbose ==
  ASSUME NEW w \in Insn012
  PROVE  rhs_plain(Rhs(w, TRUE)) = Fields(w)
<1>1. w.p # 3
  BY DEF Insn012
<1>2. Shown(w, TRUE) = <<1, 1, 1>>
  BY <1>1 DEF Shown
<1>3. QED
  BY <1>2, AllShown

\* The ambiguous ones are shown in full.
LEMMA AmbiguousLong ==
  ASSUME NEW w \in Insn012, NEW v \in BOOLEAN, Ambiguous(w), ~Unary(w, Shown(w, v)),
         ~All(Shown(w, v))
  PROVE  rhs_plain(Rhs(w, v)) = Fields(w)
<1>1. w.p # 3
  BY DEF Insn012
<1>2. Edges(w, Shown(w, v)) = <<1, 1, 1>>
  BY <1>1 DEF Edges
<1>3. QED
  BY <1>2, LongForm

\* Otherwise the operands that matter are shown.
LEMMA ShortForm ==
  ASSUME NEW w \in Insn012, NEW v \in BOOLEAN, ~Ambiguous(w), ~Unary(w, Shown(w, v)),
         ~All(Shown(w, v)),
         Shown(w, v) # <<0, 0, 0>>
  PROVE  Edges(w, Shown(w, v)) = Shown(w, v)
<1>1. w.p # 3
  BY DEF Insn012
<1>2. QED
  BY <1>1 DEF Edges

LEMMA Short0 ==
  ASSUME NEW w \in Insn012, NEW v \in BOOLEAN, ~v, w.p = 0
  PROVE  rhs_plain(Rhs(w, v)) = Fields(w)
<1> DEFINE s == Shown(w, v)
           e == Edges(w, s)
<1>1. s = <<show(w.x # 0 \/ w.op # "|"), show(w.y # 0 \/ w.op # "|"), show(w.imm # 0)>>
  BY ShownShort
<1>2. LET o == OperandsOf(w, v) IN
      o[1] = RegTok(w.x) /\ o[2] = RegTok(w.y) /\ o[3] = ImmTok(w.imm, v)
  BY Operands
<1>3. w.op \in Ops /\ w.imm \in SmallImm /\ w.imm \in MediumImm
  BY SmallIsMedium DEF Insn012
<1>4. CASE All(s)
  <2>1. s = <<1, 1, 1>>
    BY <1>1, <1>4 DEF All, show
  <2>2. QED
    BY <2>1, AllShown
<1>5. CASE Unary(w, s)
  <2>1. w.op \in {"-", "|~"} /\ w.x = 0 /\ ~All(s)
    BY <1>5 DEF Unary
  <2>2. w.imm = 0
    BY <2>1, <1>1 DEF All, show
  <2>3. e[3] = 1
    BY <1>5, <2>1 DEF Edges
  <2>4. Rhs(w, v) = <<OpTok(UnaryName(w.op)), RegTok(w.y), ImmTok(0, v)>>
    <3>1. Rhs(w, v) = <<OpTok(UnaryName(w.op)), OperandsOf(w, v)[2], OperandsOf(w, v)[3]>>
      BY <1>5, <2>3 DEF Rhs
    <3>2. QED
      BY <3>1, <1>2, <2>2
  <2>5. rhs_plain(<<OpTok(UnaryName(w.op)), RegTok(w.y), ImmTok(0, v)>>)
          = [p |-> 0, x |-> 0, y |-> w.y, op |-> w.op, imm |-> 0]
    BY <2>1, ParseUnary
  <2>6. QED
    BY <2>1, <2>2, <2>4, <2>5 DEF Fields
<1>6. CASE ~All(s) /\ ~Unary(w, s) /\ Ambiguous(w)
  BY <1>6, AmbiguousLong
<1>7. CASE ~All(s) /\ ~Unary(w, s) /\ ~Ambiguous(w) /\ s # <<0, 0, 0>>
  <2>1. e = s
    BY <1>7, ShortForm
  <2>2. CASE w.op # "|" \/ (w.x # 0 /\ w.y # 0)
    <3>1. s = <<1, 1, 0>> /\ w.imm = 0
      BY <2>2, <1>1, <1>7 DEF All, show
    <3>2. Rhs(w, v) = <<RegTok(w.x), OpTok(w.op), RegTok(w.y)>>
      <4>1. Edges(w, Shown(w, v)) = <<1, 1, 0>>
        BY <3>1, <2>1
      <4>2. QED
        BY <4>1, <1>2, <1>7, RhsForms, ZenonT(60)
    <3>3. QED
      BY <3>1, <3>2, <1>3, ParseRR DEF Fields
  <2>3. CASE w.op = "|" /\ w.x # 0 /\ w.y = 0
    <3>1. w.imm = 0
      BY <2>3, <1>7 DEF Ambiguous
    <3>2. s = <<1, 0, 0>>
      BY <3>1, <2>3, <1>1 DEF show
    <3>3. Rhs(w, v) = <<RegTok(w.x)>>
      <4>1. Edges(w, Shown(w, v)) = <<1, 0, 0>>
        BY <3>2, <2>1
      <4>2. QED
        BY <4>1, <1>2, <1>7, RhsForms, ZenonT(60)
    <3>4. QED
      BY <3>1, <3>3, <2>3, ParseR DEF Fields
  <2>4. CASE w.op = "|" /\ w.x = 0
    <3>1. w.y = 0
      BY <2>4, <1>7 DEF Ambiguous
    <3>2. s = <<0, 0, 1>>
      BY <3>1, <2>4, <1>1, <1>7 DEF show
    <3>3. Rhs(w, v) = <<ImmTok(w.imm, v)>>
      <4>1. Edges(w, Shown(w, v)) = <<0, 0, 1>>
        BY <3>2, <2>1
      <4>2. QED
        BY <4>1, <1>2, <1>7, RhsForms, ZenonT(60)
    <3>4. QED
      BY <3>1, <3>3, <2>4, <1>3, ParseI DEF Fields
  <2>5. QED
    BY <2>2, <2>3, <2>4
<1>8. CASE ~All(s) /\ ~Unary(w, s) /\ ~Ambiguous(w) /\ s = <<0, 0, 0>>
  <2>1. w.op = "|" /\ w.x = 0 /\ w.y = 0 /\ w.imm = 0
    BY <1>1, <1>8 DEF show
  <2>2. e = <<0, 0, 0>>
    BY <1>8 DEF Edges, show
  <2>3. Rhs(w, v) = <<ImmTok(0, FALSE)>>
    BY <2>2, <1>8, RhsForms
  <2>4. ImmTok(0, FALSE) = ImmTok(w.imm, v)
    BY <2>1 DEF ImmTok
  <2>5. rhs_plain(<<ImmTok(w.imm, v)>>)
          = [p |-> 0, x |-> 0, y |-> 0, op |-> "|", imm |-> w.imm]
    BY <1>3, ParseI
  <2>6. QED
    BY <2>1, <2>3, <2>4, <2>5 DEF Fields
<1>9. QED
  BY <1>4, <1>5, <1>6, <1>7, <1>8 DEF Unary

LEMMA Short1 ==
  ASSUME NEW w \in Insn012, NEW v \in BOOLEAN, ~v, w.p = 1
  PROVE  rhs_plain(Rhs(w, v)) = Fields(w)
<1> DEFINE s == Shown(w, v)
           e == Edges(w, s)
<1>1. s = <<show(w.x # 0 \/ w.op # "|"), show(w.imm # 0 \/ w.op # "|"), show(w.y # 0)>>
  BY ShownShort
<1>2. LET o == OperandsOf(w, v) IN
      o[1] = RegTok(w.x) /\ o[2] = ImmTok(w.imm, v) /\ o[3] = RegTok(w.y)
  BY Operands
<1>3. w.op \in Ops /\ w.imm \in SmallImm
  BY DEF Insn012
<1>4. ~Unary(w, s)
  BY DEF Unary
<1>5. CASE All(s)
  <2>1. s = <<1, 1, 1>>
    BY <1>1, <1>5 DEF All, show
  <2>2. QED
    BY <2>1, AllShown
<1>6. CASE ~All(s) /\ Ambiguous(w)
  BY <1>4, <1>6, AmbiguousLong
<1>7. CASE ~All(s) /\ ~Ambiguous(w)
  <2>1. w.op # "-" /\ w.op # "|" /\ w.y = 0
    BY <1>7 DEF Ambiguous
  <2>2. s = <<1, 1, 0>>
    BY <2>1, <1>1 DEF show
  <2>3. e = s
    BY <2>2, <1>4, <1>7, ShortForm
  <2>4. Rhs(w, v) = <<RegTok(w.x), OpTok(w.op), ImmTok(w.imm, v)>>
    <3>1. Edges(w, Shown(w, v)) = <<1, 1, 0>>
      BY <2>2, <2>3
    <3>2. QED
      BY <3>1, <1>2, <1>4, RhsForms
  <2>5. QED
    BY <2>1, <2>4, <1>3, ParseRI DEF Fields
<1>8. QED
  BY <1>5, <1>6, <1>7

LEMMA Short2 ==
  ASSUME NEW w \in Insn012, NEW v \in BOOLEAN, ~v, w.p = 2
  PROVE  rhs_plain(Rhs(w, v)) = Fields(w)
<1> DEFINE s == Shown(w, v)
           e == Edges(w, s)
<1>1. s = <<show(w.imm # 0 \/ w.op # "|"), show(w.x # 0 \/ w.op # "|"), show(w.y # 0)>>
  BY ShownShort
<1>2. LET o == OperandsOf(w, v) IN
      o[1] = ImmTok(w.imm, v) /\ o[2] = RegTok(w.x) /\ o[3] = RegTok(w.y)
  BY Operands
<1>3. w.op \in Ops /\ w.imm \in SmallImm
  BY DEF Insn012
<1>4. CASE All(s)
  <2>1. s = <<1, 1, 1>>
    BY <1>1, <1>4 DEF All, show
  <2>2. QED
    BY <2>1, AllShown
<1>5. CASE Unary(w, s)
  <2>1. w.op \in {"-", "|~"} /\ w.imm = 0 /\ ~All(s)
    BY <1>5 DEF Unary
  <2>2. w.y = 0 /\ s[3] = 0
    BY <2>1, <1>1 DEF All, show
  <2>3. e[3] = 0
    BY <1>5, <2>1, <2>2 DEF Edges
  <2>4. Rhs(w, v) = <<OpTok(UnaryName(w.op)), RegTok(w.x)>>
    BY <1>2, <1>5, <2>3 DEF Rhs
  <2>5. rhs_plain(<<OpTok(UnaryName(w.op)), RegTok(w.x)>>)
          = [p |-> 2, x |-> w.x, y |-> 0, op |-> w.op, imm |-> 0]
    BY <2>1, ParseUnary
  <2>6. QED
    BY <2>1, <2>2, <2>4, <2>5 DEF Fields
<1>6. CASE ~All(s) /\ ~Unary(w, s) /\ Ambiguous(w)
  BY <1>6, AmbiguousLong
<1>7. CASE ~All(s) /\ ~Unary(w, s) /\ ~Ambiguous(w)
  <2>1. w.op # "|" \/ (w.imm # 0 /\ w.x # 0)
    BY <1>7 DEF Ambiguous
  <2>2. s = <<1, 1, 0>> /\ w.y = 0
    BY <2>1, <1>1, <1>7 DEF All, show
  <2>3. e = s
    BY <2>2, <1>7, ShortForm
  <2>4. Rhs(w, v) = <<ImmTok(w.imm, v), OpTok(w.op), RegTok(w.x)>>
    <3>1. Edges(w, Shown(w, v)) = <<1, 1, 0>>
      BY <2>2, <2>3
    <3>2. QED
      BY <3>1, <1>2, <1>7, RhsForms
  <2>5. QED
    BY <2>2, <2>4, <1>3, ParseIR DEF Fields
<1>8. QED
  BY <1>4, <1>5, <1>6, <1>7 DEF Unary

\* Type 3 is always written in hexadecimal.
LEMMA Long3 ==
  ASSUME NEW w \in Insn3, NEW v \in BOOLEAN
  PROVE  rhs_plain(Rhs(w, v)) = Fields(w)
<1>1. w.p = 3 /\ w.y = 0 /\ w.op = "|" /\ w.imm \in MediumImm
  BY DEF Insn3
<1>2. Shown(w, v) = <<0, show(v \/ w.x # 0), 1>>
  BY <1>1 DEF Shown
<1>3. ~Unary(w, Shown(w, v)) /\ Edges(w, Shown(w, v)) = Shown(w, v)
  BY <1>1 DEF Unary, Edges
<1>4. OperandsOf(w, v)[2] = RegTok(w.x) /\ OperandsOf(w, v)[3] = ImmTok(w.imm, TRUE)
  <2>1. (v \/ w.p = 3) = TRUE
    BY <1>1
  <2>2. QED
    BY <2>1, <1>1 DEF OperandsOf, ImmTok
<1>5. CASE v \/ w.x # 0
  <2>1. Shown(w, v) = <<0, 1, 1>>
    BY <1>2, <1>5 DEF show
  <2>2. Rhs(w, v) = <<RegTok(w.x), OpTok("+"), ImmTok(w.imm, TRUE)>>
    BY <2>1, <1>3, <1>4, RhsForms
  <2>3. QED
    BY <2>2, <1>1, ParseRI3 DEF Fields
<1>6. CASE ~v /\ w.x = 0
  <2>1. Shown(w, v) = <<0, 0, 1>>
    BY <1>2, <1>6 DEF show
  <2>2. Rhs(w, v) = <<ImmTok(w.imm, TRUE)>>
    BY <2>1, <1>3, <1>4, RhsForms
  <2>3. QED
    BY <2>2, <1>1, <1>6, ParseI DEF Fields
<1>7. QED
  BY <1>5, <1>6

-----------------------------------------------------------------------------

\* Whatever print_disassembly writes for an instruction, in either style, the
\* parser reads as that instruction: operands may be left out, but never so
\* that another type, operation or operand is inferred.
RoundTrip == \A w \in Insn, v \in BOOLEAN : make_insn_general(print_disassembly(w, v)) = w

\* src/scripts/dogfood.sh, for every instruction and not just those it tries.
THEOREM DisassemblyAssembles == RoundTrip
<1> SUFFICES ASSUME NEW w \in Insn, NEW v \in BOOLEAN
             PROVE  make_insn_general(print_disassembly(w, v)) = w
  BY DEF RoundTrip
<1>1. rhs_plain(Rhs(w, v)) = Fields(w)
  <2>1. CASE w \in Insn3
    BY <2>1, Long3
  <2>2. CASE w \in Insn012 /\ v = TRUE
    BY <2>2, Verbose
  <2>3. CASE w \in Insn012 /\ v = FALSE
    <3>1. w.p \in {0, 1, 2}
      BY <2>3 DEF Insn012
    <3>2. QED
      BY <2>3, <3>1, Short0, Short1, Short2
  <2>4. QED
    BY <2>1, <2>2, <2>3 DEF Insn
<1>2. /\ w.dd \in 0 .. 3 /\ w.p \in 0 .. 3
      /\ w = [p |-> w.p, dd |-> w.dd, z |-> w.z, x |-> w.x, y |-> w.y, op |-> w.op, imm |-> w.imm]
  BY DEF Insn, Insn012, Insn3
<1>3. Fields(w) # Error
  BY <1>2 DEF Fields, Error
<1> DEFINE t == print_disassembly(w, v)
<1>4. /\ t.z = w.z /\ t.rhs = Rhs(w, v)
      /\ t.left <=> w.dd = 2
      /\ t.right <=> w.dd % 2 = 1
      /\ t.arrow = IF w.dd = 1 THEN "->" ELSE "<-"
  BY DEF print_disassembly
<1> HIDE DEF t
<1>5. ~(t.left /\ t.right) /\ ~(t.arrow = "->" /\ ~t.right)
  BY <1>2, <1>4
<1>6. (IF t.left \/ (t.arrow = "<-" /\ t.right) THEN 2 ELSE 0) + (IF t.right THEN 1 ELSE 0)
        = w.dd
  BY <1>2, <1>4
<1>7. make_insn_general(t)
        = [p |-> w.p, z |-> w.z, x |-> w.x, y |-> w.y, op |-> w.op, imm |-> w.imm,
           dd |-> w.dd]
  BY <1>1, <1>3, <1>4, <1>5, <1>6 DEF make_insn_general, Fields
<1>8. QED
  BY <1>2, <1>7 DEF t

-----------------------------------------------------------------------------
(* The files.                                                              *)

\* Induction over the natural numbers, for a set of them.
LEMMA NatSetInduction ==
  ASSUME NEW T, \A n \in Nat : (\A m \in 0 .. n - 1 : m \in T) => n \in T
  PROVE  Nat \subseteq T
<1> SUFFICES ASSUME Nat \ T # {} PROVE FALSE
  OBVIOUS
<1>1. IsWellFoundedOn(OpToRel(<, Nat), Nat)
  BY NatLessThanWellFounded
<1>2. PICK n \in Nat \ T : \A m \in Nat \ T : ~(<<m, n>> \in OpToRel(<, Nat))
  <2>1. Nat \ T \subseteq Nat
    OBVIOUS
  <2>2. QED
    BY <1>1, <2>1, WFMin, Zenon
<1>3. \A m \in 0 .. n - 1 : m \in T
  <2> SUFFICES ASSUME NEW m \in 0 .. n - 1, m \notin T PROVE FALSE
    OBVIOUS
  <2>1. m \in Nat /\ m < n
    OBVIOUS
  <2>2. <<m, n>> \in OpToRel(<, Nat)
    BY <2>1 DEF OpToRel
  <2>3. QED
    BY <1>2, <2>1, <2>2
<1>4. QED
  BY <1>2, <1>3

\* The same, one step at a time.
LEMMA StepInduction ==
  ASSUME NEW T, 0 \in T, \A n \in Nat : n \in T => n + 1 \in T
  PROVE  Nat \subseteq T
<1>1. ASSUME NEW n \in Nat, \A m \in 0 .. n - 1 : m \in T PROVE n \in T
  <2>1. CASE n = 0
    BY <2>1
  <2>2. CASE n # 0
    <3>1. n - 1 \in Nat /\ n - 1 \in 0 .. n - 1 /\ (n - 1) + 1 = n
      BY <2>2
    <3>2. n - 1 \in T
      BY <1>1, <3>1
    <3>3. (n - 1) + 1 \in T
      BY <3>1, <3>2
    <3>4. QED
      BY <3>1, <3>3
  <2>3. QED
    BY <2>1, <2>2
<1>2. QED
  BY <1>1, NatSetInduction

LEMMA LeastOf ==
  ASSUME NEW S \in SUBSET Nat, S # {}
  PROVE  Min(S) \in S /\ \A k \in S : Min(S) <= k
<1>1. \E n \in S : \A k \in S : n <= k
  <2> SUFFICES ASSUME \A n \in S : \E k \in S : ~(n <= k) PROVE FALSE
    OBVIOUS
  <2> DEFINE T == {n \in Nat : n \notin S}
  <2>1. ASSUME NEW n \in Nat, \A m \in 0 .. n - 1 : m \in T PROVE n \in T
    <3> SUFFICES ASSUME n \in S PROVE FALSE
      OBVIOUS
    <3>1. PICK k \in S : ~(n <= k)
      OBVIOUS
    <3>2. k \in 0 .. n - 1
      BY <3>1
    <3>3. QED
      BY <2>1, <3>2
  <2>2. Nat \subseteq T
    <3> HIDE DEF T
    <3>1. QED
      BY <2>1, NatSetInduction
  <2>3. QED
    BY <2>2
<1>2. QED
  BY <1>1 DEF Min

-----------------------------------------------------------------------------
(* Where the elements of a program begin, and its words up to one of them. *)

Sums(es) ==
  LET sum[i \in 0 .. Len(es)] == IF i = 0 THEN 0 ELSE sum[i - 1] + es[i].size
  IN  sum

\* Its equation has a solution up to the i-th element.
Sum(es, f, i) == f = [j \in 0 .. i |-> IF j = 0 THEN 0 ELSE f[j - 1] + es[j].size]

LEMMA SumExists ==
  ASSUME NEW es
  PROVE  \A i \in Nat : \E f : Sum(es, f, i)
<1> DEFINE T == {i \in Nat : \E f : Sum(es, f, i)}
<1> SUFFICES Nat \subseteq T
  OBVIOUS
<1>1. 0 \in T
  <2> DEFINE g == [j \in 0 .. 0 |-> 0]
  <2>1. Sum(es, g, 0)
    BY DEF Sum
  <2>2. QED
    BY <2>1
<1>2. ASSUME NEW n \in Nat, n \in T PROVE n + 1 \in T
  <2>1. PICK f : Sum(es, f, n)
    BY <1>2
  <2> DEFINE g == [j \in 0 .. n + 1 |-> IF j = 0 THEN 0 ELSE f[j - 1] + es[j].size]
  <2>2. ASSUME NEW j \in 1 .. n + 1 PROVE f[j - 1] = g[j - 1]
    <3>1. j - 1 \in 0 .. n /\ j - 1 \in 0 .. n + 1
      OBVIOUS
    <3>2. f[j - 1] = IF j - 1 = 0 THEN 0 ELSE f[(j - 1) - 1] + es[j - 1].size
      BY <2>1, <3>1 DEF Sum
    <3>3. QED
      BY <3>1, <3>2
  <2>3. \A j \in 0 .. n + 1 : g[j] = IF j = 0 THEN 0 ELSE g[j - 1] + es[j].size
    <3>1. ASSUME NEW j \in 0 .. n + 1
          PROVE g[j] = IF j = 0 THEN 0 ELSE f[j - 1] + es[j].size
      OBVIOUS
    <3>2. \A j \in 0 .. n + 1 : j # 0 => j \in 1 .. n + 1
      OBVIOUS
    <3> HIDE DEF g
    <3>3. QED
      BY <2>2, <3>1, <3>2
  <2>4. g = [j \in 0 .. n + 1 |-> g[j]]
    OBVIOUS
  <2> HIDE DEF g
  <2>5. Sum(es, g, n + 1)
    BY <2>3, <2>4 DEF Sum
  <2>6. QED
    BY <2>5
<1>3. QED
  <2> HIDE DEF T
  <2>1. QED
    BY <1>1, <1>2, StepInduction

LEMMA SumsEquation ==
  ASSUME NEW es, Len(es) \in Nat
  PROVE  Sum(es, Sums(es), Len(es))
<1>1. \E g : Sum(es, g, Len(es))
  BY SumExists
<1>2. QED
  BY <1>1, Zenon DEF Sums, Sum

LEMMA SumsStep ==
  ASSUME NEW es, Len(es) \in Nat
  PROVE  /\ Sums(es)[0] = 0
         /\ \A i \in 1 .. Len(es) : Sums(es)[i] = Sums(es)[i - 1] + es[i].size
<1>1. Sum(es, Sums(es), Len(es))
  BY SumsEquation
<1> HIDE DEF Sums
<1>2. \A j \in 0 .. Len(es) : Sums(es)[j] = IF j = 0 THEN 0 ELSE Sums(es)[j - 1] + es[j].size
  BY <1>1 DEF Sum
<1>3. QED
  BY <1>2

\* What is being written: elements with instructions and their sizes.
Elements == Seq(Element)

LEMMA SumsNat ==
  ASSUME NEW es \in Elements
  PROVE  /\ Len(es) \in Nat
         /\ \A i \in 0 .. Len(es) : Sums(es)[i] \in Nat
<1>1. Len(es) \in Nat /\ \A i \in 1 .. Len(es) : es[i].size \in Nat
  <2>1. Len(es) \in Nat /\ \A i \in 1 .. Len(es) : es[i] \in Element
    BY DEF Elements
  <2>2. \A e \in Element : e.size \in Nat
    BY DEF Element
  <2>3. QED
    BY <2>1, <2>2
<1> DEFINE T == {i \in Nat : i \in 0 .. Len(es) => Sums(es)[i] \in Nat}
<1>2. 0 \in T
  BY <1>1, SumsStep
<1>3. ASSUME NEW i \in Nat, i \in T PROVE i + 1 \in T
  <2> SUFFICES ASSUME i + 1 \in 0 .. Len(es) PROVE Sums(es)[i + 1] \in Nat
    OBVIOUS
  <2>1. i \in 0 .. Len(es) /\ i + 1 \in 1 .. Len(es) /\ (i + 1) - 1 = i
    BY <1>1
  <2>2. Sums(es)[i + 1] = Sums(es)[i] + es[i + 1].size
    <3>1. Sums(es)[i + 1] = Sums(es)[(i + 1) - 1] + es[i + 1].size
      BY <1>1, <2>1, SumsStep
    <3>2. QED
      BY <2>1, <3>1
  <2>3. QED
    BY <1>1, <1>3, <2>1, <2>2
<1>4. Nat \subseteq T
  <2> HIDE DEF T
  <2>1. QED
    BY <1>2, <1>3, StepInduction
<1>5. QED
  BY <1>1, <1>4

\* The address of each element is the number of words before it.
LEMMA PlacedAt ==
  ASSUME NEW es
  PROVE  Placed(es) = [i \in DOMAIN es |-> [word |-> es[i].word, size |-> es[i].size,
                                            reladdr |-> Sums(es)[i - 1]]]
BY Zenon DEF Placed, Sums

\* An element of more words than one, or of none, is a block of zeros.
Source == {es \in Elements : \A i \in DOMAIN es : es[i].size = 1 \/ es[i].word = Zero}

LEMMA ZeroIsInsn == Zero \in Insn
<1>1. 0 \in Reg /\ 0 \in SmallImm /\ "|" \in Ops
  <2>1. Regs > 0
    BY RangesAssumption
  <2>2. QED
    BY <2>1, Ranges DEF Reg, SmallImm, Ops
<1>2. Zero \in Insn012
  BY <1>1 DEF Zero, Insn012
<1>3. QED
  BY <1>2 DEF Insn

LEMMA ZerosSeq ==
  ASSUME NEW n \in Nat
  PROVE  /\ Zeros(n) \in Seq(Insn) /\ Len(Zeros(n)) = n
         /\ \A j \in 1 .. n : Zeros(n)[j] = Zero
<1> HIDE DEF Zero
<1>1. Zeros(n) \in [1 .. n -> Insn]
  BY ZeroIsInsn DEF Zeros
<1>2. QED
  BY <1>1 DEF Zeros

LEMMA BodyWords ==
  ASSUME NEW e \in Element, e.size = 1 \/ e.word = Zero
  PROVE  /\ Body(e) \in Seq(Insn) /\ Len(Body(e)) = e.size
         /\ \A j \in 1 .. e.size : Body(e)[j] = e.word
<1> DEFINE w == e.word
           n == e.size
<1>1. w \in Insn /\ n \in Nat
  BY DEF Element
<1>2. CASE n = 0
  <2>1. Body(e) = <<>>
    BY <1>2 DEF Body
  <2>2. QED
    BY <2>1, <1>2
<1>3. CASE n > 0
  <2>1. n - 1 \in Nat
    BY <1>1, <1>3
  <2> DEFINE z == Zeros(n - 1)
  <2>2. z \in Seq(Insn) /\ Len(z) = n - 1 /\ \A j \in 1 .. n - 1 : z[j] = Zero
    BY <2>1, ZerosSeq
  <2>3. Body(e) = <<w>> \o z
    BY <1>3 DEF Body
  <2>4. \A j \in 1 .. n - 1 : z[j] = w
    BY <1>1, <2>2
  <2> HIDE DEF z, w, n
  <2>5. <<w>> \in Seq(Insn) /\ Len(<<w>>) = 1 /\ <<w>>[1] = w
    BY <1>1
  <2>6. /\ Body(e) \in Seq(Insn) /\ Len(Body(e)) = n
        /\ \A j \in 1 .. n : Body(e)[j] = w
    <3>1. <<w>> \o z \in Seq(Insn) /\ Len(<<w>> \o z) = 1 + Len(z)
      BY <2>2, <2>5
    <3>2. ASSUME NEW j \in 1 .. n PROVE (<<w>> \o z)[j] = w
      <4>1. CASE j = 1
        BY <2>2, <2>5, <4>1
      <4>2. CASE j # 1
        <5>1. j - 1 \in 1 .. n - 1 /\ (<<w>> \o z)[j] = z[j - 1]
          BY <1>1, <2>2, <2>5, <4>2
        <5>2. QED
          BY <5>1, <2>4
      <4>3. QED
        BY <4>1, <4>2
    <3>3. QED
      BY <3>1, <3>2, <2>2, <2>3, <1>1
  <2>7. QED
    BY <2>6 DEF w, n
<1>4. QED
  BY <1>1, <1>2, <1>3

Bodies(es) == [i \in DOMAIN es |-> Body(es[i])]

Flattening(ss) ==
  LET flatten[i \in 1 .. Len(ss)] == IF i = 1 THEN ss[i] ELSE flatten[i - 1] \o ss[i]
  IN  flatten

\* The first i sequences, one after the other.
Part(ss, i) == IF i = 0 THEN <<>> ELSE Flattening(ss)[i]

\* The words of the first i elements, and of all.
Upto(es, i) == Part(Bodies(es), i)
Flat(es)    == FlattenSeq(Bodies(es))

\* The equation of FlattenSeq has a solution up to the i-th sequence.
Flattens(ss, f, i) ==
  f = [j \in 1 .. i |-> IF j = 1 THEN ss[j] ELSE f[j - 1] \o ss[j]]

LEMMA FlattensExist ==
  ASSUME NEW ss
  PROVE  \A i \in Nat : \E f : Flattens(ss, f, i)
<1> DEFINE T == {i \in Nat : \E f : Flattens(ss, f, i)}
<1> SUFFICES Nat \subseteq T
  OBVIOUS
<1>1. 0 \in T
  <2> DEFINE g == [j \in 1 .. 0 |-> 0]
  <2>1. Flattens(ss, g, 0)
    BY DEF Flattens
  <2>2. QED
    BY <2>1
<1>2. ASSUME NEW n \in Nat, n \in T PROVE n + 1 \in T
  <2>1. PICK f : Flattens(ss, f, n)
    BY <1>2
  <2> DEFINE g == [j \in 1 .. n + 1 |-> IF j = 1 THEN ss[j] ELSE f[j - 1] \o ss[j]]
  <2>2. ASSUME NEW j \in 2 .. n + 1 PROVE f[j - 1] = g[j - 1]
    <3>1. j - 1 \in 1 .. n /\ j - 1 \in 1 .. n + 1
      OBVIOUS
    <3>2. f[j - 1] = IF j - 1 = 1 THEN ss[j - 1] ELSE f[(j - 1) - 1] \o ss[j - 1]
      BY <2>1, <3>1 DEF Flattens
    <3>3. QED
      BY <3>1, <3>2
  <2>3. \A j \in 1 .. n + 1 : g[j] = IF j = 1 THEN ss[j] ELSE g[j - 1] \o ss[j]
    <3>1. ASSUME NEW j \in 1 .. n + 1
          PROVE g[j] = IF j = 1 THEN ss[j] ELSE f[j - 1] \o ss[j]
      OBVIOUS
    <3>2. \A j \in 1 .. n + 1 : j # 1 => j \in 2 .. n + 1
      OBVIOUS
    <3> HIDE DEF g
    <3>3. QED
      BY <2>2, <3>1, <3>2
  <2>4. g = [j \in 1 .. n + 1 |-> g[j]]
    OBVIOUS
  <2> HIDE DEF g
  <2>5. Flattens(ss, g, n + 1)
    BY <2>3, <2>4 DEF Flattens
  <2>6. QED
    BY <2>5
<1>3. QED
  <2> HIDE DEF T
  <2>1. QED
    BY <1>1, <1>2, StepInduction

LEMMA FlatteningEquation ==
  ASSUME NEW ss, Len(ss) \in Nat
  PROVE  Flattens(ss, Flattening(ss), Len(ss))
<1>1. \E g : Flattens(ss, g, Len(ss))
  BY FlattensExist
<1>2. QED
  BY <1>1, Zenon DEF Flattening, Flattens

LEMMA PartStep ==
  ASSUME NEW S, NEW ss \in Seq(Seq(S))
  PROVE  /\ Part(ss, 0) = <<>>
         /\ \A i \in 1 .. Len(ss) : Part(ss, i) = Part(ss, i - 1) \o ss[i]
         /\ FlattenSeq(ss) = Part(ss, Len(ss))
<1> DEFINE f == Flattening(ss)
           n == Len(ss)
<1>1. n \in Nat /\ \A i \in 1 .. n : ss[i] \in Seq(S)
  OBVIOUS
<1>2. Flattens(ss, f, n)
  BY <1>1, FlatteningEquation
<1> HIDE DEF f
<1>3. \A j \in 1 .. n : f[j] = IF j = 1 THEN ss[j] ELSE f[j - 1] \o ss[j]
  BY <1>2 DEF Flattens
<1>4. Part(ss, 0) = <<>> /\ \A j \in 1 .. n : Part(ss, j) = f[j]
  BY DEF Part, f
<1>5. ASSUME NEW i \in 1 .. n PROVE Part(ss, i) = Part(ss, i - 1) \o ss[i]
  <2>1. CASE i = 1
    <3>1. Part(ss, i) = ss[i] /\ Part(ss, i - 1) = <<>>
      BY <2>1, <1>3, <1>4
    <3>2. <<>> \o ss[i] = ss[i]
      BY <1>1
    <3>3. QED
      BY <3>1, <3>2
  <2>2. CASE i # 1
    <3>1. i - 1 \in 1 .. n
      BY <2>2
    <3>2. Part(ss, i) = f[i - 1] \o ss[i] /\ Part(ss, i - 1) = f[i - 1]
      BY <2>2, <3>1, <1>3, <1>4
    <3>3. QED
      BY <3>2
  <2>3. QED
    BY <2>1, <2>2
<1>6. FlattenSeq(ss) = Part(ss, n)
  <2>1. CASE n = 0
    <3>1. FlattenSeq(ss) = ss
      BY <2>1 DEF FlattenSeq
    <3>2. ss = <<>>
      BY <2>1
    <3>3. QED
      BY <3>1, <3>2, <2>1, <1>4
  <2>2. CASE n # 0
    <3>1. FlattenSeq(ss) = Flattening(ss)[n]
      BY <2>2, Zenon DEF FlattenSeq, Flattening
    <3>2. n \in 1 .. n
      BY <1>1, <2>2
    <3>3. QED
      BY <3>1, <3>2, <1>4 DEF f
  <2>3. QED
    BY <2>1, <2>2
<1>7. QED
  BY <1>4, <1>5, <1>6

LEMMA PartType ==
  ASSUME NEW S, NEW ss \in Seq(Seq(S)), NEW i \in 0 .. Len(ss)
  PROVE  Part(ss, i) \in Seq(S)
<1> DEFINE T == {n \in Nat : n \in 0 .. Len(ss) => Part(ss, n) \in Seq(S)}
<1>1. Len(ss) \in Nat
  OBVIOUS
<1>2. 0 \in T
  <2>1. Part(ss, 0) = <<>>
    BY DEF Part
  <2>2. <<>> \in Seq(S)
    OBVIOUS
  <2>3. QED
    BY <2>1, <2>2
<1>3. ASSUME NEW n \in Nat, n \in T PROVE n + 1 \in T
  <2> SUFFICES ASSUME n + 1 \in 0 .. Len(ss) PROVE Part(ss, n + 1) \in Seq(S)
    OBVIOUS
  <2>1. n + 1 \in 1 .. Len(ss) /\ (n + 1) - 1 = n /\ n \in 0 .. Len(ss)
    BY <1>1
  <2>2. Part(ss, n + 1) = Part(ss, n) \o ss[n + 1]
    <3>1. Part(ss, n + 1) = Part(ss, (n + 1) - 1) \o ss[n + 1]
      BY <2>1, PartStep
    <3>2. QED
      BY <2>1, <3>1
  <2>3. Part(ss, n) \in Seq(S) /\ ss[n + 1] \in Seq(S)
    BY <1>3, <2>1
  <2> DEFINE u == Part(ss, n)
             b == ss[n + 1]
  <2>4. u \o b \in Seq(S)
    <3> HIDE DEF u, b
    <3>1. QED
      BY <2>3 DEF u, b
  <2>5. QED
    BY <2>2, <2>4
<1>4. Nat \subseteq T
  <2> HIDE DEF T
  <2>1. QED
    BY <1>2, <1>3, StepInduction
<1>5. QED
  BY <1>1, <1>4

LEMMA UptoStep ==
  ASSUME NEW es \in Source
  PROVE  /\ Upto(es, 0) = <<>>
         /\ \A i \in 1 .. Len(es) : Upto(es, i) = Upto(es, i - 1) \o Body(es[i])
         /\ Flat(es) = Upto(es, Len(es))
<1> DEFINE ss == Bodies(es)
           n  == Len(es)
<1>1. n \in Nat /\ DOMAIN es = 1 .. n
  BY DEF Source, Elements
<1>2. \A i \in 1 .. n : ss[i] = Body(es[i]) /\ ss[i] \in Seq(Insn)
  <2> SUFFICES ASSUME NEW i \in 1 .. n PROVE ss[i] = Body(es[i]) /\ ss[i] \in Seq(Insn)
    OBVIOUS
  <2>1. es[i] \in Element /\ (es[i].size = 1 \/ es[i].word = Zero)
    BY <1>1 DEF Source, Elements
  <2>2. ss[i] = Body(es[i])
    BY <1>1 DEF Bodies
  <2>3. QED
    BY <2>1, <2>2, BodyWords
<1>3. ss \in Seq(Seq(Insn)) /\ Len(ss) = n
  <2>1. ss \in [1 .. n -> Seq(Insn)]
    BY <1>1, <1>2 DEF Bodies
  <2>2. QED
    BY <2>1, <1>1
<1> HIDE DEF ss
<1>4. /\ Part(ss, 0) = <<>> /\ FlattenSeq(ss) = Part(ss, n)
      /\ \A i \in 1 .. n : Part(ss, i) = Part(ss, i - 1) \o ss[i]
  BY <1>3, PartStep
<1>5. QED
  BY <1>2, <1>4 DEF Upto, Flat, ss

LEMMA SourceElement ==
  ASSUME NEW es \in Source
  PROVE  /\ es \in Elements /\ Len(es) \in Nat /\ DOMAIN es = 1 .. Len(es)
         /\ \A i \in 1 .. Len(es) :
              /\ es[i] \in Element /\ (es[i].size = 1 \/ es[i].word = Zero)
              /\ es[i].size \in Nat /\ es[i].word \in Insn
<1>1. es \in Elements /\ Len(es) \in Nat /\ DOMAIN es = 1 .. Len(es)
  BY DEF Source, Elements
<1>2. \A i \in 1 .. Len(es) : es[i] \in Element /\ (es[i].size = 1 \/ es[i].word = Zero)
  BY <1>1 DEF Source, Elements
<1>3. \A e \in Element : e.size \in Nat /\ e.word \in Insn
  BY DEF Element
<1>4. QED
  BY <1>1, <1>2, <1>3

LEMMA UptoType ==
  ASSUME NEW es \in Source, NEW i \in 0 .. Len(es)
  PROVE  Upto(es, i) \in Seq(Insn) /\ Len(Upto(es, i)) = Sums(es)[i]
<1> DEFINE T == {n \in Nat : n \in 0 .. Len(es) =>
                   Upto(es, n) \in Seq(Insn) /\ Len(Upto(es, n)) = Sums(es)[n]}
<1>1. Len(es) \in Nat /\ es \in Elements
  BY SourceElement
<1>2. 0 \in T
  <2>1. Upto(es, 0) = <<>> /\ Sums(es)[0] = 0
    BY <1>1, UptoStep, SumsStep
  <2>2. <<>> \in Seq(Insn) /\ Len(<<>>) = 0
    OBVIOUS
  <2>3. QED
    BY <2>1, <2>2
<1>3. ASSUME NEW n \in Nat, n \in T PROVE n + 1 \in T
  <2> SUFFICES ASSUME n + 1 \in 0 .. Len(es)
               PROVE  /\ Upto(es, n + 1) \in Seq(Insn)
                      /\ Len(Upto(es, n + 1)) = Sums(es)[n + 1]
    OBVIOUS
  <2>1. n + 1 \in 1 .. Len(es) /\ (n + 1) - 1 = n /\ n \in 0 .. Len(es)
    BY <1>1
  <2>2. Upto(es, n + 1) = Upto(es, n) \o Body(es[n + 1])
    <3>1. Upto(es, n + 1) = Upto(es, (n + 1) - 1) \o Body(es[n + 1])
      BY <2>1, UptoStep
    <3>2. QED
      BY <2>1, <3>1
  <2>3. Sums(es)[n + 1] = Sums(es)[n] + es[n + 1].size
    <3>1. Sums(es)[n + 1] = Sums(es)[(n + 1) - 1] + es[n + 1].size
      BY <1>1, <2>1, SumsStep
    <3>2. QED
      BY <2>1, <3>1
  <2>4. Body(es[n + 1]) \in Seq(Insn) /\ Len(Body(es[n + 1])) = es[n + 1].size
    BY <2>1, SourceElement, BodyWords
  <2>5. Upto(es, n) \in Seq(Insn) /\ Len(Upto(es, n)) = Sums(es)[n]
    BY <1>3, <2>1
  <2> DEFINE u == Upto(es, n)
             b == Body(es[n + 1])
  <2>6. u \o b \in Seq(Insn) /\ Len(u \o b) = Len(u) + Len(b)
    <3> HIDE DEF u, b
    <3>1. QED
      BY <2>4, <2>5, ConcatProperties DEF u, b
  <2>7. QED
    BY <2>2, <2>3, <2>4, <2>5, <2>6
<1>4. Nat \subseteq T
  <2> HIDE DEF T
  <2>1. QED
    BY <1>2, <1>3, StepInduction
<1>5. QED
  BY <1>1, <1>4

\* Word j of element i.
LEMMA UptoWords ==
  ASSUME NEW es \in Source, NEW m \in 0 .. Len(es)
  PROVE  \A i \in 1 .. m, j \in Nat : j \in 1 .. es[i].size =>
           /\ Sums(es)[i - 1] + j \in 1 .. Sums(es)[m]
           /\ Upto(es, m)[Sums(es)[i - 1] + j] = es[i].word
<1> DEFINE At(n) == \A i \in 1 .. n, j \in Nat : j \in 1 .. es[i].size =>
                      /\ Sums(es)[i - 1] + j \in 1 .. Sums(es)[n]
                      /\ Upto(es, n)[Sums(es)[i - 1] + j] = es[i].word
           T == {n \in Nat : n \in 0 .. Len(es) => At(n)}
<1>1. Len(es) \in Nat /\ es \in Elements
  BY SourceElement
<1>2. 0 \in T
  OBVIOUS
<1>3. ASSUME NEW n \in Nat, n \in T PROVE n + 1 \in T
  <2> SUFFICES ASSUME n + 1 \in 0 .. Len(es), NEW i \in 1 .. n + 1, NEW j \in Nat,
                      j \in 1 .. es[i].size
               PROVE  /\ Sums(es)[i - 1] + j \in 1 .. Sums(es)[n + 1]
                      /\ Upto(es, n + 1)[Sums(es)[i - 1] + j] = es[i].word
    OBVIOUS
  <2>1. n + 1 \in 1 .. Len(es) /\ (n + 1) - 1 = n /\ n \in 0 .. Len(es)
    BY <1>1
  <2>2. Upto(es, n + 1) = Upto(es, n) \o Body(es[n + 1])
    <3>1. Upto(es, n + 1) = Upto(es, (n + 1) - 1) \o Body(es[n + 1])
      BY <2>1, UptoStep
    <3>2. QED
      BY <2>1, <3>1
  <2>3. Sums(es)[n + 1] = Sums(es)[n] + es[n + 1].size
    <3>1. Sums(es)[n + 1] = Sums(es)[(n + 1) - 1] + es[n + 1].size
      BY <1>1, <2>1, SumsStep
    <3>2. QED
      BY <2>1, <3>1
  <2> DEFINE u == Upto(es, n)
             b == Body(es[n + 1])
             s == Sums(es)[n]
             z == es[n + 1].size
  <2>4. /\ b \in Seq(Insn) /\ Len(b) = z /\ z \in Nat
        /\ \A k \in 1 .. z : b[k] = es[n + 1].word
    BY <2>1, SourceElement, BodyWords
  <2>5. u \in Seq(Insn) /\ Len(u) = s /\ s \in Nat
    BY <1>1, <2>1, UptoType, SumsNat
  <2> DEFINE c == u \o b
  <2>6. /\ \A k \in 1 .. s : c[k] = u[k]
        /\ \A k \in 1 .. z : c[s + k] = b[k]
    <3>0. u \in Seq(Insn) /\ b \in Seq(Insn) /\ Len(u) = s /\ Len(b) = z /\ s \in Nat /\ z \in Nat
      BY <2>4, <2>5
    <3> HIDE DEF u, b, s, z
    <3>1. \A k \in 1 .. Len(u) + Len(b) :
            c[k] = IF k <= Len(u) THEN u[k] ELSE b[k - Len(u)]
      BY <3>0, ConcatProperties, Zenon DEF c
    <3>2. ASSUME NEW k \in 1 .. s PROVE c[k] = u[k]
      BY <3>0, <3>1
    <3>3. ASSUME NEW k \in 1 .. z PROVE c[s + k] = b[k]
      <4>1. s + k \in 1 .. s + z /\ ~(s + k <= s) /\ (s + k) - s = k
        BY <3>0
      <4>2. QED
        BY <3>0, <3>1, <4>1
    <3>4. QED
      BY <3>2, <3>3
  <2>7. CASE i = n + 1
    <3>1. Sums(es)[i - 1] = s /\ j \in 1 .. z
      BY <2>1, <2>7
    <3>2. c[s + j] = es[i].word
      BY <3>1, <2>4, <2>6, <2>7
    <3>3. s + j \in 1 .. Sums(es)[n + 1]
      <4> HIDE DEF s, z
      <4>1. Sums(es)[n + 1] = s + z
        BY <2>3 DEF s, z
      <4>2. QED
        BY <4>1, <3>1, <2>4, <2>5
    <3>4. QED
      BY <3>1, <3>2, <3>3, <2>2
  <2>8. CASE i # n + 1
    <3>1. i \in 1 .. n
      BY <2>8
    <3> DEFINE p == Sums(es)[i - 1] + j
    <3>2. p \in 1 .. s /\ u[p] = es[i].word
      BY <1>3, <2>1, <3>1
    <3> HIDE DEF p
    <3>3. c[p] = es[i].word
      BY <3>2, <2>6
    <3>4. p \in 1 .. Sums(es)[n + 1]
      <4> HIDE DEF s, z
      <4>1. Sums(es)[n + 1] = s + z
        BY <2>3 DEF s, z
      <4>2. QED
        BY <4>1, <3>2, <2>4, <2>5
    <3>5. QED
      BY <3>3, <3>4, <2>2 DEF p
  <2>9. QED
    BY <2>7, <2>8
<1>4. Nat \subseteq T
  <2> HIDE DEF T
  <2>1. QED
    BY <1>2, <1>3, StepInduction
<1>5. At(m)
  BY <1>1, <1>4
<1>6. QED
  BY <1>5

\* Every word is one of some element.
LEMMA UptoCovered ==
  ASSUME NEW es \in Source, NEW m \in 0 .. Len(es), NEW p \in 1 .. Sums(es)[m]
  PROVE  \E i \in 1 .. m, j \in Nat : j \in 1 .. es[i].size /\ p = Sums(es)[i - 1] + j
<1> DEFINE At(n, q) == \E i \in 1 .. n, j \in Nat :
                         j \in 1 .. es[i].size /\ q = Sums(es)[i - 1] + j
           T == {n \in Nat : n \in 0 .. Len(es) => \A q \in 1 .. Sums(es)[n] : At(n, q)}
<1>1. Len(es) \in Nat /\ es \in Elements
  BY SourceElement
<1>2. 0 \in T
  <2>1. Sums(es)[0] = 0
    BY <1>1, SumsStep
  <2>2. QED
    BY <2>1
<1>3. ASSUME NEW n \in Nat, n \in T PROVE n + 1 \in T
  <2> SUFFICES ASSUME n + 1 \in 0 .. Len(es), NEW q \in 1 .. Sums(es)[n + 1]
               PROVE  At(n + 1, q)
    OBVIOUS
  <2>1. n + 1 \in 1 .. Len(es) /\ (n + 1) - 1 = n /\ n \in 0 .. Len(es)
    BY <1>1
  <2>2. Sums(es)[n + 1] = Sums(es)[n] + es[n + 1].size
    <3>1. Sums(es)[n + 1] = Sums(es)[(n + 1) - 1] + es[n + 1].size
      BY <1>1, <2>1, SumsStep
    <3>2. QED
      BY <2>1, <3>1
  <2>3. Sums(es)[n] \in Nat /\ es[n + 1].size \in Nat
    BY <1>1, <2>1, SumsNat, SourceElement
  <2>4. CASE q <= Sums(es)[n]
    <3>1. At(n, q)
      <4>1. q \in 1 .. Sums(es)[n]
        <5> DEFINE a == Sums(es)[n]
                   b == Sums(es)[n + 1]
        <5>1. q \in 1 .. b /\ a \in Nat /\ q <= a
          BY <2>3, <2>4
        <5> HIDE DEF a, b
        <5>2. QED
          BY <5>1 DEF a
      <4>2. QED
        BY <1>3, <2>1, <4>1
    <3>2. \A i \in 1 .. n : i \in 1 .. n + 1
      OBVIOUS
    <3>3. QED
      BY <3>1, <3>2
  <2>5. CASE ~(q <= Sums(es)[n])
    <3> DEFINE j == q - Sums(es)[n]
    <3>1. j \in Nat /\ j \in 1 .. es[n + 1].size /\ q = Sums(es)[n] + j
      BY <2>2, <2>3, <2>5, SMTT(30)
    <3>2. n + 1 \in 1 .. n + 1
      OBVIOUS
    <3> HIDE DEF j
    <3>3. QED
      BY <3>1, <3>2, <2>1
  <2>6. QED
    BY <2>4, <2>5
<1>4. Nat \subseteq T
  <2> HIDE DEF T
  <2>1. QED
    BY <1>2, <1>3, StepInduction
<1>5. QED
  BY <1>1, <1>4

-----------------------------------------------------------------------------
(* Types.                                                                  *)

PlacedElement == [word : Insn, size : Nat, reladdr : Nat]
State         == [n : Nat, marked : Nat, first_done : BOOLEAN]
Filled        == [word : Insn, reladdr : Nat]
Text          == {print_disassembly(w, v) : w \in Insn, v \in BOOLEAN}

FileOf(fmt) == IF fmt = "obj" THEN Seq(Record) ELSE Seq(Item)

Writing == {"out", "again"}

\* The position in an object is one in the record that is read or written.
Positioned ==
  job.fmt = "obj" =>
    /\ file # <<>> /\ st.n <= Len(file[1].data)
    /\ stage \in Writing => st.n = Len(file[1].data)

\* How many files have been written when.
Written(s) == CASE s = "out" -> 0 [] s = "done" -> 2 [] OTHER -> 1

TypeInv ==
  /\ job \in Jobs
  /\ stage \in {"out", "in", "parse", "again"} \cup Final
  /\ todo \in Seq(PlacedElement)
  /\ st \in State
  /\ file \in FileOf(job.fmt)
  /\ Positioned
  /\ files \in Seq(Seq(Item) \cup Seq(Record)) /\ Len(files) <= Written(stage)
  /\ elt \in Filled \cup {Undefined}
  /\ lines \in Seq(Text)
  /\ \A a \in DOMAIN memory : memory[a] \in Insn \cup {Garbage}

LEMMA JobType ==
  ASSUME NEW j \in Jobs
  PROVE  /\ j.fmt \in {"raw", "text", "memh", "obj"} /\ j.offset \in Nat
         /\ j.explicit \in BOOLEAN /\ j.verbose \in BOOLEAN /\ j.load \in BOOLEAN
         /\ j.elements \in Source
         /\ j.given # <<>> => j.given \in FileOf(j.fmt)
         /\ j.offset = 0 \/ j.fmt = "memh"
<1>1. j \in AnyJob
  BY JobsAssumption
<1>2. j.elements \in Source
  <2>1. j.elements \in Elements
    BY <1>1 DEF AnyJob, Elements
  <2>2. QED
    BY <2>1, BlocksAssumption DEF Source
<1>3. QED
  BY <1>1, <1>2, JobsAssumption DEF AnyJob, FileOf

LEMMA PlacedType ==
  ASSUME NEW es \in Elements
  PROVE  Placed(es) \in Seq(PlacedElement) /\ Len(Placed(es)) = Len(es)
<1>1. Len(es) \in Nat /\ DOMAIN es = 1 .. Len(es) /\ \A i \in 1 .. Len(es) : es[i] \in Element
  BY DEF Elements
<1> DEFINE p(i) == [word |-> es[i].word, size |-> es[i].size, reladdr |-> Sums(es)[i - 1]]
<1>2. ASSUME NEW i \in 1 .. Len(es) PROVE p(i) \in PlacedElement
  <2>1. es[i].word \in Insn /\ es[i].size \in Nat
    <3>1. es[i] \in Element
      BY <1>1
    <3>2. QED
      BY <3>1 DEF Element
  <2>2. i - 1 \in 0 .. Len(es)
    BY <1>1
  <2>3. Sums(es)[i - 1] \in Nat
    BY <2>2, SumsNat
  <2>4. QED
    BY <2>1, <2>3 DEF PlacedElement
<1>3. Placed(es) = [i \in 1 .. Len(es) |-> p(i)]
  BY <1>1, PlacedAt
<1> HIDE DEF p
<1>4. Placed(es) \in [1 .. Len(es) -> PlacedElement]
  BY <1>2, <1>3
<1>5. QED
  BY <1>1, <1>4

LEMMA ItemKinds ==
  ASSUME NEW i \in Item
  PROVE  /\ i.t = "word" => i.w \in Insn /\ i = WordIn(i.w)
         /\ i.t = "at" => i.a \in Nat /\ i = MarkAt(i.a)
         /\ i.t # "word" /\ i.t # "at" => i = Junk
BY DEF Item, WordIn, MarkAt, Junk

LEMMA WordIsItem == \A w \in Insn : WordIn(w) \in Item
BY DEF Item, WordIn

LEMMA MarkIsItem == \A a \in Nat : MarkAt(a) \in Item
BY DEF Item, MarkAt

LEMMA TokensType ==
  ASSUME NEW ws \in Seq(Insn)
  PROVE  /\ Tokens(ws) \in Seq(Item) /\ Len(Tokens(ws)) = Len(ws)
         /\ \A i \in 1 .. Len(ws) : Tokens(ws)[i] = WordIn(ws[i])
<1>1. Len(ws) \in Nat /\ DOMAIN ws = 1 .. Len(ws) /\ \A i \in 1 .. Len(ws) : ws[i] \in Insn
  OBVIOUS
<1>2. Tokens(ws) \in [1 .. Len(ws) -> Item]
  BY <1>1, WordIsItem DEF Tokens
<1>3. QED
  BY <1>1, <1>2 DEF Tokens

LEMMA EmptyRecord == <<[addr |-> 0, data |-> <<>>]>> \in Seq(Record)
BY DEF Record

LEMMA InitsState ==
  ASSUME job \in Jobs
  PROVE  init \in State /\ (job.fmt # "memh" => init.n = 0)
<1>1. job.offset \in Nat
  BY JobType
<1>2. QED
  BY <1>1 DEF init, memh_init, gen_init, State

LEMMA TypeInit == Init => TypeInv
<1> SUFFICES ASSUME Init PROVE TypeInv
  OBVIOUS
<1>1. job \in Jobs /\ stage \in {"out", "in"}
  BY DEF Init
<1>2. todo \in Seq(PlacedElement)
  <2>1. job.elements \in Elements
    BY <1>1, JobType DEF Source
  <2>2. QED
    BY <2>1, PlacedType DEF Init
<1>3. st = init /\ st \in State /\ (job.fmt # "memh" => st.n = 0)
  BY <1>1, InitsState DEF Init
<1>4. file \in FileOf(job.fmt) /\ (job.fmt = "obj" => file # <<>>)
  <2>1. CASE job.given = <<>> /\ job.fmt = "obj"
    <3>1. file = <<[addr |-> 0, data |-> <<>>]>>
      BY <2>1 DEF Init
    <3>2. QED
      BY <3>1, <2>1, EmptyRecord DEF FileOf
  <2>2. CASE job.given = <<>> /\ job.fmt # "obj"
    <3>1. file = <<>>
      BY <2>2 DEF Init
    <3>2. QED
      BY <3>1, <2>2 DEF FileOf
  <2>3. CASE job.given # <<>>
    <3>1. file = job.given
      BY <2>3 DEF Init
    <3>2. QED
      BY <3>1, <2>3, <1>1, JobType
  <2>4. QED
    BY <2>1, <2>2, <2>3
<1>5. Positioned
  <2> SUFFICES ASSUME job.fmt = "obj"
               PROVE  /\ file # <<>> /\ st.n <= Len(file[1].data)
                      /\ stage \in Writing => st.n = Len(file[1].data)
    BY DEF Positioned
  <2>1. st.n = 0 /\ file \in Seq(Record) /\ file # <<>>
    BY <1>3, <1>4 DEF FileOf
  <2>2. Len(file[1].data) \in Nat
    <3>1. file[1] \in Record
      BY <2>1
    <3>2. QED
      BY <3>1 DEF Record
  <2>3. stage \in Writing => Len(file[1].data) = 0
    <3> SUFFICES ASSUME stage \in Writing PROVE Len(file[1].data) = 0
      OBVIOUS
    <3>1. job.given = <<>>
      BY DEF Init, Writing
    <3>2. file = <<[addr |-> 0, data |-> <<>>]>>
      BY <3>1 DEF Init
    <3>3. QED
      BY <3>2
  <2>4. QED
    BY <2>1, <2>2, <2>3
<1>6. files = <<>> /\ elt = Undefined /\ lines = <<>> /\ memory = <<>>
  BY DEF Init
<1>7. files \in Seq(Seq(Item) \cup Seq(Record)) /\ Len(files) <= Written(stage)
  BY <1>1, <1>6 DEF Written
<1>8. lines \in Seq(Text) /\ DOMAIN memory = {}
  BY <1>6
<1>9. QED
  BY <1>1, <1>2, <1>3, <1>4, <1>5, <1>6, <1>7, <1>8 DEF TypeInv

LEMMA ZerosType == \A n \in Int : Zeros(n) \in Seq(Insn)
<1> SUFFICES ASSUME NEW n \in Int PROVE Zeros(n) \in Seq(Insn)
  OBVIOUS
<1>1. CASE n \in Nat
  BY <1>1, ZerosSeq
<1>2. CASE n \notin Nat
  <2>1. 1 .. n = {}
    BY <1>2
  <2>2. Zeros(n) = <<>>
    BY <2>1 DEF Zeros
  <2>3. QED
    BY <2>2
<1>3. QED
  BY <1>1, <1>2

LEMMA BodyType ==
  ASSUME NEW e, e.word \in Insn, e.size \in Nat
  PROVE  Body(e) \in Seq(Insn)
<1>1. CASE e.size > 0
  <2>1. Zeros(e.size - 1) \in Seq(Insn)
    BY ZerosType
  <2> DEFINE z == Zeros(e.size - 1)
             w == e.word
  <2> HIDE DEF z, w
  <2>2. z \in Seq(Insn) /\ w \in Insn
    BY <2>1 DEF z, w
  <2>3. <<w>> \o z \in Seq(Insn)
    BY <2>2
  <2>4. QED
    BY <1>1, <2>3 DEF Body, z, w
<1>2. CASE ~(e.size > 0)
  <2>1. Body(e) = <<>>
    BY <1>2 DEF Body
  <2>2. QED
    BY <2>1
<1>3. QED
  BY <1>1, <1>2

LEMMA PlacedFields ==
  ASSUME NEW e \in PlacedElement
  PROVE  e.word \in Insn /\ e.size \in Nat /\ e.reladdr \in Nat
BY DEF PlacedElement

LEMMA StateFields ==
  ASSUME NEW s \in State
  PROVE  /\ s.n \in Nat /\ s.marked \in Nat /\ s.first_done \in BOOLEAN
         /\ \A k \in Nat : /\ [s EXCEPT !.n = k] \in State
                           /\ [s EXCEPT !.n = k].n = k
                           /\ [s EXCEPT !.n = k].marked = s.marked
                           /\ [s EXCEPT !.marked = k] \in State
                           /\ [s EXCEPT !.marked = k].marked = k
                           /\ [s EXCEPT !.marked = k].n = s.n
BY DEF State

LEMMA RawOutType ==
  ASSUME st \in State, file \in Seq(Item), NEW e \in PlacedElement, raw_out(e)
  PROVE  st' \in State /\ file' \in Seq(Item)
<1> DEFINE ws == Zeros(e.reladdr - st.n) \o Body(e)
<1>1. ws \in Seq(Insn)
  <2>1. Zeros(e.reladdr - st.n) \in Seq(Insn)
    <3>1. e.reladdr - st.n \in Int
      BY PlacedFields, StateFields
    <3>2. QED
      BY <3>1, ZerosType
  <2>2. Body(e) \in Seq(Insn)
    BY PlacedFields, BodyType
  <2>3. QED
    BY <2>1, <2>2, ConcatProperties
<1>2. file' = file \o Tokens(ws) /\ st' = [st EXCEPT !.n = @ + Len(ws)]
  BY DEF raw_out
<1> HIDE DEF ws
<1>3. Tokens(ws) \in Seq(Item) /\ Len(ws) \in Nat
  BY <1>1, TokensType
<1>4. st.n + Len(ws) \in Nat
  BY <1>3, StateFields
<1>5. st' \in State
  BY <1>2, <1>4, StateFields
<1>6. file' \in Seq(Item)
  BY <1>2, <1>3, ConcatProperties
<1>7. QED
  BY <1>5, <1>6

LEMMA TextOutType ==
  ASSUME st \in State, file \in Seq(Item), NEW e \in PlacedElement, text_out(e)
  PROVE  st' \in State /\ file' \in Seq(Item)
<1>1. Body(e) \in Seq(Insn)
  BY PlacedFields, BodyType
<1>2. Tokens(Body(e)) \in Seq(Item)
  BY <1>1, TokensType
<1>3. file' \in Seq(Item)
  BY <1>2, ConcatProperties DEF text_out
<1>4. QED
  BY <1>3 DEF text_out

LEMMA MemhOutType ==
  ASSUME job \in Jobs, st \in State, file \in Seq(Item), NEW e \in PlacedElement, memh_out(e)
  PROVE  st' \in State /\ file' \in Seq(Item)
<1> DEFINE addr == e.reladdr + job.offset
           m == IF Marked(addr) THEN <<MarkAt(addr)>> ELSE <<>>
           w == <<WordIn(e.word)>>
<1>1. addr \in Nat /\ e.word \in Insn
  BY PlacedFields, JobType
<1>2. CASE e.word = Zero /\ ~job.explicit
  BY <1>2 DEF memh_out
<1>3. CASE ~(e.word = Zero /\ ~job.explicit)
  <2>1. file' = file \o m \o w /\ st' = [st EXCEPT !.n = addr, !.first_done = TRUE]
    BY <1>3 DEF memh_out
  <2>2. m \in Seq(Item)
    <3>1. MarkAt(addr) \in Item
      BY <1>1, MarkIsItem
    <3>2. QED
      BY <3>1
  <2>3. w \in Seq(Item)
    <3>1. WordIn(e.word) \in Item
      BY <1>1, WordIsItem
    <3>2. QED
      BY <3>1
  <2> HIDE DEF m, w, addr
  <2>4. file \o m \o w \in Seq(Item)
    BY <2>2, <2>3, ConcatProperties
  <2>5. st' \in State
    BY <1>1, <2>1 DEF State
  <2>6. QED
    BY <2>1, <2>4, <2>5
<1>4. QED
  BY <1>2, <1>3

LEMMA FirstRecord ==
  ASSUME NEW recs \in Seq(Record), recs # <<>>
  PROVE  /\ 1 \in DOMAIN recs /\ 1 \in 1 .. Len(recs) /\ recs[1] \in Record
         /\ recs[1].addr \in Nat /\ recs[1].data \in Seq(Insn) /\ Len(recs[1].data) \in Nat
<1>1. Len(recs) \in Nat /\ recs[1] \in Record /\ 1 \in 1 .. Len(recs)
  BY EmptySeq
<1>2. recs[1].addr \in Nat /\ recs[1].data \in Seq(Insn)
  BY <1>1 DEF Record
<1>3. QED
  BY <1>1, <1>2

LEMMA ObjOutType ==
  ASSUME st \in State, file \in Seq(Record), file # <<>>, st.n = Len(file[1].data),
         NEW e \in PlacedElement, obj_out(e)
  PROVE  /\ st' \in State /\ file' \in Seq(Record) /\ file' # <<>>
         /\ st'.n = Len(file'[1].data)
<1> DEFINE b == Body(e)
           d == file[1].data
           a == file[1].addr
<1>1. b \in Seq(Insn) /\ Len(b) \in Nat
  BY PlacedFields, BodyType
<1>2. /\ 1 \in 1 .. Len(file) /\ d \in Seq(Insn) /\ Len(d) \in Nat /\ a \in Nat
      /\ file[1] \in Record
  BY FirstRecord
<1>3. d \o b \in Seq(Insn) /\ Len(d \o b) = Len(d) + Len(b)
  BY <1>1, <1>2, ConcatProperties
<1> DEFINE r == [file[1] EXCEPT !.data = d \o b]
<1>4. file' = [file EXCEPT ![1] = r] /\ st' = [st EXCEPT !.n = @ + Len(b)]
  BY DEF obj_out
<1>5. r \in Record /\ r.data = d \o b
  BY <1>2, <1>3 DEF Record
<1> HIDE DEF r, b, d
<1>6. file' \in Seq(Record) /\ Len(file') = Len(file) /\ file'[1] = r
  BY <1>2, <1>4, <1>5, ExceptSeq
<1>7. file' # <<>>
  BY <1>2, <1>6
<1>8. st' \in State /\ st'.n = st.n + Len(b)
  <2>1. st.n + Len(b) \in Nat
    BY <1>1, StateFields
  <2>2. QED
    BY <1>4, <2>1, StateFields
<1>9. QED
  BY <1>3, <1>5, <1>6, <1>7, <1>8 DEF d

LEMMA OutType ==
  ASSUME TypeInv, stage \in Writing, NEW e \in PlacedElement, Out(e)
  PROVE  /\ st' \in State /\ file' \in FileOf(job.fmt)
         /\ job.fmt = "obj" => file' # <<>> /\ st'.n = Len(file'[1].data)
<1>1. job \in Jobs /\ st \in State /\ file \in FileOf(job.fmt)
  BY DEF TypeInv
<1>2. job.fmt \in {"raw", "text", "memh", "obj"}
  BY <1>1, JobType
<1>3. CASE job.fmt = "raw"
  BY <1>1, <1>3, RawOutType DEF Out, FileOf
<1>4. CASE job.fmt = "text"
  BY <1>1, <1>4, TextOutType DEF Out, FileOf
<1>5. CASE job.fmt = "memh"
  BY <1>1, <1>5, MemhOutType DEF Out, FileOf
<1>6. CASE job.fmt = "obj"
  <2>1. file \in Seq(Record) /\ file # <<>> /\ st.n = Len(file[1].data)
    BY <1>1, <1>6 DEF TypeInv, Positioned, FileOf
  <2>2. obj_out(e)
    BY <1>6 DEF Out
  <2>3. QED
    BY <1>1, <1>6, <2>1, <2>2, ObjOutType DEF FileOf
<1>7. QED
  BY <1>2, <1>3, <1>4, <1>5, <1>6

LEMMA WriteElementType ==
  ASSUME TypeInv, WriteElement
  PROVE  TypeInv'
<1>1. stage \in Writing /\ todo # <<>> /\ Out(Head(todo)) /\ todo' = Tail(todo)
  BY DEF WriteElement, Writing
<1>2. /\ UNCHANGED <<job, stage, files, elt, lines, memory>>
  BY DEF WriteElement
<1>3. Head(todo) \in PlacedElement /\ Tail(todo) \in Seq(PlacedElement)
  BY <1>1, HeadTailProperties DEF TypeInv
<1>4. /\ st' \in State /\ file' \in FileOf(job.fmt)
      /\ job.fmt = "obj" => file' # <<>> /\ st'.n = Len(file'[1].data)
  BY <1>1, <1>3, OutType
<1>5. Positioned'
  <2> SUFFICES ASSUME job.fmt = "obj"
               PROVE  /\ file' # <<>> /\ st'.n <= Len(file'[1].data)
                      /\ stage' \in Writing => st'.n = Len(file'[1].data)
    BY <1>2 DEF Positioned
  <2>1. st'.n \in Nat
    BY <1>4, StateFields
  <2>2. QED
    BY <1>4, <2>1
<1>6. QED
  BY <1>1, <1>2, <1>3, <1>4, <1>5 DEF TypeInv

LEMMA FinishType ==
  ASSUME TypeInv, Finish
  PROVE  TypeInv'
<1>1. /\ stage \in Writing /\ files' = Append(files, file) /\ st' = init
      /\ stage' = IF stage = "out" THEN "in" ELSE "done"
      /\ UNCHANGED <<job, todo, file, elt, lines, memory>>
  BY DEF Finish, Writing
<1>2. job \in Jobs /\ st' \in State /\ (job.fmt # "memh" => st'.n = 0)
  BY <1>1, InitsState DEF TypeInv
<1>3. Positioned'
  <2> SUFFICES ASSUME job.fmt = "obj"
               PROVE  /\ file # <<>> /\ st'.n <= Len(file[1].data)
                      /\ stage' \in Writing => st'.n = Len(file[1].data)
    BY <1>1 DEF Positioned
  <2>1. file \in Seq(Record) /\ file # <<>>
    BY DEF TypeInv, FileOf, Positioned
  <2>2. Len(file[1].data) \in Nat
    BY <2>1, FirstRecord
  <2>3. stage' \notin Writing
    BY <1>1 DEF Writing
  <2>4. QED
    BY <1>2, <2>1, <2>2, <2>3
<1>4. files' \in Seq(Seq(Item) \cup Seq(Record)) /\ Len(files') <= Written(stage')
  <2>1. file \in Seq(Item) \cup Seq(Record)
    BY DEF TypeInv, FileOf
  <2>2. files \in Seq(Seq(Item) \cup Seq(Record)) /\ Len(files) <= Written(stage)
    BY DEF TypeInv
  <2>3. files' \in Seq(Seq(Item) \cup Seq(Record)) /\ Len(files') = Len(files) + 1
    BY <1>1, <2>1, <2>2, AppendProperties
  <2>4. Written(stage') = Written(stage) + 1
    BY <1>1 DEF Written, Writing
  <2>5. Len(files) \in Nat /\ Written(stage) \in Nat
    BY <2>2 DEF Written
  <2>6. QED
    BY <2>2, <2>3, <2>4, <2>5
<1>5. stage' \in {"out", "in", "parse", "again"} \cup Final
  BY <1>1 DEF Final
<1>6. QED
  BY <1>1, <1>2, <1>3, <1>4, <1>5 DEF TypeInv

-----------------------------------------------------------------------------
(* Reading. *)

LEMMA FileItem ==
  ASSUME NEW f \in Seq(Item), f # <<>>
  PROVE  /\ Head(f) \in Item /\ Tail(f) \in Seq(Item) /\ Len(f) \in Nat \ {0}
         /\ Head(f) = f[1] /\ Len(Tail(f)) = Len(f) - 1
         /\ \A i \in 1 .. Len(f) - 1 : Tail(f)[i] = f[i + 1]
<1>1. Head(f) \in Item /\ Tail(f) \in Seq(Item) /\ Len(Tail(f)) = Len(f) - 1
  BY HeadTailProperties
<1>2. \A i \in 1 .. Len(Tail(f)) : Tail(f)[i] = f[i + 1]
  BY HeadTailProperties
<1>3. Head(f) = f[1] /\ Len(f) \in Nat \ {0}
  BY EmptySeq
<1>4. QED
  BY <1>1, <1>2, <1>3

\* The records that are skipped have no words left; the one after them has.
LEMMA Skipped ==
  ASSUME NEW recs \in Seq(Record), recs # <<>>, NEW pos \in Nat
  PROVE  /\ Skip(recs, pos) \in 0 .. Len(recs) /\ Len(recs) \in Nat \ {0}
         /\ \A i \in 1 .. Skip(recs, pos) : Len(recs[i].data) <= (IF i = 1 THEN pos ELSE 0)
         /\ Skip(recs, pos) # Len(recs) =>
              LET k == Skip(recs, pos) IN
              /\ k + 1 \in 1 .. Len(recs) /\ recs[k + 1] \in Record
              /\ (IF k = 0 THEN pos ELSE 0) < Len(recs[k + 1].data)
<1> DEFINE left(i) == IF i = 1 THEN pos ELSE 0
           more == {i \in DOMAIN recs : left(i) < Len(recs[i].data)}
           k == Skip(recs, pos)
<1>1. Len(recs) \in Nat \ {0} /\ DOMAIN recs = 1 .. Len(recs)
  BY EmptySeq
<1>2. \A i \in 1 .. Len(recs) : recs[i] \in Record /\ Len(recs[i].data) \in Nat
  <2> SUFFICES ASSUME NEW i \in 1 .. Len(recs)
               PROVE  recs[i] \in Record /\ Len(recs[i].data) \in Nat
    OBVIOUS
  <2>1. recs[i] \in Record
    OBVIOUS
  <2>2. recs[i].data \in Seq(Insn)
    BY <2>1 DEF Record
  <2>3. QED
    BY <2>1, <2>2
<1>3. k = IF more = {} THEN Len(recs) ELSE Min(more) - 1
  BY DEF Skip
<1>4. CASE more = {}
  <2>1. k = Len(recs)
    BY <1>3, <1>4
  <2>2. ASSUME NEW i \in 1 .. k PROVE Len(recs[i].data) <= left(i)
    <3>1. i \in DOMAIN recs /\ i \notin more /\ Len(recs[i].data) \in Nat
      BY <1>1, <1>2, <1>4, <2>1
    <3>2. left(i) \in Nat
      OBVIOUS
    <3>3. ~(left(i) < Len(recs[i].data))
      BY <3>1
    <3>4. QED
      BY <3>1, <3>2, <3>3
  <2> HIDE DEF k
  <2>3. QED
    BY <1>1, <2>1, <2>2 DEF k
<1>5. CASE more # {}
  <2>1. more \in SUBSET Nat /\ more \subseteq 1 .. Len(recs)
    BY <1>1
  <2> DEFINE m == Min(more)
  <2>2. m \in more /\ \A i \in more : m <= i
    <3> HIDE DEF more
    <3>1. QED
      BY <1>5, <2>1, LeastOf
  <2>3. k = m - 1 /\ m \in 1 .. Len(recs) /\ left(m) < Len(recs[m].data)
    <3>1. k = m - 1
      BY <1>3, <1>5
    <3>2. m \in 1 .. Len(recs) /\ left(m) < Len(recs[m].data)
      BY <2>1, <2>2, <1>1
    <3>3. QED
      BY <3>1, <3>2
  <2> HIDE DEF k, m
  <2>4. ASSUME NEW i \in 1 .. k PROVE Len(recs[i].data) <= left(i)
    <3>1. i \in 1 .. Len(recs) /\ ~(m <= i)
      BY <1>1, <2>3
    <3>2. i \notin more
      BY <2>2, <3>1
    <3>3. ~(left(i) < Len(recs[i].data))
      BY <1>1, <3>1, <3>2
    <3>4. left(i) \in Nat /\ Len(recs[i].data) \in Nat
      BY <1>2, <3>1
    <3>5. QED
      BY <3>3, <3>4
  <2>5. k \in 0 .. Len(recs) /\ k + 1 = m /\ (k + 1 = 1 <=> k = 0)
    BY <1>1, <2>3
  <2>6. /\ k + 1 \in 1 .. Len(recs) /\ recs[k + 1] \in Record
        /\ (IF k = 0 THEN pos ELSE 0) < Len(recs[k + 1].data)
    BY <1>2, <2>3, <2>5
  <2>7. QED
    BY <1>1, <2>4, <2>5, <2>6 DEF k
<1>6. QED
  BY <1>4, <1>5

\* What in() returns is of the types of what it is kept in.
InTyped(r) ==
  /\ r.st \in State /\ r.file \in FileOf(job.fmt)
  /\ r.elt \in Filled \cup {Undefined}
  /\ r.rc \in Int /\ (r.rc > 0 => r.elt \in Filled)
  /\ job.fmt = "obj" => r.file # <<>> /\ r.st.n <= Len(r.file[1].data)

LEMMA GotFields ==
  ASSUME NEW rc, NEW e, NEW s, NEW f
  PROVE  /\ Got(rc, e, s, f).rc = rc /\ Got(rc, e, s, f).elt = e
         /\ Got(rc, e, s, f).st = s /\ Got(rc, e, s, f).file = f
BY DEF Got

LEMMA EndedType ==
  ASSUME TypeInv
  PROVE  InTyped(Ended) /\ Ended.rc = -1
<1>1. Ended.rc = -1 /\ Ended.elt = elt /\ Ended.st = st /\ Ended.file = file
  BY GotFields DEF Ended
<1>2. QED
  BY <1>1 DEF TypeInv, InTyped, Positioned

LEMMA FilledWith ==
  ASSUME NEW w \in Insn, NEW a \in Nat
  PROVE  [word |-> w, reladdr |-> a] \in Filled
BY DEF Filled

LEMMA GenInType ==
  ASSUME TypeInv, job.fmt \in {"raw", "text"}
  PROVE  InTyped(gen_in)
<1> DEFINE rest == Tail(file)
<1>1. st \in State /\ st.n \in Nat /\ file \in Seq(Item) /\ FileOf(job.fmt) = Seq(Item)
  BY StateFields DEF TypeInv, FileOf
<1>2. CASE file = <<>> \/ Head(file).t # "word"
  BY <1>2, EndedType DEF gen_in
<1>3. CASE file # <<>> /\ Head(file).t = "word"
  <2> DEFINE e == [word |-> Head(file).w, reladdr |-> st.n]
             s == [st EXCEPT !.n = st.n + 1]
  <2>1. gen_in = Got(1, e, s, rest)
    BY <1>3 DEF gen_in
  <2>2. Head(file) \in Item /\ rest \in Seq(Item)
    BY <1>1, <1>3, FileItem
  <2>3. e \in Filled
    BY <1>1, <1>3, <2>2, ItemKinds, FilledWith
  <2>4. s \in State
    <3>1. st.n + 1 \in Nat
      BY <1>1
    <3>2. QED
      BY <1>1, <3>1, StateFields
  <2> HIDE DEF e, s, rest
  <2>5. gen_in.rc = 1 /\ gen_in.elt = e /\ gen_in.st = s /\ gen_in.file = rest
    BY <2>1, GotFields
  <2>6. QED
    BY <1>1, <2>2, <2>3, <2>4, <2>5 DEF InTyped
<1>4. QED
  BY <1>2, <1>3

LEMMA MemhInType ==
  ASSUME TypeInv, job.fmt = "memh"
  PROVE  InTyped(memh_in)
<1> DEFINE rest == Tail(file)
<1>1. /\ st \in State /\ st.n \in Nat /\ st.marked \in Nat
      /\ file \in Seq(Item) /\ FileOf(job.fmt) = Seq(Item)
  BY StateFields DEF TypeInv, FileOf
<1>2. elt \in Filled \cup {Undefined}
  BY DEF TypeInv
<1> DEFINE on == [st EXCEPT !.n = @ + 1]
<1>3. on \in State
  <2>1. on = [st EXCEPT !.n = st.n + 1]
    OBVIOUS
  <2>2. st.n + 1 \in Nat
    BY <1>1
  <2>3. QED
    BY <1>1, <2>1, <2>2, StateFields
<1>4. CASE st.marked > st.n
  <2> DEFINE e == [word |-> Zero, reladdr |-> st.n]
  <2>1. memh_in = Got(1, e, on, file)
    BY <1>4 DEF memh_in
  <2>2. e \in Filled
    BY <1>1, ZeroIsInsn, FilledWith
  <2> HIDE DEF e, on
  <2>3. memh_in.rc = 1 /\ memh_in.elt = e /\ memh_in.st = on /\ memh_in.file = file
    BY <2>1, GotFields
  <2>4. QED
    BY <1>1, <1>3, <2>2, <2>3 DEF InTyped
<1>5. CASE ~(st.marked > st.n) /\ (st.marked < st.n \/ file = <<>>)
  BY <1>5, EndedType DEF memh_in
<1>6. CASE ~(st.marked > st.n) /\ ~(st.marked < st.n \/ file = <<>>)
  <2> DEFINE item == Head(file)
  <2>1. item \in Item /\ rest \in Seq(Item)
    BY <1>1, <1>6, FileItem
  <2>2. CASE item.t = "at"
    <3> DEFINE s == [st EXCEPT !.marked = item.a]
    <3>1. memh_in = Got(0, elt, s, rest)
      BY <1>6, <2>2 DEF memh_in
    <3>2. s \in State
      BY <1>1, <2>1, <2>2, ItemKinds, StateFields
    <3> HIDE DEF s, rest
    <3>3. memh_in.rc = 0 /\ memh_in.elt = elt /\ memh_in.st = s /\ memh_in.file = rest
      BY <3>1, GotFields
    <3>4. QED
      <4> HIDE DEF item
      <4>1. memh_in.st \in State /\ memh_in.file \in Seq(Item)
        BY <2>1, <3>2, <3>3
      <4>2. QED
        BY <1>1, <1>2, <3>3, <4>1 DEF InTyped
  <2>3. CASE item.t = "word"
    <3> DEFINE e == [word |-> item.w, reladdr |-> st.n]
               s == [on EXCEPT !.marked = st.n + 1]
    <3>1. memh_in = Got(1, e, s, rest)
      BY <1>6, <2>3 DEF memh_in
    <3>2. e \in Filled
      BY <1>1, <2>1, <2>3, ItemKinds, FilledWith
    <3>3. s \in State
      <4> HIDE DEF on
      <4>1. st.n + 1 \in Nat
        BY <1>1
      <4>2. QED
        BY <1>3, <4>1, StateFields
    <3> HIDE DEF e, s, rest
    <3>4. memh_in.rc = 1 /\ memh_in.elt = e /\ memh_in.st = s /\ memh_in.file = rest
      BY <3>1, GotFields
    <3>5. QED
      <4>1. memh_in.st \in State /\ memh_in.file \in Seq(Item) /\ memh_in.elt \in Filled
        BY <2>1, <3>2, <3>3, <3>4
      <4>2. QED
        BY <1>1, <3>4, <4>1 DEF InTyped
  <2>4. CASE item.t # "at" /\ item.t # "word"
    <3>1. memh_in = Ended
      BY <1>6, <2>4 DEF memh_in
    <3>2. QED
      BY <3>1, EndedType
  <2>5. QED
    BY <2>2, <2>3, <2>4
<1>7. QED
  BY <1>4, <1>5, <1>6

\* The file from its m-th record on.
LEMMA Rest ==
  ASSUME NEW recs \in Seq(Record), NEW k \in 0 .. Len(recs) - 1
  PROVE  /\ SubSeq(recs, k + 1, Len(recs)) \in Seq(Record)
         /\ SubSeq(recs, k + 1, Len(recs)) # <<>>
         /\ Len(SubSeq(recs, k + 1, Len(recs))) = Len(recs) - k
         /\ \A i \in 1 .. Len(recs) - k : SubSeq(recs, k + 1, Len(recs))[i] = recs[k + i]
         /\ SubSeq(recs, k + 1, Len(recs))[1] = recs[k + 1]
<1> DEFINE n == Len(recs)
           t == SubSeq(recs, k + 1, n)
<1>1. n \in Nat /\ k \in Nat /\ k + 1 <= n
  OBVIOUS
<1>2. \A i \in k + 1 .. n : recs[i] \in Record
  OBVIOUS
<1>3. /\ t \in Seq(Record) /\ Len(t) = (IF k + 1 <= n THEN n - (k + 1) + 1 ELSE 0)
      /\ \A i \in 1 .. n - (k + 1) + 1 : t[i] = recs[(k + 1) + i - 1]
  <2> HIDE DEF n
  <2>1. k + 1 \in Int /\ n \in Int
    BY <1>1
  <2>2. QED
    BY <1>2, <2>1, SubSeqProperties, SMTT(30)
<1> HIDE DEF t, n
<1>4. Len(t) = n - k /\ n - (k + 1) + 1 = n - k
  BY <1>1, <1>3
<1>5. \A i \in 1 .. n - k : t[i] = recs[k + i]
  <2> SUFFICES ASSUME NEW i \in 1 .. n - k PROVE t[i] = recs[k + i]
    OBVIOUS
  <2>1. (k + 1) + i - 1 = k + i
    BY <1>1
  <2>2. QED
    BY <1>3, <1>4, <2>1
<1>6. 1 \in 1 .. n - k
  BY <1>1
<1>7. t # <<>> /\ t[1] = recs[k + 1]
  BY <1>1, <1>4, <1>5, <1>6
<1>8. QED
  BY <1>3, <1>4, <1>5, <1>7 DEF t, n

LEMMA ObjInType ==
  ASSUME TypeInv, job.fmt = "obj"
  PROVE  InTyped(obj_in)
<1>1. /\ st \in State /\ st.n \in Nat /\ FileOf(job.fmt) = Seq(Record)
      /\ file \in Seq(Record) /\ file # <<>>
  BY StateFields DEF TypeInv, FileOf, Positioned
<1> DEFINE k == Skip(file, st.n)
           pos == IF k = 0 THEN st.n ELSE 0
           d == file[k + 1].data
           a == file[k + 1].addr
           rest == SubSeq(file, k + 1, Len(file))
           e == [word |-> d[pos + 1], reladdr |-> a + pos]
           s == [st EXCEPT !.n = pos + 1]
<1>2. CASE k = Len(file)
  BY <1>2, EndedType DEF obj_in
<1>3. CASE k # Len(file)
  <2>1. /\ k \in 0 .. Len(file) /\ Len(file) \in Nat \ {0}
        /\ file[k + 1] \in Record /\ pos < Len(d)
    BY <1>1, <1>3, Skipped
  <2>2. obj_in = Got(1, e, s, rest)
    BY <1>3 DEF obj_in
  <2>3. a \in Nat /\ d \in Seq(Insn)
    BY <2>1 DEF Record
  <2>4. pos \in Nat
    BY <1>1
  <2>5. k \in 0 .. Len(file) - 1
    <3> DEFINE n == Len(file)
    <3>1. k \in 0 .. n /\ n \in Nat /\ k # n
      BY <1>3, <2>1
    <3> HIDE DEF k, n
    <3>2. k \in 0 .. n - 1
      BY <3>1
    <3>3. QED
      BY <3>2 DEF n
  <2>6. rest \in Seq(Record) /\ rest # <<>> /\ rest[1] = file[k + 1]
    <3> HIDE DEF k
    <3>1. QED
      BY <1>1, <2>5, Rest
  <2> HIDE DEF k, pos
  <2>7. pos + 1 \in 1 .. Len(d)
    <3> DEFINE l == Len(d)
    <3>1. l \in Nat /\ pos < l
      BY <2>1, <2>3
    <3> HIDE DEF l
    <3>2. pos + 1 \in 1 .. l
      BY <3>1, <2>4
    <3>3. QED
      BY <3>2 DEF l
  <2>8. e \in Filled
    <3>1. d[pos + 1] \in Insn
      BY <2>3, <2>7
    <3>2. a + pos \in Nat
      BY <2>3, <2>4
    <3>3. QED
      BY <3>1, <3>2, FilledWith
  <2>9. s \in State /\ s.n = pos + 1 /\ s.n <= Len(rest[1].data)
    <3>1. pos + 1 \in Nat
      BY <2>4
    <3>2. s \in State /\ s.n = pos + 1
      BY <1>1, <3>1, StateFields, ZenonT(60)
    <3>3. rest[1].data = d
      BY <2>6
    <3> HIDE DEF s, d, rest
    <3>4. pos + 1 <= Len(d)
      BY <2>7
    <3>5. QED
      BY <3>2, <3>3, <3>4
  <2> HIDE DEF e, s, rest
  <2>10. obj_in.rc = 1 /\ obj_in.elt = e /\ obj_in.st = s /\ obj_in.file = rest
    BY <2>2, GotFields
  <2>11. QED
    BY <1>1, <2>6, <2>8, <2>9, <2>10 DEF InTyped
<1>4. QED
  BY <1>2, <1>3

LEMMA InType ==
  ASSUME TypeInv
  PROVE  InTyped(In)
<1>1. job.fmt \in {"raw", "text", "memh", "obj"}
  BY JobType DEF TypeInv
<1>2. CASE job.fmt \in {"raw", "text"}
  BY <1>2, GenInType DEF In
<1>3. CASE job.fmt = "memh"
  BY <1>3, MemhInType DEF In
<1>4. CASE job.fmt = "obj"
  BY <1>4, ObjInType DEF In
<1>5. QED
  BY <1>1, <1>2, <1>3, <1>4

\* After a read the position is one in the record that is read.
LEMMA TakenType ==
  ASSUME TypeInv, NEW r, InTyped(r), st' = r.st, file' = r.file, job' = job,
         stage' \notin Writing
  PROVE  Positioned'
<1> SUFFICES ASSUME job.fmt = "obj"
             PROVE  /\ file' # <<>> /\ st'.n <= Len(file'[1].data)
                    /\ stage' \in Writing => st'.n = Len(file'[1].data)
  BY DEF Positioned
<1>1. QED
  BY DEF InTyped

LEMMA DisassemblyType ==
  ASSUME TypeInv, do_disassembly
  PROVE  TypeInv'
<1> DEFINE r == In
<1>1. InTyped(r)
  BY InType
<1>2. /\ stage = "in" /\ UNCHANGED <<job, todo, files, memory>>
      /\ elt' = r.elt /\ st' = r.st /\ file' = r.file
      /\ stage' = (IF r.rc < 0 THEN "parse" ELSE stage)
      /\ lines' = (IF r.rc > 0 THEN Append(lines, print_disassembly(r.elt.word, job.verbose))
                   ELSE lines)
  BY DEF do_disassembly, Take
<1> HIDE DEF r
<1>3. stage' \in {"in", "parse"} /\ Written(stage) = 1 /\ Written(stage') = 1
  BY <1>2 DEF Written
<1>4. Positioned'
  <2>1. stage' \notin Writing
    BY <1>3 DEF Writing
  <2>2. QED
    BY <1>1, <1>2, <2>1, TakenType
<1>5. lines' \in Seq(Text)
  <2>1. lines \in Seq(Text) /\ job.verbose \in BOOLEAN
    BY JobType DEF TypeInv
  <2>2. CASE r.rc > 0
    <3>1. r.elt \in Filled
      BY <1>1, <2>2 DEF InTyped
    <3>2. r.elt.word \in Insn
      BY <3>1 DEF Filled
    <3>3. print_disassembly(r.elt.word, job.verbose) \in Text
      BY <2>1, <3>2 DEF Text
    <3>4. QED
      BY <1>2, <2>1, <2>2, <3>3, AppendProperties
  <2>3. CASE ~(r.rc > 0)
    BY <1>2, <2>1, <2>3
  <2>4. QED
    BY <2>2, <2>3
<1>6. stage' \in {"out", "in", "parse", "again"} \cup Final
  BY <1>3
<1>7. st' \in State /\ file' \in FileOf(job'.fmt)
      /\ elt' \in Filled \cup {Undefined}
  BY <1>1, <1>2 DEF InTyped
<1>8. QED
  BY <1>2, <1>3, <1>4, <1>5, <1>6, <1>7 DEF TypeInv

LEMMA LoadType ==
  ASSUME TypeInv, load_sim
  PROVE  TypeInv'
<1> DEFINE r == In
<1>1. InTyped(r)
  BY InType
<1>2. /\ stage = "in" /\ UNCHANGED <<job, todo, files, lines>>
      /\ elt' = r.elt /\ st' = r.st /\ file' = r.file
      /\ stage' = (IF r.rc < 0 THEN "loaded" ELSE stage)
  BY DEF load_sim, Take
<1>3. PICK a : memory' = (IF r.rc < 0 THEN memory
                          ELSE [x \in DOMAIN memory \cup {a} |->
                                  IF x = a THEN r.elt.word ELSE memory[x]])
  BY DEF load_sim
<1> HIDE DEF r
<1>4. stage' \in {"in", "loaded"} /\ Written(stage) = 1 /\ Written(stage') = 1
  BY <1>2 DEF Written
<1>5. Positioned'
  <2>1. stage' \notin Writing
    BY <1>4 DEF Writing
  <2>2. QED
    BY <1>1, <1>2, <2>1, TakenType
<1>6. \A x \in DOMAIN memory' : memory'[x] \in Insn \cup {Garbage}
  <2>1. r.elt.word \in Insn \cup {Garbage}
    BY <1>1 DEF InTyped, Filled, Undefined
  <2>2. \A x \in DOMAIN memory : memory[x] \in Insn \cup {Garbage}
    BY DEF TypeInv
  <2>3. QED
    BY <1>3, <2>1, <2>2
<1>7. stage' \in {"out", "in", "parse", "again"} \cup Final
  BY <1>4 DEF Final
<1>8. st' \in State /\ file' \in FileOf(job'.fmt) /\ elt' \in Filled \cup {Undefined}
  BY <1>1, <1>2 DEF InTyped
<1>9. QED
  BY <1>2, <1>4, <1>5, <1>6, <1>7, <1>8 DEF TypeInv

-----------------------------------------------------------------------------
(* The assembler reads what the disassembler has written.                  *)

\* What Parse makes of the lines.
Parsed(ls) == [i \in DOMAIN ls |-> make_insn_general(ls[i])]
Again(ls)  == [i \in DOMAIN ls |-> [word |-> make_insn_general(ls[i]), size |-> 1]]

LEMMA TextParses ==
  ASSUME NEW t \in Text
  PROVE  make_insn_general(t) \in Insn
<1>1. PICK w \in Insn, v \in BOOLEAN : t = print_disassembly(w, v)
  BY DEF Text
<1>2. make_insn_general(t) = w
  BY <1>1, DisassemblyAssembles DEF RoundTrip
<1>3. QED
  BY <1>2

LEMMA ErrorIsNoInsn == Error \notin Insn
<1>1. \A w \in Insn : w.p \in 0 .. 3
  BY DEF Insn, Insn012, Insn3
<1>2. Error.p = -1
  BY DEF Error
<1>3. QED
  BY <1>1, <1>2

LEMMA LinesParse ==
  ASSUME NEW ls \in Seq(Text)
  PROVE  /\ \A i \in DOMAIN ls : make_insn_general(ls[i]) \in Insn
         /\ Error \notin ToSet(Parsed(ls))
         /\ Again(ls) \in Source /\ Len(Again(ls)) = Len(ls)
         /\ \A i \in 1 .. Len(ls) : /\ Again(ls)[i].word = make_insn_general(ls[i])
                                    /\ Again(ls)[i].size = 1
<1>1. \A i \in DOMAIN ls : make_insn_general(ls[i]) \in Insn
  BY TextParses
<1>2. Error \notin ToSet(Parsed(ls))
  <2> SUFFICES ASSUME Error \in ToSet(Parsed(ls)) PROVE FALSE
    OBVIOUS
  <2>1. PICK i \in DOMAIN ls : Error = make_insn_general(ls[i])
    BY DEF ToSet, Parsed
  <2>2. QED
    BY <1>1, <2>1, ErrorIsNoInsn
<1>3. Len(ls) \in Nat /\ DOMAIN ls = 1 .. Len(ls)
  OBVIOUS
<1> DEFINE a(i) == [word |-> make_insn_general(ls[i]), size |-> 1]
<1>4. \A i \in 1 .. Len(ls) : a(i) \in Element
  BY <1>1, <1>3 DEF Element
<1>5. Again(ls) = [i \in 1 .. Len(ls) |-> a(i)]
  BY <1>3 DEF Again
<1>6. \A i \in 1 .. Len(ls) : a(i).word = make_insn_general(ls[i]) /\ a(i).size = 1
  OBVIOUS
<1> HIDE DEF a
<1>7. Again(ls) \in [1 .. Len(ls) -> Element]
  BY <1>4, <1>5
<1>8. Again(ls) \in Elements /\ Len(Again(ls)) = Len(ls)
  BY <1>3, <1>7 DEF Elements
<1>9. \A i \in 1 .. Len(ls) : Again(ls)[i].word = make_insn_general(ls[i]) /\ Again(ls)[i].size = 1
  BY <1>5, <1>6
<1>10. Again(ls) \in Source
  BY <1>3, <1>7, <1>8, <1>9 DEF Source
<1>11. QED
  BY <1>1, <1>2, <1>8, <1>9, <1>10

\* Nothing that was disassembled is refused.
LEMMA ParseStep ==
  ASSUME TypeInv, Parse
  PROVE  /\ stage = "parse" /\ stage' = "again" /\ todo' = Placed(Again(lines))
         /\ file' = (IF job.fmt = "obj" THEN <<[addr |-> 0, data |-> <<>>]>> ELSE <<>>)
         /\ st' = init /\ UNCHANGED <<job, files, elt, lines, memory>>
<1>1. lines \in Seq(Text)
  BY DEF TypeInv
<1>2. Error \notin ToSet(Parsed(lines))
  BY <1>1, LinesParse
<1>3. Again(lines) = [i \in DOMAIN lines |-> [word |-> Parsed(lines)[i], size |-> 1]]
  BY DEF Again, Parsed
<1> HIDE DEF Again
<1>4. stage' = "again" /\ todo' = Placed([i \in DOMAIN lines |-> [word |-> Parsed(lines)[i], size |-> 1]])
  BY <1>2, Zenon DEF Parse, Parsed
<1>5. QED
  BY <1>3, <1>4, Zenon DEF Parse

LEMMA ParseType ==
  ASSUME TypeInv, Parse
  PROVE  TypeInv'
<1>1. /\ stage = "parse" /\ stage' = "again" /\ todo' = Placed(Again(lines))
      /\ file' = (IF job.fmt = "obj" THEN <<[addr |-> 0, data |-> <<>>]>> ELSE <<>>)
      /\ st' = init /\ UNCHANGED <<job, files, elt, lines, memory>>
  BY ParseStep
<1>2. job \in Jobs /\ st' \in State /\ (job.fmt # "memh" => st'.n = 0)
  BY <1>1, InitsState DEF TypeInv
<1>3. todo' \in Seq(PlacedElement)
  <2>1. Again(lines) \in Elements
    BY LinesParse DEF TypeInv, Source
  <2>2. QED
    BY <1>1, <2>1, PlacedType
<1>4. file' \in FileOf(job'.fmt)
  <2>1. CASE job.fmt = "obj"
    BY <1>1, <2>1, EmptyRecord DEF FileOf
  <2>2. CASE job.fmt # "obj"
    BY <1>1, <2>2 DEF FileOf
  <2>3. QED
    BY <2>1, <2>2
<1>5. Positioned'
  <2> SUFFICES ASSUME job.fmt = "obj"
               PROVE  /\ file' # <<>> /\ st'.n <= Len(file'[1].data)
                      /\ stage' \in Writing => st'.n = Len(file'[1].data)
    BY <1>1 DEF Positioned
  <2>1. file' = <<[addr |-> 0, data |-> <<>>]>>
    BY <1>1
  <2>2. file' # <<>> /\ Len(file'[1].data) = 0
    BY <2>1
  <2>3. QED
    BY <1>2, <2>2
<1>6. Written(stage) = 1 /\ Written(stage') = 1
  BY <1>1 DEF Written
<1>7. stage' \in {"out", "in", "parse", "again"} \cup Final
  BY <1>1
<1>8. QED
  BY <1>1, <1>2, <1>3, <1>4, <1>5, <1>6, <1>7 DEF TypeInv

LEMMA TypeStep ==
  ASSUME TypeInv, [Next]_vars
  PROVE  TypeInv'
<1>1. CASE WriteElement
  BY <1>1, WriteElementType
<1>2. CASE Finish
  BY <1>2, FinishType
<1>3. CASE do_disassembly
  BY <1>3, DisassemblyType
<1>4. CASE load_sim
  BY <1>4, LoadType
<1>5. CASE Parse
  BY <1>5, ParseType
<1>6. CASE UNCHANGED vars
  BY <1>6 DEF vars, TypeInv, Positioned
<1>7. QED
  BY <1>1, <1>2, <1>3, <1>4, <1>5, <1>6 DEF Next

LEMMA Typed == Spec => []TypeInv
<1>1. QED
  BY TypeInit, TypeStep, PTL DEF Spec

LEMMA TypeOKHolds == TypeInv => TypeOK
<1> SUFFICES ASSUME TypeInv PROVE TypeOK
  OBVIOUS
<1>1. stage \in {"out", "in", "parse", "again"} \cup Final
  BY DEF TypeInv
<1>2. \A i \in DOMAIN todo : todo[i].word \in Insn
  <2>1. todo \in Seq(PlacedElement)
    BY DEF TypeInv
  <2>2. \A i \in DOMAIN todo : todo[i] \in PlacedElement
    BY <2>1
  <2>3. QED
    BY <2>2, PlacedFields
<1>3. st.n >= 0 /\ st.marked >= 0 /\ st.first_done \in BOOLEAN
  <2>1. st \in State
    BY DEF TypeInv
  <2>2. QED
    BY <2>1, StateFields
<1>4. job.fmt = "obj" /\ file # <<>> => st.n <= Len(file[1].data)
  BY DEF TypeInv, Positioned
<1>5. elt # Undefined => elt.word \in Insn /\ elt.reladdr >= 0
  BY DEF TypeInv, Filled
<1>6. Len(files) <= 2
  <2>1. Len(files) \in Nat /\ Len(files) <= Written(stage) /\ Written(stage) \in {0, 1, 2}
    BY DEF TypeInv, Written
  <2>2. QED
    BY <2>1
<1>7. \A a \in DOMAIN memory : memory[a] \in Insn \cup {Garbage}
  BY DEF TypeInv
<1>8. QED
  BY <1>1, <1>2, <1>3, <1>4, <1>5, <1>6, <1>7 DEF TypeOK

\* Whatever is written, read, disassembled and assembled are instructions, the
\* position in an object is one in the record, and the second pass of
\* src/scripts/dogfood.sh is the last one.
THEOREM FormatsTyped == Spec => []TypeOK
<1>1. QED
  BY Typed, TypeOKHolds, PTL

\* The assembler accepts every line that the disassembler has written.
LEMMA NotRefused ==
  ASSUME TypeInv, stage # "refused", [Next]_vars
  PROVE  stage' # "refused"
<1>1. CASE WriteElement
  BY <1>1 DEF WriteElement
<1>2. CASE Finish
  BY <1>2 DEF Finish
<1>3. CASE do_disassembly
  <2>1. stage' = "parse" \/ stage' = stage
    BY <1>3 DEF do_disassembly
  <2>2. QED
    BY <2>1
<1>4. CASE load_sim
  <2>1. stage' = "loaded" \/ stage' = stage
    BY <1>4 DEF load_sim
  <2>2. QED
    BY <2>1
<1>5. CASE Parse
  BY <1>5, ParseStep
<1>6. CASE UNCHANGED vars
  BY <1>6 DEF vars
<1>7. QED
  BY <1>1, <1>2, <1>3, <1>4, <1>5, <1>6 DEF Next

-----------------------------------------------------------------------------
(* The file of a program up to its i-th element.  A memh file consists of  *)
(* a piece for each word of the program: none for a word that is not       *)
(* written, and a mark where the word before it is not.                    *)

\* The last member of W up to x, or 0.
IsLatest(W, x, l) == l \in 0 .. x /\ (l = 0 \/ l \in W) /\ \A p \in 1 .. x : p \in W => p <= l
Latest(W, x)      == CHOOSE l : IsLatest(W, x, l)

Chunk(img, off, W, p) ==
  IF p \notin W THEN <<>>
  ELSE (IF p - 1 \notin W THEN <<MarkAt(off + p - 1)>> ELSE <<>>) \o <<WordIn(img[p])>>
Chunks(img, off, W) == [p \in DOMAIN img |-> Chunk(img, off, W, p)]

\* The words that memh writes: the first of each element, or all but zeros.
WriteSet(es, explicit) ==
  IF explicit THEN {Sums(es)[i - 1] + 1 : i \in DOMAIN es}
  ELSE {p \in DOMAIN Flat(es) : Flat(es)[p] # Zero}

FileUpto(j, es, i) ==
  CASE j.fmt \in {"raw", "text"} -> Tokens(Upto(es, i))
    [] j.fmt = "obj"  -> <<[addr |-> 0, data |-> Upto(es, i)]>>
    [] j.fmt = "memh" -> Part(Chunks(Flat(es), j.offset, WriteSet(es, j.explicit)), Sums(es)[i])

Whole(j, es) == FileUpto(j, es, Len(es))

\* The writer's state then.
StateUpto(j, es, i, s) ==
  /\ j.fmt = "raw" => s.n = Sums(es)[i]
  /\ j.fmt = "memh" =>
       LET l == Latest(WriteSet(es, j.explicit), Sums(es)[i])
       IN  (s.first_done <=> l # 0) /\ (l # 0 => s.n = j.offset + l - 1)

\* What may be written: with explicit zeros no block is empty.
Writable(j, es) ==
  /\ es \in Source
  /\ j.fmt = "memh" /\ j.explicit => \A i \in DOMAIN es : es[i].size # 0

LEMMA LatestStep ==
  ASSUME NEW W, NEW x \in Nat, NEW l, IsLatest(W, x, l)
  PROVE  IsLatest(W, x + 1, IF x + 1 \in W THEN x + 1 ELSE l)
BY DEF IsLatest

LEMMA LatestExists ==
  ASSUME NEW W
  PROVE  \A x \in Nat : \E l : IsLatest(W, x, l)
<1> DEFINE T == {x \in Nat : \E l : IsLatest(W, x, l)}
<1> SUFFICES Nat \subseteq T
  OBVIOUS
<1>1. 0 \in T
  <2>1. IsLatest(W, 0, 0)
    BY DEF IsLatest
  <2>2. QED
    BY <2>1
<1>2. ASSUME NEW x \in Nat, x \in T PROVE x + 1 \in T
  <2>1. PICK l : IsLatest(W, x, l)
    BY <1>2
  <2>2. IsLatest(W, x + 1, IF x + 1 \in W THEN x + 1 ELSE l)
    BY <2>1, LatestStep
  <2>3. QED
    BY <2>2
<1>3. QED
  <2> HIDE DEF T
  <2>1. QED
    BY <1>1, <1>2, StepInduction

LEMMA LatestIs ==
  ASSUME NEW W, NEW x \in Nat
  PROVE  /\ IsLatest(W, x, Latest(W, x))
         /\ \A l : IsLatest(W, x, l) => l = Latest(W, x)
<1>1. \E l : IsLatest(W, x, l)
  BY LatestExists
<1>2. IsLatest(W, x, Latest(W, x))
  BY <1>1, Zenon DEF Latest
<1>3. ASSUME NEW l, NEW m, IsLatest(W, x, l), IsLatest(W, x, m) PROVE l = m
  <2>1. l \in 0 .. x /\ m \in 0 .. x
    BY <1>3 DEF IsLatest
  <2>2. l <= m
    <3>1. CASE l = 0
      BY <2>1, <3>1
    <3>2. CASE l # 0
      BY <1>3, <2>1, <3>2 DEF IsLatest
    <3>3. QED
      BY <3>1, <3>2
  <2>3. m <= l
    <3>1. CASE m = 0
      BY <2>1, <3>1
    <3>2. CASE m # 0
      BY <1>3, <2>1, <3>2 DEF IsLatest
    <3>3. QED
      BY <3>1, <3>2
  <2>4. QED
    BY <2>1, <2>2, <2>3
<1>4. QED
  BY <1>2, <1>3

\* From one word to the next.
LEMMA LatestNext ==
  ASSUME NEW W, NEW x \in Nat
  PROVE  Latest(W, x + 1) = IF x + 1 \in W THEN x + 1 ELSE Latest(W, x)
<1>1. IsLatest(W, x + 1, IF x + 1 \in W THEN x + 1 ELSE Latest(W, x))
  BY LatestIs, LatestStep
<1>2. x + 1 \in Nat
  OBVIOUS
<1>3. \A l : IsLatest(W, x + 1, l) => l = Latest(W, x + 1)
  BY <1>2, LatestIs
<1>4. QED
  BY <1>1, <1>3

\* Over words that are not written.
LEMMA LatestSame ==
  ASSUME NEW W, NEW x \in Nat, NEW y \in Nat, x <= y,
         \A p \in x + 1 .. y : p \notin W
  PROVE  Latest(W, y) = Latest(W, x)
<1> DEFINE l == Latest(W, x)
<1>1. IsLatest(W, x, l)
  BY LatestIs
<1> HIDE DEF l
<1>2. IsLatest(W, y, l)
  <2>1. l \in 0 .. y /\ (l = 0 \/ l \in W)
    BY <1>1 DEF IsLatest
  <2>2. ASSUME NEW p \in 1 .. y, p \in W PROVE p <= l
    <3>1. p \in 1 .. x
      BY <2>2
    <3>2. QED
      BY <1>1, <2>2, <3>1 DEF IsLatest
  <2>3. QED
    BY <2>1, <2>2 DEF IsLatest
<1>3. QED
  BY <1>2, LatestIs DEF l

-----------------------------------------------------------------------------

\* The pieces of a memh file.
LEMMA ChunksType ==
  ASSUME NEW img \in Seq(Insn), NEW off \in Nat, NEW W
  PROVE  /\ Chunks(img, off, W) \in Seq(Seq(Item)) /\ Len(Chunks(img, off, W)) = Len(img)
         /\ \A p \in 1 .. Len(img) : Chunks(img, off, W)[p] = Chunk(img, off, W, p)
<1>1. Len(img) \in Nat /\ DOMAIN img = 1 .. Len(img)
  OBVIOUS
<1>2. ASSUME NEW p \in 1 .. Len(img) PROVE Chunk(img, off, W, p) \in Seq(Item)
  <2> DEFINE m == IF p - 1 \notin W THEN <<MarkAt(off + p - 1)>> ELSE <<>>
             w == <<WordIn(img[p])>>
  <2>1. off + p - 1 \in Nat /\ img[p] \in Insn
    BY <1>1
  <2>2. m \in Seq(Item)
    <3>1. MarkAt(off + p - 1) \in Item
      BY <2>1, MarkIsItem
    <3>2. QED
      BY <3>1
  <2>3. w \in Seq(Item)
    <3>1. WordIn(img[p]) \in Item
      BY <2>1, WordIsItem
    <3>2. QED
      BY <3>1
  <2>4. m \o w \in Seq(Item)
    <3> HIDE DEF m, w
    <3>1. QED
      BY <2>2, <2>3
  <2>5. <<>> \in Seq(Item)
    OBVIOUS
  <2>6. QED
    BY <2>4, <2>5 DEF Chunk
<1>3. Chunks(img, off, W) \in [1 .. Len(img) -> Seq(Item)]
  BY <1>1, <1>2 DEF Chunks
<1>4. QED
  BY <1>1, <1>3 DEF Chunks

MemhUpto(img, off, W, x) == Part(Chunks(img, off, W), x)

LEMMA MemhStep ==
  ASSUME NEW img \in Seq(Insn), NEW off \in Nat, NEW W
  PROVE  /\ MemhUpto(img, off, W, 0) = <<>>
         /\ \A x \in 0 .. Len(img) : MemhUpto(img, off, W, x) \in Seq(Item)
         /\ \A x \in 0 .. Len(img) - 1 :
              /\ x + 1 \in W => MemhUpto(img, off, W, x + 1) =
                   MemhUpto(img, off, W, x)
                     \o (IF x \notin W THEN <<MarkAt(off + x)>> ELSE <<>>)
                     \o <<WordIn(img[x + 1])>>
              /\ x + 1 \notin W => MemhUpto(img, off, W, x + 1) = MemhUpto(img, off, W, x)
<1> DEFINE ss == Chunks(img, off, W)
<1>1. ss \in Seq(Seq(Item)) /\ Len(ss) = Len(img) /\ Len(img) \in Nat
  BY ChunksType
<1> HIDE DEF ss
<1>2. \A x \in 0 .. Len(img) : Part(ss, x) \in Seq(Item)
  BY <1>1, PartType
<1>3. \A x \in 0 .. Len(img) - 1 : Part(ss, x + 1) = Part(ss, x) \o ss[x + 1]
  <2> SUFFICES ASSUME NEW x \in 0 .. Len(img) - 1
               PROVE  Part(ss, x + 1) = Part(ss, x) \o ss[x + 1]
    OBVIOUS
  <2>1. x + 1 \in 1 .. Len(ss) /\ (x + 1) - 1 = x
    BY <1>1
  <2>2. Part(ss, x + 1) = Part(ss, (x + 1) - 1) \o ss[x + 1]
    BY <1>1, <2>1, PartStep
  <2>3. QED
    BY <2>1, <2>2
<1>4. ASSUME NEW x \in 0 .. Len(img) - 1, x + 1 \in W
      PROVE  Part(ss, x + 1) = Part(ss, x) \o (IF x \notin W THEN <<MarkAt(off + x)>> ELSE <<>>)
                                 \o <<WordIn(img[x + 1])>>
  <2> DEFINE m == IF x \notin W THEN <<MarkAt(off + x)>> ELSE <<>>
             w == <<WordIn(img[x + 1])>>
             u == Part(ss, x)
  <2>1. x + 1 \in 1 .. Len(img) /\ (x + 1) - 1 = x /\ off + (x + 1) - 1 = off + x
    BY <1>1
  <2>2. ss[x + 1] = m \o w
    <3>1. ss[x + 1] = Chunk(img, off, W, x + 1)
      BY <2>1, ChunksType DEF ss
    <3>2. QED
      BY <1>4, <2>1, <3>1 DEF Chunk
  <2>3. u \in Seq(Item)
    BY <1>2
  <2>4. m \in Seq(Item) /\ w \in Seq(Item)
    <3>1. MarkAt(off + x) \in Item
      BY MarkIsItem
    <3>2. WordIn(img[x + 1]) \in Item
      <4>1. img[x + 1] \in Insn
        BY <2>1
      <4>2. QED
        BY <4>1, WordIsItem
    <3>3. QED
      BY <3>1, <3>2
  <2> HIDE DEF m, w, u
  <2>5. u \o (m \o w) = u \o m \o w
    BY <2>3, <2>4, SMTT(30)
  <2>6. Part(ss, x + 1) = u \o m \o w
    BY <1>3, <2>2, <2>5 DEF u
  <2>7. QED
    BY <2>6 DEF u, m, w
<1>5. ASSUME NEW x \in 0 .. Len(img) - 1, x + 1 \notin W
      PROVE  Part(ss, x + 1) = Part(ss, x)
  <2>1. x + 1 \in 1 .. Len(img) /\ x \in 0 .. Len(img)
    BY <1>1
  <2>2. ss[x + 1] = <<>>
    <3>1. ss[x + 1] = Chunk(img, off, W, x + 1)
      BY <2>1, ChunksType DEF ss
    <3>2. QED
      BY <1>5, <3>1 DEF Chunk
  <2>3. Part(ss, x) \in Seq(Item)
    BY <1>2, <2>1
  <2>4. Part(ss, x) \o <<>> = Part(ss, x)
    BY <2>3, ConcatEmptySeq
  <2>5. QED
    BY <1>3, <2>2, <2>4
<1>6. Part(ss, 0) = <<>>
  BY DEF Part
<1>7. QED
  BY <1>2, <1>4, <1>5, <1>6 DEF MemhUpto, ss

-----------------------------------------------------------------------------
(* Writing an element.                                                     *)

LEMMA TokensConcat ==
  ASSUME NEW s \in Seq(Insn), NEW t \in Seq(Insn)
  PROVE  Tokens(s \o t) = Tokens(s) \o Tokens(t)
<1> DEFINE c == s \o t
           m == Len(s)
           n == Len(t)
<1>1. m \in Nat /\ n \in Nat
  OBVIOUS
<1>2. /\ c \in Seq(Insn) /\ Len(c) = m + n
      /\ \A i \in 1 .. m + n : c[i] = IF i <= m THEN s[i] ELSE t[i - m]
  BY ConcatProperties
<1>3. /\ Tokens(c) \in Seq(Item) /\ Len(Tokens(c)) = m + n
      /\ \A i \in 1 .. m + n : Tokens(c)[i] = WordIn(c[i])
  <2> HIDE DEF c
  <2>1. QED
    BY <1>2, TokensType
<1> DEFINE u == Tokens(s)
           v == Tokens(t)
<1>4. /\ u \in Seq(Item) /\ Len(u) = m /\ \A i \in 1 .. m : u[i] = WordIn(s[i])
      /\ v \in Seq(Item) /\ Len(v) = n /\ \A i \in 1 .. n : v[i] = WordIn(t[i])
  BY TokensType
<1> HIDE DEF c, m, n, u, v
<1> DEFINE b == u \o v
<1>5. /\ b \in Seq(Item) /\ Len(b) = m + n
      /\ \A i \in 1 .. m + n : b[i] = IF i <= m THEN u[i] ELSE v[i - m]
  BY <1>4, ConcatProperties
<1> HIDE DEF b
<1>6. ASSUME NEW i \in 1 .. m + n PROVE Tokens(c)[i] = b[i]
  <2>1. CASE i <= m
    <3>1. i \in 1 .. m
      BY <1>1, <2>1
    <3>2. b[i] = u[i] /\ u[i] = WordIn(s[i])
      BY <1>4, <1>5, <2>1, <3>1
    <3>3. Tokens(c)[i] = WordIn(c[i]) /\ c[i] = s[i]
      BY <1>2, <1>3, <2>1
    <3>4. QED
      BY <3>2, <3>3
  <2>2. CASE ~(i <= m)
    <3>1. i - m \in 1 .. n
      BY <1>1, <2>2
    <3>2. b[i] = v[i - m] /\ v[i - m] = WordIn(t[i - m])
      BY <1>4, <1>5, <2>2, <3>1
    <3>3. Tokens(c)[i] = WordIn(c[i]) /\ c[i] = t[i - m]
      BY <1>2, <1>3, <2>2
    <3>4. QED
      BY <3>2, <3>3
  <2>3. QED
    BY <2>1, <2>2
<1>7. Tokens(c) = b
  BY <1>3, <1>5, <1>6, SeqEqual
<1>8. QED
  BY <1>7 DEF c, b, u, v

\* The element with index i + 1, with its address.
LEMMA PlacedNext ==
  ASSUME NEW es \in Source, NEW i \in 0 .. Len(es) - 1
  PROVE  /\ Placed(es)[i + 1].word = es[i + 1].word
         /\ Placed(es)[i + 1].size = es[i + 1].size
         /\ Placed(es)[i + 1].reladdr = Sums(es)[i]
         /\ Body(Placed(es)[i + 1]) = Body(es[i + 1])
         /\ i + 1 \in 1 .. Len(es) /\ i \in 0 .. Len(es) /\ i + 1 \in 0 .. Len(es)
         /\ Upto(es, i + 1) = Upto(es, i) \o Body(es[i + 1])
         /\ Sums(es)[i + 1] = Sums(es)[i] + es[i + 1].size
         /\ Sums(es)[i] \in Nat /\ Sums(es)[i + 1] \in Nat
<1>1. Len(es) \in Nat /\ es \in Elements /\ DOMAIN es = 1 .. Len(es)
  BY SourceElement
<1>2. i + 1 \in 1 .. Len(es) /\ (i + 1) - 1 = i /\ i \in 0 .. Len(es) /\ i + 1 \in 0 .. Len(es)
  BY <1>1
<1>3. Placed(es)[i + 1] = [word |-> es[i + 1].word, size |-> es[i + 1].size,
                           reladdr |-> Sums(es)[i]]
  <2>1. Placed(es)[i + 1] = [word |-> es[i + 1].word, size |-> es[i + 1].size,
                             reladdr |-> Sums(es)[(i + 1) - 1]]
    BY <1>1, <1>2, PlacedAt
  <2>2. QED
    BY <1>2, <2>1
<1>4. Upto(es, i + 1) = Upto(es, i) \o Body(es[i + 1])
  <2>1. Upto(es, i + 1) = Upto(es, (i + 1) - 1) \o Body(es[i + 1])
    BY <1>2, UptoStep
  <2>2. QED
    BY <1>2, <2>1
<1>5. Sums(es)[i + 1] = Sums(es)[i] + es[i + 1].size
  <2>1. Sums(es)[i + 1] = Sums(es)[(i + 1) - 1] + es[i + 1].size
    BY <1>1, <1>2, SumsStep
  <2>2. QED
    BY <1>2, <2>1
<1>6. Sums(es)[i] \in Nat /\ Sums(es)[i + 1] \in Nat
  BY <1>1, <1>2, SumsNat
<1>7. Body(Placed(es)[i + 1]) = Body(es[i + 1])
  BY <1>3 DEF Body
<1>8. QED
  BY <1>2, <1>3, <1>4, <1>5, <1>6, <1>7

\* More words in the file.
LEMMA TokensMore ==
  ASSUME NEW es \in Source, NEW i \in 0 .. Len(es) - 1
  PROVE  Tokens(Upto(es, i)) \o Tokens(Body(es[i + 1])) = Tokens(Upto(es, i + 1))
<1>1. Upto(es, i + 1) = Upto(es, i) \o Body(es[i + 1]) /\ i \in 0 .. Len(es)
  BY PlacedNext
<1>2. Upto(es, i) \in Seq(Insn) /\ Body(es[i + 1]) \in Seq(Insn)
  <2>1. es[i + 1] \in Element /\ (es[i + 1].size = 1 \/ es[i + 1].word = Zero)
    BY PlacedNext, SourceElement
  <2>2. QED
    BY <1>1, <2>1, UptoType, BodyWords
<1>3. QED
  BY <1>1, <1>2, TokensConcat

LEMMA RawOut ==
  ASSUME NEW es \in Source, NEW i \in 0 .. Len(es) - 1, st \in State,
         file = Tokens(Upto(es, i)), st.n = Sums(es)[i], raw_out(Placed(es)[i + 1])
  PROVE  file' = Tokens(Upto(es, i + 1)) /\ st'.n = Sums(es)[i + 1]
<1> DEFINE e == Placed(es)[i + 1]
           b == Body(es[i + 1])
<1>1. e.reladdr = st.n /\ Body(e) = b /\ st.n \in Nat
  BY PlacedNext
<1>2. b \in Seq(Insn) /\ Len(b) = es[i + 1].size
  <2>1. es[i + 1] \in Element /\ (es[i + 1].size = 1 \/ es[i + 1].word = Zero)
    BY PlacedNext, SourceElement
  <2>2. QED
    BY <2>1, BodyWords
<1>3. Zeros(e.reladdr - st.n) \o Body(e) = b
  <2>1. e.reladdr - st.n = 0
    BY <1>1
  <2>2. Zeros(0) = <<>>
    <3>1. Zeros(0) \in Seq(Insn) /\ Len(Zeros(0)) = 0
      BY ZerosSeq
    <3>2. QED
      BY <3>1
  <2>3. <<>> \o b = b
    BY <1>2, ConcatEmptySeq
  <2>4. QED
    BY <1>1, <2>1, <2>2, <2>3
<1>4. file' = file \o Tokens(b) /\ st' = [st EXCEPT !.n = @ + Len(b)]
  <2> HIDE DEF e, b
  <2>1. raw_out(e)
    BY DEF e
  <2>2. QED
    BY <1>3, <2>1 DEF raw_out
<1>5. file' = Tokens(Upto(es, i + 1))
  BY <1>4, TokensMore
<1>6. st'.n = Sums(es)[i + 1]
  <2>1. st'.n = st.n + Len(b)
    BY <1>4 DEF State
  <2>2. QED
    BY <1>2, <2>1, PlacedNext
<1>7. QED
  BY <1>5, <1>6

LEMMA TextOut ==
  ASSUME NEW es \in Source, NEW i \in 0 .. Len(es) - 1,
         file = Tokens(Upto(es, i)), text_out(Placed(es)[i + 1])
  PROVE  file' = Tokens(Upto(es, i + 1))
<1>1. Body(Placed(es)[i + 1]) = Body(es[i + 1])
  BY PlacedNext
<1>2. file' = file \o Tokens(Body(es[i + 1]))
  BY <1>1 DEF text_out
<1>3. QED
  BY <1>2, TokensMore

LEMMA RecordWith ==
  ASSUME NEW a, NEW d, NEW c
  PROVE  [[addr |-> a, data |-> d] EXCEPT !.data = c] = [addr |-> a, data |-> c]
OBVIOUS

LEMMA ObjOut ==
  ASSUME NEW es \in Source, NEW i \in 0 .. Len(es) - 1,
         file = <<[addr |-> 0, data |-> Upto(es, i)]>>, obj_out(Placed(es)[i + 1])
  PROVE  file' = <<[addr |-> 0, data |-> Upto(es, i + 1)]>>
<1> DEFINE b == Body(es[i + 1])
           u == Upto(es, i)
<1>1. Body(Placed(es)[i + 1]) = b /\ Upto(es, i + 1) = u \o b
  BY PlacedNext
<1>2. file' = [file EXCEPT ![1].data = @ \o b]
  BY <1>1 DEF obj_out
<1> HIDE DEF b, u
<1>3. file = <<[addr |-> 0, data |-> u]>>
  BY DEF u
<1> DEFINE r == [addr |-> 0, data |-> u]
           q == [addr |-> 0, data |-> u \o b]
<1>4. file' = <<q>>
  <2>1. [r EXCEPT !.data = u \o b] = q
    BY RecordWith, Zenon
  <2>2. file = <<r>> /\ file[1] = r /\ r.data = u
    BY <1>3
  <2> HIDE DEF r, q
  <2>3. file' = [file EXCEPT ![1] = q]
    BY <1>2, <2>1, <2>2
  <2>4. [<<r>> EXCEPT ![1] = q] = <<q>>
    <3> DEFINE t == [<<r>> EXCEPT ![1] = q]
    <3>1. <<r>> \in Seq({q, r}) /\ <<q>> \in Seq({q, r}) /\ 1 \in 1 .. Len(<<r>>)
      OBVIOUS
    <3>2. t \in Seq({q, r}) /\ Len(t) = 1 /\ t[1] = q
      BY <3>1, ExceptSeq
    <3> HIDE DEF t
    <3>3. \A k \in 1 .. 1 : t[k] = <<q>>[k]
      BY <3>2
    <3>4. Len(<<q>>) = 1
      OBVIOUS
    <3>5. t = <<q>>
      BY <3>1, <3>2, <3>3, <3>4, SeqEqual
    <3>6. QED
      BY <3>5 DEF t
  <2>5. QED
    BY <2>2, <2>3, <2>4
<1>5. QED
  BY <1>1, <1>4

LEMMA SumsMonotonic ==
  ASSUME NEW es \in Elements, NEW k \in Nat
  PROVE  \A d \in Nat : k + d <= Len(es) => Sums(es)[k] <= Sums(es)[k + d]
<1> DEFINE T == {d \in Nat : k + d <= Len(es) => Sums(es)[k] <= Sums(es)[k + d]}
<1> SUFFICES Nat \subseteq T
  OBVIOUS
<1>1. Len(es) \in Nat
  BY SumsNat
<1>2. 0 \in T
  <2>1. ASSUME k <= Len(es) PROVE Sums(es)[k] \in Nat
    BY <1>1, <2>1, SumsNat
  <2>2. k + 0 = k
    OBVIOUS
  <2>3. QED
    BY <2>1, <2>2
<1>3. ASSUME NEW d \in Nat, d \in T PROVE d + 1 \in T
  <2> SUFFICES ASSUME k + (d + 1) <= Len(es) PROVE Sums(es)[k] <= Sums(es)[k + (d + 1)]
    OBVIOUS
  <2> DEFINE m == k + d
  <2>1. m \in 0 .. Len(es) /\ m + 1 \in 1 .. Len(es) /\ (m + 1) - 1 = m /\ k + (d + 1) = m + 1
    BY <1>1
  <2>2. k \in 0 .. Len(es) /\ m <= Len(es)
    BY <1>1
  <2>3. Sums(es)[k] <= Sums(es)[m]
    BY <1>3, <2>2
  <2> HIDE DEF m
  <2>4. Sums(es)[m + 1] = Sums(es)[m] + es[m + 1].size
    <3>1. Sums(es)[m + 1] = Sums(es)[(m + 1) - 1] + es[m + 1].size
      BY <1>1, <2>1, SumsStep
    <3>2. QED
      BY <2>1, <3>1
  <2>5. es[m + 1].size \in Nat
    <3>1. es[m + 1] \in Element
      BY <2>1 DEF Elements
    <3>2. QED
      BY <3>1 DEF Element
  <2>6. Sums(es)[k] \in Nat /\ Sums(es)[m] \in Nat
    BY <2>1, <2>2, SumsNat
  <2>7. QED
    BY <2>1, <2>3, <2>4, <2>5, <2>6, SMTT(30)
<1>4. QED
  <2> HIDE DEF T
  <2>1. QED
    BY <1>2, <1>3, StepInduction

LEMMA SumsOrder ==
  ASSUME NEW es \in Elements, NEW k \in 0 .. Len(es), NEW m \in 0 .. Len(es), k <= m
  PROVE  Sums(es)[k] <= Sums(es)[m]
<1>1. k \in Nat /\ m - k \in Nat /\ k + (m - k) = m /\ m <= Len(es)
  BY SumsNat
<1>2. QED
  BY <1>1, SumsMonotonic

LEMMA FlatType ==
  ASSUME NEW es \in Source
  PROVE  /\ Flat(es) \in Seq(Insn) /\ Len(Flat(es)) = Sums(es)[Len(es)]
         /\ Len(Flat(es)) \in Nat /\ DOMAIN Flat(es) = 1 .. Len(Flat(es))
         /\ Len(es) \in 0 .. Len(es)
<1>1. Len(es) \in Nat /\ Len(es) \in 0 .. Len(es)
  BY SourceElement
<1>2. Flat(es) = Upto(es, Len(es))
  BY UptoStep
<1>3. Flat(es) \in Seq(Insn) /\ Len(Flat(es)) = Sums(es)[Len(es)]
  BY <1>1, <1>2, UptoType
<1>4. QED
  BY <1>1, <1>3

\* The words of an element in the program.
LEMMA FlatWords ==
  ASSUME NEW es \in Source, NEW i \in 0 .. Len(es) - 1
  PROVE  /\ Sums(es)[i + 1] <= Len(Flat(es))
         /\ \A p \in Sums(es)[i] + 1 .. Sums(es)[i + 1] :
              p \in DOMAIN Flat(es) /\ Flat(es)[p] = es[i + 1].word
<1> DEFINE x == Sums(es)[i]
           y == Sums(es)[i + 1]
           n == Len(Flat(es))
<1>1. /\ x \in Nat /\ y \in Nat /\ y = x + es[i + 1].size
      /\ i + 1 \in 1 .. Len(es) /\ i + 1 \in 0 .. Len(es)
  BY PlacedNext
<1>2. n = Sums(es)[Len(es)] /\ n \in Nat /\ DOMAIN Flat(es) = 1 .. n /\ Len(es) \in 0 .. Len(es)
  BY FlatType
<1>3. y <= n
  <2>1. es \in Elements /\ Len(es) \in Nat
    BY SourceElement
  <2>2. i + 1 <= Len(es)
    BY <1>1, <2>1
  <2>3. Sums(es)[i + 1] <= Sums(es)[Len(es)]
    BY <1>1, <1>2, <2>1, <2>2, SumsOrder
  <2>4. QED
    BY <1>2, <2>3
<1>4. es[i + 1].size \in Nat
  BY <1>1, SourceElement
<1>5. ASSUME NEW p \in x + 1 .. y PROVE p \in DOMAIN Flat(es) /\ Flat(es)[p] = es[i + 1].word
  <2> DEFINE j == p - x
  <2>1. j \in Nat /\ j \in 1 .. es[i + 1].size /\ x + j = p /\ p \in 1 .. n
    <3> DEFINE s == es[i + 1].size
    <3>1. x \in Nat /\ s \in Nat /\ n \in Nat /\ y = x + s /\ y <= n /\ p \in x + 1 .. y
      BY <1>1, <1>2, <1>3, <1>4
    <3> HIDE DEF x, y, n, s
    <3>2. j \in 1 .. s /\ x + j = p /\ p \in 1 .. n
      BY <3>1
    <3>3. QED
      BY <3>2 DEF s
  <2>2. (i + 1) - 1 = i
    BY <1>1
  <2> HIDE DEF j
  <2>3. Upto(es, Len(es))[Sums(es)[(i + 1) - 1] + j] = es[i + 1].word
    BY <1>1, <1>2, <2>1, UptoWords
  <2>4. QED
    BY <1>2, <2>1, <2>2, <2>3, UptoStep
<1>6. QED
  BY <1>3, <1>5

LEMMA WriteSetIn ==
  ASSUME NEW es \in Source, NEW explicit \in BOOLEAN,
         explicit => \A i \in DOMAIN es : es[i].size # 0
  PROVE  WriteSet(es, explicit) \subseteq 1 .. Len(Flat(es))
<1>1. CASE explicit
  <2> SUFFICES ASSUME NEW i \in DOMAIN es
               PROVE  Sums(es)[i - 1] + 1 \in 1 .. Len(Flat(es))
    BY <1>1 DEF WriteSet
  <2>1. i \in 1 .. Len(es) /\ i - 1 \in 0 .. Len(es) - 1 /\ (i - 1) + 1 = i
    BY SourceElement
  <2>2. es[i].size \in Nat \ {0}
    BY <1>1, <2>1, SourceElement
  <2> DEFINE x == Sums(es)[i - 1]
             y == Sums(es)[(i - 1) + 1]
             s == es[i].size
             n == Len(Flat(es))
  <2>3. x \in Nat /\ y \in Nat /\ y = x + s
    BY <2>1, PlacedNext
  <2>4. y <= n /\ n \in Nat
    BY <2>1, FlatWords, FlatType
  <2> HIDE DEF x, y, n, s
  <2>5. x + 1 \in 1 .. n
    <3>1. s \in Nat \ {0}
      BY <2>2 DEF s
    <3>2. QED
      BY <2>3, <2>4, <3>1
  <2>6. QED
    BY <2>5 DEF x, n
<1>2. CASE ~explicit
  BY <1>2, FlatType DEF WriteSet
<1>3. QED
  BY <1>1, <1>2

\* Which words of an element are written.
LEMMA WriteSetNext ==
  ASSUME NEW es \in Source, NEW explicit \in BOOLEAN,
         explicit => \A i \in DOMAIN es : es[i].size # 0,
         NEW i \in 0 .. Len(es) - 1
  PROVE  LET x == Sums(es)[i]
             y == Sums(es)[i + 1]
             w == es[i + 1].word
             W == WriteSet(es, explicit)
         IN  /\ explicit \/ w # Zero => /\ x + 1 \in W /\ x + 1 <= y
                                        /\ \A p \in x + 2 .. y : p \notin W
             /\ ~explicit /\ w = Zero => \A p \in x + 1 .. y : p \notin W
<1> DEFINE x == Sums(es)[i]
           y == Sums(es)[i + 1]
           w == es[i + 1].word
           s == es[i + 1].size
           W == WriteSet(es, explicit)
<1>1. /\ x \in Nat /\ y \in Nat /\ y = x + s /\ s \in Nat
      /\ i + 1 \in 1 .. Len(es) /\ i + 1 \in 0 .. Len(es) /\ i \in 0 .. Len(es)
      /\ s = 1 \/ w = Zero
  BY PlacedNext, SourceElement
<1>2. \A p \in x + 1 .. y : p \in DOMAIN Flat(es) /\ Flat(es)[p] = w
  BY FlatWords
<1>3. es \in Elements /\ Len(es) \in Nat /\ DOMAIN es = 1 .. Len(es)
  BY SourceElement
<1>4. CASE explicit
  <2>1. W = {Sums(es)[k - 1] + 1 : k \in DOMAIN es}
    BY <1>4 DEF WriteSet
  <2>2. s # 0
    BY <1>1, <1>3, <1>4
  <2>3. x + 1 \in W
    <3>1. i + 1 \in DOMAIN es /\ (i + 1) - 1 = i
      BY <1>1, <1>3
    <3>2. Sums(es)[(i + 1) - 1] + 1 \in W
      BY <2>1, <3>1
    <3>3. QED
      BY <3>1, <3>2
  <2>4. ASSUME NEW p \in x + 2 .. y, p \in W PROVE FALSE
    <3>1. PICK k \in DOMAIN es : p = Sums(es)[k - 1] + 1
      BY <2>1, <2>4
    <3>2. k - 1 \in 0 .. Len(es) /\ k \in 1 .. Len(es)
      BY <1>3
    <3> DEFINE z == Sums(es)[k - 1]
    <3>3. z \in Nat
      BY <1>3, <3>2, SumsNat
    <3>4. CASE k - 1 <= i
      <4>1. z <= x
        BY <1>1, <1>3, <3>2, <3>4, SumsOrder
      <4> HIDE DEF z, x, y
      <4>2. QED
        BY <1>1, <3>1, <3>3, <4>1 DEF z
    <3>5. CASE ~(k - 1 <= i)
      <4>1. i + 1 <= k - 1
        BY <1>1, <3>2, <3>5
      <4>2. y <= z
        BY <1>1, <1>3, <3>2, <4>1, SumsOrder
      <4> HIDE DEF z, x, y
      <4>3. QED
        BY <1>1, <3>1, <3>3, <4>2, SMTT(30) DEF z
    <3>6. QED
      BY <3>4, <3>5
  <2> HIDE DEF x, y, w, s, W
  <2>5. x + 1 <= y
    BY <1>1, <2>2
  <2>6. QED
    BY <1>4, <2>3, <2>4, <2>5 DEF x, y, w, W
<1>5. CASE ~explicit
  <2>1. W = {p \in DOMAIN Flat(es) : Flat(es)[p] # Zero}
    BY <1>5 DEF WriteSet
  <2> HIDE DEF x, y, w, s, W
  <2>2. CASE w = Zero
    <3>1. \A p \in x + 1 .. y : p \notin W
      BY <1>2, <2>1, <2>2
    <3>2. QED
      BY <1>5, <2>2, <3>1 DEF x, y, w, W
  <2>3. CASE w # Zero
    <3>1. y = x + 1
      BY <1>1, <2>3
    <3>2. x + 1 \in x + 1 .. y
      BY <1>1, <3>1
    <3>3. x + 1 \in W
      BY <1>2, <2>1, <2>3, <3>2
    <3>4. \A p \in x + 2 .. y : p \notin W
      BY <1>1, <3>1
    <3>5. QED
      BY <1>1, <2>3, <3>1, <3>3, <3>4 DEF x, y, w, W
  <2>4. QED
    BY <2>2, <2>3
<1>6. QED
  BY <1>4, <1>5

LEMMA MemhNext ==
  ASSUME NEW img \in Seq(Insn), NEW off \in Nat, NEW W, NEW x \in 0 .. Len(img) - 1, x + 1 \in W
  PROVE  MemhUpto(img, off, W, x + 1)
           = MemhUpto(img, off, W, x) \o (IF x \notin W THEN <<MarkAt(off + x)>> ELSE <<>>)
               \o <<WordIn(img[x + 1])>>
BY MemhStep

LEMMA MemhSame ==
  ASSUME NEW img \in Seq(Insn), NEW off \in Nat, NEW W, NEW x \in Nat, NEW y \in Nat,
         x <= y, y <= Len(img), \A p \in x + 1 .. y : p \notin W
  PROVE  MemhUpto(img, off, W, y) = MemhUpto(img, off, W, x)
<1> DEFINE f(n) == MemhUpto(img, off, W, n)
           T == {d \in Nat : x + d <= y => f(x + d) = f(x)}
<1>1. 0 \in T
  <2>1. x + 0 = x
    OBVIOUS
  <2>2. QED
    BY <2>1
<1>2. ASSUME NEW d \in Nat, d \in T PROVE d + 1 \in T
  <2> SUFFICES ASSUME x + (d + 1) <= y PROVE f(x + (d + 1)) = f(x)
    OBVIOUS
  <2>1. /\ x + d <= y /\ x + (d + 1) = (x + d) + 1 /\ (x + d) + 1 \in x + 1 .. y
        /\ x + d \in 0 .. Len(img) - 1
    OBVIOUS
  <2>2. f(x + d) = f(x)
    BY <1>2, <2>1
  <2>3. f((x + d) + 1) = f(x + d)
    BY <2>1, MemhStep, ZenonT(60)
  <2> HIDE DEF f
  <2>4. QED
    BY <2>1, <2>2, <2>3
<1>3. Nat \subseteq T
  <2> HIDE DEF T
  <2>1. QED
    BY <1>1, <1>2, StepInduction
<1>4. y - x \in Nat /\ x + (y - x) = y
  OBVIOUS
<1>5. y - x \in T
  BY <1>3, <1>4
<1>6. QED
  BY <1>4, <1>5

\* The state of the memh writer: the last word written.
MemhState(W, off, x, s) ==
  /\ s.first_done <=> Latest(W, x) # 0
  /\ Latest(W, x) # 0 => s.n = off + Latest(W, x) - 1

\* A mark is needed where the word before is not in the file.
LEMMA MarkedIs ==
  ASSUME st \in State, NEW W, NEW off \in Nat, NEW x \in Nat, 0 \notin W, MemhState(W, off, x, st)
  PROVE  Marked(x + off) <=> x \notin W
<1> DEFINE l == Latest(W, x)
<1>1. l \in 0 .. x /\ (l = 0 \/ l \in W) /\ \A p \in 1 .. x : p \in W => p <= l
  BY LatestIs DEF IsLatest
<1>2. (st.first_done <=> l # 0) /\ (l # 0 => st.n = off + l - 1)
  BY DEF MemhState
<1>3. Marked(x + off) <=> (~st.first_done \/ (x + off) - st.n > 1)
  BY DEF Marked
<1>4. x \in W => l = x
  <2> SUFFICES ASSUME x \in W PROVE l = x
    OBVIOUS
  <2>1. x # 0 /\ x \in 1 .. x
    OBVIOUS
  <2>2. x <= l
    BY <1>1, <2>1
  <2> HIDE DEF l
  <2>3. QED
    BY <1>1, <2>2
<1> HIDE DEF l
<1>5. CASE l = 0
  <2>1. x \notin W
    BY <1>4, <1>5
  <2>2. QED
    BY <1>2, <1>3, <1>5, <2>1
<1>6. CASE l # 0
  <2>1. Marked(x + off) <=> ((x + off) - st.n > 1)
    BY <1>2, <1>3, <1>6
  <2>2. st.n = off + l - 1
    BY <1>2, <1>6
  <2>3. ((x + off) - st.n > 1) <=> l # x
    <3>1. (x + off) - st.n = (x - l) + 1
      BY <1>1, <2>2
    <3>2. QED
      BY <1>1, <3>1
  <2>4. x \in W <=> l = x
    BY <1>1, <1>4, <1>6
  <2>5. QED
    BY <2>1, <2>3, <2>4
<1>7. QED
  BY <1>5, <1>6

LEMMA MemhOut ==
  ASSUME NEW es \in Source, NEW i \in 0 .. Len(es) - 1, job \in Jobs, st \in State,
         job.explicit => \A k \in DOMAIN es : es[k].size # 0,
         file = MemhUpto(Flat(es), job.offset, WriteSet(es, job.explicit), Sums(es)[i]),
         MemhState(WriteSet(es, job.explicit), job.offset, Sums(es)[i], st),
         memh_out(Placed(es)[i + 1])
  PROVE  /\ file' = MemhUpto(Flat(es), job.offset, WriteSet(es, job.explicit), Sums(es)[i + 1])
         /\ MemhState(WriteSet(es, job.explicit), job.offset, Sums(es)[i + 1], st')
<1> DEFINE x == Sums(es)[i]
           y == Sums(es)[i + 1]
           w == es[i + 1].word
           W == WriteSet(es, job.explicit)
           img == Flat(es)
           off == job.offset
           e == Placed(es)[i + 1]
<1>1. off \in Nat /\ job.explicit \in BOOLEAN
  BY JobType
<1>2. e.word = w /\ e.reladdr = x /\ x \in Nat /\ y \in Nat /\ y = x + es[i + 1].size
  BY PlacedNext
<1>3. es[i + 1].size \in Nat /\ w \in Insn
  BY PlacedNext, SourceElement
<1>4. x <= y /\ y <= Len(img) /\ img \in Seq(Insn) /\ Len(img) \in Nat
  <2>1. y <= Len(img) /\ img \in Seq(Insn) /\ Len(img) \in Nat
    BY FlatWords, FlatType
  <2>2. QED
    BY <1>2, <1>3, <2>1
<1>5. /\ job.explicit \/ w # Zero => /\ x + 1 \in W /\ x + 1 <= y
                                     /\ \A p \in x + 2 .. y : p \notin W
      /\ ~job.explicit /\ w = Zero => \A p \in x + 1 .. y : p \notin W
  BY <1>1, WriteSetNext
<1>6. 0 \notin W
  BY <1>1, WriteSetIn
<1>7. \A p \in x + 1 .. y : p \in 1 .. Len(img) /\ img[p] = w
  BY FlatWords, FlatType
<1>8. memh_out(e) /\ file = MemhUpto(img, off, W, x) /\ MemhState(W, off, x, st)
  OBVIOUS
<1> HIDE DEF x, y, w, W, img, e
<1>9. CASE w = Zero /\ ~job.explicit
  <2>1. UNCHANGED <<file, st>>
    BY <1>2, <1>8, <1>9 DEF memh_out
  <2>2. \A p \in x + 1 .. y : p \notin W
    BY <1>5, <1>9
  <2>3. MemhUpto(img, off, W, y) = MemhUpto(img, off, W, x)
    BY <1>1, <1>2, <1>4, <2>2, MemhSame
  <2>4. Latest(W, y) = Latest(W, x)
    BY <1>2, <1>4, <2>2, LatestSame
  <2>5. st' = st /\ file' = MemhUpto(img, off, W, y)
    BY <1>8, <2>1, <2>3
  <2>6. MemhState(W, off, y, st')
    BY <1>8, <2>4, <2>5 DEF MemhState
  <2>7. QED
    BY <2>5, <2>6 DEF x, y, W, img
<1>10. CASE ~(w = Zero /\ ~job.explicit)
  <2> DEFINE m == IF Marked(x + off) THEN <<MarkAt(x + off)>> ELSE <<>>
  <2>1. file' = file \o m \o <<WordIn(w)>>
        /\ st' = [st EXCEPT !.n = x + off, !.first_done = TRUE]
    BY <1>2, <1>8, <1>10, Zenon DEF memh_out
  <2>2. x + 1 \in W /\ x + 1 <= y /\ \A p \in x + 2 .. y : p \notin W
    BY <1>1, <1>5, <1>10
  <2>3. img[x + 1] = w /\ x \in 0 .. Len(img) - 1 /\ x + 1 \in Nat
    BY <1>2, <1>4, <1>7, <2>2
  <2>4. m = IF x \notin W THEN <<MarkAt(off + x)>> ELSE <<>>
    <3>1. Marked(x + off) <=> x \notin W
      BY <1>1, <1>2, <1>6, <1>8, MarkedIs
    <3>2. x + off = off + x
      BY <1>1, <1>2
    <3>3. QED
      BY <3>1, <3>2
  <2> HIDE DEF m
  <2>5. MemhUpto(img, off, W, x + 1) = MemhUpto(img, off, W, x) \o m \o <<WordIn(w)>>
    <3>1. MemhUpto(img, off, W, x + 1)
            = MemhUpto(img, off, W, x) \o (IF x \notin W THEN <<MarkAt(off + x)>> ELSE <<>>)
                \o <<WordIn(img[x + 1])>>
      BY <1>1, <1>4, <2>2, <2>3, MemhNext
    <3>2. QED
      BY <3>1, <2>3, <2>4, Zenon
  <2>6. \A p \in (x + 1) + 1 .. y : p \notin W
    BY <1>2, <2>2
  <2>7. MemhUpto(img, off, W, y) = MemhUpto(img, off, W, x + 1)
    BY <1>1, <1>2, <1>4, <2>2, <2>3, <2>6, MemhSame
  <2>8. Latest(W, y) = x + 1
    <3>1. Latest(W, x + 1) = x + 1
      BY <1>2, <2>2, LatestNext
    <3>2. Latest(W, y) = Latest(W, x + 1)
      BY <1>2, <2>2, <2>3, <2>6, LatestSame
    <3>3. QED
      BY <3>1, <3>2
  <2>9. st'.n = x + off /\ st'.first_done = TRUE
    BY <2>1 DEF State
  <2>10. MemhState(W, off, y, st')
    <3>1. x + 1 # 0 /\ off + (x + 1) - 1 = x + off
      BY <1>1, <1>2
    <3>2. QED
      BY <2>8, <2>9, <3>1 DEF MemhState
  <2>11. file' = MemhUpto(img, off, W, y)
    BY <1>8, <2>1, <2>5, <2>7
  <2>12. QED
    BY <2>10, <2>11 DEF x, y, W, img
<1>11. QED
  BY <1>9, <1>10

\* Each step of the writer adds the next element.
LEMMA OutStep ==
  ASSUME NEW es, job \in Jobs, st \in State, Writable(job, es), NEW i \in 0 .. Len(es) - 1,
         file = FileUpto(job, es, i), StateUpto(job, es, i, st),
         Out(Placed(es)[i + 1]), job' = job
  PROVE  file' = FileUpto(job, es, i + 1) /\ StateUpto(job, es, i + 1, st')
<1>1. es \in Source /\ job.fmt \in {"raw", "text", "memh", "obj"}
  BY JobType DEF Writable
<1>2. CASE job.fmt = "raw"
  <2>1. file = Tokens(Upto(es, i)) /\ st.n = Sums(es)[i] /\ raw_out(Placed(es)[i + 1])
    BY <1>2 DEF FileUpto, StateUpto, Out
  <2>2. file' = Tokens(Upto(es, i + 1)) /\ st'.n = Sums(es)[i + 1]
    BY <1>1, <2>1, RawOut
  <2>3. QED
    BY <1>2, <2>2 DEF FileUpto, StateUpto
<1>3. CASE job.fmt = "text"
  <2>1. file = Tokens(Upto(es, i)) /\ text_out(Placed(es)[i + 1])
    BY <1>3 DEF FileUpto, Out
  <2>2. file' = Tokens(Upto(es, i + 1))
    BY <1>1, <2>1, TextOut
  <2>3. QED
    BY <1>3, <2>2 DEF FileUpto, StateUpto
<1>4. CASE job.fmt = "obj"
  <2>1. file = <<[addr |-> 0, data |-> Upto(es, i)]>> /\ obj_out(Placed(es)[i + 1])
    BY <1>4 DEF FileUpto, Out
  <2>2. file' = <<[addr |-> 0, data |-> Upto(es, i + 1)]>>
    BY <1>1, <2>1, ObjOut
  <2>3. QED
    BY <1>4, <2>2 DEF FileUpto, StateUpto
<1>5. CASE job.fmt = "memh"
  <2> DEFINE W == WriteSet(es, job.explicit)
  <2>1. /\ file = MemhUpto(Flat(es), job.offset, W, Sums(es)[i])
        /\ MemhState(W, job.offset, Sums(es)[i], st)
        /\ memh_out(Placed(es)[i + 1])
    BY <1>5 DEF FileUpto, StateUpto, MemhState, Out, MemhUpto
  <2>2. job.explicit => \A k \in DOMAIN es : es[k].size # 0
    BY <1>5 DEF Writable
  <2>3. /\ file' = MemhUpto(Flat(es), job.offset, W, Sums(es)[i + 1])
        /\ MemhState(W, job.offset, Sums(es)[i + 1], st')
    BY <1>1, <2>1, <2>2, MemhOut
  <2>4. QED
    BY <1>5, <2>3 DEF FileUpto, StateUpto, MemhState, MemhUpto
<1>6. QED
  BY <1>1, <1>2, <1>3, <1>4, <1>5

-----------------------------------------------------------------------------
(* What is written: first the program, then its disassembly.               *)

Current == IF stage = "out" THEN job.elements ELSE Again(lines)

\* The elements after the i-th are left.
Ahead(es, i) ==
  /\ Len(todo) = Len(es) - i
  /\ \A k \in 1 .. Len(todo) : todo[k] = Placed(es)[i + k]

Stands(es, i) == Ahead(es, i) /\ file = FileUpto(job, es, i) /\ StateUpto(job, es, i, st)

\* The file is that of the elements written so far, and it is kept whole.
WriteInv ==
  job.given = <<>> =>
    /\ stage \in Writing => \E i \in 0 .. Len(Current) : Stands(Current, i)
    /\ stage = "out" => files = <<>> /\ lines = <<>> /\ elt = Undefined
    /\ stage \in {"in", "parse", "again", "loaded"} => files = <<Whole(job, job.elements)>>
    /\ stage = "done" => files = <<Whole(job, job.elements), Whole(job, Again(lines))>>

LEMMA CurrentWritable ==
  ASSUME TypeInv
  PROVE  Writable(job, job.elements) /\ Writable(job, Again(lines)) /\ Writable(job, Current)
<1>1. job \in Jobs /\ job.elements \in Source
  BY JobType DEF TypeInv
<1>2. Writable(job, job.elements)
  BY <1>1, BlocksAssumption DEF Writable
<1>3. Writable(job, Again(lines))
  <2>1. /\ Again(lines) \in Source /\ Len(Again(lines)) = Len(lines)
        /\ \A i \in 1 .. Len(lines) : Again(lines)[i].size = 1
    BY LinesParse DEF TypeInv
  <2>2. DOMAIN Again(lines) = 1 .. Len(Again(lines))
    BY <2>1, SourceElement
  <2> HIDE DEF Again
  <2>3. \A i \in DOMAIN Again(lines) : Again(lines)[i].size # 0
    BY <2>1, <2>2
  <2>4. QED
    BY <2>1, <2>3 DEF Writable
<1>4. QED
  BY <1>2, <1>3 DEF Current

\* Before the first element.
LEMMA Begins ==
  ASSUME NEW es, job \in Jobs, Writable(job, es), todo = Placed(es), st = init,
         file = IF job.fmt = "obj" THEN <<[addr |-> 0, data |-> <<>>]>> ELSE <<>>
  PROVE  0 \in 0 .. Len(es) /\ Stands(es, 0)
<1>1. es \in Source /\ es \in Elements /\ Len(es) \in Nat
  BY SourceElement DEF Writable
<1>2. Ahead(es, 0)
  <2>1. Len(todo) = Len(es) /\ Len(es) - 0 = Len(es)
    BY <1>1, PlacedType
  <2>2. \A k \in 1 .. Len(todo) : 0 + k = k
    BY <1>1, <2>1
  <2>3. QED
    BY <2>1, <2>2 DEF Ahead
<1>3. Upto(es, 0) = <<>> /\ Sums(es)[0] = 0
  BY <1>1, UptoStep, SumsStep
<1>4. job.fmt \in {"raw", "text", "memh", "obj"} /\ job.offset \in Nat
  BY JobType
<1> DEFINE W == WriteSet(es, job.explicit)
<1>5. file = FileUpto(job, es, 0)
  <2>1. Tokens(<<>>) = <<>>
    BY DEF Tokens
  <2>2. MemhUpto(Flat(es), job.offset, W, 0) = <<>>
    BY <1>1, <1>4, FlatType, MemhStep
  <2>3. CASE job.fmt \in {"raw", "text"}
    BY <1>3, <2>1, <2>3 DEF FileUpto
  <2>4. CASE job.fmt = "obj"
    BY <1>3, <2>4 DEF FileUpto
  <2>5. CASE job.fmt = "memh"
    BY <1>3, <2>2, <2>5 DEF FileUpto, MemhUpto
  <2>6. QED
    BY <1>4, <2>3, <2>4, <2>5
<1>6. StateUpto(job, es, 0, st)
  <2>1. job.fmt = "raw" => st.n = Sums(es)[0]
    BY <1>3 DEF init, gen_init
  <2>2. Latest(W, 0) = 0
    <3>1. IsLatest(W, 0, Latest(W, 0))
      BY LatestIs
    <3>2. QED
      BY <3>1 DEF IsLatest
  <2>3. job.fmt = "memh" => st.first_done = FALSE
    BY DEF init, memh_init
  <2>4. QED
    BY <1>3, <2>1, <2>2, <2>3 DEF StateUpto
<1>7. QED
  BY <1>1, <1>2, <1>5, <1>6 DEF Stands

LEMMA WriteInit ==
  ASSUME Init
  PROVE  WriteInv
<1> SUFFICES ASSUME job.given = <<>>
             PROVE  /\ stage = "out" /\ files = <<>> /\ lines = <<>> /\ elt = Undefined
                    /\ \E i \in 0 .. Len(Current) : Stands(Current, i)
  BY DEF WriteInv
<1>1. stage = "out" /\ Current = job.elements
  BY DEF Init, Current
<1>2. Writable(job, job.elements) /\ job \in Jobs
  BY TypeInit, CurrentWritable DEF TypeInv
<1>3. /\ todo = Placed(job.elements) /\ st = init
      /\ file = IF job.fmt = "obj" THEN <<[addr |-> 0, data |-> <<>>]>> ELSE <<>>
  BY DEF Init
<1>4. 0 \in 0 .. Len(job.elements) /\ Stands(job.elements, 0)
  BY <1>2, <1>3, Begins
<1>5. QED
  BY <1>1, <1>4 DEF Init

LEMMA WriteElementWrites ==
  ASSUME TypeInv, WriteInv, WriteElement, job.given = <<>>
  PROVE  (\E i \in 0 .. Len(Current) : Stands(Current, i))'
<1>1. /\ stage \in Writing /\ todo # <<>> /\ Out(Head(todo)) /\ todo' = Tail(todo)
      /\ job' = job
  BY DEF WriteElement, Writing
<1> DEFINE es == Current
<1>2. PICK i \in 0 .. Len(es) : Stands(es, i)
  BY <1>1 DEF WriteInv
<1>3. Writable(job, es) /\ es \in Source /\ Len(es) \in Nat /\ job \in Jobs /\ st \in State
  BY CurrentWritable, SourceElement DEF TypeInv, Writable
<1>4. todo \in Seq(PlacedElement) /\ Len(todo) \in Nat \ {0} /\ Head(todo) = todo[1]
      /\ Len(todo') = Len(todo) - 1 /\ \A k \in 1 .. Len(todo) - 1 : todo'[k] = todo[k + 1]
  <2>1. todo \in Seq(PlacedElement)
    BY DEF TypeInv
  <2>2. /\ Len(Tail(todo)) = Len(todo) - 1
        /\ \A k \in 1 .. Len(Tail(todo)) : Tail(todo)[k] = todo[k + 1]
    BY <1>1, <2>1, HeadTailProperties
  <2>3. Head(todo) = todo[1] /\ Len(todo) \in Nat \ {0}
    BY <1>1, <2>1, EmptySeq
  <2>4. QED
    BY <1>1, <2>1, <2>2, <2>3
<1>5. Len(todo) = Len(es) - i /\ \A k \in 1 .. Len(todo) : todo[k] = Placed(es)[i + k]
  BY <1>2 DEF Stands, Ahead
<1> HIDE DEF es
<1>6. i \in 0 .. Len(es) - 1 /\ i + 1 \in 0 .. Len(es)
  BY <1>3, <1>4, <1>5
<1>7. Head(todo) = Placed(es)[i + 1]
  BY <1>4, <1>5
<1>8. file' = FileUpto(job, es, i + 1) /\ StateUpto(job, es, i + 1, st')
  BY <1>1, <1>2, <1>3, <1>6, <1>7, OutStep DEF Stands
<1>9. /\ Len(todo') = Len(es) - (i + 1)
      /\ \A k \in 1 .. Len(todo') : todo'[k] = Placed(es)[(i + 1) + k]
  <2>1. Len(todo') = Len(es) - (i + 1)
    BY <1>3, <1>4, <1>5
  <2>2. ASSUME NEW k \in 1 .. Len(todo') PROVE todo'[k] = Placed(es)[(i + 1) + k]
    <3>1. k \in 1 .. Len(todo) - 1 /\ k + 1 \in 1 .. Len(todo) /\ i + (k + 1) = (i + 1) + k
      BY <1>4
    <3>2. todo'[k] = Placed(es)[i + (k + 1)]
      BY <1>4, <1>5, <3>1
    <3>3. QED
      BY <3>1, <3>2
  <2>3. QED
    BY <2>1, <2>2
<1>10. stage' = stage /\ lines' = lines
  BY DEF WriteElement
<1>11. Current' = es
  BY <1>1, <1>10 DEF es, Current
<1>12. Ahead(es, i + 1)' 
  BY <1>9, <1>11 DEF Ahead, es
<1>13. QED
  BY <1>1, <1>6, <1>8, <1>11, <1>12 DEF Stands, es

\* The first element is to be written.
Beginning ==
  /\ TypeInv /\ todo = Placed(Current) /\ st = init
  /\ file = IF job.fmt = "obj" THEN <<[addr |-> 0, data |-> <<>>]>> ELSE <<>>

LEMMA BeginsCurrent == Beginning => \E i \in 0 .. Len(Current) : Stands(Current, i)
<1> SUFFICES ASSUME Beginning PROVE 0 \in 0 .. Len(Current) /\ Stands(Current, 0)
  OBVIOUS
<1>1. job \in Jobs /\ Writable(job, Current)
  BY CurrentWritable DEF TypeInv, Beginning
<1>2. QED
  BY <1>1, Begins DEF Beginning

LEMMA AppendPair ==
  ASSUME NEW a, NEW b
  PROVE  Append(<<a>>, b) = <<a, b>>
<1> DEFINE s == Append(<<a>>, b)
<1>1. <<a>> \in Seq({a, b}) /\ Len(<<a>>) = 1 /\ <<a>>[1] = a
  OBVIOUS
<1>2. /\ s \in Seq({a, b}) /\ Len(s) = 2
      /\ s[1] = a /\ s[2] = b
  BY <1>1, AppendProperties
<1>3. <<a, b>> \in Seq({a, b}) /\ Len(<<a, b>>) = 2 /\ <<a, b>>[1] = a /\ <<a, b>>[2] = b
  OBVIOUS
<1> HIDE DEF s
<1>4. \A k \in 1 .. 2 : s[k] = <<a, b>>[k]
  <2> SUFFICES ASSUME NEW k \in 1 .. 2 PROVE s[k] = <<a, b>>[k]
    OBVIOUS
  <2>1. k = 1 \/ k = 2
    OBVIOUS
  <2>2. QED
    BY <1>2, <1>3, <2>1
<1>5. s = <<a, b>>
  BY <1>2, <1>3, <1>4, SeqEqual
<1>6. QED
  BY <1>5 DEF s

LEMMA WriteElementInv ==
  ASSUME TypeInv, WriteInv, WriteElement
  PROVE  WriteInv'
<1> SUFFICES ASSUME job.given = <<>>
             PROVE  /\ stage \in Writing /\ stage' = stage
                    /\ (\E i \in 0 .. Len(Current) : Stands(Current, i))'
                    /\ UNCHANGED <<job, files, elt, lines>>
  BY DEF WriteInv, WriteElement, Writing
<1>1. (\E i \in 0 .. Len(Current) : Stands(Current, i))'
  BY WriteElementWrites
<1>2. QED
  BY <1>1 DEF WriteElement, Writing

LEMMA FinishInv ==
  ASSUME TypeInv, WriteInv, Finish
  PROVE  WriteInv'
<1> SUFFICES ASSUME job.given = <<>> PROVE WriteInv'
  BY DEF WriteInv, Finish
<1>1. /\ stage \in Writing /\ todo = <<>> /\ files' = Append(files, file)
      /\ stage' = (IF stage = "out" THEN "in" ELSE "done")
      /\ UNCHANGED <<job, todo, file, elt, lines>>
  BY DEF Finish, Writing
<1> DEFINE es == Current
<1>2. PICK i \in 0 .. Len(es) : Stands(es, i)
  BY <1>1 DEF WriteInv
<1>3. Len(es) \in Nat
  BY CurrentWritable, SourceElement DEF Writable
<1>4. i = Len(es)
  <2>1. Len(todo) = 0 /\ Len(todo) = Len(es) - i
    BY <1>1, <1>2 DEF Stands, Ahead
  <2> HIDE DEF es
  <2>2. QED
    BY <1>3, <2>1
<1>5. file = Whole(job, es)
  BY <1>2, <1>4 DEF Stands, Whole
<1>6. CASE stage = "out"
  <2>1. files = <<>> /\ es = job.elements
    BY <1>6 DEF WriteInv, Current
  <2>2. files' = <<Whole(job, job.elements)>>
    BY <1>1, <1>5, <2>1
  <2>3. stage' = "in"
    BY <1>1, <1>6
  <2>4. QED
    BY <1>1, <2>2, <2>3 DEF WriteInv, Writing, Whole, FileUpto
<1>7. CASE stage = "again"
  <2>1. files = <<Whole(job, job.elements)>> /\ es = Again(lines)
    BY <1>7 DEF WriteInv, Current
  <2> DEFINE a == Whole(job, job.elements)
             b == Whole(job, Again(lines))
  <2> HIDE DEF a, b
  <2>2. files' = <<a, b>>
    <3>1. files = <<a>> /\ file = b
      BY <1>5, <2>1 DEF a, b
    <3>2. QED
      BY <1>1, <3>1, AppendPair
  <2>3. stage' = "done"
    BY <1>1, <1>7
  <2>4. a' = a /\ b' = b
    <3> DEFINE c == Again(lines)
    <3>1. c' = c
      BY <1>1 DEF Again
    <3> HIDE DEF c
    <3>2. Whole(job, c)' = Whole(job, c)
      BY <1>1, <3>1 DEF Whole, FileUpto
    <3>3. Whole(job, job.elements)' = Whole(job, job.elements)
      BY <1>1 DEF Whole, FileUpto
    <3>4. QED
      BY <3>2, <3>3 DEF a, b, c
  <2>5. files' = <<a', b'>>
    BY <2>2, <2>4
  <2>6. QED
    BY <2>3, <2>5 DEF WriteInv, Writing, a, b
<1>8. QED
  BY <1>1, <1>6, <1>7 DEF Writing

LEMMA ReadingInv ==
  ASSUME TypeInv, WriteInv, do_disassembly \/ load_sim
  PROVE  WriteInv'
<1>1. /\ stage = "in" /\ stage' \in {"in", "parse", "loaded"} /\ UNCHANGED <<job, files>>
  BY DEF do_disassembly, load_sim
<1>2. job.given = <<>> => files' = <<Whole(job, job.elements)>>
  BY <1>1 DEF WriteInv
<1>3. Whole(job, job.elements)' = Whole(job, job.elements)
  BY <1>1 DEF Whole, FileUpto
<1> DEFINE a == Whole(job, job.elements)
<1>4. a' = a /\ (job.given = <<>> => files' = <<a>>)
  BY <1>2, <1>3
<1> HIDE DEF a
<1>5. job'.given = <<>> => files' = <<a'>>
  BY <1>1, <1>4
<1>6. stage' \notin Writing /\ stage' # "out" /\ stage' # "done"
  BY <1>1 DEF Writing
<1>7. QED
  BY <1>5, <1>6 DEF WriteInv, a

LEMMA ParseInv ==
  ASSUME TypeInv, WriteInv, Parse
  PROVE  WriteInv'
<1>1. /\ stage = "parse" /\ stage' = "again" /\ todo' = Placed(Again(lines))
      /\ file' = (IF job.fmt = "obj" THEN <<[addr |-> 0, data |-> <<>>]>> ELSE <<>>)
      /\ st' = init /\ UNCHANGED <<job, files, elt, lines, memory>>
  BY ParseStep
<1>2. TypeInv'
  BY ParseType
<1>3. Current' = Again(lines)'
  BY <1>1 DEF Current
<1>4. (\E i \in 0 .. Len(Current) : Stands(Current, i))'
  <2>2. todo' = Placed(Current)'
    <3> DEFINE c == Again(lines)
    <3>1. c' = c
      BY <1>1 DEF Again
    <3>2. todo' = Placed(c) /\ Current' = c'
      BY <1>1, <1>3
    <3> HIDE DEF c
    <3>3. QED
      BY <3>1, <3>2
  <2>5. st' = init'
        /\ file' = (IF job'.fmt = "obj" THEN <<[addr |-> 0, data |-> <<>>]>> ELSE <<>>)
    BY <1>1 DEF init, memh_init, gen_init
  <2>3. Beginning'
    BY <1>2, <2>2, <2>5 DEF Beginning
  <2>4. QED
    BY <2>3, BeginsCurrent, PTL
<1> DEFINE a == Whole(job, job.elements)
<1>5. a' = a
  BY <1>1 DEF Whole, FileUpto
<1>6. job.given = <<>> => files = <<a>>
  BY <1>1 DEF WriteInv
<1> HIDE DEF a
<1>7. job'.given = <<>> => files' = <<a'>>
  BY <1>1, <1>5, <1>6
<1>8. QED
  BY <1>1, <1>4, <1>7 DEF WriteInv, a

LEMMA WriteStep ==
  ASSUME TypeInv, WriteInv, [Next]_vars
  PROVE  WriteInv'
<1>1. CASE WriteElement
  BY <1>1, WriteElementInv
<1>2. CASE Finish
  BY <1>2, FinishInv
<1>3. CASE do_disassembly \/ load_sim
  BY <1>3, ReadingInv
<1>4. CASE Parse
  BY <1>4, ParseInv
<1>5. CASE UNCHANGED vars
  <2>1. UNCHANGED <<job, stage, todo, st, file, files, elt, lines>>
    BY <1>5 DEF vars
  <2>2. Current' = Current
    BY <2>1 DEF Current
  <2>3. \A i : Stands(Current, i)' <=> Stands(Current, i)
    BY <2>1, <2>2 DEF Stands, Ahead
  <2>4. QED
    BY <2>1, <2>2, <2>3 DEF WriteInv
<1>6. QED
  BY <1>1, <1>2, <1>3, <1>4, <1>5 DEF Next

LEMMA Writes == Spec => []WriteInv
<1>1. QED
  BY Typed, WriteInit, WriteStep, PTL DEF Spec

-----------------------------------------------------------------------------
(* What the items of a memh file stand for.                                *)

\* From address a up to b the program has zeros.
Blank(img, off, a, b) ==
  \A x \in a .. b - 1 : (x - off) + 1 \in DOMAIN img /\ img[(x - off) + 1] = Zero

\* An item leads from address a to b.
Reads(img, off, item, a, b) ==
  \/ item = MarkAt(b) /\ a <= b /\ Blank(img, off, a, b)
  \/ (a - off) + 1 \in DOMAIN img /\ item = WordIn(img[(a - off) + 1]) /\ b = a + 1

Denotes(img, off, f, from, to) ==
  \E at \in [0 .. Len(f) -> Nat] :
    /\ at[0] = from /\ at[Len(f)] = to
    /\ \A i \in 1 .. Len(f) : Reads(img, off, f[i], at[i - 1], at[i])

LEMMA DenotesNone ==
  ASSUME NEW img, NEW off, NEW a \in Nat
  PROVE  Denotes(img, off, <<>>, a, a)
<1> DEFINE at == [i \in 0 .. 0 |-> a]
<1>1. Len(<<>>) = 0 /\ 0 \in 0 .. 0
  OBVIOUS
<1>2. at \in [0 .. 0 -> Nat] /\ at[0] = a
  OBVIOUS
<1> HIDE DEF at
<1>3. 1 .. 0 = {}
  OBVIOUS
<1>4. QED
  BY <1>1, <1>2, <1>3, Zenon DEF Denotes

LEMMA DenotesEmpty ==
  ASSUME NEW img, NEW off, NEW a, NEW b, Denotes(img, off, <<>>, a, b)
  PROVE  a = b
BY DEF Denotes

LEMMA DenotesMore ==
  ASSUME NEW img, NEW off, NEW f \in Seq(Item), NEW item \in Item,
         NEW a, NEW b, NEW c \in Nat,
         Denotes(img, off, f, a, b), Reads(img, off, item, b, c)
  PROVE  Denotes(img, off, f \o <<item>>, a, c)
<1> DEFINE g == f \o <<item>>
           n == Len(f)
<1>1. n \in Nat
  OBVIOUS
<1>2. PICK at \in [0 .. n -> Nat] :
        /\ at[0] = a /\ at[n] = b
        /\ \A i \in 1 .. n : Reads(img, off, f[i], at[i - 1], at[i])
  BY DEF Denotes
<1>3. Len(g) = n + 1 /\ (\A i \in 1 .. n : g[i] = f[i]) /\ g[n + 1] = item
  <2>1. <<item>> \in Seq(Item) /\ Len(<<item>>) = 1 /\ <<item>>[1] = item
    OBVIOUS
  <2>2. /\ Len(g) = n + 1
        /\ \A i \in 1 .. n + 1 : g[i] = IF i <= n THEN f[i] ELSE <<item>>[i - n]
    BY <2>1, ConcatProperties
  <2> HIDE DEF g, n
  <2>3. n + 1 \in 1 .. n + 1 /\ ~(n + 1 <= n) /\ (n + 1) - n = 1
    BY <1>1
  <2>4. \A i \in 1 .. n : i \in 1 .. n + 1 /\ i <= n
    BY <1>1
  <2>5. QED
    BY <2>1, <2>2, <2>3, <2>4
<1> DEFINE to == [i \in 0 .. n + 1 |-> IF i = n + 1 THEN c ELSE at[i]]
<1> HIDE DEF g, n
<1>4. to \in [0 .. n + 1 -> Nat]
  BY <1>1, <1>2
<1>5. to[n + 1] = c /\ \A i \in 0 .. n : to[i] = at[i]
  BY <1>1, <1>2
<1> HIDE DEF to
<1>6. ASSUME NEW i \in 1 .. n + 1 PROVE Reads(img, off, g[i], to[i - 1], to[i])
  <2>1. CASE i = n + 1
    <3>1. i - 1 = n /\ n \in 0 .. n
      BY <1>1, <2>1
    <3>2. to[i - 1] = b /\ to[i] = c /\ g[i] = item
      BY <1>2, <1>3, <1>5, <2>1, <3>1
    <3>3. QED
      BY <3>2
  <2>2. CASE i # n + 1
    <3>1. i \in 1 .. n /\ i - 1 \in 0 .. n /\ i \in 0 .. n
      BY <1>1, <2>2
    <3>2. to[i - 1] = at[i - 1] /\ to[i] = at[i] /\ g[i] = f[i]
      BY <1>3, <1>5, <3>1
    <3>3. Reads(img, off, f[i], at[i - 1], at[i])
      BY <1>2, <3>1
    <3>4. QED
      BY <3>2, <3>3
  <2>3. QED
    BY <2>1, <2>2
<1>7. to[0] = a
  BY <1>1, <1>2, <1>5
<1>8. Denotes(img, off, g, a, c)
  BY <1>3, <1>4, <1>5, <1>6, <1>7 DEF Denotes
<1>9. QED
  BY <1>8 DEF g

LEMMA DenotesHead ==
  ASSUME NEW img, NEW off, NEW f \in Seq(Item), f # <<>>, NEW a, NEW c,
         Denotes(img, off, f, a, c)
  PROVE  a \in Nat /\ \E b \in Nat : /\ Reads(img, off, Head(f), a, b)
                                     /\ Denotes(img, off, Tail(f), b, c)
<1> DEFINE n == Len(f)
           g == Tail(f)
           h == Head(f)
<1>1. /\ h \in Item /\ g \in Seq(Item) /\ n \in Nat \ {0} /\ h = f[1] /\ Len(g) = n - 1
      /\ \A i \in 1 .. n - 1 : g[i] = f[i + 1]
  BY FileItem
<1>2. PICK at \in [0 .. n -> Nat] :
        /\ at[0] = a /\ at[n] = c
        /\ \A i \in 1 .. n : Reads(img, off, f[i], at[i - 1], at[i])
  BY DEF Denotes
<1> HIDE DEF n, g, h
<1> DEFINE on == [i \in 0 .. n - 1 |-> at[i + 1]]
           b == at[1]
<1>3. a \in Nat /\ b \in Nat
  BY <1>1, <1>2
<1>4. Reads(img, off, h, a, b)
  <2>1. 1 \in 1 .. n /\ 1 - 1 = 0
    BY <1>1
  <2>2. Reads(img, off, f[1], at[1 - 1], at[1])
    BY <1>2, <2>1
  <2>3. QED
    BY <1>1, <1>2, <2>1, <2>2
<1>5. on \in [0 .. n - 1 -> Nat]
  BY <1>1, <1>2
<1>6. \A i \in 0 .. n - 1 : on[i] = at[i + 1]
  OBVIOUS
<1> HIDE DEF on
<1>7. ASSUME NEW i \in 1 .. n - 1 PROVE Reads(img, off, g[i], on[i - 1], on[i])
  <2>1. i - 1 \in 0 .. n - 1 /\ i \in 0 .. n - 1 /\ (i - 1) + 1 = i
        /\ i + 1 \in 1 .. n /\ (i + 1) - 1 = i
    BY <1>1
  <2>2. Reads(img, off, f[i + 1], at[(i + 1) - 1], at[i + 1])
    BY <1>2, <2>1
  <2>3. g[i] = f[i + 1] /\ on[i - 1] = at[i] /\ on[i] = at[i + 1]
    BY <1>1, <1>6, <2>1
  <2>4. QED
    BY <2>1, <2>2, <2>3
<1>8. on[0] = b /\ on[n - 1] = c
  <2>1. 0 \in 0 .. n - 1 /\ 0 + 1 = 1 /\ n - 1 \in 0 .. n - 1 /\ (n - 1) + 1 = n
    BY <1>1
  <2>2. QED
    BY <1>2, <1>6, <2>1
<1>9. Denotes(img, off, g, b, c)
  <2> HIDE DEF b
  <2>1. QED
    BY <1>1, <1>5, <1>7, <1>8 DEF Denotes
<1>10. QED
  BY <1>3, <1>4, <1>9 DEF g, h

LEMMA DenotesMark ==
  ASSUME NEW img, NEW off \in Nat, NEW f \in Seq(Item), NEW a, NEW l \in Nat, NEW x \in Nat,
         Denotes(img, off, f, a, off + l), l <= x,
         \A p \in l + 1 .. x : p \in DOMAIN img /\ img[p] = Zero
  PROVE  Denotes(img, off, f \o <<MarkAt(off + x)>>, a, off + x)
<1>1. off + x \in Nat /\ off + l <= off + x
  OBVIOUS
<1>2. MarkAt(off + x) \in Item
  BY <1>1, MarkIsItem
<1>3. Blank(img, off, off + l, off + x)
  <2> SUFFICES ASSUME NEW y \in off + l .. off + x - 1
               PROVE  (y - off) + 1 \in DOMAIN img /\ img[(y - off) + 1] = Zero
    BY DEF Blank
  <2>1. (y - off) + 1 \in l + 1 .. x
    OBVIOUS
  <2>2. QED
    BY <2>1
<1>4. Reads(img, off, MarkAt(off + x), off + l, off + x)
  BY <1>1, <1>3 DEF Reads
<1>5. QED
  BY <1>1, <1>2, <1>4, DenotesMore

LEMMA DenotesWord ==
  ASSUME NEW img \in Seq(Insn), NEW off \in Nat, NEW f \in Seq(Item), NEW a, NEW x \in Nat,
         Denotes(img, off, f, a, off + x), x + 1 \in DOMAIN img
  PROVE  Denotes(img, off, f \o <<WordIn(img[x + 1])>>, a, off + (x + 1))
<1>1. off + (x + 1) \in Nat /\ off + (x + 1) = (off + x) + 1 /\ ((off + x) - off) + 1 = x + 1
  OBVIOUS
<1>2. WordIn(img[x + 1]) \in Item
  <2>1. img[x + 1] \in Insn
    OBVIOUS
  <2>2. QED
    BY <2>1, WordIsItem
<1>3. Reads(img, off, WordIn(img[x + 1]), off + x, off + (x + 1))
  BY <1>1 DEF Reads
<1>4. QED
  BY <1>1, <1>2, <1>3, DenotesMore

\* A memh file stands for the program up to the last word written.
LEMMA MemhDenotes ==
  ASSUME NEW img \in Seq(Insn), NEW off \in Nat, NEW W, 0 \notin W,
         \A p \in DOMAIN img : p \notin W => img[p] = Zero
  PROVE  \A x \in 0 .. Len(img) :
           Denotes(img, off, MemhUpto(img, off, W, x), off, off + Latest(W, x))
<1> DEFINE At(x) == Denotes(img, off, MemhUpto(img, off, W, x), off, off + Latest(W, x))
           T == {x \in Nat : x \in 0 .. Len(img) => At(x)}
<1>1. Len(img) \in Nat /\ DOMAIN img = 1 .. Len(img)
  OBVIOUS
<1>2. 0 \in T
  <2>1. MemhUpto(img, off, W, 0) = <<>>
    BY MemhStep
  <2>2. off + Latest(W, 0) = off
    <3>1. IsLatest(W, 0, Latest(W, 0))
      BY LatestIs
    <3>2. Latest(W, 0) = 0
      BY <3>1 DEF IsLatest
    <3>3. QED
      BY <3>2
  <2>3. At(0)
    BY <2>1, <2>2, DenotesNone
  <2>4. QED
    BY <2>3
<1>3. ASSUME NEW x \in Nat, x \in T PROVE x + 1 \in T
  <2> SUFFICES ASSUME x + 1 \in 0 .. Len(img) PROVE At(x + 1)
    OBVIOUS
  <2> DEFINE l == Latest(W, x)
             f == MemhUpto(img, off, W, x)
             m == IF x \notin W THEN <<MarkAt(off + x)>> ELSE <<>>
  <2>1. x \in 0 .. Len(img) - 1 /\ x \in 0 .. Len(img) /\ x + 1 \in DOMAIN img
    BY <1>1
  <2>2. l \in 0 .. x /\ (l = 0 \/ l \in W) /\ \A p \in 1 .. x : p \in W => p <= l
    BY LatestIs DEF IsLatest
  <2>3. Denotes(img, off, f, off, off + l) /\ f \in Seq(Item)
    BY <1>3, <2>1, MemhStep
  <2>4. Latest(W, x + 1) = IF x + 1 \in W THEN x + 1 ELSE l
    BY LatestNext
  <2> HIDE DEF l, f
  <2>5. CASE x + 1 \notin W
    <3>1. MemhUpto(img, off, W, x + 1) = f
      BY <2>1, <2>5, MemhStep DEF f
    <3>2. QED
      BY <2>3, <2>4, <2>5, <3>1
  <2>6. CASE x + 1 \in W
    <3>1. MemhUpto(img, off, W, x + 1) = f \o m \o <<WordIn(img[x + 1])>>
      BY <2>1, <2>6, MemhStep DEF f
    <3>2. Denotes(img, off, f \o m, off, off + x) /\ f \o m \in Seq(Item)
      <4>1. CASE x \in W
        <5>1. l = x
          <6>1. x # 0 /\ x \in 1 .. x
            BY <4>1
          <6>2. QED
            BY <2>2, <4>1, <6>1
        <5>2. m = <<>> /\ f \o <<>> = f
          BY <2>3, <4>1, ConcatEmptySeq
        <5>3. QED
          BY <2>3, <5>1, <5>2
      <4>2. CASE x \notin W
        <5>1. \A p \in l + 1 .. x : p \in DOMAIN img /\ img[p] = Zero
          <6> SUFFICES ASSUME NEW p \in l + 1 .. x PROVE p \in DOMAIN img /\ img[p] = Zero
            OBVIOUS
          <6>1. p \in 1 .. x /\ ~(p <= l) /\ p \in DOMAIN img
            BY <1>1, <2>1, <2>2
          <6>2. p \notin W
            BY <2>2, <6>1
          <6>3. QED
            BY <6>1, <6>2
        <5>2. l \in Nat /\ l <= x
          BY <2>2
        <5>3. m = <<MarkAt(off + x)>>
          BY <4>2
        <5>4. Denotes(img, off, f \o <<MarkAt(off + x)>>, off, off + x)
          BY <2>3, <5>1, <5>2, DenotesMark
        <5>5. f \o <<MarkAt(off + x)>> \in Seq(Item)
          <6>1. MarkAt(off + x) \in Item
            BY MarkIsItem
          <6>2. <<MarkAt(off + x)>> \in Seq(Item)
            BY <6>1
          <6>3. QED
            BY <2>3, <6>2, ConcatProperties
        <5>6. QED
          BY <5>3, <5>4, <5>5
      <4>3. QED
        BY <4>1, <4>2
    <3> HIDE DEF m
    <3>3. Denotes(img, off, (f \o m) \o <<WordIn(img[x + 1])>>, off, off + (x + 1))
      BY <2>1, <3>2, DenotesWord
    <3>4. QED
      BY <2>4, <2>6, <3>1, <3>3
  <2>7. QED
    BY <2>5, <2>6
<1>4. Nat \subseteq T
  <2> HIDE DEF T
  <2>1. QED
    BY <1>2, <1>3, StepInduction
<1>5. QED
  BY <1>1, <1>4

-----------------------------------------------------------------------------
(* What is read.                                                           *)

\* As many words as are read of the program's file.
Size(j) == LET n == Len(Flat(j.elements))
           IN  IF j.fmt = "memh" THEN Latest(WriteSet(j.elements, j.explicit), n) ELSE n

\* The rest of the file stands for the rest of the program.
Unread(j, f, s) ==
  LET img == Flat(j.elements) IN
  CASE j.fmt \in {"raw", "text"} ->
         /\ s.n <= Len(img) /\ Len(f) = Len(img) - s.n
         /\ \A k \in 1 .. Len(f) : f[k] = WordIn(img[s.n + k])
    [] j.fmt = "obj"  -> f = <<[addr |-> 0, data |-> img]>> /\ s.n <= Len(img)
    [] j.fmt = "memh" ->
         /\ j.offset <= s.n /\ s.n <= s.marked /\ Blank(img, j.offset, s.n, s.marked)
         /\ Denotes(img, j.offset, f, s.marked, j.offset + Size(j))

LEMMA ProgramType ==
  ASSUME NEW j \in Jobs
  PROVE  /\ Flat(j.elements) \in Seq(Insn) /\ Len(Flat(j.elements)) \in Nat
         /\ DOMAIN Flat(j.elements) = 1 .. Len(Flat(j.elements))
         /\ Size(j) \in 0 .. Len(Flat(j.elements))
         /\ j.fmt = "memh" =>
              LET W == WriteSet(j.elements, j.explicit)
              IN  /\ W \subseteq 1 .. Len(Flat(j.elements)) /\ 0 \notin W
                  /\ Size(j) = Latest(W, Len(Flat(j.elements)))
<1>1. j.elements \in Source /\ j.explicit \in BOOLEAN
  BY JobType
<1> DEFINE img == Flat(j.elements)
           W == WriteSet(j.elements, j.explicit)
           n == Len(img)
<1>2. img \in Seq(Insn) /\ n \in Nat /\ DOMAIN img = 1 .. n
  BY <1>1, FlatType
<1>3. j.fmt = "memh" => W \subseteq 1 .. n /\ 0 \notin W
  <2> SUFFICES ASSUME j.fmt = "memh" PROVE W \subseteq 1 .. n
    BY <1>2
  <2>1. j.explicit => \A i \in DOMAIN j.elements : j.elements[i].size # 0
    BY BlocksAssumption
  <2>2. QED
    BY <1>1, <2>1, WriteSetIn
<1>4. Size(j) = IF j.fmt = "memh" THEN Latest(W, n) ELSE n
  BY DEF Size
<1> HIDE DEF img, W, n
<1>5. Latest(W, n) \in 0 .. n
  BY <1>2, LatestIs DEF IsLatest
<1>6. Size(j) \in 0 .. n
  BY <1>2, <1>4, <1>5
<1>7. QED
  BY <1>2, <1>3, <1>4, <1>6 DEF img, W, n

\* What is not written is a zero.
LEMMA UnwrittenZero ==
  ASSUME NEW es \in Source, NEW explicit \in BOOLEAN, NEW p \in DOMAIN Flat(es),
         p \notin WriteSet(es, explicit)
  PROVE  Flat(es)[p] = Zero
<1>1. CASE ~explicit
  BY <1>1 DEF WriteSet
<1>2. CASE explicit
  <2>1. p \in 1 .. Sums(es)[Len(es)] /\ Len(es) \in 0 .. Len(es) /\ Len(es) \in Nat
    BY FlatType, SourceElement
  <2>2. PICK i \in 1 .. Len(es), j \in Nat : j \in 1 .. es[i].size /\ p = Sums(es)[i - 1] + j
    BY <2>1, UptoCovered
  <2>3. i \in DOMAIN es /\ (es[i].size = 1 \/ es[i].word = Zero)
    BY SourceElement
  <2>4. j # 1
    <3> SUFFICES ASSUME j = 1 PROVE FALSE
      OBVIOUS
    <3>1. p = Sums(es)[i - 1] + 1
      BY <2>2
    <3>2. p \in WriteSet(es, explicit)
      BY <1>2, <2>3, <3>1 DEF WriteSet
    <3>3. QED
      BY <3>2
  <2>5. es[i].word = Zero
    <3> DEFINE s == es[i].size
    <3>1. s \in Nat /\ j \in 1 .. s
      BY <2>2, SourceElement
    <3> HIDE DEF s
    <3>2. s # 1
      BY <2>4, <3>1
    <3>3. QED
      BY <2>3, <3>2 DEF s
  <2>6. Upto(es, Len(es))[Sums(es)[i - 1] + j] = es[i].word
    BY <2>1, <2>2, UptoWords
  <2>7. QED
    BY <2>2, <2>5, <2>6, UptoStep
<1>3. QED
  BY <1>1, <1>2

LEMMA BlankNone ==
  ASSUME NEW img, NEW off, NEW a \in Nat
  PROVE  Blank(img, off, a, a)
BY DEF Blank

\* Nothing of a file has been read.
LEMMA UnreadWhole ==
  ASSUME job \in Jobs
  PROVE  Unread(job, Whole(job, job.elements), init) /\ init.n = job.offset
<1> DEFINE es == job.elements
           img == Flat(es)
           W == WriteSet(es, job.explicit)
           f == Whole(job, es)
<1>1. /\ job.fmt \in {"raw", "text", "memh", "obj"} /\ job.offset \in Nat
      /\ job.explicit \in BOOLEAN /\ es \in Source /\ (job.offset = 0 \/ job.fmt = "memh")
  BY JobType
<1>2. /\ img \in Seq(Insn) /\ Len(img) \in Nat /\ DOMAIN img = 1 .. Len(img)
      /\ Size(job) \in 0 .. Len(img)
      /\ job.fmt = "memh" => 0 \notin W /\ Size(job) = Latest(W, Len(img))
  BY ProgramType
<1>3. /\ init.n = job.offset /\ (job.fmt = "memh" => init.marked = job.offset)
  BY <1>1 DEF init, gen_init, memh_init
<1>4. Upto(es, Len(es)) = img /\ Sums(es)[Len(es)] = Len(img)
  BY <1>1, UptoStep, FlatType
<1>5. CASE job.fmt \in {"raw", "text"}
  <2>1. f = Tokens(img)
    BY <1>4, <1>5 DEF Whole, FileUpto
  <2>2. init.n = 0
    BY <1>1, <1>3, <1>5
  <2>3. Len(f) = Len(img) /\ \A k \in 1 .. Len(img) : f[k] = WordIn(img[k])
    BY <1>2, <2>1, TokensType
  <2> HIDE DEF f, img
  <2>4. /\ init.n <= Len(img) /\ Len(f) = Len(img) - init.n
        /\ \A k \in 1 .. Len(f) : f[k] = WordIn(img[init.n + k])
    BY <1>2, <2>2, <2>3
  <2>5. QED
    BY <1>3, <1>5, <2>4 DEF Unread, f, img
<1>6. CASE job.fmt = "obj"
  <2>1. f = <<[addr |-> 0, data |-> img]>>
    BY <1>4, <1>6 DEF Whole, FileUpto
  <2>2. init.n <= Len(img)
    BY <1>1, <1>2, <1>3, <1>6
  <2>3. QED
    BY <1>3, <1>6, <2>1, <2>2 DEF Unread
<1>7. CASE job.fmt = "memh"
  <2>1. f = MemhUpto(img, job.offset, W, Len(img))
    BY <1>4, <1>7 DEF Whole, FileUpto, MemhUpto
  <2>2. \A p \in DOMAIN img : p \notin W => img[p] = Zero
    BY <1>1, UnwrittenZero
  <2>3. Len(img) \in 0 .. Len(img)
    BY <1>2
  <2>4. Denotes(img, job.offset, f, job.offset, job.offset + Size(job))
    <3> HIDE DEF f, img, W
    <3>1. QED
      BY <1>1, <1>2, <1>7, <2>1, <2>2, <2>3, MemhDenotes
  <2>5. Blank(img, job.offset, job.offset, job.offset)
    BY <1>1, BlankNone
  <2>6. job.offset <= job.offset
    BY <1>1
  <2>7. QED
    BY <1>3, <1>7, <2>4, <2>5, <2>6 DEF Unread
<1>8. QED
  BY <1>1, <1>5, <1>6, <1>7

\* The word read, and the address it is for.
NextIs(r, img, off) ==
  /\ r.rc = 1 /\ (st.n - off) + 1 \in DOMAIN img
  /\ r.elt = [word |-> img[(st.n - off) + 1], reladdr |-> st.n]
  /\ r.st.n = st.n + 1 /\ Unread(job, r.file, r.st)

MarkIs(r)     == r.rc = 0 /\ r.elt = elt /\ r.st.n = st.n /\ Unread(job, r.file, r.st)
EndIs(r, off) == r.rc = -1 /\ r.elt = elt /\ r.st = st /\ st.n = off + Size(job)

LEMMA GenInReads ==
  ASSUME TypeInv, job.fmt \in {"raw", "text"}, Unread(job, file, st)
  PROVE  NextIs(gen_in, Flat(job.elements), 0) \/ EndIs(gen_in, 0)
<1> DEFINE img == Flat(job.elements)
           rest == Tail(file)
<1>1. st \in State /\ st.n \in Nat /\ file \in Seq(Item) /\ job \in Jobs
  BY StateFields DEF TypeInv, FileOf
<1>2. /\ img \in Seq(Insn) /\ Len(img) \in Nat /\ DOMAIN img = 1 .. Len(img)
      /\ Size(job) = Len(img)
  BY <1>1, ProgramType DEF Size
<1>3. /\ st.n <= Len(img) /\ Len(file) = Len(img) - st.n
      /\ \A k \in 1 .. Len(file) : file[k] = WordIn(img[st.n + k])
  BY DEF Unread
<1>4. CASE file = <<>>
  <2>1. gen_in = Ended
    BY <1>4 DEF gen_in
  <2>2. Len(file) = 0
    BY <1>4
  <2> HIDE DEF img
  <2>3. st.n = 0 + Size(job)
    BY <1>1, <1>2, <1>3, <2>2
  <2>4. QED
    BY <2>1, <2>3, GotFields DEF EndIs, Ended
<1>5. CASE file # <<>>
  <2>1. /\ Head(file) = file[1] /\ Len(file) \in Nat \ {0} /\ Len(rest) = Len(file) - 1
        /\ \A k \in 1 .. Len(file) - 1 : rest[k] = file[k + 1]
    BY <1>1, <1>5, FileItem
  <2> HIDE DEF img, rest
  <2>2. Head(file) = WordIn(img[st.n + 1]) /\ st.n + 1 \in DOMAIN img
    BY <1>1, <1>2, <1>3, <2>1, SMTT(30)
  <2>3. Head(file).t = "word" /\ Head(file).w = img[st.n + 1]
    BY <2>2 DEF WordIn
  <2> DEFINE e == [word |-> img[st.n + 1], reladdr |-> st.n]
             s == [st EXCEPT !.n = st.n + 1]
  <2>4. gen_in = Got(1, e, s, rest)
    BY <1>5, <2>3, Zenon DEF gen_in, rest
  <2>5. s.n = st.n + 1
    <3>1. st.n + 1 \in Nat
      BY <1>1
    <3>2. QED
      BY <1>1, <3>1, StateFields
  <2> HIDE DEF s
  <2>6. Unread(job, rest, s)
    <3>1. s.n <= Len(img) /\ Len(rest) = Len(img) - s.n
      BY <1>1, <1>2, <1>3, <2>1, <2>2, <2>5
    <3>2. ASSUME NEW k \in 1 .. Len(rest) PROVE rest[k] = WordIn(img[s.n + k])
      <4>1. k \in 1 .. Len(file) - 1 /\ k + 1 \in 1 .. Len(file)
        BY <2>1
      <4>3. st.n + (k + 1) = s.n + k
        BY <1>1, <2>5
      <4>2. rest[k] = file[k + 1] /\ file[k + 1] = WordIn(img[st.n + (k + 1)])
        BY <1>3, <2>1, <4>1
      <4>4. QED
        BY <4>2, <4>3
    <3>3. QED
      BY <3>1, <3>2 DEF Unread, img
  <2> HIDE DEF e
  <2>7. gen_in.rc = 1 /\ gen_in.elt = e /\ gen_in.st = s /\ gen_in.file = rest
    BY <2>4, GotFields
  <2>8. (st.n - 0) + 1 = st.n + 1
    BY <1>1
  <2>9. NextIs(gen_in, img, 0)
    <3>1. gen_in.elt = [word |-> img[(st.n - 0) + 1], reladdr |-> st.n]
      BY <2>7, <2>8 DEF e
    <3>2. (st.n - 0) + 1 \in DOMAIN img
      BY <2>2, <2>8
    <3>3. gen_in.st.n = st.n + 1 /\ Unread(job, gen_in.file, gen_in.st)
      BY <2>5, <2>6, <2>7
    <3>4. QED
      BY <2>7, <3>1, <3>2, <3>3 DEF NextIs
  <2>10. QED
    BY <2>9 DEF img
<1>6. QED
  BY <1>4, <1>5

LEMMA ObjInReads ==
  ASSUME TypeInv, job.fmt = "obj", Unread(job, file, st)
  PROVE  NextIs(obj_in, Flat(job.elements), 0) \/ EndIs(obj_in, 0)
<1> DEFINE img == Flat(job.elements)
           k == Skip(file, st.n)
           r == [addr |-> 0, data |-> img]
<1>1. /\ st \in State /\ st.n \in Nat /\ job \in Jobs
      /\ file \in Seq(Record) /\ file # <<>>
  BY StateFields DEF TypeInv, FileOf, Positioned
<1>2. /\ img \in Seq(Insn) /\ Len(img) \in Nat /\ DOMAIN img = 1 .. Len(img)
      /\ Size(job) = Len(img)
  BY <1>1, ProgramType DEF Size
<1>3. file = <<r>> /\ st.n <= Len(img)
  BY DEF Unread
<1> HIDE DEF img
<1>4. Len(file) = 1 /\ file[1] = r /\ file[1].data = img /\ file[1].addr = 0
  <2>1. r.data = img /\ r.addr = 0
    OBVIOUS
  <2> HIDE DEF r
  <2>2. QED
    BY <1>3, <2>1
<1> HIDE DEF r
<1>5. /\ k \in 0 .. 1
      /\ \A i \in 1 .. k : Len(file[i].data) <= (IF i = 1 THEN st.n ELSE 0)
      /\ k # 1 => (IF k = 0 THEN st.n ELSE 0) < Len(file[k + 1].data)
  BY <1>1, <1>4, Skipped
<1>6. CASE k = 1
  <2>1. obj_in = Ended
    BY <1>4, <1>6 DEF obj_in
  <2>2. 1 \in 1 .. k
    BY <1>6
  <2>3. Len(img) <= st.n
    <3>1. Len(file[1].data) <= st.n
      BY <1>5, <2>2
    <3>2. QED
      BY <1>4, <3>1
  <2> HIDE DEF k
  <2>4. st.n = 0 + Size(job)
    BY <1>1, <1>2, <1>3, <2>3
  <2>5. QED
    BY <2>1, <2>4, GotFields DEF EndIs, Ended
<1>7. CASE k = 0
  <2> DEFINE e == [word |-> img[st.n + 1], reladdr |-> 0 + st.n]
             s == [st EXCEPT !.n = st.n + 1]
             rest == SubSeq(file, 1, Len(file))
  <2>1. obj_in = Got(1, e, s, rest)
    <3>1. k # Len(file) /\ k + 1 = 1
      BY <1>4, <1>7
    <3> HIDE DEF k
    <3>2. obj_in = Got(1, [word |-> file[1].data[st.n + 1], reladdr |-> file[1].addr + st.n],
                       [st EXCEPT !.n = st.n + 1], SubSeq(file, 1, Len(file)))
      BY <1>7, <3>1 DEF obj_in, k
    <3>3. QED
      BY <1>4, <3>2
  <2>2. rest = file
    <3>1. 0 \in 0 .. Len(file) - 1 /\ 0 + 1 = 1 /\ Len(file) - 0 = 1
      BY <1>4
    <3> DEFINE t == SubSeq(file, 0 + 1, Len(file))
    <3>2. t \in Seq(Record) /\ Len(t) = 1 /\ t[1] = file[1]
      <4>1. t \in Seq(Record) /\ Len(t) = Len(file) - 0 /\ t[1] = file[0 + 1]
        BY <1>1, <3>1, Rest
      <4>2. QED
        BY <3>1, <4>1
    <3>3. t = rest
      BY <3>1
    <3> HIDE DEF t, rest
    <3>4. \A i \in 1 .. 1 : t[i] = file[i]
      BY <3>2
    <3>5. t = file
      BY <1>1, <1>4, <3>2, <3>4, SeqEqual
    <3>6. QED
      BY <3>3, <3>5
  <2>3. st.n < Len(img)
    <3>1. k + 1 = 1 /\ k # 1
      BY <1>7
    <3> HIDE DEF k
    <3>2. st.n < Len(file[1].data)
      BY <1>5, <1>7, <3>1
    <3>3. QED
      BY <1>4, <3>2
  <2>4. s.n = st.n + 1
    <3>1. st.n + 1 \in Nat
      BY <1>1
    <3>2. QED
      BY <1>1, <3>1, StateFields
  <2> HIDE DEF s, e, rest, k
  <2>5. obj_in.rc = 1 /\ obj_in.elt = e /\ obj_in.st = s /\ obj_in.file = rest
    BY <2>1, GotFields
  <2>6. Unread(job, file, s)
    <3>1. s.n <= Len(img)
      BY <1>1, <1>2, <2>3, <2>4
    <3>2. QED
      BY <1>3, <3>1 DEF Unread, img, r
  <2>7. /\ (st.n - 0) + 1 \in DOMAIN img /\ (st.n - 0) + 1 = st.n + 1 /\ 0 + st.n = st.n
    BY <1>1, <1>2, <2>3
  <2>8. NextIs(obj_in, img, 0)
    <3>1. obj_in.elt = [word |-> img[(st.n - 0) + 1], reladdr |-> st.n]
      BY <2>5, <2>7 DEF e
    <3>2. obj_in.st.n = st.n + 1 /\ Unread(job, obj_in.file, obj_in.st)
      BY <2>2, <2>4, <2>5, <2>6
    <3>3. QED
      BY <2>5, <2>7, <3>1, <3>2 DEF NextIs
  <2>9. QED
    BY <2>8 DEF img
<1>8. QED
  <2> HIDE DEF k
  <2>1. QED
    BY <1>5, <1>6, <1>7

LEMMA MemhInReads ==
  ASSUME TypeInv, job.fmt = "memh", Unread(job, file, st)
  PROVE  \/ NextIs(memh_in, Flat(job.elements), job.offset)
         \/ MarkIs(memh_in)
         \/ EndIs(memh_in, job.offset)
<1> DEFINE img == Flat(job.elements)
           off == job.offset
           rest == Tail(file)
           on == [st EXCEPT !.n = st.n + 1]
           z == off + Size(job)
<1>1. /\ st \in State /\ st.n \in Nat /\ st.marked \in Nat /\ file \in Seq(Item)
      /\ job \in Jobs /\ off \in Nat
  BY StateFields, JobType DEF TypeInv, FileOf
<1>2. /\ img \in Seq(Insn) /\ Len(img) \in Nat /\ DOMAIN img = 1 .. Len(img)
  BY <1>1, ProgramType
<1>3. /\ off <= st.n /\ st.n <= st.marked /\ Blank(img, off, st.n, st.marked)
      /\ Denotes(img, off, file, st.marked, z)
  BY DEF Unread
<1>4. \A f, s : /\ off <= s.n /\ s.n <= s.marked /\ Blank(img, off, s.n, s.marked)
                /\ Denotes(img, off, f, s.marked, z)
                => Unread(job, f, s)
  BY Zenon DEF Unread
<1>5. /\ st.n + 1 \in Nat /\ on \in State /\ on.n = st.n + 1 /\ on.marked = st.marked
      /\ on = [st EXCEPT !.n = @ + 1]
  <2>1. st.n + 1 \in Nat
    BY <1>1
  <2>2. QED
    BY <1>1, <2>1, StateFields, ZenonT(60)
<1> HIDE DEF img, on, z
<1>6. CASE st.marked > st.n
  <2> DEFINE e == [word |-> Zero, reladdr |-> st.n]
  <2>1. memh_in = Got(1, e, on, file)
    BY <1>5, <1>6 DEF memh_in
  <2>2. (st.n - off) + 1 \in DOMAIN img /\ img[(st.n - off) + 1] = Zero
    <3>1. st.n \in st.n .. st.marked - 1
      BY <1>1, <1>6
    <3>2. QED
      BY <1>3, <3>1 DEF Blank
  <2>3. Unread(job, file, on)
    <3>1. off <= on.n /\ on.n <= on.marked
      BY <1>1, <1>3, <1>5, <1>6
    <3>2. Blank(img, off, on.n, on.marked)
      <4>1. \A x \in st.n + 1 .. st.marked - 1 : x \in st.n .. st.marked - 1
        BY <1>1
      <4>2. Blank(img, off, st.n + 1, st.marked)
        BY <1>3, <4>1 DEF Blank
      <4>3. QED
        BY <1>5, <4>2
    <3>3. Denotes(img, off, file, on.marked, z)
      BY <1>3, <1>5
    <3>4. QED
      BY <1>4, <3>1, <3>2, <3>3
  <2> HIDE DEF e
  <2>4. memh_in.rc = 1 /\ memh_in.elt = e /\ memh_in.st = on /\ memh_in.file = file
    BY <2>1, GotFields
  <2>5. NextIs(memh_in, img, off)
    BY <1>5, <2>2, <2>3, <2>4 DEF NextIs, e
  <2>6. QED
    BY <2>5 DEF img
<1>7. CASE st.marked = st.n /\ file = <<>>
  <2>1. memh_in = Ended
    <3>1. ~(st.marked > st.n)
      BY <1>1, <1>7
    <3>2. QED
      BY <1>7, <3>1 DEF memh_in
  <2>2. st.n = z
    BY <1>3, <1>7, DenotesEmpty
  <2>3. QED
    BY <2>1, <2>2, GotFields DEF EndIs, Ended, z
<1>8. CASE st.marked = st.n /\ file # <<>>
  <2> DEFINE item == Head(file)
  <2>1. rest \in Seq(Item) /\ item \in Item
    BY <1>1, <1>8, FileItem
  <2>2. PICK b \in Nat : Reads(img, off, item, st.n, b) /\ Denotes(img, off, rest, b, z)
    BY <1>1, <1>3, <1>8, DenotesHead
  <2>3. ~(st.marked > st.n) /\ ~(st.marked < st.n)
    BY <1>1, <1>8
  <2>4. memh_in = CASE item.t = "at" -> Got(0, elt, [st EXCEPT !.marked = item.a], rest)
                    [] item.t = "word" ->
                         Got(1, [word |-> item.w, reladdr |-> st.n],
                             [on EXCEPT !.marked = st.n + 1], rest)
                    [] OTHER -> Ended
    BY <1>5, <1>8, <2>3, Zenon DEF memh_in
  <2> HIDE DEF item, rest
  <2>5. CASE item = MarkAt(b) /\ st.n <= b /\ Blank(img, off, st.n, b)
    <3> DEFINE s == [st EXCEPT !.marked = b]
    <3>1. memh_in = Got(0, elt, s, rest)
      <4>1. item.t = "at" /\ item.a = b
        BY <2>5 DEF MarkAt
      <4>2. QED
        BY <2>4, <4>1
    <3>2. s.n = st.n /\ s.marked = b
      BY <1>1, StateFields
    <3> HIDE DEF s
    <3>3. Unread(job, rest, s)
      BY <1>3, <1>4, <2>2, <2>5, <3>2
    <3>4. memh_in.rc = 0 /\ memh_in.elt = elt /\ memh_in.st = s /\ memh_in.file = rest
      BY <3>1, GotFields
    <3>5. QED
      BY <3>2, <3>3, <3>4 DEF MarkIs
  <2>6. CASE /\ (st.n - off) + 1 \in DOMAIN img /\ item = WordIn(img[(st.n - off) + 1])
             /\ b = st.n + 1
    <3> DEFINE s == [on EXCEPT !.marked = st.n + 1]
               e == [word |-> img[(st.n - off) + 1], reladdr |-> st.n]
    <3>1. memh_in = Got(1, e, s, rest)
      <4>1. item.t = "word" /\ item.w = img[(st.n - off) + 1]
        BY <2>6 DEF WordIn
      <4>2. item.t # "at"
        BY <4>1
      <4>3. QED
        BY <2>4, <4>1, <4>2
    <3>2. s.n = st.n + 1 /\ s.marked = st.n + 1
      BY <1>5, StateFields
    <3> HIDE DEF s, e
    <3>3. Unread(job, rest, s)
      <4>1. off <= s.n /\ s.n <= s.marked
        BY <1>1, <1>3, <3>2
      <4>2. Blank(img, off, s.n, s.marked)
        BY <1>5, <3>2, BlankNone
      <4>3. Denotes(img, off, rest, s.marked, z)
        BY <2>2, <2>6, <3>2
      <4>4. QED
        BY <1>4, <4>1, <4>2, <4>3
    <3>4. memh_in.rc = 1 /\ memh_in.elt = e /\ memh_in.st = s /\ memh_in.file = rest
      BY <3>1, GotFields
    <3>5. NextIs(memh_in, img, off)
      BY <2>6, <3>2, <3>3, <3>4 DEF NextIs, e
    <3>6. QED
      BY <3>5 DEF img
  <2>7. QED
    BY <2>2, <2>5, <2>6 DEF Reads
<1>9. QED
  BY <1>1, <1>3, <1>6, <1>7, <1>8

\* A read gives the next word of the program, or there is none.
LEMMA InReads ==
  ASSUME TypeInv, Unread(job, file, st)
  PROVE  \/ NextIs(In, Flat(job.elements), job.offset)
         \/ MarkIs(In)
         \/ EndIs(In, job.offset)
<1>1. job.fmt \in {"raw", "text", "memh", "obj"} /\ (job.offset = 0 \/ job.fmt = "memh")
  BY JobType DEF TypeInv
<1>2. CASE job.fmt \in {"raw", "text"}
  <2>1. In = gen_in /\ job.offset = 0
    BY <1>1, <1>2 DEF In
  <2>2. QED
    BY <1>2, <2>1, GenInReads
<1>3. CASE job.fmt = "memh"
  <2>1. In = memh_in
    BY <1>3 DEF In
  <2>2. QED
    BY <1>3, <2>1, MemhInReads
<1>4. CASE job.fmt = "obj"
  <2>1. In = obj_in /\ job.offset = 0
    BY <1>1, <1>4 DEF In
  <2>2. QED
    BY <1>4, <2>1, ObjInReads
<1>5. QED
  BY <1>1, <1>2, <1>3, <1>4

\* The first n words of the program have been disassembled or loaded, and the
\* element is the last one of them.
Read(j, ls, mem, e, n) ==
  LET img == Flat(j.elements) IN
  /\ n \in 0 .. Len(img)
  /\ ~j.load => Len(ls) = n /\ \A k \in 1 .. n : make_insn_general(ls[k]) = img[k]
  /\ j.load => /\ \A k \in 1 .. n : LET a == (j.offset + k) - 1
                                    IN  a \in DOMAIN mem /\ mem[a] = img[k]
               /\ e = Undefined => n = 0
               /\ e # Undefined =>
                    n # 0 /\ e = [word |-> img[n], reladdr |-> (j.offset + n) - 1]

ReadInv ==
  job.given = <<>> =>
    /\ stage = "in" => /\ Unread(job, file, st)
                       /\ Read(job, lines, memory, elt, st.n - job.offset)
    /\ stage \in {"parse", "again", "done", "loaded"} =>
         Read(job, lines, memory, elt, Size(job))

LEMMA FinishRead ==
  ASSUME TypeInv, WriteInv, WriteInv', ReadInv, Finish, job.given = <<>>
  PROVE  ReadInv'
<1>1. /\ stage \in Writing /\ files' = Append(files, file) /\ st' = init
      /\ stage' = (IF stage = "out" THEN "in" ELSE "done")
      /\ UNCHANGED <<job, file, elt, lines, memory>>
  BY DEF Finish, Writing
<1>2. job \in Jobs
  BY DEF TypeInv
<1>3. CASE stage = "out"
  <2>1. stage' = "in" /\ files = <<>> /\ lines = <<>> /\ elt = Undefined
    BY <1>1, <1>3 DEF WriteInv
  <2> DEFINE w == Whole(job, job.elements)
  <2>2. file = w
    <3>1. files' = <<w'>>
      BY <1>1, <2>1 DEF WriteInv
    <3>2. w' = w
      BY <1>1 DEF Whole, FileUpto
    <3> HIDE DEF w
    <3>3. files' = <<file>>
      BY <1>1, <2>1
    <3>4. QED
      BY <3>1, <3>2, <3>3
  <2>3. Unread(job, file, init) /\ init.n = job.offset
    BY <1>2, <2>2, UnreadWhole
  <2> DEFINE i == init
  <2>4. st' = i /\ file' = file /\ job' = job
    BY <1>1
  <2>5. Unread(job, file, i) /\ i.n = job.offset
    BY <2>3
  <2> HIDE DEF i, w
  <2>6. Unread(job', file', st')
    BY <2>4, <2>5
  <2>7. st'.n - job'.offset = 0
    <3>1. job.offset \in Nat
      BY <1>2, JobType
    <3>2. QED
      BY <2>4, <2>5, <3>1
  <2>8. Read(job', lines', memory', elt', 0)
    <3>1. 0 \in 0 .. Len(Flat(job.elements))
      BY <1>2, ProgramType
    <3>2. Len(lines) = 0
      BY <2>1
    <3>3. Read(job, lines, memory, elt, 0)
      BY <2>1, <3>1, <3>2 DEF Read
    <3>4. QED
      BY <1>1, <3>3
  <2>9. QED
    BY <2>1, <2>6, <2>7, <2>8 DEF ReadInv
<1>4. CASE stage = "again"
  <2>1. stage' = "done" /\ Read(job, lines, memory, elt, Size(job))
    BY <1>1, <1>4 DEF ReadInv
  <2>2. Read(job', lines', memory', elt', Size(job'))
    BY <1>1, <2>1
  <2>3. QED
    BY <2>1, <2>2 DEF ReadInv
<1>5. QED
  BY <1>1, <1>3, <1>4 DEF Writing

LEMMA DisassemblyReads ==
  ASSUME TypeInv, ReadInv, do_disassembly, job.given = <<>>
  PROVE  ReadInv'
<1> DEFINE r == In
           img == Flat(job.elements)
           off == job.offset
           n == st.n - off
<1>1. /\ stage = "in" /\ ~job.load /\ UNCHANGED <<job, memory>>
      /\ elt' = r.elt /\ st' = r.st /\ file' = r.file
      /\ stage' = (IF r.rc < 0 THEN "parse" ELSE stage)
      /\ lines' = (IF r.rc > 0 THEN Append(lines, print_disassembly(r.elt.word, job.verbose))
                   ELSE lines)
  BY DEF do_disassembly, Take
<1>2. Unread(job, file, st) /\ Read(job, lines, memory, elt, n)
  BY <1>1 DEF ReadInv
<1>3. NextIs(r, img, off) \/ MarkIs(r) \/ EndIs(r, off)
  BY <1>2, InReads
<1>4. /\ job \in Jobs /\ off \in Nat /\ st.n \in Nat /\ lines \in Seq(Text)
      /\ job.verbose \in BOOLEAN
  BY JobType, StateFields DEF TypeInv
<1>5. img \in Seq(Insn) /\ Len(img) \in Nat /\ DOMAIN img = 1 .. Len(img)
  BY <1>4, ProgramType
<1>6. n \in 0 .. Len(img) /\ Len(lines) = n /\ \A k \in 1 .. n : make_insn_general(lines[k]) = img[k]
  BY <1>1, <1>2 DEF Read
<1>8. ASSUME NEW m, m = st'.n - off, stage' = "in",
             m \in 0 .. Len(img), Len(lines') = m,
             \A k \in 1 .. m : make_insn_general(lines'[k]) = img[k], Unread(job', file', st')
      PROVE  ReadInv'
  <2>1. st'.n - job'.offset = m
    BY <1>1, <1>8
  <2>2. Read(job', lines', memory', elt', m)
    BY <1>1, <1>8 DEF Read
  <2>3. QED
    BY <1>8, <2>1, <2>2 DEF ReadInv
<1> HIDE DEF r, img, off, n
<1>9. CASE NextIs(r, img, off)
  <2> DEFINE t == print_disassembly(r.elt.word, job.verbose)
  <2>1. /\ r.rc = 1 /\ n + 1 \in DOMAIN img /\ r.elt.word = img[n + 1]
        /\ r.st.n = st.n + 1 /\ Unread(job, r.file, r.st)
    BY <1>9 DEF NextIs, n
  <2>2. r.rc > 0 /\ ~(r.rc < 0)
    BY <2>1
  <2>3. t \in Text /\ make_insn_general(t) = img[n + 1]
    <3>1. img[n + 1] \in Insn
      BY <1>5, <2>1
    <3>2. make_insn_general(print_disassembly(img[n + 1], job.verbose)) = img[n + 1]
      BY <1>4, <3>1, DisassemblyAssembles DEF RoundTrip
    <3>3. t = print_disassembly(img[n + 1], job.verbose)
      BY <2>1
    <3>4. QED
      BY <1>4, <3>1, <3>2, <3>3 DEF Text
  <2> HIDE DEF t
  <2>4. lines' = Append(lines, t) /\ stage' = "in"
    BY <1>1, <2>2 DEF t
  <2>5. Len(lines') = n + 1 /\ lines'[n + 1] = t /\ \A k \in 1 .. n : lines'[k] = lines[k]
    BY <1>4, <1>6, <2>3, <2>4, AppendProperties
  <2>6. ASSUME NEW k \in 1 .. n + 1 PROVE make_insn_general(lines'[k]) = img[k]
    <3>1. CASE k = n + 1
      BY <2>3, <2>5, <3>1
    <3>2. CASE k # n + 1
      <4>1. k \in 1 .. n
        BY <1>5, <1>6, <3>2
      <4>2. QED
        BY <1>6, <2>5, <4>1
    <3>3. QED
      BY <3>1, <3>2
  <2>7. n + 1 = st'.n - off /\ n + 1 \in 0 .. Len(img)
    BY <1>1, <1>4, <1>5, <1>6, <2>1 DEF n
  <2>8. Unread(job', file', st')
    BY <1>1, <2>1
  <2>9. QED
    BY <1>8, <2>4, <2>5, <2>6, <2>7, <2>8
<1>10. CASE MarkIs(r)
  <2>1. r.rc = 0 /\ r.st.n = st.n /\ Unread(job, r.file, r.st)
    BY <1>10 DEF MarkIs
  <2>2. lines' = lines /\ stage' = "in" /\ n = st'.n - off
    BY <1>1, <2>1 DEF n
  <2>3. Unread(job', file', st')
    BY <1>1, <2>1
  <2>4. QED
    BY <1>6, <1>8, <2>2, <2>3
<1>11. CASE EndIs(r, off)
  <2>1. r.rc = -1 /\ st.n = off + Size(job)
    BY <1>11 DEF EndIs
  <2>2. lines' = lines /\ stage' = "parse"
    BY <1>1, <2>1
  <2> DEFINE z == Size(job)
  <2>3. z = n
    <3>1. z \in Nat
      BY <1>4, <1>5, ProgramType
    <3> HIDE DEF z
    <3>2. QED
      BY <1>4, <2>1, <3>1 DEF n, z
  <2> HIDE DEF z
  <2>4. Read(job', lines', memory', elt', z)
    BY <1>1, <1>6, <2>2, <2>3 DEF Read, img
  <2>5. z = Size(job')
    BY <1>1 DEF z
  <2>6. QED
    BY <2>2, <2>4, <2>5 DEF ReadInv
<1>12. QED
  BY <1>3, <1>9, <1>10, <1>11

LEMMA LoadReads ==
  ASSUME TypeInv, ReadInv, load_sim, job.given = <<>>
  PROVE  ReadInv'
<1> DEFINE r == In
           img == Flat(job.elements)
           off == job.offset
           n == st.n - off
           at(k) == (off + k) - 1
<1>1. /\ stage = "in" /\ job.load /\ UNCHANGED <<job, lines>>
      /\ elt' = r.elt /\ st' = r.st /\ file' = r.file
      /\ stage' = (IF r.rc < 0 THEN "loaded" ELSE stage)
  BY DEF load_sim, Take
<1>2. PICK a \in IF r.elt = Undefined THEN Strays ELSE {r.elt.reladdr} :
        memory' = (IF r.rc < 0 THEN memory
                   ELSE [x \in DOMAIN memory \cup {a} |->
                           IF x = a THEN r.elt.word ELSE memory[x]])
  BY DEF load_sim
<1>3. Unread(job, file, st) /\ Read(job, lines, memory, elt, n)
  BY <1>1 DEF ReadInv
<1>4. NextIs(r, img, off) \/ MarkIs(r) \/ EndIs(r, off)
  BY <1>3, InReads
<1>5. job \in Jobs /\ off \in Nat /\ st.n \in Nat
  BY JobType, StateFields DEF TypeInv
<1>6. img \in Seq(Insn) /\ Len(img) \in Nat /\ DOMAIN img = 1 .. Len(img)
  BY <1>5, ProgramType
<1>7. /\ n \in 0 .. Len(img) /\ \A k \in 1 .. n : at(k) \in DOMAIN memory /\ memory[at(k)] = img[k]
      /\ elt = Undefined => n = 0
      /\ elt # Undefined => n # 0 /\ elt = [word |-> img[n], reladdr |-> (off + n) - 1]
  BY <1>1, <1>3 DEF Read
<1>8. ASSUME NEW m, m = st'.n - off, stage' = "in", m \in 0 .. Len(img),
             \A k \in 1 .. m : at(k) \in DOMAIN memory' /\ memory'[at(k)] = img[k],
             elt' = Undefined => m = 0,
             elt' # Undefined => m # 0 /\ elt' = [word |-> img[m], reladdr |-> (off + m) - 1],
             Unread(job', file', st')
      PROVE  ReadInv'
  <2>1. st'.n - job'.offset = m
    BY <1>1, <1>8
  <2>2. Read(job', lines', memory', elt', m)
    BY <1>1, <1>8 DEF Read
  <2>3. QED
    BY <1>8, <2>1, <2>2 DEF ReadInv
<1> HIDE DEF r, img, off, n
<1>9. CASE NextIs(r, img, off)
  <2>1. /\ r.rc = 1 /\ n + 1 \in DOMAIN img
        /\ r.elt = [word |-> img[n + 1], reladdr |-> st.n]
        /\ r.st.n = st.n + 1 /\ Unread(job, r.file, r.st)
    BY <1>9 DEF NextIs, n
  <2>2. r.elt.word = img[n + 1] /\ r.elt.reladdr = st.n /\ r.elt # Undefined
    <3>1. r.elt.word = img[n + 1] /\ r.elt.reladdr = st.n
      BY <2>1
    <3>2. Undefined.reladdr = -1
      BY DEF Undefined
    <3>3. QED
      BY <1>5, <3>1, <3>2
  <2>3. a = st.n /\ ~(r.rc < 0)
    BY <1>2, <2>1, <2>2
  <2>4. /\ DOMAIN memory' = DOMAIN memory \cup {st.n} /\ memory'[st.n] = img[n + 1]
        /\ \A x \in DOMAIN memory : x # st.n => memory'[x] = memory[x]
    BY <1>2, <2>2, <2>3
  <2>5. /\ at(n + 1) = st.n /\ n + 1 = st'.n - off /\ n + 1 \in 0 .. Len(img)
        /\ (off + (n + 1)) - 1 = st.n /\ n \in Nat
    <3>1. n = st.n - off /\ n + 1 \in 1 .. Len(img) /\ st'.n = st.n + 1
      BY <1>1, <1>6, <2>1 DEF n
    <3>2. QED
      BY <1>5, <1>6, <1>7, <3>1, SMTT(30)
  <2>6. ASSUME NEW k \in 1 .. n + 1 PROVE at(k) \in DOMAIN memory' /\ memory'[at(k)] = img[k]
    <3>1. CASE k = n + 1
      BY <2>4, <2>5, <3>1
    <3>2. CASE k # n + 1
      <4>1. k \in 1 .. n /\ at(k) # st.n
        <5>1. n = st.n - off
          BY DEF n
        <5>2. n \in Nat /\ k \in Nat /\ k <= n /\ k \in 1 .. n
          BY <2>5, <3>2
        <5>3. (off + k) - 1 # st.n
          BY <1>5, <5>1, <5>2
        <5>4. QED
          BY <5>2, <5>3
      <4>2. at(k) \in DOMAIN memory /\ memory[at(k)] = img[k]
        BY <1>7, <4>1
      <4> HIDE DEF at
      <4>3. QED
        BY <2>4, <4>1, <4>2
    <3>3. QED
      BY <3>1, <3>2
  <2>7. n + 1 # 0 /\ elt' = [word |-> img[n + 1], reladdr |-> (off + (n + 1)) - 1]
    BY <1>1, <2>1, <2>5
  <2>8. stage' = "in" /\ Unread(job', file', st')
    BY <1>1, <2>1, <2>3
  <2>9. elt' # Undefined
    BY <1>1, <2>2
  <2>10. QED
    BY <1>8, <2>5, <2>6, <2>7, <2>8, <2>9
<1>10. CASE MarkIs(r)
  <2>1. r.rc = 0 /\ r.st.n = st.n /\ Unread(job, r.file, r.st) /\ r.elt = elt
    BY <1>10 DEF MarkIs
  <2>2. /\ stage' = "in" /\ n = st'.n - off /\ elt' = elt /\ Unread(job', file', st')
        /\ ~(r.rc < 0)
    BY <1>1, <2>1 DEF n
  <2>3. ASSUME NEW k \in 1 .. n PROVE at(k) \in DOMAIN memory' /\ memory'[at(k)] = img[k]
    <3>1. n # 0 /\ elt # Undefined
      BY <1>7
    <3>2. elt = [word |-> img[n], reladdr |-> (off + n) - 1]
      BY <1>7, <3>1
    <3>3. a = at(n) /\ r.elt.word = img[n]
      <4>1. elt.word = img[n] /\ elt.reladdr = (off + n) - 1
        BY <3>2
      <4>2. QED
        BY <1>2, <2>1, <3>1, <4>1
    <3>4. /\ DOMAIN memory' = DOMAIN memory \cup {at(n)} /\ memory'[at(n)] = img[n]
          /\ \A x \in DOMAIN memory : x # at(n) => memory'[x] = memory[x]
      BY <1>2, <2>2, <3>3
    <3>5. at(k) \in DOMAIN memory /\ memory[at(k)] = img[k]
      BY <1>7
    <3>6. at(k) = at(n) => k = n
      BY <1>5, <1>7
    <3> HIDE DEF at
    <3>7. QED
      BY <3>4, <3>5, <3>6
  <2>4. QED
    BY <1>7, <1>8, <2>2, <2>3
<1>11. CASE EndIs(r, off)
  <2>1. r.rc = -1 /\ st.n = off + Size(job) /\ r.elt = elt
    BY <1>11 DEF EndIs
  <2>2. lines' = lines /\ memory' = memory /\ elt' = elt /\ stage' = "loaded"
    BY <1>1, <1>2, <2>1
  <2> DEFINE z == Size(job)
  <2>3. z = n
    <3>1. z \in Nat
      BY <1>5, <1>6, ProgramType
    <3> HIDE DEF z
    <3>2. QED
      BY <1>5, <2>1, <3>1 DEF n, z
  <2> HIDE DEF z
  <2>4. Read(job', lines', memory', elt', z)
    BY <1>1, <1>3, <2>2, <2>3
  <2>5. z = Size(job')
    BY <1>1 DEF z
  <2>6. QED
    BY <2>2, <2>4, <2>5 DEF ReadInv
<1>12. QED
  BY <1>4, <1>9, <1>10, <1>11

LEMMA ReadStep ==
  ASSUME TypeInv, WriteInv, WriteInv', ReadInv, [Next]_vars
  PROVE  ReadInv'
<1>1. CASE WriteElement
  BY <1>1 DEF WriteElement, ReadInv
<1>2. CASE Finish
  <2>1. CASE job.given = <<>>
    BY <1>2, <2>1, FinishRead
  <2>2. CASE job.given # <<>>
    BY <1>2, <2>2 DEF Finish, ReadInv
  <2>3. QED
    BY <2>1, <2>2
<1>3. CASE do_disassembly
  <2>1. CASE job.given = <<>>
    BY <1>3, <2>1, DisassemblyReads
  <2>2. CASE job.given # <<>>
    BY <1>3, <2>2 DEF do_disassembly, ReadInv
  <2>3. QED
    BY <2>1, <2>2
<1>4. CASE load_sim
  <2>1. CASE job.given = <<>>
    BY <1>4, <2>1, LoadReads
  <2>2. CASE job.given # <<>>
    BY <1>4, <2>2 DEF load_sim, ReadInv
  <2>3. QED
    BY <2>1, <2>2
<1>5. CASE Parse
  <2>1. stage = "parse" /\ stage' = "again" /\ UNCHANGED <<job, elt, lines, memory>>
    BY <1>5, ParseStep
  <2>2. QED
    BY <2>1 DEF ReadInv
<1>6. CASE UNCHANGED vars
  BY <1>6 DEF vars, ReadInv
<1>7. QED
  BY <1>1, <1>2, <1>3, <1>4, <1>5, <1>6 DEF Next

LEMMA ReadInit ==
  ASSUME Init
  PROVE  ReadInv
BY DEF Init, ReadInv

LEMMA ReadsAll == Spec => []ReadInv
<1>1. QED
  BY Typed, Writes, ReadInit, ReadStep, PTL DEF Spec

-----------------------------------------------------------------------------
(* The file that is written the second time.                               *)

LEMMA ImageIs == Image = Flat(job.elements)
BY DEF Image, Flat, Bodies

\* A word that is written is the first of its element.
LEMMA FirstWritten ==
  ASSUME NEW es \in Source, NEW explicit \in BOOLEAN, NEW p \in DOMAIN Flat(es),
         p \in WriteSet(es, explicit)
  PROVE  \E k \in 1 .. Len(es) : /\ p = Sums(es)[k - 1] + 1
                                 /\ explicit \/ es[k].word # Zero
<1>1. DOMAIN es = 1 .. Len(es)
  BY SourceElement
<1>2. CASE explicit
  BY <1>1, <1>2 DEF WriteSet
<1>3. CASE ~explicit
  <2>1. Flat(es)[p] # Zero
    BY <1>3 DEF WriteSet
  <2>2. p \in 1 .. Sums(es)[Len(es)] /\ Len(es) \in 0 .. Len(es) /\ Len(es) \in Nat
    BY FlatType, SourceElement
  <2>3. PICK k \in 1 .. Len(es), j \in Nat : j \in 1 .. es[k].size /\ p = Sums(es)[k - 1] + j
    BY <2>2, UptoCovered
  <2>4. Upto(es, Len(es))[Sums(es)[k - 1] + j] = es[k].word
    BY <2>2, <2>3, UptoWords
  <2>5. es[k].word # Zero
    BY <2>1, <2>3, <2>4, UptoStep
  <2>6. es[k].size = 1
    BY <2>5, SourceElement
  <2>7. j = 1
    BY <2>3, <2>6
  <2>8. QED
    BY <2>3, <2>5, <2>7
<1>4. QED
  BY <1>2, <1>3

LEMMA KeptIs ==
  ASSUME job \in Jobs
  PROVE  Kept = 1 .. Size(job)
<1> DEFINE es == job.elements
           img == Flat(es)
           n == Len(img)
           W == WriteSet(es, job.explicit)
           pl == Placed(es)
           written == {e \in ToSet(pl) : job.explicit \/ e.word # Zero}
<1>1. /\ es \in Source /\ es \in Elements /\ job.explicit \in BOOLEAN
      /\ Len(es) \in Nat /\ DOMAIN es = 1 .. Len(es)
  BY JobType, SourceElement
<1>2. /\ n \in Nat /\ DOMAIN img = 1 .. n /\ Size(job) \in 0 .. n
      /\ job.fmt = "memh" => W \subseteq 1 .. n /\ Size(job) = Latest(W, n)
  BY ProgramType
<1>3. CASE job.fmt # "memh"
  <2>1. Kept = DOMAIN img
    BY <1>3, ImageIs DEF Kept
  <2>2. Size(job) = n
    BY <1>3 DEF Size
  <2>3. QED
    BY <1>2, <2>1, <2>2
<1>4. CASE job.fmt = "memh"
  <2>1. Kept = {i \in DOMAIN img : \E e \in written : i <= e.reladdr + 1}
    BY <1>4, ImageIs DEF Kept
  <2> DEFINE l == Latest(W, n)
  <2>2. /\ l \in 0 .. n /\ (l = 0 \/ l \in W) /\ \A p \in 1 .. n : p \in W => p <= l
        /\ Size(job) = l
    BY <1>2, <1>4, LatestIs DEF IsLatest
  <2>3. pl \in Seq(PlacedElement) /\ Len(pl) = Len(es)
    BY <1>1, PlacedType
  <2>4. \A k \in 1 .. Len(es) : pl[k].word = es[k].word /\ pl[k].reladdr = Sums(es)[k - 1]
    <3> SUFFICES ASSUME NEW k \in 1 .. Len(es)
                 PROVE  pl[k].word = es[k].word /\ pl[k].reladdr = Sums(es)[k - 1]
      OBVIOUS
    <3>1. k - 1 \in 0 .. Len(es) - 1 /\ (k - 1) + 1 = k
      BY <1>1
    <3>2. pl[(k - 1) + 1].word = es[(k - 1) + 1].word
          /\ pl[(k - 1) + 1].reladdr = Sums(es)[k - 1]
      BY <1>1, <3>1, PlacedNext
    <3>3. QED
      BY <3>1, <3>2
  <2>5. ASSUME NEW i \in DOMAIN img, NEW e \in written, i <= e.reladdr + 1 PROVE i \in 1 .. l
    <3>1. PICK k \in 1 .. Len(es) : e = pl[k]
      BY <1>1, <2>3 DEF ToSet
    <3>2. k - 1 \in 0 .. Len(es) - 1 /\ (k - 1) + 1 = k /\ k - 1 \in 0 .. Len(es)
      BY <1>1
    <3> DEFINE x == Sums(es)[k - 1]
    <3>3. (job.explicit \/ es[k].word # Zero) /\ e.reladdr = x
      BY <2>4, <3>1
    <3>4. job.explicit => \A q \in DOMAIN es : es[q].size # 0
      BY <1>4, BlocksAssumption
    <3>5. x + 1 \in W
      <4>1. job.explicit \/ es[(k - 1) + 1].word # Zero => x + 1 \in W
        BY <1>1, <3>2, <3>4, WriteSetNext
      <4>2. QED
        BY <3>2, <3>3, <4>1
    <3> HIDE DEF x, l, W
    <3>6. x + 1 \in 1 .. n /\ x + 1 <= l
      BY <1>2, <1>4, <2>2, <3>5
    <3>7. x \in Int
      <4>1. x \in Nat
        BY <1>1, <3>2, SumsNat DEF x
      <4>2. QED
        BY <4>1
    <3> HIDE DEF n
    <3>8. QED
      BY <1>2, <2>2, <2>5, <3>3, <3>6, <3>7
  <2>6. ASSUME NEW i \in 1 .. l PROVE i \in DOMAIN img /\ \E e \in written : i <= e.reladdr + 1
    <3> HIDE DEF l, n, W
    <3>1. l \in W /\ l \in 1 .. n /\ i \in 1 .. n
      BY <1>2, <2>2
    <3>2. PICK k \in 1 .. Len(es) : /\ l = Sums(es)[k - 1] + 1
                                    /\ job.explicit \/ es[k].word # Zero
      BY <1>1, <1>2, <3>1, FirstWritten DEF W
    <3>3. pl[k] \in written
      <4>1. pl[k] \in ToSet(pl)
        BY <1>1, <2>3 DEF ToSet
      <4>2. QED
        BY <2>4, <3>2, <4>1
    <3>4. i <= pl[k].reladdr + 1
      BY <2>4, <3>1, <3>2
    <3> HIDE DEF written, pl
    <3>5. QED
      BY <1>2, <3>1, <3>3, <3>4
  <2> HIDE DEF l, written, n, img
  <2>7. Kept = 1 .. l
    <3>1. \A i \in Kept : i \in 1 .. l
      BY <2>1, <2>5
    <3>2. \A i \in 1 .. l : i \in Kept
      BY <2>1, <2>6
    <3>3. QED
      BY <3>1, <3>2
  <2>8. QED
    BY <2>2, <2>7
<1>5. QED
  BY <1>3, <1>4

\* A program of single words.
LEMMA SingleWords ==
  ASSUME NEW es \in Source, \A i \in 1 .. Len(es) : es[i].size = 1
  PROVE  /\ \A i \in 0 .. Len(es) : Sums(es)[i] = i
         /\ Len(Flat(es)) = Len(es)
         /\ \A i \in 1 .. Len(es) : Flat(es)[i] = es[i].word
<1> DEFINE T == {i \in Nat : i \in 0 .. Len(es) => Sums(es)[i] = i}
<1>1. es \in Elements /\ Len(es) \in Nat
  BY SourceElement
<1>2. 0 \in T
  BY <1>1, SumsStep
<1>3. ASSUME NEW i \in Nat, i \in T PROVE i + 1 \in T
  <2> SUFFICES ASSUME i + 1 \in 0 .. Len(es) PROVE Sums(es)[i + 1] = i + 1
    OBVIOUS
  <2>1. i \in 0 .. Len(es) - 1 /\ i \in 0 .. Len(es) /\ i + 1 \in 1 .. Len(es)
    BY <1>1
  <2>2. Sums(es)[i + 1] = Sums(es)[i] + es[i + 1].size
    BY <2>1, PlacedNext
  <2>3. Sums(es)[i] = i
    BY <1>3, <2>1
  <2>4. QED
    BY <2>1, <2>2, <2>3
<1>4. Nat \subseteq T
  <2> HIDE DEF T
  <2>1. QED
    BY <1>2, <1>3, StepInduction
<1>5. \A i \in 0 .. Len(es) : Sums(es)[i] = i
  BY <1>1, <1>4
<1>6. Len(Flat(es)) = Len(es)
  BY <1>5, FlatType
<1>7. ASSUME NEW i \in 1 .. Len(es) PROVE Flat(es)[i] = es[i].word
  <2>1. i - 1 \in 0 .. Len(es) - 1 /\ (i - 1) + 1 = i /\ i - 1 \in 0 .. Len(es) /\ i \in 0 .. Len(es)
    BY <1>1
  <2>2. Sums(es)[i - 1] = i - 1 /\ Sums(es)[i] = i
    BY <1>5, <2>1
  <2>3. \A p \in Sums(es)[i - 1] + 1 .. Sums(es)[(i - 1) + 1] : Flat(es)[p] = es[(i - 1) + 1].word
    BY <2>1, FlatWords
  <2>4. i \in Sums(es)[i - 1] + 1 .. Sums(es)[(i - 1) + 1]
    BY <2>1, <2>2
  <2>5. QED
    BY <2>1, <2>3, <2>4
<1>8. QED
  BY <1>5, <1>6, <1>7

LEMMA MemhWord ==
  ASSUME NEW img \in Seq(Insn), NEW off \in Nat, NEW W, NEW x \in 0 .. Len(img) - 1, x + 1 \in W
  PROVE  MemhUpto(img, off, W, x + 1) =
           MemhUpto(img, off, W, x) \o (IF x \notin W THEN <<MarkAt(off + x)>> ELSE <<>>)
             \o <<WordIn(img[x + 1])>>
BY MemhStep

LEMMA MemhNone ==
  ASSUME NEW img \in Seq(Insn), NEW off \in Nat, NEW W, NEW x \in 0 .. Len(img) - 1,
         x + 1 \notin W
  PROVE  MemhUpto(img, off, W, x + 1) = MemhUpto(img, off, W, x)
BY MemhStep

\* Two programs with the same words up to one of them.
LEMMA MemhPrefix ==
  ASSUME NEW img \in Seq(Insn), NEW two \in Seq(Insn), NEW off \in Nat, NEW W, NEW V,
         NEW m \in Nat, m <= Len(img), m <= Len(two),
         \A x \in 1 .. m : img[x] = two[x],
         \A x \in 0 .. m : x \in W <=> x \in V
  PROVE  MemhUpto(img, off, W, m) = MemhUpto(two, off, V, m)
<1> DEFINE f(x) == MemhUpto(img, off, W, x)
           g(x) == MemhUpto(two, off, V, x)
           T == {x \in Nat : x \in 0 .. m => f(x) = g(x)}
<1>1. 0 \in T
  BY MemhStep
<1>2. ASSUME NEW x \in Nat, x \in T PROVE x + 1 \in T
  <2> SUFFICES ASSUME x + 1 \in 0 .. m PROVE f(x + 1) = g(x + 1)
    OBVIOUS
  <2>1. /\ x \in 0 .. Len(img) - 1 /\ x \in 0 .. Len(two) - 1
        /\ x \in 0 .. m /\ x + 1 \in 0 .. m /\ x + 1 \in 1 .. m
    OBVIOUS
  <2>2. f(x) = g(x)
    BY <1>2, <2>1
  <2>3. two[x + 1] = img[x + 1]
    BY <2>1
  <2>4. (x \in W <=> x \in V) /\ (x + 1 \in W <=> x + 1 \in V)
    <3>1. x \in W <=> x \in V
      BY <2>1, Zenon
    <3>2. x + 1 \in W <=> x + 1 \in V
      BY <2>1, Zenon
    <3>3. QED
      BY <3>1, <3>2
  <2>5. CASE x + 1 \in W
    <3> DEFINE t(S) == IF x \notin S THEN <<MarkAt(off + x)>> ELSE <<>>
    <3>1. f(x + 1) = f(x) \o t(W) \o <<WordIn(img[x + 1])>>
      BY <2>1, <2>5, MemhWord
    <3>2. g(x + 1) = g(x) \o t(V) \o <<WordIn(two[x + 1])>>
      <4>1. x + 1 \in V
        BY <2>4, <2>5
      <4>2. QED
        BY <2>1, <4>1, MemhWord
    <3>3. t(W) = t(V)
      BY <2>4
    <3> HIDE DEF f, g, t
    <3>4. QED
      BY <2>2, <2>3, <3>1, <3>2, <3>3
  <2>6. CASE x + 1 \notin W
    <3>1. f(x + 1) = f(x)
      BY <2>1, <2>6, MemhNone
    <3>2. g(x + 1) = g(x)
      <4>1. x + 1 \notin V
        BY <2>4, <2>6
      <4>2. QED
        BY <2>1, <4>1, MemhNone
    <3> HIDE DEF f, g
    <3>3. QED
      BY <2>2, <3>1, <3>2
  <2>7. QED
    BY <2>5, <2>6
<1>3. Nat \subseteq T
  <2> HIDE DEF T
  <2>1. QED
    BY <1>1, <1>2, StepInduction
<1>4. m \in 0 .. m
  OBVIOUS
<1>5. QED
  BY <1>3, <1>4

LEMMA SecondFile ==
  ASSUME job \in Jobs, lines \in Seq(Text), ~job.load, ~job.explicit,
         Read(job, lines, memory, elt, Size(job))
  PROVE  Whole(job, Again(lines)) = Whole(job, job.elements)
<1> DEFINE one == job.elements
           again == Again(lines)
           img == Flat(one)
           two == Flat(again)
           n == Len(img)
           m == Size(job)
<1>1. /\ job.fmt \in {"raw", "text", "memh", "obj"} /\ job.offset \in Nat /\ one \in Source
  BY JobType
<1>2. /\ again \in Source /\ Len(again) = Len(lines)
      /\ \A i \in 1 .. Len(lines) : again[i].word = make_insn_general(lines[i]) /\ again[i].size = 1
  BY LinesParse
<1>3. /\ img \in Seq(Insn) /\ n \in Nat /\ DOMAIN img = 1 .. n /\ m \in 0 .. n
  BY ProgramType
<1>4. m \in Nat /\ Len(lines) = m /\ \A k \in 1 .. m : make_insn_general(lines[k]) = img[k]
  BY <1>3 DEF Read
<1> HIDE DEF again
<1>5. /\ Sums(again)[Len(again)] = m /\ Len(two) = m /\ two \in Seq(Insn) /\ DOMAIN two = 1 .. m
      /\ \A k \in 1 .. m : two[k] = img[k]
  <2>1. /\ \A i \in 0 .. Len(again) : Sums(again)[i] = i
        /\ Len(two) = Len(again) /\ \A i \in 1 .. Len(again) : two[i] = again[i].word
    BY <1>2, SingleWords
  <2>2. two \in Seq(Insn) /\ DOMAIN two = 1 .. Len(two) /\ Len(again) \in 0 .. Len(again)
    BY <1>2, FlatType
  <2>3. QED
    BY <1>2, <1>4, <2>1, <2>2
<1>6. /\ Upto(one, Len(one)) = img /\ Sums(one)[Len(one)] = n
      /\ Upto(again, Len(again)) = two
  BY <1>1, <1>2, UptoStep, FlatType
<1>7. CASE job.fmt # "memh"
  <2>1. m = n
    BY <1>7 DEF Size
  <2>2. two = img
    <3> HIDE DEF two, img, m, n
    <3>1. Len(img) = m /\ Len(two) = m
      BY <1>5, <2>1 DEF n
    <3>2. QED
      BY <1>3, <1>4, <1>5, <3>1, SeqEqual
  <2>3. Whole(job, again) = Whole(job, one)
    BY <1>1, <1>6, <1>7, <2>2 DEF Whole, FileUpto
  <2>4. QED
    BY <2>3 DEF again
<1>8. CASE job.fmt = "memh"
  <2> DEFINE W == WriteSet(one, job.explicit)
             V == WriteSet(again, job.explicit)
  <2>1. W = {p \in DOMAIN img : img[p] # Zero} /\ V = {p \in DOMAIN two : two[p] # Zero}
    BY DEF WriteSet
  <2>2. m = Latest(W, n)
    BY <1>8, ProgramType
  <2>3. \A p \in 1 .. n : p \in W => p <= m
    <3> HIDE DEF W, n, m
    <3>1. QED
      BY <1>3, <2>2, LatestIs DEF IsLatest
  <2> HIDE DEF W, V, n, m, img, two
  <2>4. MemhUpto(img, job.offset, W, n) = MemhUpto(img, job.offset, W, m)
    <3>1. \A p \in m + 1 .. n : p \notin W
      BY <1>3, <1>4, <2>3
    <3>2. m <= n /\ n <= Len(img)
      BY <1>3 DEF n
    <3>3. QED
      BY <1>1, <1>3, <1>4, <3>1, <3>2, MemhSame
  <2>5. MemhUpto(img, job.offset, W, m) = MemhUpto(two, job.offset, V, m)
    <3>1. \A x \in 0 .. m : x \in W <=> x \in V
      <4> SUFFICES ASSUME NEW x \in 0 .. m PROVE x \in W <=> x \in V
        OBVIOUS
      <4>1. CASE x = 0
        BY <1>3, <1>5, <2>1, <4>1
      <4>2. CASE x # 0
        <5>1. x \in 1 .. m /\ x \in 1 .. n
          BY <1>3, <1>4, <4>2
        <5>2. QED
          BY <1>3, <1>5, <2>1, <5>1
      <4>3. QED
        BY <4>1, <4>2
    <3>2. m <= Len(img) /\ m <= Len(two)
      BY <1>3, <1>4, <1>5 DEF n
    <3>3. \A x \in 1 .. m : img[x] = two[x]
      BY <1>5
    <3>4. QED
      BY <1>1, <1>3, <1>4, <1>5, <3>1, <3>2, <3>3, MemhPrefix
  <2>6. Whole(job, one) = MemhUpto(img, job.offset, W, n)
    BY <1>6, <1>8 DEF Whole, FileUpto, MemhUpto, img, W
  <2>7. Whole(job, again) = MemhUpto(two, job.offset, V, m)
    BY <1>5, <1>8 DEF Whole, FileUpto, MemhUpto, two, V
  <2>8. QED
    BY <2>4, <2>5, <2>6, <2>7 DEF again
<1>9. QED
  BY <1>7, <1>8

\* Nothing is refused; only what is not given is written first, and what a job
\* loads it does not disassemble.
Kinds ==
  /\ stage # "refused"
  /\ stage = "out" => job.given = <<>>
  /\ stage \in {"parse", "again", "done"} => ~job.load
  /\ stage = "loaded" => job.load

LEMMA KindsStep ==
  ASSUME TypeInv, WriteInv, Kinds, [Next]_vars
  PROVE  Kinds'
<1>1. stage' # "refused"
  BY NotRefused DEF Kinds
<1>2. CASE WriteElement
  BY <1>1, <1>2 DEF WriteElement, Kinds
<1>3. CASE Finish
  BY <1>1, <1>3 DEF Finish, Kinds
<1>4. CASE do_disassembly
  <2>1. stage' = "parse" \/ stage' = stage
    BY <1>4 DEF do_disassembly
  <2>2. stage = "in" /\ ~job.load /\ job' = job
    BY <1>4 DEF do_disassembly
  <2>3. QED
    BY <1>1, <2>1, <2>2 DEF Kinds
<1>5. CASE load_sim
  <2>1. stage' = "loaded" \/ stage' = stage
    BY <1>5 DEF load_sim
  <2>2. stage = "in" /\ job.load /\ job' = job
    BY <1>5 DEF load_sim
  <2>3. QED
    BY <1>1, <2>1, <2>2 DEF Kinds
<1>6. CASE Parse
  <2>1. stage = "parse" /\ stage' = "again" /\ job' = job
    BY <1>6, ParseStep
  <2>2. QED
    BY <2>1 DEF Kinds
<1>7. CASE UNCHANGED vars
  BY <1>7 DEF vars, Kinds
<1>8. QED
  BY <1>2, <1>3, <1>4, <1>5, <1>6, <1>7 DEF Next

LEMMA CycleHolds == TypeInv /\ WriteInv /\ ReadInv /\ Kinds => Cycle
<1> SUFFICES ASSUME TypeInv, WriteInv, ReadInv, Kinds PROVE Cycle
  OBVIOUS
<1>1. stage # "refused"
  BY DEF Kinds
<1>2. ASSUME stage = "done", job.given = <<>>
      PROVE  /\ files[2] = files[1] \/ job.explicit
             /\ \A i \in Kept : i <= Len(lines) /\ make_insn_general(lines[i]) = Image[i]
             /\ \A i \in DOMAIN lines : i \notin Kept => i \in DOMAIN Image /\ Image[i] = Zero
  <2> DEFINE img == Flat(job.elements)
             m == Size(job)
             a == Whole(job, job.elements)
             b == Whole(job, Again(lines))
  <2>1. job \in Jobs /\ lines \in Seq(Text) /\ ~job.load /\ job.explicit \in BOOLEAN
    BY <1>2, JobType DEF TypeInv, Kinds
  <2>2. Read(job, lines, memory, elt, m) /\ files = <<a, b>>
    BY <1>2 DEF ReadInv, WriteInv
  <2>3. files[1] = a /\ files[2] = b
    <3> HIDE DEF a, b
    <3>1. QED
      BY <2>2
  <2>4. files[2] = files[1] \/ job.explicit
    <3>1. CASE job.explicit
      BY <3>1
    <3>2. CASE ~job.explicit
      <4>1. b = a
        BY <2>1, <2>2, <3>2, SecondFile
      <4>2. QED
        BY <2>3, <4>1
    <3>3. QED
      BY <3>1, <3>2
  <2>5. Kept = 1 .. m /\ Image = img /\ m \in Nat
    <3>1. m \in 0 .. Len(img) /\ Len(img) \in Nat
      BY <2>1, ProgramType
    <3> HIDE DEF m, img
    <3>2. m \in Nat
      BY <3>1
    <3>3. QED
      BY <2>1, <3>2, KeptIs, ImageIs DEF m, img
  <2>6. Len(lines) = m /\ \A k \in 1 .. m : make_insn_general(lines[k]) = img[k]
    BY <2>1, <2>2 DEF Read
  <2>7. DOMAIN lines = 1 .. m
    <3>1. DOMAIN lines = 1 .. Len(lines)
      BY <2>1
    <3>2. QED
      BY <2>6, <3>1
  <2> HIDE DEF m, img
  <2>8. ASSUME NEW i \in Kept
        PROVE  i <= Len(lines) /\ make_insn_general(lines[i]) = Image[i]
    <3>1. i \in 1 .. m /\ i <= m
      BY <2>5
    <3>2. QED
      BY <2>5, <2>6, <3>1
  <2>9. \A i \in DOMAIN lines : i \in Kept
    BY <2>5, <2>7
  <2>10. QED
    BY <2>4, <2>8, <2>9
<1>3. QED
  BY <1>1, <1>2 DEF Cycle

LEMMA KindsInit == Init => Kinds
BY DEF Init, Kinds

LEMMA KindsHold == Spec => []Kinds
<1>1. QED
  BY Typed, Writes, KindsInit, KindsStep, PTL DEF Spec

\* src/scripts/dogfood.sh: whatever program is written in whatever format, the
\* text that is disassembled from the file is assembled, without an error, to
\* the program's words, and unless zeros are asked for to the same file.
THEOREM CyclesHold == Spec => []Cycle
<1>1. QED
  BY Typed, Writes, ReadsAll, KindsHold, CycleHolds, PTL

\* What the loader has of a file that tas has written.
LEMMA ProgramLoaded ==
  ASSUME TypeInv, ReadInv, Kinds, stage = "loaded", job.given = <<>>, NEW i \in Kept
  PROVE  Holds(job.offset + i - 1, Image[i])
<1> DEFINE img == Flat(job.elements)
           m == Size(job)
           off == job.offset
<1>1. job \in Jobs /\ job.load /\ off \in Nat
  BY JobType DEF TypeInv, Kinds
<1>2. Read(job, lines, memory, elt, m)
  BY DEF ReadInv
<1>3. Kept = 1 .. m /\ Image = img /\ m \in 0 .. Len(img) /\ Len(img) \in Nat
  BY <1>1, KeptIs, ImageIs, ProgramType
<1>4. \A k \in 1 .. m : (off + k) - 1 \in DOMAIN memory /\ memory[(off + k) - 1] = img[k]
  BY <1>1, <1>2 DEF Read
<1> HIDE DEF img, m, off
<1>5. i \in 1 .. m /\ i \in Nat /\ (off + i) - 1 = off + i - 1
  BY <1>1, <1>3
<1>6. QED
  BY <1>3, <1>4, <1>5 DEF Holds, off

-----------------------------------------------------------------------------
(* Loading an object that is given.                                        *)

\* The word of a record is in memory.
InMemory(mem, r, i) == (r.addr + i) - 1 \in DOMAIN mem /\ mem[(r.addr + i) - 1] = r.data[i]

\* The first m records, and n words of the next one, are in memory.
LoadedUpto(mem, recs, m, n) ==
  \A q \in DOMAIN recs : \A i \in DOMAIN recs[q].data :
    q <= m \/ (q = m + 1 /\ i <= n) => InMemory(mem, recs[q], i)

\* The file is what follows the first m records.
Follows(f, recs, m) == Len(f) = Len(recs) - m /\ \A i \in 1 .. Len(f) : f[i] = recs[m + i]

Given == job.given # <<>> /\ job.fmt = "obj" /\ job.load

RecordsInv ==
  Given =>
    /\ stage = "in" => \E m \in 0 .. Len(job.given) :
         Follows(file, job.given, m) /\ LoadedUpto(memory, job.given, m, st.n)
    /\ stage = "loaded" => LoadedUpto(memory, job.given, Len(job.given), 0)

LEMMA GivenType ==
  ASSUME job \in Jobs, Given
  PROVE  /\ job.given \in Seq(Record) /\ Len(job.given) \in Nat
         /\ DOMAIN job.given = 1 .. Len(job.given)
         /\ \A q \in 1 .. Len(job.given) :
              /\ job.given[q].addr \in Nat /\ job.given[q].data \in Seq(Insn)
              /\ Len(job.given[q].data) \in Nat
              /\ DOMAIN job.given[q].data = 1 .. Len(job.given[q].data)
<1>1. job.given \in Seq(Record)
  BY JobType DEF Given, FileOf
<1>2. Len(job.given) \in Nat /\ DOMAIN job.given = 1 .. Len(job.given)
  BY <1>1
<1>3. \A q \in 1 .. Len(job.given) : job.given[q] \in Record
  BY <1>1
<1>4. \A r \in Record : r.addr \in Nat /\ r.data \in Seq(Insn)
  BY DEF Record
<1>5. QED
  BY <1>1, <1>2, <1>3, <1>4

\* Records without words left do not matter.
LEMMA SkippedLoaded ==
  ASSUME job \in Jobs, Given, file \in Seq(Record), file # <<>>, st.n \in Nat,
         NEW m \in 0 .. Len(job.given), Follows(file, job.given, m),
         LoadedUpto(memory, job.given, m, st.n)
  PROVE  LET k == Skip(file, st.n)
         IN  LoadedUpto(memory, job.given, m + k, IF k = 0 THEN st.n ELSE 0)
<1> DEFINE g == job.given
           k == Skip(file, st.n)
           pos == IF k = 0 THEN st.n ELSE 0
<1>1. /\ Len(g) \in Nat /\ DOMAIN g = 1 .. Len(g)
      /\ \A q \in 1 .. Len(g) : /\ Len(g[q].data) \in Nat
                                /\ DOMAIN g[q].data = 1 .. Len(g[q].data)
  BY GivenType
<1>2. /\ k \in 0 .. Len(file) /\ Len(file) \in Nat
      /\ \A i \in 1 .. k : Len(file[i].data) <= (IF i = 1 THEN st.n ELSE 0)
  BY Skipped
<1>3. Len(file) = Len(g) - m /\ \A i \in 1 .. Len(file) : file[i] = g[m + i]
  BY DEF Follows
<1> HIDE DEF k, g
<1>4. ASSUME NEW q \in DOMAIN g, NEW i \in DOMAIN g[q].data,
             q <= m + k \/ (q = m + k + 1 /\ i <= pos)
      PROVE  q <= m \/ (q = m + 1 /\ i <= st.n)
  <2>1. q \in 1 .. Len(g) /\ i \in 1 .. Len(g[q].data) /\ Len(g[q].data) \in Nat
    BY <1>1
  <2>2. CASE q = m + k + 1 /\ i <= pos
    <3>1. k = 0
      <4> SUFFICES ASSUME k # 0 PROVE FALSE
        OBVIOUS
      <4>1. pos = 0
        OBVIOUS
      <4>2. QED
        BY <2>1, <2>2, <4>1
    <3>2. QED
      BY <2>2, <3>1
  <2>3. CASE q > m /\ q <= m + k
    <3> DEFINE j == q - m
    <3>1. j \in 1 .. k /\ j \in 1 .. Len(file) /\ m + j = q
      BY <1>2, <2>1, <2>3
    <3> HIDE DEF j
    <3>2. file[j] = g[q] /\ Len(file[j].data) <= (IF j = 1 THEN st.n ELSE 0)
      BY <1>2, <1>3, <3>1
    <3>3. Len(g[q].data) <= (IF j = 1 THEN st.n ELSE 0)
      BY <3>2
    <3>4. j = 1 /\ i <= st.n
      BY <2>1, <3>3
    <3>5. QED
      BY <3>1, <3>4
  <2>4. CASE q <= m
    BY <2>4
  <2>5. QED
    BY <1>2, <1>4, <2>1, <2>2, <2>3, <2>4
<1>5. LoadedUpto(memory, g, m + k, pos)
  BY <1>4 DEF LoadedUpto, g
<1>6. QED
  BY <1>5 DEF g, k

\* One more word: no other word of the object has its address.
LEMMA WordLoaded ==
  ASSUME job \in Jobs, Given, NEW m \in 0 .. Len(job.given) - 1, NEW pos \in Nat,
         LoadedUpto(memory, job.given, m, pos),
         pos + 1 \in DOMAIN job.given[m + 1].data,
         NEW a, a = job.given[m + 1].addr + pos,
         NEW w, w = job.given[m + 1].data[pos + 1],
         NEW mem, mem = [x \in DOMAIN memory \cup {a} |-> IF x = a THEN w ELSE memory[x]]
  PROVE  LoadedUpto(mem, job.given, m, pos + 1)
<1> DEFINE g == job.given
<1>1. /\ Len(g) \in Nat /\ DOMAIN g = 1 .. Len(g)
      /\ \A q \in 1 .. Len(g) : /\ g[q].addr \in Nat /\ Len(g[q].data) \in Nat
                                /\ DOMAIN g[q].data = 1 .. Len(g[q].data)
  BY GivenType
<1>2. m + 1 \in 1 .. Len(g) /\ m \in Nat
  BY <1>1
<1>3. \A r, s \in DOMAIN g : \A k \in DOMAIN g[r].data, l \in DOMAIN g[s].data :
        g[r].addr + k = g[s].addr + l => r = s
  BY RecordsAssumption DEF Given
<1>4. /\ a \in DOMAIN mem /\ mem[a] = w
      /\ \A x \in DOMAIN memory : x \in DOMAIN mem /\ (x # a => mem[x] = memory[x])
  OBVIOUS
<1> HIDE DEF g
<1>5. ASSUME NEW q \in DOMAIN g, NEW i \in DOMAIN g[q].data,
             q <= m \/ (q = m + 1 /\ i <= pos + 1)
      PROVE  InMemory(mem, g[q], i)
  <2> DEFINE b == (g[q].addr + i) - 1
  <2>1. /\ q \in 1 .. Len(g) /\ i \in Nat /\ g[q].addr \in Nat
        /\ g[m + 1].addr \in Nat
    BY <1>1, <1>2, SMTT(30)
  <2>2. CASE q = m + 1 /\ i = pos + 1
    <3>1. b = a
      <4> DEFINE c == g[m + 1].addr
      <4>1. c \in Nat /\ b = (c + (pos + 1)) - 1 /\ a = c + pos
        BY <2>1, <2>2 DEF g
      <4> HIDE DEF b, c
      <4>2. QED
        BY <4>1
    <3>2. g[q].data[i] = w
      BY <2>2 DEF g
    <3> HIDE DEF b
    <3>3. QED
      BY <1>4, <3>1, <3>2 DEF InMemory, b
  <2>3. CASE ~(q = m + 1 /\ i = pos + 1)
    <3>1. q <= m \/ (q = m + 1 /\ i <= pos)
      BY <1>5, <2>1, <2>3
    <3>2. InMemory(memory, g[q], i)
      BY <3>1 DEF LoadedUpto, g
    <3>3. b # a
      <4> SUFFICES ASSUME b = a PROVE FALSE
        OBVIOUS
      <4> DEFINE c == g[m + 1].addr
                 d == g[q].addr
      <4>1. c \in Nat /\ d \in Nat /\ b = (d + i) - 1 /\ a = c + pos
        <5>1. c \in Nat /\ d \in Nat
          BY <2>1
        <5>2. a = c + pos
          BY DEF g
        <5>3. QED
          BY <5>1, <5>2
      <4> HIDE DEF b, c, d
      <4>2. d + i = c + (pos + 1)
        <5>1. i \in Nat
          BY <2>1
        <5>2. (d + i) - 1 = c + pos
          BY <4>1
        <5>3. QED
          BY <4>1, <5>1, <5>2
      <4>3. m + 1 \in DOMAIN g /\ pos + 1 \in DOMAIN g[m + 1].data
        BY <1>1, <1>2 DEF g
      <4>4. q = m + 1
        BY <1>3, <4>2, <4>3 DEF c, d
      <4>5. d = c
        BY <4>4 DEF c, d
      <4>6. i = pos + 1
        BY <2>1, <4>1, <4>2, <4>5
      <4>7. QED
        BY <2>3, <4>4, <4>6
    <3> HIDE DEF b
    <3>4. QED
      BY <1>4, <3>2, <3>3 DEF InMemory, b
  <2>4. QED
    BY <2>2, <2>3
<1>6. QED
  BY <1>5 DEF LoadedUpto, g

LEMMA RecordsLoad ==
  ASSUME TypeInv, RecordsInv, load_sim, Given
  PROVE  RecordsInv'
<1> DEFINE g == job.given
           k == Skip(file, st.n)
           pos == IF k = 0 THEN st.n ELSE 0
           r == In
<1>1. /\ stage = "in" /\ UNCHANGED job
      /\ st' = r.st /\ file' = r.file
      /\ stage' = (IF r.rc < 0 THEN "loaded" ELSE stage)
  BY DEF load_sim, Take
<1>2. PICK a \in IF r.elt = Undefined THEN Strays ELSE {r.elt.reladdr} :
        memory' = (IF r.rc < 0 THEN memory
                   ELSE [x \in DOMAIN memory \cup {a} |->
                           IF x = a THEN r.elt.word ELSE memory[x]])
  BY DEF load_sim
<1>3. /\ job \in Jobs /\ st \in State /\ st.n \in Nat /\ file \in Seq(Record) /\ file # <<>>
      /\ job.fmt = "obj"
  BY StateFields DEF TypeInv, FileOf, Positioned, Given
<1>4. PICK m \in 0 .. Len(g) : Follows(file, g, m) /\ LoadedUpto(memory, g, m, st.n)
  BY <1>1 DEF RecordsInv
<1>5. LoadedUpto(memory, g, m + k, pos)
  BY <1>3, <1>4, SkippedLoaded
<1>6. /\ k \in 0 .. Len(file) /\ Len(file) \in Nat \ {0}
      /\ k # Len(file) => /\ k + 1 \in 1 .. Len(file) /\ file[k + 1] \in Record
                          /\ pos < Len(file[k + 1].data)
  BY <1>3, Skipped
<1>7. /\ Len(g) \in Nat /\ DOMAIN g = 1 .. Len(g)
      /\ \A q \in 1 .. Len(g) : /\ g[q].addr \in Nat /\ Len(g[q].data) \in Nat
                                /\ DOMAIN g[q].data = 1 .. Len(g[q].data)
  BY <1>3, GivenType
<1>8. Len(file) = Len(g) - m /\ \A i \in 1 .. Len(file) : file[i] = g[m + i]
  BY <1>4 DEF Follows
<1>9. r = obj_in /\ job' = job
  BY <1>1, <1>3 DEF In
<1>10. Given' /\ g' = g
  BY <1>1 DEF Given
<1> HIDE DEF g, r
<1>11. CASE k = Len(file)
  <2>1. r = Ended
    BY <1>9, <1>11 DEF obj_in
  <2>2. r.rc < 0
    BY <2>1, GotFields DEF Ended
  <2>3. stage' = "loaded" /\ memory' = memory
    BY <1>1, <1>2, <2>2
  <2> HIDE DEF k, pos
  <2>4. m + k = Len(g)
    BY <1>7, <1>8, <1>11
  <2>5. LoadedUpto(memory, g, Len(g), 0)
    <3>1. LoadedUpto(memory, g, Len(g), pos)
      BY <1>5, <2>4
    <3>2. QED
      BY <1>7, <3>1 DEF LoadedUpto
  <2>6. LoadedUpto(memory', job'.given, Len(job'.given), 0)
    BY <1>9, <2>3, <2>5 DEF g
  <2>7. QED
    BY <2>3, <2>6 DEF RecordsInv
<1>12. CASE k # Len(file)
  <2> DEFINE n == m + k
             d == file[k + 1].data
             e == [word |-> d[pos + 1], reladdr |-> file[k + 1].addr + pos]
             s == [st EXCEPT !.n = pos + 1]
             rest == SubSeq(file, k + 1, Len(file))
  <2>1. r = Got(1, e, s, rest)
    BY <1>9, <1>12 DEF obj_in
  <2>2. pos \in Nat
    BY <1>3
  <2> HIDE DEF k, pos
  <2>3. k \in 0 .. Len(file) - 1 /\ n \in 0 .. Len(g) - 1 /\ m + (k + 1) = n + 1
    <3>1. k \in Nat /\ k < Len(file)
      BY <1>6, <1>12
    <3>2. m \in Nat /\ Len(g) \in Nat /\ Len(file) = Len(g) - m
      BY <1>7, <1>8
    <3> HIDE DEF n
    <3>3. m + k \in 0 .. Len(g) - 1
      BY <3>1, <3>2
    <3>4. k \in 0 .. Len(file) - 1
      BY <1>6, <3>1
    <3>5. m + (k + 1) = (m + k) + 1
      BY <3>1, <3>2
    <3>6. QED
      BY <3>3, <3>4, <3>5 DEF n
  <2>4. file[k + 1] = g[n + 1] /\ n + 1 \in 1 .. Len(g)
    <3>1. file[k + 1] = g[m + (k + 1)]
      BY <1>6, <1>8, <1>12
    <3>2. QED
      BY <1>7, <2>3, <3>1
  <2>5. pos + 1 \in DOMAIN g[n + 1].data
    <3> DEFINE l == Len(g[n + 1].data)
    <3>1. l \in Nat /\ pos < l /\ DOMAIN g[n + 1].data = 1 .. l
      BY <1>6, <1>7, <1>12, <2>4
    <3> HIDE DEF l
    <3>2. pos + 1 \in 1 .. l
      BY <2>2, <3>1
    <3>3. QED
      BY <3>1, <3>2
  <2>6. /\ rest \in Seq(Record) /\ Len(rest) = Len(file) - k
        /\ \A i \in 1 .. Len(file) - k : rest[i] = file[k + i]
    BY <1>3, <2>3, Rest
  <2>7. s.n = pos + 1
    <3>1. pos + 1 \in Nat
      BY <2>2
    <3>2. QED
      BY <1>3, <3>1, StateFields
  <2>8. /\ e.word = g[n + 1].data[pos + 1] /\ e.reladdr = g[n + 1].addr + pos
        /\ e # Undefined
    <3>1. e.word = g[n + 1].data[pos + 1] /\ e.reladdr = g[n + 1].addr + pos
      BY <2>4
    <3>2. g[n + 1].addr \in Nat
      BY <1>7, <2>4
    <3>3. e.reladdr # -1
      <4> DEFINE c == g[n + 1].addr
      <4> HIDE DEF c, e
      <4>1. c \in Nat /\ e.reladdr = c + pos
        BY <3>1, <3>2 DEF c
      <4>2. QED
        BY <2>2, <4>1
    <3>4. Undefined.reladdr = -1
      BY DEF Undefined
    <3> HIDE DEF e
    <3>5. QED
      BY <3>1, <3>3, <3>4
  <2> HIDE DEF e, s, rest, n, d
  <2>9. r.rc = 1 /\ r.elt = e /\ r.st = s /\ r.file = rest
    BY <2>1, GotFields
  <2>10. /\ stage' = "in" /\ st'.n = pos + 1 /\ file' = rest /\ a = e.reladdr
         /\ memory' = [x \in DOMAIN memory \cup {a} |-> IF x = a THEN e.word ELSE memory[x]]
    BY <1>1, <1>2, <2>7, <2>8, <2>9
  <2>11. LoadedUpto(memory, g, n, pos)
    BY <1>5 DEF n
  <2>12. LoadedUpto(memory', g, n, pos + 1)
    BY <1>3, <2>2, <2>3, <2>5, <2>8, <2>10, <2>11, WordLoaded DEF g
  <2>13. Follows(file', g, n)
    <3>1. Len(rest) = Len(g) - n
      BY <1>7, <1>8, <2>3, <2>6 DEF n
    <3>2. ASSUME NEW i \in 1 .. Len(rest) PROVE rest[i] = g[n + i]
      <4>1. i \in 1 .. Len(file) - k /\ k + i \in 1 .. Len(file) /\ m + (k + i) = n + i
        BY <1>6, <1>7, <2>3, <2>6 DEF n
      <4>2. rest[i] = file[k + i] /\ file[k + i] = g[m + (k + i)]
        BY <1>8, <2>6, <4>1
      <4>3. QED
        BY <4>1, <4>2
    <3>3. QED
      BY <2>10, <3>1, <3>2 DEF Follows
  <2>14. n \in 0 .. Len(job'.given) /\ job'.given = g
    BY <1>7, <1>9, <2>3 DEF g
  <2>15. QED
    BY <2>10, <2>12, <2>13, <2>14 DEF RecordsInv
<1>13. QED
  BY <1>11, <1>12

LEMMA RecordsInit ==
  ASSUME Init
  PROVE  RecordsInv
<1> SUFFICES ASSUME Given
             PROVE  /\ stage # "loaded"
                    /\ 0 \in 0 .. Len(job.given)
                    /\ Follows(file, job.given, 0) /\ LoadedUpto(memory, job.given, 0, st.n)
  BY DEF RecordsInv
<1>1. stage = "in" /\ file = job.given /\ st.n = 0
  BY DEF Init, Given, init, gen_init
<1>2. job \in Jobs
  BY DEF Init
<1> DEFINE g == job.given
<1>3. /\ Len(g) \in Nat /\ DOMAIN g = 1 .. Len(g)
      /\ \A q \in 1 .. Len(g) : DOMAIN g[q].data = 1 .. Len(g[q].data)
  BY <1>2, GivenType
<1>4. Follows(file, g, 0)
  BY <1>1, <1>3 DEF Follows
<1>5. LoadedUpto(memory, g, 0, 0)
  BY <1>3 DEF LoadedUpto
<1>6. QED
  BY <1>1, <1>3, <1>4, <1>5

LEMMA RecordsStep ==
  ASSUME TypeInv, Kinds, RecordsInv, [Next]_vars
  PROVE  RecordsInv'
<1>1. CASE WriteElement
  BY <1>1 DEF WriteElement, RecordsInv
<1>2. CASE Finish
  <2>1. /\ stage \in {"out", "again"} /\ job' = job
        /\ stage' = (IF stage = "out" THEN "in" ELSE "done")
    BY <1>2 DEF Finish
  <2>2. stage = "out" => ~Given
    BY DEF Kinds, Given
  <2>3. QED
    BY <2>1, <2>2 DEF RecordsInv, Given
<1>3. CASE do_disassembly
  BY <1>3 DEF do_disassembly, RecordsInv, Given
<1>4. CASE load_sim
  <2>1. CASE Given
    BY <1>4, <2>1, RecordsLoad
  <2>2. CASE ~Given
    BY <1>4, <2>2 DEF load_sim, RecordsInv, Given
  <2>3. QED
    BY <2>1, <2>2
<1>5. CASE Parse
  BY <1>5, ParseStep DEF RecordsInv
<1>6. CASE UNCHANGED vars
  BY <1>6 DEF vars, RecordsInv, Given
<1>7. QED
  BY <1>1, <1>2, <1>3, <1>4, <1>5, <1>6 DEF Next

LEMMA RecordsHold == Spec => []RecordsInv
<1>1. QED
  BY Typed, KindsHold, RecordsInit, RecordsStep, PTL DEF Spec

LEMMA LoadsHolds == TypeInv /\ ReadInv /\ Kinds /\ RecordsInv => Loads
<1> SUFFICES ASSUME TypeInv, ReadInv, Kinds, RecordsInv, stage = "loaded" PROVE
      /\ job.given = <<>> => \A i \in Kept : Holds(job.offset + i - 1, Image[i])
      /\ job.fmt = "obj" =>
           \A r \in ToSet(job.given) : \A i \in DOMAIN r.data : Holds(r.addr + i - 1, r.data[i])
  BY DEF Loads
<1>1. job.given = <<>> => \A i \in Kept : Holds(job.offset + i - 1, Image[i])
  BY ProgramLoaded
<1>2. ASSUME job.fmt = "obj", NEW r \in ToSet(job.given), NEW i \in DOMAIN r.data
      PROVE  Holds(r.addr + i - 1, r.data[i])
  <2> DEFINE g == job.given
  <2>1. PICK q \in DOMAIN g : r = g[q]
    BY DEF ToSet
  <2>2. g # <<>>
    BY <2>1
  <2>3. job \in Jobs /\ Given
    BY <1>2, <2>2 DEF TypeInv, Kinds, Given
  <2>4. /\ Len(g) \in Nat /\ DOMAIN g = 1 .. Len(g) /\ r.addr \in Nat
        /\ DOMAIN r.data = 1 .. Len(r.data)
    BY <2>1, <2>3, GivenType
  <2>5. LoadedUpto(memory, g, Len(g), 0)
    BY <2>3 DEF RecordsInv
  <2> HIDE DEF g
  <2>6. InMemory(memory, r, i)
    <3>1. q <= Len(g)
      BY <2>1, <2>4
    <3>2. QED
      BY <2>1, <2>5, <3>1 DEF LoadedUpto
  <2>7. (r.addr + i) - 1 = r.addr + i - 1
    <3>1. i \in Int
      BY <2>4
    <3>2. QED
      BY <2>4, <3>1
  <2>8. QED
    BY <2>6, <2>7 DEF InMemory, Holds
<1>3. QED
  BY <1>1, <1>2

\* load_sim: a file that tas has written puts the program where it belongs,
\* over whatever the format leaves out or marks, and an object that is given
\* every word of every record, although a mark writes the element once more.
THEOREM ProgramsLoad == Spec => []Loads
<1>1. QED
  BY Typed, ReadsAll, KindsHold, RecordsHold, LoadsHolds, PTL
=============================================================================
