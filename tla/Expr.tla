-------------------------------- MODULE Expr --------------------------------
(***************************************************************************)
(* Constant expressions of the assembler (struct const_expr in             *)
(* src/src/expr.h, made by make_expr and make_ref in src/src/parser.y) and *)
(* the rules the parser has for them.                                      *)
(*                                                                         *)
(* An expression is a record whose field t is its type: "imm" with the     *)
(* value i, "dot" (CE_ICI), "ref" with a name (CE_EXT; local tells .Lname  *)
(* from @name), "op1" or "op2" with an op.                                 *)
(***************************************************************************)
EXTENDS Integers

CONSTANT Limit   \* number of values of a word

ASSUME LimitAssumption == Limit \in Nat \ {0}

Word == 0 .. Limit - 1

RECURSIVE Subterms(_)
Subterms(e) ==
  {e} \cup CASE e.t = "op1" -> Subterms(e.l)
             [] e.t = "op2" -> Subterms(e.l) \cup Subterms(e.r)
             [] OTHER       -> {}

\* IS_EXTERNAL and IS_DEFERRED, which parents inherit.
External(e) == \E s \in Subterms(e) : s.t = "ref" /\ ~s.local
Deferred(e) == \E s \in Subterms(e) : s.t \in {"ref", "dot"}

\* FORBID_LHS and validate_expr.
Valid(e) ==
  \A s \in Subterms(e) : s.t = "op2" =>
    /\ ~(External(s.l) /\ External(s.r))
    /\ s.op \in {"*", "/"} => ~External(s.l)

Signed(v) == IF v < (Limit + 1) \div 2 THEN v ELSE v - Limit
Abs(v)    == IF v < 0 THEN -v ELSE v
Divide(a, b) == (IF (a < 0) = (b < 0) THEN 1 ELSE -1) * (Abs(a) \div Abs(b))

\* ce_eval's arithmetic; b # 0 where op is "/".
Calc1(op, a) == (IF op = "-" THEN -a ELSE -a - 1) % Limit
Calc2(op, a, b) ==
  CASE op = "+" -> (a + b) % Limit
    [] op = "-" -> (a - b) % Limit
    [] op = "*" -> (a * b) % Limit
    [] op = "/" -> Divide(Signed(a), Signed(b)) % Limit

\* Mutant of Fits: the field is taken to be unsigned.
FitsUnsigned(v, span) == v < span

\* result = SEXTEND32(width, result), for a field of span values.
Fits(v, span) == span = Limit \/ 2 * v < span \/ 2 * (Limit - v) <= span

=============================================================================
