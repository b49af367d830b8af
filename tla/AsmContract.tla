---------------------------- MODULE AsmContract -----------------------------
(***************************************************************************)
(* What a program means, without passes: a label is the address of its     *)
(* element in the final image, `.' the address of the element it stands    *)
(* in, a name the value of the last .set before its use, or else a label   *)
(* of the file, or else what another file defines; and .set takes its      *)
(* value where it stands.                                                  *)
(***************************************************************************)
EXTENDS Expr, Sequences, FiniteSetsExt

Labels(p, name) ==
  {<<k, i>> \in UNION {{k} \X DOMAIN p[k].labels : k \in {k \in DOMAIN p : p[k].kind = "data"}} :
     p[k].labels[i] = name}
Defines(p, name) ==
  {k \in DOMAIN p : p[k].kind = "set" /\ p[k].name = name} \cup {d[1] : d \in Labels(p, name)}

\* Where part i of item k begins, counted from the start of the file.
At(p, k, i) ==
  LET size(q) == p[q[1]].parts[q[2]].size
      parts   == UNION {{j} \X DOMAIN p[j].parts :
                          j \in {j \in DOMAIN p : p[j].kind = "data" /\ j <= k}}
  IN  MapThenSumSet(size, {q \in parts : q[1] < k \/ q[2] < i})

\* The .set that a use of the name in item k means, or 0.
SetFor(p, k, name) ==
  LET before == {j \in Defines(p, name) : j < k}
  IN  IF before # {} /\ p[Max(before)].kind = "set" THEN Max(before) ELSE 0

\* A name that only a later .set defines is refused.
Usable(p, k, name) ==
  SetFor(p, k, name) # 0 \/ Defines(p, name) = {} \/ p[Max(Defines(p, name))].kind = "data"

\* The value of e in item k with `.' at here, the file at base and the names
\* of other files as in ext; -1 where it divides by zero.
RECURSIVE Value(_, _, _, _, _, _)
Value(p, k, e, here, base, ext) ==
  CASE e.t = "imm" -> e.i
    [] e.t = "dot" -> (base + here) % Limit
    [] e.t = "ref" ->
         LET s == SetFor(p, k, e.name) IN
         IF s # 0 THEN Value(p, s, p[s].expr, At(p, s, 1), base, ext)
         ELSE IF Labels(p, e.name) # {}
              THEN (base + At(p, (CHOOSE d \in Labels(p, e.name) : TRUE)[1], 1)) % Limit
              ELSE ext[e.name]
    [] e.t = "op1" ->
         LET a == Value(p, k, e.l, here, base, ext) IN IF a = -1 THEN -1 ELSE Calc1(e.op, a)
    [] e.t = "op2" ->
         LET a == Value(p, k, e.l, here, base, ext)
             b == Value(p, k, e.r, here, base, ext)
         IN  IF a = -1 \/ b = -1 \/ (e.op = "/" /\ b = 0) THEN -1 ELSE Calc2(e.op, a, b)

\* The parts with an expression, and the value of one.
Fields(p, None) ==
  {q \in UNION {{k} \X DOMAIN p[k].parts : k \in {k \in DOMAIN p : p[k].kind = "data"}} :
     p[q[1]].parts[q[2]].expr # None}
FieldValue(p, q, base, ext) ==
  LET part == p[q[1]].parts[q[2]]
      v    == Value(p, q[1], part.expr, At(p, q[1], q[2]), base, ext)
  IN  IF v = -1 THEN -1 ELSE (part.mult * v) % Limit

\* What is left of a part's word, and its field.
Patch(part, v) == (part.word - (part.word % part.span)) + (v % part.span)

\* The expressions of a program, each with its item.
Expressions(p, None) ==
  {<<q[1], p[q[1]].parts[q[2]].expr>> : q \in Fields(p, None)}
  \cup {<<k, p[k].expr>> : k \in {k \in DOMAIN p : p[k].kind = "set"}}

\* A field of span values holds signed numbers.
InField(v, span) == \E n \in -(span \div 2) .. (span \div 2) - 1 : v = n % Limit

\* The programs tas accepts: what it can know of a value must fit its field.
Legal(p, None, nothing) ==
  /\ \A k \in DOMAIN p : p[k].kind # "error"
  /\ \A x \in Expressions(p, None) :
       /\ Valid(x[2])
       /\ \A s \in Subterms(x[2]) : s.t = "ref" => Usable(p, x[1], s.name)
  /\ \A k \in DOMAIN p : p[k].kind = "data" =>
       \A i \in DOMAIN p[k].labels : Labels(p, p[k].labels[i]) = {<<k, i>>}
  /\ \A q \in Fields(p, None) :
       LET v == FieldValue(p, q, 0, nothing) part == p[q[1]].parts[q[2]]
       IN  v # -1 /\ (part.packed \/ InField(v, part.span))

=============================================================================
