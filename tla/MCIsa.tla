------------------------------- MODULE MCIsa --------------------------------
(***************************************************************************)
(* A small instruction set for the runs of Core and Jit: four registers,   *)
(* the last of which is P, and words of 16 values.  Word w is instruction  *)
(* w of the table.                                                         *)
(***************************************************************************)
EXTENDS Isa, Sequences

type012(p, dd, z, x, y, o, i) ==
  [p |-> p, dd |-> dd, z |-> z, x |-> x, y |-> y, op |-> o, imm |-> i, imm20 |-> 0]
type3(dd, z, x, i) ==
  [p |-> 3, dd |-> dd, z |-> z, x |-> x, y |-> 1, op |-> "-", imm |-> 3, imm20 |-> i]

Table == <<
  type012(0, 0, 1, 0, 3, "-", 5),    \*  0   B  <-  A - P + 5
  type012(1, 0, 2, 1, 3, "-", 1),    \*  1   C  <-  B - 1 + P
  type012(2, 0, 2, 1, 3, "-", 9),    \*  2   C  <-  9 - B + P
  type3  (0, 1, 3, 1),               \*  3   B  <-  P + 1
  type3  (0, 0, 0, 7),               \*  4   A  <-  7
  type3  (0, 3, 0, 2),               \*  5   P  <-  2
  type3  (3, 3, 0, 4),               \*  6   P  <- [4]
  type3  (3, 2, 3, 0),               \*  7   C  <- [P]
  type3  (2, 3, 0, 5),               \*  8  [P] <-  5
  type3  (1, 3, 0, 9),               \*  9   P  -> [9]     (register)
  type3  (2, 1, 2, 3),               \* 10  [B] <-  C + 3
  type3  (1, 2, 1, 2),               \* 11   C  -> [B + 2]
  type3  (1, 1, 0, 9),               \* 12   B  -> [9]
  type3  (3, 2, 0, 9),               \* 13   C  <- [9]
  type3  (3, 1, 0, 12),              \* 14   B  <- [12]    (nobody)
  type3  (3, 3, 3, 15)               \* 15   P  <- [P - 1]
>>

Layout == [w \in Word |-> Table[w + 1]]

OpOn(o, a, b) ==
  CASE o = "|" -> IF a = 0 THEN b ELSE IF b = 0 THEN a ELSE (a + b) % Limit
    [] o = "-" -> (a - b) % Limit

=============================================================================
