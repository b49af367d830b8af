------------------------------- MODULE MCJit --------------------------------
(***************************************************************************)
(* Small programs for Jit: all those of three instructions, followed by    *)
(* one of three others and a jump back to the start.                       *)
(***************************************************************************)
EXTENDS Jit, MCIsa

\* Two more instructions that write a register from P and P from memory: a
\* load that ends a block may reach a word in one run and nobody in the next.
JitLayout == [Layout EXCEPT ![0]  = type012(0, 0, 1, 1, 3, "-", 5),  \* B <- B - P + 5
                            ![15] = type3(3, 3, 1, 5)]               \* P <- [B + 5]

Program(p) ==
  [a \in (2 .. 7) \cup {9} |->
     CASE a = 2 -> p[1] [] a = 3 -> p[2] [] a = 4 -> p[3] [] a = 5 -> p[4] [] OTHER -> 5]

Programs == {Program(p) : p \in Word \X Word \X Word \X {2, 3, 13}}

\* Programs that store P from a loop.
StoringPrograms == {Program(p) : p \in {3} \X Word \X {1} \X {3}}

=============================================================================
