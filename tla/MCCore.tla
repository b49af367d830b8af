------------------------------- MODULE MCCore -------------------------------
(***************************************************************************)
(* Small programs for Core: six words of RAM and one memory-mapped         *)
(* register.                                                               *)
(***************************************************************************)
EXTENDS Core, MCIsa

RamWords == 2 .. 7
Programs ==
  {[a \in RamWords \cup {9} |->
      CASE a = 2 -> p[1] [] a = 3 -> p[2] [] a = 4 -> p[3] [] a = 5 -> 3 [] OTHER -> 5] :
     p \in {0, 3, 7, 8, 9} \X {1, 2, 10, 11, 12} \X {4, 6, 13, 14}}

=============================================================================
