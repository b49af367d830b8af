------------------------------ MODULE Machine -------------------------------
(***************************************************************************)
(* The simulator's interpreter (interp_run_sim and run_instruction in      *)
(* src/src/sim.c): registers and a memory, one instruction after another.  *)
(* It is also what the Verilog core of Core.tla is compared with.          *)
(*                                                                         *)
(* mem stands for what dispatch_op finds at an address: a word that reads  *)
(* back as it was written, or no device at all outside DOMAIN mem.         *)
(***************************************************************************)
EXTENDS Isa

VARIABLES regs,    \* s->machine.regs
          mem,     \* address |-> word
          status   \* "running", or how interp_run_sim returned

vars == <<regs, mem, status>>

EndAddress == Limit - 1             \* 0xffffffff

Fetchable == regs[P] # EndAddress /\ regs[P] \in DOMAIN mem

insn     == Fields[mem[regs[P]]]
Advanced == [regs EXCEPT ![P] = Plus(@, 1)]
Accessed == Address(insn, Advanced)
Reaches  == Loads(insn) \/ Stores(insn) => Accessed \in DOMAIN mem

RegsAfter ==
  IF Stores(insn) THEN Advanced
  ELSE Put(Advanced, insn.z, IF Loads(insn) THEN mem[Accessed] ELSE rhs(insn, Advanced))

MemAfter ==
  IF Stores(insn) THEN [mem EXCEPT ![Accessed] = Stored(insn, Advanced)] ELSE mem

\* An instruction, and post_insn, by which a device may end the simulation.
run_instruction ==
  /\ status = "running" /\ Fetchable /\ Reaches
  /\ regs' = RegsAfter /\ mem' = MemAfter
  /\ status' \in {"running", "quit"}

\* A load or a store that no device handles; P stays advanced.
Unhandled ==
  /\ status = "running" /\ Fetchable /\ ~Reaches
  /\ regs' = Advanced
  /\ status' = "failed"
  /\ UNCHANGED mem

\* P is the end address, or no device handles the fetch.
End ==
  /\ status = "running" /\ ~Fetchable
  /\ status' = "ended"
  /\ UNCHANGED <<regs, mem>>

Next == run_instruction \/ Unhandled \/ End

=============================================================================
