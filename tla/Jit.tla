-------------------------------- MODULE Jit ---------------------------------
(***************************************************************************)
(* The simulator with the jit recipe (src/src/jit.cc).  The interpreter    *)
(* runs under hooks that cut the program into blocks, each from where      *)
(* control enters up to the next instruction that writes P, and count how  *)
(* often a block has run.  At run_count_threshold a block's instructions   *)
(* are cached as they are executed; the time after that they are compiled, *)
(* and from then on the block is run by its compiled code.                 *)
(*                                                                         *)
(* Compiled code leaves regs[P] at the start of the block and adds the     *)
(* distance wherever an instruction reads P as an operand.                 *)
(***************************************************************************)
EXTENDS Isa

CONSTANTS Threshold,  \* run_count_threshold
          Images,     \* the program and its data
          Start,      \* conf.start_addr
          Junk,       \* what an unset variable may hold
          None        \* no block, no code: a null pointer

ASSUME ThresholdAssumption == Threshold \in Nat /\ Threshold > 1
ASSUME StartAssumption == Start \in Word
ASSUME ImagesAssumption == \A m \in Images : DOMAIN m \subseteq Word /\ m \in [DOMAIN m -> Word]
ASSUME JunkAssumption  == Junk \subseteq Word /\ Junk # {}
\* No number and no code is the null pointer.
ASSUME NoneAssumption  == /\ None \notin Nat
                          /\ \A n \in 0 .. Limit : None \notin [0 .. n - 1 -> Word]
ASSUME OrAssumption    == \A w \in Word : Op(OP_BITWISE_OR, 0, w) = w

VARIABLES regs, mem, status,  \* as in Machine
          blocks,             \* basic_blocks: base |-> struct basic_block
          curr,               \* curr_bb, by its base
          off,                \* None, or how far the compiled block has run
          excuse,             \* history: how the program left safe ground
          overrun             \* history: a word was written past a cache

vars == <<regs, mem, status, blocks, curr, off, excuse, overrun>>

\* The interpreter under the hooks.
I == INSTANCE Machine

Init ==
  /\ regs = [k \in RegIdx |-> IF k = P THEN Start ELSE 0]
  /\ mem \in Images
  /\ status = "running"
  /\ blocks = << >> /\ curr = None /\ off = None
  /\ excuse = {} /\ overrun = FALSE

-----------------------------------------------------------------------------
(* Blocks.                                                                 *)

\* cache: the words cached so far; room: how many words it was allocated for.
NewBlock == [run_count |-> 0, len |-> 0, room |-> None, cache |-> << >>, compiled |-> None]

\* pre_insn_hook: the current block, or the one that starts here.
base == IF curr = None THEN regs[P] ELSE curr
bb   == IF base \in DOMAIN blocks THEN blocks[base] ELSE NewBlock

Interpreting == status = "running" /\ off = None /\ I!Fetchable
Distance(a)  == (a - base) % Limit
SetBlock(b)  == [k \in DOMAIN blocks \cup {base} |-> IF k = base THEN b ELSE blocks[k]]

\* run_count has no bound; beyond the threshold its value is not looked at.
Count(b) == IF b.run_count > Threshold THEN b.run_count ELSE b.run_count + 1

\* Mutant of Caching: one run too late.
CachingLate == bb.run_count > Threshold

Caching == bb.run_count = Threshold

\* The block with the word at P cached, if this is the time for it.
Cached ==
  IF Caching
  THEN [bb EXCEPT
          !.room  = IF @ = None THEN bb.len ELSE @,
          !.cache = [d \in DOMAIN @ \cup {Distance(regs[P])} |->
                       IF d = Distance(regs[P]) THEN mem[regs[P]] ELSE @[d]]]
  ELSE bb

Overruns == Caching /\ Distance(regs[P]) >= Cached.room

\* P is being updated.
Last == I!insn.z = P /\ ~Stores(I!insn)

\* Mutant of Length: the last instruction is left out.
LengthShort == Distance(regs[P])

\* The length of the block, known when its last instruction is met.
Length == Distance(regs[P]) + 1

Complete(b) == [b EXCEPT !.len = Length, !.run_count = Count(b)]

-----------------------------------------------------------------------------
(* What is not supported: stores into known blocks, P as the left-hand     *)
(* side of a store, and accesses that no device handles.  The worst of     *)
(* these is a load into P: when it fails, the block it ends goes on.       *)

Known == UNION {{(b + d) % Limit : d \in 0 .. blocks[b].len - 1} : b \in DOMAIN blocks}
Excuses(i, a, compiled) ==
  (IF Stores(i) /\ a \in Known THEN {"modified"} ELSE {})
  \cup (IF Stores(i) /\ i.z = P /\ compiled THEN {"P"} ELSE {})
  \cup (IF (Stores(i) \/ Loads(i)) /\ a \notin DOMAIN mem THEN {"unhandled"} ELSE {})

-----------------------------------------------------------------------------
(* jit_run_sim with the interpreter and its hooks.                         *)

\* pre_insn_hook, run_instruction, post_insn_hook.  When a device asks to
\* end the simulation, the interpreter is called again.
Interpret ==
  /\ Interpreting
  /\ bb.compiled = None /\ bb.run_count <= Threshold
  /\ I!Reaches
  /\ regs' = I!RegsAfter /\ mem' = I!MemAfter
  /\ IF Last THEN blocks' = SetBlock(Complete(Cached)) /\ curr' = None
             ELSE blocks' = SetBlock(Cached) /\ curr' = base
  /\ excuse' = excuse \cup Excuses(I!insn, I!Accessed, FALSE)
  /\ overrun' = (overrun \/ Overruns)
  /\ UNCHANGED <<status, off>>

\* run_instruction fails: post_insn_hook does not run, and the interpreter
\* is called again.
InterpretFails ==
  /\ Interpreting
  /\ bb.compiled = None /\ bb.run_count <= Threshold
  /\ ~I!Reaches
  /\ regs' = I!Advanced
  /\ blocks' = SetBlock(Cached) /\ curr' = base
  /\ excuse' = excuse \cup {"unhandled"} \cup (IF Last THEN {"unended"} ELSE {})
  /\ overrun' = (overrun \/ Overruns)
  /\ UNCHANGED <<mem, status, off>>

\* jit_gen_block; a word that was never cached is whatever was allocated.
Compile ==
  /\ Interpreting
  /\ bb.compiled = None /\ bb.run_count > Threshold
  /\ \E junk \in Junk :
       blocks' = SetBlock([bb EXCEPT
                   !.room = None, !.cache = << >>,
                   !.compiled = [d \in 0 .. bb.len - 1 |->
                                   IF d \in DOMAIN bb.cache THEN bb.cache[d] ELSE junk]])
  /\ curr' = base
  /\ UNCHANGED <<regs, mem, status, off, excuse, overrun>>

\* pre_insn_hook makes the interpreter return, and the block is called.
Enter ==
  /\ Interpreting
  /\ bb.compiled # None
  /\ curr' = base /\ off' = 0
  /\ UNCHANGED <<regs, mem, status, blocks, excuse, overrun>>

End ==
  /\ off = None
  /\ I!End
  /\ UNCHANGED <<blocks, curr, off, excuse, overrun>>

Stopped == status # "running" /\ UNCHANGED vars

-----------------------------------------------------------------------------
(* The code of buildInstruction, an instruction at a time.                 *)

code == Fields[blocks[curr].compiled[off]]

\* Mutant of Operand: P is taken to be the instruction's own address.
OperandEarly(k) ==
  CASE k = 0 -> 0
    [] k = P -> Plus(regs[P], off)
    [] OTHER -> regs[k]

Operand(k) ==
  CASE k = 0 -> 0
    [] k = P -> Plus(regs[P], off + 1)
    [] OTHER -> regs[k]

A ==
  LET x == Operand(code.x)
      y == Operand(code.y)
      i == code.imm
  IN  CASE code.p = 0 -> Plus(Op(code.op, x, y), i)
        [] code.p = 1 -> Plus(Op(code.op, x, i), y)
        [] code.p = 2 -> Plus(Op(code.op, i, x), y)
        [] code.p = 3 -> Plus(x, code.imm20)

\* The left-hand side of a store is read without the distance, even if it is P.
Target == IF code.dd = 2 THEN regs[code.z] ELSE A
Value  == IF code.dd = 2 THEN A ELSE regs[code.z]

\* store() and fetch() do not pass on that no device handled the access.
RunCode ==
  /\ status = "running" /\ off # None
  /\ off < blocks[curr].len
  /\ IF Stores(code)
     THEN /\ mem' = IF Target \in DOMAIN mem THEN [mem EXCEPT ![Target] = Value] ELSE mem
          /\ UNCHANGED regs
     ELSE /\ IF ~Loads(code) THEN regs' = Put(regs, code.z, A)
             ELSE IF A \in DOMAIN mem THEN regs' = Put(regs, code.z, mem[A])
             ELSE \E junk \in Junk : regs' = Put(regs, code.z, junk)
          /\ UNCHANGED mem
  /\ excuse' = excuse \cup Excuses(code, Target, TRUE)
  /\ IF off + 1 < blocks[curr].len
     THEN off' = off + 1 /\ UNCHANGED <<blocks, curr>>
     ELSE /\ off' = None /\ curr' = None
          /\ blocks' = [blocks EXCEPT ![curr].run_count = Count(blocks[curr])]
  /\ UNCHANGED <<status, overrun>>

Next ==
  \/ Interpret \/ InterpretFails \/ Compile \/ Enter \/ RunCode
  \/ End \/ Stopped

Spec == Init /\ [][Next]_vars /\ WF_vars(Next)

-----------------------------------------------------------------------------
(* Properties                                                              *)

\* Every variable has its type.
TypeOK ==
  /\ regs \in [RegIdx -> Word]
  /\ \A a \in DOMAIN mem : a \in Word /\ mem[a] \in Word
  /\ status \in {"running", "ended"}
  /\ DOMAIN blocks \subseteq Word
  /\ \A b \in DOMAIN blocks :
       /\ blocks[b].run_count \in 0 .. Threshold + 1
       /\ blocks[b].len \in 0 .. Limit
       /\ DOMAIN blocks[b].cache \subseteq Word
  /\ curr \in DOMAIN blocks \cup {None}
  /\ off # None => curr # None /\ off \in 0 .. blocks[curr].len - 1
  /\ excuse \subseteq {"modified", "P", "unhandled", "unended"}
  /\ overrun \in BOOLEAN

\* P as the program sees it, in compiled code too.
visible == [regs EXCEPT ![P] = IF off = None THEN @ ELSE Plus(@, off)]

M == INSTANCE Machine WITH regs <- visible

Faithful(excuses) ==
  excuse' \subseteq excuses => UNCHANGED <<visible, mem>> \/ M!run_instruction

\* Compiled or not, the program runs as the interpreter alone would run it
\* (mk/aux.mk runs the same tests with -rjit), as long as it does not write
\* into its own code, store P or use an address that nobody handles.
RunsMachine == [][Faithful({})]_vars

\* The words of the blocks are still those the blocks were measured by.
Steady == excuse \cap {"modified", "unended"} = {}

\* A block's instructions fit in what was allocated for them, unless the
\* program has changed them or the load that ends a block has failed.
CacheFits == Steady => ~overrun

\* When a block is compiled all its instructions have been cached, and they
\* are still those of the program.
CompiledIsProgram ==
  Steady =>
    \A b \in DOMAIN blocks : blocks[b].compiled # None =>
      /\ blocks[b].len > 0
      /\ \A d \in 0 .. blocks[b].len - 1 :
           (b + d) % Limit \in DOMAIN mem /\ blocks[b].compiled[d] = mem[(b + d) % Limit]

\* P on the left-hand side of a store is the address of the next instruction,
\* compiled or not.
StoresP == [][Faithful({"P"})]_vars

=============================================================================
