----------------------------- MODULE JitProofs ------------------------------
(***************************************************************************)
(* Proofs about Jit.tla, for every instruction set, word size, program,    *)
(* threshold and contents of unset variables.                              *)
(*                                                                         *)
(* The argument: a block that has been run once ends with an instruction   *)
(* that writes P, so that no later run passes it; one that has been run    *)
(* twice has no such instruction before.  A threshold above 1 makes the    *)
(* run in which a block is cached at least the third.                      *)
(***************************************************************************)
EXTENDS Jit, TLAPS

-----------------------------------------------------------------------------
(* The invariant.  m is the memory, b the base of a block r, p what P is.  *)

WritesP(w) == Fields[w].z = P /\ ~Stores(Fields[w])

Caches == UNION {[D -> Word] : D \in SUBSET Word}
Codes  == UNION {[0 .. n - 1 -> Word] : n \in 0 .. Limit}
Block  == [run_count : 0 .. Threshold + 1, len : 0 .. Limit - 1,
           room : 0 .. Limit \cup {None}, cache : Caches, compiled : Codes \cup {None}]

\* f holds the first n words from b on.
Copied(m, b, f, n) == DOMAIN f = 0 .. n - 1 /\ \A d \in 0 .. n - 1 : f[d] = m[b + d]

\* What is true of a block whatever the program does.
Shape(m, b, r) ==
  /\ r \in Block
  /\ r.run_count >= 1 =>
       r.len >= 1 /\ b + r.len < Limit /\ \A d \in 0 .. r.len - 1 : b + d \in DOMAIN m
  /\ r.run_count < Threshold => r.cache = << >> /\ r.room = None
  /\ r.compiled # None => r.run_count > Threshold /\ r.compiled \in [0 .. r.len - 1 -> Word]

\* What is true of it while the program is steady; k is how far its current
\* run has come.
Content(m, b, r, k) ==
  /\ r.run_count >= 1 => WritesP(m[b + r.len - 1])
  /\ r.run_count >= 2 => \A d \in 0 .. r.len - 2 : ~WritesP(m[b + d])
  /\ r.run_count = Threshold =>
       /\ Copied(m, b, r.cache, k)
       /\ k = 0 => r.room = None
       /\ k > 0 => r.room = r.len
  /\ (r.run_count > Threshold /\ r.compiled = None) => Copied(m, b, r.cache, r.len)
  /\ r.compiled # None => Copied(m, b, r.compiled, r.len)

\* How the interpreter goes through a block.
Course(m, b, r, p) ==
  /\ p >= b /\ \A a \in b .. p - 1 : a \in DOMAIN m
  /\ r.run_count > Threshold => p = b
Straight(m, b, r, p) ==
  r.run_count >= 1 => p < b + r.len /\ \A a \in b .. p - 1 : ~WritesP(m[a])

Machinery ==
  /\ regs \in [RegIdx -> Word] /\ regs[0] = 0
  /\ DOMAIN mem \subseteq Word /\ mem \in [DOMAIN mem -> Word]
Ghosts ==
  /\ status \in {"running", "ended"}
  /\ excuse \subseteq {"modified", "P", "unhandled", "unended"} /\ overrun \in BOOLEAN
BlocksOK ==
  /\ DOMAIN blocks \subseteq Word
  /\ blocks = [b \in DOMAIN blocks |-> blocks[b]]
  /\ \A b \in DOMAIN blocks : Shape(mem, b, blocks[b])
Position ==
  /\ curr \in DOMAIN blocks \cup {None}
  /\ off # None => /\ curr # None /\ blocks[curr].compiled # None
                   /\ off \in 0 .. blocks[curr].len - 1
  /\ (off = None /\ curr # None) => Course(mem, curr, blocks[curr], regs[P])

Progress(b) == IF curr = b THEN regs[P] - b ELSE 0

Kept ==
  /\ ~overrun
  /\ \A b \in DOMAIN blocks : Content(mem, b, blocks[b], Progress(b))
  /\ (off = None /\ curr # None) => Straight(mem, curr, blocks[curr], regs[P])
  /\ off # None => regs[P] = curr

Inv == Machinery /\ Ghosts /\ BlocksOK /\ Position /\ (Steady => Kept)

-----------------------------------------------------------------------------
(* Words and instructions.                                                 *)

LEMMA WordFacts ==
  /\ 0 \in Word /\ Word \subseteq Nat /\ None \notin Word
  /\ \A a, b \in Int : Plus(a, b) \in Word
  /\ \A a, b \in Nat : a + b < Limit => Plus(a, b) = a + b
  /\ \A a, b \in Word : a >= b => (a - b) % Limit = a - b
  /\ \A a \in Word : a \in Int
  /\ \A a \in Word : a + 1 < Limit => Plus(a, 1) = a + 1 /\ Plus(a, 1) \in Word
<1>1. Limit \in Nat /\ Limit > 0
  BY LimitAssumption
<1>2. 0 \in Word /\ Word \subseteq Nat /\ None \notin Word
  BY <1>1, NoneAssumption DEF Word
<1>3. \A a, b \in Int : Plus(a, b) \in Word
  BY <1>1 DEF Plus, Word
<1>4. \A n \in Int : 0 <= n /\ n < Limit => n % Limit = n
  BY <1>1
<1>5. \A a, b \in Nat : a + b < Limit => Plus(a, b) = a + b
  BY <1>1, <1>4 DEF Plus
<1>6. \A a, b \in Word : a >= b => (a - b) % Limit = a - b
  BY <1>1, <1>4 DEF Word
<1>7. \A a \in Word : a \in Int
  BY <1>2
<1>8. \A a \in Word : a + 1 < Limit => Plus(a, 1) = a + 1 /\ Plus(a, 1) \in Word
  BY <1>1, <1>4 DEF Plus, Word
<1>9. QED
  BY <1>2, <1>3, <1>5, <1>6, <1>7, <1>8

LEMMA Places == P \in RegIdx /\ P # 0 /\ 0 \in RegIdx
BY RegAssumption

\* The interpreter's instructions are those of the compiler.
LEMMA SameIsa ==
  /\ \A i : (I!Loads(i) <=> Loads(i)) /\ (I!Stores(i) <=> Stores(i))
  /\ \A a, b : I!Plus(a, b) = Plus(a, b)
  /\ \A i, r : /\ I!rhs(i, r) = rhs(i, r) /\ I!Address(i, r) = Address(i, r)
               /\ I!Stored(i, r) = Stored(i, r)
  /\ \A r, z, v : I!Put(r, z, v) = Put(r, z, v)
<1>1. \A i : (I!Loads(i) <=> Loads(i)) /\ (I!Stores(i) <=> Stores(i))
  BY DEF I!Loads, Loads, I!Stores, Stores
<1>2. \A a, b : I!Plus(a, b) = Plus(a, b)
  BY DEF I!Plus, Plus
<1>3. \A i, r : I!rhs(i, r) = rhs(i, r)
  BY ZenonT(60) DEF I!rhs, rhs, I!Operands, Operands, I!Plus, Plus
<1>4. \A i, r : I!Address(i, r) = Address(i, r) /\ I!Stored(i, r) = Stored(i, r)
  BY <1>3, Zenon DEF I!Address, Address, I!Stored, Stored
<1>5. \A r, z, v : I!Put(r, z, v) = Put(r, z, v)
  BY Zenon DEF I!Put, Put
<1>6. QED
  BY <1>1, <1>2, <1>3, <1>4, <1>5

\* Whatever an instruction computes is a word.
LEMMA ResultTypes ==
  ASSUME NEW i \in Insn, NEW r \in [RegIdx -> Word]
  PROVE  /\ rhs(i, r) \in Word /\ Address(i, r) \in Word /\ Stored(i, r) \in Word
<1>1. /\ r[i.x] \in Word /\ r[i.y] \in Word /\ r[i.z] \in Word
      /\ i.imm \in Word /\ i.imm20 \in Word /\ i.op \in Opcodes /\ i.p \in 0 .. 3
  BY DEF Insn
<1>2. ASSUME NEW o \in Opcodes, NEW a \in Word, NEW b \in Word, NEW c \in Word
      PROVE  Plus(Op(o, a, b), c) \in Word
  <2>1. Op(o, a, b) \in Word
    BY OpAssumption
  <2>2. Op(o, a, b) \in Int /\ c \in Int
    BY <2>1, WordFacts, Zenon
  <2>3. QED
    BY <2>2, WordFacts, Zenon
<1>3. rhs(i, r) \in Word
  <2>1. CASE i.p = 0
    BY <1>1, <1>2, <2>1 DEF rhs, Operands
  <2>2. CASE i.p = 1
    BY <1>1, <1>2, <2>2 DEF rhs, Operands
  <2>3. CASE i.p = 2
    BY <1>1, <1>2, <2>3 DEF rhs, Operands
  <2>4. CASE i.p = 3
    BY <1>1, <1>2, <2>4, WordFacts, OpcodeAssumption, ZenonT(60) DEF rhs, Operands
  <2>5. QED
    BY <1>1, <2>1, <2>2, <2>3, <2>4
<1>4. QED
  BY <1>1, <1>3 DEF Address, Stored

\* Register 0 is never written.
LEMMA PutTypes ==
  ASSUME NEW r \in [RegIdx -> Word], r[0] = 0, NEW z \in RegIdx, NEW v \in Word
  PROVE  /\ Put(r, z, v) \in [RegIdx -> Word] /\ Put(r, z, v)[0] = 0
         /\ \A k \in RegIdx : k # z => Put(r, z, v)[k] = r[k]
BY Places DEF Put

\* The instruction at P, and the registers once P is incremented.
LEMMA Fetched ==
  ASSUME Machinery, I!Fetchable
  PROVE  /\ regs[P] \in Word /\ regs[P] + 1 < Limit /\ mem[regs[P]] \in Word
         /\ regs[P] \in DOMAIN mem
         /\ I!insn \in Insn /\ (Last <=> WritesP(mem[regs[P]]))
         /\ I!Advanced \in [RegIdx -> Word] /\ I!Advanced[0] = 0
         /\ I!Advanced[P] = regs[P] + 1
         /\ I!Accessed \in Word
<1>1. regs[P] \in Word /\ regs[P] # Limit - 1 /\ regs[P] \in DOMAIN mem
  BY Places DEF Machinery, I!Fetchable, I!EndAddress
<1>2. regs[P] + 1 < Limit
  BY <1>1, LimitAssumption DEF Word
<1>3. mem[regs[P]] \in Word
  BY <1>1 DEF Machinery
<1>4. I!insn \in Insn
  BY <1>3, FieldsAssumption DEF I!insn
<1>5. Last <=> WritesP(mem[regs[P]])
  BY DEF Last, WritesP, I!insn
<1>6. Plus(regs[P], 1) = regs[P] + 1 /\ Plus(regs[P], 1) \in Word
  BY <1>1, <1>2, WordFacts, Zenon
<1>7. /\ I!Advanced \in [RegIdx -> Word] /\ I!Advanced[0] = 0
      /\ I!Advanced[P] = regs[P] + 1
  BY <1>6, Places, SameIsa DEF Machinery, I!Advanced
<1>8. I!Accessed \in Word
  BY <1>4, <1>7, ResultTypes, SameIsa DEF I!Accessed
<1>9. QED
  BY <1>1, <1>2, <1>3, <1>4, <1>5, <1>7, <1>8

\* What an instruction leaves: P is the next address, unless it writes P.
LEMMA Executed ==
  ASSUME Machinery, I!Fetchable, I!Reaches
  PROVE  /\ I!RegsAfter \in [RegIdx -> Word] /\ I!RegsAfter[0] = 0
         /\ ~Last => I!RegsAfter[P] = regs[P] + 1
         /\ DOMAIN I!MemAfter = DOMAIN mem /\ I!MemAfter \in [DOMAIN mem -> Word]
         /\ Last => I!MemAfter = mem
         /\ \A a \in DOMAIN mem :
              a # I!Accessed \/ ~Stores(I!insn) => I!MemAfter[a] = mem[a]
<1>1. I!insn \in Insn /\ I!insn.z \in RegIdx
  BY Fetched DEF Insn
<1>2. /\ I!Advanced \in [RegIdx -> Word] /\ I!Advanced[0] = 0
      /\ I!Advanced[P] = regs[P] + 1
  BY Fetched
<1>3. rhs(I!insn, I!Advanced) \in Word /\ Stored(I!insn, I!Advanced) \in Word
  BY <1>1, <1>2, ResultTypes
<1>4. Loads(I!insn) => mem[I!Accessed] \in Word
  BY SameIsa DEF I!Reaches, Machinery
<1>5. CASE Stores(I!insn)
  <2>1. I!RegsAfter = I!Advanced /\ ~Last
    BY <1>5, SameIsa DEF I!RegsAfter, Last
  <2>2. /\ DOMAIN I!MemAfter = DOMAIN mem /\ I!MemAfter \in [DOMAIN mem -> Word]
        /\ \A a \in DOMAIN mem : a # I!Accessed => I!MemAfter[a] = mem[a]
    BY <1>3, <1>5, SameIsa DEF I!MemAfter, Machinery
  <2>3. QED
    BY <1>2, <1>5, <2>1, <2>2
<1>6. CASE ~Stores(I!insn)
  <2> DEFINE v == IF Loads(I!insn) THEN mem[I!Accessed] ELSE rhs(I!insn, I!Advanced)
  <2>1. v \in Word
    BY <1>3, <1>4
  <2>2. I!RegsAfter = Put(I!Advanced, I!insn.z, v) /\ I!MemAfter = mem
    BY <1>6, SameIsa DEF I!RegsAfter, I!MemAfter
  <2>3. /\ I!RegsAfter \in [RegIdx -> Word] /\ I!RegsAfter[0] = 0
        /\ P # I!insn.z => I!RegsAfter[P] = I!Advanced[P]
    <3> HIDE DEF v
    <3>1. QED
      BY <1>1, <1>2, <2>1, <2>2, PutTypes, Places, ZenonT(60)
  <2>4. QED
    BY <1>2, <1>6, <2>2, <2>3 DEF Machinery, Last
<1>7. QED
  BY <1>5, <1>6

-----------------------------------------------------------------------------
(* Blocks.                                                                 *)

\* Only the words of a block matter to it.
LEMMA SameWords ==
  ASSUME NEW m, NEW n, NEW b \in Nat, NEW r, NEW k, Shape(m, b, r), DOMAIN n = DOMAIN m
  PROVE  /\ Shape(n, b, r)
         /\ Content(m, b, r, k) /\ (r.run_count = Threshold => k \in 0 .. r.len)
            /\ (\A d \in 0 .. r.len - 1 : n[b + d] = m[b + d]) => Content(n, b, r, k)
<1>1. Shape(n, b, r)
  BY DEF Shape
<1>2. ASSUME Content(m, b, r, k), r.run_count = Threshold => k \in 0 .. r.len,
             \A d \in 0 .. r.len - 1 : n[b + d] = m[b + d]
      PROVE  Content(n, b, r, k)
  <2>1. r.run_count \in Nat /\ r.len \in Nat /\ Threshold \in Nat /\ Threshold > 1
    BY ThresholdAssumption, LimitAssumption DEF Shape, Block
  <2>2. r.run_count >= 1 => WritesP(n[b + r.len - 1])
    <3>1. SUFFICES ASSUME r.run_count >= 1 PROVE n[b + r.len - 1] = m[b + r.len - 1]
      BY <1>2 DEF Content
    <3>2. r.len - 1 \in 0 .. r.len - 1 /\ b + (r.len - 1) = b + r.len - 1
      BY <2>1, <3>1 DEF Shape
    <3>3. QED
      BY <1>2, <3>2
  <2>3. r.run_count >= 2 => \A d \in 0 .. r.len - 2 : ~WritesP(n[b + d])
    BY <1>2, <2>1 DEF Content
  <2>4. r.run_count = Threshold => Copied(n, b, r.cache, k)
    BY <1>2, <2>1, SMTT(30) DEF Content, Copied
  <2>5. (r.run_count > Threshold /\ r.compiled = None) => Copied(n, b, r.cache, r.len)
    BY <1>2 DEF Content, Copied
  <2>6. r.compiled # None => Copied(n, b, r.compiled, r.len)
    BY <1>2 DEF Content, Copied
  <2>7. QED
    BY <1>2, <2>2, <2>3, <2>4, <2>5, <2>6 DEF Content
<1>3. QED
  BY <1>1, <1>2

\* A block that has not been run is consistent with everything.
LEMMA NewBlockOK ==
  ASSUME NEW m, NEW b, NEW k
  PROVE  Shape(m, b, NewBlock) /\ Content(m, b, NewBlock, k)
<1>1. << >> \in Caches
  <2>1. << >> \in [{} -> Word]
    OBVIOUS
  <2>2. QED
    BY <2>1 DEF Caches
<1>2. NewBlock \in Block
  BY <1>1, ThresholdAssumption, LimitAssumption DEF NewBlock, Block
<1>3. NewBlock.run_count = 0 /\ NewBlock.compiled = None /\ NewBlock.room = None
      /\ NewBlock.cache = << >>
  BY DEF NewBlock
<1>4. 0 < Threshold /\ ~(0 > Threshold) /\ ~(0 >= 1) /\ ~(0 >= 2) /\ 0 # Threshold
  BY ThresholdAssumption
<1>5. QED
  BY <1>2, <1>3, <1>4 DEF Shape, Content

\* The word at p is cached when it is met: how far the cache is filled keeps
\* up with p, and there is room as long as p is inside of the block.
LEMMA CachedOK ==
  ASSUME BlocksOK, Machinery, base \in Word, regs[P] \in DOMAIN mem, regs[P] >= base,
         Shape(mem, base, bb), bb.run_count <= Threshold
  PROVE  /\ Shape(mem, base, Cached)
         /\ Cached.run_count = bb.run_count /\ Cached.len = bb.len
         /\ Cached.compiled = None
         /\ bb.run_count < Threshold => Cached = bb
         /\ Content(mem, base, bb, regs[P] - base)
            /\ Straight(mem, base, bb, regs[P]) =>
              /\ ~Overruns
              /\ Content(mem, base, Cached, regs[P] + 1 - base)
<1>1. regs[P] \in Word /\ base \in Nat /\ regs[P] \in Nat /\ mem[regs[P]] \in Word
  BY Places, WordFacts DEF Machinery
<1>2. Distance(regs[P]) = regs[P] - base
  BY <1>1, WordFacts DEF Distance
<1>3. /\ bb \in Block /\ bb.run_count \in Nat /\ bb.len \in Nat
      /\ Threshold \in Nat /\ Threshold > 1
  BY ThresholdAssumption, LimitAssumption DEF Shape, Block
<1>4. bb.compiled = None
  BY <1>3 DEF Shape
<1>5. CASE bb.run_count # Threshold
  <2>1. Cached = bb /\ ~Overruns
    BY <1>5 DEF Cached, Overruns, Caching
  <2>2. Content(mem, base, bb, regs[P] - base) => Content(mem, base, bb, regs[P] + 1 - base)
    BY <1>5 DEF Content
  <2>3. QED
    BY <1>4, <2>1, <2>2
<1>6. CASE bb.run_count = Threshold
  <2> DEFINE k == regs[P] - base
             room == IF bb.room = None THEN bb.len ELSE bb.room
             cache == [d \in DOMAIN bb.cache \cup {k} |->
                         IF d = k THEN mem[regs[P]] ELSE bb.cache[d]]
  <2>1. Cached = [bb EXCEPT !.room = room, !.cache = cache]
    BY <1>2, <1>6 DEF Cached, Caching
  <2>2. k \in Word
    BY <1>1, LimitAssumption DEF Word
  <2>3. room \in 0 .. Limit \cup {None}
    BY <1>3, LimitAssumption DEF Block
  <2>4. cache \in Caches
    <3>1. PICK D \in SUBSET Word : bb.cache \in [D -> Word]
      BY <1>3 DEF Block, Caches
    <3>2. cache \in [D \cup {k} -> Word] /\ D \cup {k} \in SUBSET Word
      BY <1>1, <2>2, <3>1
    <3> HIDE DEF cache, k
    <3>3. QED
      BY <3>2 DEF Caches
  <2> HIDE DEF cache, room
  <2>5. /\ Cached \in Block /\ Cached.room = room /\ Cached.cache = cache
        /\ Cached.run_count = bb.run_count /\ Cached.len = bb.len
        /\ Cached.compiled = bb.compiled
    BY <1>3, <2>1, <2>3, <2>4 DEF Block
  <2>6. Shape(mem, base, Cached)
    BY <1>3, <1>4, <1>6, <2>5 DEF Shape
  <2>7. ASSUME Content(mem, base, bb, regs[P] - base), Straight(mem, base, bb, regs[P])
        PROVE  ~Overruns /\ Content(mem, base, Cached, regs[P] + 1 - base)
    <3>1. k \in Nat /\ k < bb.len
      BY <1>1, <1>3, <1>6, <2>7 DEF Straight
    <3>2. room = bb.len
      <4>1. CASE k = 0
        BY <1>6, <2>7, <4>1 DEF Content, room
      <4>2. CASE k > 0
        <5>1. bb.room = bb.len
          BY <1>6, <2>7, <4>2 DEF Content
        <5>2. QED
          BY <5>1 DEF room
      <4>3. QED
        BY <3>1, <4>1, <4>2
    <3>3. ~Overruns
      BY <1>2, <1>3, <2>5, <3>1, <3>2 DEF Overruns
    <3>4. Copied(mem, base, cache, regs[P] + 1 - base)
      <4>1. DOMAIN bb.cache = 0 .. k - 1 /\ \A d \in 0 .. k - 1 : bb.cache[d] = mem[base + d]
        BY <1>6, <2>7 DEF Content, Copied
      <4>2. regs[P] + 1 - base = k + 1 /\ base + k = regs[P]
        BY <1>1
      <4> HIDE DEF k
      <4>3. DOMAIN cache = 0 .. k
        BY <3>1, <4>1 DEF cache
      <4>4. ASSUME NEW d \in 0 .. k PROVE cache[d] = mem[base + d]
        <5>1. CASE d = k
          BY <4>1, <4>2, <5>1 DEF cache
        <5>2. CASE d # k
          <6>1. d \in 0 .. k - 1
            BY <3>1, <5>2
          <6>2. QED
            BY <4>1, <5>2, <6>1 DEF cache
        <5>3. QED
          BY <5>1, <5>2
      <4>5. (k + 1) - 1 = k
        BY <3>1
      <4>6. QED
        BY <4>2, <4>3, <4>4, <4>5 DEF Copied
    <3>5. regs[P] + 1 - base > 0 /\ regs[P] + 1 - base # 0
      BY <1>1
    <3>6. Cached.run_count = Threshold /\ ~(Threshold > Threshold)
      BY <1>3, <1>6, <2>5
    <3>7. QED
      BY <1>4, <2>5, <2>7, <3>2, <3>3, <3>4, <3>5, <3>6 DEF Content
  <2>8. QED
    BY <1>3, <1>4, <1>6, <2>5, <2>6, <2>7
<1>7. QED
  BY <1>5, <1>6

\* The block the interpreter is in, or is about to enter.
LEMMA InBlock ==
  ASSUME Inv, off = None, I!Fetchable
  PROVE  /\ base \in Word /\ curr \in {None, base} /\ (base \in DOMAIN blocks => bb = blocks[base])
         /\ Shape(mem, base, bb) /\ Course(mem, base, bb, regs[P])
         /\ Steady => /\ Content(mem, base, bb, regs[P] - base)
                      /\ Straight(mem, base, bb, regs[P])
<1>1. regs[P] \in Word /\ regs[P] \in Nat
  BY Fetched, WordFacts DEF Inv
<1>2. CASE curr = None
  <2>1. base = regs[P] /\ base \in Word
    BY <1>1, <1>2 DEF base
  <2>2. Shape(mem, base, bb)
    BY NewBlockOK DEF bb, Inv, BlocksOK
  <2>3. Course(mem, base, bb, regs[P])
    BY <1>1, <2>1 DEF Course
  <2>4. ASSUME Steady PROVE Content(mem, base, bb, regs[P] - base)
    <3>1. CASE base \in DOMAIN blocks
      <4>1. Progress(base) = 0 /\ regs[P] - base = 0
        BY <1>1, <1>2, <2>1, WordFacts DEF Progress
      <4>2. Content(mem, base, blocks[base], Progress(base))
        BY <2>4, <3>1 DEF Inv, Kept
      <4>3. QED
        BY <3>1, <4>1, <4>2 DEF bb
    <3>2. CASE base \notin DOMAIN blocks
      BY <3>2, NewBlockOK DEF bb
    <3>3. QED
      BY <3>1, <3>2
  <2>5. Straight(mem, base, bb, regs[P])
    <3>1. bb.run_count >= 1 => bb.len >= 1 /\ bb.len \in Nat
      BY <2>2, LimitAssumption DEF Shape, Block
    <3>2. QED
      BY <1>1, <2>1, <3>1 DEF Straight
  <2>6. QED
    BY <1>2, <2>1, <2>2, <2>3, <2>4, <2>5 DEF bb
<1>3. CASE curr # None
  <2>1. base = curr /\ curr \in DOMAIN blocks /\ bb = blocks[curr] /\ base \in Word
    BY <1>3 DEF base, bb, Inv, Position, BlocksOK
  <2>2. Shape(mem, base, bb) /\ Course(mem, base, bb, regs[P])
    BY <1>3, <2>1 DEF Inv, BlocksOK, Position
  <2>3. Steady => Content(mem, base, bb, regs[P] - base) /\ Straight(mem, base, bb, regs[P])
    <3>1. Progress(curr) = regs[P] - curr
      BY DEF Progress
    <3>2. QED
      BY <1>3, <2>1, <3>1 DEF Inv, Kept
  <2>4. QED
    BY <2>1, <2>2, <2>3
<1>4. QED
  BY <1>2, <1>3

\* Changing one block leaves the others alone.
LEMMA SetBlockOK ==
  ASSUME NEW r, base \in Word, DOMAIN blocks \subseteq Word, blocks' = SetBlock(r)
  PROVE  /\ DOMAIN blocks' = DOMAIN blocks \cup {base} /\ DOMAIN blocks' \subseteq Word
         /\ blocks' = [b \in DOMAIN blocks' |-> blocks'[b]]
         /\ blocks'[base] = r
         /\ \A b \in DOMAIN blocks : b # base => blocks'[b] = blocks[b]
BY DEF SetBlock

\* The numbers of a block.
LEMMA BlockNumbers ==
  ASSUME BlocksOK, NEW b \in DOMAIN blocks
  PROVE  /\ Shape(mem, b, blocks[b]) /\ b \in Word /\ b \in Nat
         /\ blocks[b].len \in Nat /\ blocks[b].run_count \in Nat
<1>1. Shape(mem, b, blocks[b]) /\ b \in Word
  BY DEF BlocksOK
<1>2. b \in Nat
  BY <1>1, WordFacts
<1>3. blocks[b] \in Block
  BY <1>1 DEF Shape
<1>4. blocks[b].len \in Nat /\ blocks[b].run_count \in Nat
  BY <1>3, LimitAssumption, ThresholdAssumption DEF Block
<1>5. QED
  BY <1>1, <1>2, <1>4

\* The words of a block are known.
LEMMA KnownWords ==
  ASSUME BlocksOK, NEW b \in DOMAIN blocks, NEW d \in 0 .. blocks[b].len - 1
  PROVE  blocks[b].run_count >= 1 => b + d \in Known
<1>1. /\ Shape(mem, b, blocks[b]) /\ b \in Word /\ b \in Nat /\ Limit \in Nat
      /\ blocks[b].len \in Nat
  BY BlockNumbers, LimitAssumption
<1>2. ASSUME blocks[b].run_count >= 1 PROVE b + d = (b + d) % Limit
  <2>1. b + blocks[b].len < Limit
    BY <1>1, <1>2 DEF Shape
  <2>2. d \in Nat /\ b + d < Limit
    <3>1. d \in Nat /\ d < blocks[b].len
      BY <1>1
    <3>2. QED
      BY <1>1, <2>1, <3>1
  <2>3. Plus(b, d) = b + d
    BY <1>1, <2>2, WordFacts, Zenon
  <2>4. QED
    BY <2>3 DEF Plus
<1>3. (b + d) % Limit \in Known
  BY DEF Known
<1>4. QED
  BY <1>2, <1>3

\* How another block than the one that is running is affected by a step.
LEMMA OtherBlocks ==
  ASSUME Inv, DOMAIN mem' = DOMAIN mem, NEW b \in DOMAIN blocks, curr # b, curr' # b,
         blocks'[b] = blocks[b],
         Steady' => Steady /\ \A d \in 0 .. blocks[b].len - 1 : mem'[b + d] = mem[b + d]
  PROVE  /\ Shape(mem', b, blocks'[b])
         /\ Steady' => Content(mem', b, blocks'[b], Progress(b)')
<1>1. Shape(mem, b, blocks[b]) /\ b \in Nat /\ blocks[b].len \in Nat
  BY BlockNumbers DEF Inv
<1>2. Progress(b) = 0 /\ Progress(b)' = 0 /\ 0 \in 0 .. blocks[b].len
  BY <1>1 DEF Progress
<1>3. Steady' => Content(mem, b, blocks[b], 0)
  BY <1>2 DEF Inv, Kept
<1>4. QED
  BY <1>1, <1>2, <1>3, SameWords

\* An instruction that does not end the block, or fails: the block goes on.
LEMMA OnwardInv ==
  ASSUME Inv, off = None, I!Fetchable, bb.compiled = None, bb.run_count <= Threshold,
         blocks' = SetBlock(Cached), curr' = base, off' = off,
         regs'[P] = regs[P] + 1, Machinery', Ghosts', DOMAIN mem' = DOMAIN mem,
         overrun' = (overrun \/ Overruns),
         Steady' => /\ Steady /\ ~WritesP(mem[regs[P]])
                    /\ \A b \in DOMAIN blocks : \A d \in 0 .. blocks[b].len - 1 :
                         blocks[b].run_count >= 1 => mem'[b + d] = mem[b + d]
  PROVE  Inv'
<1>1. regs[P] \in Word /\ regs[P] \in Nat /\ regs[P] \in DOMAIN mem /\ regs[P] + 1 < Limit
  BY Fetched, WordFacts DEF Inv
<1>2. /\ base \in Word /\ curr \in {None, base} /\ (base \in DOMAIN blocks => bb = blocks[base])
      /\ Shape(mem, base, bb) /\ Course(mem, base, bb, regs[P])
  BY InBlock
<1>3. base \in Nat /\ bb.len \in Nat /\ bb.run_count \in Nat /\ regs[P] >= base
      /\ Threshold \in Nat /\ Threshold > 1
  BY <1>2, WordFacts, LimitAssumption, ThresholdAssumption DEF Shape, Block, Course
<1>4. /\ Shape(mem, base, Cached) /\ Cached.run_count = bb.run_count /\ Cached.len = bb.len
  BY <1>1, <1>2, <1>3, CachedOK DEF Inv
<1>5. /\ DOMAIN blocks' = DOMAIN blocks \cup {base} /\ DOMAIN blocks' \subseteq Word
      /\ blocks' = [b \in DOMAIN blocks' |-> blocks'[b]]
      /\ blocks'[base] = Cached
      /\ \A b \in DOMAIN blocks : b # base => blocks'[b] = blocks[b]
  BY <1>2, SetBlockOK DEF Inv, BlocksOK
<1>6. ASSUME Steady'
      PROVE  ~Overruns /\ Content(mem, base, Cached, regs[P] + 1 - base)
  BY <1>1, <1>2, <1>3, <1>6, CachedOK, InBlock DEF Inv
<1>7. ASSUME Steady', bb.run_count >= 1, NEW d \in 0 .. bb.len - 1
      PROVE  mem'[base + d] = mem[base + d]
  <2>1. base \in DOMAIN blocks
    BY <1>7 DEF bb, NewBlock
  <2>2. QED
    BY <1>2, <1>7, <2>1
<1>8. ASSUME Steady', bb.run_count >= 1
      PROVE  /\ regs[P] + 1 < base + bb.len
             /\ \A a \in base .. regs[P] : ~WritesP(mem'[a])
  <2>1. Straight(mem, base, bb, regs[P]) /\ Content(mem, base, bb, regs[P] - base)
    BY <1>8, InBlock
  <2>2. WritesP(mem[base + bb.len - 1]) /\ ~WritesP(mem[regs[P]])
    BY <1>8, <2>1 DEF Content
  <2>3. regs[P] # base + bb.len - 1
    BY <2>2
  <2>4. regs[P] < base + bb.len
    BY <1>8, <2>1 DEF Straight
  <2>5. ASSUME NEW a \in base .. regs[P] PROVE ~WritesP(mem'[a])
    <3>1. a - base \in 0 .. bb.len - 1 /\ base + (a - base) = a
      BY <1>1, <1>3, <2>4
    <3>2. mem'[a] = mem[a]
      BY <1>7, <1>8, <3>1
    <3>3. a \in base .. regs[P] - 1 \/ a = regs[P]
      BY <1>1, <1>3
    <3>4. QED
      BY <1>8, <2>1, <2>2, <3>2, <3>3 DEF Straight
  <2>6. QED
    BY <1>1, <1>3, <2>3, <2>4, <2>5
<1>9. Shape(mem', base, Cached)
  BY <1>3, <1>4, SameWords
<1>10. Steady' => Content(mem', base, Cached, regs'[P] - base)
  <2>1. SUFFICES ASSUME Steady' PROVE Content(mem', base, Cached, regs'[P] - base)
    BY Zenon
  <2>2. regs'[P] - base = regs[P] + 1 - base
    BY <1>1, <1>3
  <2>3. CASE bb.run_count >= 1
    <3>1. regs[P] + 1 - base \in 0 .. Cached.len
      BY <1>1, <1>3, <1>4, <1>8, <2>1, <2>3
    <3>2. \A d \in 0 .. Cached.len - 1 : mem'[base + d] = mem[base + d]
      BY <1>4, <1>7, <2>1, <2>3
    <3>3. Content(mem', base, Cached, regs[P] + 1 - base)
      BY <1>3, <1>4, <1>6, <2>1, <3>1, <3>2, SameWords
    <3>4. QED
      BY <2>2, <3>3
  <2>4. CASE ~(bb.run_count >= 1)
    <3>1. Cached.run_count = 0 /\ Cached.compiled = None
      BY <1>3, <1>4, <2>4 DEF Shape
    <3>2. QED
      BY <1>3, <3>1 DEF Content
  <2>5. QED
    BY <2>3, <2>4
<1>11. Course(mem', base, Cached, regs'[P])
  <2>1. \A a \in base .. regs[P] : a \in DOMAIN mem'
    <3>1. \A a \in base .. regs[P] : a \in base .. regs[P] - 1 \/ a = regs[P]
      BY <1>1, <1>3
    <3>2. QED
      BY <1>1, <1>2, <3>1 DEF Course
  <2>2. (regs[P] + 1) - 1 = regs[P] /\ regs[P] + 1 >= base
    BY <1>1, <1>3
  <2>3. ~(Cached.run_count > Threshold)
    BY <1>3, <1>4
  <2>4. QED
    BY <2>1, <2>2, <2>3 DEF Course
<1>12. Steady' => Straight(mem', base, Cached, regs'[P])
  <2>1. (regs[P] + 1) - 1 = regs[P]
    BY <1>1
  <2>2. QED
    BY <1>4, <1>8, <2>1 DEF Straight
<1>13. ASSUME NEW b \in DOMAIN blocks, b # base
       PROVE  /\ Shape(mem', b, blocks'[b])
              /\ Steady' => Content(mem', b, blocks'[b], Progress(b)')
  <2>1. curr # b /\ curr' # b /\ blocks'[b] = blocks[b]
    BY <1>2, <1>5, <1>13, WordFacts DEF Inv, BlocksOK
  <2>2. ASSUME Steady', NEW d \in 0 .. blocks[b].len - 1, blocks[b].run_count >= 1
        PROVE  mem'[b + d] = mem[b + d]
    BY <2>2
  <2>3. CASE blocks[b].run_count >= 1
    BY <2>1, <2>2, <2>3, OtherBlocks
  <2>4. CASE ~(blocks[b].run_count >= 1)
    <3>1. Shape(mem, b, blocks[b]) /\ b \in Nat
      BY WordFacts DEF Inv, BlocksOK
    <3>2. blocks[b].run_count = 0 /\ blocks[b].compiled = None
      BY <1>3, <2>4, <3>1 DEF Shape, Block
    <3>3. Content(mem', b, blocks[b], Progress(b)')
      BY <1>3, <3>2 DEF Content
    <3>4. QED
      BY <2>1, <3>1, <3>3, SameWords
  <2>5. QED
    BY <2>3, <2>4
<1>14. BlocksOK'
  BY <1>5, <1>9, <1>13 DEF BlocksOK
<1>15. curr' # None /\ curr' \in DOMAIN blocks'
  BY <1>2, <1>5, WordFacts
<1>16. Position'
  BY <1>5, <1>11, <1>15 DEF Position
<1>17. Steady' => Kept'
  <2>1. SUFFICES ASSUME Steady' PROVE Kept'
    OBVIOUS
  <2>2. ~overrun'
    BY <1>6, <2>1 DEF Inv, Kept
  <2>3. ASSUME NEW b \in DOMAIN blocks' PROVE Content(mem', b, blocks'[b], Progress(b)')
    <3>1. CASE b = base
      <4>1. Progress(b)' = regs'[P] - base
        BY <3>1 DEF Progress
      <4>2. QED
        BY <1>5, <1>10, <2>1, <3>1, <4>1
    <3>2. CASE b # base
      BY <1>5, <1>13, <2>1, <2>3, <3>2
    <3>3. QED
      BY <3>1, <3>2
  <2>4. Straight(mem', curr', blocks'[curr'], regs'[P])
    BY <1>5, <1>12, <2>1
  <2>5. QED
    BY <2>2, <2>3, <2>4 DEF Kept
<1>18. QED
  BY <1>14, <1>16, <1>17 DEF Inv

-----------------------------------------------------------------------------
(* The steps.                                                              *)

\* An access that is no excuse changes no word of a block.
LEMMA NoExcuse ==
  ASSUME NEW i, NEW a, NEW c, excuse' = excuse \cup Excuses(i, a, c)
  PROVE  /\ Steady' => Steady /\ (Stores(i) => a \notin Known)
         /\ excuse' = {} => /\ excuse = {}
                            /\ ~(Stores(i) /\ a \in Known) /\ ~(Stores(i) /\ i.z = P /\ c)
                            /\ ~((Stores(i) \/ Loads(i)) /\ a \notin DOMAIN mem)
         /\ excuse \subseteq {"modified", "P", "unhandled", "unended"} =>
              excuse' \subseteq {"modified", "P", "unhandled", "unended"}
BY DEF Excuses, Steady

\* The instruction that ends a block: the run is counted, and if it was the
\* one in which the block was cached, the whole block is in the cache.
LEMMA CompleteInv ==
  ASSUME Inv, off = None, I!Fetchable, bb.compiled = None, bb.run_count <= Threshold,
         Last, blocks' = SetBlock(Complete(Cached)), curr' = None, off' = off,
         Machinery', Ghosts', mem' = mem,
         overrun' = (overrun \/ Overruns), Steady' => Steady
  PROVE  Inv'
<1>1. /\ regs[P] \in Word /\ regs[P] \in Nat /\ regs[P] \in DOMAIN mem /\ regs[P] + 1 < Limit
      /\ WritesP(mem[regs[P]])
  BY Fetched, WordFacts DEF Inv
<1>2. /\ base \in Word /\ curr \in {None, base} /\ (base \in DOMAIN blocks => bb = blocks[base])
      /\ Shape(mem, base, bb) /\ Course(mem, base, bb, regs[P])
  BY InBlock
<1>3. base \in Nat /\ bb.len \in Nat /\ bb.run_count \in Nat /\ regs[P] >= base
      /\ Threshold \in Nat /\ Threshold > 1
  BY <1>2, WordFacts, LimitAssumption, ThresholdAssumption DEF Shape, Block, Course
<1>4. /\ Shape(mem, base, Cached) /\ Cached.run_count = bb.run_count /\ Cached.len = bb.len
      /\ Cached.compiled = None
      /\ bb.run_count < Threshold => Cached = bb
  BY <1>1, <1>2, <1>3, CachedOK DEF Inv
<1>5. ASSUME Steady'
      PROVE  /\ ~Overruns /\ Content(mem, base, Cached, regs[P] + 1 - base)
             /\ Straight(mem, base, bb, regs[P])
  BY <1>1, <1>2, <1>3, <1>5, CachedOK, InBlock DEF Inv
<1> DEFINE r == Complete(Cached)
           n == regs[P] + 1 - base
<1>6. /\ DOMAIN blocks' = DOMAIN blocks \cup {base} /\ DOMAIN blocks' \subseteq Word
      /\ blocks' = [b \in DOMAIN blocks' |-> blocks'[b]]
      /\ blocks'[base] = r
      /\ \A b \in DOMAIN blocks : b # base => blocks'[b] = blocks[b]
  BY <1>2, SetBlockOK DEF Inv, BlocksOK
<1>7. Length = n /\ n \in 1 .. Limit - 1 /\ base + n = regs[P] + 1
  <2>1. Distance(regs[P]) = regs[P] - base
    BY <1>1, <1>2, <1>3, WordFacts DEF Distance
  <2>2. QED
    BY <1>1, <1>3, <2>1, LimitAssumption DEF Length
<1> HIDE DEF n
<1>8. Count(Cached) = bb.run_count + 1
  BY <1>3, <1>4 DEF Count
<1>9. /\ r \in Block /\ r.len = n /\ r.run_count = bb.run_count + 1
      /\ r.cache = Cached.cache /\ r.room = Cached.room /\ r.compiled = None
  <2>1. Cached \in Block
    BY <1>4 DEF Shape
  <2>2. r = [Cached EXCEPT !.len = n, !.run_count = bb.run_count + 1]
    BY <1>7, <1>8 DEF Complete
  <2>3. n \in 0 .. Limit - 1 /\ bb.run_count + 1 \in 0 .. Threshold + 1
    BY <1>3, <1>7
  <2> HIDE DEF r
  <2>4. QED
    BY <1>4, <2>1, <2>2, <2>3 DEF Block
<1> HIDE DEF r
<1>10. Shape(mem, base, r)
  <2>1. r.len >= 1 /\ base + r.len < Limit
    BY <1>1, <1>7, <1>9
  <2>2. ASSUME NEW d \in 0 .. r.len - 1 PROVE base + d \in DOMAIN mem
    <3>1. base + d \in base .. regs[P] - 1 \/ base + d = regs[P]
      BY <1>1, <1>3, <1>7, <1>9
    <3>2. QED
      BY <1>1, <1>2, <3>1 DEF Course
  <2>3. ASSUME r.run_count < Threshold PROVE r.cache = << >> /\ r.room = None
    <3>1. bb.run_count < Threshold
      BY <1>3, <1>9, <2>3
    <3>2. QED
      BY <1>2, <1>4, <1>9, <3>1 DEF Shape
  <2>4. QED
    BY <1>9, <2>1, <2>2, <2>3 DEF Shape
<1>11. Steady' => Content(mem, base, r, 0)
  <2>1. SUFFICES ASSUME Steady' PROVE Content(mem, base, r, 0)
    BY Zenon
  <2>2. WritesP(mem[base + r.len - 1])
    <3>1. base + r.len - 1 = regs[P]
      BY <1>1, <1>3, <1>7, <1>9
    <3>2. QED
      BY <1>1, <3>1
  <2>3. ASSUME r.run_count >= 2, NEW d \in 0 .. r.len - 2 PROVE ~WritesP(mem[base + d])
    <3>1. bb.run_count >= 1
      BY <1>3, <1>9, <2>3
    <3>2. base + d \in base .. regs[P] - 1
      BY <1>1, <1>3, <1>7, <1>9
    <3>3. QED
      BY <1>5, <2>1, <3>1, <3>2 DEF Straight
  <2>4. ASSUME r.run_count = Threshold
        PROVE  Copied(mem, base, r.cache, 0) /\ r.room = None /\ ~(0 > 0)
    <3>1. bb.run_count < Threshold
      BY <1>3, <1>9, <2>4
    <3>2. r.cache = << >> /\ r.room = None
      BY <1>2, <1>4, <1>9, <3>1 DEF Shape
    <3>3. Copied(mem, base, << >>, 0)
      BY DEF Copied
    <3>4. QED
      BY <3>2, <3>3
  <2>5. ASSUME r.run_count > Threshold PROVE Copied(mem, base, r.cache, r.len)
    <3>1. Cached.run_count = Threshold
      BY <1>3, <1>4, <1>9, <2>5
    <3>2. QED
      BY <1>5, <1>9, <2>1, <3>1 DEF Content, n
  <2>6. QED
    BY <1>9, <2>2, <2>3, <2>4, <2>5 DEF Content
<1>12. ASSUME NEW b \in DOMAIN blocks, b # base
       PROVE  /\ Shape(mem', b, blocks'[b])
              /\ Steady' => Content(mem', b, blocks'[b], Progress(b)')
  <2>1. curr # b /\ curr' # b /\ blocks'[b] = blocks[b]
    BY <1>2, <1>6, <1>12, WordFacts DEF Inv, BlocksOK
  <2>2. QED
    BY <2>1, OtherBlocks
<1>13. BlocksOK'
  BY <1>6, <1>10, <1>12 DEF BlocksOK
<1>14. Position'
  BY DEF Position
<1>15. Steady' => Kept'
  <2>1. SUFFICES ASSUME Steady' PROVE Kept'
    OBVIOUS
  <2>2. ~overrun'
    BY <1>5, <2>1 DEF Inv, Kept
  <2>3. ASSUME NEW b \in DOMAIN blocks' PROVE Content(mem', b, blocks'[b], Progress(b)')
    <3>1. CASE b = base
      <4>1. Progress(b)' = 0
        BY <1>2, <3>1, WordFacts DEF Progress
      <4>2. QED
        BY <1>6, <1>11, <2>1, <3>1, <4>1
    <3>2. CASE b # base
      BY <1>6, <1>12, <2>1, <2>3, <3>2
    <3>3. QED
      BY <3>1, <3>2
  <2>4. QED
    BY <2>2, <2>3 DEF Kept
<1>16. QED
  BY <1>13, <1>14, <1>15 DEF Inv

LEMMA InterpretInv == ASSUME Inv, Interpret PROVE Inv'
<1>1. /\ off = None /\ I!Fetchable /\ bb.compiled = None /\ bb.run_count <= Threshold
      /\ I!Reaches /\ off' = off /\ overrun' = (overrun \/ Overruns) /\ Machinery
  BY DEF Interpret, Interpreting, Inv
<1>2. Machinery' /\ DOMAIN mem' = DOMAIN mem
  BY <1>1, Executed DEF Interpret, Machinery
<1>3. excuse' = excuse \cup Excuses(I!insn, I!Accessed, FALSE)
  BY DEF Interpret
<1>4. Ghosts'
  <2>1. excuse' \subseteq {"modified", "P", "unhandled", "unended"}
    BY <1>3, NoExcuse DEF Inv, Ghosts
  <2>2. overrun' \in BOOLEAN
    BY <1>1 DEF Inv, Ghosts
  <2>3. status' \in {"running", "ended"}
    BY DEF Interpret, Inv, Ghosts
  <2>4. QED
    BY <2>1, <2>2, <2>3 DEF Ghosts
<1>5. Steady' => Steady /\ (Stores(I!insn) => I!Accessed \notin Known)
  BY <1>3, NoExcuse
<1>6. CASE Last
  <2>1. mem' = mem
    BY <1>1, <1>6, Executed DEF Interpret
  <2>2. blocks' = SetBlock(Complete(Cached)) /\ curr' = None
    BY <1>6 DEF Interpret
  <2>3. QED
    BY <1>1, <1>2, <1>4, <1>5, <1>6, <2>1, <2>2, CompleteInv
<1>7. CASE ~Last
  <2>1. regs'[P] = regs[P] + 1
    BY <1>1, <1>7, Executed DEF Interpret
  <2>2. ~WritesP(mem[regs[P]])
    BY <1>1, <1>7, Fetched
  <2>3. blocks' = SetBlock(Cached) /\ curr' = base
    BY <1>7 DEF Interpret
  <2>4. ASSUME Steady', NEW b \in DOMAIN blocks, NEW d \in 0 .. blocks[b].len - 1,
               blocks[b].run_count >= 1
        PROVE  mem'[b + d] = mem[b + d]
    <3>1. b + d \in Known
      BY <2>4, KnownWords DEF Inv
    <3>2. b + d \in DOMAIN mem
      BY <2>4 DEF Inv, BlocksOK, Shape
    <3>3. b + d # I!Accessed \/ ~Stores(I!insn)
      BY <1>5, <2>4, <3>1
    <3>4. QED
      BY <1>1, <3>2, <3>3, Executed DEF Interpret
  <2>5. QED
    BY <1>1, <1>2, <1>4, <1>5, <2>1, <2>2, <2>3, <2>4, OnwardInv
<1>8. QED
  BY <1>6, <1>7

LEMMA InterpretFailsInv == ASSUME Inv, InterpretFails PROVE Inv'
<1>1. /\ off = None /\ I!Fetchable /\ bb.compiled = None /\ bb.run_count <= Threshold
      /\ off' = off /\ overrun' = (overrun \/ Overruns) /\ Machinery /\ mem' = mem
      /\ blocks' = SetBlock(Cached) /\ curr' = base
  BY DEF InterpretFails, Interpreting, Inv
<1>2. Machinery' /\ regs'[P] = regs[P] + 1
  BY <1>1, Fetched DEF InterpretFails, Machinery
<1>3. excuse' = excuse \cup {"unhandled"} \cup (IF Last THEN {"unended"} ELSE {})
  BY DEF InterpretFails
<1>4. Ghosts'
  <2>1. excuse' \subseteq {"modified", "P", "unhandled", "unended"}
    BY <1>3 DEF Inv, Ghosts
  <2>2. overrun' \in BOOLEAN
    BY <1>1 DEF Inv, Ghosts
  <2>3. status' \in {"running", "ended"}
    BY DEF InterpretFails, Inv, Ghosts
  <2>4. QED
    BY <2>1, <2>2, <2>3 DEF Ghosts
<1>5. Steady' => Steady /\ ~WritesP(mem[regs[P]])
  <2>1. Steady' => Steady /\ ~Last
    BY <1>3 DEF Steady
  <2>2. QED
    BY <1>1, <2>1, Fetched
<1>6. QED
  BY <1>1, <1>2, <1>4, <1>5, OnwardInv

\* The compiler finds a block's words in its cache.
LEMMA CompileInv == ASSUME Inv, Compile PROVE Inv'
<1>1. /\ off = None /\ I!Fetchable /\ bb.compiled = None /\ bb.run_count > Threshold
      /\ curr' = base /\ UNCHANGED <<regs, mem, status, off, excuse, overrun>>
  BY DEF Compile, Interpreting
<1>2. /\ base \in Word /\ curr \in {None, base} /\ (base \in DOMAIN blocks => bb = blocks[base])
      /\ Shape(mem, base, bb) /\ Course(mem, base, bb, regs[P])
      /\ Steady => Content(mem, base, bb, regs[P] - base)
  BY <1>1, InBlock
<1>3. /\ base \in Nat /\ bb.len \in 1 .. Limit - 1 /\ bb.run_count \in Nat /\ Limit \in Nat
      /\ Threshold \in Nat /\ bb.run_count >= 1 /\ bb \in Block
  <2>1. bb \in Block /\ base \in Nat /\ Limit \in Nat /\ Threshold \in Nat
    BY <1>2, WordFacts, LimitAssumption, ThresholdAssumption DEF Shape
  <2>2. bb.run_count \in Nat /\ bb.len \in 0 .. Limit - 1
    BY <2>1 DEF Block
  <2>3. bb.run_count >= 1
    BY <1>1, <2>1, <2>2
  <2>4. bb.len >= 1
    BY <1>2, <2>3, SMTT(30) DEF Shape
  <2>5. QED
    BY <2>1, <2>2, <2>3, <2>4
<1>4. PICK junk \in Junk :
        blocks' = SetBlock([bb EXCEPT
                    !.room = None, !.cache = << >>,
                    !.compiled = [d \in 0 .. bb.len - 1 |->
                                    IF d \in DOMAIN bb.cache THEN bb.cache[d] ELSE junk]])
  BY Zenon DEF Compile
<1> DEFINE c == [d \in 0 .. bb.len - 1 |->
                   IF d \in DOMAIN bb.cache THEN bb.cache[d] ELSE junk]
           r == [bb EXCEPT !.room = None, !.cache = << >>, !.compiled = c]
<1>5. c \in [0 .. bb.len - 1 -> Word] /\ c \in Codes /\ c # None
  <2>1. bb.cache \in Caches /\ junk \in Word
    BY <1>3, JunkAssumption DEF Block
  <2>2. \A d \in DOMAIN bb.cache : bb.cache[d] \in Word
    BY <2>1 DEF Caches
  <2>3. c \in [0 .. bb.len - 1 -> Word]
    BY <2>1, <2>2
  <2>4. bb.len \in 0 .. Limit
    BY <1>3
  <2> HIDE DEF c
  <2>5. QED
    BY <2>3, <2>4, NoneAssumption DEF Codes
<1>6. Steady => Copied(mem, base, c, bb.len)
  <2>1. Steady => Copied(mem, base, bb.cache, bb.len)
    BY <1>1, <1>2 DEF Content
  <2>2. QED
    BY <2>1 DEF Copied
<1> HIDE DEF c
<1>7. /\ r \in Block /\ r.len = bb.len /\ r.run_count = bb.run_count
      /\ r.cache = << >> /\ r.room = None /\ r.compiled = c
  <2>1. << >> \in Caches
    BY DEF Caches
  <2>2. QED
    BY <1>3, <1>5, <2>1 DEF Block
<1>8. /\ DOMAIN blocks' = DOMAIN blocks \cup {base} /\ DOMAIN blocks' \subseteq Word
      /\ blocks' = [b \in DOMAIN blocks' |-> blocks'[b]]
      /\ blocks'[base] = r
      /\ \A b \in DOMAIN blocks : b # base => blocks'[b] = blocks[b]
  <2>1. blocks' = SetBlock(r)
    BY <1>4 DEF c
  <2> HIDE DEF r
  <2>2. QED
    BY <1>2, <2>1, SetBlockOK DEF Inv, BlocksOK
<1> HIDE DEF r
<1>9. Shape(mem, base, r)
  BY <1>1, <1>2, <1>3, <1>5, <1>7 DEF Shape
<1>10. ASSUME NEW k PROVE Steady => Content(mem, base, r, k)
  <2>1. r.run_count # Threshold
    BY <1>1, <1>3, <1>7
  <2>2. QED
    BY <1>2, <1>3, <1>5, <1>6, <1>7, <2>1 DEF Content
<1>11. regs[P] = base
  BY <1>1, <1>2 DEF Course
<1>12. Course(mem, base, r, regs[P]) /\ Straight(mem, base, r, regs[P])
  <2>1. Course(mem, base, r, regs[P])
    BY <1>2, <1>7, <1>11 DEF Course
  <2>2. base < base + r.len /\ base .. base - 1 = {}
    BY <1>3, <1>7
  <2>3. QED
    BY <1>11, <2>1, <2>2 DEF Straight
<1>13. Machinery' /\ Ghosts' /\ Steady' = Steady
  BY <1>1 DEF Inv, Machinery, Ghosts, Steady
<1>14. ASSUME NEW b \in DOMAIN blocks, b # base
       PROVE  /\ Shape(mem', b, blocks'[b])
              /\ Steady' => Content(mem', b, blocks'[b], Progress(b)')
  <2>1. curr # b /\ curr' # b /\ blocks'[b] = blocks[b]
    BY <1>1, <1>2, <1>8, <1>14, WordFacts DEF Inv, BlocksOK
  <2>2. QED
    BY <1>1, <1>13, <2>1, OtherBlocks
<1>15. BlocksOK'
  BY <1>1, <1>8, <1>9, <1>14 DEF BlocksOK
<1>16. Position'
  BY <1>1, <1>8, <1>12 DEF Position
<1>17. Steady' => Kept'
  <2>1. SUFFICES ASSUME Steady' PROVE Kept'
    OBVIOUS
  <2>2. ~overrun' /\ Steady
    BY <1>1, <1>13, <2>1 DEF Inv, Kept
  <2>3. ASSUME NEW b \in DOMAIN blocks' PROVE Content(mem', b, blocks'[b], Progress(b)')
    <3>1. CASE b = base
      BY <1>1, <1>8, <1>10, <2>2, <3>1
    <3>2. CASE b # base
      BY <1>8, <1>14, <2>1, <2>3, <3>2
    <3>3. QED
      BY <3>1, <3>2
  <2>4. QED
    BY <1>1, <1>8, <1>12, <2>2, <2>3 DEF Kept
<1>18. QED
  BY <1>13, <1>15, <1>16, <1>17 DEF Inv

\* A compiled block is entered at its start.
LEMMA EnterInv == ASSUME Inv, Enter PROVE Inv'
<1>1. /\ off = None /\ I!Fetchable /\ bb.compiled # None
      /\ curr' = base /\ off' = 0 /\ UNCHANGED <<regs, mem, status, blocks, excuse, overrun>>
  BY DEF Enter, Interpreting
<1>2. /\ base \in Word /\ curr \in {None, base} /\ (base \in DOMAIN blocks => bb = blocks[base])
      /\ Shape(mem, base, bb) /\ Course(mem, base, bb, regs[P])
  BY <1>1, InBlock
<1>3. base \in DOMAIN blocks /\ bb = blocks[base]
  BY <1>1, <1>2 DEF bb, NewBlock
<1>4. /\ bb.run_count > Threshold /\ bb.run_count \in Nat /\ bb.len \in Nat /\ bb.len >= 1
      /\ Threshold \in Nat
  BY <1>1, <1>2, LimitAssumption, ThresholdAssumption DEF Shape, Block
<1>5. regs[P] = base /\ 0 \in 0 .. bb.len - 1 /\ base # None
  <2>1. regs[P] = base
    BY <1>2, <1>4 DEF Course
  <2>2. base # None
    BY <1>2, WordFacts
  <2>3. QED
    BY <1>4, <2>1, <2>2
<1>6. Machinery' /\ Ghosts' /\ BlocksOK' /\ Steady' = Steady
  BY <1>1 DEF Inv, Machinery, Ghosts, Steady, BlocksOK
<1>7. 0 # None
  BY NoneAssumption
<1>8. Position'
  BY <1>1, <1>3, <1>5, <1>7 DEF Position
<1>9. Steady' => Kept'
  <2>1. SUFFICES ASSUME Steady' PROVE Kept'
    OBVIOUS
  <2>2. Kept
    BY <1>6, <2>1 DEF Inv
  <2>3. ASSUME NEW b \in DOMAIN blocks PROVE Content(mem', b, blocks'[b], Progress(b)')
    <3>1. CASE b = base
      <4>1. Content(mem, b, blocks[b], Progress(b))
        BY <2>2 DEF Kept
      <4>2. blocks[b].run_count # Threshold
        BY <1>3, <1>4, <3>1
      <4>3. Content(mem, b, blocks[b], Progress(b)')
        BY <4>1, <4>2 DEF Content
      <4>4. QED
        BY <1>1, <4>3
    <3>2. CASE b # base
      <4>1. b # None
        BY WordFacts DEF Inv, BlocksOK
      <4>2. curr # b /\ curr' # b
        BY <1>1, <1>2, <3>2, <4>1
      <4>3. QED
        BY <1>1, <1>6, <2>1, <4>2, OtherBlocks
    <3>3. QED
      BY <3>1, <3>2
  <2>4. QED
    BY <1>1, <1>5, <1>7, <2>2, <2>3 DEF Kept
<1>10. QED
  BY <1>6, <1>8, <1>9 DEF Inv

-----------------------------------------------------------------------------
(* Compiled code.                                                          *)

\* The instruction that is about to run, and while the program is steady
\* where it comes from and whether it writes P.
LEMMA CodeFacts ==
  ASSUME Inv, off # None
  PROVE  /\ curr \in DOMAIN blocks /\ curr # None /\ curr \in Nat /\ curr \in Word
         /\ off \in 0 .. blocks[curr].len - 1 /\ blocks[curr].len \in Nat /\ off \in Nat
         /\ blocks[curr].run_count > Threshold /\ blocks[curr].run_count \in Nat
         /\ blocks[curr].run_count >= 2 /\ blocks[curr].run_count # Threshold
         /\ curr + blocks[curr].len < Limit /\ curr + off \in DOMAIN mem
         /\ blocks[curr].compiled[off] \in Word /\ code \in Insn
         /\ Steady => /\ regs[P] = curr /\ code = Fields[mem[curr + off]]
                      /\ off + 1 < blocks[curr].len => ~WritesP(mem[curr + off])
                      /\ ~(off + 1 < blocks[curr].len) => WritesP(mem[curr + off])
<1>1. /\ curr \in DOMAIN blocks /\ curr # None /\ blocks[curr].compiled # None
      /\ off \in 0 .. blocks[curr].len - 1
  BY DEF Inv, Position
<1>2. /\ Shape(mem, curr, blocks[curr]) /\ curr \in Word /\ curr \in Nat
      /\ blocks[curr].len \in Nat /\ blocks[curr].run_count \in Nat
  BY <1>1, BlockNumbers DEF Inv
<1>3. blocks[curr].run_count > Threshold /\ blocks[curr].compiled \in [0 .. blocks[curr].len - 1 -> Word]
  BY <1>1, <1>2 DEF Shape
<1>4. /\ blocks[curr].run_count >= 1 /\ blocks[curr].run_count >= 2 /\ blocks[curr].run_count # Threshold
      /\ off \in Nat
  BY <1>1, <1>2, <1>3, ThresholdAssumption
<1>5. curr + blocks[curr].len < Limit /\ curr + off \in DOMAIN mem
  BY <1>1, <1>2, <1>4 DEF Shape
<1>6. blocks[curr].compiled[off] \in Word
  BY <1>1, <1>3
<1>7. code \in Insn
  BY <1>6, FieldsAssumption DEF code
<1>8. ASSUME Steady
      PROVE  /\ regs[P] = curr /\ code = Fields[mem[curr + off]]
             /\ off + 1 < blocks[curr].len => ~WritesP(mem[curr + off])
             /\ ~(off + 1 < blocks[curr].len) => WritesP(mem[curr + off])
  <2>1. regs[P] = curr /\ Content(mem, curr, blocks[curr], Progress(curr))
    BY <1>1, <1>8 DEF Inv, Kept
  <2>2. Copied(mem, curr, blocks[curr].compiled, blocks[curr].len)
    BY <1>1, <2>1 DEF Content
  <2>3. code = Fields[mem[curr + off]]
    BY <1>1, <2>2 DEF code, Copied
  <2>4. ASSUME off + 1 < blocks[curr].len PROVE ~WritesP(mem[curr + off])
    <3>1. off \in 0 .. blocks[curr].len - 2
      BY <1>1, <1>2, <1>4, <2>4
    <3>2. QED
      BY <1>4, <2>1, <3>1 DEF Content
  <2>5. ASSUME ~(off + 1 < blocks[curr].len) PROVE WritesP(mem[curr + off])
    <3>1. curr + off = curr + blocks[curr].len - 1
      BY <1>1, <1>2, <1>4, <2>5
    <3>2. QED
      BY <1>4, <2>1, <3>1 DEF Content
  <2>6. QED
    BY <2>1, <2>3, <2>4, <2>5
<1>9. QED
  BY <1>1, <1>2, <1>3, <1>4, <1>5, <1>6, <1>7, <1>8

\* Whatever compiled code computes is a word.
LEMMA CodeTypes ==
  ASSUME Inv, off # None
  PROVE  /\ \A k \in RegIdx : Operand(k) \in Word
         /\ A \in Word /\ Target \in Word /\ Value \in Word
         /\ regs[code.z] \in Word /\ code.z \in RegIdx
<1>1. code \in Insn /\ off \in Nat /\ regs \in [RegIdx -> Word] /\ regs[P] \in Int
  BY CodeFacts, Places, WordFacts DEF Inv, Machinery
<1>2. /\ code.x \in RegIdx /\ code.y \in RegIdx /\ code.z \in RegIdx /\ code.op \in Opcodes
      /\ code.imm \in Word /\ code.imm20 \in Word /\ code.p \in 0 .. 3
  BY <1>1 DEF Insn
<1>3. ASSUME NEW k \in RegIdx PROVE Operand(k) \in Word
  <2>1. Plus(regs[P], off + 1) \in Word
    BY <1>1, WordFacts
  <2>2. QED
    BY <1>1, <2>1, WordFacts, Places DEF Operand
<1>4. ASSUME NEW o \in Opcodes, NEW a \in Word, NEW b \in Word, NEW c \in Word
      PROVE  Plus(Op(o, a, b), c) \in Word /\ Plus(a, c) \in Word
  <2>1. Op(o, a, b) \in Word
    BY OpAssumption
  <2>2. Op(o, a, b) \in Int /\ c \in Int /\ a \in Int
    BY <2>1, WordFacts, Zenon
  <2>3. QED
    BY <2>2, WordFacts, Zenon
<1>5. A \in Word
  <2>1. CASE code.p = 0
    BY <1>2, <1>3, <1>4, <2>1 DEF A
  <2>2. CASE code.p = 1
    BY <1>2, <1>3, <1>4, <2>2 DEF A
  <2>3. CASE code.p = 2
    BY <1>2, <1>3, <1>4, <2>3 DEF A
  <2>4. CASE code.p = 3
    BY <1>2, <1>3, <1>4, <2>4 DEF A
  <2>5. QED
    BY <1>2, <2>1, <2>2, <2>3, <2>4
<1>6. QED
  BY <1>1, <1>2, <1>3, <1>5 DEF Target, Value

\* What an instruction of compiled code does to the registers and the memory.
LEMMA RunCodeEffect ==
  ASSUME Inv, RunCode
  PROVE  /\ Machinery' /\ DOMAIN mem' = DOMAIN mem
         /\ (code.z # P \/ Stores(code)) => regs'[P] = regs[P]
         /\ \A a \in DOMAIN mem : a # Target \/ ~Stores(code) => mem'[a] = mem[a]
<1>1. /\ A \in Word /\ Target \in Word /\ Value \in Word /\ code.z \in RegIdx
      /\ regs \in [RegIdx -> Word] /\ regs[0] = 0
      /\ DOMAIN mem \subseteq Word /\ mem \in [DOMAIN mem -> Word]
  BY CodeTypes DEF RunCode, Inv, Machinery
<1>2. CASE Stores(code)
  <2>1. regs' = regs /\ mem' = IF Target \in DOMAIN mem THEN [mem EXCEPT ![Target] = Value] ELSE mem
    BY <1>2 DEF RunCode
  <2>2. /\ DOMAIN mem' = DOMAIN mem /\ mem' \in [DOMAIN mem -> Word]
        /\ \A a \in DOMAIN mem : a # Target => mem'[a] = mem[a]
    BY <1>1, <2>1
  <2>3. QED
    BY <1>1, <1>2, <2>1, <2>2 DEF Machinery
<1>3. CASE ~Stores(code)
  <2>1. PICK v \in Word : regs' = Put(regs, code.z, v)
    BY <1>1, <1>3, JunkAssumption DEF RunCode
  <2>2. mem' = mem
    BY <1>3 DEF RunCode
  <2>3. /\ regs' \in [RegIdx -> Word] /\ regs'[0] = 0
        /\ P # code.z => regs'[P] = regs[P]
    BY <1>1, <2>1, PutTypes, Places, ZenonT(60)
  <2>4. QED
    BY <1>1, <1>3, <2>2, <2>3 DEF Machinery
<1>4. QED
  BY <1>2, <1>3

\* Compiled code keeps the invariant.
LEMMA RunCodeInv == ASSUME Inv, RunCode PROVE Inv'
<1>1. /\ off # None /\ off < blocks[curr].len /\ UNCHANGED <<status, overrun>>
      /\ excuse' = excuse \cup Excuses(code, Target, TRUE)
  BY DEF RunCode
<1>2. /\ curr \in DOMAIN blocks /\ curr # None
      /\ off \in 0 .. blocks[curr].len - 1 /\ blocks[curr].len \in Nat /\ off \in Nat
      /\ blocks[curr].run_count > Threshold
      /\ curr + off \in DOMAIN mem
  BY <1>1, CodeFacts
<1>3. blocks' = blocks
  <2>1. CASE off + 1 < blocks[curr].len
    BY <2>1 DEF RunCode
  <2>2. CASE ~(off + 1 < blocks[curr].len)
    <3>1. Count(blocks[curr]) = blocks[curr].run_count
      BY <1>2 DEF Count
    <3>2. blocks' = [blocks EXCEPT ![curr].run_count = blocks[curr].run_count]
      BY <2>2, <3>1 DEF RunCode
    <3>3. blocks[curr] \in Block
      BY <1>2 DEF Inv, BlocksOK, Shape
    <3>4. [blocks[curr] EXCEPT !.run_count = blocks[curr].run_count] = blocks[curr]
      BY <3>3 DEF Block
    <3>5. blocks' = [blocks EXCEPT ![curr] = blocks[curr]]
      BY <3>2, <3>4
    <3>6. blocks = [b \in DOMAIN blocks |-> blocks[b]]
      BY DEF Inv, BlocksOK
    <3>7. QED
      BY <1>2, <3>5, <3>6
  <2>3. QED
    BY <2>1, <2>2
<1>4. Machinery' /\ DOMAIN mem' = DOMAIN mem
  BY RunCodeEffect
<1>5. Steady' => Steady /\ (Stores(code) => Target \notin Known)
  BY <1>1, NoExcuse
<1>6. Ghosts'
  <2>1. excuse' \subseteq {"modified", "P", "unhandled", "unended"}
    BY <1>1, NoExcuse DEF Inv, Ghosts
  <2>2. QED
    BY <1>1, <2>1 DEF Inv, Ghosts
<1>7. ASSUME Steady', NEW b \in DOMAIN blocks, NEW d \in 0 .. blocks[b].len - 1,
             blocks[b].run_count >= 1
      PROVE  mem'[b + d] = mem[b + d]
  <2>1. b + d \in Known
    BY <1>7, KnownWords DEF Inv
  <2>2. b + d \in DOMAIN mem
    BY <1>7 DEF Inv, BlocksOK, Shape
  <2>3. QED
    BY <1>5, <1>7, <2>1, <2>2, RunCodeEffect
<1>8. ASSUME NEW b \in DOMAIN blocks
      PROVE  /\ Shape(mem', b, blocks'[b])
             /\ Steady' => Content(mem', b, blocks'[b], Progress(b)')
  <2>1. /\ Shape(mem, b, blocks[b]) /\ b \in Word /\ b \in Nat
        /\ blocks[b].len \in Nat /\ blocks[b].run_count \in Nat
        /\ Threshold \in Nat /\ Threshold > 1
    BY BlockNumbers, ThresholdAssumption DEF Inv
  <2>2. CASE ~(blocks[b].run_count >= 1)
    <3>1. blocks[b].run_count = 0 /\ blocks[b].compiled = None
      BY <2>1, <2>2 DEF Shape
    <3>2. Content(mem', b, blocks[b], Progress(b)')
      BY <2>1, <3>1 DEF Content
    <3>3. QED
      BY <1>3, <1>4, <2>1, <3>2, SameWords
  <2>3. CASE blocks[b].run_count >= 1 /\ curr = b
    <3>1. blocks[b].run_count # Threshold
      BY <1>2, <2>1, <2>3
    <3>2. Steady' => Content(mem, b, blocks[b], Progress(b))
      BY <1>5 DEF Inv, Kept
    <3>3. Steady' => Content(mem, b, blocks[b], Progress(b)')
      BY <3>1, <3>2 DEF Content
    <3>4. Shape(mem', b, blocks[b]) /\ (Steady' => Content(mem', b, blocks[b], Progress(b)'))
      BY <1>4, <1>7, <2>1, <2>3, <3>1, <3>3, SameWords
    <3>5. QED
      BY <1>3, <3>4
  <2>4. CASE blocks[b].run_count >= 1 /\ curr # b
    <3>1. curr' # b
      <4>1. curr' = curr \/ curr' = None
        BY DEF RunCode
      <4>2. QED
        BY <2>1, <2>4, <4>1, WordFacts
    <3>2. QED
      BY <1>3, <1>4, <1>5, <1>7, <2>4, <3>1, OtherBlocks
  <2>5. QED
    BY <2>2, <2>3, <2>4
<1>9. BlocksOK'
  BY <1>3, <1>4, <1>8 DEF Inv, BlocksOK
<1>10. ASSUME off + 1 < blocks[curr].len
       PROVE  off' = off + 1 /\ curr' = curr /\ off' # None /\ off' \in 0 .. blocks[curr].len - 1
  <2>1. off' = off + 1 /\ curr' = curr
    BY <1>10 DEF RunCode
  <2>2. off + 1 \in Nat /\ off + 1 \in 0 .. blocks[curr].len - 1
    BY <1>2, <1>10
  <2>3. QED
    BY <2>1, <2>2, NoneAssumption
<1>11. ASSUME ~(off + 1 < blocks[curr].len) PROVE off' = None /\ curr' = None
  BY <1>11 DEF RunCode
<1>12. Position'
  <2>1. CASE off + 1 < blocks[curr].len
    <3>1. blocks[curr].compiled # None
      BY <1>1 DEF Inv, Position
    <3>2. QED
      BY <1>2, <1>3, <1>10, <2>1, <3>1 DEF Position
  <2>2. CASE ~(off + 1 < blocks[curr].len)
    BY <1>11, <2>2 DEF Position
  <2>3. QED
    BY <2>1, <2>2
<1>13. Steady' => Kept'
  <2>1. SUFFICES ASSUME Steady' PROVE Kept'
    OBVIOUS
  <2>2. ~overrun'
    BY <1>1, <1>5, <2>1 DEF Inv, Kept
  <2>3. \A b \in DOMAIN blocks' : Content(mem', b, blocks'[b], Progress(b)')
    BY <1>3, <1>8, <2>1
  <2>4. CASE off + 1 < blocks[curr].len
    <3>1. ~WritesP(mem[curr + off]) /\ code = Fields[mem[curr + off]] /\ regs[P] = curr
      BY <1>1, <1>5, <2>1, <2>4, CodeFacts
    <3>2. regs'[P] = curr
      BY <3>1, RunCodeEffect DEF WritesP
    <3>3. QED
      BY <1>10, <2>2, <2>3, <2>4, <3>2 DEF Kept
  <2>5. CASE ~(off + 1 < blocks[curr].len)
    BY <1>11, <2>2, <2>3, <2>5 DEF Kept
  <2>6. QED
    BY <2>4, <2>5
<1>14. QED
  BY <1>4, <1>6, <1>9, <1>12, <1>13 DEF Inv

-----------------------------------------------------------------------------
(* The invariant holds throughout.                                         *)

LEMMA InitInv == ASSUME Init PROVE Inv
<1>1. /\ regs = [k \in RegIdx |-> IF k = P THEN Start ELSE 0]
      /\ mem \in Images /\ status = "running"
      /\ blocks = << >> /\ curr = None /\ off = None /\ excuse = {} /\ overrun = FALSE
  BY DEF Init
<1>2. Machinery
  BY <1>1, Places, WordFacts, StartAssumption, ImagesAssumption DEF Machinery
<1>3. DOMAIN blocks = {} /\ blocks = [b \in DOMAIN blocks |-> blocks[b]]
  BY <1>1
<1>4. QED
  BY <1>1, <1>2, <1>3 DEF Inv, Ghosts, BlocksOK, Position, Kept

LEMMA UnchangedInv ==
  ASSUME Inv, UNCHANGED <<regs, mem, blocks, curr, off, excuse, overrun>>,
         status' \in {"running", "ended"}
  PROVE  Inv'
<1>1. Machinery' /\ Ghosts' /\ BlocksOK' /\ Position' /\ Steady' = Steady
  BY DEF Inv, Machinery, Ghosts, BlocksOK, Position, Steady
<1>2. \A b : Progress(b)' = Progress(b)
  BY DEF Progress
<1>3. Kept => Kept'
  BY <1>2 DEF Kept
<1>4. QED
  BY <1>1, <1>3 DEF Inv

LEMMA NextInv == ASSUME Inv, [Next]_vars PROVE Inv'
<1>1. CASE Interpret
  BY <1>1, InterpretInv
<1>2. CASE InterpretFails
  BY <1>2, InterpretFailsInv
<1>3. CASE Compile
  BY <1>3, CompileInv
<1>4. CASE Enter
  BY <1>4, EnterInv
<1>5. CASE RunCode
  BY <1>5, RunCodeInv
<1>6. CASE End
  BY <1>6, UnchangedInv DEF End, I!End
<1>7. CASE UNCHANGED vars
  BY <1>7, UnchangedInv DEF vars, Inv, Ghosts
<1>8. QED
  BY <1>1, <1>2, <1>3, <1>4, <1>5, <1>6, <1>7 DEF Next, Stopped

LEMMA Invariance == Spec => []Inv
<1>1. Init => Inv
  BY InitInv
<1>2. Inv /\ [Next]_vars => Inv'
  BY NextInv
<1>3. QED
  BY <1>1, <1>2, PTL DEF Spec

LEMMA InvTypes == ASSUME Inv PROVE TypeOK
<1>1. regs \in [RegIdx -> Word] /\ \A a \in DOMAIN mem : a \in Word /\ mem[a] \in Word
  BY DEF Inv, Machinery
<1>2. /\ status \in {"running", "ended"}
      /\ excuse \subseteq {"modified", "P", "unhandled", "unended"} /\ overrun \in BOOLEAN
  BY DEF Inv, Ghosts
<1>3. ASSUME NEW b \in DOMAIN blocks
      PROVE  /\ blocks[b].run_count \in 0 .. Threshold + 1 /\ blocks[b].len \in 0 .. Limit
             /\ DOMAIN blocks[b].cache \subseteq Word
  <2>1. blocks[b] \in Block
    BY DEF Inv, BlocksOK, Shape
  <2>2. blocks[b].cache \in Caches
    BY <2>1 DEF Block
  <2>3. blocks[b].run_count \in 0 .. Threshold + 1 /\ blocks[b].len \in 0 .. Limit
    BY <2>1, LimitAssumption DEF Block
  <2>4. QED
    BY <2>2, <2>3 DEF Caches
<1>4. DOMAIN blocks \subseteq Word
  BY DEF Inv, BlocksOK
<1>5. /\ curr \in DOMAIN blocks \cup {None}
      /\ off # None => curr # None /\ off \in 0 .. blocks[curr].len - 1
  BY DEF Inv, Position
<1>6. QED
  BY <1>1, <1>2, <1>3, <1>4, <1>5 DEF TypeOK

LEMMA InvCompiled == ASSUME Inv PROVE CompiledIsProgram
<1>1. SUFFICES ASSUME Steady, NEW b \in DOMAIN blocks, blocks[b].compiled # None
               PROVE  /\ blocks[b].len > 0
                      /\ \A d \in 0 .. blocks[b].len - 1 :
                           /\ (b + d) % Limit \in DOMAIN mem
                           /\ blocks[b].compiled[d] = mem[(b + d) % Limit]
  BY DEF CompiledIsProgram
<1>2. /\ Shape(mem, b, blocks[b]) /\ b \in Nat
      /\ blocks[b].len \in Nat /\ blocks[b].run_count \in Nat
  BY BlockNumbers DEF Inv
<1>3. blocks[b].run_count >= 1
  <2>1. blocks[b].run_count > Threshold
    BY <1>1, <1>2 DEF Shape
  <2>2. QED
    BY <1>2, <2>1, ThresholdAssumption
<1>4. blocks[b].len >= 1 /\ b + blocks[b].len < Limit
      /\ \A d \in 0 .. blocks[b].len - 1 : b + d \in DOMAIN mem
  BY <1>2, <1>3 DEF Shape
<1>5. Copied(mem, b, blocks[b].compiled, blocks[b].len)
  BY <1>1 DEF Inv, Kept, Content
<1>6. ASSUME NEW d \in 0 .. blocks[b].len - 1 PROVE (b + d) % Limit = b + d
  <2>1. d \in Nat /\ b + d < Limit
    BY <1>2, <1>4, LimitAssumption
  <2>2. Plus(b, d) = b + d
    BY <1>2, <2>1, WordFacts, Zenon
  <2>3. QED
    BY <2>2 DEF Plus
<1>7. QED
  BY <1>2, <1>4, <1>5, <1>6 DEF Copied

\* Every variable of Jit.tla keeps its type.
THEOREM JitTypes == Spec => []TypeOK
<1>1. Inv => TypeOK
  BY InvTypes
<1>2. QED
  BY <1>1, Invariance, PTL

\* pre_insn_hook never writes past the cache it allocated, unless the program
\* has changed a block it has run, or the load that ends one has failed.
THEOREM CacheSuffices == Spec => []CacheFits
<1>1. Inv => CacheFits
  BY DEF Inv, Kept, CacheFits
<1>2. QED
  BY <1>1, Invariance, PTL

\* jit_gen_block finds every word of a block in the cache, and with the same
\* exceptions compiled code is the code that is in memory.
THEOREM CompiledFromProgram == Spec => []CompiledIsProgram
<1>1. Inv => CompiledIsProgram
  BY InvCompiled
<1>2. QED
  BY <1>1, Invariance, PTL

-----------------------------------------------------------------------------
(* The compiled program runs as Machine does.                              *)

LEMMA SameMachine ==
  /\ \A i : (M!Loads(i) <=> Loads(i)) /\ (M!Stores(i) <=> Stores(i))
  /\ \A a, b : M!Plus(a, b) = Plus(a, b)
  /\ \A i, r : /\ M!rhs(i, r) = rhs(i, r) /\ M!Address(i, r) = Address(i, r)
               /\ M!Stored(i, r) = Stored(i, r)
  /\ \A r, z, v : M!Put(r, z, v) = Put(r, z, v)
<1>1. \A i : (M!Loads(i) <=> Loads(i)) /\ (M!Stores(i) <=> Stores(i))
  BY DEF M!Loads, Loads, M!Stores, Stores
<1>2. \A a, b : M!Plus(a, b) = Plus(a, b)
  BY DEF M!Plus, Plus
<1>3. \A i, r : M!rhs(i, r) = rhs(i, r)
  BY Zenon DEF M!rhs, rhs, M!Operands, Operands, M!Plus, Plus
<1>4. \A i, r : M!Address(i, r) = Address(i, r) /\ M!Stored(i, r) = Stored(i, r)
  BY <1>3, Zenon DEF M!Address, Address, M!Stored, Stored
<1>5. \A r, z, v : M!Put(r, z, v) = Put(r, z, v)
  BY Zenon DEF M!Put, Put
<1>6. QED
  BY <1>1, <1>2, <1>3, <1>4, <1>5

\* P plus nothing is P.
LEMMA PlusNothing == \A w \in Word : Plus(w, 0) = w
BY LimitAssumption DEF Word, Plus

\* Outside of compiled code the program sees the registers as they are.
LEMMA VisibleOutside ==
  ASSUME Machinery PROVE off = None => visible = regs
BY Places DEF Machinery, visible

\* A step of the interpreter under the hooks is one of the interpreter.
LEMMA InterpretRuns == ASSUME Inv, Inv', Interpret PROVE M!run_instruction
<1>1. visible = regs /\ visible' = regs'
  BY VisibleOutside DEF Inv, Interpret, Interpreting, visible, Machinery
<1>2. M!insn = I!insn /\ M!Advanced = I!Advanced /\ (M!Fetchable <=> I!Fetchable)
  BY <1>1, SameIsa, SameMachine
  DEF M!insn, I!insn, M!Advanced, I!Advanced, M!Fetchable, I!Fetchable, M!EndAddress, I!EndAddress
<1>3. M!Accessed = I!Accessed
  BY <1>2, SameIsa, SameMachine DEF M!Accessed, I!Accessed
<1>4. (M!Reaches <=> I!Reaches) /\ M!RegsAfter = I!RegsAfter /\ M!MemAfter = I!MemAfter
  BY <1>2, <1>3, SameIsa, SameMachine
  DEF M!Reaches, I!Reaches, M!RegsAfter, I!RegsAfter, M!MemAfter, I!MemAfter
<1>5. QED
  BY <1>1, <1>2, <1>4 DEF Interpret, Interpreting, M!run_instruction

\* What the interpreter would fetch where compiled code is, and with which
\* registers: the operands are those that the code reads.
LEMMA CodeFetched ==
  ASSUME Inv, off # None, Steady
  PROVE  /\ M!Fetchable /\ M!insn = code
         /\ M!Advanced = [regs EXCEPT ![P] = Plus(regs[P], off + 1)]
         /\ \A k \in RegIdx : M!Advanced[k] = Operand(k)
         /\ \A k \in RegIdx : k # P => M!Advanced[k] = regs[k]
<1>1. /\ curr \in Nat /\ off \in Nat /\ blocks[curr].len \in Nat /\ off < blocks[curr].len
      /\ curr + blocks[curr].len < Limit /\ curr + off \in DOMAIN mem
      /\ regs[P] = curr /\ code = Fields[mem[curr + off]] /\ Limit \in Nat
  BY CodeFacts, LimitAssumption
<1>2. regs \in [RegIdx -> Word] /\ regs[0] = 0
  BY DEF Inv, Machinery
<1>3. Plus(regs[P], off) = curr + off
  <2>1. curr + off < Limit
    BY <1>1
  <2>2. QED
    BY <1>1, <2>1, WordFacts, Zenon
<1>4. Plus(curr + off, 1) = curr + off + 1 /\ Plus(regs[P], off + 1) = curr + off + 1
  <2>1. (curr + off) + 1 < Limit /\ curr + (off + 1) < Limit
        /\ (curr + off) + 1 = curr + (off + 1)
    BY <1>1
  <2>2. /\ curr + off \in Nat /\ off + 1 \in Nat /\ 1 \in Nat
    BY <1>1
  <2>3. Plus(curr + off, 1) = (curr + off) + 1 /\ Plus(curr, off + 1) = curr + (off + 1)
    BY <1>1, <2>1, <2>2, WordFacts, Zenon
  <2>4. QED
    BY <1>1, <2>1, <2>3
<1>5. visible = [regs EXCEPT ![P] = curr + off]
  BY <1>3 DEF visible
<1>6. visible[P] = curr + off
  BY <1>2, <1>5, Places
<1>7. curr + off # Limit - 1
  BY <1>1
<1>8. M!Fetchable /\ M!insn = code
  BY <1>1, <1>6, <1>7 DEF M!Fetchable, M!insn, M!EndAddress
<1>9. M!Advanced = [visible EXCEPT ![P] = curr + off + 1]
  BY <1>4, <1>6, SameMachine DEF M!Advanced
<1>10. M!Advanced = [regs EXCEPT ![P] = Plus(regs[P], off + 1)]
  BY <1>2, <1>4, <1>5, <1>9, Places
<1>11. \A k \in RegIdx : k # P => M!Advanced[k] = regs[k]
  BY <1>2, <1>10
<1>12. M!Advanced[P] = Plus(regs[P], off + 1)
  BY <1>2, <1>10, Places
<1>13. \A k \in RegIdx : M!Advanced[k] = Operand(k)
  BY <1>2, <1>11, <1>12, Places DEF Operand
<1>14. QED
  BY <1>8, <1>10, <1>11, <1>13

\* buildInstruction computes what do_op and do_common do.
LEMMA CodeComputes ==
  ASSUME Inv, off # None, Steady
  PROVE  rhs(code, M!Advanced) = A
<1>1. code \in Insn /\ \A k \in RegIdx : M!Advanced[k] = Operand(k) /\ Operand(k) \in Word
  BY CodeFacts, CodeFetched, CodeTypes
<1>2. code.x \in RegIdx /\ code.y \in RegIdx /\ code.p \in 0 .. 3
  BY <1>1 DEF Insn
<1>3. M!Advanced[code.x] = Operand(code.x) /\ M!Advanced[code.y] = Operand(code.y)
  BY <1>1, <1>2
<1>4. CASE code.p = 0
  BY <1>3, <1>4 DEF rhs, Operands, A
<1>5. CASE code.p = 1
  BY <1>3, <1>5 DEF rhs, Operands, A
<1>6. CASE code.p = 2
  BY <1>3, <1>6 DEF rhs, Operands, A
<1>7. CASE code.p = 3
  <2>1. Op(OP_BITWISE_OR, 0, Operand(code.x)) = Operand(code.x)
    BY <1>1, <1>2, OrAssumption
  <2>2. QED
    BY <1>3, <1>7, <2>1 DEF rhs, Operands, A
<1>8. QED
  BY <1>2, <1>4, <1>5, <1>6, <1>7

\* A step of compiled code is one of the interpreter.
LEMMA RunCodeRuns == ASSUME Inv, Inv', RunCode, excuse' = {} PROVE M!run_instruction
<1>1. /\ off # None /\ status = "running" /\ status' = status
      /\ excuse' = excuse \cup Excuses(code, Target, TRUE)
  BY DEF RunCode
<1>2. /\ excuse = {} /\ Steady /\ ~(Stores(code) /\ code.z = P)
      /\ ~((Stores(code) \/ Loads(code)) /\ Target \notin DOMAIN mem)
  BY <1>1, NoExcuse DEF Steady
<1>3. /\ M!Fetchable /\ M!insn = code
      /\ M!Advanced = [regs EXCEPT ![P] = Plus(regs[P], off + 1)]
      /\ \A k \in RegIdx : k # P => M!Advanced[k] = regs[k]
  BY <1>1, <1>2, CodeFetched
<1>4. rhs(code, M!Advanced) = A
  BY <1>1, <1>2, CodeComputes
<1>5. /\ code.z \in RegIdx /\ regs \in [RegIdx -> Word] /\ off \in Nat
      /\ A \in Word /\ Target \in Word /\ Value \in Word
  BY <1>1, CodeTypes, CodeFacts DEF Inv, Machinery
<1>6. Stores(code) => M!Accessed = Target /\ M!Stored(code, M!Advanced) = Value
  <2>1. Stores(code) => M!Advanced[code.z] = regs[code.z]
    BY <1>2, <1>3, <1>5
  <2>2. QED
    BY <1>3, <1>4, <2>1, SameMachine DEF M!Accessed, Address, Stored, Target, Value
<1>7. Loads(code) => M!Accessed = A /\ Target = A /\ ~Stores(code)
  BY <1>3, <1>4, SameMachine DEF M!Accessed, Address, Target, Loads, Stores
<1>8. M!Reaches
  BY <1>2, <1>3, <1>6, <1>7, SameMachine DEF M!Reaches
<1>9. (code.z = P /\ ~Stores(code)) <=> ~(off + 1 < blocks[curr].len)
  <2>1. (code.z = P /\ ~Stores(code)) <=> WritesP(mem[curr + off])
    BY <1>1, <1>2, CodeFacts DEF WritesP
  <2>2. QED
    BY <1>1, <1>2, <2>1, CodeFacts
<1>10. off + 1 < blocks[curr].len => off' = off + 1 /\ off' # None
  <2>1. off + 1 < blocks[curr].len => off' = off + 1
    BY DEF RunCode
  <2>2. off + 1 # None
    BY <1>5, NoneAssumption
  <2>3. QED
    BY <2>1, <2>2
<1>11. ~(off + 1 < blocks[curr].len) => off' = None
  BY DEF RunCode
<1>12. CASE Stores(code)
  <2>1. regs' = regs /\ mem' = [mem EXCEPT ![Target] = Value]
    BY <1>2, <1>12 DEF RunCode
  <2>2. mem' = M!MemAfter
    BY <1>3, <1>6, <1>12, <2>1, SameMachine DEF M!MemAfter
  <2>3. visible' = [regs EXCEPT ![P] = Plus(regs[P], off + 1)]
    BY <1>9, <1>10, <1>12, <2>1 DEF visible
  <2>4. M!RegsAfter = M!Advanced
    BY <1>3, <1>12, SameMachine DEF M!RegsAfter
  <2>5. QED
    BY <1>1, <1>3, <1>8, <2>2, <2>3, <2>4 DEF M!run_instruction
<1>13. CASE ~Stores(code)
  <2> DEFINE v == IF Loads(code) THEN mem[A] ELSE A
  <2>1. regs' = Put(regs, code.z, v) /\ mem' = mem
    BY <1>2, <1>7, <1>13 DEF RunCode
  <2>2. M!RegsAfter = Put(M!Advanced, code.z, v) /\ M!MemAfter = mem
    BY <1>3, <1>4, <1>7, <1>13, SameMachine DEF M!RegsAfter, M!MemAfter
  <2> HIDE DEF v
  <2>3. CASE off + 1 < blocks[curr].len
    <3>1. code.z # P /\ off' # None /\ off' = off + 1
      BY <1>9, <1>10, <1>13, <2>3
    <3>2. visible' = [regs' EXCEPT ![P] = Plus(regs'[P], off + 1)]
      BY <3>1 DEF visible
    <3>3. ASSUME code.z = 0 PROVE visible' = M!RegsAfter
      BY <1>3, <2>1, <2>2, <3>2, <3>3 DEF Put
    <3>4. ASSUME code.z # 0 PROVE visible' = M!RegsAfter
      <4>1. regs' = [regs EXCEPT ![code.z] = v] /\ regs'[P] = regs[P]
        BY <1>5, <2>1, <3>1, <3>4, Places DEF Put
      <4>2. M!RegsAfter = [M!Advanced EXCEPT ![code.z] = v]
        BY <2>2, <3>4 DEF Put
      <4>3. QED
        BY <1>3, <1>5, <3>1, <3>2, <4>1, <4>2, Places
    <3>5. visible' = M!RegsAfter
      BY <3>3, <3>4
    <3>6. QED
      BY <1>1, <1>3, <1>8, <2>1, <2>2, <3>5 DEF M!run_instruction
  <2>4. CASE ~(off + 1 < blocks[curr].len)
    <3>1. code.z = P /\ off' = None
      BY <1>9, <1>11, <2>4
    <3>2. regs' = [regs EXCEPT ![P] = v] /\ M!RegsAfter = [M!Advanced EXCEPT ![P] = v]
      BY <2>1, <2>2, <3>1, Places DEF Put
    <3>3. M!RegsAfter = regs'
      BY <1>3, <1>5, <3>2, Places
    <3>4. visible' = regs'
      BY <3>1, Places DEF visible, Inv, Machinery
    <3>5. QED
      BY <1>1, <1>3, <1>8, <2>1, <2>2, <3>3, <3>4 DEF M!run_instruction
  <2>5. QED
    BY <2>3, <2>4
<1>14. QED
  BY <1>12, <1>13

LEMMA StepRuns == ASSUME Inv, Inv', [Next]_vars PROVE [Faithful({})]_vars
<1>1. SUFFICES ASSUME excuse' = {} PROVE UNCHANGED <<visible, mem>> \/ M!run_instruction
  BY DEF Faithful
<1>2. CASE Interpret
  BY <1>2, InterpretRuns
<1>3. CASE InterpretFails
  BY <1>1, <1>3 DEF InterpretFails
<1>4. CASE Compile
  BY <1>4 DEF Compile, visible
<1>5. CASE Enter
  <2>1. regs' = regs /\ mem' = mem /\ off = None /\ off' = 0 /\ 0 # None
    BY <1>5, NoneAssumption DEF Enter, Interpreting
  <2>2. regs \in [RegIdx -> Word] /\ Plus(regs[P], 0) = regs[P]
    BY PlusNothing, Places DEF Inv, Machinery
  <2>3. visible' = [regs EXCEPT ![P] = regs[P]]
    BY <2>1, <2>2 DEF visible
  <2>4. visible' = regs /\ visible = regs
    BY <2>1, <2>2, <2>3, Places DEF visible
  <2>5. QED
    BY <2>1, <2>4
<1>6. CASE RunCode
  BY <1>1, <1>6, RunCodeRuns
<1>7. CASE End
  BY <1>7 DEF End, I!End, visible
<1>8. CASE UNCHANGED vars
  BY <1>8 DEF vars, visible
<1>9. QED
  BY <1>2, <1>3, <1>4, <1>5, <1>6, <1>7, <1>8 DEF Next, Stopped

\* Blocks, their caches and their compiled code are invisible: a program that
\* does not change its own code, store P or use an address without a device
\* runs, compiled or not, as interp_run_sim would run it.
THEOREM CompiledRunsMachine == Spec => RunsMachine
<1>1. Inv /\ Inv' /\ [Next]_vars => [Faithful({})]_vars
  BY StepRuns
<1>2. QED
  BY <1>1, Invariance, PTL DEF Spec, RunsMachine
=============================================================================
