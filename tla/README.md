# A TLA+ verification of tenyr

tenyr is a 32-bit computing environment: an instruction set, an assembler
(`tas`), a linker (`tld`), a simulator (`tsim`) with an interpreter, a JIT
compiler and simulated devices, and a Verilog implementation of the processor.
This directory models its parts in TLA+, checks them with TLC and proves
theorems about them with TLAPS. Paths below are relative to the repository.

## The system

| part | state it keeps | operations | what makes it correct |
|---|---|---|---|
| linker, `src/tld.c` | objects, symbol and object trees, running offset, output file | load, build state, relocate, emit, write | the image holds every object once, and every field the address its target has in that image; no output after an error |
| object files, `src/obj.c` | records, symbols, relocations | read, write, free | a written object reads back; damaged files are refused |
| interpreter, `src/sim.c` | 16 registers, status | one instruction, end | P advances before operands are read; register 0 stays 0 |
| JIT compiler, `src/jit.cc` | basic blocks with run count, length, cache, code | count, cache, compile, run | a program runs as it does in the interpreter |
| simulator, `src/tsim.c`, `src/plugin.c` | configuration, recipes, plugins, runner | options, recipes, load, run, close | what was asked for is set up once, in use while the program runs, and given back |
| devices, `src/simif.c`, `src/devices` | a sorted table of address ranges, each with callbacks; memory, pages, registers | setup, dispatch, cycle, teardown | every access reaches a device that owns the address; memory keeps what was stored; a request to quit is heard |
| SPI master, `src/devices/spi.c` | register file, transfer state, divider | register access, cycle | a transfer exchanges exactly one character with one slave and ends |
| SD card, `src/devices/spisd.c` | bit and byte counters, command state, output queue | select, clock | one answer per command, framed on byte boundaries |
| parameters, `src/param.c` | list of keys and values, owned or borrowed | get, set, add, free | the last value set is the one found; nothing is freed twice |
| assembler, `src/asmif.c`, `src/parser.y` | elements, symbols, deferred expressions, relocations | parse, place, evaluate, patch, emit | once linked, every field holds the value of its expression; exactly the wrong programs are refused |
| formats, `src/asm.c` | position and marks of a reader or writer | init, in, out, symbol, reloc, fini, disassemble | what one writes the reader of the same format reads back; a disassembly assembles to the same words |
| core, `hw/verilog/tenyr.v` | state register, latches, register file | one clock edge, reset, halt | a program runs as it does in the interpreter |

The linker reads what the assembler writes; the simulator loads what either
writes. The interpreter reaches memory and devices only through `dispatch_op`,
and after each instruction gives every device a cycle. The JIT compiler runs
the interpreter with hooks of its own before and after each instruction, until
a hook says that compiled code should run instead. The SPI master is a device,
and its slaves are callbacks. The core talks to its memories over a Wishbone
bus, on which every answer comes one or more clock edges later.

The hard behaviours are these. There is no threading; what is concurrent is
the program being simulated against its devices, and the units of the core
against each other, the bus and the reset and halt lines. Several components
keep one fact in two places (the linker's two layouts, SPI's GO bit and
state, the JIT's block length and cache, P in and out of compiled code, the
reader's and the writer's view of a format). The SD card and its host keep in
step by counting bits. Parameters pass between owners. The
command line tools exit through `longjmp` from any depth.
`PROJECT.json` lists these hazards, each at its line.

## Modules

| module | models | runs / proofs |
|---|---|---|
| `Linker` | `src/tld.c`, and `src/obj.c` as `tld` meets it | `linker`, `LinkerProofs` |
| `LinkContract` | what a linker promises, without passes | refined by `Linker` in `linker`, `LinkerProofs` |
| `Spi` | `src/devices/spi.c`, `spidummy.c` | `spi`, `SpiProofs` |
| `Isa` | operands, formats and access kinds of an instruction | used by the next three |
| `Machine` | `src/sim.c`, the interpreter | abstract machine of `Core` and `Jit` |
| `Core` | `hw/verilog/tenyr.v`, `ram.v`, `mmr.v`, bus of `top.v` | `core`, `CoreProofs` |
| `Jit` | `src/jit.cc` | `jit`, `jit_p`, `JitProofs` |
| `Expr` | constant expressions of `src/parser.y`: flags, validity, arithmetic | used by the next two |
| `Asm` | the actions of `src/parser.y`, `src/asmif.c`, the obj writer of `src/asm.c`, the exits of `src/tas.c` | `asm`, `asm_set` |
| `AsmContract` | what a program means, without passes | compared with `Asm` and `LinkContract` in `asm` |
| `Devices` | `src/simif.c`, `ram.c`, `sparseram.c`, `serial.c`, `sdlled.c`, `sdlvga.c` | used by `Tsim`, `TsimProofs` |
| `Tsim` | `src/tsim.c`, `src/plugin.c`, the loops of `src/sim.c` and `src/jit.cc` | `sim`, `TsimProofs` |
| `SpiSd` | `src/devices/spisd.c`, and as its host any program, or that of `test/spi.tas.cpp` | `sd`, `SpiSdProofs` |
| `SdContract` | what the card promises, in whole commands | refined by `SpiSd` in `sd`, `SpiSdProofs` |
| `Params` | `src/param.c` and its callers | `params`, `ParamsProofs` |
| `ParamDict` | a dictionary | refined by `Params` in `params`, `ParamsProofs` |
| `Disasm` | `print_disassembly` and the instruction rules of `src/parser.y` | used by `Formats`, `DisasmProofs` |
| `Formats` | the readers and writers of `src/asm.c`, `load_sim`, `do_disassembly` | `formats`, `formats_stray`, `DisasmProofs` |

`MCLinker`, `MCSpi`, `MCIsa`, `MCCore`, `MCJit`, `MCAsm`, `MCTsim`, `MCSpiSd`,
`MCParams` and `MCFormats` hold the small instances.

### Linker

`phase` is the place in `main`, `node` and `inner` the two loop indices of each
pass, `objs` what `do_load_all` appended and `words` the contents of each
object's first record, which relocation changes in place. `meta` and `defns` are
the two binary trees. Each loop body is an action, each `fatal` is `Fatal`, the
return through `setjmp`. A word is a number below `Limit`; a relocation's width
is kept as the number `span` of values the field can hold, so that the mask
arithmetic of line 188 is a remainder. A file that is missing or damaged is
`BadFile`. A relocation at the very end of a record reads and writes memory
behind it: `RelocateOverrun` lets the program go on or crash. `Closed` says what
`fclose` may leave of the output: `main` does not look at its result, and with
`"cut"` in `Closed` it succeeds with an output that is cut off.

`LinkContract` knows no passes: it computes the image of a command line from
the text of the objects, and from a linkable command line goes to that image or
fails, from an unlinkable one fails. `LinksAsPromised` is refinement under the
mapping `Result`: nothing while `tld` runs, then the words of the records in
the output file, or the failure that removed it. `Regular` names the command
lines that it is about, and `MCLinker` has TLC check that its catalogue is of
that kind; `CloseWorks` says that the output is closed without an error.

### Spi

One step is a program's instruction (`OtherInsn`, `Write...`) and the next the
device's cycle after it (`Divide`, `Cycle...`), as `post_insn` in `tsim.c` calls
it. The four data words are one function from bit number to bit. `line` is the
last value each slave's `select` callback was given, `sent` and `got` are the
bits exchanged: history that nothing reads. `cyc` is kept up to `InitCycles +
1`, which is all that line 324 can tell apart. Slots are empty, hold a slave
that follows the protocol with any answer, or the dummy slave, whose traffic
when not selected stops the simulation. A length of 0 means 128 bits and makes
the code shift by -1, in `prep_out` or in `do_one_shift` according to the bit
order; as neither has a defined result, `FullDuplex` leaves it out of both. The
slots are taken to be filled the way `plugin_success` fills them.

### Isa, Machine, Core

`Isa` keeps the operand order of the four formats, sign-extended immediates and
the four kinds of access; the operation itself and the bit layout are constants,
so that theorems hold for any. `Machine` is the interpreter: `mem` says which
addresses some device answers and with which word.

In `Core` one step is one clock edge: `state`, the operation unit `Exec`, the
register file, the memories and the bus advance together, each from the values
before the edge. `halt` and `reset` are inputs that may change at any edge.
Combinational wires are operators of the same name. The contents a latch has
before it is first written are a choice from `Junk`.

`RunsMachine` says that each edge is a step of `Machine` or leaves its variables
alone, where `Machine` sees the register file with P replaced by the address the
core will fetch next. Two cases are outside: an access that no slave answers
(the interpreter stops, the bus answers all ones), and instructions fetched from
an address outside RAM; `strayed` is set there.

### Jit

Blocks are kept by base address; `off` is the position in compiled code, so that
P is `regs[P] + off` inside it. `Interpret` is an instruction with both hooks,
`Compile` and `Enter` are the two returns of 1 from `pre_insn_hook`, `RunCode`
one instruction of compiled code. `excuse` collects what the program has done
that compiled code is known to treat differently: modified words of a known
block, accesses nobody answers, a use of P in a store. `"unended"` is a load
into P that nobody answers: the instruction fails before `post_insn_hook`, which
would have closed the block, so that the block goes on behind its end and may
outgrow its cache the next time it is run. The proof of `CacheFits` brought it
to light. `RunsMachine` compares steps while there is no excuse, `StoresP` also
where P is stored; `CacheFits` and `CompiledIsProgram` hold while the program is
`Steady`, which excludes the two excuses under which a block changes.

### Asm

A program is a sequence of items, as the grammar hands them to its actions; an
expression is a record that mirrors `struct const_expr`. The three lists of
`struct parse_data` that grow at the head are sequences walked backwards. Where
`make_ref` stores a pointer to the newest symbol of a name, the model stores how
many symbols there were (`scope`); where a `.set` stores a pointer to the place
of the next element, the model stores its number (`elem`). `ce_eval` is one
operator for both of its uses: while parsing it relocates nothing and gives up
softly on what is not known, but divides with the addresses it has then, all 0;
afterwards it returns a value and the relocations it appends. `Consumed` is what
`ce_free` takes away: the expression of every `.set` symbol it passes, so that a
second use of the symbol finds a value only. `Emitted` is the object writer's
buffer: words beyond the first allocation are cleared by bytes, and the rest is
any value of `Junk`. `Closed` is as in `Linker`, for `fflush` and `fclose`, and
`"whole"` only in the runs.

`AsmContract` says what a program means: `Value` evaluates an expression at the
address its file has in an image, and `Legal` says which programs are refused.
`MCAsm` links the object that `Asm` writes, by `LinkContract`, behind an object
of three words and before one that defines every name the program does not
export and one that uses every name; `AssemblesRight` compares the whole image
with the meaning. Deliberately left out of `Programs`, because the code is known
to get them wrong (see the hazards): uses of a `.set` elsewhere than right after
it (the run `asm_set`), several uses of one `.set`, a unary minus or a product
around an address, an exported `.set` that is used locally or contains `.`, a
`.set` of a `.set` with an address in it, a divisor made of labels.

### Devices, Tsim

A device is its kind and its cookie. `store` holds the words of all of them, for
a sparse memory only those of its allocated pages. `Sorted` is every order
`qsort` may leave, and `bsearch` the binary search over it, step by step, so
that two memories at one place and a wrong order both show. Devices may overlap
only where they cover the same addresses, as the two memories of this repository
do; with other overlaps a binary search may miss a device that is there.
`events` is the one queue that all SDL devices poll, `cycles` counts modulo
`PUMP_CYCLES`.

`Tsim` is `main`: one action per option, recipe, plugin and loaded word, then
`Start`, the runner and `Close`. What an instruction computes is `Machine`'s
matter; here it is any load or store and whether it writes P. `at` is the place
in the runner's loop. `Block`, `Fetch`, `Insn`, `Fails` and `Pump` are the
bodies of `jit_run_sim` and `interp_run_sim` with `post_insn` (for the compiler,
the wrapper that returns after a write to P and the pump between two calls). A
plugin list that is too long and a missing compiler library make the code read
past the end of an array: both end in "crashed". `last` is history: the word
last written at an address.

### SpiSd

One step is a clock of the card or a change of its select line. The frame's
argument is left out because no handler looks at it, and the checksum is one
bit: right for GO_IDLE_STATE or not. The host selects, sends a frame, reads an
answer and deselects. It may give up at any bit and send anything, or it is
`test/spi.tas.cpp` (`scripted`), whose commands still to be sent are `todo`.
That program asks only once whether the card is ready: its line 49 jumps to the
wait in `put_spi` and not, as its comment says, to ask again. `since` is the
difference of the two counters that line 224 compares, as far as it matters.
`SdContract` has no bits; `KeepsContract` is refinement, where what is owed is
what the host has read and what is left in the output register.

### Params

Pointers are blocks of a heap or literals; a block that was freed may be handed
out at once. A call is one of the four ways in which the code calls `param_set`:
an option (`param_add`: key and value in one block), `assembling` in `tas` and
`tsim` (literals), `paths.share` (literal key, own value) and a plugin
(`wrapped_param_set`). The last frees the key it is given, whatever `free_key`
says: a plugin that hands its key over has it come and go within the call, and
`taken` records that a plugin lost one that it did not hand over. `FreeKeys` are
the values that plugins use; with FALSE among them `Sound` does not hold.
`KeepsContract` reads the table through the pointers, so that a stale one shows
as a wrong key or value.

### Disasm, Formats

An instruction is its fields, a text the tokens of its right side.
`print_disassembly` keeps the rules for what to show, `rhs_plain` and
`make_rhs` the parser's for what that means. `Formats` writes a program element
by element and then either loads the file or disassembles it, assembles the
text and writes it again, as `scripts/dogfood.sh` does. A file is words and
marks, for `obj` records. `elt` is the element that `in()` fills and may leave
alone, so that its first contents are `Garbage` at one of `Strays`. Three
assumptions on the jobs say what the code's callers do: only memh has an offset
(`JobsAssumption`); only `.zero` makes an element of several words or none, and
none of none is written to memh with explicit zeros, which would write a word
for it (`BlocksAssumption`); the records of a given object do not overlap
(`RecordsAssumption`).

## Runs

| run | states | shows |
|---|---|---|
| `linker` | 7,181 | both layouts agree; the contract is kept; `tld` exits |
| `spi` | 356,708 | registers are frozen during a transfer, one character is exchanged, select lines are right, transfers end |
| `core` | 236,716 | the core runs programs as the interpreter does and does not stop |
| `jit` | 253,842 | compiled programs run as the interpreter does; the cache is large enough and holds the program |
| `jit_p` | violation | stores of P in compiled code |
| `asm` | 95,585 | assembled and linked, a program means what it says; exactly the wrong ones are refused, without output |
| `asm_set` | violation | a use of a `.set` relocates the element after the `.set` |
| `sim` | 34,561 | `tsim` from command line to exit: accesses reach their device, memory keeps its words, plugins are registered once, a request to quit and the end of the program are heard |
| `sd` | 134,357 | host and card keep in step; each answer is that of its command; the card gets ready, and not early; `spi.tas.cpp`, which asks once, is told so |
| `params` | 66,265 | with plugins that hand over their keys, nothing is freed twice or used after it; the table is a dictionary |
| `formats` | 145,213 | every instruction and every small program survives its file, and its disassembly |
| `formats_stray` | violation | loading a memh file writes one word that is not the program's |

Bounds. `linker`: three objects are the least for which an object has one before
and one behind it; each object of the catalogue is there for one case, and all
triples, repetitions included, are linked. A word has 32 values, so that sums
wrap. `spi`: words of one bit make a data register of four, so that a bit
crosses every word boundary and all lengths, both orders and both select modes
fit; two slots are enough for one to be selected while the other is not. `core`,
`jit`: 16 instructions that between them use every format, access kind, P in
every position and addresses with RAM, a register and nobody; programs of up to
four words, placed so that P can wrap. `jit` has two more, a register set from P
and a load into P, which may find a word in one run and nobody in the next; it
compiles at a threshold of 2, the value the repository's own tests use. `asm`:
all programs of up to three of 20 pieces, among them one with each error, so
that every definition has uses before it, after it and both, and two errors
meet; words of 64 values and fields of 16. No program of `asm` outgrows the
writer's first buffer, here 16 words. `sim`: 13 option lists, one per recipe,
option and error and those combinations where one changes what another does (two
memories at one place, displays on either side of memory, a gap in the plugins);
two initial slots, so that the table grows; pages of two words in a memory of
four; polls every second cycle, and two events for two displays. `sd`: three
bits of number, so that a transfer has 10 clocks, and 9 clocks required: fewer
than a transfer has, as are the code's 50 of 56, and more than the 7 of a frame,
so that a question right after a transfer that was given up comes too early;
only the numbers without their top bit are sent. `params`: two keys, two values
and four blocks, so that one key passes from owner to owner and a freed block
comes back; one initial slot. `formats`: all instructions with two registers,
all 16 operations and immediates below, at and beyond the width of a small one;
programs of up to three of six pieces in all formats.

Fairness. `Linker`, `Spi` and `Jit` are single-threaded programs that go on
while they can: weak fairness of `Next`. For `Spi` this includes the simulator
giving the device a cycle after each instruction, which `post_insn` does. `Core`
assumes that the clock runs and that halt is not held for ever and reset does
not keep coming. `Tsim` assumes that the runner goes on (weak fairness of
`Run`), not that the user does anything, and `SpiSd` that the host's program
goes on (weak fairness of `Step`), not that other slaves are used.

## Theorems

`LinkerProofs`:

- `TypeCorrect`: `Spec => []TypeOK`. The invariant is strengthened by
  `MetaDomain`, that the object tree has exactly the objects with records that
  were passed: without it the lookups of later passes have no type.
- `LayoutsAgree`: assuming `NoRelink` (no object of several records), `Spec =>
  []PackedAtOffset`. The assumption is needed: the output of `tld` has a record
  per input, and given to `tld` again it takes up the size of its first record
  only in the first layout, so that the objects behind it are shifted.
  `PackedAtOffset` is about the emitting pass, its cause about the building
  pass, with the whole of relocation in between. The inductive invariant says
  that loaded objects are the arguments (`Loaded`), that the offsets form a
  chain in which each object's offset is the one before plus its size (`Chain`),
  that the running offset is the end of the chain (`Building`), that objects
  have at most one record (`OneRecordEach`), and that the address of the emitter
  is the offset of the object it is at (`Placing`). Relocation changes words but
  not sizes.
- `LinksPromised`: assuming `Regular` and `CloseWorks`, `Spec =>
  LinksAsPromised`, the refinement of `LinkContract`, for any number of objects,
  symbols and relocations and any width of a word. `Regular` adds to `NoRelink`
  that the output is not longer than the address space, that relocations by name
  are neither negated nor at the very end of a record, and that two of one word
  are of one width; what the code does with the others is under the findings.
  The invariant `LinkInv` has a part for each pass. `AtBuild`: an object's
  offset is where the contract has its words, as a word, and `defns` holds the
  one definition of each name in the objects passed (`Based`, `Defined`).
  `AtRelocate`: a word holds the contract's sum over the relocations done so
  far, and these have their definitions (`Patching`). `AtEmit`: the emitted
  words are the contract's image of the objects passed (`Placed`). The
  arithmetic is in `FieldAdds` (patching a field with one more adjustment, each
  reduced to a word, gives the field of the longer sum) and in `SumAdd` (a sum
  over a set takes in one more element, whatever the order in which the set is
  folded). An early exit is the contract's failure because it shows the command
  line unlinkable: `DuplicateUnlinkable`, `FatalUnlinkable`.

`CoreProofs`:

- `CoreTypes`: `Spec => []TypeOK`.
- `CoreRunsMachine`: `Spec => RunsMachine`, for any instruction set, word size,
  memory map and program. The inductive invariant says, per state of the core,
  which latches hold values of the current instruction: `Fresh` (the operation
  unit's outputs belong to this instruction once it says it is done), `Drained`
  (its pipe holds nothing of an earlier one when a new one starts), `Fetched`
  (`insn` and `nextP` are those of the address being executed), `Accessing` (the
  address and the data on the bus are those of the access). The theorem
  assumes what the modules assume of their constants and nothing else.

`SpiSdProofs`:

- `CardTypes`, `CardInStep`, `CardReadyLate`: `Spec => []TypeOK`, `[]InStep` and
  `[]ReadyLate`, for any number of bits in a command's number, any commands and
  any number of clocks required. They are proved together. `Tracking` is the
  strengthening: while a frame is sent the card's bit count is the number of
  bits sent and the end of its input register is the beginning of the frame;
  afterwards it counts the answer, which is shorter than a frame. So the count
  is full only when the register holds the frame that the host meant.
- `CardKeepsContract`: `Spec => KeepsContract`, the refinement of `SdContract`,
  assuming `NoTopBit`, that no command has a number whose top bit the card masks
  away (with one, it answers as to the command without it; see the findings).
  What it adds to the invariant is `Drained`: while a frame is sent zeros fill
  the output register, which is why a command without a handler gets the zeros
  of an R1. That a frame's bits add up to its number (`NumberOfFrame`) is an
  induction over the bits; that a clock moves one bit of the answer from the
  card to the host and changes nothing of what is owed is `ReadingKeepsOwed`.

`DisasmProofs`:

- `DisassemblyAssembles`: `RoundTrip`, that the parser's rules read every
  printed instruction as itself, for any number of registers and any widths of
  the immediates (each at most the next). One lemma per form of a right side
  says what the parser makes of it, one per type which form is printed; the
  cases are those of the disassembler's rules for ambiguous operands. `formats`
  checks the same through files, on instances where every case occurs.
- `FormatsTyped`, `CyclesHold`, `ProgramsLoad`: `Spec => []TypeOK`, `[]Cycle`
  and `[]Loads`, for programs of any length, any offsets and all formats.
  `WriteInv` says that the file is at every element what the writer makes of the
  words so far: all of them, or for memh without explicit zeros the others, with
  a mark after each gap. `Denotes` says which words a reader makes of the rest
  of a file, by its format and the position it has reached, and `ReadInv` that
  what is in memory and what the rest denotes are together the program; each
  item read moves one word from the one to the other, and a mark only moves the
  position. `Cycle` follows from both and from `RoundTrip`; by `Kinds` no line
  of the disassembly is refused. An object that is given need not come from
  `tas`: `RecordsInv` says that each word of each record behind the reader is in
  memory, which a mark's stray store cannot undo.

`SpiProofs`:

- `SpiTypes`, `GoBusyIsState`, `LinesFollow`, `TransfersAreExchanges`: `Spec =>
  []TypeOK`, `[]GoMirrorsState`, `[]LineFollowsSS` and `[]FullDuplex`, for any
  width of the data words, any slots and slaves, any delays. `Counting` says
  that a running transfer has a bit left and a finished one none; `Exchange` is
  the loop invariant of `do_one_shift`: the bits exchanged and the bits left
  make up the character, the ones exchanged came from one end of it, and the
  answers have come in at the other (`ExchangeLSB`, `ExchangeMSB`).
- `TransferFreezesRegisters`: `Spec => RegistersFrozen`, an action property;
  what the guards on the state refuse is exactly what a transfer needs to stay.

`JitProofs`:

- `JitTypes`, `CacheSuffices`, `CompiledFromProgram`: `Spec => []TypeOK`,
  `[]CacheFits` and `[]CompiledIsProgram`, for any instruction set, word size,
  program and threshold above 1. A block that has been run once ends with an
  instruction that writes P, so that no later run passes its end; one that has
  been run twice has no such instruction before it. A threshold above 1 makes
  the run in which the cache is filled at least the third, so that it fills all
  of it (`Shape` whatever the program does, `Content` while it is steady,
  `Course` for the block that is running).
- `CompiledRunsMachine`: `Spec => RunsMachine`, each instruction of compiled
  code against the interpreter's, P taken at its place in the block.

`ParamsProofs`:

- `ParamTypes`, `TableIsDictionary`: `Spec => []TypeOK` and `KeepsContract`, the
  refinement of `ParamDict`, for any keys, values, heap and plugins; and
  `TableIsSound`: `Spec => []Sound`, assuming `FreeKeys \subseteq {TRUE}`, which
  only the plugin's own key needs (`TakenOK`). The invariant is one of
  ownership: an entry owns what `param_free` would give to `free` for it; it
  owns nothing twice (`EntryOK`), and nothing that another entry points to
  (`Apart`); a value that shares a block with a key is in that key's entry or in
  a block nobody owns; and no two entries have the same text as a key, which is
  what makes the table a function.

`TsimProofs`:

- `TsimTypes`, `DispatchReaches`, `MemoryCoheres`, `PluginsAreOnce`: the type
  invariant, `Reachable`, `Coherent` and `PluginsOnce`, for any command lines,
  plugins, programs, sizes and users. From `devices_finalise` on the devices are
  in the order of their bases (`Registry`), so that the binary search finds a
  device wherever there is one (`SearchFinds`) and always the same; a cell is
  therefore written under its own address only, and holds what was written last
  (`Contents`, `History`). The registered plugins together with those still to
  be loaded are those of the list that can be loaded, each once (`Plugged`).

The provers cannot instantiate the library's induction theorems, which take an
operator, but they can use one about sets: a set of natural numbers that is not
all of them leaves out a least one. `NatSetInduction` is derived from that, and
with it the equations of recursive functions (the binary search, the list of
plugins, a frame's number) are shown to have one solution, and what it is.
Powers of two are known to the provers only as the sizes of sets of subsets
(`PowerNext`).

Only model-checked are: liveness (`Exits`, `TransferCompletes`, `Retires`,
`QuitHeard`, `EndHeard`, `PowersUp`, `GetsReady`), since temporal reasoning with
fairness is out of the prover's reach; and `TypeOK`, `AssemblesRight` and
`Verdict` of `Asm`, whose evaluation of expressions of any depth is a recursive
operator, which the prover does not take.

## Findings

Three runs are expected to be violated, each by a disagreement between the code
and a comment, message or test of the repository; `PROJECT.json` quotes both
sides: stores of P from compiled code (`jit_p`), relocations of `.set` symbols
(`asm_set`), and a word stored before the first mark of a memh file is followed
(`formats_stray`).

Other disagreements that the models made visible, and that the passing runs
exclude by their inputs or by a named exception:

- a named relocation with the negation flag of `src/obj.h:9` is added by
  `src/tld.c:182`; only relocations to the object itself are negated;
- objects of several records shift those linked behind them (`src/tld.c:122`);
- a relocation at the very end of a record is applied (`src/tld.c:157`);
- the SPI start-up delay (`src/devices/spi.c:40`) is taken before the first
  transfer only, since `cyc` is never reset (`:324`);
- `main` of `tld` and of `tas` looks at the results of neither `fflush` nor
  `fclose` (`src/tld.c:368`, `src/tas.c:155` and `:160`): an output whose last
  buffer cannot be written is cut off and the tool succeeds, where a failing
  `fwrite` ends it with an error (`src/obj.c:32`);
- `wrapped_param_set` (`src/devices/spi.c:117`) frees the key it is given also
  when `free_key` says that the plugin keeps it;
- line 49 of `test/spi.tas.cpp` jumps to `L_put_spi_wait`, the wait in
  `put_spi`, where its comment says "loop if idle bit is set". The program gets
  along because the card requires 50 clocks and a transfer has 56: a card that
  required enough more would still be idle at its only question, and `PowersUp`
  would fail;
- `.zero` blocks that outgrow the writer's first 1024 words are cleared by bytes
  and counted in words (`src/asm.c:343`);
- SD commands of 32 and more are answered as the command 32 below
  (`src/devices/spisd.c:311`);
- memh drops trailing zeros, writes one word of a trailing explicit block and,
  with explicit zeros, one word for a block of none, which moves what follows;
- a word or mark that cannot be read ends a text or memh input without an error
  (`src/asm.c:551`);
- `tdelete` of the web build's tree (`ui/web/src/emtsearch.c:89`) overwrites the
  pointer it goes on to use when the right subtree has a left one, and follows a
  null pointer when the key is absent (`:66`).

## Not modelled, and why

Options that begin with `=` (`param_add` looks at the byte before them,
`src/param.c:117`), the lexer and the parser's grammar (text), the operators `^
& | << >> >>>` of constant expressions and their rules, negative `.zero` sizes,
printing (layout), what the SDL devices draw and when, the byte encoding of
object files, writes that fail in the raw, text and memh writers (nobody reads
their result, `src/asmif.c:370`), several input files of `tas`, VPI glue and the
web page (I/O), board peripherals (combinational), the library, examples and
Forth (programs for the machine; `lib/malloc.tas.cpp` is unfinished by its own
words), third-party bus cores (outside the repository's own code; the memory map
is a constant), the fifteen operations themselves and their translation into x86
code.

## What is left

The operations of the three implementations side by side (shifts by 32 and more
differ), the web build's binary trees and several input files of `tas` are not
modelled. A theorem about `Asm` needs `ce_eval` as a function on expressions of
bounded depth. `LinksPromised` says nothing of a negated relocation by name, of
one at the very end of a record, or of an output that wraps around the address
space.
