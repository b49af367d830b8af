------------------------------- MODULE Linker -------------------------------
(***************************************************************************)
(* The linker, tld (src/src/tld.c), over objects as src/src/obj.c reads    *)
(* them.  One run of the program: every file of the command line is        *)
(* loaded, do_link_build_state lays the objects out and collects their     *)
(* symbols, do_link_relocate patches the relocated words, do_link_emit     *)
(* copies the records into one image and obj_write writes it.  fatal()     *)
(* longjmps to main, which removes the output file and exits.              *)
(*                                                                         *)
(* Offsets are computed twice, by two passes that share nothing: once in   *)
(* do_link_build_state, where relocations take them from, and once in      *)
(* do_link_emit, which decides where a record really goes.                 *)
(*                                                                         *)
(* A relocation's width is represented by span = 2^width, the number of    *)
(* values of the field it patches; a word is a number below Limit = 2^32.  *)
(***************************************************************************)
EXTENDS Integers, Sequences

CONSTANTS Limit,    \* number of values of a UWord
          Names,    \* symbol names
          NoName,   \* the empty name of a null relocation
          BadFile,  \* a file that obj_read refuses
          Inputs,   \* the command lines: sequences of files
          Closed,   \* what main's fclose may leave of the output: "whole", or "cut"
          Pending, Failed   \* LinkContract's results before and without an output

Word == 0 .. Limit - 1
Rec  == [addr : Word, data : Seq(Word)]
Sym  == [name : Names, value : Word, absolute : BOOLEAN]
Rlc  == [name : Names \cup {NoName}, addr : Word, span : {s \in 1 .. Limit : Limit % s = 0},
         negate : BOOLEAN]
Obj  == [records : Seq(Rec), symbols : Seq(Sym), relocs : Seq(Rlc)]

ASSUME LimitAssumption  == Limit \in Nat \ {0}
ASSUME InputsAssumption == Inputs \subseteq Seq(Obj \cup {BadFile})
ASSUME BadFileAssumption == BadFile \notin Obj
ASSUME NoNameAssumption == NoName \notin Names
ASSUME ClosedAssumption == "whole" \in Closed /\ Closed \subseteq {"whole", "cut"}

VARIABLES args,     \* argv: the input files
          phase,    \* how far main() is
          objs,     \* s->objs, the objects in command-line order
          words,    \* words[k]: current contents of objs[k].records[1]
          node,     \* cursor of list_foreach(obj_list, Node, ...)
          inner,    \* cursor of the inner list_foreach (relocs, records)
          running,  \* do_link_build_state's running offset
          meta,     \* objtree: object -> offset, for objects with a record
          defns,    \* defns: name -> [obj, reladdr, absolute]
          addr,     \* do_link_emit's running address
          image,    \* records of s->relocated
          placed,   \* history: object -> address its first record got
          outfile,  \* the -o file: "empty" (opened), "whole", "cut" or "absent"
          iofault   \* history: the output met an I/O error

input  == <<args, objs>>
layout == <<running, meta, defns>>
output == <<addr, image, placed>>
vars   == <<args, phase, objs, words, node, inner, running, meta, defns, addr,
            image, placed, outfile, iofault>>

Exited == {"ok", "failed", "crashed"}

Init ==
  /\ args \in Inputs
  /\ phase = "load"
  /\ objs = << >> /\ words = << >>
  /\ node = 1 /\ inner = 1
  /\ running = 0
  /\ meta = << >> /\ defns = << >>
  /\ addr = 0 /\ image = << >> /\ placed = << >>
  /\ outfile = "empty"
  /\ iofault = FALSE

\* fatal(): longjmp to the setjmp in main, which removes the output file.
Fatal ==
  /\ phase' = "failed"
  /\ outfile' = "absent"
  /\ UNCHANGED <<input, words, node, inner, layout, output>>

\* A list_foreach over the objects has run out; the next one starts at the front.
Enter(next) ==
  /\ node > Len(objs)
  /\ phase' = next
  /\ node' = 1 /\ inner' = 1
  /\ UNCHANGED <<input, words, layout, output, outfile, iofault>>

-----------------------------------------------------------------------------
(* do_load_all                                                             *)

FirstWords(o) == IF o.records = << >> THEN << >> ELSE o.records[1].data

do_load ==
  /\ phase = "load" /\ node <= Len(args)
  /\ args[node] # BadFile
  /\ objs' = Append(objs, args[node])
  /\ words' = Append(words, FirstWords(args[node]))
  /\ node' = node + 1
  /\ UNCHANGED <<args, phase, inner, layout, output, outfile, iofault>>

\* The file cannot be opened, its magic or version is wrong, a read comes up
\* short, or a count or size exceeds its limit (obj_read returns 1).
do_load_fails ==
  /\ phase = "load" /\ node <= Len(args)
  /\ args[node] = BadFile
  /\ Fatal /\ UNCHANGED iofault

LoadDone == phase = "load" /\ node > Len(args) /\ Enter("build")

-----------------------------------------------------------------------------
(* do_link_build_state                                                     *)

Size(k)       == Len(FirstWords(objs[k]))
SymNames(o)   == {o.symbols[j].name : j \in DOMAIN o.symbols}
Duplicate(o)  == \/ SymNames(o) \cap DOMAIN defns # {}
                 \/ \E i, j \in DOMAIN o.symbols :
                      i # j /\ o.symbols[i].name = o.symbols[j].name
Define(k, o) ==
  [n \in DOMAIN defns \cup SymNames(o) |->
     IF n \in DOMAIN defns THEN defns[n]
     ELSE LET s == o.symbols[CHOOSE j \in DOMAIN o.symbols : o.symbols[j].name = n]
          IN  [obj |-> k, reladdr |-> s.value, absolute |-> s.absolute]]

BuildSkip ==
  /\ phase = "build" /\ node <= Len(objs)
  /\ objs[node].records = << >>
  /\ node' = node + 1
  /\ UNCHANGED <<input, phase, words, inner, layout, output, outfile, iofault>>

BuildDuplicate ==
  /\ phase = "build" /\ node <= Len(objs)
  /\ objs[node].records # << >>
  /\ Duplicate(objs[node])
  /\ Fatal /\ UNCHANGED iofault

\* Mutant of Advance: the next object starts on the last word of this one.
AdvanceShort(r) == (r + Size(node) - (IF Size(node) > 1 THEN 1 ELSE 0)) % Limit

Advance(r) == (r + Size(node)) % Limit

BuildObject ==
  /\ phase = "build" /\ node <= Len(objs)
  /\ objs[node].records # << >>
  /\ ~Duplicate(objs[node])
  /\ meta' = [k \in DOMAIN meta \cup {node} |-> IF k = node THEN running ELSE meta[k]]
  /\ running' = Advance(running)
  /\ defns' = Define(node, objs[node])
  /\ node' = node + 1
  /\ UNCHANGED <<input, phase, words, inner, output, outfile, iofault>>

BuildDone == phase = "build" /\ Enter("relocate")

-----------------------------------------------------------------------------
(* do_link_relocate, do_link_relocate_obj, do_link_relocate_obj_reloc      *)

Relocating == phase = "relocate" /\ node <= Len(objs) /\ objs[node].records # << >>
rlc        == objs[node].relocs[inner]
AtReloc    == Relocating /\ inner <= Len(objs[node].relocs)
FirstRec   == objs[node].records[1]
Offset     == rlc.addr - FirstRec.addr
OneRecord  == Len(objs[node].records) = 1
OutOfRange == Offset < 0 \/ Offset > Size(node)
Missing    == rlc.name # NoName /\ rlc.name \notin DOMAIN defns

\* Mutant of reladdr: a symbol is moved by the offset of the object that refers
\* to it instead of the one that defines it.
reladdrOwn ==
  IF rlc.name # NoName
  THEN LET d == defns[rlc.name]
       IN  IF d.absolute THEN d.reladdr ELSE d.reladdr + meta[node]
  ELSE IF rlc.negate THEN (-meta[node]) % Limit ELSE meta[node]

\* The value added to the word: the symbol's value, moved by the offset of the
\* object that defines it, or for a null relocation the object's own offset.
\* Only a null relocation is ever negated.
reladdr ==
  IF rlc.name # NoName
  THEN LET d == defns[rlc.name]
       IN  IF d.absolute THEN d.reladdr ELSE d.reladdr + meta[d.obj]
  ELSE IF rlc.negate THEN (-meta[node]) % Limit ELSE meta[node]

\* Mutant of Patched: the sum is not trimmed to the width of the field.
PatchedUntrimmed(dest) == dest + reladdr

\* Only the low bits of the word, those of the relocated field, change.
Patched(dest) == ((dest - (dest % rlc.span)) + ((dest + reladdr) % rlc.span)) % Limit

RelocateFatal ==
  /\ AtReloc
  /\ ~OneRecord \/ (~OutOfRange /\ Missing)
  /\ Fatal /\ UNCHANGED iofault

\* Mutant of RelocateSkip: an invalid relocation is looked at again and again.
RelocateSkipStuck ==
  /\ AtReloc /\ OneRecord /\ OutOfRange
  /\ UNCHANGED vars

RelocateSkip ==
  /\ AtReloc /\ OneRecord /\ OutOfRange
  /\ inner' = inner + 1
  /\ UNCHANGED <<input, phase, words, node, layout, output, outfile, iofault>>

RelocateWord ==
  /\ AtReloc /\ OneRecord /\ ~OutOfRange /\ ~Missing
  /\ Offset < Size(node)
  /\ words' = [words EXCEPT ![node][Offset + 1] = Patched(@)]
  /\ inner' = inner + 1
  /\ UNCHANGED <<input, phase, node, layout, output, outfile, iofault>>

\* The range test lets rlc->addr = r->addr + r->size through: the word after
\* the record's buffer is read and written.  Either nothing the linker uses
\* lies there, or the process dies where it stands.
RelocateOverrun ==
  /\ AtReloc /\ OneRecord /\ ~OutOfRange /\ ~Missing
  /\ Offset = Size(node)
  /\ \/ inner' = inner + 1 /\ UNCHANGED phase
     \/ phase' = "crashed" /\ UNCHANGED inner
  /\ UNCHANGED <<input, words, node, layout, output, outfile, iofault>>

RelocateNext ==
  /\ phase = "relocate" /\ node <= Len(objs)
  /\ Relocating => inner > Len(objs[node].relocs)
  /\ node' = node + 1 /\ inner' = 1
  /\ UNCHANGED <<input, phase, words, layout, output, outfile, iofault>>

RelocateDone == phase = "relocate" /\ Enter("emit")

-----------------------------------------------------------------------------
(* do_link_emit, do_emit and the end of main                               *)

Emitting == phase = "emit" /\ node <= Len(objs)
Contents == IF inner = 1 THEN words[node] ELSE objs[node].records[inner].data

EmitRecord ==
  /\ Emitting /\ inner <= Len(objs[node].records)
  /\ image' = Append(image, [addr |-> addr, data |-> Contents])
  /\ addr' = (addr + Len(Contents)) % Limit
  /\ placed' = [k \in DOMAIN placed \cup {node} |->
                  IF k \in DOMAIN placed THEN placed[k] ELSE addr]
  /\ inner' = inner + 1
  /\ UNCHANGED <<input, phase, words, node, layout, outfile, iofault>>

EmitNext ==
  /\ Emitting /\ inner > Len(objs[node].records)
  /\ node' = node + 1 /\ inner' = 1
  /\ UNCHANGED <<input, phase, words, layout, output, outfile, iofault>>

EmitDone == phase = "emit" /\ Enter("write")

\* What fwrite was given may still be in the stream's buffer, for a small
\* output all of it; main does not look at the result of fclose.
Finish ==
  /\ phase = "write"
  /\ phase' = "ok"
  /\ outfile' \in Closed /\ iofault' = (outfile' = "cut")
  /\ UNCHANGED <<input, words, node, inner, layout, output>>

\* fwrite comes up short: put_sized calls fatal().
WriteFails ==
  /\ phase = "write"
  /\ iofault' = TRUE
  /\ Fatal

\* The process has exited; nothing more happens.
Terminated == phase \in Exited /\ UNCHANGED vars

Next ==
  \/ do_load \/ do_load_fails \/ LoadDone
  \/ BuildSkip \/ BuildDuplicate \/ BuildObject \/ BuildDone
  \/ RelocateFatal \/ RelocateSkip \/ RelocateWord \/ RelocateOverrun
  \/ RelocateNext \/ RelocateDone
  \/ EmitRecord \/ EmitNext \/ EmitDone
  \/ Finish \/ WriteFails
  \/ Terminated

Spec == Init /\ [][Next]_vars /\ WF_vars(Next)

-----------------------------------------------------------------------------
(* Properties                                                              *)

\* Every variable stays in its type: what the passes build of the loaded
\* objects are words, offsets of objects that have a record and definitions
\* of known symbols, and patching keeps every record's length.
TypeOK ==
  /\ args \in Inputs
  /\ phase \in {"load", "build", "relocate", "emit", "write"} \cup Exited
  /\ objs \in Seq(Obj)
  /\ words \in Seq(Seq(Word)) /\ Len(words) = Len(objs)
  /\ \A k \in DOMAIN objs : Len(words[k]) = Size(k)
  /\ node \in Nat \ {0} /\ inner \in Nat \ {0}
  /\ running \in Word /\ addr \in Word
  /\ DOMAIN meta \subseteq DOMAIN objs
  /\ \A k \in DOMAIN meta : meta[k] \in Word /\ objs[k].records # << >>
  /\ DOMAIN defns \subseteq Names
  /\ \A n \in DOMAIN defns : defns[n] \in [obj : DOMAIN meta, reladdr : Word,
                                          absolute : BOOLEAN]
  /\ image \in Seq(Rec)
  /\ DOMAIN placed \subseteq DOMAIN objs
  /\ \A k \in DOMAIN placed : placed[k] \in Word
  /\ outfile \in {"empty", "whole", "cut", "absent"}
  /\ iofault \in BOOLEAN

\* do_link_emit puts every object where do_link_build_state said it would be
\* (tld.c, "tracking where to pack objects tightly one after another"), so an
\* address patched in from an offset is the address of the word it names.
PackedAtOffset ==
  \A k \in DOMAIN placed : k \in DOMAIN meta /\ placed[k] = meta[k]

\* Command lines on which the two layouts agree: an object with several
\* records has a relocation, and is refused for it.
NoRelink ==
  \A a \in Inputs : \A k \in DOMAIN a :
    a[k] # BadFile => Len(a[k].records) <= 1 \/ a[k].relocs # << >>

\* The words of the emitted records, as a memory.
Emitted ==
  UNION {{<<image[i].addr + j - 1, image[i].data[j]>> : j \in DOMAIN image[i].data} :
           i \in DOMAIN image}

\* A crash (see RelocateOverrun) delivers nothing, and of a cut output nothing
\* can be relied on.
Result == IF phase = "ok" THEN IF outfile = "whole" THEN Emitted ELSE {}
          ELSE IF phase = "failed" /\ outfile = "absent" THEN Failed
          ELSE Pending

Contract == INSTANCE LinkContract WITH result <- Result

\* Objects whose relocations the linker applies as they are meant: one by name
\* is neither negated nor at the very end of the record, and two of one word
\* are of one width.
Plain(o) ==
  \A i, j \in DOMAIN o.relocs :
    LET r == o.relocs[i]  s == o.relocs[j] IN
    /\ r.name # NoName => ~r.negate /\ r.addr - o.records[1].addr # Len(o.records[1].data)
    /\ r.addr = s.addr => r.span = s.span

\* Command lines that LinkContract is about: such objects, laid out the same
\* way by both passes, with at most as many words as there are addresses.
Regular ==
  /\ NoRelink
  /\ \A a \in Inputs : BadFile \notin {a[k] : k \in DOMAIN a} =>
       \A k \in Contract!Bearing(a) :
         Plain(a[k]) /\ Contract!Base(a, k) + Len(Contract!Contents(a[k])) <= Limit

\* The passes of tld together do what LinkContract says: the output appears
\* only for a linkable command line, complete and with every field resolved
\* to the address its target has in that output; otherwise it is removed.
LinksAsPromised == Contract!Spec

\* A system whose last write, by fclose, does not fail: main does not look at
\* its result, and succeeds with an output that is cut off where it does.
CloseWorks == Closed = {"whole"}

\* Every list is walked to its end: the linker exits on every command line.
Exits == <>(phase \in Exited)

=============================================================================
