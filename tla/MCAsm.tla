-------------------------------- MODULE MCAsm -------------------------------
(***************************************************************************)
(* Small instances of Asm.  The object tas writes is linked, as            *)
(* LinkContract says, behind another object and before one that defines    *)
(* the names the program does not and one that uses all names; what is in  *)
(* the image is compared with what the program means.                      *)
(***************************************************************************)
EXTENDS Asm

CONSTANTS l, m, p, q, s1, t, u, v1, x, BadFile, Pending, Failed

Narrow == 16   \* values of an instruction's immediate field

imm(i)        == [t |-> "imm", i |-> i]
dot           == [t |-> "dot"]
far(n)        == [t |-> "ref", name |-> n, local |-> FALSE]
near(n)       == [t |-> "ref", name |-> n, local |-> TRUE]
op1(op, e)    == [t |-> "op1", op |-> op, l |-> e]
op2(op, a, b) == [t |-> "op2", op |-> op, l |-> a, r |-> b]

part(size, w, span, mult, packed, e) ==
  [size |-> size, word |-> w, span |-> span, mult |-> mult, packed |-> packed, expr |-> e]
wordof(e)   == part(1, 0, Limit, 1, FALSE, e)
plain(w)    == part(1, w, Limit, 1, FALSE, None)
field(e)    == part(1, 3 * Narrow + 13, Narrow, 1, FALSE, e)
zeros(n)    == part(n, 0, Limit, 1, FALSE, None)

data(labels, parts) == [kind |-> "data", labels |-> labels, parts |-> parts]
set(n, e)    == [kind |-> "set", name |-> n, expr |-> e]
global(n)    == [kind |-> "global", name |-> n]
error        == [kind |-> "error"]

\* Pieces of programs, each there for one case of the assembler.
Chunks ==
  { <<data(<<p>>, <<plain(7)>>)>>,                                  \* p: an instruction
    <<data(<< >>, <<wordof(far(p)), field(op2("-", far(p), dot))>>)>>, \* uses of p, near or far
    <<data(<<q>>, <<wordof(op2("+", far(x), imm(3)))>>)>>,          \* q: an external
    <<data(<<q, p>>, <<zeros(2)>>)>>,                               \* two labels, a gap
    <<data(<<l>>, <<zeros(2)>>),                                    \* local labels
      data(<<m>>, <<wordof(op2("*", op2("-", near(m), near(l)), imm(2))),
                    wordof(op2("-", imm(1), op2("-", dot, near(l))))>>)>>,
    <<set(s1, dot), data(<< >>, <<wordof(far(s1))>>)>>,               \* .set, used at once
    <<set(s1, imm(5)), data(<< >>, <<field(far(s1))>>)>>,
    <<set(s1, op2("+", far(p), imm(1))), data(<< >>, <<wordof(far(s1))>>)>>,
    <<set(v1, imm(1)), set(s1, op2("+", far(v1), imm(1))), data(<< >>, <<wordof(far(s1))>>)>>,
    <<set(s1, far(v1)), set(v1, imm(1))>>,                             \* a .set of a later .set
    <<set(t, imm(3)), global(t)>>,                                  \* a constant exported
    <<global(p)>>,
    <<data(<< >>, <<wordof(far(u))>>), set(u, imm(2))>>,            \* used before it is set
    <<data(<< >>, <<field(imm(7)), part(1, 0, Narrow, -1, FALSE, imm(8))>>)>>,
    <<data(<< >>, <<field(imm(8))>>)>>,                             \* just too large
    <<data(<< >>, <<part(1, 2, Narrow, 1, TRUE, imm(45))>>)>>,      \* the same, after ^^
    <<data(<< >>, <<wordof(op2("+", far(p), far(x)))>>)>>,          \* two externals
    <<data(<< >>, <<wordof(op2("/", op1("-", imm(7)), op1("~", imm(0))))>>)>>,
    <<data(<< >>, <<wordof(op2("/", imm(1), imm(0)))>>)>>,
    <<error>> }

MaxChunks == 3
Sentences(chunks) ==
  {FlattenSeq(c) : c \in UNION {[1 .. n -> chunks] : n \in 0 .. MaxChunks}}

AllPrograms == Sentences(Chunks)

\* .set and its uses, in any order, with instructions between them
SetPrograms  == Sentences({<<set(s1, dot)>>, <<data(<< >>, <<plain(7)>>)>>,
                           <<data(<< >>, <<wordof(far(s1))>>)>>})

-----------------------------------------------------------------------------
Meaning == INSTANCE AsmContract
Linking == INSTANCE LinkContract WITH args <- << >>, result <- Pending

\* The names other files may know; local labels are not among them.
AllNames == <<p, q, s1, t, u, v1, x>>
Exported == {object.symbols[i].name : i \in DOMAIN object.symbols}
Absent   == LET absent(n) == n \notin Exported IN SelectSeq(AllNames, absent)

obj(d, ss, rs) == [records |-> <<[addr |-> 0, data |-> d]>>, symbols |-> ss, relocs |-> rs]
Pad  == obj(<<1, 1, 1>>, << >>, << >>)
Lib  == obj([i \in DOMAIN Absent |-> 0],
            [i \in DOMAIN Absent |-> [name |-> Absent[i], value |-> i - 1, absolute |-> FALSE]], << >>)
User == obj([i \in DOMAIN AllNames |-> 0], << >>,
            [i \in DOMAIN AllNames |-> [name |-> AllNames[i], addr |-> i - 1, span |-> Limit,
                                        negate |-> FALSE]])
Files == <<Pad, object, Lib, User>>

FileBase == Linking!Base(Files, 2)
Ext == [n \in {Absent[i] : i \in DOMAIN Absent} |->
          Linking!Base(Files, 3) + (CHOOSE i \in DOMAIN Absent : Absent[i] = n) - 1]
LinkedWord(k, i) == Linking!Linked(Files, k, i + 1)

\* The value of an exported name: its last definition counts.
ExportedValue(n) ==
  LET k == Max(Meaning!Defines(prog, n))
  IN  IF prog[k].kind = "data" THEN (FileBase + Meaning!At(prog, k, 1)) % Limit
      ELSE Meaning!Value(prog, k, prog[k].expr, Meaning!At(prog, k, 1), FileBase, Ext)

\* What tas writes, once linked at an address of the linker's choice, is the
\* program: every field holds the value of its expression there, every other
\* bit is as written, gaps are zero, and other files see the values of the
\* names the program exports (asmif.c: the passes over elements, symbols,
\* deferred expressions and relocations, each in its own order).
AssemblesRight ==
  phase = "ok" =>
    /\ Linking!Linkable(Files)
    /\ \A k \in DOMAIN prog : prog[k].kind = "data" =>
         \A i \in DOMAIN prog[k].parts :
           LET at == Meaning!At(prog, k, i)  this == prog[k].parts[i] IN
           \A j \in 0 .. this.size - 1 :
             LinkedWord(2, at + j) =
               (IF j > 0 THEN 0
                ELSE IF this.expr = None THEN this.word
                ELSE Meaning!Patch(this, Meaning!FieldValue(prog, <<k, i>>, FileBase, Ext)))
    /\ \A i \in DOMAIN AllNames : AllNames[i] \in Exported =>
         LinkedWord(4, i - 1) = ExportedValue(AllNames[i])

\* tas refuses exactly the programs that are wrong, and leaves no output file
\* then: errors found while parsing, duplicate labels, a use before the .set,
\* a division by zero and values too large for their fields all end in main's
\* remove(), whichever pass meets them first.
Verdict ==
  /\ phase = "ok" => Meaning!Legal(prog, None, [n \in Names |-> 0]) /\ outfile = "whole"
  /\ phase = "failed" =>
       /\ outfile = "absent"
       /\ iofault \/ ~Meaning!Legal(prog, None, [n \in Names |-> 0])

=============================================================================
