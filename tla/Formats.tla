------------------------------ MODULE Formats ------------------------------
(***************************************************************************)
(* The file formats of tas and tsim (src/src/asm.c): raw, text, memh and   *)
(* obj.  A job writes a program with tas and either loads the file into    *)
(* the simulator (load_sim in src/src/sim.c) or, as src/scripts/dogfood.sh *)
(* does, disassembles it and assembles the text again (Disasm.tla).        *)
(*                                                                         *)
(* A file is the words and marks in it, for obj its records.  A word is an *)
(* instruction of Disasm.  Writing does not fail here.                     *)
(***************************************************************************)
EXTENDS Disasm, SequencesExt

CONSTANTS Jobs,      \* [fmt, offset, explicit, verbose, load, elements, given]
          Garbage,   \* what is in an element nobody has set
          Strays     \* the addresses that may be in it

Zero == [p |-> 0, dd |-> 0, z |-> 0, x |-> 0, y |-> 0, op |-> "|", imm |-> 0]

WordIn(w) == [t |-> "word", w |-> w]
MarkAt(a) == [t |-> "at", a |-> a]
Junk      == [t |-> "junk"]

Element == [word : Insn, size : Nat]
Item    == [t : {"word"}, w : Insn] \cup [t : {"at"}, a : Nat] \cup {Junk}
Record  == [addr : Nat, data : Seq(Insn)]
AnyJob  == [fmt : {"raw", "text", "memh", "obj"}, offset : Nat,
            explicit : BOOLEAN, verbose : BOOLEAN, load : BOOLEAN,
            elements : Seq(Element), given : Seq(Item) \cup Seq(Record)]

\* A file that is given is one of its format, and only memh has an offset.
ASSUME JobsAssumption ==
  \A j \in Jobs :
    /\ j \in AnyJob
    /\ j.given # <<>> => j.given \in IF j.fmt = "obj" THEN Seq(Record) ELSE Seq(Item)
    /\ j.offset = 0 \/ j.fmt = "memh"

\* Only .zero makes an element of more words than one, or of none; of one of
\* none, memh with explicit zeros would write a word all the same.
ASSUME BlocksAssumption ==
  \A j \in Jobs : \A i \in DOMAIN j.elements :
    /\ j.elements[i].size = 1 \/ j.elements[i].word = Zero
    /\ j.elements[i].size # 0 \/ j.fmt # "memh" \/ ~j.explicit

\* The records of an object do not overlap.
ASSUME RecordsAssumption ==
  \A j \in Jobs : j.fmt = "obj" =>
    \A r, s \in DOMAIN j.given :
      \A k \in DOMAIN j.given[r].data, l \in DOMAIN j.given[s].data :
        j.given[r].addr + k = j.given[s].addr + l => r = s

VARIABLES job,     \* what is to be done
          stage,   \* out, in, parse, again, and how it ended
          todo,    \* the elements still to be written
          st,      \* the format's own state
          file,    \* the file being written or read, as far as it is unread
          files,   \* the files written so far
          elt,     \* the element that in() fills
          lines,   \* the disassembly
          memory   \* address |-> word loaded

vars == <<job, stage, todo, st, file, files, elt, lines, memory>>

\* assembly_fixup_insns: an address for each element.
Placed(es) ==
  LET sum[i \in 0 .. Len(es)] == IF i = 0 THEN 0 ELSE sum[i - 1] + es[i].size
  IN  [i \in DOMAIN es |-> [word |-> es[i].word, size |-> es[i].size, reladdr |-> sum[i - 1]]]

Undefined == [word |-> Garbage, reladdr |-> -1]

(* gen_init, memh_init and obj_init: n is the offset, the words written or  *)
(* the position in the record.                                             *)
gen_init  == [n |-> 0, marked |-> 0, first_done |-> FALSE]
memh_init == [n |-> job.offset, marked |-> job.offset, first_done |-> FALSE]

init == IF job.fmt = "memh" THEN memh_init ELSE gen_init

Init ==
  /\ job \in Jobs
  /\ stage = IF job.given = <<>> THEN "out" ELSE "in"
  /\ todo = Placed(job.elements)
  /\ st = init
  /\ file = IF job.given = <<>> /\ job.fmt = "obj" THEN <<[addr |-> 0, data |-> <<>>]>>
            ELSE job.given
  /\ files = <<>> /\ elt = Undefined /\ lines = <<>> /\ memory = <<>>

-----------------------------------------------------------------------------
(* Writing: what is appended to the file, and the state after it. *)

Zeros(n) == [i \in 1 .. n |-> Zero]
Body(e)  == IF e.size > 0 THEN <<e.word>> \o Zeros(e.size - 1) ELSE <<>>
Tokens(ws) == [i \in DOMAIN ws |-> WordIn(ws[i])]

raw_out(e) ==
  LET words == Zeros(e.reladdr - st.n) \o Body(e)
  IN  /\ file' = file \o Tokens(words)
      /\ st' = [st EXCEPT !.n = @ + Len(words)]

text_out(e) == file' = file \o Tokens(Body(e)) /\ UNCHANGED st

\* Mutant of Marked: a mark only where a gap is wider than one word.
MarkedLate(addr) == ~st.first_done \/ addr - st.n > 2

Marked(addr) == ~st.first_done \/ addr - st.n > 1

\* Zeros are left out unless they are asked for; one of a block is enough.
memh_out(e) ==
  LET addr == e.reladdr + job.offset
  IN  IF e.word = Zero /\ ~job.explicit THEN UNCHANGED <<file, st>>
      ELSE /\ file' = file \o (IF Marked(addr) THEN <<MarkAt(addr)>> ELSE <<>>)
                           \o <<WordIn(e.word)>>
           /\ st' = [st EXCEPT !.n = addr, !.first_done = TRUE]

obj_out(e) ==
  /\ file' = [file EXCEPT ![1].data = @ \o Body(e)]
  /\ st' = [st EXCEPT !.n = @ + Len(Body(e))]

Out(e) ==
  CASE job.fmt = "raw"  -> raw_out(e)
    [] job.fmt = "text" -> text_out(e)
    [] job.fmt = "memh" -> memh_out(e)
    [] job.fmt = "obj"  -> obj_out(e)

WriteElement ==
  /\ stage \in {"out", "again"} /\ todo # <<>>
  /\ Out(Head(todo))
  /\ todo' = Tail(todo)
  /\ UNCHANGED <<job, stage, files, elt, lines, memory>>

\* emit, fini, and the next tool's init.
Finish ==
  /\ stage \in {"out", "again"} /\ todo = <<>>
  /\ files' = Append(files, file)
  /\ st' = init
  /\ stage' = IF stage = "out" THEN "in" ELSE "done"
  /\ UNCHANGED <<job, todo, file, elt, lines, memory>>

-----------------------------------------------------------------------------
(* Reading: the result of in(), the element, the state and the file left. *)

Got(rc, e, s, f) == [rc |-> rc, elt |-> e, st |-> s, file |-> f]
Ended            == Got(-1, elt, st, file)

\* An item that is not a word ends the input.
gen_in ==
  IF file = <<>> \/ Head(file).t # "word" THEN Ended
  ELSE Got(1, [word |-> Head(file).w, reladdr |-> st.n], [st EXCEPT !.n = @ + 1], Tail(file))

memh_in ==
  LET on == [st EXCEPT !.n = @ + 1]
  IN  IF st.marked > st.n THEN Got(1, [word |-> Zero, reladdr |-> st.n], on, file)
      ELSE IF st.marked < st.n \/ file = <<>> THEN Ended
      ELSE LET item == Head(file)
           IN  CASE item.t = "at" -> Got(0, elt, [st EXCEPT !.marked = item.a], Tail(file))
                 [] item.t = "word" ->
                      Got(1, [word |-> item.w, reladdr |-> st.n],
                          [on EXCEPT !.marked = st.n + 1], Tail(file))
                 [] OTHER -> Ended

\* The records without words before the next one with words left.
Skip(recs, pos) ==
  LET more == {i \in DOMAIN recs : (IF i = 1 THEN pos ELSE 0) < Len(recs[i].data)}
  IN  IF more = {} THEN Len(recs) ELSE Min(more) - 1

\* Mutant of obj_in: the position is kept from one record to the next.
obj_inOn ==
  LET k == Skip(file, st.n)
  IN  IF k = Len(file) THEN Ended
      ELSE Got(1, [word |-> Zero, reladdr |-> file[k + 1].addr + st.n],
               [st EXCEPT !.n = st.n + 1], SubSeq(file, k + 1, Len(file)))

obj_in ==
  LET k   == Skip(file, st.n)
      pos == IF k = 0 THEN st.n ELSE 0
  IN  IF k = Len(file) THEN Ended
      ELSE Got(1, [word |-> file[k + 1].data[pos + 1], reladdr |-> file[k + 1].addr + pos],
               [st EXCEPT !.n = pos + 1], SubSeq(file, k + 1, Len(file)))

In ==
  CASE job.fmt \in {"raw", "text"} -> gen_in
    [] job.fmt = "memh" -> memh_in
    [] job.fmt = "obj"  -> obj_in

Take(r) == elt' = r.elt /\ st' = r.st /\ file' = r.file

\* do_disassembly; a result of 0 is no element.
do_disassembly ==
  /\ stage = "in" /\ ~job.load
  /\ LET r == In
     IN  /\ Take(r)
         /\ stage' = IF r.rc < 0 THEN "parse" ELSE stage
         /\ lines' = IF r.rc > 0 THEN Append(lines, print_disassembly(r.elt.word, job.verbose))
                     ELSE lines
  /\ UNCHANGED <<job, todo, files, memory>>

\* load_sim; the element is written whenever the result is not negative.
load_sim ==
  /\ stage = "in" /\ job.load
  /\ LET r == In
     IN  /\ Take(r)
         /\ stage' = IF r.rc < 0 THEN "loaded" ELSE stage
         /\ \E a \in IF r.elt = Undefined THEN Strays ELSE {r.elt.reladdr} :
              memory' = IF r.rc < 0 THEN memory
                        ELSE [x \in DOMAIN memory \cup {a} |->
                                IF x = a THEN r.elt.word ELSE memory[x]]
  /\ UNCHANGED <<job, todo, files, lines>>

\* The assembler reads the text.
Parse ==
  /\ stage = "parse"
  /\ LET words == [i \in DOMAIN lines |-> make_insn_general(lines[i])]
     IN  IF Error \in ToSet(words) THEN stage' = "refused" /\ UNCHANGED todo
         ELSE /\ todo' = Placed([i \in DOMAIN lines |-> [word |-> words[i], size |-> 1]])
              /\ stage' = "again"
  /\ file' = IF job.fmt = "obj" THEN <<[addr |-> 0, data |-> <<>>]>> ELSE <<>>
  /\ st' = init
  /\ UNCHANGED <<job, files, elt, lines, memory>>

Final == {"done", "loaded", "refused"}

Next ==
  \/ WriteElement \/ Finish \/ do_disassembly \/ load_sim \/ Parse
  \/ stage \in Final /\ UNCHANGED vars

Spec == Init /\ [][Next]_vars

-----------------------------------------------------------------------------
(* Properties. *)

TypeOK ==
  /\ stage \in {"out", "in", "parse", "again"} \cup Final
  /\ \A i \in DOMAIN todo : todo[i].word \in Insn
  /\ st.n >= 0 /\ st.marked >= 0 /\ st.first_done \in BOOLEAN
  /\ job.fmt = "obj" /\ file # <<>> => st.n <= Len(file[1].data)
  /\ elt # Undefined => elt.word \in Insn /\ elt.reladdr >= 0
  /\ Len(files) <= 2
  /\ \A a \in DOMAIN memory : memory[a] \in Insn \cup {Garbage}

\* What the program is: its words, one after the other.
Image == FlattenSeq([i \in DOMAIN job.elements |-> Body(job.elements[i])])

\* memh ends with the last word that is not zero or, if zeros are asked for,
\* with the first word of the last element.
Kept ==
  LET es == Placed(job.elements)
      written == {e \in ToSet(es) : job.explicit \/ e.word # Zero}
  IN  IF job.fmt # "memh" THEN DOMAIN Image
      ELSE {i \in DOMAIN Image : \E e \in written : i <= e.reladdr + 1}

\* dogfood.sh: a file of any format can be disassembled and the text be
\* assembled again; it then has the program's words, and the second file is
\* the first one.  (With explicit zeros a block is written as one of its
\* words the first time, so that then only the words agree.)
Cycle ==
  /\ stage # "refused"
  /\ stage = "done" /\ job.given = <<>> =>
       /\ files[2] = files[1] \/ job.explicit
       /\ \A i \in Kept : i <= Len(lines) /\ make_insn_general(lines[i]) = Image[i]
       /\ \A i \in DOMAIN lines : i \notin Kept => i \in DOMAIN Image /\ Image[i] = Zero

Holds(a, w) == a \in DOMAIN memory /\ memory[a] = w

\* What tsim loads from a file that tas has written is the program, at its
\* addresses, whatever the format leaves out or marks; of an object it loads
\* every word of every record, with empty records before and between them.
Loads ==
  stage = "loaded" =>
    /\ job.given = <<>> => \A i \in Kept : Holds(job.offset + i - 1, Image[i])
    /\ job.fmt = "obj" =>
         \A r \in ToSet(job.given) : \A i \in DOMAIN r.data : Holds(r.addr + i - 1, r.data[i])

\* Loading writes nowhere else but in the gap below the offset.
LoadsOnly ==
  stage = "loaded" /\ job.given = <<>> =>
    \A a \in DOMAIN memory : a \in 0 .. job.offset + Len(Image) - 1

=============================================================================
