----------------------------- MODULE MCFormats -----------------------------
EXTENDS Formats

One   == [Zero EXCEPT !.imm = 1]
Store == [p |-> 3, dd |-> 2, z |-> 1, x |-> 0, y |-> 0, op |-> "|", imm |-> -3]

Job(fmt, offset, explicit, verbose, load, elements, given) ==
  [fmt |-> fmt, offset |-> offset, explicit |-> explicit, verbose |-> verbose,
   load |-> load, elements |-> elements, given |-> given]

Word(w)  == [word |-> w, size |-> 1]
Block(n) == [word |-> Zero, size |-> n]

Pieces == {Word(One), Word(Store), Word(Zero), Block(0), Block(2), Block(3)}

\* Programs of up to three pieces.
Programs == UNION {[1 .. n -> Pieces] : n \in 0 .. 3}

\* A block of no words, written explicitly, moves what follows it.
Plain(es, explicit) == explicit => \A i \in DOMAIN es : es[i].size # 0

\* Every instruction in a program of its own, every program in every format,
\* and files of several records and with items that are not understood.
MCJobs ==
  {Job("raw", 0, FALSE, v, FALSE, <<Word(w)>>, <<>>) : w \in Insn, v \in BOOLEAN}
  \cup {Job(f, 0, FALSE, FALSE, l, es, <<>>) :
          f \in {"raw", "text", "obj"}, l \in BOOLEAN, es \in Programs}
  \cup {j \in {Job("memh", o, x, FALSE, l, es, <<>>) :
                 o \in {0, 2}, x \in BOOLEAN, l \in BOOLEAN, es \in Programs} :
          Plain(j.elements, j.explicit)}
  \cup {Job("obj", 0, FALSE, FALSE, l, <<>>,
            <<[addr |-> 0, data |-> <<>>], [addr |-> 1, data |-> <<One, Store>>],
              [addr |-> 3, data |-> <<>>], [addr |-> 5, data |-> <<One>>]>>) : l \in BOOLEAN}
  \cup {Job(f, 0, FALSE, FALSE, TRUE, <<>>, <<WordIn(One), Junk, WordIn(One)>>) :
          f \in {"text", "memh"}}
  \cup {Job("memh", 0, FALSE, FALSE, FALSE, <<>>,
            <<WordIn(One), MarkAt(3), WordIn(One), MarkAt(1), WordIn(One)>>)}

=============================================================================
