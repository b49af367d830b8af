------------------------------ MODULE MCLinker ------------------------------
(***************************************************************************)
(* Small instances of Linker: every command line of up to three files from *)
(* a catalogue in which each object is there for one of the linker's cases.*)
(***************************************************************************)
EXTENDS Linker, SequencesExt

CONSTANTS x, y, z

rec(a, d)        == [addr |-> a, data |-> d]
sym(n, v, abs)   == [name |-> n, value |-> v, absolute |-> abs]
ref(n, a, s, neg) == [name |-> n, addr |-> a, span |-> s, negate |-> neg]
obj(rs, ss, rl)  == [records |-> rs, symbols |-> ss, relocs |-> rl]

\* defines x inside its second word, holds its own address
Definer  == obj(<<rec(0, <<5, 30>>)>>, <<sym(x, 1, FALSE)>>, <<ref(NoName, 0, 32, FALSE)>>)
\* defines an absolute y, refers to x from a narrow field
Absolute == obj(<<rec(0, <<31>>)>>, <<sym(y, 3, TRUE)>>, <<ref(x, 0, 4, FALSE)>>)
\* two relocations of one word, a record that does not start at 0, a
\* relocation before it and one after it
Distance == obj(<<rec(2, <<7, 1, 4>>)>>, << >>,
                <<ref(x, 3, 32, FALSE), ref(NoName, 3, 32, TRUE),
                  ref(z, 1, 32, FALSE), ref(z, 6, 32, FALSE), ref(y, 4, 8, FALSE)>>)
\* no record: its symbols and relocations do not count
Empty    == obj(<< >>, <<sym(x, 0, FALSE)>>, <<ref(z, 0, 32, FALSE)>>)
\* a record of no words, and a symbol in it
Marker   == obj(<<rec(0, << >>)>>, <<sym(z, 0, FALSE)>>, << >>)
\* one symbol twice
Twice    == obj(<<rec(0, <<9>>)>>, <<sym(z, 0, FALSE), sym(z, 0, TRUE)>>, << >>)
\* several records and a relocation
Several  == obj(<<rec(0, <<6>>), rec(1, <<8>>)>>, << >>, <<ref(NoName, 0, 32, FALSE)>>)
\* a relocation just past the record
Past     == obj(<<rec(0, <<2>>)>>, << >>, <<ref(NoName, 1, 32, FALSE)>>)

MaxFiles == 3
CommandLines(files) == UNION {[1 .. n -> files] : n \in 1 .. MaxFiles}

LinkInputs == CommandLines({Definer, Absolute, Distance, Empty, Marker, Twice,
                            Several, Past, BadFile})

\* They are command lines of the kind that the theorems are about.
ASSUME InputsRegular == Regular

=============================================================================
