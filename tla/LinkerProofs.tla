---------------------------- MODULE LinkerProofs ----------------------------
(***************************************************************************)
(* What holds of the linker on every command line, for every number of     *)
(* objects, symbols and relocations.                                       *)
(***************************************************************************)
EXTENDS Linker, TLAPS, SequenceTheorems, FiniteSetTheorems, WellFoundedInduction

USE DEF Word, Exited

\* A sum reduced to the width of a word is a word.
LEMMA ModWord == \A n \in Int : n % Limit \in Word
  BY LimitAssumption

\* The words of an object's first record (none when it has no record).
LEMMA FirstWordsType ==
  ASSUME NEW o \in Obj
  PROVE  FirstWords(o) \in Seq(Word)
<1>1. CASE o.records = << >>
  BY <1>1 DEF FirstWords
<1>2. CASE o.records # << >>
  <2>1. o.records \in Seq(Rec)
    BY DEF Obj
  <2>2. o.records[1] \in Rec
    BY <1>2, <2>1
  <2> QED BY <1>2, <2>2 DEF FirstWords, Rec
<1> QED BY <1>1, <1>2

\* What a relocation adds is a number: the symbol it names is defined in an
\* object that has an offset.
LEMMA ReladdrType ==
  ASSUME TypeOK, AtReloc, ~Missing, node \in DOMAIN meta
  PROVE  reladdr \in Int
<1>1. objs[node] \in Obj
  BY DEF TypeOK, AtReloc, Relocating
<1>2. rlc \in Rlc
  BY <1>1, SMTT(30) DEF TypeOK, AtReloc, rlc, Obj
<1>3. CASE rlc.name = NoName
  <2>1. meta[node] \in Word
    BY DEF TypeOK
  <2>2. Word \subseteq Int
    BY LimitAssumption
  <2>3. meta[node] \in Int /\ -meta[node] \in Int
    BY <2>1, <2>2
  <2>4. (-meta[node]) % Limit \in Int
    BY <2>2, <2>3, ModWord
  <2>5. CASE rlc.negate
    <3>1. reladdr = (-meta[node]) % Limit
      BY <1>3, <2>5, Zenon DEF reladdr
    <3> QED BY <2>4, <3>1, Zenon
  <2>6. CASE ~rlc.negate
    <3>1. reladdr = meta[node]
      BY <1>3, <2>6, Zenon DEF reladdr
    <3> QED BY <2>3, <3>1, Zenon
  <2> QED BY <2>5, <2>6
<1>4. CASE rlc.name # NoName
  <2>1. rlc.name \in DOMAIN defns
    BY <1>4 DEF Missing
  <2> DEFINE d == defns[rlc.name]
  <2>2. d \in [obj : DOMAIN meta, reladdr : Word, absolute : BOOLEAN]
    BY <2>1 DEF TypeOK
  <2> HIDE DEF d
  <2>3. d.reladdr \in Int /\ meta[d.obj] \in Int
    <3>1. \A k \in DOMAIN meta : meta[k] \in Word
      BY Zenon DEF TypeOK
    <3>2. d.reladdr \in Word /\ d.obj \in DOMAIN meta
      BY <2>2
    <3>3. Word \subseteq Int
      BY LimitAssumption
    <3> HIDE DEF Word
    <3>4. meta[d.obj] \in Word
      BY <3>1, <3>2, Zenon
    <3> QED BY <3>2, <3>3, <3>4, Zenon
  <2>4. reladdr = IF d.absolute THEN d.reladdr ELSE d.reladdr + meta[d.obj]
    BY <1>4 DEF reladdr, d
  <2>5. CASE d.absolute
    BY <2>3, <2>4, <2>5
  <2>6. CASE ~d.absolute
    BY <2>3, <2>4, <2>6
  <2> QED BY <2>5, <2>6
<1> QED BY <1>3, <1>4

-----------------------------------------------------------------------------
\* Which objects have an offset: none while files are loaded, those with a
\* record that the first pass has met while it runs, and all those with a
\* record from then on.  Without it a relocation might look up an offset that
\* was never recorded, so TypeOK alone is not inductive.
MetaDomain ==
  /\ phase = "load" => DOMAIN meta = {}
  /\ phase = "build" => \A k \in DOMAIN objs :
       k \in DOMAIN meta <=> k < node /\ objs[k].records # << >>
  /\ phase \in {"relocate", "emit"} => \A k \in DOMAIN objs :
       k \in DOMAIN meta <=> objs[k].records # << >>

TypeInv == TypeOK /\ MetaDomain

\* The first state: nothing is loaded.
LEMMA InitType == Init => TypeInv
<1> SUFFICES ASSUME Init PROVE TypeInv
  OBVIOUS
<1>1. DOMAIN << >> = {}
  OBVIOUS
<1>2. << >> \in Seq(Obj) /\ << >> \in Seq(Seq(Word)) /\ << >> \in Seq(Rec)
  OBVIOUS
<1>3. 0 \in Word
  BY LimitAssumption
<1>4. DOMAIN objs = {} /\ DOMAIN meta = {} /\ DOMAIN defns = {} /\ DOMAIN placed = {}
  BY <1>1 DEF Init
<1>5. /\ objs \in Seq(Obj) /\ words \in Seq(Seq(Word)) /\ image \in Seq(Rec)
      /\ Len(words) = Len(objs)
  BY <1>2 DEF Init
<1>6. /\ args \in Inputs /\ phase = "load" /\ node = 1 /\ inner = 1
      /\ running = 0 /\ addr = 0 /\ outfile = "empty"
      /\ iofault = FALSE
  BY DEF Init
<1> HIDE DEF Word
<1>7. TypeOK
  <2>1. /\ args \in Inputs
        /\ phase \in {"load", "build", "relocate", "emit", "write"} \cup Exited
        /\ node \in Nat \ {0} /\ inner \in Nat \ {0}
        /\ running \in Word /\ addr \in Word
        /\ outfile \in {"empty", "whole", "cut", "absent"}
    BY <1>3, <1>6
  <2>3. iofault \in BOOLEAN
    BY <1>6, Zenon
  <2>2. /\ DOMAIN meta \subseteq DOMAIN objs /\ DOMAIN placed \subseteq DOMAIN objs
        /\ DOMAIN defns \subseteq Names
    BY <1>4
  <2> QED BY <1>4, <1>5, <2>1, <2>2, <2>3 DEF TypeOK
<1> QED BY <1>4, <1>7 DEF Init, TypeInv, MetaDomain

\* Loading an object.
LEMMA LoadType == TypeInv /\ do_load => TypeInv'
<1> SUFFICES ASSUME TypeInv, do_load PROVE TypeInv'
  OBVIOUS
<1> USE DEF TypeInv
<1> DEFINE o == args[node]
<1>1. args \in Seq(Obj \cup {BadFile})
  BY InputsAssumption DEF TypeOK
<1>2. o \in Obj
  BY <1>1 DEF TypeOK, do_load
<1>3. FirstWords(o) \in Seq(Word)
  BY <1>2, FirstWordsType
<1> HIDE DEF o
<1>4. /\ objs \in Seq(Obj) /\ words \in Seq(Seq(Word)) /\ Len(words) = Len(objs)
      /\ objs' = Append(objs, o) /\ words' = Append(words, FirstWords(o))
  BY DEF TypeOK, do_load, o
<1>5. /\ objs' \in Seq(Obj) /\ words' \in Seq(Seq(Word)) /\ Len(words') = Len(objs')
      /\ Len(objs') = Len(objs) + 1
      /\ \A k \in DOMAIN objs : k \in DOMAIN objs' /\ objs'[k] = objs[k] /\ words'[k] = words[k]
      /\ objs'[Len(objs')] = o /\ words'[Len(objs')] = FirstWords(o)
  BY <1>2, <1>3, <1>4
<1>6. \A k \in DOMAIN objs' : Len(words'[k]) = Len(FirstWords(objs'[k]))
  <2> TAKE k \in DOMAIN objs'
  <2>1. CASE k = Len(objs')
    BY <1>5, <2>1
  <2>2. CASE k # Len(objs')
    <3>1. k \in DOMAIN objs
      BY <1>4, <1>5, <2>2
    <3> QED BY <1>5, <3>1 DEF TypeOK, Size
  <2> QED BY <2>1, <2>2
<1>7. UNCHANGED <<args, phase, inner, running, meta, defns, addr, image, placed,
                  outfile, iofault>>
  BY DEF do_load, layout, output
<1>8. DOMAIN meta = {} /\ phase = "load"
  BY DEF MetaDomain, do_load
<1>9. node' \in Nat \ {0}
  BY DEF TypeOK, do_load
<1>10. TypeOK'
  BY <1>5, <1>6, <1>7, <1>8, <1>9 DEF TypeOK, Size
<1> QED BY <1>7, <1>8, <1>10 DEF MetaDomain

\* fatal() changes nothing but how the run ends.
LEMMA FatalType == TypeInv /\ Fatal /\ iofault' \in BOOLEAN => TypeInv'
  BY DEF TypeInv, TypeOK, MetaDomain, Fatal, input, layout, output, Size

\* The end of a list changes nothing but the phase and the cursors.
LEMMA EnterType ==
  ASSUME TypeInv, NEW next \in {"build", "relocate", "emit", "write"}, Enter(next),
         next = "build" => phase = "load",
         next = "relocate" => phase = "build",
         next = "emit" => phase = "relocate"
  PROVE  TypeInv'
<1>1. UNCHANGED <<args, objs, words, running, meta, defns, addr, image, placed,
                  outfile, iofault>> /\ node' = 1 /\ inner' = 1
  BY DEF Enter, input, layout, output
<1>2. phase' = next /\ node > Len(objs)
  BY DEF Enter
<1>3. TypeOK'
  BY <1>1, <1>2 DEF TypeInv, TypeOK, Size
<1>4. DOMAIN objs = 1 .. Len(objs) /\ Len(objs) \in Nat /\ node \in Nat
  BY DEF TypeInv, TypeOK
<1>5. MetaDomain'
  BY <1>1, <1>2, <1>4 DEF TypeInv, MetaDomain
<1> QED BY <1>3, <1>5 DEF TypeInv

\* The first pass meets an object with a record.
LEMMA BuildType == TypeInv /\ BuildObject => TypeInv'
<1> SUFFICES ASSUME TypeInv, BuildObject PROVE TypeInv'
  OBVIOUS
<1> USE DEF TypeInv
<1> DEFINE o == objs[node]
<1>1. /\ phase = "build" /\ node \in DOMAIN objs /\ o.records # << >>
      /\ meta' = [k \in DOMAIN meta \cup {node} |-> IF k = node THEN running ELSE meta[k]]
      /\ running' = (running + Size(node)) % Limit
      /\ defns' = Define(node, o)
      /\ node' = node + 1
      /\ UNCHANGED <<args, phase, objs, words, inner, addr, image, placed, outfile,
                     iofault>>
  BY DEF TypeOK, BuildObject, Advance, input, output
<1>2. o \in Obj
  BY <1>1 DEF TypeOK
<1>3. Size(node) \in Nat
  BY <1>2, FirstWordsType DEF Size
<1>4. running' \in Word
  BY <1>1, <1>3, ModWord, SMTT(30) DEF TypeOK
<1>5. /\ DOMAIN meta' = DOMAIN meta \cup {node}
      /\ \A k \in DOMAIN meta' : meta'[k] \in Word /\ objs'[k].records # << >>
      /\ DOMAIN meta' \subseteq DOMAIN objs'
  BY <1>1 DEF TypeOK
<1>6. SymNames(o) \subseteq Names
  <2> HIDE DEF o
  <2>1. o.symbols \in Seq(Sym)
    BY <1>2 DEF Obj
  <2>2. \A j \in DOMAIN o.symbols : o.symbols[j] \in Sym
    BY <2>1
  <2> QED BY <2>2 DEF SymNames, Sym
<1>7. /\ DOMAIN defns' \subseteq Names
      /\ \A n \in DOMAIN defns' : defns'[n] \in [obj : DOMAIN meta', reladdr : Word,
                                                absolute : BOOLEAN]
  <2>1. DOMAIN defns' = DOMAIN defns \cup SymNames(o)
    BY <1>1 DEF Define
  <2>2. ASSUME NEW n \in DOMAIN defns'
        PROVE  defns'[n] \in [obj : DOMAIN meta', reladdr : Word, absolute : BOOLEAN]
    <3>1. CASE n \in DOMAIN defns
      <4>1. defns'[n] = defns[n]
        BY <1>1, <3>1 DEF Define
      <4> QED BY <1>5, <3>1, <4>1 DEF TypeOK
    <3>2. CASE n \notin DOMAIN defns
      <4> DEFINE j == CHOOSE j \in DOMAIN o.symbols : o.symbols[j].name = n
      <4>1. \E i \in DOMAIN o.symbols : o.symbols[i].name = n
        BY <2>1, <2>2, <3>2 DEF SymNames
      <4>2. j \in DOMAIN o.symbols
        BY <4>1
      <4> HIDE DEF j
      <4>3. o.symbols[j] \in Sym
        BY <1>2, <4>2, SMTT(30) DEF Obj
      <4>4. defns'[n] = [obj |-> node, reladdr |-> o.symbols[j].value,
                         absolute |-> o.symbols[j].absolute]
        BY <1>1, <2>1, <2>2, <3>2 DEF Define, j
      <4> QED BY <1>5, <4>3, <4>4 DEF Sym
    <3> QED BY <3>1, <3>2
  <2> QED BY <1>6, <2>1, <2>2 DEF TypeOK
<1>8. TypeOK'
  BY <1>1, <1>4, <1>5, <1>7, SMTT(30) DEF TypeOK, Size
<1>9. MetaDomain'
  BY <1>1, <1>5, SMTT(30) DEF TypeOK, MetaDomain
<1> QED BY <1>8, <1>9

\* Patching a word keeps the shape of every record.
LEMMA RelocateType == TypeInv /\ RelocateWord => TypeInv'
<1> SUFFICES ASSUME TypeInv, RelocateWord PROVE TypeInv'
  OBVIOUS
<1> USE DEF TypeInv
<1>1. /\ AtReloc /\ ~Missing /\ phase = "relocate" /\ node \in DOMAIN objs
      /\ objs[node].records # << >> /\ inner \in DOMAIN objs[node].relocs
  <2>1. /\ AtReloc /\ ~Missing /\ phase = "relocate" /\ objs[node].records # << >>
        /\ node <= Len(objs) /\ inner <= Len(objs[node].relocs)
    BY DEF RelocateWord, AtReloc, Relocating
  <2>2. node \in DOMAIN objs /\ objs[node] \in Obj
    BY <2>1 DEF TypeOK
  <2>3. objs[node].relocs \in Seq(Rlc)
    BY <2>2 DEF Obj
  <2>4. inner \in DOMAIN objs[node].relocs
    BY <2>1, <2>3 DEF TypeOK
  <2> QED BY <2>1, <2>2, <2>4
<1>2. node \in DOMAIN meta
  BY <1>1 DEF MetaDomain
<1>3. reladdr \in Int
  BY <1>1, <1>2, ReladdrType
<1>4. objs[node] \in Obj
  BY <1>1 DEF TypeOK
<1>5. rlc \in Rlc /\ FirstRec \in Rec
  <2>1. rlc \in Rlc
    BY <1>1, <1>4 DEF rlc, Obj
  <2>2. FirstRec \in Rec
    BY <1>1, <1>4 DEF FirstRec, Obj
  <2> QED BY <2>1, <2>2
<1>6. Offset \in Int
  BY <1>5 DEF Offset, Rlc, Rec
<1> DEFINE i == Offset + 1
<1>7. words[node] \in Seq(Word) /\ Len(words[node]) = Size(node)
  <2> HIDE DEF Word
  <2>1. words \in Seq(Seq(Word)) /\ node \in 1 .. Len(words)
    BY <1>1 DEF TypeOK
  <2>2. words[node] \in Seq(Word)
    BY <2>1
  <2>3. Len(words[node]) = Size(node)
    BY <1>1 DEF TypeOK
  <2> QED BY <2>2, <2>3
<1>8. i \in 1 .. Len(words[node])
  BY <1>6, <1>7 DEF RelocateWord, OutOfRange
<1>9. Patched(words[node][i]) \in Word
  <2> DEFINE w == words[node][i]
             t == rlc.span
  <2>1. w \in Int /\ t \in Nat \ {0}
    BY <1>5, <1>7, <1>8, LimitAssumption, SMTT(30) DEF Rlc
  <2> HIDE DEF w, t
  <2>2. (w - (w % t)) + ((w + reladdr) % t) \in Int
    BY <1>3, <2>1
  <2> HIDE DEF Word
  <2>3. ((w - (w % t)) + ((w + reladdr) % t)) % Limit \in Word
    BY <2>2, ModWord
  <2> QED BY <2>3 DEF Patched, w, t
<1>10. /\ words' = [words EXCEPT ![node] = [words[node] EXCEPT ![i] = Patched(words[node][i])]]
       /\ inner' = inner + 1
       /\ UNCHANGED <<args, phase, objs, node, running, meta, defns, addr, image, placed,
                      outfile, iofault>>
  BY DEF RelocateWord, input, layout, output
<1> DEFINE row == [words[node] EXCEPT ![i] = Patched(words[node][i])]
<1>11. row \in Seq(Word) /\ Len(row) = Len(words[node])
  BY <1>7, <1>8, <1>9, ExceptSeq
<1> HIDE DEF row
<1>12. /\ words' \in Seq(Seq(Word)) /\ Len(words') = Len(words)
       /\ \A k \in DOMAIN objs : words'[k] = IF k = node THEN row ELSE words[k]
  <2>1. words \in Seq(Seq(Word)) /\ node \in 1 .. Len(words) /\ DOMAIN objs = 1 .. Len(words)
    BY <1>1 DEF TypeOK
  <2>2. words' = [words EXCEPT ![node] = row]
    BY <1>10 DEF row
  <2> HIDE DEF Word
  <2> QED BY <1>11, <2>1, <2>2, ExceptSeq
<1>13. \A k \in DOMAIN objs' : Len(words'[k]) = Size(k)'
  BY <1>7, <1>10, <1>11, <1>12 DEF TypeOK, Size
<1>14. TypeOK'
  <2>1. args' \in Inputs /\ phase' \in {"load", "build", "relocate", "emit", "write"} \cup Exited
    BY <1>10 DEF TypeOK
  <2>2. objs' \in Seq(Obj) /\ words' \in Seq(Seq(Word)) /\ Len(words') = Len(objs')
    BY <1>10, <1>12 DEF TypeOK
  <2>3. node' \in Nat \ {0} /\ inner' \in Nat \ {0}
    BY <1>10 DEF TypeOK
  <2>4. /\ running' \in Word /\ addr' \in Word
        /\ DOMAIN meta' \subseteq DOMAIN objs'
        /\ \A k \in DOMAIN meta' : meta'[k] \in Word /\ objs'[k].records # << >>
        /\ DOMAIN defns' \subseteq Names
        /\ \A n \in DOMAIN defns' : defns'[n] \in [obj : DOMAIN meta', reladdr : Word,
                                                   absolute : BOOLEAN]
    BY <1>10, Zenon DEF TypeOK
  <2>5. /\ image' \in Seq(Rec)
        /\ DOMAIN placed' \subseteq DOMAIN objs'
        /\ \A k \in DOMAIN placed' : placed'[k] \in Word
        /\ outfile' \in {"empty", "whole", "cut", "absent"}
        /\ iofault' \in BOOLEAN
    BY <1>10, Zenon DEF TypeOK
  <2> QED BY <2>1, <2>2, <2>3, <2>4, <2>5, <1>13, Zenon DEF TypeOK
<1>15. MetaDomain'
  BY <1>10 DEF MetaDomain
<1> QED BY <1>14, <1>15

\* Copying a record.
LEMMA EmitType == TypeInv /\ EmitRecord => TypeInv'
<1> SUFFICES ASSUME TypeInv, EmitRecord PROVE TypeInv'
  OBVIOUS
<1> USE DEF TypeInv
<1>1. /\ phase = "emit" /\ node \in DOMAIN objs /\ inner \in DOMAIN objs[node].records
      /\ objs[node] \in Obj
  <2>1. phase = "emit" /\ node <= Len(objs) /\ inner <= Len(objs[node].records)
    BY DEF EmitRecord, Emitting
  <2>2. node \in DOMAIN objs /\ objs[node] \in Obj
    BY <2>1 DEF TypeOK
  <2>3. objs[node].records \in Seq(Rec)
    BY <2>2 DEF Obj
  <2>4. inner \in DOMAIN objs[node].records
    BY <2>1, <2>3 DEF TypeOK
  <2> QED BY <2>1, <2>2, <2>4
<1>2. Contents \in Seq(Word)
  <2>1. CASE inner = 1
    BY <1>1, <2>1 DEF Contents, TypeOK
  <2>2. CASE inner # 1
    <3>1. objs[node].records[inner] \in Rec
      BY <1>1 DEF Obj
    <3> QED BY <2>2, <3>1 DEF Contents, Rec
  <2> QED BY <2>1, <2>2
<1>3. addr' \in Word
  BY <1>2, ModWord DEF EmitRecord, TypeOK
<1>4. image' \in Seq(Rec)
  BY <1>2 DEF EmitRecord, TypeOK, Rec
<1>5. /\ DOMAIN placed' \subseteq DOMAIN objs
      /\ \A k \in DOMAIN placed' : placed'[k] \in Word
  BY <1>1 DEF EmitRecord, TypeOK
<1>6. /\ inner' = inner + 1
      /\ UNCHANGED <<args, phase, objs, words, node, running, meta, defns, outfile,
                     iofault>>
  BY DEF EmitRecord, input, layout
<1>7. TypeOK'
  BY <1>3, <1>4, <1>5, <1>6 DEF TypeOK, Size
<1>8. MetaDomain'
  BY <1>6 DEF MetaDomain
<1> QED BY <1>7, <1>8

\* Every step keeps the type invariant.
LEMMA NextType == TypeInv /\ [Next]_vars => TypeInv'
<1> SUFFICES ASSUME TypeInv, [Next]_vars PROVE TypeInv'
  OBVIOUS
<1> USE DEF TypeInv
<1>1. CASE do_load
  BY <1>1, LoadType
<1>2. CASE do_load_fails \/ BuildDuplicate \/ RelocateFatal
  <2>1. Fatal /\ iofault' \in BOOLEAN
    BY <1>2 DEF do_load_fails, BuildDuplicate, RelocateFatal, TypeOK
  <2> QED BY <2>1, FatalType
<1>3. CASE LoadDone \/ BuildDone \/ RelocateDone \/ EmitDone
  BY <1>3, EnterType DEF LoadDone, BuildDone, RelocateDone, EmitDone
<1>4. CASE BuildObject
  BY <1>4, BuildType
<1>5. CASE BuildSkip
  <2>1. /\ phase = "build" /\ node' = node + 1 /\ node \in DOMAIN objs
        /\ objs[node].records = << >>
        /\ UNCHANGED <<args, phase, objs, words, inner, running, meta, defns, addr, image,
                       placed, outfile, iofault>>
    BY <1>5 DEF BuildSkip, TypeOK, input, layout, output
  <2>2. TypeOK'
    BY <2>1 DEF TypeOK, Size
  <2>3. MetaDomain'
    BY <2>1 DEF MetaDomain, TypeOK
  <2> QED BY <2>2, <2>3
<1>6. CASE RelocateWord
  BY <1>6, RelocateType
<1>7. CASE RelocateSkip \/ RelocateNext \/ EmitNext
  <2>1. /\ phase \in {"relocate", "emit"} /\ node' \in Nat \ {0} /\ inner' \in Nat \ {0}
        /\ UNCHANGED <<args, phase, objs, words, running, meta, defns, addr, image,
                       placed, outfile, iofault>>
    BY <1>7, SMTT(30) DEF RelocateSkip, RelocateNext, EmitNext, AtReloc, Relocating, Emitting,
                TypeOK, input, layout, output
  <2>2. TypeOK'
    BY <2>1 DEF TypeOK, Size
  <2> QED BY <2>1, <2>2 DEF MetaDomain
<1>8. CASE RelocateOverrun
  <2>1. /\ phase = "relocate" /\ phase' \in {"relocate", "crashed"} /\ inner' \in Nat \ {0}
        /\ UNCHANGED <<args, objs, words, node, running, meta, defns, addr, image,
                       placed, outfile, iofault>>
    BY <1>8, SMTT(30) DEF RelocateOverrun, AtReloc, Relocating, TypeOK, input, layout, output
  <2>2. TypeOK'
    BY <2>1 DEF TypeOK, Size
  <2> QED BY <2>1, <2>2 DEF MetaDomain
<1>9. CASE EmitRecord
  BY <1>9, EmitType
<1>10. CASE Finish
  <2>1. /\ phase' = "ok" /\ outfile' \in {"whole", "cut"} /\ iofault' \in BOOLEAN
        /\ UNCHANGED <<args, objs, words, node, inner, running, meta, defns, addr, image,
                       placed>>
    BY <1>10, ClosedAssumption DEF Finish, input, layout, output
  <2>2. TypeOK'
    BY <2>1 DEF TypeOK, Size
  <2> QED BY <2>1, <2>2 DEF MetaDomain
<1>11. CASE WriteFails
  <2>1. iofault' \in BOOLEAN
    BY <1>11, Zenon DEF WriteFails
  <2> QED BY <1>11, <2>1, FatalType DEF WriteFails
<1>12. CASE Terminated \/ UNCHANGED vars
  BY <1>12 DEF Terminated, vars, TypeOK, MetaDomain, Size
<1> QED BY <1>1, <1>2, <1>3, <1>4, <1>5, <1>6, <1>7, <1>8, <1>9, <1>10, <1>11, <1>12 DEF Next

\* Type correctness: tld never patches a word that is not there with a value
\* that is none, looks up an offset it has not recorded or changes the length
\* of a record, whatever the object files hold.
THEOREM TypeCorrect == Spec => []TypeOK
<1>1. Init => TypeInv
  BY InitType
<1>2. TypeInv /\ [Next]_vars => TypeInv'
  BY NextType
<1>3. TypeInv => TypeOK
  BY DEF TypeInv
<1> QED BY <1>1, <1>2, <1>3, PTL DEF Spec

-----------------------------------------------------------------------------
(* The two layouts agree.  do_link_build_state's offsets form a chain: the *)
(* first object with a record is at 0 and each next one starts where the   *)
(* one before it ends.  do_link_emit walks the same chain, one object at a *)
(* time, as long as every object it meets has at most one record; and an   *)
(* object with more than one gets that far only without relocations.       *)

NoneIn(lo, hi) == \A m \in lo .. hi : m \notin DOMAIN meta
End(k)         == (meta[k] + Size(k)) % Limit

Loaded ==
  /\ Len(objs) <= Len(args)
  /\ \A k \in DOMAIN objs : objs[k] = args[k]
  /\ phase = "load" => node = Len(objs) + 1

Chain ==
  /\ \A l \in DOMAIN meta : NoneIn(1, l - 1) => meta[l] = 0
  /\ \A k, l \in DOMAIN meta : k < l /\ NoneIn(k + 1, l - 1) => meta[l] = End(k)

Building ==
  phase \in {"load", "build"} =>
    /\ NoneIn(1, node - 1) => running = 0
    /\ \A k \in DOMAIN meta : k < node /\ (NoneIn(k + 1, node - 1) => running = End(k))

OneRecordEach ==
  /\ phase = "relocate" => \A k \in DOMAIN objs :
       k < node \/ (k = node /\ inner > 1) => Len(objs[k].records) <= 1
  /\ phase = "emit" => \A k \in DOMAIN objs : Len(objs[k].records) <= 1

Placing ==
  /\ phase \in {"load", "build", "relocate"} => addr = 0 /\ DOMAIN placed = {}
  /\ phase = "emit" =>
       /\ \A k \in DOMAIN placed : k < node \/ (k = node /\ inner > 1)
       /\ inner = 1 => \A l \in DOMAIN meta :
            l >= node /\ NoneIn(node, l - 1) => addr = meta[l]
       /\ inner > 1 => \A l \in DOMAIN meta :
            l > node /\ NoneIn(node + 1, l - 1) => addr = meta[l]

LayoutInv == Loaded /\ Chain /\ Building /\ OneRecordEach /\ Placing /\ PackedAtOffset

\* The first state.
LEMMA InitLayout == Init => LayoutInv
<1> SUFFICES ASSUME Init PROVE LayoutInv
  OBVIOUS
<1>1. /\ DOMAIN << >> = {} /\ Len(<< >>) = 0
  OBVIOUS
<1>2. DOMAIN objs = {} /\ DOMAIN meta = {} /\ DOMAIN placed = {} /\ Len(objs) = 0
  BY <1>1 DEF Init
<1>3. args \in Seq(Obj \cup {BadFile})
  BY InputsAssumption DEF Init
<1>4. Len(args) \in Nat
  BY <1>3
<1>5. phase = "load" /\ node = 1 /\ running = 0 /\ addr = 0
  BY DEF Init
<1> QED BY <1>2, <1>4, <1>5 DEF LayoutInv, Loaded, Chain, Building, OneRecordEach, Placing,
                              PackedAtOffset

\* Steps that move neither pass: the layout, the objects and both addresses
\* stay, and so do the cursors or the run is over.
LEMMA IdleLayout ==
  ASSUME TypeInv, LayoutInv, UNCHANGED <<args, objs, meta, running, addr, placed>>,
         \/ UNCHANGED <<phase, node, inner>>
         \/ phase' \in Exited \cup {"write"}
  PROVE  LayoutInv'
  BY DEF LayoutInv, Loaded, Chain, Building, OneRecordEach, Placing, PackedAtOffset,
         NoneIn, End, Size

\* Loading an object: there is no offset yet.
LEMMA LoadLayout == TypeInv /\ LayoutInv /\ do_load => LayoutInv'
<1> SUFFICES ASSUME TypeInv, LayoutInv, do_load PROVE LayoutInv'
  OBVIOUS
<1>1. /\ phase = "load" /\ phase' = "load" /\ DOMAIN meta = {} /\ DOMAIN placed = {}
      /\ node = Len(objs) + 1 /\ node' = node + 1 /\ node <= Len(args)
      /\ objs' = Append(objs, args[node])
      /\ UNCHANGED <<args, meta, running, addr, placed>>
  BY DEF TypeInv, MetaDomain, LayoutInv, Loaded, Placing, do_load, layout, output
<1>2. objs \in Seq(Obj) /\ args \in Seq(Obj \cup {BadFile}) /\ args[node] \in Obj
  <2>1. args \in Seq(Obj \cup {BadFile})
    BY InputsAssumption DEF TypeInv, TypeOK
  <2> QED BY <2>1 DEF TypeInv, TypeOK, do_load
<1>3. Loaded'
  BY <1>1, <1>2 DEF LayoutInv, Loaded
<1>4. running = 0 /\ addr = 0
  BY <1>1 DEF LayoutInv, Building, Placing, NoneIn
<1> QED BY <1>1, <1>3, <1>4 DEF LayoutInv, Chain, Building, OneRecordEach, Placing, PackedAtOffset

\* The first pass appends a link to the chain.
LEMMA BuildLayout == TypeInv /\ LayoutInv /\ BuildObject => LayoutInv'
<1> SUFFICES ASSUME TypeInv, LayoutInv, BuildObject PROVE LayoutInv'
  OBVIOUS
<1>1. /\ phase = "build" /\ phase' = "build" /\ node \in Nat \ {0} /\ node' = node + 1
      /\ running' = (running + Size(node)) % Limit
      /\ UNCHANGED <<args, objs, addr, placed>>
  BY DEF TypeInv, TypeOK, BuildObject, Advance, input, output
<1>2. /\ DOMAIN meta' = DOMAIN meta \cup {node}
      /\ \A k \in DOMAIN meta' : meta'[k] = IF k = node THEN running ELSE meta[k]
  BY DEF BuildObject
<1>3. \A k \in DOMAIN meta : k \in Nat \ {0} /\ k < node
  BY <1>1, SMTT(30) DEF TypeInv, TypeOK, LayoutInv, Building
<1>4. \A k : Size(k)' = Size(k)
  BY <1>1 DEF Size
<1>5. \A k \in DOMAIN meta : End(k)' = End(k)
  BY <1>2, <1>3, <1>4 DEF End
<1>6. \A k : k = node => End(k)' = running'
  BY <1>1, <1>2, <1>4 DEF End
<1>7. Chain'
  <2>1. ASSUME NEW l \in DOMAIN meta', NoneIn(1, l - 1)'
        PROVE  meta'[l] = 0
    <3>1. NoneIn(1, l - 1)
      BY <1>2, <2>1 DEF NoneIn
    <3>2. CASE l = node
      BY <1>1, <1>2, <3>1, <3>2 DEF LayoutInv, Building
    <3>3. CASE l # node
      BY <1>2, <2>1, <3>1, <3>3 DEF LayoutInv, Chain
    <3> QED BY <3>2, <3>3
  <2>2. ASSUME NEW k \in DOMAIN meta', NEW l \in DOMAIN meta', k < l,
               NoneIn(k + 1, l - 1)'
        PROVE  meta'[l] = End(k)'
    <3>1. NoneIn(k + 1, l - 1)
      BY <1>2, <2>2 DEF NoneIn
    <3>2. k \in DOMAIN meta
      BY <1>1, <1>2, <1>3, <2>2
    <3>3. CASE l = node
      BY <1>1, <1>2, <1>5, <3>1, <3>2, <3>3 DEF LayoutInv, Building
    <3>4. CASE l # node
      <4>1. l \in DOMAIN meta /\ meta'[l] = meta[l]
        BY <1>2, <2>2, <3>4
      <4> QED BY <1>5, <2>2, <3>1, <3>2, <4>1 DEF LayoutInv, Chain
    <3> QED BY <3>3, <3>4
  <2> QED BY <2>1, <2>2 DEF Chain
<1>8. Building'
  <2>1. node \in DOMAIN meta' /\ node \in 1 .. node' - 1
    BY <1>1, <1>2
  <2>2. ~NoneIn(1, node - 1)'
    BY <1>1, <2>1 DEF NoneIn
  <2>3. ASSUME NEW k \in DOMAIN meta', NoneIn(k + 1, node - 1)'
        PROVE  running' = End(k)'
    <3>1. k = node
      BY <1>1, <1>2, <1>3, <2>1, <2>3 DEF NoneIn
    <3> QED BY <1>6, <3>1
  <2>4. \A k \in DOMAIN meta' : k < node'
    BY <1>1, <1>2, <1>3
  <2> QED BY <2>2, <2>3, <2>4 DEF Building
<1>9. Loaded' /\ OneRecordEach' /\ Placing' /\ PackedAtOffset'
  <2>1. addr = 0 /\ DOMAIN placed = {}
    BY <1>1 DEF LayoutInv, Placing
  <2> QED BY <1>1, <2>1 DEF LayoutInv, Loaded, OneRecordEach, Placing, PackedAtOffset
<1> QED BY <1>7, <1>8, <1>9 DEF LayoutInv

\* An object without a record is not a link of the chain.
LEMMA SkipLayout == TypeInv /\ LayoutInv /\ BuildSkip => LayoutInv'
<1> SUFFICES ASSUME TypeInv, LayoutInv, BuildSkip PROVE LayoutInv'
  OBVIOUS
<1>1. /\ phase = "build" /\ phase' = "build" /\ node \in DOMAIN objs /\ node' = node + 1
      /\ node \in Nat \ {0} /\ objs[node].records = << >>
      /\ UNCHANGED <<args, objs, meta, running, addr, placed>>
  BY DEF TypeInv, TypeOK, BuildSkip, input, layout, output
<1>2. node \notin DOMAIN meta
  BY <1>1 DEF TypeInv, MetaDomain
<1>3. \A k \in DOMAIN meta : k \in Nat \ {0}
  BY DEF TypeInv, TypeOK
<1>4. \A lo \in Nat : NoneIn(lo, node - 1)' => NoneIn(lo, node - 1)
  BY <1>1 DEF NoneIn
<1>5. \A k : End(k)' = End(k)
  BY <1>1 DEF End, Size
<1>6. Building'
  BY <1>1, <1>3, <1>4, <1>5 DEF LayoutInv, Building
<1>7. Chain'
  BY <1>1, <1>5 DEF LayoutInv, Chain, NoneIn
<1>8. Loaded' /\ OneRecordEach' /\ Placing' /\ PackedAtOffset'
  BY <1>1 DEF LayoutInv, Loaded, OneRecordEach, Placing, PackedAtOffset
<1> QED BY <1>6, <1>7, <1>8 DEF LayoutInv

\* The end of a list: the next pass starts at the first object.
LEMMA EnterLayout ==
  ASSUME TypeInv, LayoutInv, NEW next \in {"build", "relocate", "emit", "write"}, Enter(next),
         next = "build" => phase = "load",
         next = "relocate" => phase = "build",
         next = "emit" => phase = "relocate"
  PROVE  LayoutInv'
<1>1. /\ phase' = next /\ node > Len(objs) /\ node' = 1 /\ inner' = 1
      /\ UNCHANGED <<args, objs, meta, running, addr, placed>>
  BY DEF Enter, input, layout, output
<1>2. DOMAIN objs = 1 .. Len(objs) /\ Len(objs) \in Nat /\ node \in Nat
  BY DEF TypeInv, TypeOK
<1>3. \A k : End(k)' = End(k)
  BY <1>1 DEF End, Size
<1>4. Loaded' /\ Chain' /\ PackedAtOffset'
  BY <1>1, <1>3 DEF LayoutInv, Loaded, Chain, PackedAtOffset, NoneIn
<1>5. CASE next = "build"
  <2>1. DOMAIN meta = {} /\ running = 0
    BY <1>5 DEF TypeInv, MetaDomain, LayoutInv, Building, NoneIn
  <2> QED BY <1>1, <1>4, <1>5, <2>1 DEF LayoutInv, Building, OneRecordEach, Placing
<1>6. CASE next = "relocate"
  BY <1>1, <1>2, <1>4, <1>6 DEF LayoutInv, Building, OneRecordEach, Placing
<1>7. CASE next = "emit"
  <2>1. OneRecordEach'
    BY <1>1, <1>2, <1>7 DEF LayoutInv, OneRecordEach
  <2>2. addr = 0 /\ DOMAIN placed = {}
    BY <1>7 DEF LayoutInv, Placing
  <2>3. ASSUME NEW l \in DOMAIN meta, NoneIn(1, l - 1)
        PROVE  addr = meta[l]
    BY <2>2, <2>3 DEF LayoutInv, Chain
  <2>4. Placing'
    BY <1>1, <1>7, <2>2, <2>3 DEF Placing, NoneIn
  <2> QED BY <1>1, <1>4, <1>7, <2>1, <2>4 DEF LayoutInv, Building
<1>8. CASE next = "write"
  BY <1>1, <1>4, <1>8 DEF LayoutInv, Building, OneRecordEach, Placing
<1> QED BY <1>5, <1>6, <1>7, <1>8

\* The next relocation of an object: it has one record, or the run ended.
LEMMA RelocLayout ==
  ASSUME TypeInv, LayoutInv, AtReloc, OneRecord, inner' = inner + 1,
         UNCHANGED <<args, objs, meta, running, addr, placed, phase, node>>
  PROVE  LayoutInv'
<1>1. phase = "relocate" /\ Len(objs[node].records) = 1
  BY DEF AtReloc, Relocating, OneRecord
<1>2. OneRecordEach'
  <2>1. \A k \in DOMAIN objs : k < node => Len(objs[k].records) <= 1
    BY <1>1 DEF LayoutInv, OneRecordEach
  <2>2. \A n : n = 1 => n <= 1
    OBVIOUS
  <2>3. Len(objs[node].records) <= 1
    BY <1>1, <2>2
  <2> QED BY <1>1, <2>1, <2>3 DEF OneRecordEach
<1>3. \A k : End(k)' = End(k)
  BY DEF End, Size
<1> QED BY <1>1, <1>2, <1>3 DEF LayoutInv, Loaded, Chain, Building, Placing, PackedAtOffset, NoneIn

\* The next object of the second pass.  One with several records has no
\* relocation left only if it never had one.
LEMMA RelocNextLayout ==
  ASSUME NoRelink, TypeInv, LayoutInv, RelocateNext
  PROVE  LayoutInv'
<1>1. /\ phase = "relocate" /\ phase' = phase /\ node \in DOMAIN objs /\ node \in Nat
      /\ node' = node + 1 /\ inner' = 1
      /\ objs[node].records # << >> => inner > Len(objs[node].relocs)
      /\ UNCHANGED <<args, objs, meta, running, addr, placed>>
  BY DEF TypeInv, TypeOK, RelocateNext, Relocating, input, layout, output
<1>2. objs[node] \in Obj
  BY <1>1 DEF TypeInv, TypeOK
<1>3. Len(objs[node].records) <= 1
  <2>1. CASE objs[node].records = << >>
    BY <2>1
  <2>2. CASE inner > 1
    BY <1>1, <2>2 DEF LayoutInv, OneRecordEach
  <2>3. CASE objs[node].records # << >> /\ ~(inner > 1)
    <3>1. objs[node].relocs \in Seq(Rlc)
      BY <1>2 DEF Obj
    <3>2. objs[node].relocs = << >>
      BY <1>1, <2>3, <3>1 DEF TypeInv, TypeOK
    <3>3. args \in Inputs /\ args \in Seq(Obj \cup {BadFile}) /\ objs[node] = args[node]
      BY <1>1, InputsAssumption DEF TypeInv, TypeOK, LayoutInv, Loaded
    <3>4. node \in DOMAIN args
      BY <1>1, <3>3 DEF TypeInv, TypeOK, LayoutInv, Loaded
    <3> QED BY <1>2, <3>2, <3>3, <3>4, BadFileAssumption DEF NoRelink
  <2> QED BY <2>1, <2>2, <2>3
<1>4. OneRecordEach'
  BY <1>1, <1>3 DEF LayoutInv, OneRecordEach, TypeInv, TypeOK
<1>5. \A k : End(k)' = End(k)
  BY <1>1 DEF End, Size
<1> QED BY <1>1, <1>4, <1>5 DEF LayoutInv, Loaded, Chain, Building, Placing, PackedAtOffset, NoneIn

\* The record of an object is emitted: the emitter's address is the offset.
LEMMA EmitLayout == TypeInv /\ LayoutInv /\ EmitRecord => LayoutInv'
<1> SUFFICES ASSUME TypeInv, LayoutInv, EmitRecord PROVE LayoutInv'
  OBVIOUS
<1>1. /\ phase = "emit" /\ phase' = "emit" /\ node \in DOMAIN objs /\ node \in Nat \ {0}
      /\ inner <= Len(objs[node].records) /\ inner \in Nat \ {0} /\ inner' = inner + 1
      /\ addr' = (addr + Len(Contents)) % Limit
      /\ UNCHANGED <<args, objs, meta, running, node>>
  BY DEF TypeInv, TypeOK, EmitRecord, Emitting, input, layout
<1>2. objs[node].records \in Seq(Rec) /\ Len(objs[node].records) <= 1
  <2>1. objs[node] \in Obj
    BY <1>1 DEF TypeInv, TypeOK
  <2>2. objs[node].records \in Seq(Rec)
    BY <2>1 DEF Obj
  <2> QED BY <1>1, <2>2 DEF LayoutInv, OneRecordEach
<1>3. inner = 1 /\ objs[node].records # << >>
  BY <1>1, <1>2
<1>4. node \in DOMAIN meta
  BY <1>1, <1>3 DEF TypeInv, MetaDomain
<1>5. addr = meta[node]
  BY <1>1, <1>3, <1>4 DEF LayoutInv, Placing, NoneIn
<1>6. addr' = End(node)
  BY <1>1, <1>3, <1>5 DEF Contents, End, TypeInv, TypeOK
<1>7. /\ DOMAIN placed' = DOMAIN placed \cup {node}
      /\ node \notin DOMAIN placed /\ placed'[node] = addr
      /\ \A k \in DOMAIN placed : placed'[k] = placed[k]
  <2>1. node \notin DOMAIN placed
    BY <1>1, <1>3 DEF LayoutInv, Placing
  <2> QED BY <2>1 DEF EmitRecord
<1>8. PackedAtOffset'
  BY <1>1, <1>4, <1>5, <1>7 DEF LayoutInv, PackedAtOffset
<1>9. ASSUME NEW l \in DOMAIN meta, l > node, NoneIn(node + 1, l - 1)
      PROVE  addr' = meta[l]
  BY <1>1, <1>4, <1>6, <1>9 DEF LayoutInv, Chain
<1>10. Placing'
  BY <1>1, <1>3, <1>7, <1>9 DEF LayoutInv, Placing, NoneIn
<1>11. \A k : End(k)' = End(k)
  BY <1>1 DEF End, Size
<1> QED BY <1>1, <1>8, <1>10, <1>11 DEF LayoutInv, Loaded, Chain, Building, OneRecordEach, NoneIn

\* The emitter's next object: the address stays that of the next link.
LEMMA EmitNextLayout == TypeInv /\ LayoutInv /\ EmitNext => LayoutInv'
<1> SUFFICES ASSUME TypeInv, LayoutInv, EmitNext PROVE LayoutInv'
  OBVIOUS
<1>1. /\ phase = "emit" /\ phase' = "emit" /\ node \in DOMAIN objs /\ node \in Nat \ {0}
      /\ inner > Len(objs[node].records) /\ inner \in Nat \ {0}
      /\ node' = node + 1 /\ inner' = 1
      /\ UNCHANGED <<args, objs, meta, running, addr, placed>>
  BY DEF TypeInv, TypeOK, EmitNext, Emitting, input, layout, output
<1>2. \A k \in DOMAIN meta : k \in Nat
  BY DEF TypeInv, TypeOK
<1>3. ASSUME NEW l \in DOMAIN meta, l >= node + 1, NoneIn(node + 1, l - 1)
      PROVE  addr = meta[l]
  <2>1. CASE inner > 1
    BY <1>1, <1>2, <1>3, <2>1 DEF LayoutInv, Placing
  <2>2. CASE inner = 1
    <3> objs[node] \in Obj
      BY <1>1 DEF TypeInv, TypeOK
    <3>1. objs[node].records \in Seq(Rec)
      BY DEF Obj
    <3>2. objs[node].records = << >>
      BY <1>1, <2>2, <3>1
    <3>3. node \notin DOMAIN meta
      BY <1>1, <3>2 DEF TypeInv, MetaDomain
    <3>4. NoneIn(node, l - 1)
      BY <1>1, <1>3, <3>3 DEF NoneIn
    <3> QED BY <1>1, <1>2, <1>3, <2>2, <3>4 DEF LayoutInv, Placing
  <2> QED BY <1>1, <2>1, <2>2
<1>4. Placing'
  BY <1>1, <1>3, SMTT(30) DEF LayoutInv, Placing, NoneIn, TypeInv, TypeOK
<1>5. \A k : End(k)' = End(k)
  BY <1>1 DEF End, Size
<1> QED BY <1>1, <1>4, <1>5 DEF LayoutInv, Loaded, Chain, Building, OneRecordEach, PackedAtOffset,
                             NoneIn

\* Every step keeps the two layouts in agreement.
LEMMA NextLayout ==
  ASSUME NoRelink, TypeInv, LayoutInv, [Next]_vars
  PROVE  LayoutInv'
<1>1. CASE do_load
  BY <1>1, LoadLayout
<1>2. CASE do_load_fails \/ BuildDuplicate \/ RelocateFatal \/ WriteFails
  <2>1. /\ phase' = "failed"
        /\ UNCHANGED <<args, objs, meta, running, addr, placed>>
    BY <1>2 DEF do_load_fails, BuildDuplicate, RelocateFatal, WriteFails, Fatal, input,
                layout, output
  <2> QED BY <2>1, IdleLayout
<1>3. CASE LoadDone \/ BuildDone \/ RelocateDone \/ EmitDone
  BY <1>3, EnterLayout DEF LoadDone, BuildDone, RelocateDone, EmitDone
<1>4. CASE BuildObject
  BY <1>4, BuildLayout
<1>5. CASE BuildSkip
  BY <1>5, SkipLayout
<1>6. CASE RelocateWord \/ RelocateSkip
  <2>1. /\ AtReloc /\ OneRecord /\ inner' = inner + 1
        /\ UNCHANGED <<args, objs, meta, running, addr, placed, phase, node>>
    BY <1>6 DEF RelocateWord, RelocateSkip, input, layout, output
  <2> QED BY <2>1, RelocLayout
<1>7. CASE RelocateOverrun
  <2>1. /\ AtReloc /\ OneRecord
        /\ UNCHANGED <<args, objs, meta, running, addr, placed, node>>
        /\ (inner' = inner + 1 /\ UNCHANGED phase) \/ phase' = "crashed"
    BY <1>7 DEF RelocateOverrun, input, layout, output
  <2>2. CASE phase' = "crashed"
    BY <2>1, <2>2, IdleLayout
  <2>3. CASE inner' = inner + 1 /\ UNCHANGED phase
    BY <2>1, <2>3, RelocLayout
  <2> QED BY <2>1, <2>2, <2>3
<1>8. CASE RelocateNext
  BY <1>8, RelocNextLayout
<1>9. CASE EmitRecord
  BY <1>9, EmitLayout
<1>10. CASE EmitNext
  BY <1>10, EmitNextLayout
<1>11. CASE Finish
  <2>1. /\ phase' = "ok"
        /\ UNCHANGED <<args, objs, meta, running, addr, placed>>
    BY <1>11 DEF Finish, input, layout, output
  <2> QED BY <2>1, IdleLayout
<1>12. CASE Terminated \/ UNCHANGED vars
  <2>1. UNCHANGED <<args, objs, meta, running, addr, placed, phase, node, inner>>
    BY <1>12 DEF Terminated, vars
  <2> QED BY <2>1, IdleLayout
<1> QED BY <1>1, <1>2, <1>3, <1>4, <1>5, <1>6, <1>7, <1>8, <1>9, <1>10, <1>11, <1>12 DEF Next

\* Where no output of the linker is linked again, every object is emitted at
\* the offset that the relocations were computed from: do_link_build_state and
\* do_link_emit, two passes that share no state, agree on every layout.
THEOREM LayoutsAgree == ASSUME NoRelink PROVE Spec => []PackedAtOffset
<1>1. Init => TypeInv /\ LayoutInv
  BY InitType, InitLayout
<1>2. TypeInv /\ LayoutInv /\ [Next]_vars => (TypeInv /\ LayoutInv)'
  BY NoRelink, NextType, NextLayout
<1>3. LayoutInv => PackedAtOffset
  BY DEF LayoutInv
<1> QED BY <1>1, <1>2, <1>3, PTL DEF Spec

-----------------------------------------------------------------------------
(* The passes together link as LinkContract promises.  A word of the output  *)
(* is compared with the contract's, which adds up all the relocations of the *)
(* word, while the linker adds them one by one, modulo the width of a word.  *)

HIDE DEF Word, Exited

\* Induction over the natural numbers, for a set of them.
LEMMA NatSetInduction ==
  ASSUME NEW T, \A n \in Nat : (\A m \in 0 .. n - 1 : m \in T) => n \in T
  PROVE  Nat \subseteq T
<1> SUFFICES ASSUME Nat \ T # {} PROVE FALSE
  OBVIOUS
<1>1. IsWellFoundedOn(OpToRel(<, Nat), Nat)
  BY NatLessThanWellFounded
<1>2. PICK n \in Nat \ T : \A m \in Nat \ T : ~(<<m, n>> \in OpToRel(<, Nat))
  <2>1. Nat \ T \subseteq Nat
    OBVIOUS
  <2>2. QED
    BY <1>1, <2>1, WFMin, Zenon
<1>3. \A m \in 0 .. n - 1 : m \in T
  <2> SUFFICES ASSUME NEW m \in 0 .. n - 1, m \notin T PROVE FALSE
    OBVIOUS
  <2>1. m \in Nat /\ m < n
    OBVIOUS
  <2>2. <<m, n>> \in OpToRel(<, Nat)
    BY <2>1 DEF OpToRel
  <2>3. QED
    BY <1>2, <2>1, <2>2
<1>4. QED
  BY <1>2, <1>3

\* The same, one step at a time.
LEMMA StepInduction ==
  ASSUME NEW T, 0 \in T, \A n \in Nat : n \in T => n + 1 \in T
  PROVE  Nat \subseteq T
<1>1. ASSUME NEW n \in Nat, \A m \in 0 .. n - 1 : m \in T PROVE n \in T
  <2>1. CASE n = 0
    BY <2>1
  <2>2. CASE n # 0
    <3>1. n - 1 \in Nat /\ n - 1 \in 0 .. n - 1 /\ (n - 1) + 1 = n
      BY <2>2
    <3>2. n - 1 \in T
      BY <1>1, <3>1
    <3>3. (n - 1) + 1 \in T
      BY <3>1, <3>2
    <3>4. QED
      BY <3>1, <3>3
  <2>3. QED
    BY <2>1, <2>2
<1>2. QED
  BY <1>1, NatSetInduction

-----------------------------------------------------------------------------
(* Sums over finite sets.                                                  *)

Choice(s) == CHOOSE x \in s : TRUE
Fold(f, s, g) == IF s = {} THEN 0 ELSE f[Choice(s)] + g[s \ {Choice(s)}]
Folding(f, S, g) == g = [s \in SUBSET S |-> Fold(f, s, g)]

\* The sum of f over S is what some function that folds the subsets of S says of S.
LEMMA SumIs == \A f, S : Contract!SumFunctionOnSet(f, S) = (CHOOSE g : Folding(f, S, g))[S]
<1> TAKE f, S
<1>1. QED
  BY Zenon DEF Contract!SumFunctionOnSet, Contract!FoldFunctionOnSet, Contract!MapThenFoldSet,
               Folding, Fold, Choice

\* Taking the chosen element away leaves a smaller set.
LEMMA ChoiceLess ==
  ASSUME NEW s, s # {}, IsFiniteSet(s)
  PROVE  /\ Choice(s) \in s /\ s \ {Choice(s)} \subseteq s
         /\ IsFiniteSet(s \ {Choice(s)})
         /\ Cardinality(s) \in Nat /\ Cardinality(s \ {Choice(s)}) = Cardinality(s) - 1
<1>1. Choice(s) \in s
  BY DEF Choice
<1> HIDE DEF Choice
<1>2. QED
  BY <1>1, FS_RemoveElement, FS_CardinalityType

\* There is such a function when S is finite.
LEMMA FoldingExists ==
  ASSUME NEW f, NEW S, IsFiniteSet(S)
  PROVE  \E g : Folding(f, S, g)
<1> DEFINE Upto(h, n) == \A s \in SUBSET S : Cardinality(s) <= n => h[s] = Fold(f, s, h)
           T == {n \in Nat : \E h : Upto(h, n)}
<1>1. \A s \in SUBSET S : IsFiniteSet(s) /\ Cardinality(s) \in Nat /\ Cardinality(s) <= Cardinality(S)
  BY FS_Subset, FS_CardinalityType
<1>2. 0 \in T
  <2> DEFINE h == [s \in SUBSET S |-> 0]
  <2>1. Upto(h, 0)
    <3> SUFFICES ASSUME NEW s \in SUBSET S, Cardinality(s) <= 0 PROVE h[s] = Fold(f, s, h)
      OBVIOUS
    <3>1. s = {}
      BY <1>1, FS_EmptySet
    <3>2. QED
      BY <3>1 DEF Fold
  <2>2. QED
    BY <2>1
<1>3. ASSUME NEW n \in Nat, n \in T PROVE n + 1 \in T
  <2>1. PICK h : Upto(h, n)
    BY <1>3
  <2> DEFINE k == [s \in SUBSET S |-> IF Cardinality(s) <= n THEN h[s] ELSE Fold(f, s, h)]
  <2>2. Upto(k, n + 1)
    <3> SUFFICES ASSUME NEW s \in SUBSET S, Cardinality(s) <= n + 1 PROVE k[s] = Fold(f, s, k)
      BY Zenon
    <3>1. k[s] = Fold(f, s, h)
      BY <2>1
    <3>2. CASE s = {}
      BY <3>1, <3>2 DEF Fold
    <3>3. CASE s # {}
      <4> DEFINE r == s \ {Choice(s)}
      <4>1. r \in SUBSET S /\ Cardinality(r) = Cardinality(s) - 1 /\ Cardinality(s) \in Nat
        BY <1>1, <3>3, ChoiceLess
      <4> HIDE DEF r
      <4>2. k[r] = h[r]
        BY <4>1
      <4> HIDE DEF k
      <4>3. QED
        BY <3>1, <3>3, <4>2 DEF Fold, r
    <3>4. QED
      BY <3>2, <3>3
  <2> HIDE DEF k, Upto
  <2>3. \E g : Upto(g, n + 1)
    BY <2>2, Zenon
  <2>4. QED
    BY <2>3
<1>4. Nat \subseteq T
  <2> HIDE DEF T
  <2>1. QED
    BY <1>2, <1>3, StepInduction
<1>5. PICK h : Upto(h, Cardinality(S))
  <2>1. Cardinality(S) \in Nat
    BY <1>1
  <2>2. QED
    BY <1>4, <2>1
<1> DEFINE g == [s \in SUBSET S |-> h[s]]
<1>6. \A s \in SUBSET S : g[s] = Fold(f, s, g)
  <2> TAKE s \in SUBSET S
  <2>1. g[s] = Fold(f, s, h)
    BY <1>1, <1>5
  <2>2. CASE s = {}
    BY <2>1, <2>2 DEF Fold
  <2>3. CASE s # {}
    <3>1. g[s \ {Choice(s)}] = h[s \ {Choice(s)}]
      OBVIOUS
    <3> HIDE DEF g
    <3>2. QED
      BY <2>1, <2>3, <3>1 DEF Fold
  <2>4. QED
    BY <2>2, <2>3
<1>7. g = [s \in SUBSET S |-> Fold(f, s, g)]
  <2>1. DOMAIN g = SUBSET S /\ g = [s \in SUBSET S |-> g[s]]
    OBVIOUS
  <2> HIDE DEF g
  <2>2. QED
    BY <1>6, <2>1
<1> HIDE DEF g
<1>8. Folding(f, S, g)
  BY <1>7 DEF Folding
<1>9. QED
  BY <1>8, Zenon

\* What it says of a set.
LEMMA FoldingAt ==
  ASSUME NEW f, NEW S, NEW g, Folding(f, S, g), NEW s \in SUBSET S
  PROVE  g[s] = Fold(f, s, g)
<1>1. g = [u \in SUBSET S |-> Fold(f, u, g)]
  BY Zenon DEF Folding
<1> HIDE DEF Fold
<1>2. [u \in SUBSET S |-> Fold(f, u, g)][s] = Fold(f, s, g)
  OBVIOUS
<1>3. QED
  BY <1>1, <1>2, Zenon

\* What is summed up does not depend on what the set is a part of.
LEMMA FoldingSame ==
  ASSUME NEW f, NEW S, IsFiniteSet(S), NEW U, U \subseteq S,
         NEW g, Folding(f, S, g), NEW h, Folding(f, U, h)
  PROVE  \A s \in SUBSET U : g[s] = h[s]
<1> DEFINE T == {n \in Nat : \A s \in SUBSET U : Cardinality(s) <= n => g[s] = h[s]}
<1>1. \A s \in SUBSET U : IsFiniteSet(s) /\ Cardinality(s) \in Nat
  BY FS_Subset, FS_CardinalityType
<1>2. \A s \in SUBSET U : g[s] = Fold(f, s, g) /\ h[s] = Fold(f, s, h)
  <2> TAKE s \in SUBSET U
  <2>1. s \in SUBSET S
    OBVIOUS
  <2>2. QED
    BY <2>1, FoldingAt
<1>3. 0 \in T
  <2> SUFFICES ASSUME NEW s \in SUBSET U, Cardinality(s) <= 0 PROVE g[s] = h[s]
    BY DEF T
  <2>1. s = {}
    BY <1>1, FS_EmptySet
  <2>2. QED
    BY <1>2, <2>1 DEF Fold
<1>4. ASSUME NEW n \in Nat, n \in T PROVE n + 1 \in T
  <2> SUFFICES ASSUME NEW s \in SUBSET U, Cardinality(s) <= n + 1 PROVE g[s] = h[s]
    BY DEF T
  <2>1. CASE s = {}
    BY <1>2, <2>1 DEF Fold
  <2>2. CASE s # {}
    <3> DEFINE r == s \ {Choice(s)}
    <3>1. r \in SUBSET U /\ Cardinality(r) = Cardinality(s) - 1 /\ Cardinality(s) \in Nat
      BY <1>1, <2>2, ChoiceLess
    <3> HIDE DEF r
    <3>2. g[r] = h[r]
      BY <1>4, <3>1
    <3>3. g[s] = f[Choice(s)] + g[r] /\ h[s] = f[Choice(s)] + h[r]
      BY <1>2, <2>2 DEF Fold, r
    <3>4. QED
      BY <3>2, <3>3
  <2>3. QED
    BY <2>1, <2>2
<1>5. Nat \subseteq T
  <2> HIDE DEF T
  <2>1. QED
    BY <1>3, <1>4, StepInduction
<1>6. QED
  <2> TAKE s \in SUBSET U
  <2>1. Cardinality(s) \in T
    BY <1>1, <1>5
  <2>2. Cardinality(s) <= Cardinality(s)
    BY <1>1
  <2>3. QED
    BY <2>1, <2>2

\* A sum is the chosen element's and the sum of the others.
LEMMA SumChoice ==
  ASSUME NEW f, NEW S, IsFiniteSet(S)
  PROVE  /\ S = {} => Contract!SumFunctionOnSet(f, S) = 0
         /\ S # {} => Contract!SumFunctionOnSet(f, S)
                       = f[Choice(S)] + Contract!SumFunctionOnSet(f, S \ {Choice(S)})
<1> DEFINE G == CHOOSE g : Folding(f, S, g)
           U == S \ {Choice(S)}
           H == CHOOSE g : Folding(f, U, g)
<1>1. Folding(f, S, G)
  <2>1. \E g : Folding(f, S, g)
    BY FoldingExists
  <2>2. QED
    BY <2>1, Zenon
<1>2. IsFiniteSet(U) /\ U \subseteq S
  BY FS_Subset
<1>3. Folding(f, U, H)
  <2>1. \E g : Folding(f, U, g)
    BY <1>2, FoldingExists
  <2>2. QED
    BY <2>1, Zenon
<1>4. Contract!SumFunctionOnSet(f, S) = G[S] /\ Contract!SumFunctionOnSet(f, U) = H[U]
  BY SumIs
<1> HIDE DEF G, H
<1>5. G[S] = Fold(f, S, G)
  BY <1>1, FoldingAt
<1>6. G[U] = H[U]
  <2>1. U \in SUBSET U
    OBVIOUS
  <2> HIDE DEF U
  <2>2. \A s \in SUBSET U : G[s] = H[s]
    BY <1>1, <1>2, <1>3, FoldingSame
  <2>3. QED
    BY <2>1, <2>2
<1>7. QED
  BY <1>4, <1>5, <1>6 DEF Fold

\* A sum of integers is one, and any summand may be taken from it.
LEMMA SumTakes ==
  ASSUME NEW f, NEW n \in Nat, NEW S, IsFiniteSet(S), Cardinality(S) <= n,
         \A x \in S : f[x] \in Int
  PROVE  /\ Contract!SumFunctionOnSet(f, S) \in Int
         /\ \A x \in S : Contract!SumFunctionOnSet(f, S)
                           = f[x] + Contract!SumFunctionOnSet(f, S \ {x})
<1> DEFINE Sum(s) == Contract!SumFunctionOnSet(f, s)
           T == {m \in Nat : \A s \in SUBSET S : Cardinality(s) <= m =>
                   Sum(s) \in Int /\ \A x \in s : Sum(s) = f[x] + Sum(s \ {x})}
<1>1. \A s \in SUBSET S : IsFiniteSet(s) /\ Cardinality(s) \in Nat
  BY FS_Subset, FS_CardinalityType
<1> HIDE DEF Sum
<1>2. 0 \in T
  <2> SUFFICES ASSUME NEW s \in SUBSET S, Cardinality(s) <= 0
               PROVE  Sum(s) \in Int /\ \A x \in s : Sum(s) = f[x] + Sum(s \ {x})
    BY DEF T
  <2>1. s = {}
    BY <1>1, FS_EmptySet
  <2>2. Sum(s) = 0
    BY <1>1, <2>1, SumChoice DEF Sum
  <2>3. QED
    BY <2>1, <2>2
<1>3. ASSUME NEW m \in Nat, m \in T PROVE m + 1 \in T
  <2> SUFFICES ASSUME NEW s \in SUBSET S, Cardinality(s) <= m + 1
               PROVE  Sum(s) \in Int /\ \A x \in s : Sum(s) = f[x] + Sum(s \ {x})
    BY DEF T
  <2>1. CASE s = {}
    <3>1. Sum(s) = 0
      BY <1>1, <2>1, SumChoice DEF Sum
    <3>2. QED
      BY <2>1, <3>1
  <2>2. CASE s # {}
    <3> DEFINE c == Choice(s)
    <3>1. c \in s
      BY <1>1, <2>2, ChoiceLess
    <3>2. Sum(s) = f[c] + Sum(s \ {c})
      BY <1>1, <2>2, SumChoice DEF Sum
    <3> HIDE DEF c
    <3>3. \A x \in s : s \ {x} \in SUBSET S /\ Cardinality(s \ {x}) <= m
      <4> TAKE x \in s
      <4>1. IsFiniteSet(s) /\ Cardinality(s) \in Nat
        BY <1>1
      <4>2. Cardinality(s \ {x}) = Cardinality(s) - 1
        BY <4>1, FS_RemoveElement
      <4>3. QED
        BY <4>1, <4>2
    <3>4. \A x \in s : Sum(s \ {x}) \in Int
      BY <1>3, <3>3
    <3>5. ASSUME NEW x \in s PROVE Sum(s) = f[x] + Sum(s \ {x})
      <4>1. CASE x = c
        BY <3>2, <4>1
      <4>2. CASE x # c
        <5> DEFINE r == (s \ {c}) \ {x}
        <5>1. r = (s \ {x}) \ {c} /\ x \in s \ {c} /\ c \in s \ {x}
          BY <3>1, <4>2
        <5>2. Sum(s \ {c}) = f[x] + Sum(r)
          <6>1. s \ {c} \in SUBSET S /\ Cardinality(s \ {c}) <= m
            BY <3>1, <3>3
          <6>2. \A y \in s \ {c} : Sum(s \ {c}) = f[y] + Sum((s \ {c}) \ {y})
            BY <1>3, <6>1
          <6>3. QED
            BY <5>1, <6>2
        <5>3. Sum(s \ {x}) = f[c] + Sum(r)
          <6>1. s \ {x} \in SUBSET S /\ Cardinality(s \ {x}) <= m
            BY <3>3
          <6>2. \A y \in s \ {x} : Sum(s \ {x}) = f[y] + Sum((s \ {x}) \ {y})
            BY <1>3, <6>1
          <6>3. Sum(s \ {x}) = f[c] + Sum((s \ {x}) \ {c})
            BY <5>1, <6>2
          <6>4. QED
            BY <5>1, <6>3
        <5>4. f[x] \in Int /\ f[c] \in Int /\ Sum(r) \in Int
          <6>1. r \in SUBSET S /\ Cardinality(r) <= m
            <7>1. Cardinality(r) <= Cardinality(s \ {c})
              BY <1>1, <3>1, <3>3, FS_Subset
            <7>2. Cardinality(r) \in Nat /\ Cardinality(s \ {c}) \in Nat /\ Cardinality(s \ {c}) <= m
              BY <1>1, <3>1, <3>3
            <7>3. QED
              BY <7>1, <7>2
          <6>2. Sum(r) \in Int
            BY <1>3, <6>1
          <6>3. QED
            BY <3>1, <6>2
        <5> HIDE DEF r
        <5>5. QED
          BY <3>2, <5>2, <5>3, <5>4
      <4>3. QED
        BY <4>1, <4>2
    <3>6. Sum(s) \in Int
      BY <3>1, <3>2, <3>4
    <3>7. QED
      BY <3>5, <3>6
  <2>3. QED
    BY <2>1, <2>2
<1>4. Nat \subseteq T
  <2> HIDE DEF T
  <2>1. QED
    BY <1>2, <1>3, StepInduction
<1>5. S \in SUBSET S /\ n \in T
  BY <1>4
<1>6. Sum(S) \in Int /\ \A x \in S : Sum(S) = f[x] + Sum(S \ {x})
  BY <1>5
<1>7. QED
  BY <1>6 DEF Sum

\* A sum takes in one more element, whichever of them was chosen first.
LEMMA SumAdd ==
  ASSUME NEW f, NEW S, IsFiniteSet(S), \A y \in S : f[y] \in Int
  PROVE  /\ Contract!SumFunctionOnSet(f, S) \in Int
         /\ \A x : x \notin S /\ f[x] \in Int =>
              Contract!SumFunctionOnSet(f, S \cup {x}) = Contract!SumFunctionOnSet(f, S) + f[x]
<1>1. Contract!SumFunctionOnSet(f, S) \in Int
  <2>1. Cardinality(S) \in Nat /\ Cardinality(S) <= Cardinality(S)
    BY FS_CardinalityType
  <2>2. QED
    BY <2>1, SumTakes
<1>2. ASSUME NEW x, x \notin S, f[x] \in Int
      PROVE  Contract!SumFunctionOnSet(f, S \cup {x}) = Contract!SumFunctionOnSet(f, S) + f[x]
  <2> DEFINE U == S \cup {x}
  <2>1. IsFiniteSet(U) /\ Cardinality(U) \in Nat /\ Cardinality(U) <= Cardinality(U)
    BY FS_AddElement, FS_CardinalityType
  <2>2. x \in U /\ U \ {x} = S /\ \A y \in U : f[y] \in Int
    BY <1>2
  <2> HIDE DEF U
  <2>3. Contract!SumFunctionOnSet(f, U) = f[x] + Contract!SumFunctionOnSet(f, U \ {x})
    BY <2>1, <2>2, SumTakes
  <2>4. f[x] \in Int /\ Contract!SumFunctionOnSet(f, U) = Contract!SumFunctionOnSet(f, S) + f[x]
    <3>1. Contract!SumFunctionOnSet(f, U) = f[x] + Contract!SumFunctionOnSet(f, S)
      BY <2>2, <2>3
    <3>2. QED
      BY <1>1, <1>2, <3>1
  <2>5. QED
    BY <2>4 DEF U
<1>3. QED
  BY <1>1, <1>2

-----------------------------------------------------------------------------
(* Remainders.                                                             *)

\* A number below the modulus is its own remainder.
LEMMA SmallMod ==
  ASSUME NEW n \in Nat \ {0}, NEW a \in 0 .. n - 1
  PROVE  a % n = a
OBVIOUS

\* Quotient and remainder.
LEMMA DivMod ==
  ASSUME NEW a \in Int, NEW s \in Nat \ {0}
  PROVE  /\ a % s \in 0 .. s - 1 /\ a \div s \in Int
         /\ a = s * (a \div s) + (a % s)
<1>1. a % s \in 0 .. s - 1
  OBVIOUS
<1>2. a \div s \in Int
  OBVIOUS
<1>3. a = s * (a \div s) + (a % s)
  BY Z3
<1>4. QED
  BY <1>1, <1>2, <1>3

\* No multiple but 0 is within a modulus of 0.
LEMMA SmallMultiple ==
  ASSUME NEW c \in Int, NEW s \in Nat \ {0}, -s < s * c, s * c < s
  PROVE  c = 0
<1>1. CASE c >= 1
  <2>1. s * c >= s * 1
    BY <1>1
  <2>2. QED
    BY <2>1
<1>2. CASE c <= -1
  <2>1. s * c <= s * (-1)
    BY <1>2
  <2>2. QED
    BY <2>1
<1>3. QED
  BY <1>1, <1>2

\* A remainder is what its range and a multiple determine.
LEMMA ModUnique ==
  ASSUME NEW s \in Nat \ {0}, NEW c \in Int, NEW r \in 0 .. s - 1
  PROVE  (s * c + r) % s = r
<1> DEFINE a == s * c + r
           d == a \div s
           m == a % s
<1>1. a \in Int
  OBVIOUS
<1>2. m \in 0 .. s - 1 /\ d \in Int /\ a = s * d + m
  BY <1>1, DivMod
<1>3. s * d + m = s * c + r
  BY <1>2
<1> HIDE DEF a, d, m
<1>4. s * (d - c) = r - m
  <2>1. s * d \in Int /\ s * c \in Int /\ s * (d - c) = s * d - s * c
    BY <1>2
  <2>2. QED
    BY <1>2, <1>3, <2>1
<1>5. -s < r - m /\ r - m < s
  BY <1>2
<1>6. d - c = 0
  BY <1>2, <1>4, <1>5, SmallMultiple
<1>7. m = r
  BY <1>2, <1>4, <1>6
<1>8. QED
  BY <1>7 DEF m, a

\* A multiple of the modulus does not change the remainder.
LEMMA ModPlus ==
  ASSUME NEW s \in Nat \ {0}, NEW c \in Int, NEW x \in Int
  PROVE  (s * c + x) % s = x % s
<1> DEFINE d == x \div s
           m == x % s
<1>1. m \in 0 .. s - 1 /\ d \in Int /\ x = s * d + m
  BY DivMod
<1> HIDE DEF d, m
<1>2. s * c + x = s * (c + d) + m
  <2>1. s * (c + d) = s * c + s * d /\ s * c \in Int /\ s * d \in Int
    BY <1>1
  <2>2. QED
    BY <1>1, <2>1
<1>3. (s * (c + d) + m) % s = m
  BY <1>1, ModUnique
<1>4. QED
  BY <1>2, <1>3 DEF m

\* Modulo a divisor of Limit nothing is lost modulo Limit.
LEMMA Reduced ==
  ASSUME NEW n \in Nat \ {0}, NEW s \in Nat \ {0}, NEW q \in Nat, n = q * s, NEW x \in Int
  PROVE  \E c \in Int : x % n = s * c + x
<1> DEFINE d == x \div n
<1>1. d \in Int /\ x = n * d + (x % n) /\ x % n \in Int
  <2>1. d \in Int /\ x = n * d + (x % n) /\ x % n \in 0 .. n - 1
    BY DivMod, Zenon
  <2>2. QED
    BY <2>1
<1> HIDE DEF d
<1>2. n * d = s * (q * d) /\ q * d \in Int /\ -(q * d) \in Int
  BY <1>1
<1>3. s * (-(q * d)) = -(s * (q * d)) /\ s * (q * d) \in Int
  BY <1>2
<1>4. x % n = s * (-(q * d)) + x
  BY <1>1, <1>2, <1>3
<1>5. QED
  BY <1>2, <1>4

\* Numbers of one remainder differ by a multiple.
LEMMA Congruent ==
  ASSUME NEW s \in Nat \ {0}, NEW x \in Int, NEW y \in Int, x % s = y % s
  PROVE  \E c \in Int : x = s * c + y
<1> DEFINE d == x \div s
           e == y \div s
           m == x % s
<1>1. d \in Int /\ e \in Int /\ m \in Int /\ x = s * d + m /\ y = s * e + m
  BY DivMod
<1> HIDE DEF d, e, m
<1>2. s * (d - e) = s * d - s * e /\ s * d \in Int /\ s * e \in Int /\ d - e \in Int
  BY <1>1
<1>3. x = s * (d - e) + y
  BY <1>1, <1>2
<1>4. QED
  BY <1>2, <1>3

\* The w whose field of s values has had x added to it, and one more addition.
WithField(s, w, x) == (w - (w % s)) + ((w + x) % s)
PlusField(n, s, dest, v) == ((dest - (dest % s)) + ((dest + v) % s)) % n
SameField(s, v, t) == v % s = t % s

\* Patching a field that holds a sum with one more adjustment gives the longer sum.
LEMMA FieldAdds ==
  ASSUME NEW n \in Nat \ {0}, NEW s \in Nat \ {0}, NEW q \in Nat, n = q * s,
         NEW w \in 0 .. n - 1, NEW sum \in Int, NEW v \in Int, NEW t \in Int, SameField(s, v, t)
  PROVE  PlusField(n, s, WithField(s, w, sum), v) = WithField(s, w, sum + t)
<1> DEFINE dest == WithField(s, w, sum)
<1>a. v % s = t % s
  BY Zenon DEF SameField
<1>b. dest = (w - (w % s)) + ((w + sum) % s)
  BY Zenon DEF WithField
<1> SUFFICES ((dest - (dest % s)) + ((dest + v) % s)) % n = (w - (w % s)) + ((w + (sum + t)) % s)
  BY Zenon DEF PlusField, WithField
<1> HIDE DEF dest
<1> DEFINE d == w \div s
           m == w % s
           f == (w + sum) % s
           e == (w + sum) \div s
           x == (w + (sum + t)) % s
<1>1. d \in Int /\ m \in 0 .. s - 1 /\ w = s * d + m
  <2>1. w \in Int
    OBVIOUS
  <2>2. QED
    BY <2>1, DivMod, Zenon
<1>2. e \in Int /\ f \in 0 .. s - 1 /\ w + sum = s * e + f
  <2>1. w + sum \in Int
    OBVIOUS
  <2>2. QED
    BY <2>1, DivMod
<1>3. x \in 0 .. s - 1
  <2>1. w + (sum + t) \in Int
    OBVIOUS
  <2>2. QED
    BY <2>1, DivMod
<1>4. PICK g \in Int : v = s * g + t
  BY <1>a, Congruent
<1>5. dest = (w - m) + f
  BY <1>b
<1>6. (s * d + f) % s = f
  BY <1>1, <1>2, ModUnique
<1>7. (s * ((d + g) - e) + (w + (sum + t))) % s = x
  <2>1. w + (sum + t) \in Int /\ (d + g) - e \in Int
    BY <1>1, <1>2, <1>4
  <2>2. QED
    BY <2>1, ModPlus
<1>8. (w - (w % s)) + ((w + (sum + t)) % s) = (w - m) + x
  OBVIOUS
<1> HIDE DEF d, m, f, e, x
<1>9. s * d \in Int /\ s * e \in Int /\ s * g \in Int
      /\ s * ((d + g) - e) = (s * d + s * g) - s * e
  BY <1>1, <1>2, <1>4
<1>10. dest = s * d + f /\ dest % s = f
  BY <1>1, <1>2, <1>5, <1>6, <1>9
<1>11. dest + v = s * ((d + g) - e) + (w + (sum + t))
  <2>1. dest + v = (s * d + ((w + sum) - s * e)) + (s * g + t)
    <3>1. f = (w + sum) - s * e
      BY <1>2, <1>9
    <3>2. QED
      BY <1>4, <1>10, <3>1, Zenon
  <2> DEFINE a == s * d
             b == s * g
             c == s * e
  <2>2. a \in Int /\ b \in Int /\ c \in Int
    BY <1>9
  <2>3. dest + v = (a + ((w + sum) - c)) + (b + t)
    BY <2>1
  <2>4. s * ((d + g) - e) = (a + b) - c
    BY <1>9
  <2> HIDE DEF a, b, c
  <2>5. dest + v = ((a + b) - c) + (w + (sum + t))
    BY <2>2, <2>3
  <2>6. QED
    BY <2>4, <2>5
<1>12. (dest + v) % s = x
  BY <1>7, <1>11
<1>13. (dest - (dest % s)) + ((dest + v) % s) = s * d + x
  <2>1. dest - (dest % s) = s * d
    <3>1. dest - f = s * d
      BY <1>2, <1>9, <1>10
    <3>2. QED
      BY <1>10, <3>1, Zenon
  <2>2. QED
    BY <1>12, <2>1, Zenon
<1>14. 0 <= d /\ d <= q - 1
  <2>1. CASE d < 0
    <3>1. s * d <= s * (-1)
      BY <1>1, <2>1
    <3>2. QED
      BY <1>1, <1>9, <3>1
  <2>2. CASE d >= q
    <3>1. s * d >= s * q /\ s * q = n
      BY <1>1, <2>2
    <3>2. QED
      BY <1>1, <1>9, <3>1
  <2>3. QED
    BY <1>1, <2>1, <2>2
<1>15. 0 <= s * d /\ s * d <= n - s
  <2>1. s * d >= s * 0 /\ s * d <= s * (q - 1)
    BY <1>1, <1>14
  <2>2. s * 0 = 0 /\ s * (q - 1) = n - s
    OBVIOUS
  <2>3. QED
    BY <2>1, <2>2
<1>16. s * d + x \in 0 .. n - 1
  BY <1>3, <1>9, <1>15
<1>17. (s * d + x) % n = s * d + x
  BY <1>16, SmallMod
<1>18. w - m = s * d
  BY <1>1, <1>9
<1>19. QED
  BY <1>8, <1>13, <1>17, <1>18

-----------------------------------------------------------------------------
(* The contract's layout.                                                  *)

Readable(a) == a \in Inputs /\ BadFile \notin {a[k] : k \in DOMAIN a}

\* The files of a command line that can be read are objects.
LEMMA ReadableTypes ==
  ASSUME NEW a, Readable(a)
  PROVE  /\ Len(a) \in Nat /\ DOMAIN a = 1 .. Len(a)
         /\ \A k \in 1 .. Len(a) : a[k] \in Obj
         /\ \A k : k \in Contract!Bearing(a) <=> k \in 1 .. Len(a) /\ a[k].records # <<>>
<1>1. a \in Seq(Obj \cup {BadFile})
  BY InputsAssumption DEF Readable
<1>2. Len(a) \in Nat /\ DOMAIN a = 1 .. Len(a)
  BY <1>1
<1>3. \A k \in 1 .. Len(a) : a[k] \in Obj
  BY <1>1, <1>2 DEF Readable
<1>4. QED
  BY <1>2, <1>3 DEF Contract!Bearing, Contract!HasRecord

\* An object with a record has its words in it.
LEMMA BearingTypes ==
  ASSUME NEW a, Readable(a), NEW k \in Contract!Bearing(a)
  PROVE  /\ k \in 1 .. Len(a) /\ a[k] \in Obj /\ a[k].records # <<>>
         /\ a[k].records[1] \in Rec
         /\ Contract!Contents(a[k]) = FirstWords(a[k])
         /\ Contract!Contents(a[k]) = a[k].records[1].data
         /\ Contract!Contents(a[k]) \in Seq(Word)
         /\ Len(Contract!Contents(a[k])) \in Nat
<1>1. k \in 1 .. Len(a) /\ a[k] \in Obj /\ a[k].records # <<>>
  BY ReadableTypes
<1>2. a[k].records[1] \in Rec
  BY <1>1 DEF Obj
<1>3. Contract!Contents(a[k]) = FirstWords(a[k]) /\ Contract!Contents(a[k]) = a[k].records[1].data
  BY <1>1 DEF Contract!Contents, FirstWords
<1>4. Contract!Contents(a[k]) \in Seq(Word)
  BY <1>1, <1>3, FirstWordsType
<1>5. QED
  BY <1>1, <1>2, <1>3, <1>4

\* Where an object begins.
LEMMA BaseStep ==
  ASSUME NEW a, Readable(a)
  PROVE  /\ Contract!Base(a, 1) = 0
         /\ \A k \in 1 .. Len(a) :
              Contract!Base(a, k + 1)
                = Contract!Base(a, k)
                    + (IF k \in Contract!Bearing(a) THEN Len(Contract!Contents(a[k])) ELSE 0)
<1> DEFINE size == [j \in Contract!Bearing(a) |-> Len(Contract!Contents(a[j]))]
           Before(k) == {j \in Contract!Bearing(a) : j < k}
<1>1. \A k : Contract!Base(a, k) = Contract!SumFunctionOnSet(size, Before(k))
  BY Zenon DEF Contract!Base
<1>2. \A k \in Contract!Bearing(a) : k \in 1 .. Len(a) /\ size[k] \in Int
  BY BearingTypes
<1>3. IsFiniteSet(1 .. Len(a)) /\ Len(a) \in Nat
  BY ReadableTypes, FS_Interval
<1>4. \A k : IsFiniteSet(Before(k))
  <2> TAKE k
  <2>1. Before(k) \subseteq 1 .. Len(a)
    BY <1>2
  <2>2. QED
    BY <1>3, <2>1, FS_Subset
<1>5. Before(1) = {}
  BY <1>2
<1>6. Contract!Base(a, 1) = 0
  <2>1. Contract!SumFunctionOnSet(size, {}) = 0
    BY SumChoice, FS_EmptySet
  <2>2. QED
    BY <1>1, <1>5, <2>1
<1>7. ASSUME NEW k \in 1 .. Len(a)
      PROVE  Contract!Base(a, k + 1)
                = Contract!Base(a, k)
                    + (IF k \in Contract!Bearing(a) THEN Len(Contract!Contents(a[k])) ELSE 0)
  <2>1. CASE k \in Contract!Bearing(a)
    <3>1. Before(k + 1) = Before(k) \cup {k} /\ k \notin Before(k)
      <4>1. k \in Int /\ \A j \in Contract!Bearing(a) : j \in Int
        <5>1. \A j \in Contract!Bearing(a) : j \in 1 .. Len(a)
          BY <1>2, Zenon
        <5>2. Len(a) \in Nat
          BY <1>3
        <5>3. QED
          BY <5>1, <5>2
      <4> HIDE DEF size
      <4>2. \A j \in Contract!Bearing(a) : j < k + 1 <=> j < k \/ j = k
        BY <4>1
      <4>3. ~(k < k)
        BY <4>1
      <4>4. QED
        BY <2>1, <4>2, <4>3, Zenon
    <3>2. \A j \in Before(k) : size[j] \in Int
      BY <1>2
    <3>3. size[k] \in Int /\ size[k] = Len(Contract!Contents(a[k]))
      BY <1>2, <2>1
    <3> HIDE DEF size, Before
    <3>4. Contract!SumFunctionOnSet(size, Before(k) \cup {k})
            = Contract!SumFunctionOnSet(size, Before(k)) + size[k]
      BY <1>4, <3>1, <3>2, <3>3, SumAdd
    <3>5. QED
      BY <1>1, <2>1, <3>1, <3>3, <3>4
  <2>2. CASE k \notin Contract!Bearing(a)
    <3>1. Before(k + 1) = Before(k)
      BY <1>2, <2>2
    <3>2. Contract!Base(a, k) \in Int
      <4>1. \A j \in Before(k) : size[j] \in Int
        BY <1>2
      <4> HIDE DEF size, Before
      <4>2. Contract!SumFunctionOnSet(size, Before(k)) \in Int
        BY <1>4, <4>1, SumAdd
      <4>3. QED
        BY <1>1, <4>2
    <3> HIDE DEF size, Before
    <3>3. Contract!Base(a, k + 1) = Contract!Base(a, k)
      BY <1>1, <3>1
    <3>4. QED
      BY <2>2, <3>2, <3>3
  <2>3. QED
    BY <2>1, <2>2
<1>8. QED
  BY <1>6, <1>7

\* An object begins at a number.
LEMMA BaseNat ==
  ASSUME NEW a, Readable(a)
  PROVE  \A k \in 1 .. Len(a) + 1 : Contract!Base(a, k) \in Nat
<1> DEFINE T == {m \in Nat : m \in 1 .. Len(a) => Contract!Base(a, m + 1) \in Nat}
<1>1. Len(a) \in Nat
  BY ReadableTypes
<1>2. Contract!Base(a, 1) = 0
  BY BaseStep
<1>3. 0 \in T
  OBVIOUS
<1>4. ASSUME NEW m \in Nat, m \in T PROVE m + 1 \in T
  <2> SUFFICES ASSUME m + 1 \in 1 .. Len(a) PROVE Contract!Base(a, (m + 1) + 1) \in Nat
    BY DEF T
  <2> DEFINE k == m + 1
  <2>1. Contract!Base(a, k) \in Nat
    <3>1. CASE m = 0
      BY <1>2, <3>1
    <3>2. CASE m # 0
      BY <1>1, <1>4, <3>2
    <3>3. QED
      BY <3>1, <3>2
  <2>2. k \in 1 .. Len(a)
    OBVIOUS
  <2> HIDE DEF k
  <2>3. Contract!Base(a, k + 1)
          = Contract!Base(a, k)
              + (IF k \in Contract!Bearing(a) THEN Len(Contract!Contents(a[k])) ELSE 0)
    BY <2>1, <2>2, BaseStep
  <2>4. k \in Contract!Bearing(a) => Len(Contract!Contents(a[k])) \in Nat
    BY BearingTypes
  <2>5. Contract!Base(a, k + 1) \in Nat
    BY <2>1, <2>3, <2>4
  <2>6. QED
    BY <2>5 DEF k
<1>5. Nat \subseteq T
  <2> HIDE DEF T
  <2>1. QED
    BY <1>3, <1>4, StepInduction
<1>6. ASSUME NEW k \in 1 .. Len(a) + 1 PROVE Contract!Base(a, k) \in Nat
  <2>1. CASE k = 1
    BY <1>2, <2>1
  <2>2. CASE k # 1
    <3>1. k - 1 \in Nat /\ k - 1 \in 1 .. Len(a) /\ (k - 1) + 1 = k
      BY <1>1, <2>2
    <3>2. k - 1 \in T
      BY <1>5, <3>1, Zenon
    <3>3. Contract!Base(a, (k - 1) + 1) \in Nat
      BY <3>1, <3>2
    <3>4. QED
      BY <3>1, <3>3
  <2>3. QED
    BY <2>1, <2>2
<1>7. QED
  BY <1>6

-----------------------------------------------------------------------------
(* The contract's words.                                                   *)

\* A definition of a name is a symbol of an object with a record.
LEMMA DefinitionTypes ==
  ASSUME NEW a, Readable(a), NEW name, NEW d \in Contract!Definitions(a, name)
  PROVE  /\ d[1] \in Contract!Bearing(a) /\ d[2] \in DOMAIN a[d[1]].symbols
         /\ a[d[1]].symbols[d[2]] \in Sym
         /\ a[d[1]].symbols[d[2]].name = name
         /\ d = <<d[1], d[2]>>
<1>1. PICK k \in Contract!Bearing(a) : d \in {k} \X DOMAIN a[k].symbols
  BY DEF Contract!Definitions
<1>2. d[1] = k /\ d[2] \in DOMAIN a[k].symbols /\ d = <<d[1], d[2]>>
  BY <1>1
<1>3. a[k] \in Obj
  BY BearingTypes
<1>4. a[k].symbols[d[2]] \in Sym
  BY <1>2, <1>3 DEF Obj
<1>5. a[d[1]].symbols[d[2]].name = name
  BY DEF Contract!Definitions
<1>6. QED
  BY <1>1, <1>2, <1>4, <1>5

\* A symbol of such an object is a definition of its name.
LEMMA DefinitionIs ==
  ASSUME NEW a, NEW k \in Contract!Bearing(a), NEW j \in DOMAIN a[k].symbols
  PROVE  <<k, j>> \in Contract!Definitions(a, a[k].symbols[j].name)
<1>1. <<k, j>> \in {k} \X DOMAIN a[k].symbols
  OBVIOUS
<1>2. <<k, j>> \in UNION {{l} \X DOMAIN a[l].symbols : l \in Contract!Bearing(a)}
  BY <1>1
<1>3. QED
  BY <1>2 DEF Contract!Definitions

\* The value of a symbol is a number.
LEMMA SymValue ==
  ASSUME NEW s \in Sym
  PROVE  s.value \in Int
<1>1. Word \subseteq Int
  BY LimitAssumption DEF Word
<1>2. s.value \in Word
  BY DEF Sym
<1>3. QED
  BY <1>1, <1>2

\* So is what a relocation stands for, when the name it refers to is defined.
LEMMA TargetInt ==
  ASSUME NEW a, Readable(a), NEW k \in Contract!Bearing(a), NEW r,
         r.name = NoName \/ Contract!Definitions(a, r.name) # {}
  PROVE  Contract!Target(a, k, r) \in Int /\ Contract!Adjustment(a, k, r) \in Int
<1>1. \A l \in Contract!Bearing(a) : Contract!Base(a, l) \in Int
  <2> TAKE l \in Contract!Bearing(a)
  <2>1. l \in 1 .. Len(a) /\ Len(a) \in Nat
    BY BearingTypes, ReadableTypes
  <2>2. l \in 1 .. Len(a) + 1
    BY <2>1
  <2>3. Contract!Base(a, l) \in Nat
    BY <2>2, BaseNat
  <2>4. QED
    BY <2>3
<1>2. Contract!Target(a, k, r) \in Int
  <2>1. CASE r.name = NoName
    <3>1. Contract!Target(a, k, r) = Contract!Base(a, k)
      BY <2>1, Zenon DEF Contract!Target
    <3>2. QED
      BY <1>1, <3>1
  <2>2. CASE r.name # NoName
    <3> DEFINE d == CHOOSE d \in Contract!Definitions(a, r.name) : TRUE
               s == a[d[1]].symbols[d[2]]
    <3>1. d \in Contract!Definitions(a, r.name)
      BY <2>2, Zenon
    <3>2. Contract!Target(a, k, r) = IF s.absolute THEN s.value ELSE Contract!Base(a, d[1]) + s.value
      BY <2>2, Zenon DEF Contract!Target
    <3> HIDE DEF d
    <3>3. d[1] \in Contract!Bearing(a) /\ s \in Sym
      BY <3>1, DefinitionTypes
    <3> HIDE DEF s
    <3>4. Contract!Base(a, d[1]) \in Int
      BY <1>1, <3>3
    <3>5. s.value \in Int
      <4>1. s \in Sym
        BY <3>3, Zenon
      <4>2. QED
        BY <4>1, SymValue
    <3>6. CASE s.absolute
      BY <3>2, <3>5, <3>6
    <3>7. CASE ~s.absolute
      BY <3>2, <3>4, <3>5, <3>7
    <3>8. QED
      BY <3>6, <3>7
  <2>3. QED
    BY <2>1, <2>2
<1>3. Contract!Adjustment(a, k, r) = Contract!Target(a, k, r)
        \/ Contract!Adjustment(a, k, r) = -Contract!Target(a, k, r)
  BY DEF Contract!Adjustment
<1>4. QED
  BY <1>2, <1>3

-----------------------------------------------------------------------------
\* The relocations of a word, the first n of them, and the word after these.
Here(a, k, i) ==
  {j \in DOMAIN a[k].relocs : a[k].relocs[j].addr - a[k].records[1].addr = i - 1}
HereUpto(a, k, i, n) == {j \in Here(a, k, i) : j <= n}
Adj(a, k, i)  == [j \in Here(a, k, i) |-> Contract!Adjustment(a, k, a[k].relocs[j])]
Span(a, k, i) == a[k].relocs[CHOOSE j \in Here(a, k, i) : TRUE].span
LinkedUpto(a, k, i, n) ==
  LET w == Contract!Contents(a[k])[i]
  IN  IF HereUpto(a, k, i, n) = {} THEN w
      ELSE (w - (w % Span(a, k, i)))
             + ((w + Contract!SumFunctionOnSet(Adj(a, k, i), HereUpto(a, k, i, n))) % Span(a, k, i))

\* Before the first relocation a word is the file's.
LEMMA LinkedNone ==
  ASSUME NEW a, Readable(a), NEW k \in Contract!Bearing(a), NEW i
  PROVE  LinkedUpto(a, k, i, 0) = Contract!Contents(a[k])[i]
<1>1. a[k] \in Obj
  BY BearingTypes
<1>2. DOMAIN a[k].relocs = 1 .. Len(a[k].relocs)
  BY <1>1 DEF Obj
<1>3. HereUpto(a, k, i, 0) = {}
  BY <1>2 DEF HereUpto, Here
<1>4. QED
  BY <1>3, Zenon DEF LinkedUpto

\* After the last it is the contract's.
LEMMA LinkedAll ==
  ASSUME NEW a, Readable(a), NEW k \in Contract!Bearing(a), NEW i
  PROVE  LinkedUpto(a, k, i, Len(a[k].relocs)) = Contract!Linked(a, k, i)
<1>1. a[k] \in Obj
  BY BearingTypes
<1>2. DOMAIN a[k].relocs = 1 .. Len(a[k].relocs) /\ Len(a[k].relocs) \in Nat
  BY <1>1 DEF Obj
<1>3. HereUpto(a, k, i, Len(a[k].relocs)) = Here(a, k, i)
  BY <1>2 DEF HereUpto, Here
<1> DEFINE w == Contract!Contents(a[k])[i]
<1>4. Contract!Linked(a, k, i)
        = IF Here(a, k, i) = {} THEN w
          ELSE (w - (w % Span(a, k, i)))
                 + ((w + Contract!SumFunctionOnSet(Adj(a, k, i), Here(a, k, i))) % Span(a, k, i))
  BY Zenon DEF Contract!Linked, Here, Adj, Span
<1>5. QED
  BY <1>3, <1>4, Zenon DEF LinkedUpto

\* A relocation of another word changes nothing.
LEMMA LinkedSkip ==
  ASSUME NEW a, Readable(a), NEW k \in Contract!Bearing(a), NEW i, NEW n \in Nat,
         n + 1 \notin Here(a, k, i)
  PROVE  LinkedUpto(a, k, i, n + 1) = LinkedUpto(a, k, i, n)
<1>1. a[k] \in Obj
  BY BearingTypes
<1>2. DOMAIN a[k].relocs = 1 .. Len(a[k].relocs)
  BY <1>1 DEF Obj
<1>3. \A j \in Here(a, k, i) : j \in Int
  BY <1>2 DEF Here
<1>4. \A j \in Here(a, k, i) : j <= n + 1 <=> j <= n
  BY <1>3
<1>5. HereUpto(a, k, i, n + 1) = HereUpto(a, k, i, n)
  BY <1>4, Zenon DEF HereUpto
<1>6. QED
  BY <1>5, Zenon DEF LinkedUpto

\* The width of a field divides that of a word.
LEMMA SpanDivides ==
  ASSUME NEW r \in Rlc
  PROVE  r.span \in Nat \ {0} /\ \E q \in Nat : Limit = q * r.span
<1>1. r.span \in 1 .. Limit /\ Limit % r.span = 0
  BY DEF Rlc
<1> DEFINE s == r.span
           d == Limit \div s
<1>2. s \in Nat \ {0} /\ Limit \in Nat \ {0}
  BY <1>1, LimitAssumption
<1>3. d \in Int /\ Limit = s * d + (Limit % s)
  <2> HIDE DEF s
  <2>1. Limit \in Int
    BY <1>2
  <2>2. QED
    BY <1>2, <2>1, DivMod, Zenon
<1> HIDE DEF d
<1>4. Limit = s * d
  BY <1>1, <1>2, <1>3
<1>5. d \in Nat
  <2>1. CASE d < 0
    <3>1. s * d <= s * (-1)
      BY <1>2, <1>3, <2>1
    <3>2. QED
      BY <1>2, <1>3, <1>4, <3>1
  <2>2. QED
    BY <1>3, <2>1
<1>6. Limit = d * s
  BY <1>2, <1>3, <1>4
<1>7. QED
  BY <1>2, <1>5, <1>6

\* One more relocation of a word.
LEMMA LinkedNext ==
  ASSUME NEW a, Readable(a), NEW k \in Contract!Bearing(a), Plain(a[k]),
         NEW i \in DOMAIN Contract!Contents(a[k]), NEW n \in Nat, n + 1 \in Here(a, k, i),
         \A j \in Here(a, k, i) : j <= n + 1 => Contract!Adjustment(a, k, a[k].relocs[j]) \in Int,
         NEW v \in Int,
         SameField(a[k].relocs[n + 1].span, v, Contract!Adjustment(a, k, a[k].relocs[n + 1])),
         NEW dest, dest = LinkedUpto(a, k, i, n)
  PROVE  LinkedUpto(a, k, i, n + 1)
           = PlusField(Limit, a[k].relocs[n + 1].span, dest, v)
<1> DEFINE r == a[k].relocs[n + 1]
           s == r.span
           w == Contract!Contents(a[k])[i]
           U == HereUpto(a, k, i, n)
           f == Adj(a, k, i)
           sum == Contract!SumFunctionOnSet(f, U)
           t == Contract!Adjustment(a, k, r)
<1>1. a[k] \in Obj /\ a[k].records[1] \in Rec
  BY BearingTypes
<1>2. a[k].relocs \in Seq(Rlc) /\ DOMAIN a[k].relocs = 1 .. Len(a[k].relocs)
      /\ Len(a[k].relocs) \in Nat
  BY <1>1 DEF Obj
<1>3. \A j \in Here(a, k, i) : j \in DOMAIN a[k].relocs /\ j \in Nat /\ a[k].relocs[j] \in Rlc
  BY <1>2 DEF Here
<1>4. r \in Rlc
  BY <1>3
<1>5. s \in Nat \ {0} /\ \E q \in Nat : Limit = q * s
  BY <1>4, SpanDivides
<1>6. Span(a, k, i) = s
  <2> DEFINE c == CHOOSE j \in Here(a, k, i) : TRUE
  <2>1. c \in Here(a, k, i)
    BY Zenon
  <2> HIDE DEF c
  <2>2. a[k].relocs[c].addr = r.addr
    <3> DEFINE x == a[k].relocs[c].addr
               y == r.addr
               z == a[k].records[1].addr
    <3>1. x - z = i - 1 /\ y - z = i - 1
      BY <2>1, Zenon DEF Here
    <3>2. x \in Word /\ y \in Word /\ z \in Word
      BY <1>1, <1>3, <1>4, <2>1 DEF Rlc, Rec
    <3>3. Word \subseteq Int
      BY LimitAssumption DEF Word
    <3> HIDE DEF x, y, z
    <3>4. x \in Int /\ y \in Int /\ z \in Int
      BY <3>2, <3>3
    <3>5. x = y
      BY <3>1, <3>4
    <3>6. QED
      BY <3>5 DEF x, y
  <2>3. a[k].relocs[c].span = r.span
    BY <1>3, <2>1, <2>2 DEF Plain
  <2>4. QED
    BY <2>3 DEF Span, c
<1>7. w \in 0 .. Limit - 1
  <2>1. Contract!Contents(a[k]) \in Seq(Word)
    BY BearingTypes
  <2>2. w \in Word
    BY <2>1
  <2>3. QED
    BY <2>2 DEF Word
<1>8. HereUpto(a, k, i, n + 1) = U \cup {n + 1} /\ n + 1 \notin U /\ IsFiniteSet(U)
  <2>1. \A j \in Here(a, k, i) : j <= n + 1 <=> j <= n \/ j = n + 1
    BY <1>3
  <2>2. ~(n + 1 <= n)
    OBVIOUS
  <2>3. HereUpto(a, k, i, n + 1) = U \cup {n + 1} /\ n + 1 \notin U
    BY <2>1, <2>2, Zenon DEF HereUpto
  <2>4. U \subseteq 1 .. Len(a[k].relocs)
    BY <1>2, <1>3 DEF HereUpto
  <2>5. IsFiniteSet(1 .. Len(a[k].relocs))
    BY <1>2, FS_Interval, SMTT(30)
  <2>6. QED
    BY <2>3, <2>4, <2>5, FS_Subset
<1>9. \A j \in U : f[j] \in Int
  <2>1. \A j \in U : j \in Here(a, k, i) /\ j <= n + 1
    BY <1>3 DEF HereUpto
  <2>2. QED
    BY <2>1 DEF Adj
<1>10. f[n + 1] = t /\ t \in Int
  BY <1>3 DEF Adj
<1>11. sum \in Int /\ Contract!SumFunctionOnSet(f, U \cup {n + 1}) = sum + t
  <2> HIDE DEF f, U, t
  <2>1. sum \in Int
    BY <1>8, <1>9, SumAdd
  <2>2. Contract!SumFunctionOnSet(f, U \cup {n + 1}) = sum + f[n + 1]
    BY <1>8, <1>9, <1>10, SumAdd
  <2>3. QED
    BY <1>10, <2>1, <2>2
<1>12. LinkedUpto(a, k, i, n + 1) = WithField(s, w, sum + t)
  <2>1. HereUpto(a, k, i, n + 1) # {}
    BY <1>8
  <2>2. Contract!SumFunctionOnSet(Adj(a, k, i), HereUpto(a, k, i, n + 1)) = sum + t
    BY <1>8, <1>11, Zenon
  <2>3. QED
    BY <1>6, <2>1, <2>2, Zenon DEF LinkedUpto, WithField
<1>13. dest = WithField(s, w, sum)
  <2>1. CASE U = {}
    <3>1. sum = 0
      BY <2>1, SumChoice, FS_EmptySet
    <3>2. dest = w
      BY <2>1, Zenon DEF LinkedUpto
    <3>3. w \in Int /\ w % s \in Int
      <4>1. w \in Int
        BY <1>7
      <4> HIDE DEF w, s
      <4>2. w % s \in 0 .. s - 1
        BY <1>5, <4>1, DivMod, Zenon
      <4>3. QED
        BY <1>5, <4>1, <4>2
    <3> HIDE DEF w, s, sum
    <3>4. w + sum = w
      BY <3>1, <3>3
    <3>5. w = (w - (w % s)) + (w % s)
      BY <3>3
    <3>6. QED
      BY <3>2, <3>4, <3>5 DEF WithField
  <2>2. CASE U # {}
    BY <1>6, <2>2, Zenon DEF LinkedUpto, WithField
  <2>3. QED
    BY <2>1, <2>2
<1> HIDE DEF w, s, sum, t
<1>15. PICK q \in Nat : Limit = q * s
  BY <1>5
<1>16. PlusField(Limit, s, dest, v) = WithField(s, w, sum + t)
  <2>1. Limit \in Nat \ {0}
    BY LimitAssumption
  <2>2. t \in Int /\ sum \in Int
    BY <1>10, <1>11
  <2>3. s \in Nat \ {0}
    BY <1>5
  <2>4. SameField(s, v, t)
    BY DEF s, t
  <2>5. PlusField(Limit, s, WithField(s, w, sum), v) = WithField(s, w, sum + t)
    BY <2>1, <2>2, <2>3, <2>4, <1>7, <1>15, FieldAdds
  <2>6. QED
    BY <2>5, <1>13
<1>17. QED
  BY <1>12, <1>16 DEF s

\* In a field, a number and what is left of it in a word are the same.
LEMMA ReducedPlus ==
  ASSUME NEW s \in Nat \ {0}, NEW q \in Nat, Limit = q * s, NEW v \in Int, NEW x \in Int
  PROVE  SameField(s, v + (x % Limit), v + x)
<1>1. Limit \in Nat \ {0}
  BY LimitAssumption
<1>2. PICK c \in Int : x % Limit = s * c + x
  BY <1>1, Reduced
<1> DEFINE y == x % Limit
           z == s * c
<1>3. z \in Int
  OBVIOUS
<1> HIDE DEF y
<1>4. v + y = s * c + (v + x)
  <2>1. y = z + x
    BY <1>2 DEF y
  <2> HIDE DEF z
  <2>2. v + y = z + (v + x)
    BY <1>3, <2>1
  <2>3. QED
    BY <2>2 DEF z
<1>5. (s * c + (v + x)) % s = (v + x) % s
  <2>1. v + x \in Int
    OBVIOUS
  <2>2. QED
    BY <2>1, ModPlus
<1>6. (v + y) % s = (v + x) % s
  BY <1>4, <1>5
<1>7. QED
  BY <1>6 DEF SameField, y

\* The same of a number that is subtracted.
LEMMA ReducedMinus ==
  ASSUME NEW s \in Nat \ {0}, NEW q \in Nat, Limit = q * s, NEW x \in Int
  PROVE  SameField(s, (-(x % Limit)) % Limit, -x)
<1>1. Limit \in Nat \ {0}
  BY LimitAssumption
<1>2. PICK c \in Int : x % Limit = s * c + x
  BY <1>1, Reduced
<1> DEFINE y == -(x % Limit)
           z == s * c
<1>3. z \in Int /\ s * (-c) = -z /\ -c \in Int /\ -x \in Int
  BY <1>2, Z3
<1>4. y = s * (-c) + (-x) /\ y \in Int
  <2>1. x % Limit = z + x
    BY <1>2
  <2> HIDE DEF z
  <2>2. QED
    BY <1>3, <2>1
<1> HIDE DEF y
<1>5. y % s = (-x) % s
  <2> DEFINE b == -c
             u == -x
  <2>1. b \in Int /\ u \in Int /\ y = s * b + u
    BY <1>3, <1>4
  <2> HIDE DEF b, u
  <2>2. y % s = u % s
    BY <2>1, ModPlus
  <2>3. QED
    BY <2>2 DEF u
<1>6. PICK d \in Int : y % Limit = s * d + y
  BY <1>1, <1>4, Reduced
<1>7. (y % Limit) % s = y % s
  <2>1. y \in Int
    BY <1>4
  <2>2. (s * d + y) % s = y % s
    BY <2>1, ModPlus
  <2> DEFINE r == y % Limit
             t == s * d + y
  <2>3. r = t
    BY <1>6
  <2>4. t % s = y % s
    BY <2>2
  <2> HIDE DEF r, t
  <2>5. r % s = y % s
    BY <2>3, <2>4
  <2>6. QED
    BY <2>5 DEF r
<1>8. QED
  BY <1>5, <1>7 DEF SameField, y

\* What the hypothesis on the command lines says of one of them.
Fitting(a) ==
  \A k \in Contract!Bearing(a) :
    Plain(a[k]) /\ Contract!Base(a, k) + Len(Contract!Contents(a[k])) <= Limit

\* Regular says it of every one of them.
LEMMA RegularFits ==
  ASSUME Regular, NEW a, Readable(a)
  PROVE  Fitting(a)
  BY DEF Regular, Readable, Fitting

-----------------------------------------------------------------------------
(* The first pass, as far as the object before node.                       *)

Based(a, n, m) ==
  \A k \in Contract!Bearing(a) : k < n => m[k] = Contract!Base(a, k) % Limit

Earlier(a, name, n) == {d \in Contract!Definitions(a, name) : d[1] < n}

DefinedAs(a, d, e) ==
  /\ e.obj = d[1]
  /\ e.reladdr = a[d[1]].symbols[d[2]].value
  /\ e.absolute = a[d[1]].symbols[d[2]].absolute

Defined(a, n, df) ==
  \A name :
    /\ name \in DOMAIN df => \E d : Earlier(a, name, n) = {d} /\ DefinedAs(a, d, df[name])
    /\ name \notin DOMAIN df => Earlier(a, name, n) = {}

\* Every definition is in an object before the end of the list.
LEMMA EarlierAll ==
  ASSUME NEW a, Readable(a), NEW name
  PROVE  Earlier(a, name, Len(a) + 1) = Contract!Definitions(a, name)
<1>1. \A d \in Contract!Definitions(a, name) : d[1] < Len(a) + 1
  <2> TAKE d \in Contract!Definitions(a, name)
  <2>1. d[1] \in Contract!Bearing(a)
    BY DefinitionTypes
  <2>2. d[1] \in 1 .. Len(a) /\ Len(a) \in Nat
    BY <2>1, ReadableTypes
  <2>3. QED
    BY <2>2
<1>2. QED
  BY <1>1, Zenon DEF Earlier

\* The definitions up to an object, and those in it.
LEMMA EarlierNext ==
  ASSUME NEW a, Readable(a), NEW name, NEW n \in 1 .. Len(a)
  PROVE  \A d : d \in Earlier(a, name, n + 1)
                 <=> \/ d \in Earlier(a, name, n)
                     \/ d \in Contract!Definitions(a, name) /\ d[1] = n
<1>1. \A d \in Contract!Definitions(a, name) : d[1] < n + 1 <=> d[1] < n \/ d[1] = n
  <2> TAKE d \in Contract!Definitions(a, name)
  <2>1. d[1] \in Contract!Bearing(a)
    BY DefinitionTypes
  <2>2. d[1] \in 1 .. Len(a) /\ Len(a) \in Nat
    BY <2>1, ReadableTypes
  <2>3. QED
    BY <2>2
<1>2. QED
  BY <1>1, Zenon DEF Earlier

\* An object without a record defines nothing.
LEMMA DefinedSkip ==
  ASSUME NEW a, Readable(a), NEW n \in 1 .. Len(a), n \notin Contract!Bearing(a),
         NEW df, Defined(a, n, df)
  PROVE  Defined(a, n + 1, df)
<1>1. ASSUME NEW name
      PROVE  Earlier(a, name, n + 1) = Earlier(a, name, n)
  <2>1. \A d \in Contract!Definitions(a, name) : d[1] # n
    <3> TAKE d \in Contract!Definitions(a, name)
    <3>1. d[1] \in Contract!Bearing(a)
      BY DefinitionTypes
    <3>2. QED
      BY <3>1
  <2>2. \A d : d \in Earlier(a, name, n + 1) <=> d \in Earlier(a, name, n)
    BY <2>1, EarlierNext, Zenon
  <2>3. QED
    BY <2>2 DEF Earlier
<1>2. QED
  BY <1>1, Zenon DEF Defined

\* The symbols of an object join those of the objects before it.
LEMMA DefinedNext ==
  ASSUME NEW a, Readable(a), NEW n \in Contract!Bearing(a),
         Defined(a, n, defns), ~Duplicate(a[n])
  PROVE  Defined(a, n + 1, Define(n, a[n]))
<1> DEFINE o == a[n]
           new(name) == {d \in Contract!Definitions(a, name) : d[1] = n}
           at(name) == CHOOSE j \in DOMAIN o.symbols : o.symbols[j].name = name
           df == Define(n, o)
<1>1. n \in 1 .. Len(a)
  BY ReadableTypes
<1>2. ASSUME NEW name
      PROVE  \A d : d \in Earlier(a, name, n + 1) <=> d \in Earlier(a, name, n) \/ d \in new(name)
  <2>1. \A d : d \in new(name) <=> d \in Contract!Definitions(a, name) /\ d[1] = n
    OBVIOUS
  <2> HIDE DEF new
  <2>2. QED
    BY <1>1, <2>1, EarlierNext, Zenon
<1>3. ASSUME NEW name, NEW d \in new(name)
      PROVE  /\ d[2] \in DOMAIN o.symbols /\ o.symbols[d[2]].name = name /\ d = <<n, d[2]>>
             /\ name \in SymNames(o)
  <2>1. d \in Contract!Definitions(a, name) /\ d[1] = n
    BY <1>3
  <2>2. d[2] \in DOMAIN a[d[1]].symbols /\ a[d[1]].symbols[d[2]].name = name /\ d = <<d[1], d[2]>>
    BY <2>1, DefinitionTypes
  <2>3. QED
    BY <2>1, <2>2 DEF SymNames
<1>4. /\ SymNames(o) \cap DOMAIN defns = {}
      /\ \A i, j \in DOMAIN o.symbols : o.symbols[i].name = o.symbols[j].name => i = j
  BY Zenon DEF Duplicate
<1>5. DOMAIN df = DOMAIN defns \cup SymNames(o)
  BY DEF Define
<1>6. ASSUME NEW name \in DOMAIN defns
      PROVE  \E d : Earlier(a, name, n + 1) = {d} /\ DefinedAs(a, d, df[name])
  <2>1. df[name] = defns[name]
    BY <1>6, Zenon DEF Define
  <2>2. PICK d : Earlier(a, name, n) = {d} /\ DefinedAs(a, d, defns[name])
    BY <1>6, Zenon DEF Defined
  <2>3. new(name) = {}
    BY <1>3, <1>4, <1>6
  <2> HIDE DEF new
  <2>4. Earlier(a, name, n + 1) = {d}
    BY <1>2, <2>2, <2>3
  <2>5. QED
    BY <2>1, <2>2, <2>4, Zenon
<1>7. ASSUME NEW name \in SymNames(o)
      PROVE  \E d : Earlier(a, name, n + 1) = {d} /\ DefinedAs(a, d, df[name])
  <2> DEFINE j == at(name)
             d == <<n, j>>
  <2>1. name \notin DOMAIN defns
    BY <1>4, <1>7
  <2>2. j \in DOMAIN o.symbols /\ o.symbols[j].name = name
    BY <1>7 DEF SymNames
  <2>3. df[name] = [obj |-> n, reladdr |-> o.symbols[j].value, absolute |-> o.symbols[j].absolute]
    BY <1>7, <2>1, Zenon DEF Define
  <2> HIDE DEF j
  <2>4. Earlier(a, name, n) = {}
    BY <2>1, Zenon DEF Defined
  <2>5. d \in Contract!Definitions(a, name)
    BY <2>2, DefinitionIs
  <2>6. d \in new(name)
    BY <2>5
  <2>7. \A e \in new(name) : e = d
    <3> TAKE e \in new(name)
    <3>1. e[2] \in DOMAIN o.symbols /\ o.symbols[e[2]].name = name /\ e = <<n, e[2]>>
      BY <1>3
    <3>2. e[2] = j
      BY <1>4, <2>2, <3>1, Zenon
    <3>3. QED
      BY <3>1, <3>2
  <2> HIDE DEF new
  <2>8. Earlier(a, name, n + 1) = {d}
    BY <1>2, <2>4, <2>6, <2>7
  <2>9. DefinedAs(a, d, df[name])
    <3>1. d[1] = n /\ d[2] = j
      OBVIOUS
    <3>2. df[name].obj = n
      BY <2>3
    <3>3. df[name].reladdr = o.symbols[j].value
      BY <2>3
    <3>4. df[name].absolute = o.symbols[j].absolute
      BY <2>3
    <3>5. QED
      BY <3>1, <3>2, <3>3, <3>4, Zenon DEF DefinedAs
  <2>10. QED
    BY <2>8, <2>9, Zenon
<1>8. ASSUME NEW name, name \notin DOMAIN df PROVE Earlier(a, name, n + 1) = {}
  <2>1. name \notin DOMAIN defns /\ name \notin SymNames(o)
    BY <1>5, <1>8
  <2>2. new(name) = {}
    BY <1>3, <2>1
  <2>3. Earlier(a, name, n) = {}
    BY <2>1, Zenon DEF Defined
  <2> HIDE DEF new
  <2>4. QED
    BY <1>2, <2>2, <2>3
<1> HIDE DEF df
<1>9. ASSUME NEW name, name \in DOMAIN df
      PROVE  \E d : Earlier(a, name, n + 1) = {d} /\ DefinedAs(a, d, df[name])
  <2>1. name \in DOMAIN defns \/ name \in SymNames(o)
    BY <1>5, <1>9
  <2>2. QED
    BY <1>6, <1>7, <2>1, Zenon
<1>10. Defined(a, n + 1, df)
  BY <1>8, <1>9, Zenon DEF Defined
<1>11. QED
  BY <1>10, Zenon DEF df

\* A symbol defined twice makes a command line unlinkable.
LEMMA DuplicateUnlinkable ==
  ASSUME NEW a, Readable(a), NEW n \in Contract!Bearing(a),
         Defined(a, n, defns), Duplicate(a[n])
  PROVE  ~Contract!Linkable(a)
<1> DEFINE o == a[n]
<1> SUFFICES ASSUME Contract!Linkable(a) PROVE FALSE
  OBVIOUS
<1>1. \A j \in DOMAIN o.symbols : Contract!Definitions(a, o.symbols[j].name) = {<<n, j>>}
  BY Zenon DEF Contract!Linkable
<1>2. CASE \E i, j \in DOMAIN o.symbols : i # j /\ o.symbols[i].name = o.symbols[j].name
  <2>1. PICK i \in DOMAIN o.symbols, j \in DOMAIN o.symbols :
          i # j /\ o.symbols[i].name = o.symbols[j].name
    BY <1>2
  <2>2. \A x, y : x = y => Contract!Definitions(a, x) = Contract!Definitions(a, y)
    BY Zenon
  <2>3. <<n, i>> \in Contract!Definitions(a, o.symbols[i].name)
    BY <1>1, <2>1
  <2>4. <<n, i>> \in Contract!Definitions(a, o.symbols[j].name)
    BY <2>1, <2>2, <2>3, Zenon
  <2>5. <<n, i>> \in {<<n, j>>}
    BY <1>1, <2>1, <2>4, Zenon
  <2>6. QED
    BY <2>1, <2>5
<1>3. CASE SymNames(o) \cap DOMAIN defns # {}
  <2>1. PICK j \in DOMAIN o.symbols : o.symbols[j].name \in DOMAIN defns
    BY <1>3 DEF SymNames
  <2>2. PICK d : Earlier(a, o.symbols[j].name, n) = {d}
    BY <2>1, Zenon DEF Defined
  <2>3. d \in Contract!Definitions(a, o.symbols[j].name) /\ d[1] < n
    BY <2>2 DEF Earlier
  <2>4. d = <<n, j>>
    BY <1>1, <2>3
  <2>5. n \in Int
    <3>1. n \in 1 .. Len(a) /\ Len(a) \in Nat
      BY ReadableTypes
    <3>2. QED
      BY <3>1
  <2>6. QED
    BY <2>3, <2>4, <2>5
<1>4. QED
  BY <1>2, <1>3, Zenon DEF Duplicate

\* When the first pass is through, every symbol has its one definition.
LEMMA DefinedOnce ==
  ASSUME NEW a, Readable(a), NEW df, Defined(a, Len(a) + 1, df),
         NEW k \in Contract!Bearing(a), NEW j \in DOMAIN a[k].symbols
  PROVE  Contract!Definitions(a, a[k].symbols[j].name) = {<<k, j>>}
<1> DEFINE name == a[k].symbols[j].name
<1>1. <<k, j>> \in Contract!Definitions(a, name)
  BY DefinitionIs
<1>2. Earlier(a, name, Len(a) + 1) = Contract!Definitions(a, name)
  BY EarlierAll
<1> HIDE DEF name
<1>3. Contract!Definitions(a, name) = {} \/ \E d : Contract!Definitions(a, name) = {d}
  BY <1>2, Zenon DEF Defined
<1>4. Contract!Definitions(a, name) = {<<k, j>>}
  BY <1>1, <1>3
<1>5. QED
  BY <1>4 DEF name

-----------------------------------------------------------------------------
(* The second pass.                                                        *)

\* What the second pass knows when it starts.
LaidOut(a) ==
  /\ Readable(a) /\ Fitting(a)
  /\ Based(a, Len(a) + 1, meta) /\ Defined(a, Len(a) + 1, defns)

\* The objects with a record are before the end, at numbers.
LEMMA BaseInt ==
  ASSUME NEW a, Readable(a), NEW k \in Contract!Bearing(a)
  PROVE  Contract!Base(a, k) \in Int /\ k < Len(a) + 1
<1>1. k \in 1 .. Len(a) /\ Len(a) \in Nat
  BY BearingTypes, ReadableTypes
<1>2. k \in 1 .. Len(a) + 1 /\ k < Len(a) + 1
  BY <1>1
<1>3. Contract!Base(a, k) \in Nat
  BY <1>2, BaseNat
<1>4. QED
  BY <1>2, <1>3

\* The offset of an object is where it begins, reduced to a word.
LEMMA MetaIs ==
  ASSUME NEW a, LaidOut(a), NEW k \in Contract!Bearing(a)
  PROVE  meta[k] = Contract!Base(a, k) % Limit
<1>1. k < Len(a) + 1
  BY BaseInt DEF LaidOut
<1>2. QED
  BY <1>1 DEF LaidOut, Based

\* What a relocation adds is what the contract adds, in the field.
LEMMA ReladdrIs ==
  ASSUME TypeInv, NEW a, objs = a, LaidOut(a), AtReloc, ~Missing
  PROVE  reladdr \in Int /\ SameField(rlc.span, reladdr, Contract!Adjustment(a, node, rlc))
<1> DEFINE s == rlc.span
           base(k) == Contract!Base(a, k)
           t == Contract!Adjustment(a, node, rlc)
<1>1. /\ node \in Contract!Bearing(a) /\ a[node] \in Obj
      /\ inner \in DOMAIN a[node].relocs /\ rlc = a[node].relocs[inner] /\ rlc \in Rlc
  <2>1. node \in 1 .. Len(a) /\ a[node].records # << >>
    BY DEF AtReloc, Relocating, TypeInv, TypeOK
  <2>2. node \in Contract!Bearing(a)
    BY <2>1, ReadableTypes DEF LaidOut
  <2>3. a[node] \in Obj
    BY <2>1, ReadableTypes DEF LaidOut
  <2>4. a[node].relocs \in Seq(Rlc)
    BY <2>3 DEF Obj
  <2>5. inner \in 1 .. Len(a[node].relocs)
    BY <2>4 DEF AtReloc, TypeInv, TypeOK
  <2>6. rlc = a[node].relocs[inner]
    BY DEF rlc
  <2>7. QED
    BY <2>2, <2>3, <2>4, <2>5, <2>6
<1>2. s \in Nat \ {0} /\ \E q \in Nat : Limit = q * s
  BY <1>1, SpanDivides
<1>3. PICK q \in Nat : Limit = q * s
  BY <1>2
<1>4. \A k \in Contract!Bearing(a) : base(k) \in Int /\ meta[k] = base(k) % Limit /\ meta[k] \in Int
  <2> TAKE k \in Contract!Bearing(a)
  <2>1. base(k) \in Int
    BY BaseInt DEF LaidOut
  <2>2. meta[k] = base(k) % Limit
    BY MetaIs
  <2> HIDE DEF base
  <2>3. meta[k] \in Int
    <3>1. base(k) % Limit \in Word
      BY <2>1, ModWord
    <3>2. Word \subseteq Int
      BY LimitAssumption DEF Word
    <3>3. QED
      BY <2>2, <3>1, <3>2
  <2>4. QED
    BY <2>1, <2>2, <2>3
<1>5. t = IF rlc.negate THEN -Contract!Target(a, node, rlc) ELSE Contract!Target(a, node, rlc)
  BY Zenon DEF Contract!Adjustment
<1>6. CASE rlc.name = NoName
  <2>1. Contract!Target(a, node, rlc) = base(node)
    BY <1>6, Zenon DEF Contract!Target
  <2>2. base(node) \in Int /\ meta[node] = base(node) % Limit /\ meta[node] \in Int
    BY <1>1, <1>4
  <2>3. CASE rlc.negate
    <3>1. reladdr = (-meta[node]) % Limit
      BY <1>6, <2>3, Zenon DEF reladdr
    <3>2. t = -base(node)
      BY <1>5, <2>1, <2>3, Zenon
    <3> HIDE DEF base, t, s
    <3>3. reladdr \in Int
      <4>1. -meta[node] \in Int
        BY <2>2
      <4>2. (-meta[node]) % Limit \in Word
        BY <4>1, ModWord
      <4>3. Word \subseteq Int
        BY LimitAssumption DEF Word
      <4>4. QED
        BY <3>1, <4>2, <4>3, Zenon
    <3>4. SameField(s, (-(base(node) % Limit)) % Limit, -base(node))
      BY <1>2, <1>3, <2>2, ReducedMinus
    <3>5. SameField(s, reladdr, t)
      BY <2>2, <3>1, <3>2, <3>4, Zenon
    <3>6. QED
      BY <3>3, <3>5 DEF s, t
  <2>4. CASE ~rlc.negate
    <3>1. reladdr = meta[node]
      BY <1>6, <2>4, Zenon DEF reladdr
    <3>2. t = base(node)
      BY <1>5, <2>1, <2>4, Zenon
    <3> HIDE DEF base, t, s
    <3>3. SameField(s, 0 + (base(node) % Limit), 0 + base(node))
      <4>1. 0 \in Int
        OBVIOUS
      <4>2. QED
        BY <4>1, <1>2, <1>3, <2>2, ReducedPlus
    <3>4. 0 + (base(node) % Limit) = meta[node] /\ 0 + base(node) = base(node)
      BY <2>2
    <3>5. SameField(s, reladdr, t)
      BY <3>1, <3>2, <3>3, <3>4, Zenon
    <3>6. reladdr \in Int
      BY <2>2, <3>1
    <3>7. QED
      BY <3>5, <3>6 DEF s, t
  <2>5. QED
    BY <2>3, <2>4
<1>7. CASE rlc.name # NoName
  <2> DEFINE e == defns[rlc.name]
  <2>1. rlc.name \in DOMAIN defns
    BY <1>7 DEF Missing
  <2>2. PICK d : Earlier(a, rlc.name, Len(a) + 1) = {d} /\ DefinedAs(a, d, e)
    BY <2>1, Zenon DEF LaidOut, Defined
  <2>3. Contract!Definitions(a, rlc.name) = {d}
    BY <2>2, EarlierAll DEF LaidOut
  <2> DEFINE c == CHOOSE x \in Contract!Definitions(a, rlc.name) : TRUE
             y == a[d[1]].symbols[d[2]]
  <2>4. c = d
    <3>1. c \in Contract!Definitions(a, rlc.name)
      BY <2>3
    <3> HIDE DEF c
    <3>2. QED
      BY <2>3, <3>1
  <2>5. Contract!Target(a, node, rlc)
          = IF a[c[1]].symbols[c[2]].absolute THEN a[c[1]].symbols[c[2]].value
            ELSE base(c[1]) + a[c[1]].symbols[c[2]].value
    BY <1>7, Zenon DEF Contract!Target
  <2> HIDE DEF c
  <2>6. Contract!Target(a, node, rlc) = IF y.absolute THEN y.value ELSE base(d[1]) + y.value
    BY <2>4, <2>5, Zenon
  <2>7. d[1] \in Contract!Bearing(a) /\ y \in Sym
    <3>1. d \in Contract!Definitions(a, rlc.name)
      BY <2>3
    <3>2. Readable(a)
      BY DEF LaidOut
    <3>3. QED
      BY <3>1, <3>2, DefinitionTypes
  <2>8. e.obj = d[1] /\ e.reladdr = y.value /\ e.absolute = y.absolute
    BY <2>2, Zenon DEF DefinedAs
  <2> HIDE DEF y
  <2>9. y.value \in Int
    BY <2>7, SymValue
  <2>10. ~rlc.negate
    <3>1. Plain(a[node])
      BY <1>1 DEF LaidOut, Fitting
    <3>2. QED
      BY <1>1, <1>7, <3>1 DEF Plain
  <2>11. t = Contract!Target(a, node, rlc)
    BY <1>5, <2>10, Zenon
  <2>12. reladdr = IF e.absolute THEN e.reladdr ELSE e.reladdr + meta[e.obj]
    BY <1>7, Zenon DEF reladdr
  <2>13. base(d[1]) \in Int /\ meta[d[1]] = base(d[1]) % Limit /\ meta[d[1]] \in Int
    BY <1>4, <2>7
  <2> HIDE DEF base, t, s, e
  <2>14. CASE y.absolute
    <3>1. reladdr = y.value /\ t = y.value
      BY <2>6, <2>8, <2>11, <2>12, <2>14, Zenon
    <3>2. SameField(s, reladdr, t)
      BY <3>1, Zenon DEF SameField
    <3>3. QED
      BY <2>9, <3>1, <3>2 DEF s, t
  <2>15. CASE ~y.absolute
    <3>1. reladdr = y.value + meta[d[1]] /\ t = base(d[1]) + y.value
      BY <2>6, <2>8, <2>11, <2>12, <2>15, Zenon
    <3>2. t = y.value + base(d[1])
      BY <2>9, <2>13, <3>1
    <3>3. SameField(s, y.value + (base(d[1]) % Limit), y.value + base(d[1]))
      BY <1>2, <1>3, <2>9, <2>13, ReducedPlus
    <3>4. SameField(s, reladdr, t)
      BY <2>13, <3>1, <3>2, <3>3, Zenon
    <3>5. reladdr \in Int
      BY <2>9, <2>13, <3>1
    <3>6. QED
      BY <3>4, <3>5 DEF s, t
  <2>16. QED
    BY <2>14, <2>15
<1>8. QED
  BY <1>6, <1>7

\* How many relocations of object k are done when the pass is at relocation i
\* of object n, and what is known of the first m relocations and the words
\* that they patched.
Walked(a, n, i, k) == IF k < n THEN Len(a[k].relocs) ELSE IF k = n THEN i - 1 ELSE 0

RelocOK(a, k, j) ==
  /\ Len(a[k].records) = 1
  /\ Contract!InRecord(a[k], a[k].relocs[j]) /\ a[k].relocs[j].name # NoName
       => Contract!Definitions(a, a[k].relocs[j].name) # {}

Checked(a, k, m) == \A j \in DOMAIN a[k].relocs : j <= m => RelocOK(a, k, j)
PatchedBy(a, k, m, w) == \A i \in DOMAIN Contract!Contents(a[k]) : w[i] = LinkedUpto(a, k, i, m)

Patching(a, n, i, ws) ==
  \A k \in Contract!Bearing(a) :
    /\ Checked(a, k, Walked(a, n, i, k))
    /\ PatchedBy(a, k, Walked(a, n, i, k), ws[k])

\* Where the pass is.
LEMMA AtRelocIs ==
  ASSUME TypeInv, NEW a, objs = a, Readable(a), AtReloc
  PROVE  /\ node \in Contract!Bearing(a) /\ a[node] \in Obj
         /\ inner \in DOMAIN a[node].relocs /\ rlc = a[node].relocs[inner] /\ rlc \in Rlc
         /\ inner \in Nat \ {0} /\ node \in Nat
         /\ Offset = rlc.addr - a[node].records[1].addr /\ Offset \in Int
         /\ Size(node) = Len(Contract!Contents(a[node])) /\ Size(node) \in Nat
         /\ DOMAIN Contract!Contents(a[node]) = 1 .. Size(node)
         /\ words[node] \in Seq(Word) /\ DOMAIN words[node] = 1 .. Size(node)
<1>1. node \in 1 .. Len(a) /\ a[node].records # << >> /\ node \in Nat /\ inner \in Nat \ {0}
  BY DEF AtReloc, Relocating, TypeInv, TypeOK
<1>2. node \in Contract!Bearing(a) /\ a[node] \in Obj
  BY <1>1, ReadableTypes
<1>3. a[node].relocs \in Seq(Rlc)
  BY <1>2 DEF Obj
<1>4. inner \in 1 .. Len(a[node].relocs)
  BY <1>1, <1>3 DEF AtReloc
<1>5. inner \in DOMAIN a[node].relocs /\ rlc = a[node].relocs[inner] /\ rlc \in Rlc
  BY <1>3, <1>4 DEF rlc
<1>6. a[node].records[1] \in Rec /\ Contract!Contents(a[node]) = FirstWords(a[node])
      /\ Contract!Contents(a[node]) \in Seq(Word)
  BY <1>2, BearingTypes
<1>7. Offset = rlc.addr - a[node].records[1].addr
  BY DEF Offset, FirstRec
<1>8. Offset \in Int
  <2>1. rlc.addr \in Word /\ a[node].records[1].addr \in Word
    BY <1>5, <1>6 DEF Rlc, Rec
  <2>2. Word \subseteq Int
    BY LimitAssumption DEF Word
  <2>3. QED
    BY <1>7, <2>1, <2>2
<1>9. Size(node) = Len(Contract!Contents(a[node])) /\ Size(node) \in Nat
      /\ DOMAIN Contract!Contents(a[node]) = 1 .. Size(node)
  BY <1>6 DEF Size
<1>10. words[node] \in Seq(Word) /\ DOMAIN words[node] = 1 .. Size(node)
  <2>1. words \in Seq(Seq(Word)) /\ Len(words) = Len(a) /\ Len(words[node]) = Size(node)
    BY <1>1, SMTT(30) DEF TypeInv, TypeOK
  <2>2. words[node] \in Seq(Word)
    BY <1>1, <2>1
  <2>3. QED
    BY <2>1, <2>2
<1>11. QED
  BY <1>1, <1>2, <1>5, <1>7, <1>8, <1>9, <1>10

\* One more relocation is checked.
LEMMA CheckedNext ==
  ASSUME NEW a, NEW k, NEW i \in Nat \ {0}, DOMAIN a[k].relocs \subseteq Nat,
         Checked(a, k, i - 1), RelocOK(a, k, i)
  PROVE  Checked(a, k, i)
<1> SUFFICES ASSUME NEW j \in DOMAIN a[k].relocs, j <= i PROVE RelocOK(a, k, j)
  BY DEF Checked
<1>1. j <= i - 1 \/ j = i
  OBVIOUS
<1>2. QED
  BY <1>1 DEF Checked

\* The linker's offset is within the record when the contract says so.
LEMMA InRecordIs ==
  ASSUME TypeInv, NEW a, objs = a, Readable(a), AtReloc
  PROVE  Contract!InRecord(a[node], rlc) <=> Offset \in 0 .. Size(node) - 1
  BY AtRelocIs DEF Contract!InRecord

\* A relocation that patches no word.
LEMMA PatchNone ==
  ASSUME TypeInv, NEW a, objs = a, LaidOut(a), AtReloc, OneRecord,
         ~(Offset \in 0 .. Size(node) - 1),
         Checked(a, node, inner - 1), PatchedBy(a, node, inner - 1, words[node])
  PROVE  Checked(a, node, inner) /\ PatchedBy(a, node, inner, words[node])
<1>1. Readable(a)
  BY DEF LaidOut
<1>2. /\ node \in Contract!Bearing(a) /\ a[node] \in Obj
      /\ inner \in DOMAIN a[node].relocs /\ rlc = a[node].relocs[inner]
      /\ inner \in Nat \ {0} /\ Offset = rlc.addr - a[node].records[1].addr /\ Offset \in Int
      /\ Size(node) \in Nat /\ DOMAIN Contract!Contents(a[node]) = 1 .. Size(node)
  BY <1>1, AtRelocIs
<1>3. ~Contract!InRecord(a[node], rlc)
  BY <1>1, InRecordIs
<1>4. RelocOK(a, node, inner)
  BY <1>2, <1>3 DEF RelocOK, OneRecord
<1>5. Checked(a, node, inner)
  <2>1. DOMAIN a[node].relocs \subseteq Nat
    BY <1>2, SMTT(30) DEF Obj
  <2>2. QED
    BY <1>2, <1>4, <2>1, CheckedNext
<1>6. ASSUME NEW i \in DOMAIN Contract!Contents(a[node])
      PROVE  LinkedUpto(a, node, i, inner) = LinkedUpto(a, node, i, inner - 1)
  <2>1. inner \notin Here(a, node, i)
    <3>1. Offset # i - 1
      BY <1>2, <1>6
    <3>2. QED
      BY <1>2, <3>1, Zenon DEF Here
  <2>2. inner - 1 \in Nat /\ (inner - 1) + 1 = inner
    BY <1>2
  <2>3. LinkedUpto(a, node, i, (inner - 1) + 1) = LinkedUpto(a, node, i, inner - 1)
    BY <1>1, <1>2, <2>1, <2>2, LinkedSkip
  <2>4. QED
    BY <2>2, <2>3
<1>7. PatchedBy(a, node, inner, words[node])
  BY <1>6, Zenon DEF PatchedBy
<1>8. QED
  BY <1>5, <1>7

\* A relocation that patches one.
LEMMA PatchOne ==
  ASSUME TypeInv, NEW a, objs = a, LaidOut(a), AtReloc, OneRecord, ~Missing,
         Offset \in 0 .. Size(node) - 1,
         Checked(a, node, inner - 1), PatchedBy(a, node, inner - 1, words[node])
  PROVE  /\ Checked(a, node, inner)
         /\ PatchedBy(a, node, inner, [words[node] EXCEPT ![Offset + 1] = Patched(@)])
<1>1. Readable(a)
  BY DEF LaidOut
<1>2. /\ node \in Contract!Bearing(a) /\ a[node] \in Obj
      /\ inner \in DOMAIN a[node].relocs /\ rlc = a[node].relocs[inner]
      /\ inner \in Nat \ {0} /\ Offset = rlc.addr - a[node].records[1].addr /\ Offset \in Int
      /\ Size(node) \in Nat /\ DOMAIN Contract!Contents(a[node]) = 1 .. Size(node)
      /\ DOMAIN words[node] = 1 .. Size(node)
  BY <1>1, AtRelocIs
<1>3. rlc.name # NoName => Contract!Definitions(a, rlc.name) # {}
  <2> SUFFICES ASSUME rlc.name # NoName PROVE Contract!Definitions(a, rlc.name) # {}
    OBVIOUS
  <2>1. rlc.name \in DOMAIN defns
    BY DEF Missing
  <2>2. PICK d : Earlier(a, rlc.name, Len(a) + 1) = {d}
    BY <2>1, Zenon DEF LaidOut, Defined
  <2>3. QED
    BY <1>1, <2>2, EarlierAll
<1>4. RelocOK(a, node, inner)
  BY <1>2, <1>3 DEF RelocOK, OneRecord
<1>5. DOMAIN a[node].relocs \subseteq Nat
  BY <1>2, SMTT(30) DEF Obj
<1>6. Checked(a, node, inner)
  BY <1>2, <1>4, <1>5, CheckedNext
<1> DEFINE p == Offset + 1
           r == a[node].relocs[inner]
<1>7. p \in DOMAIN Contract!Contents(a[node]) /\ p - 1 = Offset /\ p \in DOMAIN words[node]
  BY <1>2
<1>8. inner - 1 \in Nat /\ (inner - 1) + 1 = inner
  BY <1>2
<1> HIDE DEF p
<1>9. ASSUME NEW i \in DOMAIN Contract!Contents(a[node]), i # p
      PROVE  LinkedUpto(a, node, i, inner) = LinkedUpto(a, node, i, inner - 1)
  <2>1. inner \notin Here(a, node, i)
    <3>1. Offset # i - 1
      BY <1>2, <1>9 DEF p
    <3>2. QED
      BY <1>2, <3>1, Zenon DEF Here
  <2>2. LinkedUpto(a, node, i, (inner - 1) + 1) = LinkedUpto(a, node, i, inner - 1)
    BY <1>1, <1>2, <1>8, <2>1, LinkedSkip
  <2>3. QED
    BY <1>8, <2>2
<1>10. LinkedUpto(a, node, p, inner) = PlusField(Limit, rlc.span, words[node][p], reladdr)
  <2>1. (inner - 1) + 1 \in Here(a, node, p)
    BY <1>2, <1>7, <1>8 DEF Here
  <2>2. \A j \in Here(a, node, p) :
          j <= inner => Contract!Adjustment(a, node, a[node].relocs[j]) \in Int
    <3> TAKE j \in Here(a, node, p)
    <3> HAVE j <= inner
    <3>1. j \in DOMAIN a[node].relocs /\ a[node].relocs[j].addr - a[node].records[1].addr = Offset
      BY <1>7 DEF Here
    <3>2. RelocOK(a, node, j)
      BY <1>6, <3>1, Zenon DEF Checked
    <3>3. Contract!InRecord(a[node], a[node].relocs[j])
      <4>1. Offset \in 0 .. Len(Contract!Contents(a[node])) - 1
        BY <1>1, AtRelocIs
      <4>2. QED
        BY <3>1, <4>1 DEF Contract!InRecord
    <3>4. a[node].relocs[j].name = NoName \/ Contract!Definitions(a, a[node].relocs[j].name) # {}
      BY <3>2, <3>3, Zenon DEF RelocOK
    <3>5. QED
      BY <1>1, <1>2, <3>4, TargetInt
  <2>3. reladdr \in Int /\ SameField(r.span, reladdr, Contract!Adjustment(a, node, r))
    BY <1>2, ReladdrIs
  <2>4. Plain(a[node])
    BY <1>2 DEF LaidOut, Fitting
  <2>5. words[node][p] = LinkedUpto(a, node, p, inner - 1)
    BY <1>7 DEF PatchedBy
  <2> DEFINE n == inner - 1
             v == reladdr
             dest == words[node][p]
  <2>6. n \in Nat /\ n + 1 = inner
    BY <1>8
  <2>7. n + 1 \in Here(a, node, p) /\ dest = LinkedUpto(a, node, p, n)
        /\ \A j \in Here(a, node, p) :
             j <= n + 1 => Contract!Adjustment(a, node, a[node].relocs[j]) \in Int
    BY <2>1, <2>2, <2>5, <2>6
  <2>8. /\ v \in Int
        /\ SameField(a[node].relocs[n + 1].span, v,
                     Contract!Adjustment(a, node, a[node].relocs[n + 1]))
    BY <2>3, <2>6
  <2> HIDE DEF n, v, dest
  <2>9. LinkedUpto(a, node, p, n + 1) = PlusField(Limit, a[node].relocs[n + 1].span, dest, v)
    BY <1>1, <1>2, <1>7, <2>4, <2>6, <2>7, <2>8, LinkedNext, SMTT(30)
  <2>10. QED
    BY <1>2, <2>6, <2>9, Zenon DEF v, dest
<1>11. Patched(words[node][p]) = PlusField(Limit, rlc.span, words[node][p], reladdr)
  BY Zenon DEF Patched, PlusField
<1>12. ASSUME NEW i \in DOMAIN Contract!Contents(a[node])
       PROVE  [words[node] EXCEPT ![p] = Patched(@)][i] = LinkedUpto(a, node, i, inner)
  <2>1. i \in DOMAIN words[node]
    BY <1>2, <1>12
  <2>2. CASE i = p
    BY <1>10, <1>11, <2>1, <2>2, Zenon
  <2>3. CASE i # p
    <3>1. [words[node] EXCEPT ![p] = Patched(@)][i] = words[node][i]
      BY <2>1, <2>3, Zenon
    <3>2. words[node][i] = LinkedUpto(a, node, i, inner - 1)
      BY <1>12 DEF PatchedBy
    <3>3. QED
      BY <1>9, <2>3, <3>1, <3>2, Zenon
  <2>4. QED
    BY <2>2, <2>3, Zenon
<1>13. PatchedBy(a, node, inner, [words[node] EXCEPT ![p] = Patched(@)])
  BY <1>12, Zenon DEF PatchedBy
<1>14. QED
  BY <1>6, <1>13 DEF p

\* Once every relocation of an object is done, its words are the contract's.
LEMMA LinkedBeyond ==
  ASSUME NEW a, Readable(a), NEW k \in Contract!Bearing(a), NEW i,
         NEW m \in Nat, m >= Len(a[k].relocs)
  PROVE  LinkedUpto(a, k, i, m) = LinkedUpto(a, k, i, Len(a[k].relocs))
<1>1. a[k] \in Obj
  BY BearingTypes
<1>2. DOMAIN a[k].relocs = 1 .. Len(a[k].relocs) /\ Len(a[k].relocs) \in Nat
  BY <1>1 DEF Obj
<1>3. \A j \in Here(a, k, i) : j <= m <=> j <= Len(a[k].relocs)
  BY <1>2 DEF Here
<1>4. HereUpto(a, k, i, m) = HereUpto(a, k, i, Len(a[k].relocs))
  BY <1>3, Zenon DEF HereUpto
<1>5. QED
  BY <1>4, Zenon DEF LinkedUpto

\* The second pass starts with the words of the files.
LEMMA PatchingStarts ==
  ASSUME NEW a, Readable(a), NEW ws, \A k \in 1 .. Len(a) : ws[k] = FirstWords(a[k])
  PROVE  Patching(a, 1, 1, ws)
<1> SUFFICES ASSUME NEW k \in Contract!Bearing(a)
             PROVE  Checked(a, k, Walked(a, 1, 1, k)) /\ PatchedBy(a, k, Walked(a, 1, 1, k), ws[k])
  BY Zenon DEF Patching
<1>1. k \in 1 .. Len(a) /\ a[k] \in Obj /\ Contract!Contents(a[k]) = FirstWords(a[k]) /\ Len(a) \in Nat
  BY BearingTypes, ReadableTypes
<1>2. Walked(a, 1, 1, k) = 0
  BY <1>1 DEF Walked
<1>3. DOMAIN a[k].relocs = 1 .. Len(a[k].relocs)
  BY <1>1 DEF Obj
<1>4. Checked(a, k, 0)
  BY <1>3 DEF Checked
<1>5. ws[k] = Contract!Contents(a[k])
  BY <1>1
<1>6. PatchedBy(a, k, 0, ws[k])
  <2> SUFFICES ASSUME NEW i \in DOMAIN Contract!Contents(a[k]) PROVE ws[k][i] = LinkedUpto(a, k, i, 0)
    BY DEF PatchedBy
  <2>1. LinkedUpto(a, k, i, 0) = Contract!Contents(a[k])[i]
    BY LinkedNone
  <2>2. QED
    BY <1>5, <2>1, Zenon
<1>7. QED
  BY <1>2, <1>4, <1>6, Zenon

\* It goes on to the next object.
LEMMA PatchingNext ==
  ASSUME NEW a, Readable(a), NEW n \in Nat, NEW i \in Nat \ {0}, NEW ws, Patching(a, n, i, ws),
         n \in Contract!Bearing(a) => i > Len(a[n].relocs)
  PROVE  Patching(a, n + 1, 1, ws)
<1> SUFFICES ASSUME NEW k \in Contract!Bearing(a)
             PROVE  /\ Checked(a, k, Walked(a, n + 1, 1, k))
                    /\ PatchedBy(a, k, Walked(a, n + 1, 1, k), ws[k])
  BY Zenon DEF Patching
<1>1. k \in 1 .. Len(a) /\ a[k] \in Obj /\ Len(a) \in Nat
  BY BearingTypes, ReadableTypes
<1>2. DOMAIN a[k].relocs = 1 .. Len(a[k].relocs) /\ Len(a[k].relocs) \in Nat
  BY <1>1 DEF Obj
<1>3. Checked(a, k, Walked(a, n, i, k)) /\ PatchedBy(a, k, Walked(a, n, i, k), ws[k])
  BY Zenon DEF Patching
<1>4. CASE k # n
  <2>1. Walked(a, n + 1, 1, k) = Walked(a, n, i, k)
    BY <1>1, <1>4 DEF Walked
  <2>2. QED
    BY <1>3, <2>1, Zenon
<1>5. CASE k = n
  <2>1. Walked(a, n + 1, 1, k) = Len(a[k].relocs) /\ Walked(a, n, i, k) = i - 1
    BY <1>1, <1>5 DEF Walked
  <2>2. i - 1 \in Nat /\ i - 1 >= Len(a[k].relocs)
    BY <1>2, <1>5
  <2>3. Checked(a, k, Len(a[k].relocs))
    <3>1. Checked(a, k, i - 1)
      BY <1>3, <2>1, Zenon
    <3>2. \A j \in DOMAIN a[k].relocs : j <= i - 1
      BY <1>2, <2>2
    <3>3. QED
      BY <3>1, <3>2, Zenon DEF Checked
  <2>4. PatchedBy(a, k, Len(a[k].relocs), ws[k])
    <3> SUFFICES ASSUME NEW x \in DOMAIN Contract!Contents(a[k])
                 PROVE  ws[k][x] = LinkedUpto(a, k, x, Len(a[k].relocs))
      BY DEF PatchedBy
    <3>1. PatchedBy(a, k, i - 1, ws[k])
      BY <1>3, <2>1, Zenon
    <3>2. ws[k][x] = LinkedUpto(a, k, x, i - 1)
      BY <3>1, Zenon DEF PatchedBy
    <3>3. LinkedUpto(a, k, x, i - 1) = LinkedUpto(a, k, x, Len(a[k].relocs))
      BY <2>2, LinkedBeyond
    <3>4. QED
      BY <3>2, <3>3, Zenon
  <2>5. QED
    BY <2>1, <2>3, <2>4, Zenon
<1>6. QED
  BY <1>4, <1>5

\* It moves on within an object.
LEMMA PatchingStep ==
  ASSUME NEW a, Readable(a), NEW n \in Contract!Bearing(a), NEW i \in Nat \ {0}, NEW ws,
         Patching(a, n, i, ws), NEW vs, \A k \in Contract!Bearing(a) : k # n => vs[k] = ws[k],
         Checked(a, n, i), PatchedBy(a, n, i, vs[n])
  PROVE  Patching(a, n, i + 1, vs)
<1> SUFFICES ASSUME NEW k \in Contract!Bearing(a)
             PROVE  /\ Checked(a, k, Walked(a, n, i + 1, k))
                    /\ PatchedBy(a, k, Walked(a, n, i + 1, k), vs[k])
  BY Zenon DEF Patching
<1>1. CASE k # n
  <2>1. Walked(a, n, i + 1, k) = Walked(a, n, i, k)
    BY <1>1, Zenon DEF Walked
  <2>2. Checked(a, k, Walked(a, n, i, k)) /\ PatchedBy(a, k, Walked(a, n, i, k), ws[k])
    BY Zenon DEF Patching
  <2>3. vs[k] = ws[k]
    BY <1>1
  <2>4. QED
    BY <2>1, <2>2, <2>3, Zenon
<1>2. CASE k = n
  <2>1. Walked(a, n, i + 1, n) = i
    <3>1. n \in 1 .. Len(a)
      BY BearingTypes
    <3>2. ~(n < n) /\ (i + 1) - 1 = i
      BY <3>1
    <3>3. QED
      BY <3>2 DEF Walked
  <2>2. QED
    BY <1>2, <2>1, Zenon
<1>3. QED
  BY <1>1, <1>2

AllLinked(a, ws) ==
  \A k \in Contract!Bearing(a) :
    \A i \in DOMAIN Contract!Contents(a[k]) : ws[k][i] = Contract!Linked(a, k, i)

\* It is through: the command line links, and every word is the contract's.
LEMMA PatchingEnds ==
  ASSUME NEW a, LaidOut(a), NEW n \in Nat, n > Len(a), NEW i, NEW ws, Patching(a, n, i, ws)
  PROVE  Contract!Linkable(a) /\ AllLinked(a, ws)
<1>1. Readable(a) /\ Len(a) \in Nat
  BY ReadableTypes DEF LaidOut
<1>2. ASSUME NEW k \in Contract!Bearing(a)
      PROVE  Checked(a, k, Len(a[k].relocs)) /\ PatchedBy(a, k, Len(a[k].relocs), ws[k])
  <2>1. k < n
    <3>1. k \in 1 .. Len(a)
      BY <1>1, BearingTypes
    <3>2. QED
      BY <1>1, <3>1
  <2>2. Walked(a, n, i, k) = Len(a[k].relocs)
    BY <2>1, Zenon DEF Walked
  <2>3. QED
    BY <2>2, Zenon DEF Patching
<1>3. AllLinked(a, ws)
  <2> SUFFICES ASSUME NEW k \in Contract!Bearing(a), NEW x \in DOMAIN Contract!Contents(a[k])
               PROVE  ws[k][x] = Contract!Linked(a, k, x)
    BY DEF AllLinked
  <2>1. ws[k][x] = LinkedUpto(a, k, x, Len(a[k].relocs))
    BY <1>2, Zenon DEF PatchedBy
  <2>2. LinkedUpto(a, k, x, Len(a[k].relocs)) = Contract!Linked(a, k, x)
    BY <1>1, LinkedAll
  <2>3. QED
    BY <2>1, <2>2, Zenon
<1>4. Contract!Linkable(a)
  <2>1. BadFile \notin {a[k] : k \in DOMAIN a}
    BY <1>1, Zenon DEF Readable
  <2>2. ASSUME NEW k \in Contract!Bearing(a), NEW j \in DOMAIN a[k].symbols
        PROVE  Contract!Definitions(a, a[k].symbols[j].name) = {<<k, j>>}
    BY <1>1, DefinedOnce DEF LaidOut
  <2>3. ASSUME NEW k \in Contract!Bearing(a), NEW j \in DOMAIN a[k].relocs
        PROVE  RelocOK(a, k, j)
    <3>1. a[k] \in Obj
      BY <1>1, BearingTypes
    <3>2. j <= Len(a[k].relocs)
      BY <3>1 DEF Obj
    <3>3. QED
      BY <1>2, <3>2, Zenon DEF Checked
  <2>4. QED
    BY <2>1, <2>2, <2>3, Zenon DEF Contract!Linkable, RelocOK
<1>5. QED
  BY <1>3, <1>4

\* What makes the second pass fail makes the command line unlinkable.
LEMMA FatalUnlinkable ==
  ASSUME TypeInv, NEW a, objs = a, LaidOut(a), RelocateFatal
  PROVE  ~Contract!Linkable(a)
<1> SUFFICES ASSUME Contract!Linkable(a) PROVE FALSE
  OBVIOUS
<1>1. AtReloc /\ (~OneRecord \/ (~OutOfRange /\ Missing)) /\ Readable(a)
  BY DEF RelocateFatal, LaidOut
<1>2. /\ node \in Contract!Bearing(a) /\ inner \in DOMAIN a[node].relocs
      /\ rlc = a[node].relocs[inner] /\ Offset = rlc.addr - a[node].records[1].addr /\ Offset \in Int
      /\ Size(node) = Len(Contract!Contents(a[node])) /\ Size(node) \in Nat
  BY <1>1, AtRelocIs
<1>3. RelocOK(a, node, inner)
  BY <1>2, Zenon DEF Contract!Linkable, RelocOK
<1>4. OneRecord
  BY <1>3 DEF RelocOK, OneRecord
<1>5. ~OutOfRange /\ Missing
  BY <1>1, <1>4
<1>6. Offset # Size(node)
  <2>1. Plain(a[node])
    BY <1>2 DEF LaidOut, Fitting
  <2>2. rlc.name # NoName
    BY <1>5 DEF Missing
  <2>3. Offset # Len(a[node].records[1].data)
    BY <1>2, <2>1, <2>2 DEF Plain
  <2>4. Contract!Contents(a[node]) = a[node].records[1].data
    BY <1>1, <1>2, BearingTypes
  <2>5. QED
    BY <1>2, <2>3, <2>4
<1>7. Offset \in 0 .. Size(node) - 1
  BY <1>2, <1>5, <1>6 DEF OutOfRange
<1>8. Contract!InRecord(a[node], rlc)
  BY <1>1, <1>7, InRecordIs
<1>9. rlc.name # NoName /\ rlc.name \notin DOMAIN defns
  BY <1>5 DEF Missing
<1>10. Contract!Definitions(a, rlc.name) # {}
  BY <1>2, <1>3, <1>8, <1>9, Zenon DEF RelocOK
<1>11. Earlier(a, rlc.name, Len(a) + 1) = {}
  BY <1>9, Zenon DEF LaidOut, Defined
<1>12. QED
  BY <1>1, <1>10, <1>11, EarlierAll

-----------------------------------------------------------------------------
(* The emitter.                                                            *)

Cells(ad, d)   == {<<ad + j - 1, d[j]>> : j \in DOMAIN d}
EmittedOf(im)  == UNION {Cells(im[i].addr, im[i].data) : i \in DOMAIN im}
Block(a, k)    ==
  {<<Contract!Base(a, k) + i - 1, Contract!Linked(a, k, i)>> : i \in DOMAIN Contract!Contents(a[k])}
ImageUpto(a, n) == UNION {Block(a, k) : k \in {l \in Contract!Bearing(a) : l < n}}

Placed(a, n, ad, im) == ad = Contract!Base(a, n) % Limit /\ EmittedOf(im) = ImageUpto(a, n)

\* The emitted words are those of the image, record by record.
LEMMA EmittedIs == Emitted = EmittedOf(image)
  BY Zenon DEF Emitted, EmittedOf, Cells

\* The image of all objects is the contract's.
LEMMA ImageUptoAll ==
  ASSUME NEW a, Readable(a), NEW n \in Nat, n > Len(a)
  PROVE  ImageUpto(a, n) = Contract!ImageOf(a)
<1>1. \A l \in Contract!Bearing(a) : l < n
  <2> TAKE l \in Contract!Bearing(a)
  <2>1. l \in 1 .. Len(a) /\ Len(a) \in Nat
    BY BearingTypes, ReadableTypes
  <2>2. QED
    BY <2>1
<1>2. {l \in Contract!Bearing(a) : l < n} = Contract!Bearing(a)
  BY <1>1, Zenon
<1>3. QED
  BY <1>2, Zenon DEF ImageUpto, Contract!ImageOf, Block

\* One more record adds its words.
LEMMA EmittedAppend ==
  ASSUME NEW im \in Seq(Rec), NEW r \in Rec
  PROVE  EmittedOf(Append(im, r)) = EmittedOf(im) \cup Cells(r.addr, r.data)
<1> DEFINE jm == Append(im, r)
           n == Len(im)
<1>1. n \in Nat /\ DOMAIN im = 1 .. n /\ DOMAIN jm = 1 .. n + 1
      /\ jm[n + 1] = r /\ \A i \in 1 .. n : jm[i] = im[i]
  BY AppendProperties
<1>2. \A i : i \in DOMAIN jm <=> i \in DOMAIN im \/ i = n + 1
  BY <1>1
<1> HIDE DEF jm, n
<1>3. ASSUME NEW x
      PROVE  x \in EmittedOf(jm) <=> x \in EmittedOf(im) \cup Cells(r.addr, r.data)
  <2>1. x \in EmittedOf(jm) <=> \E i \in DOMAIN jm : x \in Cells(jm[i].addr, jm[i].data)
    BY Zenon DEF EmittedOf
  <2>2. x \in EmittedOf(im) <=> \E i \in DOMAIN im : x \in Cells(im[i].addr, im[i].data)
    BY Zenon DEF EmittedOf
  <2>3. \A i \in DOMAIN im : jm[i] = im[i]
    BY <1>1
  <2>4. QED
    BY <1>1, <1>2, <2>1, <2>2, <2>3, Zenon
<1>4. EmittedOf(jm) = EmittedOf(im) \cup Cells(r.addr, r.data)
  BY <1>3
<1>5. QED
  BY <1>4 DEF jm

\* The next object of the image.
LEMMA ImageNext ==
  ASSUME NEW a, Readable(a), NEW n \in 1 .. Len(a)
  PROVE  ImageUpto(a, n + 1)
           = IF n \in Contract!Bearing(a) THEN ImageUpto(a, n) \cup Block(a, n) ELSE ImageUpto(a, n)
<1>1. \A k \in Contract!Bearing(a) : k < n + 1 <=> k < n \/ k = n
  <2> TAKE k \in Contract!Bearing(a)
  <2>1. k \in 1 .. Len(a) /\ Len(a) \in Nat
    BY BearingTypes, ReadableTypes
  <2>2. QED
    BY <2>1
<1>2. \A m, x : x \in ImageUpto(a, m) <=> \E k \in Contract!Bearing(a) : k < m /\ x \in Block(a, k)
  BY Zenon DEF ImageUpto
<1>3. CASE n \in Contract!Bearing(a)
  <2>1. \A x : x \in ImageUpto(a, n + 1) <=> x \in ImageUpto(a, n) \/ x \in Block(a, n)
    BY <1>1, <1>2, <1>3, Zenon
  <2>2. ImageUpto(a, n + 1) = ImageUpto(a, n) \cup Block(a, n)
    BY <2>1
  <2>3. QED
    BY <1>3, <2>2
<1>4. CASE n \notin Contract!Bearing(a)
  <2>1. \A x : x \in ImageUpto(a, n + 1) <=> x \in ImageUpto(a, n)
    BY <1>1, <1>2, <1>4, Zenon
  <2>2. ImageUpto(a, n + 1) = ImageUpto(a, n)
    BY <2>1 DEF ImageUpto
  <2>3. QED
    BY <1>4, <2>2
<1>5. QED
  BY <1>3, <1>4

\* A running offset may be reduced before or after adding to it.
LEMMA AddReduced ==
  ASSUME NEW b \in Int, NEW n \in Int
  PROVE  ((b % Limit) + n) % Limit = (b + n) % Limit
<1>1. Limit \in Nat \ {0} /\ Limit = 1 * Limit /\ 1 \in Nat
  BY LimitAssumption
<1>2. SameField(Limit, n + (b % Limit), n + b)
  BY <1>1, ReducedPlus
<1> DEFINE c == b % Limit
<1>3. c \in Int
  BY ModWord, LimitAssumption DEF Word
<1> HIDE DEF c
<1>4. n + c = c + n /\ n + b = b + n
  BY <1>3
<1>5. (n + c) % Limit = (n + b) % Limit
  BY <1>2 DEF SameField, c
<1>6. QED
  BY <1>4, <1>5 DEF c

\* The emitted words of an object are its block of the image.
LEMMA CellsAreBlock ==
  ASSUME NEW a, Readable(a), Fitting(a), NEW k \in Contract!Bearing(a),
         NEW d, DOMAIN d = DOMAIN Contract!Contents(a[k]),
         \A i \in DOMAIN Contract!Contents(a[k]) : d[i] = Contract!Linked(a, k, i)
  PROVE  Cells(Contract!Base(a, k) % Limit, d) = Block(a, k)
<1> DEFINE b == Contract!Base(a, k)
           n == Len(Contract!Contents(a[k]))
<1>1. n \in Nat /\ DOMAIN d = 1 .. n /\ DOMAIN Contract!Contents(a[k]) = 1 .. n
  <2>1. Contract!Contents(a[k]) \in Seq(Word)
    BY BearingTypes
  <2>2. QED
    BY <2>1
<1>2. b \in Nat
  <2>1. k \in 1 .. Len(a) /\ Len(a) \in Nat
    BY BearingTypes, ReadableTypes
  <2>2. k \in 1 .. Len(a) + 1
    BY <2>1
  <2>3. QED
    BY <2>2, BaseNat
<1>3. b + n <= Limit
  BY DEF Fitting
<1> HIDE DEF b, n
<1>4. CASE n = 0
  <2>1. DOMAIN d = {} /\ DOMAIN Contract!Contents(a[k]) = {}
    BY <1>1, <1>4
  <2>2. Cells(b % Limit, d) = {} /\ Block(a, k) = {}
    BY <2>1 DEF Cells, Block
  <2>3. QED
    BY <2>2 DEF b
<1>5. CASE n # 0
  <2>1. b \in 0 .. Limit - 1
    BY <1>1, <1>2, <1>3, <1>5, LimitAssumption
  <2>2. b % Limit = b
    BY <2>1, LimitAssumption, SmallMod
  <2>3. Cells(b, d) = {<<b + i - 1, d[i]>> : i \in DOMAIN Contract!Contents(a[k])}
    BY Zenon DEF Cells
  <2>4. Block(a, k) = {<<b + i - 1, Contract!Linked(a, k, i)>> : i \in DOMAIN Contract!Contents(a[k])}
    BY Zenon DEF Block, b
  <2>5. Cells(b, d) = Block(a, k)
    BY <2>3, <2>4
  <2>6. QED
    BY <2>2, <2>5, Zenon DEF b
<1>6. QED
  BY <1>4, <1>5

-----------------------------------------------------------------------------
(* What holds between the passes, and is the contract's at the end.        *)

AtLoad ==
  phase = "load" => running = 0 /\ DOMAIN defns = {} /\ node = Len(objs) + 1
Unpatched ==
  phase \in {"load", "build"} => inner = 1 /\ \A k \in DOMAIN objs : words[k] = FirstWords(objs[k])
Unemitted ==
  phase \in {"load", "build", "relocate"} => addr = 0 /\ image = << >>
Complete ==
  phase \in {"build", "relocate", "emit", "write"} =>
    objs = args /\ Readable(args) /\ Fitting(args)
AtBuild ==
  phase = "build" =>
    /\ node <= Len(args) + 1
    /\ running = Contract!Base(args, node) % Limit
    /\ Based(args, node, meta) /\ Defined(args, node, defns)
AtRelocate ==
  phase = "relocate" => LaidOut(args) /\ Patching(args, node, inner, words)
AtEmit ==
  /\ phase \in {"emit", "write"} => Contract!Linkable(args)
  /\ phase = "emit" =>
       AllLinked(args, words) /\ Placed(args, IF inner = 1 THEN node ELSE node + 1, addr, image)
AtWrite ==
  phase = "write" => EmittedOf(image) = Contract!ImageOf(args)

LinkInv ==
  /\ AtLoad /\ Unpatched /\ Unemitted /\ Complete /\ AtBuild /\ AtRelocate /\ AtEmit /\ AtWrite

\* The first state: nothing is laid out or patched.
LEMMA InitLink == Init => LinkInv
<1> SUFFICES ASSUME Init PROVE LinkInv
  OBVIOUS
<1>1. phase = "load" /\ objs = << >> /\ running = 0 /\ defns = << >> /\ addr = 0 /\ image = << >>
      /\ node = 1 /\ inner = 1
  BY DEF Init
<1>2. DOMAIN << >> = {} /\ Len(<< >>) = 0
  OBVIOUS
<1>3. QED
  BY <1>1, <1>2 DEF LinkInv, AtLoad, Unpatched, Unemitted, Complete, AtBuild, AtRelocate, AtEmit,
                    AtWrite

\* When the run is over nothing is asked.
LEMMA OverLink == phase' \in {"ok", "failed", "crashed"} => LinkInv'
  BY DEF LinkInv, AtLoad, Unpatched, Unemitted, Complete, AtBuild, AtRelocate, AtEmit, AtWrite

\* When nothing changes it goes on holding.
LEMMA StayLink == LinkInv /\ UNCHANGED vars => LinkInv'
  BY DEF LinkInv, AtLoad, Unpatched, Unemitted, Complete, AtBuild, AtRelocate, AtEmit, AtWrite,
         vars, LaidOut

-----------------------------------------------------------------------------
\* One more object is loaded.
LEMMA LoadLink == TypeInv /\ LinkInv /\ do_load => LinkInv'
<1> SUFFICES ASSUME TypeInv, LinkInv, do_load PROVE LinkInv'
  OBVIOUS
<1>1. /\ phase = "load" /\ phase' = "load" /\ node' = node + 1 /\ inner' = inner
      /\ objs' = Append(objs, args[node]) /\ words' = Append(words, FirstWords(args[node]))
      /\ running' = running /\ defns' = defns /\ addr' = addr /\ image' = image
  BY DEF do_load, layout, output
<1>2. /\ running = 0 /\ DOMAIN defns = {} /\ node = Len(objs) + 1 /\ inner = 1
      /\ addr = 0 /\ image = << >> /\ \A k \in DOMAIN objs : words[k] = FirstWords(objs[k])
  BY <1>1 DEF LinkInv, AtLoad, Unpatched, Unemitted
<1>3. objs \in Seq(Obj) /\ words \in Seq(Seq(Word)) /\ Len(words) = Len(objs)
  BY DEF TypeInv, TypeOK
<1> DEFINE n == Len(objs)
           o == args[node]
<1>4. n \in Nat /\ Len(objs') = n + 1 /\ DOMAIN objs = 1 .. n /\ DOMAIN objs' = 1 .. n + 1
      /\ objs'[n + 1] = o /\ \A k \in 1 .. n : objs'[k] = objs[k]
  BY <1>1, <1>3, AppendProperties
<1>5. words'[n + 1] = FirstWords(o) /\ \A k \in 1 .. n : words'[k] = words[k]
  BY <1>1, <1>3, AppendProperties
<1> HIDE DEF n, o
<1>6. ASSUME NEW k \in DOMAIN objs' PROVE words'[k] = FirstWords(objs'[k])
  <2>1. k \in 1 .. n \/ k = n + 1
    BY <1>4, <1>6
  <2>2. CASE k \in 1 .. n
    BY <1>2, <1>4, <1>5, <2>2
  <2>3. CASE k = n + 1
    BY <1>4, <1>5, <2>3
  <2>4. QED
    BY <2>1, <2>2, <2>3
<1>7. AtLoad'
  BY <1>1, <1>2, <1>4 DEF AtLoad, n
<1>8. Unpatched'
  BY <1>1, <1>2, <1>6 DEF Unpatched
<1>9. QED
  BY <1>1, <1>2, <1>7, <1>8 DEF LinkInv, Unemitted, Complete, AtBuild, AtRelocate, AtEmit, AtWrite

\* All are: the objects are the files of the command line.
LEMMA LoadDoneLink ==
  ASSUME Regular, TypeInv, LayoutInv, LinkInv, LoadDone
  PROVE  LinkInv'
<1>1. /\ phase = "load" /\ node > Len(args) /\ node > Len(objs) /\ phase' = "build"
      /\ node' = 1 /\ inner' = 1
      /\ UNCHANGED <<args, objs, words, running, meta, defns, addr, image>>
  BY DEF LoadDone, Enter, input, layout, output
<1>2. /\ running = 0 /\ DOMAIN defns = {} /\ node = Len(objs) + 1 /\ addr = 0 /\ image = << >>
      /\ \A k \in DOMAIN objs : words[k] = FirstWords(objs[k])
  BY <1>1 DEF LinkInv, AtLoad, Unpatched, Unemitted
<1>3. /\ args \in Inputs /\ args \in Seq(Obj \cup {BadFile}) /\ objs \in Seq(Obj)
      /\ Len(objs) <= Len(args) /\ \A k \in DOMAIN objs : objs[k] = args[k]
  BY InputsAssumption DEF TypeInv, TypeOK, LayoutInv, Loaded
<1>4. Len(objs) = Len(args)
  BY <1>1, <1>2, <1>3
<1>5. objs = args
  BY <1>3, <1>4
<1>6. Readable(args)
  <2>1. \A k \in DOMAIN args : args[k] \in Obj
    BY <1>3, <1>5
  <2>2. QED
    BY <1>3, <2>1, BadFileAssumption DEF Readable
<1>7. Fitting(args)
  BY <1>6, RegularFits
<1>8. Len(args) \in Nat /\ Contract!Base(args, 1) = 0
  BY <1>6, ReadableTypes, BaseStep
<1>9. \A k \in Contract!Bearing(args) : ~(k < 1)
  <2> TAKE k \in Contract!Bearing(args)
  <2>1. k \in 1 .. Len(args)
    BY <1>6, BearingTypes
  <2>2. QED
    BY <1>8, <2>1
<1>10. Based(args, 1, meta)
  BY <1>9, Zenon DEF Based
<1>11. Defined(args, 1, defns)
  <2>1. \A name : Earlier(args, name, 1) = {}
    <3> TAKE name
    <3>1. \A d \in Contract!Definitions(args, name) : ~(d[1] < 1)
      <4> TAKE d \in Contract!Definitions(args, name)
      <4>1. d[1] \in Contract!Bearing(args)
        BY <1>6, DefinitionTypes
      <4>2. QED
        BY <1>9, <4>1
    <3>2. QED
      BY <3>1 DEF Earlier
  <2>2. QED
    BY <1>2, <2>1 DEF Defined
<1>12. 0 % Limit = 0
  BY LimitAssumption, SmallMod
<1>13. AtBuild'
  <2>1. running = Contract!Base(args, 1) % Limit
    BY <1>2, <1>8, <1>12
  <2>2. 1 <= Len(args) + 1
    BY <1>8
  <2>3. QED
    BY <1>1, <1>10, <1>11, <2>1, <2>2, Zenon DEF AtBuild
<1>14. Complete'
  BY <1>1, <1>5, <1>6, <1>7, Zenon DEF Complete
<1>15. Unpatched' /\ Unemitted'
  BY <1>1, <1>2 DEF Unpatched, Unemitted
<1>16. QED
  BY <1>1, <1>13, <1>14, <1>15 DEF LinkInv, AtLoad, AtRelocate, AtEmit, AtWrite

-----------------------------------------------------------------------------
\* Where the first pass is.
LEMMA BuildIs ==
  ASSUME TypeInv, LinkInv, phase = "build", node <= Len(objs)
  PROVE  /\ objs = args /\ Readable(args) /\ Fitting(args) /\ Len(args) \in Nat
         /\ node \in 1 .. Len(args) /\ node \in 1 .. Len(args) + 1
         /\ args[node].records # << >> <=> node \in Contract!Bearing(args)
         /\ running = Contract!Base(args, node) % Limit
         /\ Based(args, node, meta) /\ Defined(args, node, defns)
<1>1. objs = args /\ Readable(args) /\ Fitting(args)
      /\ running = Contract!Base(args, node) % Limit
      /\ Based(args, node, meta) /\ Defined(args, node, defns)
  BY DEF LinkInv, Complete, AtBuild
<1>2. Len(args) \in Nat /\ node \in Nat \ {0}
  BY <1>1, ReadableTypes DEF TypeInv, TypeOK
<1>3. node \in 1 .. Len(args) /\ node \in 1 .. Len(args) + 1
  BY <1>1, <1>2
<1>4. args[node].records # << >> <=> node \in Contract!Bearing(args)
  BY <1>1, <1>3, ReadableTypes
<1>5. QED
  BY <1>1, <1>2, <1>3, <1>4

\* An object without a record neither moves the layout nor defines anything.
LEMMA BuildSkipLink == TypeInv /\ LinkInv /\ BuildSkip => LinkInv'
<1> SUFFICES ASSUME TypeInv, LinkInv, BuildSkip PROVE LinkInv'
  OBVIOUS
<1>1. /\ phase = "build" /\ node <= Len(objs) /\ phase' = "build" /\ node' = node + 1
      /\ objs[node].records = << >>
      /\ UNCHANGED <<args, objs, words, inner, running, meta, defns, addr, image>>
  BY DEF BuildSkip, input, layout, output
<1>2. /\ objs = args /\ Readable(args) /\ Fitting(args) /\ Len(args) \in Nat
      /\ node \in 1 .. Len(args)
      /\ args[node].records # << >> <=> node \in Contract!Bearing(args)
      /\ running = Contract!Base(args, node) % Limit
      /\ Based(args, node, meta) /\ Defined(args, node, defns)
  BY <1>1, BuildIs
<1>3. node \notin Contract!Bearing(args)
  BY <1>1, <1>2
<1>4. Contract!Base(args, node + 1) = Contract!Base(args, node)
  <2>1. Contract!Base(args, node + 1) = Contract!Base(args, node) + 0
    BY <1>2, <1>3, BaseStep
  <2>2. Contract!Base(args, node) \in Nat
    <3>1. node \in 1 .. Len(args) + 1
      BY <1>2
    <3>2. QED
      BY <1>2, <3>1, BaseNat
  <2>3. QED
    BY <2>1, <2>2
<1>5. Based(args, node + 1, meta)
  <2>1. \A k \in Contract!Bearing(args) : k < node + 1 => k < node
    <3> TAKE k \in Contract!Bearing(args)
    <3>1. k \in 1 .. Len(args) /\ k # node
      BY <1>2, <1>3, BearingTypes
    <3>2. QED
      BY <1>2, <3>1
  <2>2. QED
    BY <1>2, <2>1 DEF Based
<1>6. Defined(args, node + 1, defns)
  BY <1>2, <1>3, DefinedSkip
<1>7. AtBuild'
  <2>1. node + 1 <= Len(args) + 1
    BY <1>2
  <2>2. running = Contract!Base(args, node + 1) % Limit
    BY <1>2, <1>4
  <2>3. QED
    BY <1>1, <1>5, <1>6, <2>1, <2>2, Zenon DEF AtBuild
<1>8. Complete'
  BY <1>1, <1>2, Zenon DEF Complete
<1>9. Unpatched' /\ Unemitted'
  BY <1>1 DEF LinkInv, Unpatched, Unemitted
<1>10. QED
  BY <1>1, <1>7, <1>8, <1>9 DEF LinkInv, AtLoad, AtRelocate, AtEmit, AtWrite

\* An object with one is laid out behind those before it, and its symbols defined.
LEMMA BuildObjectLink == TypeInv /\ LinkInv /\ BuildObject => LinkInv'
<1> SUFFICES ASSUME TypeInv, LinkInv, BuildObject PROVE LinkInv'
  OBVIOUS
<1>1. /\ phase = "build" /\ node <= Len(objs) /\ phase' = "build" /\ node' = node + 1
      /\ objs[node].records # << >> /\ ~Duplicate(objs[node])
      /\ meta' = [k \in DOMAIN meta \cup {node} |-> IF k = node THEN running ELSE meta[k]]
      /\ running' = Advance(running) /\ defns' = Define(node, objs[node])
      /\ UNCHANGED <<args, objs, words, inner, addr, image>>
  BY DEF BuildObject, input, output
<1>2. /\ objs = args /\ Readable(args) /\ Fitting(args) /\ Len(args) \in Nat
      /\ node \in 1 .. Len(args)
      /\ args[node].records # << >> <=> node \in Contract!Bearing(args)
      /\ running = Contract!Base(args, node) % Limit
      /\ Based(args, node, meta) /\ Defined(args, node, defns)
  BY <1>1, BuildIs
<1>3. node \in Contract!Bearing(args)
  BY <1>1, <1>2
<1>4. /\ Contract!Contents(args[node]) = FirstWords(args[node])
      /\ Len(Contract!Contents(args[node])) \in Nat
  BY <1>2, <1>3, BearingTypes
<1>5. running' = Contract!Base(args, node + 1) % Limit
  <2> DEFINE b == Contract!Base(args, node)
             n == Len(Contract!Contents(args[node]))
  <2>1. Contract!Base(args, node + 1) = b + n
    BY <1>2, <1>3, BaseStep
  <2>2. b \in Int /\ n \in Int
    BY <1>2, <1>3, <1>4, BaseInt
  <2>3. Size(node) = n
    BY <1>2, <1>4 DEF Size
  <2> HIDE DEF b, n
  <2>4. running = b % Limit
    BY <1>2 DEF b
  <2>5. running' = ((b % Limit) + n) % Limit
    BY <1>1, <2>3, <2>4, Zenon DEF Advance
  <2>6. QED
    BY <2>1, <2>2, <2>5, AddReduced
<1>6. Based(args, node + 1, meta')
  <2> SUFFICES ASSUME NEW k \in Contract!Bearing(args), k < node + 1
               PROVE  meta'[k] = Contract!Base(args, k) % Limit
    BY DEF Based
  <2>1. CASE k = node
    <3>1. meta'[k] = running
      BY <1>1, <2>1
    <3>2. QED
      BY <1>2, <2>1, <3>1
  <2>2. CASE k # node
    <3>1. k \in 1 .. Len(args) /\ args[k].records # << >>
      BY <1>2, BearingTypes
    <3>2. k < node
      BY <1>2, <2>2, <3>1
    <3>3. k \in DOMAIN meta
      BY <1>1, <1>2, <3>1, <3>2, ReadableTypes DEF TypeInv, MetaDomain
    <3>4. meta'[k] = meta[k]
      BY <1>1, <2>2, <3>3
    <3>5. meta[k] = Contract!Base(args, k) % Limit
      BY <1>2, <3>2 DEF Based
    <3>6. QED
      BY <3>4, <3>5
  <2>3. QED
    BY <2>1, <2>2
<1>7. Defined(args, node + 1, defns')
  <2>1. Defined(args, node + 1, Define(node, args[node]))
    BY <1>1, <1>2, <1>3, DefinedNext
  <2>2. QED
    BY <1>1, <1>2, <2>1, Zenon
<1>8. AtBuild'
  <2>1. node + 1 <= Len(args) + 1
    BY <1>2
  <2>2. QED
    BY <1>1, <1>5, <1>6, <1>7, <2>1, Zenon DEF AtBuild
<1>9. Complete'
  BY <1>1, <1>2, Zenon DEF Complete
<1>10. Unpatched' /\ Unemitted'
  BY <1>1 DEF LinkInv, Unpatched, Unemitted
<1>11. QED
  BY <1>1, <1>8, <1>9, <1>10 DEF LinkInv, AtLoad, AtRelocate, AtEmit, AtWrite

\* All are laid out: patching starts.
LEMMA BuildDoneLink == TypeInv /\ LinkInv /\ BuildDone => LinkInv'
<1> SUFFICES ASSUME TypeInv, LinkInv, BuildDone PROVE LinkInv'
  OBVIOUS
<1>1. /\ phase = "build" /\ node > Len(objs) /\ phase' = "relocate" /\ node' = 1 /\ inner' = 1
      /\ UNCHANGED <<args, objs, words, running, meta, defns, addr, image>>
  BY DEF BuildDone, Enter, input, layout, output
<1>2. /\ objs = args /\ Readable(args) /\ Fitting(args) /\ node <= Len(args) + 1
      /\ Based(args, node, meta) /\ Defined(args, node, defns)
  BY <1>1 DEF LinkInv, Complete, AtBuild
<1>3. Len(args) \in Nat /\ DOMAIN args = 1 .. Len(args) /\ node \in Nat
  BY <1>2, ReadableTypes DEF TypeInv, TypeOK
<1>4. node = Len(args) + 1
  BY <1>1, <1>2, <1>3
<1>5. LaidOut(args)
  BY <1>2, <1>4 DEF LaidOut
<1>6. \A k \in 1 .. Len(args) : words[k] = FirstWords(args[k])
  BY <1>1, <1>2, <1>3 DEF LinkInv, Unpatched
<1>7. Patching(args, 1, 1, words)
  BY <1>2, <1>6, PatchingStarts
<1>8. AtRelocate'
  <2>1. LaidOut(args)'
    BY <1>1, <1>5 DEF LaidOut
  <2>2. QED
    BY <1>1, <1>7, <2>1, Zenon DEF AtRelocate
<1>9. Complete'
  BY <1>1, <1>2, Zenon DEF Complete
<1>10. Unemitted'
  BY <1>1 DEF LinkInv, Unemitted
<1>11. QED
  BY <1>1, <1>8, <1>9, <1>10 DEF LinkInv, AtLoad, Unpatched, AtBuild, AtEmit, AtWrite

\* A step of the second pass within an object.
LEMMA RelocLink ==
  ASSUME TypeInv, LinkInv, AtReloc, OneRecord, inner' = inner + 1,
         UNCHANGED <<args, phase, objs, node, running, meta, defns, addr, image>>,
         \/ ~(Offset \in 0 .. Size(node) - 1) /\ words' = words
         \/ /\ Offset \in 0 .. Size(node) - 1 /\ ~Missing
            /\ words' = [words EXCEPT ![node][Offset + 1] = Patched(@)]
  PROVE  LinkInv'
<1>1. phase = "relocate" /\ objs = args /\ LaidOut(args) /\ Patching(args, node, inner, words)
      /\ Readable(args) /\ Fitting(args)
  BY DEF LinkInv, Complete, AtRelocate, AtReloc, Relocating
<1>2. node \in Contract!Bearing(args) /\ inner \in Nat \ {0} /\ node \in 1 .. Len(args)
      /\ words \in Seq(Seq(Word)) /\ Len(words) = Len(args)
  BY <1>1, AtRelocIs, BearingTypes DEF TypeInv, TypeOK
<1>3. Checked(args, node, inner - 1) /\ PatchedBy(args, node, inner - 1, words[node])
  <2>1. Walked(args, node, inner, node) = inner - 1
    <3>1. ~(node < node)
      BY <1>2
    <3>2. QED
      BY <3>1, Zenon DEF Walked
  <2>2. QED
    BY <1>1, <1>2, <2>1, Zenon DEF Patching
<1>4. Checked(args, node, inner) /\ PatchedBy(args, node, inner, words'[node])
      /\ \A k \in Contract!Bearing(args) : k # node => words'[k] = words[k]
  <2>1. CASE ~(Offset \in 0 .. Size(node) - 1) /\ words' = words
    BY <1>1, <1>3, <2>1, PatchNone
  <2>2. CASE /\ Offset \in 0 .. Size(node) - 1 /\ ~Missing
             /\ words' = [words EXCEPT ![node][Offset + 1] = Patched(@)]
    <3>1. /\ Checked(args, node, inner)
          /\ PatchedBy(args, node, inner, [words[node] EXCEPT ![Offset + 1] = Patched(@)])
      BY <1>1, <1>3, <2>2, PatchOne
    <3>2. words'[node] = [words[node] EXCEPT ![Offset + 1] = Patched(@)]
      <4>1. node \in DOMAIN words
        BY <1>2
      <4>2. QED
        BY <2>2, <4>1, Zenon
    <3>3. \A k \in Contract!Bearing(args) : k # node => words'[k] = words[k]
      <4> TAKE k \in Contract!Bearing(args)
      <4>1. k \in DOMAIN words
        BY <1>1, <1>2, BearingTypes
      <4>2. QED
        BY <2>2, <4>1, Zenon
    <3>4. QED
      BY <3>1, <3>2, <3>3, Zenon
  <2>3. QED
    BY <2>1, <2>2
<1>5. Patching(args, node, inner + 1, words')
  BY <1>1, <1>2, <1>4, PatchingStep
<1>6. AtRelocate'
  <2>1. LaidOut(args)'
    BY <1>1 DEF LaidOut
  <2>2. QED
    BY <1>5, <2>1, Zenon DEF AtRelocate
<1>7. Complete'
  BY <1>1, Zenon DEF Complete
<1>8. Unemitted'
  BY <1>1 DEF LinkInv, Unemitted
<1>9. QED
  BY <1>1, <1>6, <1>7, <1>8 DEF LinkInv, AtLoad, Unpatched, AtBuild, AtEmit, AtWrite

\* The relocations of an object are done.
LEMMA RelocNextLink == TypeInv /\ LinkInv /\ RelocateNext => LinkInv'
<1> SUFFICES ASSUME TypeInv, LinkInv, RelocateNext PROVE LinkInv'
  OBVIOUS
<1>1. /\ phase = "relocate" /\ node <= Len(objs) /\ phase' = "relocate"
      /\ Relocating => inner > Len(objs[node].relocs)
      /\ node' = node + 1 /\ inner' = 1
      /\ UNCHANGED <<args, objs, words, running, meta, defns, addr, image>>
  BY DEF RelocateNext, input, layout, output
<1>2. objs = args /\ LaidOut(args) /\ Patching(args, node, inner, words)
      /\ Readable(args) /\ Fitting(args)
  BY <1>1 DEF LinkInv, Complete, AtRelocate
<1>3. node \in Nat \ {0} /\ inner \in Nat \ {0}
  BY DEF TypeInv, TypeOK
<1>4. node \in Contract!Bearing(args) => inner > Len(args[node].relocs)
  <2> SUFFICES ASSUME node \in Contract!Bearing(args) PROVE inner > Len(args[node].relocs)
    OBVIOUS
  <2>1. args[node].records # << >>
    BY <1>2, BearingTypes
  <2>2. QED
    BY <1>1, <1>2, <2>1 DEF Relocating
<1>5. Patching(args, node + 1, 1, words)
  BY <1>2, <1>3, <1>4, PatchingNext
<1>6. AtRelocate'
  <2>1. LaidOut(args)'
    BY <1>1, <1>2 DEF LaidOut
  <2>2. QED
    BY <1>1, <1>5, <2>1, Zenon DEF AtRelocate
<1>7. Complete'
  BY <1>1, <1>2, Zenon DEF Complete
<1>8. Unemitted'
  BY <1>1 DEF LinkInv, Unemitted
<1>9. QED
  BY <1>1, <1>6, <1>7, <1>8 DEF LinkInv, AtLoad, Unpatched, AtBuild, AtEmit, AtWrite

\* All relocations are: the command line links, and every word is the contract's.
LEMMA RelocDoneLink == TypeInv /\ LinkInv /\ RelocateDone => LinkInv'
<1> SUFFICES ASSUME TypeInv, LinkInv, RelocateDone PROVE LinkInv'
  OBVIOUS
<1>1. /\ phase = "relocate" /\ node > Len(objs) /\ phase' = "emit" /\ node' = 1 /\ inner' = 1
      /\ UNCHANGED <<args, objs, words, running, meta, defns, addr, image>>
  BY DEF RelocateDone, Enter, input, layout, output
<1>2. /\ objs = args /\ LaidOut(args) /\ Patching(args, node, inner, words)
      /\ Readable(args) /\ Fitting(args) /\ addr = 0 /\ image = << >>
  BY <1>1 DEF LinkInv, Complete, AtRelocate, Unemitted
<1>3. node \in Nat /\ Len(args) \in Nat
  BY <1>2, ReadableTypes DEF TypeInv, TypeOK
<1>4. Contract!Linkable(args) /\ AllLinked(args, words)
  BY <1>1, <1>2, <1>3, PatchingEnds
<1>5. Placed(args, 1, addr, image)
  <2>1. Contract!Base(args, 1) = 0 /\ 0 % Limit = 0
    BY <1>2, BaseStep, LimitAssumption, SmallMod
  <2>2. EmittedOf(<< >>) = {}
    BY DEF EmittedOf
  <2>3. ImageUpto(args, 1) = {}
    <3>1. \A l \in Contract!Bearing(args) : ~(l < 1)
      <4> TAKE l \in Contract!Bearing(args)
      <4>1. l \in 1 .. Len(args)
        BY <1>2, BearingTypes
      <4>2. QED
        BY <1>3, <4>1
    <3>2. {l \in Contract!Bearing(args) : l < 1} = {}
      BY <3>1
    <3>3. QED
      BY <3>2 DEF ImageUpto
  <2>4. QED
    BY <1>2, <2>1, <2>2, <2>3 DEF Placed
<1>6. AtEmit'
  BY <1>1, <1>4, <1>5, Zenon DEF AtEmit
<1>7. Complete'
  BY <1>1, <1>2, Zenon DEF Complete
<1>8. QED
  BY <1>1, <1>6, <1>7 DEF LinkInv, AtLoad, Unpatched, Unemitted, AtBuild, AtRelocate, AtWrite

-----------------------------------------------------------------------------
\* Where the emitter is.
LEMMA EmitIs ==
  ASSUME TypeInv, LinkInv, phase = "emit"
  PROVE  /\ objs = args /\ Readable(args) /\ Fitting(args) /\ Len(args) \in Nat
         /\ Contract!Linkable(args) /\ AllLinked(args, words)
         /\ Placed(args, IF inner = 1 THEN node ELSE node + 1, addr, image)
         /\ node \in Nat \ {0} /\ inner \in Nat \ {0}
<1>1. /\ objs = args /\ Readable(args) /\ Fitting(args)
      /\ Contract!Linkable(args) /\ AllLinked(args, words)
      /\ Placed(args, IF inner = 1 THEN node ELSE node + 1, addr, image)
  BY DEF LinkInv, Complete, AtEmit
<1>2. node \in Nat \ {0} /\ inner \in Nat \ {0} /\ Len(args) \in Nat
  BY <1>1, ReadableTypes DEF TypeInv, TypeOK
<1>3. QED
  BY <1>1, <1>2

\* An object is emitted where the contract has it.
LEMMA EmitRecordLink == TypeInv /\ LayoutInv /\ LinkInv /\ EmitRecord => LinkInv'
<1> SUFFICES ASSUME TypeInv, LayoutInv, LinkInv, EmitRecord PROVE LinkInv'
  OBVIOUS
<1>1. /\ phase = "emit" /\ phase' = "emit" /\ node <= Len(objs)
      /\ inner <= Len(objs[node].records) /\ inner' = inner + 1 /\ node' = node
      /\ image' = Append(image, [addr |-> addr, data |-> Contents])
      /\ addr' = (addr + Len(Contents)) % Limit
      /\ UNCHANGED <<args, objs, words, running, meta, defns>>
  BY DEF EmitRecord, Emitting, input, layout
<1>2. /\ objs = args /\ Readable(args) /\ Fitting(args) /\ Len(args) \in Nat
      /\ Contract!Linkable(args) /\ AllLinked(args, words)
      /\ Placed(args, IF inner = 1 THEN node ELSE node + 1, addr, image)
      /\ node \in Nat \ {0} /\ inner \in Nat \ {0}
  BY <1>1, EmitIs
<1>3. node \in 1 .. Len(args) /\ node \in 1 .. Len(args) + 1 /\ args[node] \in Obj
  BY <1>1, <1>2, ReadableTypes
<1>4. args[node].records \in Seq(Rec) /\ Len(args[node].records) <= 1
  <2>1. args[node].records \in Seq(Rec)
    BY <1>3 DEF Obj
  <2>2. OneRecordEach
    BY Zenon DEF LayoutInv
  <2>3. Len(objs[node].records) <= 1
    BY <1>1, <1>2, <1>3, <2>2 DEF OneRecordEach
  <2>4. QED
    BY <1>2, <2>1, <2>3
<1>5. inner = 1 /\ args[node].records # << >>
  BY <1>1, <1>2, <1>4
<1>6. node \in Contract!Bearing(args)
  BY <1>2, <1>3, <1>5, ReadableTypes
<1>7. Placed(args, node, addr, image)
  BY <1>2, <1>5, Zenon
<1> DEFINE w == words[node]
           b == Contract!Base(args, node)
           n == Len(Contract!Contents(args[node]))
<1>8. Contents = w
  BY <1>5, Zenon DEF Contents
<1>9. /\ w \in Seq(Word) /\ Len(w) = n /\ n \in Nat
      /\ DOMAIN w = DOMAIN Contract!Contents(args[node])
  <2>1. /\ words \in Seq(Seq(Word)) /\ Len(words) = Len(args) /\ Len(words[node]) = Size(node)
    BY <1>2, <1>3 DEF TypeInv, TypeOK
  <2>2. Contract!Contents(args[node]) = FirstWords(args[node])
        /\ Contract!Contents(args[node]) \in Seq(Word)
    BY <1>2, <1>6, BearingTypes
  <2>3. Size(node) = n
    BY <1>2, <2>2 DEF Size
  <2>4. w \in Seq(Word)
    BY <1>3, <2>1
  <2>5. QED
    BY <2>1, <2>2, <2>3, <2>4
<1>10. b \in Int /\ Contract!Base(args, node + 1) = b + n
  BY <1>2, <1>3, <1>6, BaseInt, BaseStep
<1>11. addr = b % Limit /\ EmittedOf(image) = ImageUpto(args, node)
  BY <1>7, Zenon DEF Placed
<1>12. Cells(b % Limit, w) = Block(args, node)
  <2>1. \A i \in DOMAIN Contract!Contents(args[node]) : w[i] = Contract!Linked(args, node, i)
    BY <1>2, <1>6, Zenon DEF AllLinked
  <2>2. QED
    BY <1>2, <1>6, <1>9, <2>1, CellsAreBlock
<1> HIDE DEF w, b, n
<1>13. EmittedOf(image') = ImageUpto(args, node + 1)
  <2> DEFINE r == [addr |-> addr, data |-> w]
  <2>1. image \in Seq(Rec) /\ addr \in Word
    BY DEF TypeInv, TypeOK
  <2>2. r \in Rec /\ r.addr = addr /\ r.data = w
    BY <1>9, <2>1 DEF Rec
  <2>3. image' = Append(image, r)
    BY <1>1, <1>8
  <2> HIDE DEF r
  <2>4. EmittedOf(image') = EmittedOf(image) \cup Cells(addr, w)
    BY <2>1, <2>2, <2>3, EmittedAppend
  <2>5. ImageUpto(args, node + 1) = ImageUpto(args, node) \cup Block(args, node)
    BY <1>2, <1>3, <1>6, ImageNext
  <2>6. QED
    BY <1>11, <1>12, <2>4, <2>5, Zenon
<1>14. addr' = Contract!Base(args, node + 1) % Limit
  <2>1. addr' = ((b % Limit) + n) % Limit
    BY <1>1, <1>8, <1>9, <1>11, Zenon
  <2>2. ((b % Limit) + n) % Limit = (b + n) % Limit
    <3>1. n \in Int
      BY <1>9
    <3>2. QED
      BY <1>10, <3>1, AddReduced
  <2>3. QED
    BY <1>10, <2>1, <2>2, Zenon
<1>15. Placed(args, node + 1, addr', image')
  BY <1>13, <1>14, Zenon DEF Placed
<1>16. AtEmit'
  <2>1. inner' # 1
    BY <1>1, <1>5
  <2>2. QED
    BY <1>1, <1>2, <1>15, <2>1, Zenon DEF AtEmit
<1>17. Complete'
  BY <1>1, <1>2, Zenon DEF Complete
<1>18. QED
  BY <1>1, <1>16, <1>17 DEF LinkInv, AtLoad, Unpatched, Unemitted, AtBuild, AtRelocate, AtWrite

\* The emitter moves on to the next object.
LEMMA EmitNextLink == TypeInv /\ LinkInv /\ EmitNext => LinkInv'
<1> SUFFICES ASSUME TypeInv, LinkInv, EmitNext PROVE LinkInv'
  OBVIOUS
<1>1. /\ phase = "emit" /\ phase' = "emit" /\ node <= Len(objs)
      /\ inner > Len(objs[node].records) /\ inner' = 1 /\ node' = node + 1
      /\ UNCHANGED <<args, objs, words, running, meta, defns, addr, image>>
  BY DEF EmitNext, Emitting, input, layout, output
<1>2. /\ objs = args /\ Readable(args) /\ Fitting(args) /\ Len(args) \in Nat
      /\ Contract!Linkable(args) /\ AllLinked(args, words)
      /\ Placed(args, IF inner = 1 THEN node ELSE node + 1, addr, image)
      /\ node \in Nat \ {0} /\ inner \in Nat \ {0}
  BY <1>1, EmitIs
<1>3. Placed(args, node + 1, addr, image)
  <2>1. CASE inner # 1
    BY <1>2, <2>1, Zenon
  <2>2. CASE inner = 1
    <3>1. node \in 1 .. Len(args) /\ node \in 1 .. Len(args) + 1 /\ args[node] \in Obj
      BY <1>1, <1>2, ReadableTypes
    <3>2. args[node].records = << >>
      BY <1>1, <1>2, <2>2, <3>1 DEF Obj
    <3>3. node \notin Contract!Bearing(args)
      BY <1>2, <3>1, <3>2, ReadableTypes
    <3>4. ImageUpto(args, node + 1) = ImageUpto(args, node)
      BY <1>2, <3>1, <3>3, ImageNext
    <3>5. Contract!Base(args, node + 1) = Contract!Base(args, node)
      <4>1. Contract!Base(args, node + 1) = Contract!Base(args, node) + 0
        BY <1>2, <3>1, <3>3, BaseStep
      <4>2. Contract!Base(args, node) \in Nat
        BY <1>2, <3>1, BaseNat
      <4>3. QED
        BY <4>1, <4>2
    <3>6. Placed(args, node, addr, image)
      BY <1>2, <2>2, Zenon
    <3>7. QED
      BY <3>4, <3>5, <3>6, Zenon DEF Placed
  <2>3. QED
    BY <2>1, <2>2
<1>4. AtEmit'
  BY <1>1, <1>2, <1>3, Zenon DEF AtEmit
<1>5. Complete'
  BY <1>1, <1>2, Zenon DEF Complete
<1>6. QED
  BY <1>1, <1>4, <1>5 DEF LinkInv, AtLoad, Unpatched, Unemitted, AtBuild, AtRelocate, AtWrite

\* At the end of the list the cursor is on no record.
LEMMA EmitDoneLink == TypeInv /\ LinkInv /\ EmitDone => LinkInv'
<1> SUFFICES ASSUME TypeInv, LinkInv, EmitDone PROVE LinkInv'
  OBVIOUS
<1>1. /\ phase = "emit" /\ phase' = "write" /\ node > Len(objs) /\ inner' = 1 /\ node' = 1
      /\ UNCHANGED <<args, objs, words, running, meta, defns, addr, image>>
  BY DEF EmitDone, Enter, input, layout, output
<1>2. /\ objs = args /\ Readable(args) /\ Fitting(args) /\ Len(args) \in Nat
      /\ Contract!Linkable(args)
      /\ Placed(args, IF inner = 1 THEN node ELSE node + 1, addr, image)
      /\ node \in Nat \ {0}
  BY <1>1, EmitIs
<1>3. EmittedOf(image) = Contract!ImageOf(args)
  <2> DEFINE m == IF inner = 1 THEN node ELSE node + 1
  <2>1. m \in Nat /\ m > Len(args)
    BY <1>1, <1>2
  <2>2. Placed(args, m, addr, image)
    BY <1>2
  <2> HIDE DEF m
  <2>3. EmittedOf(image) = ImageUpto(args, m)
    BY <2>2, Zenon DEF Placed
  <2>4. QED
    BY <1>2, <2>1, <2>3, ImageUptoAll
<1>4. AtWrite' /\ AtEmit'
  BY <1>1, <1>2, <1>3, Zenon DEF AtWrite, AtEmit
<1>5. Complete'
  BY <1>1, <1>2, Zenon DEF Complete
<1>6. QED
  BY <1>1, <1>4, <1>5 DEF LinkInv, AtLoad, Unpatched, Unemitted, AtBuild, AtRelocate

\* Every step keeps it.
LEMMA NextLink ==
  ASSUME Regular, TypeInv, LayoutInv, LinkInv, [Next]_vars
  PROVE  LinkInv'
<1>1. CASE do_load
  BY <1>1, LoadLink
<1>2. CASE do_load_fails \/ BuildDuplicate \/ RelocateFatal \/ WriteFails \/ Finish
  <2>1. phase' \in {"failed", "ok"}
    BY <1>2, Zenon DEF do_load_fails, BuildDuplicate, RelocateFatal, WriteFails, Finish, Fatal
  <2> QED BY <2>1, OverLink
<1>3. CASE LoadDone
  BY <1>3, LoadDoneLink
<1>4. CASE BuildSkip
  BY <1>4, BuildSkipLink
<1>5. CASE BuildObject
  BY <1>5, BuildObjectLink
<1>6. CASE BuildDone
  BY <1>6, BuildDoneLink
<1>7. CASE RelocateSkip \/ RelocateWord \/ RelocateOverrun
  <2>1. AtReloc /\ OneRecord
    BY <1>7, Zenon DEF RelocateSkip, RelocateWord, RelocateOverrun
  <2>2. phase = "relocate" /\ Readable(args) /\ objs = args
    BY <2>1 DEF LinkInv, Complete, AtReloc, Relocating
  <2>3. Offset \in Int /\ Size(node) \in Nat
    BY <2>1, <2>2, AtRelocIs
  <2>4. CASE RelocateSkip
    <3>1. ~(Offset \in 0 .. Size(node) - 1)
      BY <2>3, <2>4 DEF RelocateSkip, OutOfRange
    <3> QED BY <2>1, <2>4, <3>1, RelocLink DEF RelocateSkip, input, layout, output
  <2>5. CASE RelocateWord
    <3>1. Offset \in 0 .. Size(node) - 1
      BY <2>3, <2>5 DEF RelocateWord, OutOfRange
    <3> QED BY <2>1, <2>5, <3>1, RelocLink DEF RelocateWord, input, layout, output
  <2>6. CASE RelocateOverrun
    <3>1. ~(Offset \in 0 .. Size(node) - 1)
      BY <2>3, <2>6 DEF RelocateOverrun
    <3>2. CASE phase' = "crashed"
      BY <3>2, OverLink
    <3>3. CASE phase' # "crashed"
      <4>1. /\ inner' = inner + 1 /\ words' = words
            /\ UNCHANGED <<args, phase, objs, node, running, meta, defns, addr, image>>
        BY <2>6, <3>3 DEF RelocateOverrun, input, layout, output
      <4> QED BY <2>1, <3>1, <4>1, RelocLink
    <3> QED BY <3>2, <3>3
  <2> QED BY <1>7, <2>4, <2>5, <2>6
<1>8. CASE RelocateNext
  BY <1>8, RelocNextLink
<1>9. CASE RelocateDone
  BY <1>9, RelocDoneLink
<1>10. CASE EmitRecord
  BY <1>10, EmitRecordLink
<1>11. CASE EmitNext
  BY <1>11, EmitNextLink
<1>12. CASE EmitDone
  BY <1>12, EmitDoneLink
<1>13. CASE Terminated \/ UNCHANGED vars
  <2>1. UNCHANGED vars
    BY <1>13 DEF Terminated
  <2> QED BY <2>1, StayLink
<1> QED BY <1>1, <1>2, <1>3, <1>4, <1>5, <1>6, <1>7, <1>8, <1>9, <1>10, <1>11, <1>12, <1>13,
           Zenon DEF Next

-----------------------------------------------------------------------------
(* The refinement.                                                         *)

Running == phase \notin {"ok", "failed"}

\* Until the run is over there is no result.
LEMMA RunningPending == Running => Result = Pending
  BY Zenon DEF Running, Result

\* A step that ends no run is none of the contract's.
LEMMA StutterMaps ==
  ASSUME Running, Running'
  PROVE  Result' = Result
<1>1. Result = Pending
  BY RunningPending
<1>2. Result' = Pending
  BY Zenon DEF Running, Result
<1>3. QED
  BY <1>1, <1>2

\* One that fails is the contract's, if the command line deserved it.
LEMMA FatalMaps ==
  ASSUME TypeInv, Running, Fatal, ~Contract!Linkable(args) \/ iofault'
  PROVE  Contract!Link
<1>1. Result = Pending
  BY RunningPending
<1>2. phase' = "failed" /\ outfile' = "absent" /\ args' = args
  BY DEF Fatal, input
<1>3. Result' = Failed
  <2>1. phase' # "ok"
    BY <1>2
  <2>2. QED
    BY <1>2, <2>1, Zenon DEF Result
<1>4. QED
  BY <1>1, <1>2, <1>3, Zenon DEF Contract!Link

\* Every step of the linker is one of the contract's, or none.
LEMMA StepMaps ==
  ASSUME TypeInv, LinkInv, [Next]_vars, CloseWorks
  PROVE  [Contract!Link]_Result
<1>1. CASE do_load_fails
  <2>1. args \in Seq(Obj \cup {BadFile}) /\ node \in DOMAIN args /\ args[node] = BadFile
    <3>1. args \in Seq(Obj \cup {BadFile})
      BY InputsAssumption DEF TypeInv, TypeOK
    <3>2. node \in Nat \ {0} /\ node <= Len(args) /\ args[node] = BadFile
      BY <1>1 DEF do_load_fails, TypeInv, TypeOK
    <3> QED BY <3>1, <3>2
  <2>2. ~Contract!Linkable(args)
    BY <2>1, Zenon DEF Contract!Linkable
  <2>3. Running /\ Fatal
    BY <1>1 DEF do_load_fails, Running
  <2> QED BY <2>2, <2>3, FatalMaps
<1>2. CASE BuildDuplicate
  <2>1. phase = "build" /\ node <= Len(objs) /\ objs[node].records # << >> /\ Duplicate(objs[node])
        /\ Fatal
    BY <1>2 DEF BuildDuplicate
  <2>2. /\ objs = args /\ Readable(args) /\ node \in Contract!Bearing(args)
        /\ Defined(args, node, defns)
    BY <2>1, BuildIs
  <2>3. ~Contract!Linkable(args)
    BY <2>1, <2>2, DuplicateUnlinkable
  <2>4. Running
    BY <2>1 DEF Running
  <2> QED BY <2>1, <2>3, <2>4, FatalMaps
<1>3. CASE RelocateFatal
  <2>1. phase = "relocate" /\ Fatal
    BY <1>3 DEF RelocateFatal, AtReloc, Relocating
  <2>2. objs = args /\ LaidOut(args)
    BY <2>1 DEF LinkInv, Complete, AtRelocate
  <2>3. ~Contract!Linkable(args)
    BY <1>3, <2>2, FatalUnlinkable
  <2>4. Running
    BY <2>1 DEF Running
  <2> QED BY <2>1, <2>3, <2>4, FatalMaps
<1>4. CASE WriteFails
  <2>1. phase = "write" /\ Fatal /\ iofault'
    BY <1>4 DEF WriteFails
  <2>2. Running
    BY <2>1 DEF Running
  <2> QED BY <2>1, <2>2, FatalMaps
<1>5. CASE Finish
  <2>1. phase = "write" /\ phase' = "ok" /\ outfile' = "whole" /\ args' = args /\ image' = image
    BY <1>5 DEF Finish, input, output, CloseWorks
  <2>2. Contract!Linkable(args) /\ EmittedOf(image) = Contract!ImageOf(args)
    BY <2>1 DEF LinkInv, AtEmit, AtWrite
  <2>3. Result = Pending
    <3>1. Running
      BY <2>1 DEF Running
    <3> QED BY <3>1, RunningPending
  <2>4. Result' = Contract!ImageOf(args)
    <3>1. Result' = Emitted'
      BY <2>1, Zenon DEF Result
    <3>2. Emitted' = EmittedOf(image')
      BY Zenon DEF Emitted, EmittedOf, Cells
    <3> QED BY <2>1, <2>2, <3>1, <3>2
  <2> QED BY <2>1, <2>2, <2>3, <2>4, Zenon DEF Contract!Link
<1>6. CASE \/ do_load \/ LoadDone \/ BuildSkip \/ BuildObject \/ BuildDone
           \/ RelocateSkip \/ RelocateWord \/ RelocateOverrun \/ RelocateNext \/ RelocateDone
           \/ EmitRecord \/ EmitNext \/ EmitDone
  <2>1. Running /\ Running'
    BY <1>6 DEF Running, do_load, LoadDone, BuildSkip, BuildObject, BuildDone, RelocateSkip,
                RelocateWord, RelocateOverrun, AtReloc, Relocating, RelocateNext, RelocateDone,
                EmitRecord, EmitNext, EmitDone, Emitting, Enter
  <2> QED BY <2>1, StutterMaps
<1>7. CASE Terminated \/ UNCHANGED vars
  <2>1. UNCHANGED <<phase, outfile, image>>
    BY <1>7 DEF Terminated, vars
  <2>2. Emitted' = Emitted
    BY <2>1 DEF Emitted
  <2>3. phase' = phase /\ outfile' = outfile
    BY <2>1
  <2>4. Result' = Result
    BY <2>2, <2>3, Zenon DEF Result
  <2> QED BY <2>4
<1> QED BY <1>1, <1>2, <1>3, <1>4, <1>5, <1>6, <1>7, Zenon DEF Next

\* The three passes of tld, which share nothing but the objects and the table
\* of symbols, together do what LinkContract says in one step: whatever the
\* objects, their order, symbols and relocations, the output appears only for
\* a linkable command line, and then with every field resolved to the address
\* that its target has in that output (tld.c, do_link).  It assumes that the last
\* write, by fclose, works: the linker does not look whether it does.
THEOREM LinksPromised == ASSUME Regular, CloseWorks PROVE Spec => LinksAsPromised
<1> DEFINE Inv == TypeInv /\ LayoutInv /\ LinkInv
<1>1. Init => Inv
  BY InitType, InitLayout, InitLink
<1>2. Inv /\ [Next]_vars => Inv'
  <2>1. NoRelink
    BY Regular DEF Regular
  <2> QED BY <2>1, Regular, NextType, NextLayout, NextLink
<1>3. Init => Contract!Init
  BY RunningPending DEF Init, Running, Contract!Init
<1>4. Inv /\ [Next]_vars => [Contract!Link]_Result
  BY StepMaps, CloseWorks
<1> QED BY <1>1, <1>2, <1>3, <1>4, PTL DEF Spec, LinksAsPromised, Contract!Spec

=============================================================================
