-------------------------------- MODULE Asm ---------------------------------
(***************************************************************************)
(* The assembler, tas, from the parsed program to the object file: what    *)
(* the grammar actions of src/src/parser.y leave behind, the passes of     *)
(* src/src/asmif.c over it, the obj format of src/src/asm.c and the end of *)
(* main in src/src/tas.c.  One run, one input file, with -o.               *)
(*                                                                         *)
(* A program is a sequence of items: "data" (an instruction, .word, .zero  *)
(* or .utf32, with its labels and one part per element), "set", "global"   *)
(* and "error", text the grammar or one of its actions refuses.  A part    *)
(* has a size, a word and, unless expr = None, an expression for its low   *)
(* field of span values, times mult; packed is IGNORE_WIDTH.               *)
(*                                                                         *)
(* pd->symbols, pd->defexprs and pd->relocs are lists that grow at the     *)
(* head: here they are sequences that grow at the end and are walked       *)
(* backwards.  A reference binds at parse time to the newest symbol of     *)
(* its name; scope, the number of symbols there were, stands for that.     *)
(***************************************************************************)
EXTENDS Expr, SequencesExt

CONSTANTS Names,      \* symbol names
          NoName,     \* the empty name of a null relocation
          None,       \* no expression
          InitWords,  \* words of the zeroed buffer obj_init allocates
          Junk,       \* what realloc'ed memory may hold
          Programs,   \* the input files
          Closed      \* what fflush and fclose may leave of the output: "whole", or "cut"

\* A label needs an element: parser.y:174 follows a null pointer for the label
\* of an empty string.
ASSUME LabelAssumption ==
  \A f \in Programs : \A k \in DOMAIN f :
    f[k].kind = "data" => f[k].labels = << >> \/ f[k].parts # << >>

ASSUME ClosedAssumption == "whole" \in Closed /\ Closed \subseteq {"whole", "cut"}

VARIABLES prog,      \* the input file
          pos,       \* next item of it
          phase,     \* how far do_assembly and main are
          elems,     \* pd->top: the parts, with their reladdr as addr
          symbols,   \* pd->symbols
          globals,   \* pd->globals
          deferred,  \* pd->defexprs: elements whose expression is to be fixed up
          relocs,    \* pd->relocs
          left,      \* cursor: entries of the walked list still to come
          errored,   \* pd->errored # 0
          toolarge,  \* fixup_deferred_exprs' rc
          object,    \* the struct obj that is built
          outfile,   \* the -o file: "empty" (opened), "whole", "cut" or "absent"
          iofault    \* history: the output met an I/O error

parsed == <<elems, symbols, globals, deferred>>
vars   == <<prog, pos, phase, elems, symbols, globals, deferred, relocs, left,
            errored, toolarge, object, outfile, iofault>>

Exited  == {"ok", "failed"}
NoElem  == 0
Empty   == [records |-> <<[addr |-> 0, data |-> << >>]>>, symbols |-> << >>, relocs |-> << >>]

Init ==
  /\ prog \in Programs
  /\ pos = 1 /\ phase = "parse"
  /\ elems = << >> /\ symbols = << >> /\ globals = {} /\ deferred = << >>
  /\ relocs = << >>
  /\ left = 0
  /\ errored = FALSE /\ toolarge = FALSE
  /\ object = Empty
  /\ outfile = "empty" /\ iofault = FALSE

\* fatal(), or a result other than 0: main removes the output file.
Fatal ==
  /\ phase' = "failed"
  /\ outfile' = "absent"
  /\ UNCHANGED <<prog, pos, parsed, relocs, left, errored, toolarge, object>>

-----------------------------------------------------------------------------
(* symbol_find, add_relocation and ce_eval                                 *)

\* symbol_find among the first n symbols: an index, or 0.
symbol_find(name, n) ==
  LET found == {s \in 1 .. n : symbols[s].name = name}
  IN  IF found = {} THEN 0 ELSE Max(found)

Result(v, rs) == [val |-> v, ok |-> TRUE, fatal |-> FALSE, relocs |-> rs]
Later         == [val |-> 0, ok |-> FALSE, fatal |-> FALSE, relocs |-> << >>]
Hopeless      == [val |-> 0, ok |-> FALSE, fatal |-> TRUE, relocs |-> << >>]

\* Mutant of RightSign: what is subtracted is relocated as if it were added.
RightSignSame(op, negate) == negate

\* The right-hand side of a difference is relocated with the other sign.
RightSign(op, negate) == IF op = "-" THEN ~negate ELSE negate

\* ce_eval of e in the context of element ctx, with the references of e bound
\* among the first scope symbols.  While parsing nothing is relocated (how is
\* None) and what is not known yet fails softly; later, how says the width of
\* the field to relocate and the sign.
RECURSIVE ce_eval(_, _, _, _)
ce_eval(e, ctx, scope, how) ==
  LET relocate  == how # None
      rlc(name) == IF relocate
                   THEN <<[name |-> name, elem |-> ctx, span |-> how.span, negate |-> how.negate]>>
                   ELSE << >>
      bound     == symbol_find(e.name, scope)
      any       == symbol_find(e.name, Len(symbols))
      placed    == symbols[bound].elem <= Len(elems)
  IN
  CASE e.t = "imm" -> Result(e.i, << >>)
    [] e.t = "dot" ->
         IF ctx # NoElem THEN Result(elems[ctx].addr, rlc(NoName))
         ELSE IF relocate THEN Result(0, rlc(NoName)) ELSE Later
    [] e.t = "ref" ->
         IF bound # 0 /\ symbols[bound].ce
         THEN IF phase = "parse" /\ ~placed THEN Later
              ELSE ce_eval(symbols[bound].expr, IF placed THEN symbols[bound].elem ELSE NoElem,
                           symbols[bound].scope, how)
         ELSE IF any # 0
         THEN IF symbols[any].ce THEN Hopeless ELSE Result(symbols[any].reladdr, rlc(NoName))
         ELSE IF relocate THEN Result(0, rlc(e.name)) ELSE Later
    [] e.t = "op1" ->
         LET a == ce_eval(e.l, ctx, scope, how)
         IN  IF a.ok THEN Result(Calc1(e.op, a.val), a.relocs) ELSE a
    [] e.t = "op2" ->
         LET a == ce_eval(e.l, ctx, scope, how)
             b == ce_eval(e.r, ctx, scope,
                          IF relocate THEN [how EXCEPT !.negate = RightSign(e.op, @)] ELSE None)
         IN  IF ~a.ok THEN a
             ELSE IF ~b.ok THEN b
             ELSE IF e.op = "/" /\ b.val = 0 THEN Hopeless
             ELSE Result(Calc2(e.op, a.val, b.val), a.relocs \o b.relocs)

Relocating(span) == [span |-> span, negate |-> FALSE]

\* ce_free: the .set symbols it strips of their expression.
RECURSIVE Consumed(_, _)
Consumed(e, scope) ==
  UNION {LET s == symbol_find(r.name, scope)
         IN  IF s # 0 /\ symbols[s].ce
             THEN {s} \cup Consumed(symbols[s].expr, symbols[s].scope) ELSE {} :
           r \in {r \in Subterms(e) : r.t = "ref"}}

-----------------------------------------------------------------------------
(* tenyr_parse: the actions of the grammar                                 *)

item == prog[pos]
AtItem(kind) == phase = "parse" /\ pos <= Len(prog) /\ item.kind = kind

\* ce_eval_const runs on every subexpression as soon as it is read, with the
\* addresses still at 0.
DiesParsing(e) ==
  \E s \in Subterms(e) : ce_eval(s, NoElem, Len(symbols), None).fatal

\* The expressions of the item.
Read == IF item.kind = "set" THEN {item.expr}
        ELSE {item.parts[i].expr : i \in DOMAIN item.parts} \ {None}

Parsed ==
  /\ pos' = pos + 1
  /\ errored' = (errored \/ \E e \in Read : ~Valid(e))
  /\ UNCHANGED <<prog, phase, relocs, left, toolarge, object, outfile, iofault>>

\* make_insn_general, make_data, make_zeros or make_utf32, then
\* add_symbol_to_insn for the labels, the innermost one first.
ParseData ==
  /\ AtItem("data")
  /\ \A e \in Read : ~DiesParsing(e)
  /\ LET n == Len(elems)
         new == [i \in DOMAIN item.parts |->
                   [part |-> item.parts[i], word |-> item.parts[i].word, addr |-> 0]]
         label(name) == [name |-> name, label |-> TRUE, elem |-> n + 1, expr |-> None,
                         scope |-> 0, ce |-> FALSE, reladdr |-> 0, global |-> FALSE]
         held(d) == item.parts[d.elem - n].expr # None
     IN  /\ elems' = elems \o new
         /\ symbols' = symbols \o [i \in DOMAIN item.labels |-> label(Reverse(item.labels)[i])]
         /\ deferred' = deferred \o SelectSeq([i \in DOMAIN item.parts |->
                            [elem |-> n + i, scope |-> Len(symbols)]], held)
  /\ Parsed /\ UNCHANGED globals

\* make_set and handle_directive: the expression's context is whatever element
\* comes to stand after the .set.
ParseSet ==
  /\ AtItem("set")
  /\ ~DiesParsing(item.expr)
  /\ symbols' = Append(symbols,
       [name |-> item.name, label |-> FALSE, elem |-> Len(elems) + 1, expr |-> item.expr,
        scope |-> Len(symbols), ce |-> TRUE, reladdr |-> 0, global |-> FALSE])
  /\ Parsed /\ UNCHANGED <<elems, globals, deferred>>

ParseGlobal ==
  /\ AtItem("global")
  /\ globals' = globals \cup {item.name}
  /\ pos' = pos + 1
  /\ UNCHANGED <<prog, phase, elems, symbols, deferred, relocs, left, errored, toolarge, object,
                 outfile, iofault>>

\* A syntax error ends tenyr_parse; a division by zero ends tas.
ParseFails ==
  /\ \/ AtItem("error")
     \/ (AtItem("data") \/ AtItem("set")) /\ \E e \in Read : DiesParsing(e)
     \/ phase = "parse" /\ pos > Len(prog) /\ errored
  /\ Fatal /\ UNCHANGED iofault

-----------------------------------------------------------------------------
(* assembly_inner                                                          *)

\* reladdr at element k: the sizes of the elements before it.
Place(k) ==
  LET size(j) == elems[j].part.size IN MapThenSumSet(size, 1 .. k - 1) % Limit

\* assembly_fixup_insns, first pass.
FixupAddresses ==
  /\ phase = "parse" /\ pos > Len(prog) /\ ~errored
  /\ phase' = "symbols"
  /\ elems' = [k \in DOMAIN elems |-> [elems[k] EXCEPT !.addr = Place(k)]]
  /\ symbols' = [s \in DOMAIN symbols |->
                   IF symbols[s].label
                   THEN [symbols[s] EXCEPT !.reladdr = Place(symbols[s].elem)] ELSE symbols[s]]
  /\ left' = Len(symbols)
  /\ UNCHANGED <<prog, pos, globals, deferred, relocs, errored, toolarge, object, outfile, iofault>>

\* Second pass: the value of a .set symbol, newest first, with no context.
SymbolValue == ce_eval(symbols[left].expr, NoElem, symbols[left].scope, Relocating(Limit))
AtSet == phase = "symbols" /\ left > 0 /\ ~symbols[left].label

FixupSymbol ==
  /\ AtSet /\ ~SymbolValue.fatal
  /\ symbols' = [symbols EXCEPT ![left].reladdr = SymbolValue.val]
  /\ relocs' = relocs \o SymbolValue.relocs
  /\ left' = left - 1
  /\ UNCHANGED <<prog, pos, phase, elems, globals, deferred, errored, toolarge, object, outfile,
                 iofault>>

SkipLabel ==
  /\ phase = "symbols" /\ left > 0 /\ symbols[left].label
  /\ left' = left - 1
  /\ UNCHANGED <<prog, pos, phase, parsed, relocs, errored, toolarge, object, outfile, iofault>>

FixupSymbolFails ==
  /\ AtSet /\ SymbolValue.fatal
  /\ Fatal /\ UNCHANGED iofault

\* check_symbols: only labels must be unique.
Duplicates ==
  \E s, t \in DOMAIN symbols :
    s # t /\ symbols[s].label /\ symbols[t].label /\ symbols[s].name = symbols[t].name

CheckFails == phase = "symbols" /\ left = 0 /\ Duplicates /\ Fatal /\ UNCHANGED iofault

\* mark_globals: a .global exports the newest symbol of its name, if there is one.
MarkGlobals ==
  /\ phase = "symbols" /\ left = 0 /\ ~Duplicates
  /\ phase' = "defer"
  /\ symbols' = [s \in DOMAIN symbols |->
                   [symbols[s] EXCEPT !.global =
                      symbols[s].name \in globals /\ s = symbol_find(symbols[s].name, Len(symbols))]]
  /\ left' = Len(deferred)
  /\ UNCHANGED <<prog, pos, elems, globals, deferred, relocs, errored, toolarge, object, outfile,
                 iofault>>

-----------------------------------------------------------------------------
(* fixup_deferred_exprs                                                    *)

entry   == deferred[left]
target  == elems[entry.elem].part
Value   == ce_eval(target.expr, entry.elem, entry.scope, Relocating(target.span))
Product == (Value.val * target.mult) % Limit

\* Mutant of Patched: the value is not cut to the width of the field.
PatchedUncut(word, v, span) == (word - (word % span)) + v

\* Only the low bits of the word, those of the field, change.
Patched(word, v, span) == (word - (word % span)) + (v % span)

FixupDeferred ==
  /\ phase = "defer" /\ left > 0 /\ ~Value.fatal
  /\ elems' = [elems EXCEPT ![entry.elem].word = Patched(@, Product, target.span)]
  /\ relocs' = relocs \o Value.relocs
  /\ toolarge' = (toolarge \/ (~target.packed /\ ~Fits(Product, target.span)))
  /\ symbols' = [s \in DOMAIN symbols |->
                   IF s \in Consumed(target.expr, entry.scope)
                   THEN [symbols[s] EXCEPT !.ce = FALSE] ELSE symbols[s]]
  /\ left' = left - 1
  /\ UNCHANGED <<prog, pos, phase, globals, deferred, errored, object, outfile, iofault>>

FixupDeferredFails ==
  /\ phase = "defer"
  /\ IF left > 0 THEN Value.fatal ELSE toolarge
  /\ Fatal /\ UNCHANGED iofault

FixupDone ==
  /\ phase = "defer" /\ left = 0 /\ ~toolarge
  /\ phase' = "emit"
  /\ left' = Len(elems)
  /\ UNCHANGED <<prog, pos, parsed, relocs, errored, toolarge, object, outfile, iofault>>

-----------------------------------------------------------------------------
(* The obj format, and the end of main                                     *)

\* obj_out_insn puts size words at word n of the buffer: the element's own
\* first, then what memset cleared - size bytes of it - or what was there.
Emitted(n, size, word, junk) ==
  [i \in 1 .. size |-> IF i = 1 THEN word
                       ELSE IF n + i <= InitWords \/ 4 * i <= size THEN 0 ELSE junk]

EmitElement ==
  /\ phase = "emit" /\ left > 0
  /\ LET e    == elems[Len(elems) + 1 - left]
         data == object.records[1].data
     IN  \E junk \in Junk :
           object' = [object EXCEPT !.records[1].data =
                        @ \o Emitted(Len(data), e.part.size, e.word, junk)]
  /\ left' = left - 1
  /\ UNCHANGED <<prog, pos, phase, parsed, relocs, errored, toolarge, outfile, iofault>>

\* obj_sym for every symbol: the value of one with a constant expression is
\* absolute.
ObjSym(s) == [name |-> s.name, value |-> s.reladdr, absolute |-> s.ce /\ ~Deferred(s.expr)]
\* obj_reloc
ObjRlc(r) == [name |-> r.name, addr |-> elems[r.elem].addr, span |-> r.span, negate |-> r.negate]

EmitTables ==
  /\ phase = "emit" /\ left = 0
  /\ phase' = "write"
  /\ LET exported(s) == s.global
         anchored(r) == r.elem # NoElem
         ss == Reverse(SelectSeq(symbols, exported))
         rs == Reverse(SelectSeq(relocs, anchored))
     IN  object' = [object EXCEPT !.symbols = [i \in DOMAIN ss |-> ObjSym(ss[i])],
                                  !.relocs  = [i \in DOMAIN rs |-> ObjRlc(rs[i])]]
  /\ UNCHANGED <<prog, pos, parsed, relocs, left, errored, toolarge, outfile, iofault>>

\* What fwrite was given may still be in the stream's buffer; main looks at the
\* results of neither fflush nor fclose.
Finish ==
  /\ phase = "write"
  /\ phase' = "ok" /\ outfile' \in Closed /\ iofault' = (outfile' = "cut")
  /\ UNCHANGED <<prog, pos, parsed, relocs, left, errored, toolarge, object>>

\* fwrite comes up short: put_sized calls fatal().
WriteFails == phase = "write" /\ iofault' = TRUE /\ Fatal

\* The process has exited; nothing more happens.
Terminated == phase \in Exited /\ UNCHANGED vars

Next ==
  \/ ParseData \/ ParseSet \/ ParseGlobal \/ ParseFails
  \/ FixupAddresses \/ FixupSymbol \/ SkipLabel \/ FixupSymbolFails
  \/ CheckFails \/ MarkGlobals
  \/ FixupDeferred \/ FixupDeferredFails \/ FixupDone
  \/ EmitElement \/ EmitTables \/ Finish \/ WriteFails
  \/ Terminated

Spec == Init /\ [][Next]_vars

-----------------------------------------------------------------------------
(* Properties                                                              *)

\* Every variable stays in its type: symbols, deferred expressions and
\* relocations refer to elements there are (a .set, to the place after them),
\* and patching a field never makes more than a word.
TypeOK ==
  /\ pos \in 1 .. Len(prog) + 1
  /\ phase \in {"parse", "symbols", "defer", "emit", "write"} \cup Exited
  /\ \A k \in DOMAIN elems : elems[k].word \in Word /\ elems[k].addr \in Word
  /\ \A s \in DOMAIN symbols :
       /\ symbols[s].name \in Names /\ symbols[s].reladdr \in Word
       /\ symbols[s].elem \in 1 .. Len(elems) + 1 /\ symbols[s].scope \in 0 .. s - 1
       /\ symbols[s].label => symbols[s].elem \in DOMAIN elems /\ ~symbols[s].ce
  /\ globals \subseteq Names
  /\ \A d \in DOMAIN deferred :
       deferred[d].elem \in DOMAIN elems /\ deferred[d].scope \in 0 .. Len(symbols)
  /\ \A r \in DOMAIN relocs : relocs[r].elem \in DOMAIN elems \cup {NoElem}
  /\ left \in Nat
  /\ \A i \in DOMAIN object.records[1].data : object.records[1].data[i] \in Word
  /\ outfile \in {"empty", "whole", "cut", "absent"}
  /\ {errored, toolarge, iofault} \subseteq BOOLEAN

=============================================================================
