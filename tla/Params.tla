------------------------------- MODULE Params -------------------------------
(***************************************************************************)
(* The parameters of the tools (src/src/param.c) and the callers that set  *)
(* them: -p options, tsim, tas, and plugins through spi.c.                 *)
(*                                                                         *)
(* A pointer is a block of the heap, or a literal, which is then its own   *)
(* text.  A block holds a key, a value, or both when it is the copy of an  *)
(* option.  A block that was freed may be handed out again at once.        *)
(***************************************************************************)
EXTENDS Integers, Sequences, FiniteSets, SequencesExt

CONSTANTS Keys, Vals,   \* the texts, and the literals of those texts
          Blocks,       \* the heap's blocks; this bounds the calls
          Slots,        \* DEFAULT_PARAMS_COUNT
          FreeKeys      \* the values of free_key with which plugins call

ASSUME KindsAssumption ==
  /\ Keys \cap Blocks = {} /\ Vals \cap Blocks = {}
  /\ Slots \in Nat \ {0} /\ FreeKeys \subseteq BOOLEAN

VARIABLES params,       \* pstate->params, as far as params_count
          params_size,
          heap,         \* allocated block |-> what it holds
          open,         \* between param_init and param_destroy
          fault,        \* free() was given something that is not allocated
          taken         \* free() was given a key that its plugin has kept

vars == <<params, params_size, heap, open, fault, taken>>

param_init ==
  /\ params = <<>> /\ params_size = Slots /\ open = TRUE
  /\ heap = <<>> /\ fault = FALSE /\ taken = FALSE

Init == param_init

KeyText(p) == IF p \in Keys THEN p ELSE heap[p].key
ValText(p) == IF p \in Vals THEN p ELSE heap[p].val

-----------------------------------------------------------------------------
(* The table. *)

\* Mutant of lfind: keys are compared as pointers.
lfindPointer(text) == SelectInSeq(params, LAMBDA e : e.key = text)

\* The place of the entry with that key, or 0.
lfind(text) == SelectInSeq(params, LAMBDA e : KeyText(e.key) = text)

\* The values of a key.
param_get(text) ==
  IF lfind(text) = 0 THEN <<>>
  ELSE LET list == params[lfind(text)].list
       IN  [i \in DOMAIN list |-> ValText(list[i].value)]

\* Mutant of Grown: the table grows one entry late.
GrownLate == IF params_size < Len(params) THEN 2 * params_size ELSE params_size

Grown == IF params_size <= Len(params) THEN 2 * params_size ELSE params_size

\* Mutant of param_free: every value is freed.
param_freeAll(e) ==
  [j \in (IF e.free_key THEN {0} ELSE {}) \cup DOMAIN e.list |->
     IF j = 0 THEN e.key ELSE e.list[j].value]

\* What param_free gives to free(): place 0 is the key's, the others are the
\* values'.  The order does not matter.
param_free(e) ==
  [j \in (IF e.free_key THEN {0} ELSE {}) \cup {i \in DOMAIN e.list : e.list[i].free_value} |->
     IF j = 0 THEN e.key ELSE e.list[j].value]

\* free() of all of these.
Freed(ps) == fault' = (fault \/ ~Range(ps) \subseteq DOMAIN heap \/ ~IsInjective(ps))

\* The heap once fresh blocks were allocated and others freed.
Heap(fresh, ps) ==
  [b \in (DOMAIN heap \cup DOMAIN fresh) \ Range(ps) |->
     IF b \in DOMAIN fresh THEN fresh[b] ELSE heap[b]]

\* A new list replaces an entry, unless the entry has this very key pointer;
\* then only the list is new, and the old one is lost.
Replaced(q, key, free_key, node) ==
  IF q.key # key THEN [key |-> key, free_key |-> free_key, list |-> <<node>>]
  ELSE [q EXCEPT !.list = <<node>>]

\* The call c, made with the blocks of fresh.
param_set(c, fresh) ==
  LET i    == lfind(c.text)
      q    == IF i # 0 THEN params[i]
              ELSE [key |-> c.key, free_key |-> c.free_key, list |-> <<>>]
      node == [value |-> c.val, free_value |-> c.free_value]
      gone == IF c.replace /\ q.key # c.key THEN param_free(q) ELSE <<>>
      new  == IF c.replace THEN Replaced(q, c.key, c.free_key, node)
              ELSE [q EXCEPT !.list = Append(@, node)]
  IN  /\ params_size' = Grown
      /\ params' = IF i = 0 THEN Append(params, new) ELSE [params EXCEPT ![i] = new]
      /\ heap' = Heap(fresh, gone)
      /\ Freed(gone)
      /\ UNCHANGED open

-----------------------------------------------------------------------------
(* The callers. *)

Fresh == Blocks \ DOMAIN heap

\* An option `key=value' or `key+=value': both live in one copy of it.
param_add(k, v, plus) ==
  /\ \E b \in Fresh :
       param_set([key |-> b, text |-> k, val |-> b, replace |-> ~plus,
                  free_key |-> TRUE, free_value |-> FALSE],
                 [x \in {b} |-> [key |-> k, val |-> v]])
  /\ UNCHANGED taken

\* `assembling', once for each input file, and once in tsim.
SetAssembling(k, v) ==
  /\ param_set([key |-> k, text |-> k, val |-> v, replace |-> TRUE,
                free_key |-> FALSE, free_value |-> FALSE], <<>>)
  /\ UNCHANGED taken

\* `paths.share', behind what the options have given.
SetPath(k, v) ==
  /\ \E b \in Fresh :
       param_set([key |-> k, text |-> k, val |-> b, replace |-> FALSE,
                  free_key |-> FALSE, free_value |-> TRUE],
                 [x \in {b} |-> [key |-> k, val |-> v]])
  /\ UNCHANGED taken

\* A plugin behind the SPI master: the key is put together on the heap, and
\* the plugin's own is freed whatever free_key says.  A key that is handed over
\* is allocated for this call and gone with it, so that the heap here never has
\* it; one that is not may be a literal, or a block the plugin goes on using.
wrapped_param_set(k, v, replace, free_key) ==
  /\ \E b, d \in Fresh :
       /\ b # d
       /\ param_set([key |-> b, text |-> k, val |-> d, replace |-> replace,
                     free_key |-> TRUE, free_value |-> TRUE],
                    [x \in {b, d} |-> [key |-> k, val |-> v]])
  /\ taken' = (taken \/ ~free_key)

param_destroy ==
  /\ LET gone == [x \in UNION {{i} \X DOMAIN param_free(params[i]) : i \in DOMAIN params} |->
                    param_free(params[x[1]])[x[2]]]
     IN  heap' = Heap(<<>>, gone) /\ Freed(gone)
  /\ params' = <<>> /\ open' = FALSE
  /\ UNCHANGED <<params_size, taken>>

Call(k, v) ==
  \/ \E flag \in BOOLEAN :
       \/ param_add(k, v, flag)
       \/ \E free_key \in FreeKeys : wrapped_param_set(k, v, flag, free_key)
  \/ SetAssembling(k, v) \/ SetPath(k, v)

Next == open /\ (param_destroy \/ \E k \in Keys, v \in Vals : Call(k, v))

Spec == Init /\ [][Next]_vars

-----------------------------------------------------------------------------
(* Properties. *)

Node  == [value : Blocks \cup Vals, free_value : BOOLEAN]
Entry == [key : Blocks \cup Keys, free_key : BOOLEAN, list : Seq(Node)]

\* The types, and room for every entry.
TypeOK ==
  /\ params \in Seq(Entry) /\ params_size \in Nat /\ Len(params) <= params_size
  /\ DOMAIN heap \subseteq Blocks
  /\ \A b \in DOMAIN heap : heap[b] \in [key : Keys, val : Vals]
  /\ open \in BOOLEAN /\ fault \in BOOLEAN /\ taken \in BOOLEAN

\* A plugin that sets a parameter keeps the key it does not hand over: that is
\* what the argument free_key is for (plugin_portable.h).
KeysKept == ~taken

\* Nothing is freed twice and nothing is freed that the table does not own,
\* be it a literal or a plugin's own key, and every pointer in the
\* table can be followed: values share a block with a key that is not their
\* own entry's, entries change owners under two flags, and a block comes back
\* with other contents as soon as it was freed.
Sound ==
  /\ ~fault /\ KeysKept
  /\ \A i \in DOMAIN params :
       /\ params[i].key \in DOMAIN heap \cup Keys
       /\ \A j \in DOMAIN params[i].list : params[i].list[j].value \in DOMAIN heap \cup Vals

\* The table is a dictionary: options replace or extend exactly the values of
\* their own key, in order, through any mixture of callers.
Dict == INSTANCE ParamDict WITH dict <- [k \in Keys |-> param_get(k)]
KeepsContract == Dict!Spec

=============================================================================
