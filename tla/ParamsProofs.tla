---------------------------- MODULE ParamsProofs ----------------------------
(***************************************************************************)
(* Proofs about Params.tla, for any keys, values, heap and initial size.   *)
(*                                                                         *)
(* The argument is one of ownership.  An entry owns what param_free would  *)
(* give to free() for it.  It owns nothing twice, and what it owns no      *)
(* other entry points to; a value that lies in the same block as a key is  *)
(* in the entry of that key, or in a block that no entry owns.             *)
(***************************************************************************)
EXTENDS Params, SequenceTheorems, TLAPS

-----------------------------------------------------------------------------
(* The invariant.  e and f are entries, h is a heap.                       *)

Pointers(e) == {e.key} \cup {e.list[j].value : j \in DOMAIN e.list}
Owned(e)    == Range(param_free(e))

EntryOK(h, e) ==
  /\ e \in Entry
  /\ e.key \in DOMAIN h \cup Keys
  /\ \A j \in DOMAIN e.list : e.list[j].value \in DOMAIN h \cup Vals
  /\ e.free_key => e.key \in DOMAIN h
  /\ \A j \in DOMAIN e.list : e.list[j].free_value => e.list[j].value \in DOMAIN h
  /\ IsInjective(param_free(e))

Apart(e, f) == Owned(e) \cap Pointers(f) = {}

\* The text of a key.
Text(h, p) == IF p \in Keys THEN p ELSE h[p].key

HeapOK(h) ==
  /\ DOMAIN h \subseteq Blocks
  /\ \A b \in DOMAIN h : h[b] \in [key : Keys, val : Vals]

TableOK ==
  /\ params \in Seq(Entry)
  /\ \A i \in DOMAIN params : EntryOK(heap, params[i])
  /\ \A i, m \in DOMAIN params : i # m =>
       /\ Apart(params[i], params[m])
       /\ Text(heap, params[i].key) # Text(heap, params[m].key)

Room == params_size \in Nat /\ params_size >= 1 /\ Len(params) <= params_size

Inv == TableOK /\ HeapOK(heap) /\ Room /\ open \in BOOLEAN /\ fault = FALSE

-----------------------------------------------------------------------------
(* Entries.                                                                *)

\* What an entry owns, place by place.
LEMMA FreePlaces ==
  ASSUME NEW e \in Entry
  PROVE  /\ e.list \in Seq(Node) /\ DOMAIN e.list = 1 .. Len(e.list) /\ 0 \notin DOMAIN e.list
         /\ Len(e.list) \in Nat
         /\ DOMAIN param_free(e) \subseteq {0} \cup DOMAIN e.list
         /\ 0 \in DOMAIN param_free(e) => e.free_key /\ param_free(e)[0] = e.key
         /\ e.free_key => 0 \in DOMAIN param_free(e)
         /\ \A j \in DOMAIN e.list :
              /\ j \in DOMAIN param_free(e) =>
                   e.list[j].free_value /\ param_free(e)[j] = e.list[j].value
              /\ e.list[j].free_value => j \in DOMAIN param_free(e)
         /\ Owned(e) \subseteq Pointers(e)
<1>1. /\ e.list \in Seq(Node) /\ DOMAIN e.list = 1 .. Len(e.list) /\ 0 \notin DOMAIN e.list
      /\ Len(e.list) \in Nat
  BY DEF Entry
<1>2. /\ DOMAIN param_free(e) \subseteq {0} \cup DOMAIN e.list
      /\ 0 \in DOMAIN param_free(e) => e.free_key /\ param_free(e)[0] = e.key
      /\ e.free_key => 0 \in DOMAIN param_free(e)
  BY <1>1, Zenon DEF param_free
<1>3. ASSUME NEW j \in DOMAIN e.list
      PROVE  /\ j \in DOMAIN param_free(e) =>
                  e.list[j].free_value /\ param_free(e)[j] = e.list[j].value
             /\ e.list[j].free_value => j \in DOMAIN param_free(e)
  BY <1>1, <1>3, Zenon DEF param_free
<1>4. Owned(e) \subseteq Pointers(e)
  BY <1>1, <1>2, <1>3 DEF Owned, Pointers, Range
<1>5. QED
  BY <1>1, <1>2, <1>3, <1>4

\* An entry stays in order while the blocks it points to stay allocated.
LEMMA EntryKept ==
  ASSUME NEW h, NEW g, NEW e, EntryOK(h, e), Pointers(e) \cap DOMAIN h \subseteq DOMAIN g
  PROVE  EntryOK(g, e)
BY DEF EntryOK, Pointers

\* What an entry owns is allocated.
LEMMA OwnedAllocated ==
  ASSUME NEW h, NEW e, EntryOK(h, e)
  PROVE  Owned(e) \subseteq DOMAIN h
<1>1. e \in Entry
  BY DEF EntryOK
<1>2. ASSUME NEW j \in DOMAIN param_free(e) PROVE param_free(e)[j] \in DOMAIN h
  <2>1. CASE j = 0
    BY <1>1, <1>2, <2>1, FreePlaces DEF EntryOK
  <2>2. CASE j # 0
    BY <1>1, <1>2, <2>2, FreePlaces DEF EntryOK
  <2>3. QED
    BY <2>1, <2>2
<1>3. QED
  BY <1>2 DEF Owned, Range

-----------------------------------------------------------------------------
(* Searching.                                                              *)

\* As no two entries have the same key, the search finds the entry of a key
\* wherever it is.
Finds ==
  /\ \A t, i : i \in DOMAIN params /\ Text(heap, params[i].key) = t => lfind(t) = i
  /\ \A t : (\A i \in DOMAIN params : Text(heap, params[i].key) # t) => lfind(t) = 0
  /\ \A t : \/ lfind(t) = 0 /\ \A i \in DOMAIN params : Text(heap, params[i].key) # t
            \/ lfind(t) \in DOMAIN params /\ Text(heap, params[lfind(t)].key) = t

LEMMA SearchFinds == TableOK => Finds
<1> SUFFICES ASSUME TableOK PROVE Finds
  OBVIOUS
<1>1. DOMAIN params = 1 .. Len(params) /\ Len(params) \in Nat
  BY DEF TableOK
<1>2. ASSUME NEW t, NEW i \in DOMAIN params, Text(heap, params[i].key) = t PROVE lfind(t) = i
  <2> DEFINE S == {j \in 1 .. Len(params) : Text(heap, params[j].key) = t}
  <2>1. S = {i}
    BY <1>1, <1>2 DEF TableOK
  <2>2. lfind(t) = IF S # {} THEN Min(S) ELSE 0
    BY Zenon DEF lfind, SelectInSeq, KeyText, Text
  <2>3. Min({i}) = i
    <3>1. i \in Int
      BY <1>1
    <3>2. Min({i}) = CHOOSE x \in {i} : \A y \in {i} : x =< y
      BY DEF Min
    <3>3. \A x : x \in {i} /\ (\A y \in {i} : x =< y) <=> x = i
      BY <3>1
    <3>4. QED
      BY <3>2, <3>3
  <2>4. QED
    BY <2>1, <2>2, <2>3
<1>3. ASSUME NEW t, \A i \in DOMAIN params : Text(heap, params[i].key) # t PROVE lfind(t) = 0
  <2> DEFINE S == {j \in 1 .. Len(params) : Text(heap, params[j].key) = t}
  <2>1. S = {}
    BY <1>1, <1>3
  <2>2. lfind(t) = IF S # {} THEN Min(S) ELSE 0
    BY Zenon DEF lfind, SelectInSeq, KeyText, Text
  <2>3. QED
    BY <2>1, <2>2
<1>4. QED
  BY <1>2, <1>3 DEF Finds

LEMMA SearchFindsNext == TableOK' => Finds'
BY SearchFinds, PTL

-----------------------------------------------------------------------------
(* Calls.                                                                  *)

\* What all the callers of param_set keep to: key and value are literals,
\* which are not to be freed, or lie in blocks allocated for this call, and
\* one block is not given away twice.
CallOK(c, fresh, v) ==
  /\ c \in [key : Blocks \cup Keys, text : Keys, val : Blocks \cup Vals,
            replace : BOOLEAN, free_key : BOOLEAN, free_value : BOOLEAN]
  /\ HeapOK(fresh) /\ DOMAIN fresh \cap DOMAIN heap = {} /\ v \in Vals
  /\ IF c.key \in Keys THEN c.key = c.text /\ ~c.free_key
     ELSE c.key \in DOMAIN fresh /\ fresh[c.key].key = c.text
  /\ IF c.val \in Vals THEN c.val = v /\ ~c.free_value
     ELSE c.val \in DOMAIN fresh /\ fresh[c.val].val = v
  /\ c.free_key /\ c.free_value => c.key # c.val

\* A call from the program is one of those.
LEMMA Callers ==
  ASSUME NEW k \in Keys, NEW v \in Vals, Call(k, v)
  PROVE  \E c, fresh : CallOK(c, fresh, v) /\ c.text = k /\ param_set(c, fresh)
<1>1. ASSUME NEW plus \in BOOLEAN, param_add(k, v, plus)
      PROVE  \E c, fresh : CallOK(c, fresh, v) /\ c.text = k /\ param_set(c, fresh)
  <2>1. PICK b \in Fresh :
          param_set([key |-> b, text |-> k, val |-> b, replace |-> ~plus,
                     free_key |-> TRUE, free_value |-> FALSE],
                    [x \in {b} |-> [key |-> k, val |-> v]])
    BY <1>1 DEF param_add
  <2>2. b \in Blocks /\ b \notin DOMAIN heap /\ b \notin Keys /\ b \notin Vals
    BY KindsAssumption DEF Fresh
  <2>3. HeapOK([x \in {b} |-> [key |-> k, val |-> v]])
    BY <2>2 DEF HeapOK
  <2>4. CallOK([key |-> b, text |-> k, val |-> b, replace |-> ~plus,
                free_key |-> TRUE, free_value |-> FALSE],
               [x \in {b} |-> [key |-> k, val |-> v]], v)
    BY <2>2, <2>3 DEF CallOK
  <2>5. QED
    BY <2>1, <2>4
<1>2. ASSUME NEW replace \in BOOLEAN, NEW free_key \in FreeKeys,
             wrapped_param_set(k, v, replace, free_key)
      PROVE  \E c, fresh : CallOK(c, fresh, v) /\ c.text = k /\ param_set(c, fresh)
  <2>1. PICK b \in Fresh, d \in Fresh :
          /\ b # d
          /\ param_set([key |-> b, text |-> k, val |-> d, replace |-> replace,
                        free_key |-> TRUE, free_value |-> TRUE],
                       [x \in {b, d} |-> [key |-> k, val |-> v]])
    BY <1>2 DEF wrapped_param_set
  <2>2. /\ b \in Blocks /\ b \notin DOMAIN heap /\ b \notin Keys /\ b \notin Vals
        /\ d \in Blocks /\ d \notin DOMAIN heap /\ d \notin Keys /\ d \notin Vals
    BY KindsAssumption DEF Fresh
  <2>3. HeapOK([x \in {b, d} |-> [key |-> k, val |-> v]])
    BY <2>2 DEF HeapOK
  <2>4. CallOK([key |-> b, text |-> k, val |-> d, replace |-> replace,
                free_key |-> TRUE, free_value |-> TRUE],
               [x \in {b, d} |-> [key |-> k, val |-> v]], v)
    BY <2>1, <2>2, <2>3 DEF CallOK
  <2>5. QED
    BY <2>1, <2>4
<1>3. ASSUME SetAssembling(k, v)
      PROVE  \E c, fresh : CallOK(c, fresh, v) /\ c.text = k /\ param_set(c, fresh)
  <2>1. CallOK([key |-> k, text |-> k, val |-> v, replace |-> TRUE,
                free_key |-> FALSE, free_value |-> FALSE], << >>, v)
    BY KindsAssumption DEF CallOK, HeapOK
  <2>2. QED
    BY <1>3, <2>1 DEF SetAssembling
<1>4. ASSUME SetPath(k, v)
      PROVE  \E c, fresh : CallOK(c, fresh, v) /\ c.text = k /\ param_set(c, fresh)
  <2>1. PICK b \in Fresh :
          param_set([key |-> k, text |-> k, val |-> b, replace |-> FALSE,
                     free_key |-> FALSE, free_value |-> TRUE],
                    [x \in {b} |-> [key |-> k, val |-> v]])
    BY <1>4 DEF SetPath
  <2>2. b \in Blocks /\ b \notin DOMAIN heap /\ b \notin Keys /\ b \notin Vals
    BY KindsAssumption DEF Fresh
  <2>3. HeapOK([x \in {b} |-> [key |-> k, val |-> v]])
    BY <2>2 DEF HeapOK
  <2>4. CallOK([key |-> k, text |-> k, val |-> b, replace |-> FALSE,
                free_key |-> FALSE, free_value |-> TRUE],
               [x \in {b} |-> [key |-> k, val |-> v]], v)
    BY <2>2, <2>3 DEF CallOK
  <2>5. QED
    BY <2>1, <2>4
<1>5. QED
  BY <1>1, <1>2, <1>3, <1>4 DEF Call

Item(c)        == [value |-> c.val, free_value |-> c.free_value]
First(c)       == [key |-> c.key, free_key |-> c.free_key, list |-> <<Item(c)>>]
Extended(e, c) == [e EXCEPT !.list = Append(@, Item(c))]

\* A call's pointers are literals or point into its own blocks.
LEMMA CallPointers ==
  ASSUME NEW c, NEW fresh, NEW v, CallOK(c, fresh, v)
  PROVE  /\ c.key \in DOMAIN fresh \cup Keys /\ c.val \in DOMAIN fresh \cup Vals
         /\ c.free_key => c.key \in DOMAIN fresh
         /\ c.free_value => c.val \in DOMAIN fresh
         /\ Item(c) \in Node
         /\ c.free_key \in BOOLEAN /\ c.key \in Blocks \cup Keys
BY DEF CallOK, Item, Node

\* A new list.
LEMMA FirstEntry ==
  ASSUME NEW c, NEW fresh, NEW v, CallOK(c, fresh, v), NEW g, DOMAIN fresh \subseteq DOMAIN g
  PROVE  /\ EntryOK(g, First(c)) /\ Owned(First(c)) \subseteq DOMAIN fresh
         /\ Pointers(First(c)) = {c.key, c.val}
<1> DEFINE e == First(c)
<1>1. /\ c.key \in DOMAIN fresh \cup Keys /\ c.val \in DOMAIN fresh \cup Vals
      /\ c.free_key => c.key \in DOMAIN fresh
      /\ c.free_value => c.val \in DOMAIN fresh
      /\ Item(c) \in Node
      /\ c.free_key \in BOOLEAN /\ c.key \in Blocks \cup Keys
  BY CallPointers
<1>2. /\ e.list = <<Item(c)>> /\ e.key = c.key /\ e.free_key = c.free_key
      /\ DOMAIN e.list = {1} /\ e.list[1] = Item(c)
  BY DEF First
<1>3. Item(c).value = c.val /\ Item(c).free_value = c.free_value
  BY DEF Item
<1>4. e \in Entry
  <2>1. <<Item(c)>> \in Seq(Node)
    BY <1>1
  <2>2. QED
    BY <1>1, <2>1 DEF First, Entry
<1> HIDE DEF e
<1>5. IsInjective(param_free(e))
  <2>1. ASSUME NEW a \in DOMAIN param_free(e), NEW b \in DOMAIN param_free(e),
               param_free(e)[a] = param_free(e)[b]
        PROVE  a = b
    <3>1. a \in {0, 1} /\ b \in {0, 1}
      BY <1>2, <1>4, FreePlaces
    <3>2. SUFFICES ASSUME a # b PROVE FALSE
      OBVIOUS
    <3>3. 0 \in DOMAIN param_free(e) /\ 1 \in DOMAIN param_free(e)
          /\ param_free(e)[0] = param_free(e)[1]
      BY <2>1, <3>1, <3>2
    <3>4. c.free_key /\ c.free_value /\ c.key = c.val
      BY <1>2, <1>3, <1>4, <3>3, FreePlaces
    <3>5. QED
      BY <3>4 DEF CallOK
  <2>2. QED
    BY <2>1 DEF IsInjective
<1>6. EntryOK(g, e)
  BY <1>1, <1>2, <1>3, <1>4, <1>5 DEF EntryOK
<1>7. EntryOK(fresh, e)
  BY <1>1, <1>2, <1>3, <1>4, <1>5 DEF EntryOK
<1>8. Owned(e) \subseteq DOMAIN fresh
  BY <1>7, OwnedAllocated
<1>9. Pointers(e) = {c.key, c.val}
  BY <1>2, <1>3 DEF Pointers
<1>10. QED
  BY <1>6, <1>8, <1>9 DEF e

\* A longer list.
LEMMA ExtendedEntry ==
  ASSUME NEW c, NEW fresh, NEW v, CallOK(c, fresh, v), NEW e, EntryOK(heap, e),
         NEW g, DOMAIN g = DOMAIN heap \cup DOMAIN fresh
  PROVE  /\ EntryOK(g, Extended(e, c))
         /\ Owned(Extended(e, c)) \subseteq Owned(e) \cup DOMAIN fresh
         /\ Pointers(Extended(e, c)) = Pointers(e) \cup {c.val}
<1> DEFINE f == Extended(e, c)
           n == Len(e.list) + 1
<1>1. /\ c.val \in DOMAIN fresh \cup Vals /\ Item(c) \in Node
      /\ c.free_value => c.val \in DOMAIN fresh
  BY CallPointers
<1>2. /\ e \in Entry /\ e.list \in Seq(Node) /\ DOMAIN e.list = 1 .. Len(e.list)
      /\ Len(e.list) \in Nat
  BY FreePlaces DEF EntryOK
<1>3. /\ Append(e.list, Item(c)) \in Seq(Node) /\ Len(Append(e.list, Item(c))) = n
      /\ \A j \in 1 .. Len(e.list) : Append(e.list, Item(c))[j] = e.list[j]
      /\ Append(e.list, Item(c))[n] = Item(c)
  BY <1>1, <1>2, AppendProperties
<1>4. f.list = Append(e.list, Item(c)) /\ f.key = e.key /\ f.free_key = e.free_key /\ f \in Entry
  BY <1>2, <1>3 DEF Extended, Entry
<1>5. DOMAIN f.list = DOMAIN e.list \cup {n} /\ n \notin DOMAIN e.list /\ n # 0
  BY <1>2, <1>3, <1>4
<1>6. (\A j \in DOMAIN e.list : f.list[j] = e.list[j]) /\ f.list[n] = Item(c)
  BY <1>2, <1>3, <1>4
<1>7. Item(c).value = c.val /\ Item(c).free_value = c.free_value
  BY DEF Item
<1> HIDE DEF f, n
<1>8. ASSUME NEW j \in DOMAIN param_free(f), j # n
      PROVE  j \in DOMAIN param_free(e) /\ param_free(f)[j] = param_free(e)[j]
  <2>1. CASE j = 0
    BY <1>2, <1>4, <1>8, <2>1, FreePlaces
  <2>2. CASE j # 0
    <3>1. j \in DOMAIN e.list /\ f.list[j].free_value /\ f.list[j] = e.list[j]
      BY <1>4, <1>5, <1>6, <1>8, <2>2, FreePlaces
    <3>2. QED
      BY <1>2, <1>4, <1>8, <2>2, <3>1, FreePlaces, SMTT(30)
  <2>3. QED
    BY <2>1, <2>2
<1>9. n \in DOMAIN param_free(f) => param_free(f)[n] = c.val /\ c.val \in DOMAIN fresh
  BY <1>1, <1>4, <1>5, <1>6, <1>7, FreePlaces, SMTT(30)
<1>10. \A j \in DOMAIN param_free(e) : param_free(e)[j] \notin DOMAIN fresh
  <2>1. Owned(e) \subseteq DOMAIN heap
    BY OwnedAllocated
  <2>2. QED
    BY <2>1 DEF CallOK, Owned, Range
<1>11. IsInjective(param_free(f))
  <2>1. ASSUME NEW a \in DOMAIN param_free(f), NEW b \in DOMAIN param_free(f),
               param_free(f)[a] = param_free(f)[b]
        PROVE  a = b
    <3>1. CASE a = n \/ b = n
      BY <1>8, <1>9, <1>10, <2>1, <3>1
    <3>2. CASE a # n /\ b # n
      <4>1. a \in DOMAIN param_free(e) /\ b \in DOMAIN param_free(e)
            /\ param_free(e)[a] = param_free(e)[b]
        BY <1>8, <2>1, <3>2
      <4>2. QED
        BY <4>1 DEF EntryOK, IsInjective
    <3>3. QED
      BY <3>1, <3>2
  <2>2. QED
    BY <2>1 DEF IsInjective
<1>12. Owned(f) \subseteq Owned(e) \cup DOMAIN fresh
  BY <1>8, <1>9 DEF Owned, Range
<1>13. Pointers(f) = Pointers(e) \cup {c.val}
  BY <1>4, <1>5, <1>6, <1>7 DEF Pointers
<1>14. EntryOK(g, f)
  <2>1. f.key \in DOMAIN g \cup Keys /\ (f.free_key => f.key \in DOMAIN g)
    BY <1>4 DEF EntryOK
  <2>2. ASSUME NEW j \in DOMAIN f.list
        PROVE  /\ f.list[j].value \in DOMAIN g \cup Vals
               /\ f.list[j].free_value => f.list[j].value \in DOMAIN g
    <3>1. CASE j = n
      BY <1>1, <1>6, <1>7, <3>1
    <3>2. CASE j # n
      BY <1>5, <1>6, <3>2 DEF EntryOK
    <3>3. QED
      BY <3>1, <3>2
  <2>3. QED
    BY <1>4, <1>11, <2>1, <2>2 DEF EntryOK
<1>15. QED
  BY <1>12, <1>13, <1>14 DEF f

-----------------------------------------------------------------------------
(* param_set.                                                              *)

Place(t) == IF lfind(t) = 0 THEN Len(params) + 1 ELSE lfind(t)

\* What the call frees: nothing, or what the entry it replaces owns.
Gone(c) ==
  IF c.replace /\ lfind(c.text) # 0 /\ params[lfind(c.text)].key # c.key
  THEN Owned(params[lfind(c.text)]) ELSE {}

\* An entry whose key is the very literal of the call owns no key.
LEMMA SameKey ==
  ASSUME Inv, NEW c, NEW fresh, NEW v, CallOK(c, fresh, v),
         NEW i \in DOMAIN params, params[i].key = c.key
  PROVE  c.key \in Keys /\ params[i].free_key = FALSE /\ c.free_key = FALSE
<1>1. params[i] \in Entry /\ params[i].key \in DOMAIN heap \cup Keys
  BY DEF Inv, TableOK, EntryOK
<1>2. c.key \in Keys
  BY <1>1 DEF CallOK
<1>3. c.key \notin DOMAIN heap /\ ~c.free_key /\ c.free_key \in BOOLEAN
  BY <1>2, KindsAssumption DEF Inv, HeapOK, CallOK
<1>4. ~params[i].free_key
  BY <1>3 DEF Inv, TableOK, EntryOK
<1>5. params[i].free_key \in BOOLEAN
  BY <1>1 DEF Entry
<1>6. QED
  BY <1>2, <1>3, <1>4, <1>5

\* The entries but n stay.
OthersStay(n) == \A m \in DOMAIN params : m # n => params'[m] = params[m]

LEMMA SetEffect ==
  ASSUME Inv, NEW c, NEW fresh, NEW v, CallOK(c, fresh, v), param_set(c, fresh),
         NEW n, n = Place(c.text)
  PROVE  /\ DOMAIN params' = DOMAIN params \cup {n} /\ params' \in Seq(Entry)
         /\ n \in Nat /\ (lfind(c.text) = 0 <=> n \notin DOMAIN params)
         /\ Len(params') <= Len(params) + 1 /\ Len(params') \in Nat
         /\ OthersStay(n)
         /\ c.replace \/ lfind(c.text) = 0 => params'[n] = First(c)
         /\ ~c.replace /\ lfind(c.text) # 0 => params'[n] = Extended(params[n], c)
         /\ DOMAIN heap' = (DOMAIN heap \cup DOMAIN fresh) \ Gone(c)
         /\ \A b \in DOMAIN heap' :
              heap'[b] = IF b \in DOMAIN fresh THEN fresh[b] ELSE heap[b]
         /\ fault' = FALSE /\ open' = open /\ params_size' = Grown
<1> DEFINE i    == lfind(c.text)
           q    == IF i # 0 THEN params[i]
                   ELSE [key |-> c.key, free_key |-> c.free_key, list |-> <<>>]
           gone == IF c.replace /\ q.key # c.key THEN param_free(q) ELSE <<>>
           new  == IF c.replace THEN Replaced(q, c.key, c.free_key, Item(c))
                   ELSE [q EXCEPT !.list = Append(@, Item(c))]
<1>1. /\ params \in Seq(Entry) /\ DOMAIN params = 1 .. Len(params) /\ Len(params) \in Nat
      /\ \A m \in DOMAIN params : EntryOK(heap, params[m]) /\ params[m] \in Entry
  BY DEF Inv, TableOK, EntryOK
<1>2. i = 0 \/ i \in DOMAIN params
  BY SearchFinds DEF Inv, Finds
<1>3. i = 0 <=> n \notin DOMAIN params
  BY <1>1, <1>2 DEF Place
<1>4. /\ params_size' = Grown /\ open' = open
      /\ params' = IF i = 0 THEN Append(params, new) ELSE [params EXCEPT ![i] = new]
      /\ heap' = Heap(fresh, gone)
      /\ fault' = (fault \/ ~Range(gone) \subseteq DOMAIN heap \/ ~IsInjective(gone))
  BY DEF param_set, Freed, Item
<1>5. Range(gone) = Gone(c) /\ Range(gone) \subseteq DOMAIN heap /\ IsInjective(gone)
  <2>1. CASE c.replace /\ i # 0 /\ params[i].key # c.key
    <3>1. gone = param_free(params[i]) /\ Range(gone) = Gone(c)
      BY <2>1 DEF Gone, Owned
    <3>2. QED
      BY <1>1, <1>2, <2>1, <3>1, OwnedAllocated DEF Owned, EntryOK
  <2>2. CASE ~(c.replace /\ i # 0 /\ params[i].key # c.key)
    <3>1. gone = << >> /\ Gone(c) = {}
      BY <2>2 DEF Gone
    <3>2. Range(<<>>) = {} /\ IsInjective(<<>>)
      BY DEF Range, IsInjective
    <3>3. QED
      BY <3>1, <3>2
  <2>3. QED
    BY <2>1, <2>2
<1>6. /\ DOMAIN heap' = (DOMAIN heap \cup DOMAIN fresh) \ Gone(c)
      /\ \A b \in DOMAIN heap' : heap'[b] = IF b \in DOMAIN fresh THEN fresh[b] ELSE heap[b]
  <2> HIDE DEF gone
  <2>1. QED
    BY <1>4, <1>5, SMTT(30) DEF Heap
<1>7. fault' = FALSE
  BY <1>4, <1>5 DEF Inv
<1>8. new = IF c.replace \/ i = 0 THEN First(c) ELSE Extended(params[i], c)
  <2>1. CASE i = 0
    <3>1. Append(<<>>, Item(c)) = <<Item(c)>>
      OBVIOUS
    <3>2. q = [key |-> c.key, free_key |-> c.free_key, list |-> <<>>]
      BY <2>1
    <3>3. [q EXCEPT !.list = <<Item(c)>>] = First(c) /\ q.list = <<>> /\ q.key = c.key
      BY <3>2 DEF First
    <3>4. QED
      BY <2>1, <3>1, <3>3 DEF Replaced
  <2>2. CASE i # 0 /\ c.replace
    <3>1. q = params[i] /\ q \in Entry
      BY <1>1, <1>2, <2>2
    <3>2. CASE q.key # c.key
      BY <2>2, <3>2 DEF Replaced, First
    <3>3. CASE q.key = c.key
      <4>1. q.free_key = c.free_key
        BY <1>2, <2>2, <3>1, <3>3, SameKey
      <4>2. [q EXCEPT !.list = <<Item(c)>>] = First(c)
        <5> HIDE DEF q
        <5>1. QED
          BY <3>1, <3>3, <4>1, SMTT(30) DEF First, Entry
      <4>3. QED
        BY <2>2, <3>3, <4>2 DEF Replaced
    <3>4. QED
      BY <3>2, <3>3
  <2>3. CASE i # 0 /\ ~c.replace
    BY <2>3 DEF Extended
  <2>4. QED
    BY <2>1, <2>2, <2>3
<1>9. new \in Entry
  <2>1. First(c) \in Entry
    BY FirstEntry DEF EntryOK
  <2>2. i # 0 => Extended(params[i], c) \in Entry
    <3>1. SUFFICES ASSUME i # 0 PROVE Extended(params[i], c) \in Entry
      OBVIOUS
    <3>2. EntryOK(heap, params[i])
      BY <1>1, <1>2, <3>1
    <3>3. DOMAIN [b \in DOMAIN heap \cup DOMAIN fresh |-> b] = DOMAIN heap \cup DOMAIN fresh
      OBVIOUS
    <3>4. EntryOK([b \in DOMAIN heap \cup DOMAIN fresh |-> b], Extended(params[i], c))
      BY <3>2, <3>3, ExtendedEntry
    <3>5. QED
      BY <3>4 DEF EntryOK
  <2>3. QED
    BY <1>8, <2>1, <2>2
<1> HIDE DEF new, q, gone
<1>10. /\ DOMAIN params' = DOMAIN params \cup {n} /\ params' \in Seq(Entry) /\ n \in Nat
       /\ Len(params') <= Len(params) + 1 /\ Len(params') \in Nat
       /\ OthersStay(n) /\ params'[n] = new
  <2>1. CASE i = 0
    <3>1. n = Len(params) + 1 /\ params' = Append(params, new)
      BY <1>4, <2>1 DEF Place
    <3>2. /\ params' \in Seq(Entry) /\ Len(params') = n /\ params'[n] = new
          /\ \A m \in 1 .. Len(params) : params'[m] = params[m]
      BY <1>1, <1>9, <3>1, AppendProperties
    <3>3. DOMAIN params' = 1 .. n
      BY <3>2
    <3>4. QED
      BY <1>1, <3>1, <3>2, <3>3 DEF OthersStay
  <2>2. CASE i # 0
    <3>1. n = i /\ params' = [params EXCEPT ![n] = new] /\ n \in DOMAIN params
      BY <1>2, <1>4, <2>2 DEF Place
    <3>2. params' \in Seq(Entry) /\ Len(params') = Len(params)
      BY <1>1, <1>9, <3>1
    <3>3. QED
      BY <1>1, <3>1, <3>2 DEF OthersStay
  <2>3. QED
    BY <2>1, <2>2
<1>11. i # 0 => i = n
  BY DEF Place
<1>12. QED
  BY <1>3, <1>4, <1>6, <1>7, <1>8, <1>10, <1>11

\* What an entry points to is allocated or a literal.
LEMMA PointersAllocated ==
  ASSUME NEW h, NEW e, EntryOK(h, e)
  PROVE  Pointers(e) \subseteq DOMAIN h \cup Keys \cup Vals
BY DEF EntryOK, Pointers

\* The blocks of a call are new.
LEMMA FreshBlocks ==
  ASSUME NEW c, NEW fresh, NEW v, CallOK(c, fresh, v)
  PROVE  /\ DOMAIN fresh \cap (DOMAIN heap \cup Keys \cup Vals) = {}
         /\ {c.key, c.val} \cap DOMAIN heap \subseteq Keys \cup Vals
BY KindsAssumption DEF CallOK, HeapOK

\* What the call frees belongs to nobody else.
LEMMA OthersSurvive ==
  ASSUME Inv, NEW c, NEW m \in DOMAIN params, m # Place(c.text)
  PROVE  Pointers(params[m]) \cap Gone(c) = {}
<1>1. CASE Gone(c) = {}
  BY <1>1
<1>2. CASE Gone(c) # {}
  <2>1. lfind(c.text) # 0 /\ Gone(c) = Owned(params[lfind(c.text)])
    BY <1>2 DEF Gone
  <2>2. lfind(c.text) \in DOMAIN params /\ m # lfind(c.text)
    BY <2>1, SearchFinds DEF Inv, Finds, Place
  <2>3. Apart(params[lfind(c.text)], params[m])
    BY <2>2 DEF Inv, TableOK
  <2>4. QED
    BY <2>1, <2>3 DEF Apart
<1>3. QED
  BY <1>1, <1>2

LEMMA GoneAllocated ==
  ASSUME Inv, NEW c PROVE Gone(c) \subseteq DOMAIN heap
<1>1. CASE lfind(c.text) = 0
  BY <1>1 DEF Gone
<1>2. CASE lfind(c.text) # 0
  <2>1. lfind(c.text) \in DOMAIN params
    BY <1>2, SearchFinds DEF Inv, Finds
  <2>2. Owned(params[lfind(c.text)]) \subseteq DOMAIN heap
    BY <2>1, OwnedAllocated DEF Inv, TableOK
  <2>3. QED
    BY <2>2 DEF Gone
<1>3. QED
  BY <1>1, <1>2

\* The entries a call leaves alone, and the one it makes or changes.
LEMMA SetEntries ==
  ASSUME Inv, NEW c, NEW fresh, NEW v, CallOK(c, fresh, v), param_set(c, fresh),
         NEW n, n = Place(c.text)
  PROVE  /\ \A m \in DOMAIN params : m # n =>
              /\ EntryOK(heap', params[m])
              /\ Text(heap', params[m].key) = Text(heap, params[m].key)
              /\ Text(heap, params[m].key) # c.text
              /\ Apart(params'[n], params[m]) /\ Apart(params[m], params'[n])
         /\ EntryOK(heap', params'[n]) /\ Text(heap', params'[n].key) = c.text
         /\ HeapOK(heap')
<1>1. /\ OthersStay(n)
      /\ c.replace \/ lfind(c.text) = 0 => params'[n] = First(c)
      /\ ~c.replace /\ lfind(c.text) # 0 => params'[n] = Extended(params[n], c)
      /\ DOMAIN heap' = (DOMAIN heap \cup DOMAIN fresh) \ Gone(c)
      /\ \A b \in DOMAIN heap' : heap'[b] = IF b \in DOMAIN fresh THEN fresh[b] ELSE heap[b]
      /\ lfind(c.text) = 0 <=> n \notin DOMAIN params
  BY SetEffect
<1>2. Gone(c) \subseteq DOMAIN heap /\ DOMAIN fresh \subseteq DOMAIN heap'
  BY <1>1, GoneAllocated, FreshBlocks
<1>3. \A m \in DOMAIN params : EntryOK(heap, params[m])
  BY DEF Inv, TableOK
<1>4. HeapOK(heap')
  BY <1>1 DEF HeapOK, Inv, CallOK
<1>5. ASSUME NEW m \in DOMAIN params, m # n
      PROVE  /\ EntryOK(heap', params[m])
             /\ Text(heap', params[m].key) = Text(heap, params[m].key)
             /\ Text(heap, params[m].key) # c.text
  <2>1. Pointers(params[m]) \cap Gone(c) = {}
    BY <1>5, OthersSurvive
  <2>2. EntryOK(heap', params[m])
    BY <1>1, <1>3, <2>1, EntryKept
  <2>3. Text(heap', params[m].key) = Text(heap, params[m].key)
    <3>1. CASE params[m].key \in Keys
      BY <3>1 DEF Text
    <3>2. CASE params[m].key \notin Keys
      <4>1. params[m].key \in DOMAIN heap /\ params[m].key \in DOMAIN heap'
        BY <1>3, <2>2, <3>2 DEF EntryOK
      <4>2. params[m].key \notin DOMAIN fresh
        BY <4>1, FreshBlocks
      <4>3. heap'[params[m].key] = heap[params[m].key]
        BY <1>1, <4>1, <4>2
      <4>4. QED
        BY <3>2, <4>3 DEF Text
    <3>3. QED
      BY <3>1, <3>2
  <2>4. Text(heap, params[m].key) # c.text
    <3>1. Text(heap, params[m].key) = c.text => lfind(c.text) = m
      BY <1>5, SearchFinds DEF Inv, Finds
    <3>2. 0 \notin DOMAIN params
      BY DEF Inv, TableOK
    <3>3. QED
      BY <1>5, <3>1, <3>2 DEF Place
  <2>5. QED
    BY <2>2, <2>3, <2>4
<1>6. CASE c.replace \/ lfind(c.text) = 0
  <2>1. params'[n] = First(c)
    BY <1>1, <1>6
  <2>2. /\ EntryOK(heap', First(c)) /\ Owned(First(c)) \subseteq DOMAIN fresh
        /\ Pointers(First(c)) = {c.key, c.val}
    BY <1>2, FirstEntry
  <2>3. Text(heap', c.key) = c.text
    <3>1. CASE c.key \in Keys
      BY <3>1 DEF Text, CallOK
    <3>2. CASE c.key \notin Keys
      BY <1>1, <1>2, <3>2 DEF Text, CallOK
    <3>3. QED
      BY <3>1, <3>2
  <2>4. First(c).key = c.key
    BY DEF First
  <2>5. ASSUME NEW m \in DOMAIN params, m # n
        PROVE  Apart(First(c), params[m]) /\ Apart(params[m], First(c))
    <3>1. Pointers(params[m]) \subseteq DOMAIN heap \cup Keys \cup Vals
      BY <1>3, PointersAllocated
    <3>2. Owned(params[m]) \subseteq DOMAIN heap /\ DOMAIN heap \cap (Keys \cup Vals) = {}
      BY <1>3, OwnedAllocated, KindsAssumption DEF Inv, HeapOK
    <3>3. QED
      BY <2>2, <3>1, <3>2, FreshBlocks DEF Apart
  <2>6. QED
    BY <1>4, <1>5, <2>1, <2>2, <2>3, <2>4, <2>5
<1>7. CASE ~c.replace /\ lfind(c.text) # 0
  <2>1. params'[n] = Extended(params[n], c) /\ n \in DOMAIN params /\ Gone(c) = {}
    BY <1>1, <1>7 DEF Gone
  <2>2. /\ EntryOK(heap', params'[n])
        /\ Owned(params'[n]) \subseteq Owned(params[n]) \cup DOMAIN fresh
        /\ Pointers(params'[n]) = Pointers(params[n]) \cup {c.val}
    <3>1. DOMAIN heap' = DOMAIN heap \cup DOMAIN fresh
      BY <1>1, <2>1
    <3>2. EntryOK(heap, params[n])
      BY <1>3, <2>1
    <3>3. /\ EntryOK(heap', Extended(params[n], c))
          /\ Owned(Extended(params[n], c)) \subseteq Owned(params[n]) \cup DOMAIN fresh
          /\ Pointers(Extended(params[n], c)) = Pointers(params[n]) \cup {c.val}
      BY <3>1, <3>2, ExtendedEntry
    <3>4. QED
      BY <2>1, <3>3
  <2>3. params'[n].key = params[n].key
    BY <1>3, <2>1 DEF Extended, EntryOK, Entry
  <2>4. Text(heap, params[n].key) = c.text
    BY <1>7, SearchFinds DEF Inv, Finds, Place
  <2>5. Text(heap', params'[n].key) = c.text
    <3>1. CASE params[n].key \in Keys
      BY <2>3, <2>4, <3>1 DEF Text
    <3>2. CASE params[n].key \notin Keys
      <4>1. params[n].key \in DOMAIN heap
        BY <1>3, <2>1, <3>2 DEF EntryOK
      <4>2. params[n].key \notin DOMAIN fresh
        BY <4>1, FreshBlocks
      <4>3. heap'[params[n].key] = heap[params[n].key]
        BY <1>1, <2>1, <4>1, <4>2
      <4>4. QED
        BY <2>3, <2>4, <3>2, <4>3 DEF Text
    <3>3. QED
      BY <3>1, <3>2
  <2>6. ASSUME NEW m \in DOMAIN params, m # n
        PROVE  Apart(params'[n], params[m]) /\ Apart(params[m], params'[n])
    <3>1. Pointers(params[m]) \subseteq DOMAIN heap \cup Keys \cup Vals
      BY <1>3, PointersAllocated
    <3>2. Owned(params[m]) \subseteq DOMAIN heap /\ DOMAIN heap \cap (Keys \cup Vals) = {}
      BY <1>3, OwnedAllocated, KindsAssumption DEF Inv, HeapOK
    <3>3. Apart(params[n], params[m]) /\ Apart(params[m], params[n])
      BY <2>1, <2>6 DEF Inv, TableOK
    <3>4. Apart(params'[n], params[m])
      BY <2>2, <3>1, <3>3, FreshBlocks DEF Apart
    <3>5. Apart(params[m], params'[n])
      BY <2>2, <3>2, <3>3, FreshBlocks DEF Apart
    <3>6. QED
      BY <3>4, <3>5
  <2>7. QED
    BY <1>4, <1>5, <2>2, <2>5, <2>6
<1>8. QED
  BY <1>6, <1>7

\* A call keeps the table in order.
LEMMA SetInv ==
  ASSUME Inv, NEW c, NEW fresh, NEW v, CallOK(c, fresh, v), param_set(c, fresh)
  PROVE  Inv'
<1>1. PICK n : n = Place(c.text)
  OBVIOUS
<1>2. /\ DOMAIN params' = DOMAIN params \cup {n} /\ params' \in Seq(Entry)
      /\ Len(params') <= Len(params) + 1 /\ Len(params') \in Nat
      /\ OthersStay(n)
      /\ fault' = FALSE /\ open' = open /\ params_size' = Grown
  BY <1>1, SetEffect
<1>3. /\ \A m \in DOMAIN params : m # n =>
           /\ EntryOK(heap', params[m])
           /\ Text(heap', params[m].key) = Text(heap, params[m].key)
           /\ Text(heap, params[m].key) # c.text
           /\ Apart(params'[n], params[m]) /\ Apart(params[m], params'[n])
      /\ EntryOK(heap', params'[n]) /\ Text(heap', params'[n].key) = c.text
      /\ HeapOK(heap')
  BY <1>1, SetEntries
<1>4. \A m \in DOMAIN params' : EntryOK(heap', params'[m])
  BY <1>2, <1>3 DEF OthersStay
<1>5. ASSUME NEW m \in DOMAIN params', m # n
      PROVE  m \in DOMAIN params /\ params'[m] = params[m]
             /\ Text(heap', params'[m].key) = Text(heap, params[m].key)
             /\ Text(heap, params[m].key) # c.text
  BY <1>2, <1>3, <1>5 DEF OthersStay
<1>6. ASSUME NEW i \in DOMAIN params', NEW m \in DOMAIN params', i # m
      PROVE  Apart(params'[i], params'[m]) /\ Text(heap', params'[i].key) # Text(heap', params'[m].key)
  <2>1. CASE i = n
    BY <1>3, <1>5, <1>6, <2>1
  <2>2. CASE m = n
    BY <1>3, <1>5, <1>6, <2>2
  <2>3. CASE i # n /\ m # n
    BY <1>5, <1>6, <2>3 DEF Inv, TableOK
  <2>4. QED
    BY <2>1, <2>2, <2>3
<1>7. TableOK'
  BY <1>2, <1>4, <1>6 DEF TableOK
<1>8. Room'
  <2>1. /\ params_size \in Nat /\ params_size >= 1 /\ Len(params) <= params_size
        /\ Len(params) \in Nat
    BY DEF Inv, Room, TableOK
  <2>2. Grown \in Nat /\ Grown >= 1 /\ Len(params) + 1 <= Grown
    BY <2>1 DEF Grown
  <2>3. QED
    BY <1>2, <2>1, <2>2 DEF Room
<1>9. HeapOK(heap)'
  BY <1>3 DEF HeapOK
<1>10. QED
  BY <1>2, <1>7, <1>8, <1>9 DEF Inv

\* param_destroy frees what all the entries own, and nothing twice.
LEMMA DestroyInv == ASSUME Inv, param_destroy PROVE Inv'
<1> DEFINE places == UNION {{i} \X DOMAIN param_free(params[i]) : i \in DOMAIN params}
           gone   == [x \in places |-> param_free(params[x[1]])[x[2]]]
<1>1. /\ heap' = Heap(<<>>, gone) /\ params' = <<>> /\ open' = FALSE /\ params_size' = params_size
      /\ fault' = (fault \/ ~Range(gone) \subseteq DOMAIN heap \/ ~IsInjective(gone))
  BY DEF param_destroy, Freed
<1>2. ASSUME NEW x \in places
      PROVE  /\ x[1] \in DOMAIN params /\ x[2] \in DOMAIN param_free(params[x[1]])
             /\ x = <<x[1], x[2]>>
             /\ gone[x] \in Owned(params[x[1]])
  <2>1. PICK i \in DOMAIN params : x \in {i} \X DOMAIN param_free(params[i])
    BY <1>2
  <2>2. x[1] = i /\ x[2] \in DOMAIN param_free(params[i]) /\ x = <<x[1], x[2]>>
    BY <2>1
  <2>3. gone[x] = param_free(params[i])[x[2]]
    BY <1>2, <2>2
  <2>4. QED
    BY <2>2, <2>3 DEF Owned, Range
<1>3. \A i \in DOMAIN params : EntryOK(heap, params[i])
  BY DEF Inv, TableOK
<1>4. Range(gone) \subseteq DOMAIN heap
  <2>1. ASSUME NEW x \in places PROVE gone[x] \in DOMAIN heap
    BY <1>2, <1>3, <2>1, OwnedAllocated
  <2>2. DOMAIN gone = places
    OBVIOUS
  <2> HIDE DEF gone, places
  <2>3. QED
    BY <2>1, <2>2 DEF Range
<1>5. IsInjective(gone)
  <2>1. ASSUME NEW x \in places, NEW y \in places, gone[x] = gone[y] PROVE x = y
    <3>1. /\ x[1] \in DOMAIN params /\ x[2] \in DOMAIN param_free(params[x[1]])
          /\ x = <<x[1], x[2]>> /\ gone[x] \in Owned(params[x[1]])
          /\ y[1] \in DOMAIN params /\ y[2] \in DOMAIN param_free(params[y[1]])
          /\ y = <<y[1], y[2]>> /\ gone[y] \in Owned(params[y[1]])
      BY <1>2, <2>1
    <3>2. CASE x[1] = y[1]
      <4>1. param_free(params[x[1]])[x[2]] = param_free(params[x[1]])[y[2]]
        BY <2>1, <3>2
      <4>2. IsInjective(param_free(params[x[1]]))
        BY <1>3, <3>1 DEF EntryOK
      <4>3. x[2] = y[2]
        BY <3>1, <3>2, <4>1, <4>2 DEF IsInjective
      <4>4. QED
        BY <3>1, <3>2, <4>3
    <3>3. CASE x[1] # y[1]
      <4>1. Apart(params[x[1]], params[y[1]])
        BY <3>1, <3>3 DEF Inv, TableOK
      <4>2. params[y[1]] \in Entry
        BY <1>3, <3>1 DEF EntryOK
      <4>3. gone[y] \in Pointers(params[y[1]])
        BY <3>1, <4>2, FreePlaces
      <4>4. QED
        BY <2>1, <3>1, <4>1, <4>3 DEF Apart
    <3>4. QED
      BY <3>2, <3>3
  <2>2. DOMAIN gone = places
    OBVIOUS
  <2> HIDE DEF gone, places
  <2>3. QED
    BY <2>1, <2>2 DEF IsInjective
<1> HIDE DEF gone
<1>6. HeapOK(heap')
  <2>1. DOMAIN heap' \subseteq DOMAIN heap /\ \A b \in DOMAIN heap' : heap'[b] = heap[b]
    BY <1>1 DEF Heap
  <2>2. QED
    BY <2>1 DEF HeapOK, Inv
<1>7. TableOK'
  BY <1>1 DEF TableOK
<1>8. Room'
  <2>1. params_size \in Nat /\ params_size >= 1 /\ Len(<<>>) = 0
    BY DEF Inv, Room
  <2>2. QED
    BY <1>1, <2>1 DEF Room
<1>9. fault' = FALSE
  BY <1>1, <1>4, <1>5 DEF Inv
<1>10. QED
  BY <1>1, <1>6, <1>7, <1>8, <1>9 DEF Inv, HeapOK

LEMMA InitInv == ASSUME Init PROVE Inv
<1>1. TableOK
  BY DEF Init, param_init, TableOK
<1>2. Room /\ HeapOK(heap)
  BY KindsAssumption DEF Init, param_init, Room, HeapOK
<1>3. QED
  BY <1>1, <1>2 DEF Init, param_init, Inv

LEMMA UnchangedInv == ASSUME Inv, UNCHANGED vars PROVE Inv'
BY DEF Inv, vars, TableOK, Room, HeapOK

LEMMA Invariance == Spec => []Inv
<1>1. Init => Inv
  BY InitInv
<1>2. ASSUME Inv, [Next]_vars PROVE Inv'
  <2>1. CASE UNCHANGED vars
    BY <1>2, <2>1, UnchangedInv
  <2>2. CASE param_destroy
    BY <1>2, <2>2, DestroyInv
  <2>3. ASSUME NEW k \in Keys, NEW v \in Vals, Call(k, v) PROVE Inv'
    BY <1>2, <2>3, Callers, SetInv
  <2>4. QED
    BY <1>2, <2>1, <2>2, <2>3 DEF Next
<1>3. Inv /\ [Next]_vars => Inv'
  BY <1>2
<1>4. QED
  BY <1>1, <1>3, PTL DEF Spec

\* What was taken from the plugins: nothing, if each hands over its keys.
TakenOK == taken \in BOOLEAN /\ (FreeKeys \subseteq {TRUE} => KeysKept)

LEMMA TakenFromNone == Spec => []TakenOK
<1>1. Init => TakenOK
  BY DEF Init, param_init, TakenOK, KeysKept
<1>2. ASSUME TakenOK, [Next]_vars PROVE TakenOK'
  <2>1. CASE UNCHANGED taken
    BY <1>2, <2>1 DEF TakenOK, KeysKept
  <2>2. ASSUME NEW k \in Keys, NEW v \in Vals, NEW replace \in BOOLEAN,
               NEW free_key \in FreeKeys, wrapped_param_set(k, v, replace, free_key)
        PROVE  TakenOK'
    <3>1. taken' = (taken \/ ~free_key) /\ free_key \in BOOLEAN
      BY <2>2, KindsAssumption DEF wrapped_param_set
    <3>2. QED
      BY <1>2, <3>1 DEF TakenOK, KeysKept
  <2>3. ASSUME NEW k \in Keys, NEW v \in Vals, Call(k, v) PROVE TakenOK'
    BY <2>1, <2>2, <2>3 DEF Call, param_add, SetAssembling, SetPath
  <2>4. QED
    BY <1>2, <2>1, <2>3 DEF Next, param_destroy, vars
<1>3. QED
  BY <1>1, <1>2, PTL DEF Spec

\* The table, its room and the heap keep their types.
THEOREM ParamTypes == Spec => []TypeOK
<1>1. Inv /\ TakenOK => TypeOK
  BY DEF Inv, TableOK, Room, HeapOK, TypeOK, TakenOK
<1>2. QED
  BY <1>1, Invariance, TakenFromNone, PTL

\* As long as the plugins hand over the keys of the parameters they set, any
\* sequence of options, paths, assignments, plugins' calls and the end of it
\* frees nothing twice, no literal and nothing that a plugin has kept, and no
\* entry is left with a pointer to a block that was freed.  Without that
\* hypothesis it does not hold: spi.c frees a plugin's key in any case.
THEOREM TableIsSound ==
  ASSUME FreeKeys \subseteq {TRUE}
  PROVE  Spec => []Sound
<1>1. Inv /\ TakenOK => Sound
  BY DEF Inv, TableOK, EntryOK, Sound, TakenOK
<1>2. QED
  BY <1>1, Invariance, TakenFromNone, PTL

-----------------------------------------------------------------------------
(* The dictionary.                                                         *)

\* The text of a value, and those of a list.
ValueIn(h, p)  == IF p \in Vals THEN p ELSE h[p].val
Values(h, seq) == [j \in DOMAIN seq |-> ValueIn(h, seq[j].value)]

\* param_get gives the values of the entry that the search finds.
Gets ==
  /\ \A t, i : i \in DOMAIN params /\ Text(heap, params[i].key) = t =>
       param_get(t) = Values(heap, params[i].list)
  /\ \A t : (\A i \in DOMAIN params : Text(heap, params[i].key) # t) => param_get(t) = <<>>

LEMMA GetFinds == TableOK => Gets
<1> SUFFICES ASSUME TableOK PROVE Gets
  OBVIOUS
<1>1. Finds /\ 0 \notin DOMAIN params
  BY SearchFinds DEF TableOK
<1>2. ASSUME NEW t, NEW i \in DOMAIN params, Text(heap, params[i].key) = t
      PROVE  param_get(t) = Values(heap, params[i].list)
  <2>1. lfind(t) = i /\ lfind(t) # 0
    BY <1>1, <1>2 DEF Finds
  <2>2. param_get(t) = [j \in DOMAIN params[i].list |-> ValText(params[i].list[j].value)]
    BY <2>1 DEF param_get
  <2>3. QED
    BY <2>2 DEF Values, ValueIn, ValText
<1>3. ASSUME NEW t, \A i \in DOMAIN params : Text(heap, params[i].key) # t
      PROVE  param_get(t) = <<>>
  BY <1>1, <1>3 DEF Finds, param_get
<1>4. QED
  BY <1>2, <1>3 DEF Gets

LEMMA GetFindsNext == TableOK' => Gets'
BY GetFinds, PTL

\* The values of an entry stay as long as its blocks do.
LEMMA ValuesStay ==
  ASSUME NEW h, NEW g, NEW e, EntryOK(h, e), EntryOK(g, e), HeapOK(h),
         \A b \in DOMAIN h \cap DOMAIN g : g[b] = h[b]
  PROVE  Values(g, e.list) = Values(h, e.list)
<1>1. ASSUME NEW j \in DOMAIN e.list
      PROVE  ValueIn(g, e.list[j].value) = ValueIn(h, e.list[j].value)
  BY <1>1 DEF EntryOK, ValueIn
<1>2. QED
  BY <1>1 DEF Values

\* Each value of an entry is a value.
LEMMA ValueTypes ==
  ASSUME NEW h, NEW e, EntryOK(h, e), HeapOK(h)
  PROVE  Values(h, e.list) \in Seq(Vals) /\ Len(Values(h, e.list)) = Len(e.list)
<1>1. Len(e.list) \in Nat /\ DOMAIN e.list = 1 .. Len(e.list)
  BY FreePlaces DEF EntryOK
<1>2. ASSUME NEW j \in DOMAIN e.list PROVE ValueIn(h, e.list[j].value) \in Vals
  BY <1>2 DEF EntryOK, HeapOK, ValueIn
<1>3. QED
  BY <1>1, <1>2 DEF Values

\* The heap with the blocks of a call.
HeapWith(g, fresh) ==
  /\ HeapOK(g) /\ DOMAIN g = DOMAIN heap \cup DOMAIN fresh
  /\ \A b \in DOMAIN g : g[b] = IF b \in DOMAIN fresh THEN fresh[b] ELSE heap[b]

\* A list that is extended has the value of the call at its end.
LEMMA ValueAppended ==
  ASSUME NEW c, NEW fresh, NEW v, CallOK(c, fresh, v), HeapOK(heap),
         NEW e, EntryOK(heap, e),
         NEW g, HeapWith(g, fresh)
  PROVE  Values(g, Extended(e, c).list) = Append(Values(heap, e.list), v)
<1> DEFINE f == Extended(e, c)
           n == Len(e.list) + 1
<1>1. EntryOK(g, f) /\ HeapOK(g)
  BY ExtendedEntry DEF HeapWith
<1>2. /\ e \in Entry /\ e.list \in Seq(Node) /\ DOMAIN e.list = 1 .. Len(e.list)
      /\ Len(e.list) \in Nat
  BY FreePlaces DEF EntryOK
<1>3. Item(c) \in Node /\ Item(c).value = c.val
  BY CallPointers DEF Item
<1>4. f.list = Append(e.list, Item(c))
  BY <1>2 DEF Extended, Entry
<1>5. /\ Len(f.list) = n /\ f.list[n] = Item(c)
      /\ \A j \in 1 .. Len(e.list) : f.list[j] = e.list[j]
  BY <1>2, <1>3, <1>4, AppendProperties
<1>6. /\ Values(heap, e.list) \in Seq(Vals) /\ Len(Values(heap, e.list)) = Len(e.list)
      /\ Values(g, f.list) \in Seq(Vals) /\ Len(Values(g, f.list)) = n
  BY <1>1, <1>5, ValueTypes
<1>7. v \in Vals
  BY DEF CallOK
<1> HIDE DEF f
<1>8. /\ Append(Values(heap, e.list), v) \in Seq(Vals)
      /\ Len(Append(Values(heap, e.list), v)) = n
      /\ \A j \in 1 .. Len(e.list) :
           Append(Values(heap, e.list), v)[j] = Values(heap, e.list)[j]
      /\ Append(Values(heap, e.list), v)[n] = v
  BY <1>6, <1>7, AppendProperties
<1>9. DOMAIN f.list = 1 .. n
  BY <1>1, <1>5, FreePlaces DEF EntryOK
<1>10. ASSUME NEW j \in 1 .. Len(e.list)
       PROVE  Values(g, f.list)[j] = Values(heap, e.list)[j]
  <2>1. j \in DOMAIN f.list /\ j \in DOMAIN e.list /\ f.list[j] = e.list[j]
    BY <1>2, <1>5, <1>9
  <2>2. e.list[j].value \in DOMAIN heap \cup Vals
    BY <2>1 DEF EntryOK
  <2>3. ValueIn(g, e.list[j].value) = ValueIn(heap, e.list[j].value)
    BY <2>2, FreshBlocks DEF ValueIn, HeapWith
  <2>4. QED
    BY <2>1, <2>3 DEF Values
<1>11. Values(g, f.list)[n] = v
  <2>1. n \in DOMAIN f.list
    BY <1>2, <1>9
  <2>2. ValueIn(g, c.val) = v
    BY DEF ValueIn, CallOK, HeapWith
  <2>3. QED
    BY <1>3, <1>5, <2>1, <2>2 DEF Values
<1>12. ASSUME NEW j \in 1 .. n
       PROVE  Values(g, f.list)[j] = Append(Values(heap, e.list), v)[j]
  <2>1. j \in 1 .. Len(e.list) \/ j = n
    BY <1>2
  <2>2. QED
    BY <1>8, <1>10, <1>11, <2>1
<1>13. Values(g, f.list) = Append(Values(heap, e.list), v)
  BY <1>6, <1>8, <1>12, SeqEqual
<1>14. QED
  BY <1>13 DEF f

\* What param_get returns after a call.
LEMMA SetGets ==
  ASSUME Inv, Inv', NEW c, NEW fresh, NEW v, CallOK(c, fresh, v), param_set(c, fresh), NEW t
  PROVE  /\ t # c.text => param_get(t)' = param_get(t)
         /\ t = c.text /\ c.replace => param_get(t)' = <<v>>
         /\ t = c.text /\ ~c.replace => param_get(t)' = Append(param_get(t), v)
<1>1. PICK n : n = Place(c.text)
  OBVIOUS
<1>2. /\ DOMAIN params' = DOMAIN params \cup {n} /\ OthersStay(n)
      /\ c.replace \/ lfind(c.text) = 0 => params'[n] = First(c)
      /\ ~c.replace /\ lfind(c.text) # 0 => params'[n] = Extended(params[n], c)
      /\ DOMAIN heap' = (DOMAIN heap \cup DOMAIN fresh) \ Gone(c)
      /\ \A b \in DOMAIN heap' : heap'[b] = IF b \in DOMAIN fresh THEN fresh[b] ELSE heap[b]
      /\ (lfind(c.text) = 0 <=> n \notin DOMAIN params)
  BY <1>1, SetEffect
<1>3. /\ \A m \in DOMAIN params : m # n =>
           /\ EntryOK(heap', params[m])
           /\ Text(heap', params[m].key) = Text(heap, params[m].key)
           /\ Text(heap, params[m].key) # c.text
      /\ EntryOK(heap', params'[n]) /\ Text(heap', params'[n].key) = c.text
      /\ HeapOK(heap')
  BY <1>1, SetEntries
<1>4. Gets /\ Gets' /\ TableOK /\ HeapOK(heap)
  BY GetFinds, GetFindsNext DEF Inv
<1>5. \A b \in DOMAIN heap \cap DOMAIN heap' : heap'[b] = heap[b]
  BY <1>2, FreshBlocks
<1>6. ASSUME t # c.text PROVE param_get(t)' = param_get(t)
  <2>1. CASE \A m \in DOMAIN params : Text(heap, params[m].key) # t
    <3>1. \A m \in DOMAIN params' : Text(heap', params'[m].key) # t
      BY <1>2, <1>3, <1>6, <2>1 DEF OthersStay
    <3>2. param_get(t)' = <<>> /\ param_get(t) = <<>>
      BY <1>4, <2>1, <3>1 DEF Gets
    <3>3. QED
      BY <3>2
  <2>2. CASE \E m \in DOMAIN params : Text(heap, params[m].key) = t
    <3>1. PICK m \in DOMAIN params : Text(heap, params[m].key) = t
      BY <2>2
    <3>2. m # n
      <4>1. SUFFICES ASSUME m = n PROVE FALSE
        OBVIOUS
      <4>2. Text(heap, params[n].key) = c.text
        BY <1>1, <1>2, <3>1, <4>1, SearchFinds DEF Inv, Finds, Place
      <4>3. QED
        BY <1>6, <3>1, <4>1, <4>2
    <3>3. /\ m \in DOMAIN params' /\ params'[m] = params[m]
          /\ Text(heap', params'[m].key) = t
      BY <1>2, <1>3, <3>1, <3>2 DEF OthersStay
    <3>4. param_get(t)' = Values(heap', params'[m].list)
      BY <1>4, <3>3 DEF Gets
    <3>5. param_get(t) = Values(heap, params[m].list)
      BY <1>4, <3>1 DEF Gets
    <3>6. EntryOK(heap, params[m]) /\ EntryOK(heap', params[m])
      BY <1>3, <1>4, <3>2 DEF TableOK
    <3>7. Values(heap', params[m].list) = Values(heap, params[m].list)
      BY <1>4, <1>5, <3>6, ValuesStay
    <3>8. QED
      BY <3>3, <3>4, <3>5, <3>7
  <2>3. QED
    BY <2>1, <2>2
<1>7. param_get(c.text)' = Values(heap', params'[n].list)
  BY <1>2, <1>3, <1>4 DEF Gets
<1>8. ASSUME params'[n] = First(c) PROVE param_get(c.text)' = <<v>>
  <2>1. First(c).list = <<Item(c)>> /\ Item(c).value = c.val
    BY DEF First, Item
  <2>2. ValueIn(heap', c.val) = v
    <3>1. DOMAIN fresh \subseteq DOMAIN heap'
      BY <1>2, GoneAllocated, FreshBlocks
    <3>2. QED
      BY <1>2, <3>1 DEF ValueIn, CallOK
  <2>3. Values(heap', <<Item(c)>>) = <<v>>
    BY <2>1, <2>2 DEF Values
  <2>4. QED
    BY <1>7, <1>8, <2>1, <2>3
<1>9. ASSUME ~c.replace PROVE param_get(c.text)' = Append(param_get(c.text), v)
  <2>1. CASE lfind(c.text) = 0
    <3>1. \A m \in DOMAIN params : Text(heap, params[m].key) # c.text
      BY <1>2, <1>3, <2>1
    <3>2. param_get(c.text) = <<>> /\ Append(<<>>, v) = <<v>>
      BY <1>4, <3>1 DEF Gets
    <3>3. QED
      BY <1>2, <1>8, <2>1, <3>2
  <2>2. CASE lfind(c.text) # 0
    <3>1. n \in DOMAIN params /\ Text(heap, params[n].key) = c.text
      BY <1>1, <1>2, <2>2, SearchFinds DEF Inv, Finds, Place
    <3>2. param_get(c.text) = Values(heap, params[n].list)
      BY <1>4, <3>1 DEF Gets
    <3>3. EntryOK(heap, params[n])
      BY <1>4, <3>1 DEF TableOK
    <3>4. DOMAIN heap' = DOMAIN heap \cup DOMAIN fresh
      BY <1>2, <1>9 DEF Gone
    <3>5. Values(heap', Extended(params[n], c).list) = Append(Values(heap, params[n].list), v)
      <4>1. HeapWith(heap', fresh)
        BY <1>2, <1>3, <3>4 DEF HeapWith
      <4>2. QED
        BY <1>4, <3>3, <4>1, ValueAppended
    <3>6. QED
      BY <1>2, <1>7, <1>9, <2>2, <3>2, <3>5
  <2>3. QED
    BY <2>1, <2>2
<1>10. t = c.text => param_get(t)' = param_get(c.text)' /\ param_get(t) = param_get(c.text)
  OBVIOUS
<1>11. QED
  BY <1>2, <1>6, <1>8, <1>9, <1>10

\* A step of the table is one of the dictionary.
LEMMA StepOfDict == ASSUME Inv, Inv', [Next]_vars PROVE [Dict!Next]_(Dict!vars)
<1> DEFINE dict == [k \in Keys |-> param_get(k)]
<1>1. CASE UNCHANGED vars
  <2>1. \A k \in Keys : param_get(k)' = param_get(k)
    <3>1. Gets /\ Gets' /\ params' = params /\ heap' = heap
      BY <1>1, GetFinds, GetFindsNext DEF vars, Inv
    <3>2. ASSUME NEW k \in Keys PROVE param_get(k)' = param_get(k)
      <4>1. CASE \A i \in DOMAIN params : Text(heap, params[i].key) # k
        BY <3>1, <4>1 DEF Gets
      <4>2. CASE \E i \in DOMAIN params : Text(heap, params[i].key) = k
        BY <3>1, <4>2 DEF Gets
      <4>3. QED
        BY <4>1, <4>2
    <3>3. QED
      BY <3>2
  <2>2. QED
    BY <1>1, <2>1 DEF vars, Dict!vars
<1>2. CASE open /\ param_destroy
  <2>1. params' = <<>> /\ open' = FALSE /\ Gets'
    BY <1>2, GetFindsNext DEF Inv, param_destroy
  <2>2. \A k \in Keys : param_get(k)' = <<>>
    BY <2>1 DEF Gets
  <2>3. Dict!Destroy
    BY <1>2, <2>1, <2>2 DEF Dict!Destroy
  <2>4. QED
    BY <2>3 DEF Dict!Next
<1>3. ASSUME open, NEW k \in Keys, NEW v \in Vals, Call(k, v) PROVE Dict!Next
  <2>1. PICK c, fresh : CallOK(c, fresh, v) /\ c.text = k /\ param_set(c, fresh)
    BY <1>3, Callers
  <2>2. open' = open
    BY <2>1 DEF param_set
  <2>3. \A t : /\ t # k => param_get(t)' = param_get(t)
               /\ t = k /\ c.replace => param_get(t)' = <<v>>
               /\ t = k /\ ~c.replace => param_get(t)' = Append(param_get(t), v)
    BY <2>1, SetGets
  <2>4. CASE c.replace
    <3>1. dict' = [dict EXCEPT ![k] = <<v>>]
      BY <2>3, <2>4
    <3>2. Dict!Put(k, v)
      BY <1>3, <2>2, <3>1 DEF Dict!Put
    <3>3. QED
      BY <3>2 DEF Dict!Next
  <2>5. CASE ~c.replace
    <3>1. dict' = [dict EXCEPT ![k] = Append(@, v)]
      BY <2>3, <2>5
    <3>2. Dict!Add(k, v)
      BY <1>3, <2>2, <3>1 DEF Dict!Add
    <3>3. QED
      BY <3>2 DEF Dict!Next
  <2>6. QED
    BY <2>4, <2>5
<1>4. QED
  BY <1>1, <1>2, <1>3 DEF Next

\* Whatever owns a key or a value, and however a block comes back after it was
\* freed, the parameters are a dictionary: param_set replaces or extends the
\* values of its own key and of no other, in order.
THEOREM TableIsDictionary == Spec => KeepsContract
<1>1. Init => Dict!Init
  <2>1. SUFFICES ASSUME Init PROVE Dict!Init
    OBVIOUS
  <2>2. params = <<>> /\ open = TRUE /\ Gets
    BY <2>1, InitInv, GetFinds DEF Init, param_init, Inv
  <2>3. \A k \in Keys : param_get(k) = <<>>
    BY <2>2 DEF Gets
  <2>4. QED
    BY <2>2, <2>3 DEF Dict!Init
<1>2. Inv /\ Inv' /\ [Next]_vars => [Dict!Next]_(Dict!vars)
  BY StepOfDict
<1>3. QED
  BY <1>1, <1>2, Invariance, PTL DEF Spec, KeepsContract, Dict!Spec
=============================================================================
