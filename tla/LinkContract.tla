---------------------------- MODULE LinkContract ----------------------------
(***************************************************************************)
(* What tld promises, in one step: a command line either links, and the    *)
(* output is then the image in which every relocated field holds the       *)
(* address, in that same image, of what it refers to; or it does not, and  *)
(* there is no output.  Nothing here depends on the order in which the     *)
(* linker looks at objects, symbols and relocations.                       *)
(***************************************************************************)
EXTENDS Integers, Sequences, Functions

CONSTANTS Limit, NoName, BadFile, Pending, Failed

VARIABLES args, iofault, result

HasRecord(o)  == o.records # << >>
Bearing(a)    == {k \in DOMAIN a : HasRecord(a[k])}
Contents(o)   == o.records[1].data

\* Where the words of object k go: after those of every object before it.
Base(a, k) ==
  LET size == [j \in Bearing(a) |-> Len(Contents(a[j]))]
  IN  SumFunctionOnSet(size, {j \in Bearing(a) : j < k})

\* The (object, index) pairs of the definitions of a name.
Definitions(a, name) ==
  {d \in UNION {{k} \X DOMAIN a[k].symbols : k \in Bearing(a)} :
     a[d[1]].symbols[d[2]].name = name}

InRecord(o, r) == r.addr - o.records[1].addr \in 0 .. Len(Contents(o)) - 1

Linkable(a) ==
  /\ BadFile \notin {a[k] : k \in DOMAIN a}
  /\ \A k \in Bearing(a) :
       /\ \A j \in DOMAIN a[k].symbols :
            Definitions(a, a[k].symbols[j].name) = {<<k, j>>}
       /\ \A j \in DOMAIN a[k].relocs :
            LET r == a[k].relocs[j] IN
            /\ Len(a[k].records) = 1
            /\ InRecord(a[k], r) /\ r.name # NoName => Definitions(a, r.name) # {}

\* The address a relocation of object k stands for in the final image.
Target(a, k, r) ==
  IF r.name = NoName THEN Base(a, k)
  ELSE LET d == CHOOSE d \in Definitions(a, r.name) : TRUE
           s == a[d[1]].symbols[d[2]]
       IN  IF s.absolute THEN s.value ELSE Base(a, d[1]) + s.value

\* "RLC_NEGATE inverts the sign of the relocation adjustment" (obj.h).
Adjustment(a, k, r) == IF r.negate THEN -Target(a, k, r) ELSE Target(a, k, r)

\* Word i of object k: its field holds what the object file had there plus
\* all the adjustments to it, the rest of the word is as in the file.
Linked(a, k, i) ==
  LET o    == a[k]
      w    == Contents(o)[i]
      here == {j \in DOMAIN o.relocs : o.relocs[j].addr - o.records[1].addr = i - 1}
      span == o.relocs[CHOOSE j \in here : TRUE].span
      adj  == [j \in here |-> Adjustment(a, k, o.relocs[j])]
  IN  IF here = {} THEN w
      ELSE (w - (w % span)) + ((w + SumFunctionOnSet(adj, here)) % span)

\* The image as a memory: address |-> word.
ImageOf(a) ==
  UNION {{<<Base(a, k) + i - 1, Linked(a, k, i)>> : i \in DOMAIN Contents(a[k])} :
           k \in Bearing(a)}

Init == result = Pending

\* An I/O error may spoil any link; an unlinkable command line always fails.
Link ==
  /\ result = Pending
  /\ \/ Linkable(args) /\ result' = ImageOf(args)
     \/ (~Linkable(args) \/ iofault') /\ result' = Failed
  /\ UNCHANGED args

Spec == Init /\ [][Link]_result

=============================================================================
