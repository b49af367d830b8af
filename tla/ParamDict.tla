----------------------------- MODULE ParamDict -----------------------------
(***************************************************************************)
(* What the parameters of src/src/param.c promise: a dictionary from keys  *)
(* to lists of values, until it is destroyed.                              *)
(***************************************************************************)
EXTENDS Sequences

CONSTANTS Keys, Vals

VARIABLES dict, open

vars == <<dict, open>>

Init == dict = [k \in Keys |-> <<>>] /\ open = TRUE

Put(k, v) == open /\ dict' = [dict EXCEPT ![k] = <<v>>] /\ UNCHANGED open
Add(k, v) == open /\ dict' = [dict EXCEPT ![k] = Append(@, v)] /\ UNCHANGED open
Destroy   == open /\ open' = FALSE /\ dict' = [k \in Keys |-> <<>>]

Next == Destroy \/ \E k \in Keys, v \in Vals : Put(k, v) \/ Add(k, v)

Spec == Init /\ [][Next]_vars
=============================================================================
