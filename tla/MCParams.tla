------------------------------ MODULE MCParams ------------------------------
EXTENDS Params, TLC

Symmetry == Permutations(Blocks)
=============================================================================
