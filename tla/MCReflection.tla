----------------------------- MODULE MCReflection -----------------------------
EXTENDS Reflection, TLC
CONSTANTS e1, e2, e3

Symmetry == Permutations(Settled) \cup Permutations(Runs)
================================================================================
