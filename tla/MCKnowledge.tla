------------------------------ MODULE MCKnowledge ------------------------------
EXTENDS Knowledge, TLC
CONSTANTS tech, law, guide, notes, c1, c2

Symmetry == Permutations(Cats) \cup Permutations(Slugs) \cup Permutations(Calls)
================================================================================
