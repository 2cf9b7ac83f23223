------------------------------ MODULE MCBackfill -------------------------------
EXTENDS Backfill, TLC
CONSTANTS e1, k1, k2, ec, ed, kc, kd

Symmetry == Permutations(CaseClusters) \cup Permutations(EpisodeClusters)
================================================================================
