------------------------------ MODULE MCDailyLog ------------------------------
EXTENDS DailyLog, TLC

Symmetry == Permutations(Online)
================================================================================
