--------------------------- MODULE MCCascadeOptimizer ---------------------------
EXTENDS CascadeOptimizer
CONSTANTS episode, fact
================================================================================
