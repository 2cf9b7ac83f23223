------------------------------- MODULE MCCascade -------------------------------
EXTENDS CascadeInv, TLC
CONSTANTS p1, p2, server, cli
================================================================================
