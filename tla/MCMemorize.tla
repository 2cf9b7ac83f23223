------------------------------- MODULE MCMemorize -------------------------------
EXTENDS Memorize, TLC
CONSTANTS alice, bot

\* A user's message and what a tool returned after it.
MCSender == (1 :> alice) @@ (2 :> bot)
================================================================================
