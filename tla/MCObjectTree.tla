----------------------------- MODULE MCObjectTree -----------------------------
EXTENDS ObjectTree

CONSTANTS o1, o2, o3

\* A root o1, o2 below it, and o3 below either.
MCOrder == {<<o2, o1>>, <<o3, o1>>, <<o3, o2>>}
===============================================================================
