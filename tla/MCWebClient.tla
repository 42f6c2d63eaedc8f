---------------------------- MODULE MCWebClient ----------------------------
\* Two calls of the session, two loads and two changes of a page at a time.
EXTENDS WebClient, TLC

CONSTANTS c1, c2, l1, l2, w1, w2, x1, x2, g1, g2

Symmetry == Permutations(Calls) \cup Permutations(Loads) \cup Permutations(Writes)
              \cup Permutations(Rows) \cup Permutations(Groups)
=============================================================================
