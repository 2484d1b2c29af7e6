------------------------------- MODULE MCHeap -------------------------------
EXTENDS Heap

CONSTANTS h1, h2, h3

MCHandle == {h1, h2, h3}

HandleSymmetry == Permutations(MCHandle)

=============================================================================
