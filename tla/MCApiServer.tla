----------------------------- MODULE MCApiServer -----------------------------
EXTENDS ApiServerProps, TLC
Symmetry == Permutations(Calls) \cup Permutations(Nicknames) \cup Permutations(Identities)
=============================================================================
