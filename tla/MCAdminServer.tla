---------------------------- MODULE MCAdminServer ----------------------------
EXTENDS AdminServerProps
Symmetry == Permutations(Calls)
=============================================================================
