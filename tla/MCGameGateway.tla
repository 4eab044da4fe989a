---------------------------- MODULE MCGameGateway ----------------------------
EXTENDS GameGatewayProps
Symmetry == Permutations(Users) \cup Permutations(Rooms)
=============================================================================
