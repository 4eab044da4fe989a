---------------------------- MODULE MCLeaderboard ----------------------------
EXTENDS LeaderboardProps
Symmetry == Permutations(Nicknames) \cup Permutations(Identities)
=============================================================================
