--------------------------- MODULE LeaderboardProps ---------------------------
(***************************************************************************)
(* What a leaderboard answer is worth when users sign up, score and leave  *)
(* while it is put together.  A user who did none of that is "still".      *)
(***************************************************************************)
EXTENDS Leaderboard

(* The order the board is to show: records from the best down, then the users *)
(* without one from the oldest on.                                            *)
Ahead(a, b) ==
  \/ a \in Scored /\ b \in Scored /\ solo[a].best > solo[b].best
  \/ a \in Scored /\ b \in Unscored
  \/ a \in Unscored /\ b \in Unscored /\ a < b

(* moved is kept up to the answer, so it is the answer's step that is judged. *)
Answering == read' # read /\ Answered(read')
Still == {id \in Ids : Exists(id)} \ moved
Listed(list, id) == {i \in DOMAIN list : list[i].id = id}

(* The two queries of the list together name nobody twice, unless a deletion of *)
(* that user's record came between them.                                        *)
ListedOnce ==
  [][Answering => \A id \in Ids : Cardinality(Listed(read'.list, id)) > 1 => id \in moved]_boardVars

(* Nobody who stands still is left out of the list in favour of somebody still  *)
(* who is behind, or while places are left.                                     *)
NobodyPassedOver ==
  [][Answering => \A id \in Still : Listed(read'.list, id) = {} =>
       /\ Len(read'.list) = TopN
       /\ \A other \in Still : Listed(read'.list, other) # {} => ~Ahead(id, other)]_boardVars

(* The caller's rank is one more than the number of those ahead; somebody who    *)
(* moves meanwhile counts for nothing, once, or in both of the two counts.       *)
RankCountsThoseAhead ==
  [][Answering /\ read'.me \in Still =>
       LET ahead == {id \in Still : Ahead(id, read'.me)}
       IN  read'.rank - 1 - Cardinality(ahead) \in 0..(2 * Cardinality(moved))]_boardVars

(* If nobody moves, the rank the caller is given is the first of the places the *)
(* list gives to those with the caller's score.  docs/api.md:535 says that      *)
(* equal scores get different ranks, as the places of the list are.  getMyEntry *)
(* counts the strictly better scores (leaderboard.repository.ts:102), so that   *)
(* all of a tie are told one rank; without a tie rank and place are the same.   *)
RankAgreesWithList ==
  [][Answering /\ moved = {} =>
       \A i \in Listed(read'.list, read'.me) :
         LET tied == {id \in Still : ~Ahead(id, read'.me) /\ ~Ahead(read'.me, id)}
         IN  read'.rank <= i /\ i < read'.rank + Cardinality(tied)]_boardVars
=============================================================================
