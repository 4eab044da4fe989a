------------------------------ MODULE DuelMatch ------------------------------
(***************************************************************************)
(* What the rooms promise to two players, without sockets, timers or       *)
(* messages: a match is started from zero, is played round by round, is    *)
(* decided, and may be called off only before its first round is scored.   *)
(* A room whose code was given out is never opened again.                  *)
(***************************************************************************)
EXTENDS Naturals

CONSTANTS Rooms, Users, TotalRounds

VARIABLE duel \* duel[r]: the stage room r is in, the rounds scored, and who won how many

Zero == [u \in Users |-> 0]
Fresh(stage) == [stage |-> stage, played |-> 0, score |-> Zero]
Init == duel = [r \in Rooms |-> Fresh("none")]

-----------------------------------------------------------------------------
Becomes(r, d) == duel' = [duel EXCEPT ![r] = d]

Open(r)  == duel[r] = Fresh("none") /\ Becomes(r, Fresh("lobby"))
Start(r) == duel[r] = Fresh("lobby") /\ Becomes(r, Fresh("match"))

(* A round is won by one player or by none. *)
Score(score, winners) == [u \in Users |-> IF u \in winners THEN score[u] + 1 ELSE score[u]]
Round(r) ==
  /\ duel[r].stage = "match" /\ duel[r].played < TotalRounds
  /\ \E winners \in {{}} \cup {{u} : u \in Users} :
       Becomes(r, [duel[r] EXCEPT !.played = @ + 1, !.score = Score(@, winners)])

(* By its last round, or by a forfeit: at any time, and even after the match was *)
(* called off, because a grace timer outlives it.                                *)
Decide(r) == duel[r].stage \in {"match", "lobby"} /\ Becomes(r, [duel[r] EXCEPT !.stage = "over"])

CallOff(r) == duel[r] = Fresh("match") /\ Becomes(r, Fresh("lobby"))
Rematch(r) == duel[r].stage = "over" /\ Becomes(r, Fresh("lobby"))
Close(r)   == duel[r].stage # "none" /\ Becomes(r, Fresh("gone"))

(* The process ends. *)
Crash == duel' = [r \in Rooms |-> IF duel[r].stage = "none" THEN duel[r] ELSE Fresh("gone")]

Next ==
  \/ \E r \in Rooms : \/ Open(r) \/ Start(r) \/ Round(r) \/ Decide(r)
                      \/ CallOff(r) \/ Rematch(r) \/ Close(r)
  \/ Crash

Spec == Init /\ [][Next]_duel
=============================================================================
