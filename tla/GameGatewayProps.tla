--------------------------- MODULE GameGatewayProps ---------------------------
(***************************************************************************)
(* What the gateway should guarantee.  The first part holds; the last part *)
(* states what the repository's docs and comments say and the code, in     *)
(* some order of events, does not do.                                      *)
(***************************************************************************)
EXTENDS GameGateway

OpenRooms == {r \in Rooms : room[r].store = "open"}

-----------------------------------------------------------------------------
(* Registration. *)

(* The user index never points at an open room its user is not in, so the      *)
(* "already in a room" check and every handler that looks the room up by user  *)
(* act on a room the user is in (store.getRoomByUserId and its callers).       *)
UserIndexSound ==
  \A u \in Users : Open(userRoom[u]) => u \in Members(room[userRoom[u]])

(* A user is in at most the one room the index names: no create, join,         *)
(* reconnect, leave or cleanup, of this user or of another one, in whatever    *)
(* order, leaves a player no event can reach.  This and the next two hold      *)
(* while a user has one lookup in flight and no timer whose handle was         *)
(* overwritten outlives its room.                                              *)
UserIndexComplete ==
  \A r \in OpenRooms : \A u \in Members(room[r]) : userRoom[u] = r

(* The socket index has exactly the current socket of each connected player of *)
(* an open room: when that socket goes, handleDisconnect finds the room, and   *)
(* no socket a reconnect replaced can disconnect its user later.               *)
SocketIndexExact ==
  /\ \A s \in Sockets : Open(sockRoom[s]) =>
       /\ Owner(s) \in Members(room[sockRoom[s]])
       /\ room[sockRoom[s]].info[Owner(s)].sock = s
  /\ \A r \in OpenRooms : \A u \in Members(room[r]) :
       room[r].info[u].connected => sockRoom[room[r].info[u].sock] = r

(* The admin health snapshot never counts more active players than sockets. *)
StatsConsistent == ActivePlayerCount <= ConnectedSocketCount

(* An open room has a player and at most one host, and each player once, through *)
(* leaving, host transfer and silent removal on reconnect.                       *)
RoomShape ==
  \A r \in OpenRooms :
    /\ room[r].players # <<>>
    /\ IsInjective(room[r].players)
    /\ Cardinality({u \in Users : room[r].info[u].host}) <= 1

-----------------------------------------------------------------------------
(* The match. *)

(* The score a client is shown is the number of recorded rounds it won: rounds *)
(* and scores are counted and cleared together by every path that resets or    *)
(* ends a match.                                                               *)
ScoresMatchRecords ==
  \A r \in Rooms : \A u \in Users :
    room[r].scores[u] =
      Cardinality({i \in DOMAIN room[r].records :
                     \A v \in Users \ {u} : room[r].records[i].db[u] > room[r].records[i].db[v]})

(* A round is scored at most once, and only rounds that were prepared: neither *)
(* the race of the last submission with the hard close nor (with MaxLost > 0,  *)
(* which the proof covers) a lost round timer resolves a round twice.          *)
RoundsScoredOnce ==
  \A r \in Rooms : LET rec == room[r].records IN
    /\ \A i, j \in DOMAIN rec : i < j => rec[i].round < rec[j].round
    /\ \A i \in DOMAIN rec : rec[i].round \in 1..room[r].round

(* A submission counts for the round it was sent in and cannot be replaced: it *)
(* changes only when the next round is prepared or the match is reset.         *)
SubmissionStands ==
  [][\A r \in Rooms : \A u \in Users :
       /\ room[r].info[u].sub # NoSubmission
       /\ room'[r].info[u].sub # room[r].info[u].sub
       => room'[r].info[u].sub = NoSubmission /\ room'[r].phase # "playing"]_vars

(* Once the first official round has started, a match of two players ends with *)
(* a result (game_over) or with its room; it never slips back to waiting or    *)
(* ready, where scores are cleared.                                            *)
OfficialMatchDecided ==
  [][\A r \in OpenRooms :
       /\ room[r].official /\ room[r].phase \in InGame
       /\ Cardinality(Members(room[r])) >= 2
       => \/ room'[r].phase \in InGame \cup {"game_over"}
          \/ room'[r].store = "gone"]_vars

(* Seen from outside an open room is a duel: countdown to round_end are its match. *)
Stage(rm) ==
  CASE rm.phase \in {"waiting", "ready"} -> "lobby"
    [] rm.phase \in InGame -> "match"
    [] rm.phase \in {"game_over", "rematch_waiting"} -> "over"
AsDuel(rm) ==
  IF rm.store = "open" THEN [stage |-> Stage(rm), played |-> Len(rm.records), score |-> rm.scores]
  ELSE [stage |-> IF rm.store = "free" THEN "none" ELSE "gone", played |-> 0, score |-> ZeroScores]
Duel == INSTANCE DuelMatch WITH duel <- [r \in Rooms |-> AsDuel(room[r])]

(* Between two players, while no handle of a pending timer is overwritten,       *)
(* every handler and timer callback is a step of DuelMatch or changes nothing:   *)
(* a match starts from zero, scores a round at a time up to TotalRounds, and only *)
(* before the first scored round can it be called off.                           *)
ImplementsDuelMatch == Duel!Spec

-----------------------------------------------------------------------------
(* Timers. *)

(* The timer that ends the current phase is always pending, whichever handles  *)
(* were overwritten or cleared on the way: an open room with two players is    *)
(* never stuck in the middle of a match.                                       *)
PhaseHasItsTimer ==
  \A r \in OpenRooms : LET rm == room[r] IN Cardinality(Members(rm)) >= 2 =>
    /\ rm.phase = "countdown" => \/ \E n \in 0..CountdownTicks : Pending(rm, "countdown", Tick(n))
                                 \/ Pending(rm, "post", Timer("next"))
    /\ rm.phase = "preparing" => Pending(rm, "prepare", Timer("prepare"))
    /\ rm.phase = "playing"   => Pending(rm, "round", Timer("round"))
    /\ rm.phase = "round_end" => Pending(rm, "post", Timer("finish"))

(* A finished match keeps its TTL until the room leaves game_over and            *)
(* rematch_waiting, so an unused room goes away.                                *)
FinishedRoomHasTTL ==
  \A r \in OpenRooms :
    room[r].phase \in {"game_over", "rematch_waiting"} /\ Cardinality(Members(room[r])) >= 2
      => room[r].handle["ttl"] # NoTimer

(* A grace timer runs only against a player who is in the room and away: a     *)
(* reconnect, a leave or a removal always stops it (under the conditions of    *)
(* UserIndexComplete).                                                         *)
GraceOnlyWhileAway ==
  \A r \in OpenRooms : \A u \in Users :
    room[r].handle[u] # NoTimer \/ room[r].lost[Grace(u)] > 0
      => u \in Members(room[r]) /\ ~room[r].info[u].connected

-----------------------------------------------------------------------------
(* Liveness.  Node runs a due timer and a settled promise sooner or later; it   *)
(* owes nothing to a client.                                                    *)
Fairness ==
  /\ \A s \in Sockets : WF_vars(TryReconnect(s))
  /\ \A s \in Sockets : WF_vars(\E c \in lookup :
       c.sock = s /\ (RoomJoined(c) \/ ProfileMissing(c) \/ \E r \in Rooms : RoomCreated(c, r)))
  /\ \A r \in Rooms :
       /\ WF_vars(CountdownTick(r))
       /\ WF_vars(CountdownEnd(r))
       /\ WF_vars(PrepareTimeout(r))
       /\ WF_vars(RoundTimeout(r))
       /\ WF_vars(FinishTimeout(r))
       /\ WF_vars(NextRoundTimeout(r))
       /\ WF_vars(TTLTimeout(r))
       /\ \A u \in Users : WF_vars(ForfeitTimeout(r, u))

LiveSpec == Spec /\ Fairness

(* Whatever the clients do or stop doing, a match between two players ends. *)
MatchEnds ==
  \A r \in Rooms :
    (room[r].phase \in InGame /\ Cardinality(Members(room[r])) >= 2)
      ~> (room[r].phase \notin InGame \/ Cardinality(Members(room[r])) < 2)

(* A finished match between two players is followed by a rematch, a new         *)
(* opponent or the deletion of the room.                                        *)
FinishedRoomMovesOn ==
  \A r \in Rooms :
    (room[r].phase = "game_over" /\ Cardinality(Members(room[r])) >= 2)
      ~> (room[r].phase # "game_over" \/ Cardinality(Members(room[r])) < 2)

-----------------------------------------------------------------------------
(* What the docs say. *)

(* game.types.ts:62, officialRoundStarted: true once the first round:start was *)
(* emitted, then a failure is a forfeit; docs/api.md:459 match:prepare-failed. *)
(* A room back in waiting or ready has started no round of its next match.     *)
OfficialOnlyInMatch ==
  \A r \in OpenRooms : room[r].phase \in {"waiting", "ready"} => ~room[r].official

(* game.gateway.ts:24 "States where forfeit does NOT apply". *)
NoForfeitOutsideMatch ==
  [][\A r \in OpenRooms :
       room[r].phase \in NoForfeit \ {"game_over"} => room'[r].phase # "game_over"]_vars

(* game.gateway.spec.ts:306: joining a full room is an error. *)
AtMostTwoPlayers == \A r \in OpenRooms : Len(room[r].players) <= 2

(* game.types.ts:3: in "ready", and so in a match, two players have joined. *)
MatchHasTwoPlayers ==
  \A r \in OpenRooms : room[r].phase \in InGame => Cardinality(Members(room[r])) >= 2
=============================================================================
