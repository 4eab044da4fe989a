------------------------------- MODULE GameRoom -------------------------------
(***************************************************************************)
(* One room of the duel server, as GameRoomStore keeps it in memory, and   *)
(* what the gateway's private helpers do to it.  A helper is an operator   *)
(* from rooms to rooms; GameGateway composes them into handlers.           *)
(*                                                                         *)
(* A setTimeout that has not run yet is a pending timer.  The code can     *)
(* cancel only the timer whose handle a field still holds: overwriting the *)
(* field, or setting it to null, leaves the old callback pending.  Such    *)
(* timers are counted in "lost".                                           *)
(***************************************************************************)
EXTENDS Integers, Sequences, FiniteSets, SequencesExt

CONSTANTS Users,          \* user ids of accounts that open sockets
          Connections,    \* connections each user opens in a behaviour
          TotalRounds,    \* totalRounds, 3 in the code
          CountdownTicks, \* ticks before the last wait of a countdown, 3 in the code
          Decibels,       \* clamped peakDb values
          NoUser, NoRoom  \* null

ASSUME UsersAssumption       == NoUser \notin Users
ASSUME ConnectionsAssumption == Connections \in Nat
ASSUME RoundsAssumption      == TotalRounds \in Nat \ {0}
ASSUME TicksAssumption       == CountdownTicks \in Nat \ {0}
ASSUME DecibelsAssumption    == Decibels \subseteq Nat /\ 0 \in Decibels

-----------------------------------------------------------------------------
(* A socket is the n-th connection of a user; its id is never used again. *)
Sockets  == Users \X (1..Connections)
NoSocket == <<NoUser, 0>>
Owner(s) == s[1]

Phases == {"waiting", "ready", "countdown", "preparing", "playing", "round_end",
           "game_over", "rematch_waiting"}
InGame     == {"countdown", "preparing", "playing", "round_end"}
NoForfeit  == {"waiting", "ready", "game_over", "rematch_waiting"}
Reconnects == InGame \cup {"ready", "rematch_waiting"}

(* Pending callbacks.  A "tick" carries the count it has captured; the one with *)
(* count 0 is the last wait, whose callback is prepareRound.                    *)
Timer(kind) == [kind |-> kind, arg |-> 0]
Tick(n)     == [kind |-> "tick", arg |-> n]
Grace(u)    == [kind |-> "forfeit", arg |-> u]
NoTimer     == Timer("none")
Timers == {Timer(k) : k \in {"prepare", "round", "finish", "next", "ttl"}}
          \cup {Tick(n) : n \in 0..CountdownTicks} \cup {Grace(u) : u \in Users}

(* The fields that hold a handle: five of the room, one of each player. *)
MatchHandles == {"round", "prepare", "countdown", "post"}
RoomHandles  == MatchHandles \cup {"ttl"}
Handles      == RoomHandles \cup Users
ASSUME HandlesAssumption == RoomHandles \cap Users = {} \* names of fields are no user ids

NoSubmission == -1
Player(s, host) == [sock |-> s, host |-> host, ready |-> FALSE, rematch |-> FALSE,
                    connected |-> TRUE, sub |-> NoSubmission]
NoPlayer == [Player(NoSocket, FALSE) EXCEPT !.connected = FALSE]

PlayerInfo  == [sock : Sockets \cup {NoSocket}, host : BOOLEAN, ready : BOOLEAN,
                rematch : BOOLEAN, connected : BOOLEAN,
                sub : Decibels \cup {NoSubmission}]
RoundRecord == [round : Nat, db : [Users -> Decibels]]

(* "store" says whether the store's map holds the room: its code was never *)
(* given out, it is open, or it has been deleted.                          *)
GameRoomType ==
  [store : {"free", "open", "gone"}, phase : Phases, round : Nat,
   players : Seq(Users), info : [Users -> PlayerInfo], official : BOOLEAN,
   micReady : SUBSET Users, scores : [Users -> Nat], records : Seq(RoundRecord),
   handle : [Handles -> Timers \cup {NoTimer}], lost : [Timers -> Nat]]

ZeroScores == [u \in Users |-> 0]
EmptyRoom(store) ==
  [store |-> store, phase |-> "waiting", round |-> 0, players |-> <<>>,
   info |-> [u \in Users |-> NoPlayer], official |-> FALSE, micReady |-> {},
   scores |-> ZeroScores, records |-> <<>>,
   handle |-> [h \in Handles |-> NoTimer], lost |-> [t \in Timers |-> 0]]

-----------------------------------------------------------------------------
(* Timers. *)

(* handle := setTimeout(t): what the handle pointed to stays pending. *)
Lose(lost, t) == IF t = NoTimer THEN lost ELSE [lost EXCEPT ![t] = @ + 1]
Arm(rm, h, t) == [rm EXCEPT !.handle[h] = t, !.lost = Lose(rm.lost, rm.handle[h])]

(* handle := null without a clearTimeout. *)
Forget(rm, h) == Arm(rm, h, NoTimer)

(* clearTimeout(handle); handle := null, for each of hs. *)
Cancel(rm, hs) ==
  [rm EXCEPT !.handle = [h \in Handles |-> IF h \in hs THEN NoTimer ELSE rm.handle[h]]]

(* refreshTTL: clear the old timer, start a new one. *)
RefreshTTL(rm) == Arm(Cancel(rm, {"ttl"}), "ttl", Timer("ttl"))

(* The rooms in which timer t has just gone off: the held one, or a lost one. *)
Expired(rm, h, t) ==
  (IF rm.handle[h] = t THEN {[rm EXCEPT !.handle[h] = NoTimer]} ELSE {})
  \cup (IF rm.lost[t] > 0 THEN {[rm EXCEPT !.lost[t] = @ - 1]} ELSE {})

Pending(rm, h, t) == rm.handle[h] = t \/ rm.lost[t] > 0
HasPending(rm) == (\E h \in Handles : rm.handle[h] # NoTimer) \/ (\E t \in Timers : rm.lost[t] > 0)

-----------------------------------------------------------------------------
(* Players. *)
Members(rm) == {rm.players[i] : i \in DOMAIN rm.players}
SocketsIn(rm) == {rm.info[u].sock : u \in Members(rm)}

(* getOpponentId: the first other player in insertion order. *)
OpponentOf(rm, u) ==
  LET others == {i \in DOMAIN rm.players : rm.players[i] # u}
  IN  IF others = {} THEN NoUser ELSE rm.players[Min(others)]

(* players.set(u, p): a Map keeps the place of a key it already has. *)
SetPlayer(rm, u, p) ==
  [Forget(rm, u) EXCEPT !.players = IF u \in Members(rm) THEN @ ELSE Append(@, u),
                        !.info[u] = p]

(* players.delete(u), its grace timer cleared first. *)
RemovePlayer(rm, u) ==
  [Cancel(rm, {u}) EXCEPT
     !.players = RemoveAt(@, CHOOSE i \in DOMAIN rm.players : rm.players[i] = u),
     !.info[u] = NoPlayer]

(* handleDisconnect, tryReconnect and onRoomJoin: the player goes, comes back on   *)
(* socket s, or is new.                                                            *)
Away_StaysConnected(rm, u) == rm \* mutated: connected is not cleared
Away(rm, u) == [rm EXCEPT !.info[u].connected = FALSE]
Rejoined_GraceRuns(rm, u, s) == \* mutated: the grace timer is not cleared
  [rm EXCEPT !.info[u].sock = s, !.info[u].connected = TRUE]
Rejoined(rm, u, s) ==
  [Cancel(rm, {u}) EXCEPT !.info[u].sock = s, !.info[u].connected = TRUE]
Joined_AsHost(rm, u, s) == \* mutated: the guest is stored as a host
  [SetPlayer(rm, u, Player(s, TRUE)) EXCEPT !.phase = "ready"]
Joined(rm, u, s) == [SetPlayer(rm, u, Player(s, FALSE)) EXCEPT !.phase = "ready"]

-----------------------------------------------------------------------------
(* The match. *)
FreshPlayer(p) == [p EXCEPT !.ready = FALSE, !.rematch = FALSE, !.sub = NoSubmission]
ClearProgress_KeepsScores(rm, phase) == \* mutated: no scores.clear()
  [rm EXCEPT !.phase = phase, !.round = 0, !.records = <<>>, !.micReady = {},
             !.info = [u \in Users |-> FreshPlayer(rm.info[u])]]
ClearProgress_KeepsRecords(rm, phase) == \* mutated: roundRecords is not emptied
  [rm EXCEPT !.phase = phase, !.round = 0, !.scores = ZeroScores, !.micReady = {},
             !.info = [u \in Users |-> FreshPlayer(rm.info[u])]]
ClearProgress(rm, phase) ==
  [rm EXCEPT !.phase = phase, !.round = 0, !.scores = ZeroScores, !.records = <<>>,
             !.micReady = {}, !.info = [u \in Users |-> FreshPlayer(rm.info[u])]]

(* resetGameData *)
ResetGameData(rm) ==
  Cancel([ClearProgress(rm, "ready") EXCEPT !.official = FALSE], MatchHandles)

(* startRematch *)
StartRematch(rm) == ResetGameData(Cancel(rm, {"ttl"}))

StartCountdown(rm) == Arm(rm, "countdown", Tick(CountdownTicks))

PrepareRound(rm) ==
  IF rm.phase = "game_over" THEN rm
  ELSE Arm([rm EXCEPT !.phase = "preparing", !.round = @ + 1, !.micReady = {},
                      !.info = [u \in Users |-> [rm.info[u] EXCEPT !.sub = NoSubmission]]],
           "prepare", Timer("prepare"))

DoStartRound_NoTimer(rm) == \* mutated: no hard close
  [rm EXCEPT !.phase = "playing", !.official = TRUE]
DoStartRound_Unofficial(rm) == \* mutated: officialRoundStarted is not set
  Arm([rm EXCEPT !.phase = "playing"], "round", Timer("round"))
DoStartRound(rm) ==
  Arm([rm EXCEPT !.phase = "playing", !.official = TRUE], "round", Timer("round"))

(* onRoundSubmit's conditions. *)
CanSubmit_Again(rm, u) == rm.phase = "playing" \* mutated: a submission is replaced
CanSubmit(rm, u) == rm.phase = "playing" /\ rm.info[u].sub = NoSubmission

(* resolveRound compares the first two players; a missing submission counts as 0. *)
PeakOf_NoDefault(rm, u) == rm.info[u].sub \* mutated: no "?? 0"
PeakOf(rm, u) == IF rm.info[u].sub = NoSubmission THEN 0 ELSE rm.info[u].sub
RoundWinner(rm) ==
  LET db1 == PeakOf(rm, rm.players[1])
      db2 == PeakOf(rm, rm.players[2])
  IN  IF db1 > db2 THEN rm.players[1] ELSE IF db2 > db1 THEN rm.players[2] ELSE NoUser
ScoreRound(rm) ==
  [rm EXCEPT
     !.scores  = [u \in Users |-> IF u = RoundWinner(rm) THEN rm.scores[u] + 1
                                 ELSE rm.scores[u]],
     !.records = Append(@, [round |-> rm.round,
                            db |-> [u \in Users |-> IF u \in {rm.players[1], rm.players[2]}
                                                    THEN PeakOf(rm, u) ELSE 0]])]
ResolveRound(rm) ==
  IF rm.round >= TotalRounds
  THEN Arm([ScoreRound(rm) EXCEPT !.phase = "round_end"], "post", Timer("finish"))
  ELSE Arm([ScoreRound(rm) EXCEPT !.phase = "countdown"], "post", Timer("next"))

(* finishGame: with fewer than two players it throws after the state change, *)
(* before the TTL is started, and the rejection is only logged.              *)
FinishGame_NoTTL(rm) == [rm EXCEPT !.phase = "game_over"] \* mutated: no refreshTTL
FinishGame(rm) ==
  IF rm.phase = "game_over" THEN rm
  ELSE IF Len(rm.players) < 2 THEN [rm EXCEPT !.phase = "game_over"]
  ELSE RefreshTTL([rm EXCEPT !.phase = "game_over"])

(* The common part of handleForfeit: every phase timer is cut. *)
GameOver(rm) == [Cancel(rm, MatchHandles) EXCEPT !.phase = "game_over"]

(* onRoomLeave before the first official round, and while no match is on: the *)
(* remaining player goes back to waiting.  The two blocks differ in what they reset. *)
SetupCancelled(rm) ==
  Cancel([ClearProgress(rm, "waiting") EXCEPT !.official = FALSE], RoomHandles)
SlotReleased(rm) ==
  Cancel(ClearProgress(rm, "waiting"), RoomHandles \ {"round"})

(* cleanupRoom, as far as the room itself goes. *)
Deleted(rm) == [Cancel(rm, RoomHandles \cup Members(rm)) EXCEPT !.store = "gone"]

(* A deleted room that no pending callback refers to is garbage. *)
Collected(rm) == IF rm.store = "gone" /\ ~HasPending(rm) THEN EmptyRoom("gone") ELSE rm
=============================================================================
