-------------------------- MODULE GameGatewayProofs --------------------------
(***************************************************************************)
(* Types: every helper of GameRoom maps well-formed rooms to well-formed   *)
(* rooms, and every action of the gateway keeps its state well formed, for *)
(* any number of users, sockets, room codes, rounds and lookups in flight. *)
(***************************************************************************)
EXTENDS GameGatewayProps, SequenceTheorems, TLAPS

(* The helpers. *)
LEMMA ArmType ==
  ASSUME NEW rm \in GameRoomType, NEW h \in Handles, NEW t \in Timers \cup {NoTimer}
  PROVE  Arm(rm, h, t) \in GameRoomType
<1>1. rm.handle \in [Handles -> Timers \cup {NoTimer}] /\ rm.lost \in [Timers -> Nat]
  BY DEF GameRoomType
<1>2. Lose(rm.lost, rm.handle[h]) \in [Timers -> Nat]
  BY <1>1 DEF Lose
<1> QED BY <1>1, <1>2 DEF Arm, GameRoomType

LEMMA CancelType ==
  ASSUME NEW rm \in GameRoomType, NEW hs
  PROVE  Cancel(rm, hs) \in GameRoomType
BY DEF Cancel, GameRoomType

LEMMA PlayerType ==
  ASSUME NEW s \in Sockets \cup {NoSocket}, NEW host \in BOOLEAN
  PROVE  Player(s, host) \in PlayerInfo
BY DEF Player, PlayerInfo

LEMMA NoPlayerType == NoPlayer \in PlayerInfo
<1>1. Player(NoSocket, FALSE) \in PlayerInfo
  BY PlayerType
<1> QED BY <1>1 DEF NoPlayer, PlayerInfo

LEMMA EmptyType ==
  ASSUME NEW store \in {"free", "open", "gone"}
  PROVE  EmptyRoom(store) \in GameRoomType
<1>1. <<>> \in Seq(Users) /\ <<>> \in Seq(RoundRecord)
  OBVIOUS
<1>2. ZeroScores \in [Users -> Nat]
  BY DEF ZeroScores
<1>3. [u \in Users |-> NoPlayer] \in [Users -> PlayerInfo]
  BY NoPlayerType
<1>4. [h \in Handles |-> NoTimer] \in [Handles -> Timers \cup {NoTimer}]
  OBVIOUS
<1>5. [t \in Timers |-> 0] \in [Timers -> Nat]
  OBVIOUS
<1>6. "waiting" \in Phases
  BY DEF Phases
<1> HIDE DEF NoPlayer, NoTimer, ZeroScores
<1> QED BY <1>1, <1>2, <1>3, <1>4, <1>5, <1>6 DEF EmptyRoom, GameRoomType

(* Timers. *)
LEMMA TimersType ==
  /\ \A k \in {"prepare", "round", "finish", "next", "ttl"} : Timer(k) \in Timers
  /\ \A n \in 0..CountdownTicks : Tick(n) \in Timers
  /\ \A u \in Users : Grace(u) \in Timers
BY DEF Timers

LEMMA HandlesType ==
  /\ MatchHandles \subseteq Handles /\ RoomHandles \subseteq Handles /\ Users \subseteq Handles
  /\ "ttl" \in Handles /\ "post" \in Handles
  /\ "countdown" \in Handles /\ "prepare" \in Handles /\ "round" \in Handles
BY DEF Handles, RoomHandles, MatchHandles

LEMMA ForgetType ==
  ASSUME NEW rm \in GameRoomType, NEW h \in Handles
  PROVE  Forget(rm, h) \in GameRoomType
BY ArmType DEF Forget

LEMMA RefreshTTLType ==
  ASSUME NEW rm \in GameRoomType
  PROVE  RefreshTTL(rm) \in GameRoomType
BY ArmType, CancelType, TimersType, HandlesType DEF RefreshTTL

LEMMA ExpiredType ==
  ASSUME NEW rm \in GameRoomType, NEW h \in Handles, NEW t \in Timers,
         NEW next \in Expired(rm, h, t)
  PROVE  next \in GameRoomType
<1>1. CASE rm.handle[h] = t /\ next = [rm EXCEPT !.handle[h] = NoTimer]
  BY <1>1 DEF GameRoomType
<1>2. CASE rm.lost[t] > 0 /\ next = [rm EXCEPT !.lost[t] = @ - 1]
  <2>1. rm.lost[t] - 1 \in Nat
    BY <1>2 DEF GameRoomType
  <2> QED BY <1>2, <2>1 DEF GameRoomType
<1> QED BY <1>1, <1>2 DEF Expired

(* Players. *)
LEMMA SetPlayerType ==
  ASSUME NEW rm \in GameRoomType, NEW u \in Users, NEW p \in PlayerInfo
  PROVE  SetPlayer(rm, u, p) \in GameRoomType
<1> DEFINE f == Forget(rm, u)
<1>1. f \in GameRoomType
  BY ForgetType, HandlesType
<1>2. (IF u \in Members(rm) THEN f.players ELSE Append(f.players, u)) \in Seq(Users)
  BY <1>1 DEF GameRoomType
<1> HIDE DEF f
<1>3. [f EXCEPT !.players = IF u \in Members(rm) THEN @ ELSE Append(@, u), !.info[u] = p]
        \in GameRoomType
  BY <1>1, <1>2 DEF GameRoomType
<1> QED BY <1>3 DEF SetPlayer, f

LEMMA RemoveAtType ==
  ASSUME NEW S, NEW seq \in Seq(S), NEW i \in DOMAIN seq
  PROVE  RemoveAt(seq, i) \in Seq(S)
<1>1. SubSeq(seq, 1, i - 1) \in Seq(S) /\ SubSeq(seq, i + 1, Len(seq)) \in Seq(S)
  OBVIOUS
<1> QED BY <1>1 DEF RemoveAt

LEMMA RemovePlayerType ==
  ASSUME NEW rm \in GameRoomType, NEW u \in Members(rm)
  PROVE  RemovePlayer(rm, u) \in GameRoomType
<1> DEFINE i == CHOOSE i \in DOMAIN rm.players : rm.players[i] = u
           c == Cancel(rm, {u})
<1>1. i \in DOMAIN rm.players /\ rm.players[i] = u
  BY DEF Members
<1>2. c \in GameRoomType /\ c.players = rm.players
  BY CancelType DEF Cancel, GameRoomType
<1>3. RemoveAt(rm.players, i) \in Seq(Users)
  BY <1>1, RemoveAtType DEF GameRoomType
<1> HIDE DEF i, c
<1>4. [c EXCEPT !.players = RemoveAt(@, i), !.info[u] = NoPlayer] \in GameRoomType
  BY <1>2, <1>3, NoPlayerType DEF GameRoomType
<1> QED BY <1>4 DEF RemovePlayer, c, i

(* A player's record, and updates of it. *)
LEMMA InfoType ==
  ASSUME NEW rm \in GameRoomType, NEW u \in Users
  PROVE  rm.info[u] \in PlayerInfo
BY DEF GameRoomType

LEMMA PlayerUpdates ==
  ASSUME NEW p \in PlayerInfo
  PROVE  /\ [p EXCEPT !.connected = FALSE] \in PlayerInfo
         /\ [p EXCEPT !.sub = NoSubmission] \in PlayerInfo
         /\ \A s \in Sockets : [p EXCEPT !.sock = s, !.connected = TRUE] \in PlayerInfo
         /\ [p EXCEPT !.ready = TRUE] \in PlayerInfo
         /\ [p EXCEPT !.rematch = TRUE] \in PlayerInfo
         /\ [p EXCEPT !.host = TRUE] \in PlayerInfo
         /\ \A db \in Decibels : [p EXCEPT !.sub = db] \in PlayerInfo
         /\ FreshPlayer(p) \in PlayerInfo
<1>1. \A s \in Sockets : [p EXCEPT !.sock = s, !.connected = TRUE] \in PlayerInfo
  BY DEF PlayerInfo
<1>2. \A db \in Decibels : [p EXCEPT !.sub = db] \in PlayerInfo
  BY DEF PlayerInfo
<1>3. FreshPlayer(p) \in PlayerInfo
  BY DEF PlayerInfo, FreshPlayer
<1>4. [p EXCEPT !.connected = FALSE] \in PlayerInfo /\ [p EXCEPT !.sub = NoSubmission] \in PlayerInfo
  BY DEF PlayerInfo
<1>5. [p EXCEPT !.ready = TRUE] \in PlayerInfo /\ [p EXCEPT !.rematch = TRUE] \in PlayerInfo
      /\ [p EXCEPT !.host = TRUE] \in PlayerInfo
  BY DEF PlayerInfo
<1> QED BY <1>1, <1>2, <1>3, <1>4, <1>5

LEMMA AwayType ==
  ASSUME NEW rm \in GameRoomType, NEW u \in Users
  PROVE  Away(rm, u) \in GameRoomType
<1>1. [rm.info[u] EXCEPT !.connected = FALSE] \in PlayerInfo
  BY InfoType, PlayerUpdates
<1> QED BY <1>1 DEF Away, GameRoomType

LEMMA RejoinedType ==
  ASSUME NEW rm \in GameRoomType, NEW u \in Users, NEW s \in Sockets
  PROVE  Rejoined(rm, u, s) \in GameRoomType
<1> DEFINE c == Cancel(rm, {u})
<1>1. c \in GameRoomType
  BY CancelType
<1> HIDE DEF c
<1>2. [c.info[u] EXCEPT !.sock = s, !.connected = TRUE] \in PlayerInfo
  BY <1>1, InfoType, PlayerUpdates
<1>3. [c EXCEPT !.info[u].sock = s, !.info[u].connected = TRUE]
        = [c EXCEPT !.info = [c.info EXCEPT ![u] = [c.info[u] EXCEPT !.sock = s, !.connected = TRUE]]]
  BY <1>1 DEF GameRoomType, PlayerInfo
<1>4. [c EXCEPT !.info = [c.info EXCEPT ![u] = [c.info[u] EXCEPT !.sock = s, !.connected = TRUE]]]
        \in GameRoomType
  BY <1>1, <1>2 DEF GameRoomType
<1> QED BY <1>3, <1>4 DEF Rejoined, c

LEMMA JoinedType ==
  ASSUME NEW rm \in GameRoomType, NEW u \in Users, NEW s \in Sockets
  PROVE  Joined(rm, u, s) \in GameRoomType
<1>1. SetPlayer(rm, u, Player(s, FALSE)) \in GameRoomType
  BY PlayerType, SetPlayerType
<1> QED BY <1>1 DEF Joined, GameRoomType, Phases

(* The match. *)
LEMMA ClearProgressType ==
  ASSUME NEW rm \in GameRoomType, NEW phase \in Phases
  PROVE  ClearProgress(rm, phase) \in GameRoomType
<1>1. \A u \in Users : FreshPlayer(rm.info[u]) \in PlayerInfo
  BY InfoType, PlayerUpdates
<1>2. [u \in Users |-> FreshPlayer(rm.info[u])] \in [Users -> PlayerInfo]
  BY <1>1
<1>3. ZeroScores \in [Users -> Nat] /\ <<>> \in Seq(RoundRecord)
  BY DEF ZeroScores
<1> QED BY <1>2, <1>3 DEF ClearProgress, GameRoomType

LEMMA ResetGameDataType ==
  ASSUME NEW rm \in GameRoomType
  PROVE  ResetGameData(rm) \in GameRoomType
<1>1. ClearProgress(rm, "ready") \in GameRoomType
  BY ClearProgressType DEF Phases
<1>2. [ClearProgress(rm, "ready") EXCEPT !.official = FALSE] \in GameRoomType
  BY <1>1 DEF GameRoomType
<1> QED BY <1>2, CancelType DEF ResetGameData

LEMMA StartRematchType ==
  ASSUME NEW rm \in GameRoomType
  PROVE  StartRematch(rm) \in GameRoomType
BY CancelType, ResetGameDataType DEF StartRematch

LEMMA StartCountdownType ==
  ASSUME NEW rm \in GameRoomType
  PROVE  StartCountdown(rm) \in GameRoomType
<1>1. CountdownTicks \in 0..CountdownTicks
  BY TicksAssumption
<1> QED BY <1>1, ArmType, TimersType, HandlesType DEF StartCountdown

LEMMA PrepareRoundType ==
  ASSUME NEW rm \in GameRoomType
  PROVE  PrepareRound(rm) \in GameRoomType
<1> DEFINE info == [u \in Users |-> [rm.info[u] EXCEPT !.sub = NoSubmission]]
           p == [rm EXCEPT !.phase = "preparing", !.round = @ + 1, !.micReady = {}, !.info = info]
<1>1. \A u \in Users : [rm.info[u] EXCEPT !.sub = NoSubmission] \in PlayerInfo
  BY InfoType, PlayerUpdates
<1>2. info \in [Users -> PlayerInfo]
  BY <1>1
<1> HIDE DEF info
<1>3. \A n \in Nat : [rm EXCEPT !.phase = "preparing", !.round = n, !.micReady = {}, !.info = info]
                         \in GameRoomType
  BY <1>2 DEF GameRoomType, Phases
<1>4. rm.round + 1 \in Nat
  BY DEF GameRoomType
<1>5. p \in GameRoomType
  BY <1>3, <1>4
<1> HIDE DEF p
<1>6. Arm(p, "prepare", Timer("prepare")) \in GameRoomType
  BY <1>5, ArmType, TimersType, HandlesType
<1> QED BY <1>6 DEF PrepareRound, p, info

LEMMA DoStartRoundType ==
  ASSUME NEW rm \in GameRoomType
  PROVE  DoStartRound(rm) \in GameRoomType
<1>1. [rm EXCEPT !.phase = "playing", !.official = TRUE] \in GameRoomType
  BY DEF GameRoomType, Phases
<1> QED BY <1>1, ArmType, TimersType, HandlesType DEF DoStartRound

LEMMA PeakOfType ==
  ASSUME NEW rm \in GameRoomType, NEW u \in Users
  PROVE  PeakOf(rm, u) \in Decibels
BY DecibelsAssumption DEF PeakOf, GameRoomType, PlayerInfo

LEMMA ScoreRoundType ==
  ASSUME NEW rm \in GameRoomType
  PROVE  ScoreRound(rm) \in GameRoomType
<1> DEFINE two == {rm.players[1], rm.players[2]}
           record == [round |-> rm.round,
                      db |-> [u \in Users |-> IF u \in two THEN PeakOf(rm, u) ELSE 0]]
           scores == [u \in Users |-> IF u = RoundWinner(rm) THEN rm.scores[u] + 1
                                      ELSE rm.scores[u]]
<1>1. scores \in [Users -> Nat]
  BY DEF GameRoomType
<1>2. [u \in Users |-> IF u \in two THEN PeakOf(rm, u) ELSE 0] \in [Users -> Decibels]
  BY PeakOfType, DecibelsAssumption
<1>3. record \in RoundRecord
  BY <1>2 DEF RoundRecord, GameRoomType
<1> HIDE DEF record, scores
<1>4. Append(rm.records, record) \in Seq(RoundRecord)
  BY <1>3 DEF GameRoomType
<1>5. [rm EXCEPT !.scores = scores, !.records = Append(@, record)] \in GameRoomType
  BY <1>1, <1>4 DEF GameRoomType
<1> QED BY <1>5 DEF ScoreRound, record, scores

LEMMA ResolveRoundType ==
  ASSUME NEW rm \in GameRoomType
  PROVE  ResolveRound(rm) \in GameRoomType
<1> DEFINE sc == ScoreRound(rm)
<1>1. sc \in GameRoomType
  BY ScoreRoundType
<1> HIDE DEF sc
<1>2. [sc EXCEPT !.phase = "round_end"] \in GameRoomType
      /\ [sc EXCEPT !.phase = "countdown"] \in GameRoomType
  BY <1>1 DEF GameRoomType, Phases
<1>3. Arm([sc EXCEPT !.phase = "round_end"], "post", Timer("finish")) \in GameRoomType
      /\ Arm([sc EXCEPT !.phase = "countdown"], "post", Timer("next")) \in GameRoomType
  BY <1>2, ArmType, TimersType, HandlesType
<1> QED BY <1>3 DEF ResolveRound, sc

LEMMA FinishGameType ==
  ASSUME NEW rm \in GameRoomType
  PROVE  FinishGame(rm) \in GameRoomType
<1>1. [rm EXCEPT !.phase = "game_over"] \in GameRoomType
  BY DEF GameRoomType, Phases
<1> QED BY <1>1, RefreshTTLType DEF FinishGame

LEMMA GameOverType ==
  ASSUME NEW rm \in GameRoomType
  PROVE  GameOver(rm) \in GameRoomType
<1>1. Cancel(rm, MatchHandles) \in GameRoomType
  BY CancelType
<1> QED BY <1>1 DEF GameOver, GameRoomType, Phases

LEMMA LeaveResetsType ==
  ASSUME NEW rm \in GameRoomType
  PROVE  SetupCancelled(rm) \in GameRoomType /\ SlotReleased(rm) \in GameRoomType
<1>1. ClearProgress(rm, "waiting") \in GameRoomType
  BY ClearProgressType DEF Phases
<1>2. [ClearProgress(rm, "waiting") EXCEPT !.official = FALSE] \in GameRoomType
  BY <1>1 DEF GameRoomType
<1> QED BY <1>1, <1>2, CancelType DEF SetupCancelled, SlotReleased

LEMMA DeletedType ==
  ASSUME NEW rm \in GameRoomType
  PROVE  Deleted(rm) \in GameRoomType
<1>1. Cancel(rm, RoomHandles \cup Members(rm)) \in GameRoomType
  BY CancelType
<1> QED BY <1>1 DEF Deleted, GameRoomType

LEMMA CollectedType ==
  ASSUME NEW rm \in GameRoomType
  PROVE  Collected(rm) \in GameRoomType
BY EmptyType DEF Collected

-----------------------------------------------------------------------------
(* Most helpers leave the store's entry and the players alone. *)
Kept(old, new) == new.store = old.store /\ new.players = old.players

LEMMA TimersKept ==
  ASSUME NEW rm \in GameRoomType
  PROVE  /\ \A h \in Handles, t \in Timers \cup {NoTimer} : Kept(rm, Arm(rm, h, t))
         /\ \A hs : Kept(rm, Cancel(rm, hs))
         /\ \A h \in Handles : Kept(rm, Forget(rm, h))
         /\ Kept(rm, RefreshTTL(rm))
         /\ \A h \in Handles, t \in Timers : \A next \in Expired(rm, h, t) : Kept(rm, next)
<1>1. ASSUME NEW x \in GameRoomType, NEW h \in Handles, NEW t
      PROVE  Kept(x, Arm(x, h, t))
  BY DEF Kept, Arm, GameRoomType
<1>2. \A hs : Kept(rm, Cancel(rm, hs)) /\ Cancel(rm, hs) \in GameRoomType
  BY CancelType DEF Kept, Cancel, GameRoomType
<1>3. Kept(rm, RefreshTTL(rm))
  BY <1>1, <1>2, HandlesType DEF RefreshTTL, Kept
<1>4. \A h \in Handles, t \in Timers : \A next \in Expired(rm, h, t) : Kept(rm, next)
  BY DEF Kept, Expired, GameRoomType
<1> QED BY <1>1, <1>2, <1>3, <1>4 DEF Forget

LEMMA MatchKept ==
  ASSUME NEW rm \in GameRoomType
  PROVE  /\ \A ph \in Phases : Kept(rm, ClearProgress(rm, ph))
         /\ Kept(rm, ResetGameData(rm)) /\ Kept(rm, StartRematch(rm))
         /\ Kept(rm, StartCountdown(rm)) /\ Kept(rm, PrepareRound(rm))
         /\ Kept(rm, DoStartRound(rm)) /\ Kept(rm, ResolveRound(rm))
         /\ Kept(rm, FinishGame(rm)) /\ Kept(rm, GameOver(rm))
         /\ Kept(rm, SetupCancelled(rm)) /\ Kept(rm, SlotReleased(rm))
<1>1. ASSUME NEW x \in GameRoomType, NEW h, NEW t
      PROVE  Kept(x, Arm(x, h, t))
  BY DEF Kept, Arm, GameRoomType
<1>2. ASSUME NEW x \in GameRoomType, NEW hs
      PROVE  Kept(x, Cancel(x, hs)) /\ Cancel(x, hs) \in GameRoomType
  BY CancelType DEF Kept, Cancel, GameRoomType
<1>3. ASSUME NEW x \in GameRoomType, NEW ph \in Phases
      PROVE  /\ Kept(x, ClearProgress(x, ph)) /\ ClearProgress(x, ph) \in GameRoomType
             /\ Kept(x, [ClearProgress(x, ph) EXCEPT !.official = FALSE])
             /\ [ClearProgress(x, ph) EXCEPT !.official = FALSE] \in GameRoomType
  <2>1. ClearProgress(x, ph) \in GameRoomType /\ Kept(x, ClearProgress(x, ph))
    BY ClearProgressType DEF ClearProgress, GameRoomType, Kept
  <2> QED BY <2>1 DEF GameRoomType, Kept
<1>4. ASSUME NEW x \in GameRoomType
      PROVE  Kept(x, ResetGameData(x))
  <2>1. "ready" \in Phases
    BY DEF Phases
  <2> DEFINE y == [ClearProgress(x, "ready") EXCEPT !.official = FALSE]
  <2>2. y \in GameRoomType /\ Kept(x, y)
    BY <1>3, <2>1
  <2> HIDE DEF y
  <2>3. Kept(y, Cancel(y, MatchHandles))
    BY <1>2, <2>2
  <2> QED BY <2>2, <2>3 DEF ResetGameData, Kept, y
<1>5. Kept(rm, StartRematch(rm))
  BY <1>2, <1>4 DEF StartRematch, Kept
<1>6. Kept(rm, StartCountdown(rm))
  BY <1>1 DEF StartCountdown
<1>7. Kept(rm, PrepareRound(rm))
  BY DEF PrepareRound, Arm, Kept, GameRoomType
<1>8. Kept(rm, DoStartRound(rm))
  BY DEF DoStartRound, Arm, Kept, GameRoomType
<1>9. Kept(rm, ResolveRound(rm))
  <2>1. ScoreRound(rm) \in GameRoomType /\ Kept(rm, ScoreRound(rm))
    BY ScoreRoundType DEF ScoreRound, Kept, GameRoomType
  <2> QED BY <2>1 DEF ResolveRound, Arm, Kept, GameRoomType
<1>10. Kept(rm, FinishGame(rm))
  <2>1. [rm EXCEPT !.phase = "game_over"] \in GameRoomType
    BY DEF GameRoomType, Phases
  <2>2. Kept(rm, [rm EXCEPT !.phase = "game_over"])
    BY DEF Kept, GameRoomType
  <2> QED BY <2>1, <2>2, TimersKept DEF FinishGame, Kept
<1>11. Kept(rm, GameOver(rm))
  BY <1>2 DEF GameOver, Kept, GameRoomType
<1>12. Kept(rm, SetupCancelled(rm)) /\ Kept(rm, SlotReleased(rm))
  <2>1. "waiting" \in Phases
    BY DEF Phases
  <2> DEFINE x == ClearProgress(rm, "waiting")
             y == [ClearProgress(rm, "waiting") EXCEPT !.official = FALSE]
  <2>2. x \in GameRoomType /\ Kept(rm, x) /\ y \in GameRoomType /\ Kept(rm, y)
    BY <1>3, <2>1
  <2> HIDE DEF x, y
  <2>3. Kept(x, Cancel(x, RoomHandles \ {"round"})) /\ Kept(y, Cancel(y, RoomHandles))
    BY <1>2, <2>2
  <2> QED BY <2>2, <2>3 DEF SetupCancelled, SlotReleased, Kept, x, y
<1> QED BY <1>3, <1>4, <1>5, <1>6, <1>7, <1>8, <1>9, <1>10, <1>11, <1>12

(* Only two helpers change who is in the room. *)
LEMMA SetPlayerMembers ==
  ASSUME NEW rm \in GameRoomType, NEW u \in Users, NEW p \in PlayerInfo
  PROVE  LET new == SetPlayer(rm, u, p)
         IN  new.store = rm.store /\ Members(rm) \cup {u} \subseteq Members(new)
<1> DEFINE f == Forget(rm, u)
           players == IF u \in Members(rm) THEN f.players ELSE Append(f.players, u)
           new == [f EXCEPT !.players = IF u \in Members(rm) THEN @ ELSE Append(@, u),
                            !.info[u] = p]
<1>1. f \in GameRoomType /\ Kept(rm, f)
  BY ForgetType, HandlesType, TimersKept
<1> HIDE DEF f
<1>2. new.store = rm.store /\ new.players = players
  BY <1>1 DEF GameRoomType, Kept
<1>3. rm.players \in Seq(Users) /\ f.players = rm.players
  BY <1>1 DEF GameRoomType, Kept
<1>4. Members(rm) \cup {u} \subseteq {players[i] : i \in DOMAIN players}
  <2>1. CASE u \in Members(rm)
    BY <1>3, <2>1 DEF Members
  <2>2. CASE u \notin Members(rm)
    <3>1. players = Append(rm.players, u)
      BY <1>3, <2>2
    <3>2. /\ Len(players) = Len(rm.players) + 1 /\ players[Len(rm.players) + 1] = u
          /\ DOMAIN players = 1..(Len(rm.players) + 1)
          /\ \A i \in DOMAIN rm.players : i \in DOMAIN players /\ players[i] = rm.players[i]
      BY <1>3, <3>1
    <3>3. u \in {players[i] : i \in DOMAIN players}
      <4>1. Len(rm.players) + 1 \in 1..(Len(rm.players) + 1)
        BY <1>3
      <4> QED BY <3>2, <4>1
    <3>4. Members(rm) \subseteq {players[i] : i \in DOMAIN players}
      BY <3>2 DEF Members
    <3> QED BY <3>3, <3>4
  <2> QED BY <2>1, <2>2
<1>5. SetPlayer(rm, u, p) = new
  BY DEF SetPlayer, f
<1> QED BY <1>2, <1>4, <1>5 DEF Members

LEMMA RemoveAtElements ==
  ASSUME NEW S, NEW seq \in Seq(S), NEW i \in DOMAIN seq
  PROVE  /\ Len(RemoveAt(seq, i)) = Len(seq) - 1 /\ DOMAIN RemoveAt(seq, i) = 1..(Len(seq) - 1)
         /\ \A k \in 1..(i - 1) : RemoveAt(seq, i)[k] = seq[k]
         /\ \A k \in i..(Len(seq) - 1) : RemoveAt(seq, i)[k] = seq[k + 1]
<1> DEFINE a == SubSeq(seq, 1, i - 1)
           b == SubSeq(seq, i + 1, Len(seq))
<1>1. i \in 1..Len(seq) /\ Len(seq) \in Nat
  OBVIOUS
<1>2. /\ a \in Seq(S) /\ Len(a) = i - 1
      /\ \A k \in 1..(i - 1) : a[k] = seq[k]
  BY <1>1
<1>3. /\ b \in Seq(S) /\ Len(b) = Len(seq) - i
      /\ \A k \in 1..(Len(seq) - i) : b[k] = seq[i + k]
  BY <1>1
<1> HIDE DEF a, b
<1>4. /\ Len(a \o b) = Len(seq) - 1
      /\ \A k \in 1..(i - 1) : (a \o b)[k] = seq[k]
      /\ \A k \in i..(Len(seq) - 1) : (a \o b)[k] = seq[k + 1]
  <2>1. /\ Len(a \o b) = (i - 1) + (Len(seq) - i)
        /\ \A k \in 1..(i - 1) : (a \o b)[k] = a[k]
        /\ \A k \in i..(Len(seq) - 1) : (a \o b)[k] = b[k - (i - 1)]
    <3>1. /\ Len(a \o b) = Len(a) + Len(b)
          /\ \A k \in 1..(Len(a) + Len(b)) :
               (a \o b)[k] = IF k <= Len(a) THEN a[k] ELSE b[k - Len(a)]
      BY <1>2, <1>3, ConcatProperties
    <3> DEFINE Halves(n, m) ==
                 /\ \A k \in 1..(m - 1) : k \in 1..((m - 1) + (n - m)) /\ k <= m - 1
                 /\ \A k \in m..(n - 1) : k \in 1..((m - 1) + (n - m)) /\ ~(k <= m - 1)
    <3>1a. \A n \in Nat : \A m \in 1..n : Halves(n, m)
      OBVIOUS
    <3>1b. Halves(Len(seq), i)
      BY <1>1, <3>1a
    <3>2. /\ \A k \in 1..(i - 1) : k \in 1..(Len(a) + Len(b)) /\ k <= Len(a)
          /\ \A k \in i..(Len(seq) - 1) : k \in 1..(Len(a) + Len(b)) /\ ~(k <= Len(a))
      BY <1>2, <1>3, <3>1b
    <3>3. /\ \A k \in 1..(i - 1) : (a \o b)[k] = a[k]
          /\ \A k \in i..(Len(seq) - 1) : (a \o b)[k] = b[k - Len(a)]
      BY <3>1, <3>2
    <3> QED BY <1>2, <1>3, <3>1, <3>3
  <2>2. \A k \in i..(Len(seq) - 1) : k - (i - 1) \in 1..(Len(seq) - i) /\ i + (k - (i - 1)) = k + 1
    BY <1>1
  <2>3. \A k \in i..(Len(seq) - 1) : (a \o b)[k] = seq[k + 1]
    BY <1>3, <2>1, <2>2
  <2>4. \A k \in 1..(i - 1) : (a \o b)[k] = seq[k]
    BY <1>2, <2>1
  <2>5. Len(a \o b) = Len(seq) - 1
    BY <1>1, <2>1
  <2> QED BY <2>3, <2>4, <2>5
<1>5. DOMAIN (a \o b) = 1..(Len(seq) - 1)
  BY <1>1, <1>2, <1>3, <1>4
<1> QED BY <1>4, <1>5 DEF RemoveAt, a, b

LEMMA RemoveAtRest ==
  ASSUME NEW S, NEW seq \in Seq(S), NEW i \in DOMAIN seq, NEW j \in DOMAIN seq, i # j
  PROVE  \E k \in DOMAIN RemoveAt(seq, i) : RemoveAt(seq, i)[k] = seq[j]
<1> DEFINE rest == RemoveAt(seq, i)
<1>1. i \in 1..Len(seq) /\ j \in 1..Len(seq) /\ Len(seq) \in Nat
  OBVIOUS
<1>2. /\ DOMAIN rest = 1..(Len(seq) - 1)
      /\ \A k \in 1..(i - 1) : rest[k] = seq[k]
      /\ \A k \in i..(Len(seq) - 1) : rest[k] = seq[k + 1]
  BY RemoveAtElements
<1> HIDE DEF rest
<1>3. CASE j < i
  <2>1. j \in 1..(i - 1) /\ j \in 1..(Len(seq) - 1)
    BY <1>1, <1>3
  <2> QED BY <1>2, <2>1 DEF rest
<1>4. CASE j > i
  <2>1. j - 1 \in i..(Len(seq) - 1) /\ (j - 1) + 1 = j /\ j - 1 \in 1..(Len(seq) - 1)
    BY <1>1, <1>4
  <2>2. rest[j - 1] = seq[j]
    BY <1>2, <2>1
  <2> QED BY <1>2, <2>1, <2>2 DEF rest
<1> QED BY <1>1, <1>3, <1>4

LEMMA RemoveAtInjective ==
  ASSUME NEW S, NEW seq \in Seq(S), NEW i \in DOMAIN seq, IsInjective(seq)
  PROVE  IsInjective(RemoveAt(seq, i)) /\ \A k \in DOMAIN RemoveAt(seq, i) : RemoveAt(seq, i)[k] # seq[i]
<1> DEFINE rest == RemoveAt(seq, i)
           At(k) == IF k < i THEN k ELSE k + 1
<1>1. i \in 1..Len(seq) /\ Len(seq) \in Nat
  OBVIOUS
<1>2. /\ DOMAIN rest = 1..(Len(seq) - 1)
      /\ \A k \in 1..(i - 1) : rest[k] = seq[k]
      /\ \A k \in i..(Len(seq) - 1) : rest[k] = seq[k + 1]
  BY RemoveAtElements
<1> HIDE DEF rest
<1>3. \A k \in DOMAIN rest : At(k) \in 1..Len(seq) /\ At(k) # i /\ rest[k] = seq[At(k)]
  <2> TAKE k \in DOMAIN rest
  <2>1. CASE k < i
    BY <1>1, <1>2, <2>1
  <2>2. CASE k >= i
    BY <1>1, <1>2, <2>2
  <2> QED BY <1>1, <1>2, <2>1, <2>2
<1>4. \A k, l \in DOMAIN rest : At(k) = At(l) => k = l
  BY <1>1, <1>2
<1>5. \A x, y \in 1..Len(seq) : seq[x] = seq[y] => x = y
  BY DEF IsInjective
<1> HIDE DEF At
<1> QED BY <1>1, <1>3, <1>4, <1>5 DEF IsInjective, rest

LEMMA RemovePlayerMembers ==
  ASSUME NEW rm \in GameRoomType, NEW u \in Members(rm)
  PROVE  LET new == RemovePlayer(rm, u)
         IN  new.store = rm.store /\ Members(rm) \ {u} \subseteq Members(new)
<1> DEFINE i == CHOOSE i \in DOMAIN rm.players : rm.players[i] = u
           c == Cancel(rm, {u})
           new == [c EXCEPT !.players = RemoveAt(@, i), !.info[u] = NoPlayer]
<1>1. i \in DOMAIN rm.players /\ rm.players[i] = u /\ rm.players \in Seq(Users)
  BY DEF Members, GameRoomType
<1>2. c \in GameRoomType /\ Kept(rm, c)
  BY CancelType, TimersKept
<1> HIDE DEF i, c
<1>3. new.store = rm.store /\ new.players = RemoveAt(rm.players, i)
  BY <1>2 DEF Kept, GameRoomType
<1>4. \A v \in Members(rm) \ {u} : v \in Members(new)
  <2> TAKE v \in Members(rm) \ {u}
  <2>1. PICK j \in DOMAIN rm.players : rm.players[j] = v
    BY DEF Members
  <2>2. j # i
    BY <1>1, <2>1
  <2>3. PICK k \in DOMAIN RemoveAt(rm.players, i) : RemoveAt(rm.players, i)[k] = v
    BY <1>1, <2>1, <2>2, RemoveAtRest
  <2> QED BY <1>3, <2>3 DEF Members
<1>5. RemovePlayer(rm, u) = new
  BY DEF RemovePlayer, i, c
<1> QED BY <1>3, <1>4, <1>5

-----------------------------------------------------------------------------
(* The gateway. *)
LEMMA OwnerType == \A s \in Sockets : Owner(s) \in Users
BY DEF Owner, Sockets

(* The rooms and the two maps over them, the part of TypeOK the helpers touch. *)
StoreOK ==
  /\ userRoom \in [Users -> Rooms \cup {NoRoom}]
  /\ sockRoom \in [Sockets -> Rooms \cup {NoRoom}]
  /\ room \in [Rooms -> GameRoomType]

LEMMA RoomOfType ==
  ASSUME StoreOK
  PROVE  /\ \A u \in Users : RoomOfUser(u) # NoRoom => RoomOfUser(u) \in Rooms
         /\ \A s \in Sockets : RoomOfSocket(s) # NoRoom => RoomOfSocket(s) \in Rooms
BY DEF StoreOK, RoomOfUser, RoomOfSocket, Open

LEMMA PutType ==
  ASSUME StoreOK, NEW r \in Rooms, NEW rm \in GameRoomType, Put(r, rm)
  PROVE  room' \in [Rooms -> GameRoomType]
BY CollectedType DEF StoreOK, Put

LEMMA KeepType ==
  ASSUME StoreOK, NEW r \in Rooms, NEW rm \in GameRoomType, NEW us, NEW ss, Keep(r, rm, us, ss)
  PROVE  StoreOK'
BY PutType DEF StoreOK, Keep, Unregister

LEMMA CleanupRoomType ==
  ASSUME StoreOK, NEW r \in Rooms, NEW rm \in GameRoomType, NEW us, NEW ss,
         CleanupRoom(r, rm, us, ss)
  PROVE  StoreOK'
BY KeepType, DeletedType DEF CleanupRoom

LEMMA HandleForfeitType ==
  ASSUME StoreOK, NEW r \in Rooms, NEW rm \in GameRoomType, NEW u, NEW us, NEW ss,
         HandleForfeit(r, rm, u, us, ss)
  PROVE  StoreOK'
BY KeepType, CleanupRoomType, GameOverType, RefreshTTLType DEF HandleForfeit

LEMMA UpdateType ==
  ASSUME TypeOK, NEW r \in Rooms, NEW rm \in GameRoomType, Update(r, rm)
  PROVE  TypeOK'
BY PutType DEF TypeOK, StoreOK, Update

LEMMA RegisterType ==
  ASSUME StoreOK, NEW u \in Users, NEW s \in Sockets, NEW r \in Rooms, Register(u, s, r),
         room' \in [Rooms -> GameRoomType]
  PROVE  StoreOK'
BY DEF StoreOK, Register

(* TypeOK is StoreOK and the variables of the connections. *)
LEMMA TypeOKSplit ==
  /\ TypeOK => StoreOK
  /\ TypeOK /\ StoreOK' /\ UNCHANGED <<sock, hello, lookup>> => TypeOK'
BY DEF TypeOK, StoreOK

-----------------------------------------------------------------------------
(* Connections. *)
LEMMA ConnectType ==
  ASSUME TypeOK, NEW s \in Sockets, Connect(s)
  PROVE  TypeOK'
BY DEF TypeOK, Connect

LEMMA TryReconnectType ==
  ASSUME TypeOK, NEW s \in Sockets, TryReconnect(s)
  PROVE  TypeOK'
<1> DEFINE u == Owner(s)
           r == RoomOfUser(u)
           rm == room[r]
<1>1. u \in Users /\ (r # NoRoom => r \in Rooms) /\ StoreOK
  BY OwnerType, RoomOfType, TypeOKSplit
<1>2. hello' \subseteq Sockets /\ sock' = sock /\ lookup' = lookup
  BY DEF TryReconnect, TypeOK
<1>3. CASE ~InRoom(u, r)
  BY <1>1, <1>2, <1>3 DEF TryReconnect, TypeOK
<1>4. CASE InRoom(u, r)
  <2>1. r \in Rooms /\ rm \in GameRoomType /\ u \in Members(rm)
    BY <1>1, <1>4 DEF InRoom, StoreOK
  <2>2. RemovePlayer(rm, u) \in GameRoomType /\ Rejoined(rm, u, s) \in GameRoomType
    BY <1>1, <2>1, RemovePlayerType, RejoinedType
  <2> HIDE DEF rm
  <2>3. CASE rm.phase \notin Reconnects
    <3>1. \/ CleanupRoom(r, RemovePlayer(rm, u), {u}, {rm.info[u].sock})
          \/ Keep(r, RemovePlayer(rm, u), {u}, {rm.info[u].sock})
      BY <1>4, <2>3 DEF TryReconnect, rm
    <3>2. StoreOK'
      BY <1>1, <2>1, <2>2, <3>1, CleanupRoomType, KeepType
    <3> QED BY <1>2, <3>2 DEF TypeOK, StoreOK
  <2>4. CASE rm.phase \in Reconnects
    <3>1. Put(r, Rejoined(rm, u, s)) /\ Reregister(rm.info[u].sock, s, r)
      BY <1>4, <2>4 DEF TryReconnect, rm
    <3>2. room' \in [Rooms -> GameRoomType]
      BY <1>1, <2>1, <2>2, <3>1, PutType
    <3>3. StoreOK'
      BY <1>1, <2>1, <3>1, <3>2 DEF StoreOK, Reregister
    <3> QED BY <1>2, <3>3 DEF TypeOK, StoreOK
  <2> QED BY <2>3, <2>4
<1> QED BY <1>3, <1>4

LEMMA DisconnectType ==
  ASSUME TypeOK, NEW s \in Sockets, Disconnect(s)
  PROVE  TypeOK'
<1> DEFINE u == Owner(s)
           r == RoomOfSocket(s)
           rm == Away(room[r], u)
<1>1. u \in Users /\ (r # NoRoom => r \in Rooms) /\ StoreOK
  BY OwnerType, RoomOfType, TypeOKSplit
<1>2. sock' \in [Sockets -> {"off", "on", "gone"}] /\ hello' = hello /\ lookup' = lookup
  BY DEF Disconnect, TypeOK
<1>3. CASE ~InRoom(u, r)
  <2>1. Unregister({}, {s}) /\ UNCHANGED room
    BY <1>3 DEF Disconnect
  <2> QED BY <1>1, <1>2, <2>1 DEF TypeOK, StoreOK, Unregister
<1>4. CASE InRoom(u, r)
  <2>1. r \in Rooms /\ room[r] \in GameRoomType
    BY <1>1, <1>4 DEF InRoom, StoreOK
  <2>2. rm \in GameRoomType
    BY <1>1, <2>1, AwayType
  <2>3. Arm(rm, u, Grace(u)) \in GameRoomType /\ RefreshTTL(rm) \in GameRoomType
    BY <1>1, <2>2, ArmType, RefreshTTLType, TimersType, HandlesType
  <2> HIDE DEF rm
  <2>4. \/ CleanupRoom(r, rm, {}, {s})
        \/ Keep(r, RefreshTTL(rm), {}, {s})
        \/ Keep(r, Arm(rm, u, Grace(u)), {}, {s})
    BY <1>4 DEF Disconnect, rm
  <2>5. StoreOK'
    BY <1>1, <2>1, <2>2, <2>3, <2>4, CleanupRoomType, KeepType
  <2> QED BY <1>2, <2>5 DEF TypeOK, StoreOK
<1> QED BY <1>3, <1>4

-----------------------------------------------------------------------------
(* Entering a room. *)
LEMMA StartLookupType ==
  ASSUME TypeOK, NEW s \in Sockets, NEW target \in Rooms \cup {NoRoom}, StartLookup(s, target)
  PROVE  lookup' \subseteq Lookups
BY DEF TypeOK, StartLookup, Lookups

LEMMA RoomCreateType ==
  ASSUME TypeOK, NEW s \in Sockets, RoomCreate(s)
  PROVE  TypeOK'
<1>1. lookup' \subseteq Lookups
  BY StartLookupType DEF RoomCreate
<1> QED BY <1>1 DEF RoomCreate, TypeOK

LEMMA RoomJoinType ==
  ASSUME TypeOK, NEW s \in Sockets, NEW r \in Rooms, RoomJoin(s, r)
  PROVE  TypeOK'
<1>1. room[r] \in GameRoomType /\ StoreOK
  BY DEF TypeOK, StoreOK
<1>2. JoinBegun(room[r]) \in GameRoomType
  BY <1>1, CancelType, ResetGameDataType DEF JoinBegun
<1>3. room' \in [Rooms -> GameRoomType]
  BY <1>1, <1>2, PutType DEF RoomJoin
<1>4. lookup' \subseteq Lookups
  BY StartLookupType DEF RoomJoin
<1> QED BY <1>3, <1>4 DEF RoomJoin, TypeOK

LEMMA RoomCreatedType ==
  ASSUME TypeOK, NEW c \in lookup, NEW r \in Rooms, RoomCreated(c, r)
  PROVE  TypeOK'
<1> DEFINE u == Owner(c.sock)
           rm == SetPlayer(EmptyRoom("open"), u, Player(c.sock, TRUE))
<1>1. c.sock \in Sockets /\ u \in Users /\ StoreOK
  BY OwnerType, TypeOKSplit DEF TypeOK, Lookups
<1>2. rm \in GameRoomType
  BY <1>1, EmptyType, PlayerType, SetPlayerType
<1> HIDE DEF rm
<1>3. Put(r, rm) /\ Register(u, c.sock, r)
  BY DEF RoomCreated, rm
<1>4. StoreOK'
  BY <1>1, <1>2, <1>3, PutType, RegisterType
<1>5. lookup' \subseteq Lookups /\ sock' = sock /\ hello' = hello
  BY DEF RoomCreated, TypeOK
<1> QED BY <1>4, <1>5 DEF TypeOK, StoreOK

LEMMA RoomJoinedType ==
  ASSUME TypeOK, NEW c \in lookup, RoomJoined(c)
  PROVE  TypeOK'
<1> DEFINE u == Owner(c.sock)
           r == c.target
           rm == Joined(room[r], u, c.sock)
<1>1. c.sock \in Sockets /\ u \in Users /\ StoreOK
  BY OwnerType, TypeOKSplit DEF TypeOK, Lookups
<1>2. r \in Rooms /\ room[r] \in GameRoomType
  BY DEF RoomJoined, TypeOK, Lookups
<1>3. rm \in GameRoomType
  BY <1>1, <1>2, JoinedType
<1> HIDE DEF rm
<1>4. Put(r, rm) /\ Register(u, c.sock, r)
  BY DEF RoomJoined, rm
<1>5. StoreOK'
  BY <1>1, <1>2, <1>3, <1>4, PutType, RegisterType
<1>6. lookup' \subseteq Lookups /\ sock' = sock /\ hello' = hello
  BY DEF RoomJoined, TypeOK
<1> QED BY <1>5, <1>6 DEF TypeOK, StoreOK

LEMMA ProfileMissingType ==
  ASSUME TypeOK, NEW c \in lookup, ProfileMissing(c)
  PROVE  TypeOK'
BY DEF TypeOK, ProfileMissing

-----------------------------------------------------------------------------
(* Events of a player in a room. *)
LEMMA SenderType ==
  ASSUME TypeOK, NEW s \in Sockets, FromPlayer(s)
  PROVE  LET u == Owner(s)
             r == RoomOfUser(u)
         IN  /\ u \in Users /\ r \in Rooms /\ u \in Members(room[r])
             /\ room[r] \in GameRoomType
BY OwnerType, RoomOfType, TypeOKSplit DEF FromPlayer, InRoom, StoreOK

(* An update of one player's record. *)
LEMMA PlayerUpdateType ==
  ASSUME NEW rm \in GameRoomType, NEW u
  PROVE  /\ [rm EXCEPT !.info[u].ready = TRUE] \in GameRoomType
         /\ [rm EXCEPT !.info[u].host = TRUE] \in GameRoomType
         /\ \A db \in Decibels : [rm EXCEPT !.info[u].sub = db] \in GameRoomType
         /\ \A ph \in Phases :
              [rm EXCEPT !.info[u].rematch = TRUE, !.phase = ph] \in GameRoomType
<1>1. \A q \in Users : rm.info[q] \in PlayerInfo
  BY InfoType
<1>2. \A q \in Users : /\ [rm.info[q] EXCEPT !.ready = TRUE] \in PlayerInfo
                       /\ [rm.info[q] EXCEPT !.host = TRUE] \in PlayerInfo
                       /\ [rm.info[q] EXCEPT !.rematch = TRUE] \in PlayerInfo
                       /\ \A db \in Decibels : [rm.info[q] EXCEPT !.sub = db] \in PlayerInfo
  BY <1>1, PlayerUpdates
<1>3. /\ [rm.info EXCEPT ![u] = [rm.info[u] EXCEPT !.ready = TRUE]] \in [Users -> PlayerInfo]
      /\ [rm.info EXCEPT ![u] = [rm.info[u] EXCEPT !.host = TRUE]] \in [Users -> PlayerInfo]
      /\ [rm.info EXCEPT ![u] = [rm.info[u] EXCEPT !.rematch = TRUE]] \in [Users -> PlayerInfo]
  BY <1>2 DEF GameRoomType
<1>4. \A db \in Decibels :
        [rm.info EXCEPT ![u] = [rm.info[u] EXCEPT !.sub = db]] \in [Users -> PlayerInfo]
  BY <1>2 DEF GameRoomType
<1> QED BY <1>3, <1>4 DEF GameRoomType

LEMMA GameReadyType ==
  ASSUME TypeOK, NEW s \in Sockets, GameReady(s)
  PROVE  TypeOK'
<1> DEFINE u == Owner(s)
           r == RoomOfUser(u)
           rm == [room[r] EXCEPT !.info[u].ready = TRUE]
<1>1. r \in Rooms /\ room[r] \in GameRoomType
  BY SenderType DEF GameReady
<1>2. rm \in GameRoomType
  BY <1>1, PlayerUpdateType
<1> HIDE DEF rm
<1>3. [rm EXCEPT !.phase = "countdown"] \in GameRoomType
  BY <1>2 DEF GameRoomType, Phases
<1>4. Update(r, StartCountdown([rm EXCEPT !.phase = "countdown"])) \/ Update(r, rm)
  BY DEF GameReady, rm
<1> QED BY <1>1, <1>2, <1>3, <1>4, StartCountdownType, UpdateType

LEMMA RoundMicReadyType ==
  ASSUME TypeOK, NEW s \in Sockets, RoundMicReady(s)
  PROVE  TypeOK'
<1> DEFINE u == Owner(s)
           r == RoomOfUser(u)
           rm == [room[r] EXCEPT !.micReady = @ \cup {u}]
<1>1. u \in Users /\ r \in Rooms /\ room[r] \in GameRoomType
  BY SenderType DEF RoundMicReady
<1>2. rm \in GameRoomType
  BY <1>1 DEF GameRoomType
<1> HIDE DEF rm
<1>3. DoStartRound(Cancel(rm, {"prepare"})) \in GameRoomType
  BY <1>2, CancelType, DoStartRoundType
<1>4. Update(r, DoStartRound(Cancel(rm, {"prepare"}))) \/ Update(r, rm)
  BY DEF RoundMicReady, rm
<1> QED BY <1>1, <1>2, <1>3, <1>4, UpdateType

LEMMA RoundMicErrorType ==
  ASSUME TypeOK, NEW s \in Sockets, RoundMicError(s)
  PROVE  TypeOK'
<1> DEFINE u == Owner(s)
           r == RoomOfUser(u)
           rm == Cancel(room[r], {"prepare"})
<1>1. r \in Rooms /\ room[r] \in GameRoomType /\ StoreOK
  BY SenderType, TypeOKSplit DEF RoundMicError
<1>2. rm \in GameRoomType /\ ResetGameData(rm) \in GameRoomType
  BY <1>1, CancelType, ResetGameDataType
<1>3. MicFailure(r, rm, u) /\ UNCHANGED <<sock, hello, lookup>>
  BY DEF RoundMicError
<1> HIDE DEF rm
<1>4. StoreOK'
  BY <1>1, <1>2, <1>3, HandleForfeitType, KeepType DEF MicFailure
<1> QED BY <1>3, <1>4, TypeOKSplit

LEMMA CloseRoundType ==
  ASSUME NEW rm \in GameRoomType
  PROVE  CloseRound(rm) \in GameRoomType
<1>1. [rm EXCEPT !.phase = "round_end"] \in GameRoomType
  BY DEF GameRoomType, Phases
<1> QED BY <1>1, ResolveRoundType DEF CloseRound

LEMMA RoundSubmitType ==
  ASSUME TypeOK, NEW s \in Sockets, NEW db \in Decibels, RoundSubmit(s, db)
  PROVE  TypeOK'
<1> DEFINE u == Owner(s)
           r == RoomOfUser(u)
           rm == [room[r] EXCEPT !.info[u].sub = db]
<1>1. r \in Rooms /\ room[r] \in GameRoomType
  BY SenderType DEF RoundSubmit
<1>2. rm \in GameRoomType
  BY <1>1, PlayerUpdateType
<1> HIDE DEF rm
<1>3. Update(r, CloseRound(Cancel(rm, {"round"}))) \/ Update(r, rm)
  BY DEF RoundSubmit, rm
<1> QED BY <1>1, <1>2, <1>3, CancelType, CloseRoundType, UpdateType

LEMMA GameRematchType ==
  ASSUME TypeOK, NEW s \in Sockets, GameRematch(s)
  PROVE  TypeOK'
<1> DEFINE u == Owner(s)
           r == RoomOfUser(u)
           rm == [room[r] EXCEPT !.info[u].rematch = TRUE, !.phase = "rematch_waiting"]
<1>1. r \in Rooms /\ room[r] \in GameRoomType
  BY SenderType DEF GameRematch
<1>2. rm \in GameRoomType
  BY <1>1, PlayerUpdateType DEF Phases
<1> HIDE DEF rm
<1>3. Update(r, StartRematch(rm)) \/ Update(r, rm)
  BY DEF GameRematch, rm
<1> QED BY <1>1, <1>2, <1>3, StartRematchType, UpdateType

LEMMA LeftBehindType ==
  ASSUME StoreOK, NEW r \in Rooms, NEW rm \in GameRoomType, NEW opp, NEW wasHost, NEW u, NEW q,
         LeftBehind(r, rm, opp, wasHost, u, q)
  PROVE  StoreOK'
BY KeepType, CleanupRoomType, PlayerUpdateType DEF LeftBehind

LEMMA RoomLeaveType ==
  ASSUME TypeOK, NEW s \in Sockets, RoomLeave(s)
  PROVE  TypeOK'
<1> DEFINE u == Owner(s)
           r == RoomOfUser(u)
           p == room[r].info[u]
           opp == OpponentOf(room[r], u)
           active == room[r].phase \in InGame
           before == IF active THEN Cancel(room[r], {"prepare"}) ELSE room[r]
           rm == RemovePlayer(before, u)
<1>1. u \in Users /\ r \in Rooms /\ u \in Members(room[r]) /\ room[r] \in GameRoomType /\ StoreOK
  BY SenderType, TypeOKSplit DEF RoomLeave
<1>2. before \in GameRoomType /\ u \in Members(before)
  BY <1>1, CancelType DEF Cancel, Members, GameRoomType
<1>3. rm \in GameRoomType
  BY <1>2, RemovePlayerType
<1>4. SetupCancelled(rm) \in GameRoomType /\ SlotReleased(rm) \in GameRoomType
  BY <1>3, LeaveResetsType
<1>5. /\ UNCHANGED <<sock, hello, lookup>>
      /\ \/ HandleForfeit(r, rm, u, {u}, {p.sock})
         \/ CleanupRoom(r, rm, {u}, {p.sock})
         \/ LeftBehind(r, SetupCancelled(rm), opp, p.host, u, p.sock)
         \/ LeftBehind(r, SlotReleased(rm), opp, p.host, u, p.sock)
  BY DEF RoomLeave
<1> HIDE DEF rm
<1>6. StoreOK'
  BY <1>1, <1>3, <1>4, <1>5, HandleForfeitType, CleanupRoomType, LeftBehindType
<1> QED BY <1>5, <1>6, TypeOKSplit

-----------------------------------------------------------------------------
(* Timer callbacks. *)
LEMMA TimedOutType ==
  ASSUME TypeOK, NEW r \in Rooms, NEW h \in Handles, NEW t \in Timers,
         NEW rm \in Expired(room[r], h, t)
  PROVE  rm \in GameRoomType
<1>1. room[r] \in GameRoomType
  BY DEF TypeOK
<1> QED BY <1>1, ExpiredType

LEMMA CountdownTickType ==
  ASSUME TypeOK, NEW r \in Rooms, CountdownTick(r)
  PROVE  TypeOK'
<1>1. PICK n \in 1..CountdownTicks :
        \E rm \in Expired(room[r], "countdown", Tick(n)) : Update(r, Arm(rm, "countdown", Tick(n - 1)))
  BY DEF CountdownTick
<1>2. PICK rm \in Expired(room[r], "countdown", Tick(n)) :
        Update(r, Arm(rm, "countdown", Tick(n - 1)))
  BY <1>1
<1>3. n \in 0..CountdownTicks /\ n - 1 \in 0..CountdownTicks
  BY TicksAssumption
<1>4. Tick(n) \in Timers /\ Tick(n - 1) \in Timers
  BY <1>3, TimersType
<1>5. rm \in GameRoomType
  BY <1>4, TimedOutType, HandlesType
<1> QED BY <1>2, <1>4, <1>5, ArmType, HandlesType, UpdateType

LEMMA CountdownEndType ==
  ASSUME TypeOK, NEW r \in Rooms, CountdownEnd(r)
  PROVE  TypeOK'
<1>1. PICK rm \in Expired(room[r], "countdown", Tick(0)) :
        Update(r, PrepareRound(Forget(rm, "countdown")))
  BY DEF CountdownEnd
<1>2. Tick(0) \in Timers
  BY TimersType, TicksAssumption
<1>3. rm \in GameRoomType
  BY <1>2, TimedOutType, HandlesType
<1> QED BY <1>1, <1>3, ForgetType, PrepareRoundType, HandlesType, UpdateType

LEMMA PrepareTimeoutType ==
  ASSUME TypeOK, NEW r \in Rooms, PrepareTimeout(r)
  PROVE  TypeOK'
<1>1. PICK rm \in Expired(room[r], "prepare", Timer("prepare")) :
        /\ UNCHANGED <<sock, hello, lookup>>
        /\ \/ Keep(r, rm, {}, {})
           \/ Keep(r, Forget(rm, "prepare"), {}, {})
           \/ Keep(r, ResetGameData(rm), {}, {})
           \/ \E u \in Users : HandleForfeit(r, rm, u, {}, {})
           \/ CleanupRoom(r, rm, {}, {})
  BY DEF PrepareTimeout
<1>2. rm \in GameRoomType
  BY TimedOutType, TimersType, HandlesType
<1>3. Forget(rm, "prepare") \in GameRoomType /\ ResetGameData(rm) \in GameRoomType
  BY <1>2, ForgetType, ResetGameDataType, HandlesType
<1>4. StoreOK /\ StoreOK'
  BY <1>1, <1>2, <1>3, TypeOKSplit, KeepType, HandleForfeitType, CleanupRoomType
<1> QED BY <1>1, <1>4, TypeOKSplit

LEMMA ProcessCrashType ==
  ASSUME TypeOK, ProcessCrash
  PROVE  TypeOK'
<1>1. room' \in [Rooms -> GameRoomType]
  BY EmptyType DEF ProcessCrash
<1> QED BY <1>1 DEF ProcessCrash, TypeOK, Unregister

LEMMA RoundTimeoutType ==
  ASSUME TypeOK, NEW r \in Rooms, RoundTimeout(r)
  PROVE  TypeOK'
<1>1. PICK rm \in Expired(room[r], "round", Timer("round")) :
        Update(r, rm) \/ Update(r, ResolveRound(rm)) \/ ProcessCrash
  BY DEF RoundTimeout
<1>2. rm \in GameRoomType
  BY TimedOutType, TimersType, HandlesType
<1> QED BY <1>1, <1>2, ResolveRoundType, UpdateType, ProcessCrashType

LEMMA FinishTimeoutType ==
  ASSUME TypeOK, NEW r \in Rooms, FinishTimeout(r)
  PROVE  TypeOK'
<1>1. PICK rm \in Expired(room[r], "post", Timer("finish")) :
        Update(r, FinishGame(Forget(rm, "post")))
  BY DEF FinishTimeout
<1>2. rm \in GameRoomType
  BY TimedOutType, TimersType, HandlesType
<1> QED BY <1>1, <1>2, ForgetType, FinishGameType, HandlesType, UpdateType

LEMMA NextRoundTimeoutType ==
  ASSUME TypeOK, NEW r \in Rooms, NextRoundTimeout(r)
  PROVE  TypeOK'
<1>1. PICK rm \in Expired(room[r], "post", Timer("next")) :
        Update(r, StartCountdown(Forget(rm, "post")))
  BY DEF NextRoundTimeout
<1>2. rm \in GameRoomType
  BY TimedOutType, TimersType, HandlesType
<1> QED BY <1>1, <1>2, ForgetType, StartCountdownType, HandlesType, UpdateType

LEMMA ForfeitTimeoutType ==
  ASSUME TypeOK, NEW r \in Rooms, NEW u \in Users, ForfeitTimeout(r, u)
  PROVE  TypeOK'
<1>1. PICK rm \in Expired(room[r], u, Grace(u)) :
        HandleForfeit(r, rm, u, {}, {}) /\ UNCHANGED <<sock, hello, lookup>>
  BY DEF ForfeitTimeout
<1>2. rm \in GameRoomType
  BY TimedOutType, TimersType, HandlesType
<1> QED BY <1>1, <1>2, TypeOKSplit, HandleForfeitType

LEMMA TTLTimeoutType ==
  ASSUME TypeOK, NEW r \in Rooms, TTLTimeout(r)
  PROVE  TypeOK'
<1>1. PICK rm \in Expired(room[r], "ttl", Timer("ttl")) :
        CleanupRoom(r, rm, {}, {}) /\ UNCHANGED <<sock, hello, lookup>>
  BY DEF TTLTimeout
<1>2. rm \in GameRoomType
  BY TimedOutType, TimersType, HandlesType
<1> QED BY <1>1, <1>2, TypeOKSplit, CleanupRoomType

-----------------------------------------------------------------------------
(* Every handler and every timer callback leaves the store and its rooms well   *)
(* formed, whatever the number of users, sockets, room codes and rounds, and    *)
(* in every order of events.                                                    *)
THEOREM TypeCorrect == Spec => []TypeOK
<1>1. Init => TypeOK
  BY EmptyType DEF Init, TypeOK
<1>2. TypeOK /\ [Next]_vars => TypeOK'
  <2> SUFFICES ASSUME TypeOK, [Next]_vars PROVE TypeOK'
    OBVIOUS
  <2>1. CASE UNCHANGED vars
    BY <2>1 DEF vars, TypeOK
  <2>2. ASSUME NEW s \in Sockets,
               Connect(s) \/ TryReconnect(s) \/ Disconnect(s) \/ RoomCreate(s)
                 \/ \E r \in Rooms : RoomJoin(s, r)
        PROVE  TypeOK'
    BY <2>2, ConnectType, TryReconnectType, DisconnectType, RoomCreateType, RoomJoinType
  <2>3. ASSUME NEW s \in Sockets, ClientEvent(s)
        PROVE  TypeOK'
    BY <2>3, GameReadyType, RoundMicReadyType, RoundMicErrorType, RoundSubmitType,
       GameRematchType, RoomLeaveType DEF ClientEvent
  <2>4. ASSUME NEW c \in lookup,
               RoomJoined(c) \/ ProfileMissing(c) \/ \E r \in Rooms : RoomCreated(c, r)
        PROVE  TypeOK'
    BY <2>4, RoomJoinedType, ProfileMissingType, RoomCreatedType
  <2>5. ASSUME NEW r \in Rooms, TimerCallback(r)
        PROVE  TypeOK'
    BY <2>5, CountdownTickType, CountdownEndType, PrepareTimeoutType, RoundTimeoutType,
       FinishTimeoutType, NextRoundTimeoutType, TTLTimeoutType, ForfeitTimeoutType
       DEF TimerCallback
  <2> QED BY <2>1, <2>2, <2>3, <2>4, <2>5 DEF Next
<1> QED BY <1>1, <1>2, PTL DEF Spec
=============================================================================
