------------------------------- MODULE DuelProofs -------------------------------
(***************************************************************************)
(* Between two players the gateway implements DuelMatch: with any number   *)
(* of rooms, sockets and rounds, while a user has one lookup in flight and *)
(* no timer is lost, every handler and callback is a step of the abstract  *)
(* match or changes nothing it shows.                                      *)
(*                                                                         *)
(* A room needs its timers in order (Orderly): the countdown's only in     *)
(* "ready" and "countdown", those of resolveRound only in the phase that   *)
(* it has left behind, and a match that goes on has a round to play.  A    *)
(* room whose second player is still on the way (Expecting) has no result  *)
(* yet, so that the late join calls off a match without one.               *)
(***************************************************************************)
EXTENDS RegistrationProofs

Lobby == {"waiting", "ready"}
Over  == {"game_over", "rematch_waiting"}

PostInOrder(rm) ==
  \/ rm.handle["post"] = NoTimer
  \/ rm.handle["post"] = Timer("next") /\ rm.phase = "countdown" /\ rm.handle["countdown"] = NoTimer
  \/ rm.handle["post"] = Timer("finish") /\ rm.phase = "round_end"
Orderly(rm) ==
  /\ rm.phase \in Lobby => rm.records = <<>>
  /\ rm.phase \in InGame => rm.records = <<>> \/ rm.official
  /\ rm.phase \in InGame \ {"round_end"} => Len(rm.records) < TotalRounds
  /\ rm.handle["countdown"] # NoTimer => rm.phase \in {"ready", "countdown"}
  /\ PostInOrder(rm)
Expecting(rm) ==
  rm.phase \notin Over /\ rm.records = <<>> /\ rm.handle["post"] = NoTimer /\ Len(rm.players) = 1

-----------------------------------------------------------------------------
(* What a change of an open room may do to its match. *)
SameResult(old, new) == new.records = old.records /\ new.scores = old.scores
RoundAdded(old, new) ==
  /\ Len(old.records) < TotalRounds /\ Len(new.records) = Len(old.records) + 1
  /\ \E w \in Users \cup {NoUser} :
       new.scores = [u \in Users |-> IF u = w THEN old.scores[u] + 1 ELSE old.scores[u]]
Move(old, new) ==
  \/ SameResult(old, new) /\ \/ old.phase \in Lobby /\ new.phase \in Lobby \cup InGame \cup Over
                             \/ old.phase \in InGame /\ new.phase \in InGame \cup Over
                             \/ old.phase \in Over /\ new.phase \in Over
  \/ /\ new.phase \in Lobby /\ new.records = <<>>
     /\ old.phase \in InGame => old.records = <<>>
  \/ old.phase \in InGame /\ new.phase \in InGame /\ RoundAdded(old, new)

Progress(old, new) ==
  \/ new.store = "gone"
  \/ /\ new.store = old.store /\ Orderly(new) /\ Move(old, new)
     /\ Expecting(old) => Expecting(new)

(* Most helpers leave the match alone, or stop timers of it, and most leave the *)
(* players alone as well.                                                       *)
Quiet(old, new) ==
  /\ new.store = old.store /\ new.phase = old.phase
  /\ new.official = old.official /\ SameResult(old, new)
  /\ \A h \in {"countdown", "post"} : new.handle[h] \in {old.handle[h], NoTimer}
Smooth(old, new) == Quiet(old, new) /\ new.players = old.players

LEMMA PhaseKinds ==
  /\ \A rm \in GameRoomType : rm.phase \in Lobby \cup InGame \cup Over
  /\ Lobby \cap InGame = {} /\ Lobby \cap Over = {} /\ InGame \cap Over = {}
BY DEF GameRoomType, Phases, Lobby, InGame, Over

LEMMA SmoothTransitive ==
  ASSUME NEW a, NEW b, NEW c, Smooth(a, b), Smooth(b, c) PROVE Smooth(a, c)
BY DEF Smooth, Quiet, SameResult

LEMMA SmoothReflexive == ASSUME NEW a PROVE Smooth(a, a)
BY DEF Smooth, Quiet, SameResult

LEMMA QuietOrderly ==
  ASSUME NEW old, NEW new, Quiet(old, new), Orderly(old) PROVE Orderly(new)
BY DEF Quiet, SameResult, Orderly, PostInOrder

LEMMA QuietProgress ==
  ASSUME NEW old \in GameRoomType, NEW new, Quiet(old, new), Orderly(old),
         Expecting(old) => new.players = old.players
  PROVE  Progress(old, new)
<1>1. Move(old, new)
  BY PhaseKinds DEF Quiet, Move
<1>2. Expecting(old) => Expecting(new)
  BY DEF Quiet, Expecting, SameResult
<1> QED
  BY <1>1, <1>2, QuietOrderly DEF Progress, Quiet

LEMMA SmoothOrderly ==
  ASSUME NEW old, NEW new, Smooth(old, new), Orderly(old)
  PROVE  Orderly(new) /\ (Expecting(old) => Expecting(new))
BY QuietOrderly DEF Smooth, Quiet, SameResult, Expecting

LEMMA SmoothProgress ==
  ASSUME NEW old \in GameRoomType, NEW new, Smooth(old, new), Orderly(old) PROVE Progress(old, new)
BY QuietProgress DEF Smooth

LEMMA SmoothFirst ==
  ASSUME NEW old, NEW x, NEW new, Smooth(old, x), Progress(x, new) PROVE Progress(old, new)
BY DEF Smooth, Quiet, Progress, Move, RoundAdded, SameResult, Expecting

-----------------------------------------------------------------------------
(* Timers and players. *)
LEMMA ArmSmooth ==
  ASSUME NEW rm \in GameRoomType, NEW h \in Handles, NEW t \in Timers \cup {NoTimer},
         t = NoTimer \/ h \notin {"countdown", "post"}
  PROVE  Smooth(rm, Arm(rm, h, t))
<1> DEFINE new == Arm(rm, h, t)
<1>1. /\ new.store = rm.store /\ new.players = rm.players /\ new.phase = rm.phase
      /\ new.official = rm.official /\ new.records = rm.records /\ new.scores = rm.scores
      /\ \A k \in Handles : new.handle[k] = IF k = h THEN t ELSE rm.handle[k]
  BY DEF Arm, GameRoomType
<1> HIDE DEF new
<1>2. \A k \in {"countdown", "post"} : new.handle[k] \in {rm.handle[k], NoTimer}
  BY <1>1, HandleTimers
<1> QED
  BY <1>1, <1>2 DEF Smooth, Quiet, SameResult, new

LEMMA CancelSmooth ==
  ASSUME NEW rm \in GameRoomType, NEW hs PROVE Smooth(rm, Cancel(rm, hs))
<1> DEFINE new == Cancel(rm, hs)
<1>1. /\ new.store = rm.store /\ new.players = rm.players /\ new.phase = rm.phase
      /\ new.official = rm.official /\ new.records = rm.records /\ new.scores = rm.scores
      /\ \A k \in Handles : new.handle[k] = IF k \in hs THEN NoTimer ELSE rm.handle[k]
  BY DEF Cancel, GameRoomType
<1> HIDE DEF new
<1>2. \A k \in {"countdown", "post"} : new.handle[k] \in {rm.handle[k], NoTimer}
  BY <1>1, HandleTimers
<1> QED
  BY <1>1, <1>2 DEF Smooth, Quiet, SameResult, new

LEMMA RefreshTTLSmooth ==
  ASSUME NEW rm \in GameRoomType PROVE Smooth(rm, RefreshTTL(rm))
<1>1. Cancel(rm, {"ttl"}) \in GameRoomType /\ Smooth(rm, Cancel(rm, {"ttl"}))
  BY CancelType, CancelSmooth
<1>2. "ttl" \notin {"countdown", "post"}
  OBVIOUS
<1> QED
  BY <1>1, <1>2, ArmSmooth, HandleTimers, SmoothTransitive DEF RefreshTTL

LEMMA ExpiredSmooth ==
  ASSUME NEW rm \in GameRoomType, NothingLost(rm), NEW h \in Handles, NEW t \in Timers,
         NEW new \in Expired(rm, h, t)
  PROVE  /\ Smooth(rm, new) /\ new \in GameRoomType
         /\ rm.handle[h] = t /\ t # NoTimer /\ new.handle[h] = NoTimer /\ Members(new) = Members(rm)
         /\ new.micReady = rm.micReady
<1>1. rm.handle[h] = t /\ new = [rm EXCEPT !.handle[h] = NoTimer]
  BY DEF Expired, NothingLost
<1>2. /\ new.store = rm.store /\ new.players = rm.players /\ new.phase = rm.phase
      /\ new.official = rm.official /\ new.records = rm.records /\ new.scores = rm.scores
      /\ new.micReady = rm.micReady
      /\ \A k \in Handles : new.handle[k] = IF k = h THEN NoTimer ELSE rm.handle[k]
  BY <1>1 DEF GameRoomType
<1>3. \A k \in {"countdown", "post"} : new.handle[k] \in {rm.handle[k], NoTimer}
  BY <1>2, HandleTimers
<1> QED
  BY <1>1, <1>2, <1>3, ExpiredType, NoTimerIsNone DEF Smooth, Quiet, SameResult, Members

LEMMA UpdatesSmooth ==
  ASSUME NEW rm \in GameRoomType, NEW u
  PROVE  /\ Smooth(rm, Away(rm, u))
         /\ \A s : Smooth(rm, Rejoined(rm, u, s))
         /\ Smooth(rm, [rm EXCEPT !.info[u].ready = TRUE])
         /\ \A db : Smooth(rm, [rm EXCEPT !.info[u].sub = db])
         /\ Smooth(rm, [rm EXCEPT !.info[u].host = TRUE])
         /\ Smooth(rm, [rm EXCEPT !.micReady = @ \cup {u}])
<1>2. ASSUME NEW s PROVE Smooth(rm, Rejoined(rm, u, s))
  <2> DEFINE c == Cancel(rm, {u})
  <2>1. c \in GameRoomType /\ Smooth(rm, c)
    BY CancelType, CancelSmooth
  <2> HIDE DEF c
  <2> DEFINE y == [c EXCEPT !.info[u].sock = s, !.info[u].connected = TRUE]
  <2>2. /\ y.store = c.store /\ y.players = c.players /\ y.phase = c.phase
        /\ y.official = c.official /\ y.records = c.records /\ y.scores = c.scores
        /\ y.handle = c.handle
    BY <2>1 DEF GameRoomType
  <2> HIDE DEF y
  <2>3. Smooth(c, y)
    BY <2>2 DEF Smooth, Quiet, SameResult
  <2> QED
    BY <2>1, <2>3, SmoothTransitive DEF Rejoined, c, y
<1>3. Smooth(rm, Away(rm, u))
  BY DEF Away, Smooth, Quiet, SameResult, GameRoomType
<1>4. Smooth(rm, [rm EXCEPT !.info[u].ready = TRUE]) /\ Smooth(rm, [rm EXCEPT !.info[u].host = TRUE])
  BY DEF Smooth, Quiet, SameResult, GameRoomType
<1>5. \A db : Smooth(rm, [rm EXCEPT !.info[u].sub = db])
  BY DEF Smooth, Quiet, SameResult, GameRoomType
<1>6. Smooth(rm, [rm EXCEPT !.micReady = @ \cup {u}])
  BY DEF Smooth, Quiet, SameResult, GameRoomType
<1> QED
  BY <1>2, <1>3, <1>4, <1>5, <1>6

-----------------------------------------------------------------------------
(* The ends of rooms and matches. *)
LEMMA DeletedProgress ==
  ASSUME NEW old, NEW rm \in GameRoomType PROVE Progress(old, Deleted(rm))
BY DeletedGone DEF Progress

LEMMA LoneOpponent ==
  ASSUME NEW rm \in GameRoomType, Len(rm.players) = 1, NEW u \in Members(rm)
  PROVE  OpponentOf(rm, u) = NoUser
<1>1. DOMAIN rm.players = {1}
  BY DEF GameRoomType
<1>2. rm.players[1] = u
  BY <1>1 DEF Members
<1> QED
  BY <1>1, <1>2 DEF OpponentOf

(* A match that is over, with its timers cut. *)
LEMMA OverProgress ==
  ASSUME NEW old \in GameRoomType, NEW new, new.store = old.store, SameResult(old, new),
         new.phase \in Over, new.handle["countdown"] = NoTimer, new.handle["post"] = NoTimer,
         ~Expecting(old)
  PROVE  Progress(old, new)
<1>1. Move(old, new)
  BY PhaseKinds DEF Move
<1>2. Orderly(new)
  BY PhaseKinds DEF Orderly, PostInOrder, InGame, Over, Lobby
<1> QED
  BY <1>1, <1>2 DEF Progress

LEMMA ForfeitedProgress ==
  ASSUME NEW old \in GameRoomType, Orderly(old), NEW rm \in GameRoomType, Quiet(old, rm),
         NEW u, Expecting(old) => OpponentOf(rm, u) = NoUser,
         NEW new, Forfeited(rm, u, new)
  PROVE  Progress(old, new)
<1> DEFINE c == Cancel(rm, MatchHandles)
           over == GameOver(rm)
<1>1. /\ over \in GameRoomType /\ over.phase = "game_over" /\ over.store = rm.store /\ SameResult(rm, over)
      /\ over.handle["countdown"] = NoTimer /\ over.handle["post"] = NoTimer
  <2>1. over \in GameRoomType /\ over.phase = "game_over"
    BY MatchKeepsInfo
  <2>2. c \in GameRoomType /\ Smooth(rm, c)
    BY CancelType, CancelSmooth
  <2>3. c.handle["countdown"] = NoTimer /\ c.handle["post"] = NoTimer
    BY HandleTimers DEF Cancel, MatchHandles, GameRoomType
  <2>4. over = [c EXCEPT !.phase = "game_over"]
    BY DEF GameOver
  <2> HIDE DEF c, over
  <2>5. over.store = c.store /\ over.records = c.records /\ over.scores = c.scores /\ over.handle = c.handle
    BY <2>2, <2>4 DEF GameRoomType
  <2> QED
    BY <2>1, <2>2, <2>3, <2>5 DEF Smooth, Quiet, SameResult
<1> HIDE DEF over
<1>2. CASE new = rm /\ rm.phase = "game_over"
  <2>1. ~Expecting(old)
    BY <1>2 DEF Expecting, Quiet, Over
  <2> QED
    BY <1>2, <2>1, QuietProgress
<1>3. CASE new = Deleted(over)
  BY <1>1, <1>3, DeletedProgress
<1>4. CASE new = RefreshTTL(over) /\ OpponentOf(rm, u) # NoUser
  <2>1. Smooth(over, new)
    BY <1>1, <1>4, RefreshTTLSmooth
  <2> QED
    BY <1>1, <1>4, <2>1, OverProgress DEF Smooth, Quiet, SameResult, Over
<1> QED
  BY <1>2, <1>3, <1>4 DEF Forfeited, over

(* A room without a match. *)
Cleared(old, new) ==
  /\ new.store = old.store /\ new.players = old.players
  /\ new.phase \in Lobby /\ new.records = <<>>
  /\ new.handle["countdown"] = NoTimer /\ new.handle["post"] = NoTimer

LEMMA ClearedProgress ==
  ASSUME NEW old, NEW rm, NEW new, Cleared(rm, new), rm.store = old.store,
         Expecting(old) => rm.players = old.players,
         old.phase \in InGame => old.records = <<>>
  PROVE  Progress(old, new)
<1>1. Orderly(new)
  BY PhaseKinds DEF Orderly, PostInOrder, Cleared, Lobby, InGame
<1>2. Expecting(old) => Expecting(new)
  BY PhaseKinds DEF Expecting, Cleared
<1> QED
  BY <1>1, <1>2 DEF Progress, Move, Cleared

LEMMA ResetsClear ==
  ASSUME NEW rm \in GameRoomType
  PROVE  /\ Cleared(rm, ResetGameData(rm)) /\ Cleared(rm, StartRematch(rm))
         /\ Cleared(rm, SetupCancelled(rm)) /\ Cleared(rm, SlotReleased(rm))
<1>1. ASSUME NEW x \in GameRoomType, NEW ph \in Lobby
      PROVE  LET y == ClearProgress(x, ph)
                 z == [y EXCEPT !.official = FALSE]
             IN  /\ y \in GameRoomType /\ y.phase \in Lobby /\ y.records = <<>> /\ Kept(x, y)
                 /\ z \in GameRoomType /\ z.phase \in Lobby /\ z.records = <<>> /\ Kept(x, z)
  <2> DEFINE y == ClearProgress(x, ph)
             z == [y EXCEPT !.official = FALSE]
  <2>1. y \in GameRoomType
    BY ClearProgressType DEF Lobby, Phases
  <2>2. y.phase = ph /\ y.records = <<>> /\ y.store = x.store /\ y.players = x.players
    BY DEF ClearProgress, GameRoomType
  <2> HIDE DEF y
  <2>3. /\ z \in GameRoomType /\ z.phase = y.phase /\ z.records = y.records
        /\ z.store = y.store /\ z.players = y.players
    BY <2>1 DEF GameRoomType
  <2> QED
    BY <2>1, <2>2, <2>3 DEF y, Kept
<1>2. ASSUME NEW x, NEW y \in GameRoomType, y.phase \in Lobby, y.records = <<>>, Kept(x, y),
             NEW hs, {"countdown", "post"} \subseteq hs
      PROVE  Cleared(x, Cancel(y, hs))
  <2> DEFINE z == Cancel(y, hs)
  <2>1. Smooth(y, z)
    BY <1>2, CancelSmooth
  <2>2. z.handle["countdown"] = NoTimer /\ z.handle["post"] = NoTimer
    BY <1>2, HandleTimers DEF Cancel, GameRoomType
  <2> HIDE DEF z
  <2>3. Cleared(x, z)
    BY <1>2, <2>1, <2>2 DEF Cleared, Smooth, Quiet, SameResult, Kept
  <2> QED
    BY <2>3 DEF z
<1>3. /\ {"countdown", "post"} \subseteq MatchHandles /\ {"countdown", "post"} \subseteq RoomHandles
      /\ {"countdown", "post"} \subseteq RoomHandles \ {"round"}
  BY DEF RoomHandles, MatchHandles
<1>4. "ready" \in Lobby /\ "waiting" \in Lobby
  BY DEF Lobby
<1>5. ASSUME NEW x \in GameRoomType PROVE Cleared(x, ResetGameData(x))
  <2> DEFINE z == [ClearProgress(x, "ready") EXCEPT !.official = FALSE]
  <2>1. z \in GameRoomType /\ z.phase \in Lobby /\ z.records = <<>> /\ Kept(x, z)
    BY <1>1, <1>4
  <2> HIDE DEF z
  <2> QED
    BY <1>2, <1>3, <2>1 DEF ResetGameData, z
<1>6. Cleared(rm, StartRematch(rm))
  <2> DEFINE c == Cancel(rm, {"ttl"})
  <2>1. c \in GameRoomType /\ Smooth(rm, c)
    BY CancelType, CancelSmooth
  <2> HIDE DEF c
  <2> QED
    BY <1>5, <2>1 DEF StartRematch, Cleared, Smooth, Quiet, c
<1>7. Cleared(rm, SetupCancelled(rm))
  <2> DEFINE z == [ClearProgress(rm, "waiting") EXCEPT !.official = FALSE]
  <2>1. z \in GameRoomType /\ z.phase \in Lobby /\ z.records = <<>> /\ Kept(rm, z)
    BY <1>1, <1>4
  <2> HIDE DEF z
  <2> QED
    BY <1>2, <1>3, <2>1 DEF SetupCancelled, z
<1>8. Cleared(rm, SlotReleased(rm))
  <2> DEFINE y == ClearProgress(rm, "waiting")
  <2>1. y \in GameRoomType /\ y.phase \in Lobby /\ y.records = <<>> /\ Kept(rm, y)
    BY <1>1, <1>4
  <2> HIDE DEF y
  <2> QED
    BY <1>2, <1>3, <2>1 DEF SlotReleased, y
<1> QED
  BY <1>5, <1>6, <1>7, <1>8

-----------------------------------------------------------------------------
(* A match goes on. *)
LEMMA OnProgress ==
  ASSUME NEW old \in GameRoomType, NEW new, Orderly(old), old.phase \in {"ready", "countdown", "preparing"},
         new.store = old.store, new.players = old.players, SameResult(old, new),
         old.phase = "ready" \/ new.official \/ new.official = old.official,
         new.phase \in {"countdown", "preparing", "playing"},
         new.handle["countdown"] # NoTimer => new.phase = "countdown",
         new.handle["post"] = NoTimer
  PROVE  Progress(old, new)
<1>1. Len(old.records) < TotalRounds
  <2>1. CASE old.phase = "ready"
    BY <2>1, RoundsAssumption DEF Orderly, Lobby
  <2>2. CASE old.phase # "ready"
    BY <2>2 DEF Orderly, InGame
  <2> QED
    BY <2>1, <2>2
<1>2. Orderly(new)
  BY <1>1 DEF Orderly, PostInOrder, SameResult, Lobby, InGame
<1>3. Move(old, new)
  BY DEF Move, Lobby, InGame
<1>4. Expecting(old) => Expecting(new)
  BY DEF Expecting, SameResult, Over
<1> QED
  BY <1>2, <1>3, <1>4 DEF Progress

LEMMA ArmFields ==
  ASSUME NEW rm \in GameRoomType, NEW h \in Handles, NEW t
  PROVE  LET new == Arm(rm, h, t) IN
         /\ new.store = rm.store /\ new.players = rm.players /\ new.phase = rm.phase
         /\ new.official = rm.official /\ SameResult(rm, new)
         /\ \A k \in Handles : new.handle[k] = IF k = h THEN t ELSE rm.handle[k]
BY DEF Arm, SameResult, GameRoomType

LEMMA QuietPost ==
  ASSUME NEW rm, Orderly(rm),
         rm.phase \in {"ready", "preparing", "playing"} \/ rm.handle["countdown"] # NoTimer
  PROVE  rm.handle["post"] = NoTimer \/ rm.phase = "round_end"
BY DEF Orderly, PostInOrder

LEMMA StartProgress ==
  ASSUME NEW rm \in GameRoomType, Orderly(rm), rm.phase = "ready"
  PROVE  Progress(rm, StartCountdown([rm EXCEPT !.phase = "countdown"]))
<1> DEFINE x == [rm EXCEPT !.phase = "countdown"]
           new == StartCountdown(x)
<1>1. /\ x \in GameRoomType /\ x.phase = "countdown" /\ x.store = rm.store /\ x.players = rm.players
      /\ x.official = rm.official /\ SameResult(rm, x) /\ x.handle = rm.handle
  BY DEF GameRoomType, Phases, SameResult
<1> HIDE DEF x
<1>2. /\ new.store = x.store /\ new.players = x.players /\ new.phase = x.phase
      /\ new.official = x.official /\ SameResult(x, new) /\ new.handle["post"] = x.handle["post"]
  BY <1>1, ArmFields, HandleTimers DEF StartCountdown
<1>3. rm.handle["post"] = NoTimer
  BY QuietPost
<1> HIDE DEF new
<1>4. Progress(rm, new)
  BY <1>1, <1>2, <1>3, OnProgress DEF SameResult
<1> QED
  BY <1>4 DEF new, x

LEMMA PrepareProgress ==
  ASSUME NEW rm \in GameRoomType, Orderly(rm), rm.phase \in {"ready", "countdown"},
         rm.handle["countdown"] = NoTimer, rm.handle["post"] = NoTimer
  PROVE  Progress(rm, PrepareRound(rm))
<1> DEFINE new == PrepareRound(rm)
<1>1. /\ new.phase = "preparing" /\ new.store = rm.store /\ new.players = rm.players
      /\ new.official = rm.official /\ SameResult(rm, new)
      /\ \A k \in {"countdown", "post"} : new.handle[k] = rm.handle[k]
  BY HandleTimers DEF PrepareRound, Arm, GameRoomType, SameResult
<1> HIDE DEF new
<1>2. Progress(rm, new)
  BY <1>1, OnProgress
<1> QED
  BY <1>2 DEF new

LEMMA DoStartRoundProgress ==
  ASSUME NEW rm \in GameRoomType, Orderly(rm), rm.phase = "preparing"
  PROVE  Progress(rm, DoStartRound(rm))
<1> DEFINE new == DoStartRound(rm)
<1>1. /\ new.phase = "playing" /\ new.store = rm.store /\ new.players = rm.players
      /\ new.official /\ SameResult(rm, new)
      /\ \A k \in {"countdown", "post"} : new.handle[k] = rm.handle[k]
  BY HandleTimers DEF DoStartRound, Arm, GameRoomType, SameResult
<1> HIDE DEF new
<1>2. rm.handle["post"] = NoTimer /\ rm.handle["countdown"] = NoTimer
  BY QuietPost DEF Orderly
<1>3. Progress(rm, new)
  BY <1>1, <1>2, OnProgress
<1> QED
  BY <1>3 DEF new

(* The records of a round in play are of earlier rounds, one each. *)
LEMMA RecordsBelowRound ==
  ASSUME NEW rm, Whole(rm), rm.phase \in Running
  PROVE  Len(rm.records) + 1 <= rm.round
<1> DEFINE n == Len(rm.records)
           m == rm.round - 1
           f == [i \in 1..n |-> rm.records[i].round]
<1>1. n \in Nat /\ DOMAIN rm.records = 1..n /\ m \in Nat /\ rm.round \in Nat
  BY DEF Whole, Scored, GameRoomType
<1>2. \A i \in 1..n : rm.records[i].round \in 1..m
  <2>1. \A i \in 1..n : rm.records[i].round \in 1..rm.round /\ rm.records[i].round < rm.round
    BY <1>1 DEF Whole, Scored
  <2> QED
    BY <1>1, <2>1
<1>3. \A i, j \in 1..n : i < j => f[i] < f[j]
  BY <1>1 DEF Whole, Scored
<1> HIDE DEF n, m
<1>4. f \in [1..n -> 1..m]
  BY <1>2
<1> HIDE DEF f
<1>5. IsInjective(f)
  <2> SUFFICES ASSUME NEW i \in 1..n, NEW j \in 1..n, f[i] = f[j] PROVE i = j
    BY <1>4 DEF IsInjective
  <2> QED
    BY <1>1, <1>3, <1>4
<1>6. IsFiniteSet(1..m) /\ Cardinality(1..m) = m /\ IsFiniteSet(1..n) /\ Cardinality(1..n) = n
  <2>1. 1 \in Int /\ n \in Int /\ m \in Int
    BY <1>1
  <2>2. IsFiniteSet(1..m) /\ Cardinality(1..m) = IF 1 > m THEN 0 ELSE m - 1 + 1
    BY <2>1, FS_Interval
  <2>3. IsFiniteSet(1..n) /\ Cardinality(1..n) = IF 1 > n THEN 0 ELSE n - 1 + 1
    BY <2>1, FS_Interval
  <2> QED
    BY <1>1, <2>2, <2>3
<1>7. Cardinality(1..n) <= Cardinality(1..m)
  BY <1>4, <1>5, <1>6, FS_Injection DEF Injection, IsInjective
<1> QED
  BY <1>1, <1>6, <1>7 DEF n, m

LEMMA ResolveProgress ==
  ASSUME NEW rm, Whole(rm), Orderly(rm), rm.phase = "playing", Len(rm.players) >= 2
  PROVE  Progress(rm, ResolveRound(rm))
<1> DEFINE x == ScoreRound(rm)
           new == ResolveRound(rm)
           w == RoundWinner(rm)
<1>1. rm \in GameRoomType /\ x \in GameRoomType /\ rm.official /\ rm.handle["countdown"] = NoTimer
      /\ rm.handle["post"] = NoTimer
  BY ScoreRoundType DEF Whole, Seated, Orderly, PostInOrder
<1>2. /\ x.store = rm.store /\ x.players = rm.players /\ x.official = rm.official /\ x.handle = rm.handle
      /\ x.scores = [u \in Users |-> IF u = w THEN rm.scores[u] + 1 ELSE rm.scores[u]]
      /\ Len(x.records) = Len(rm.records) + 1 /\ Len(rm.records) \in Nat
  <2> DEFINE scores == [u \in Users |-> IF u = w THEN rm.scores[u] + 1 ELSE rm.scores[u]]
             record == [round |-> rm.round,
                        db |-> [u \in Users |-> IF u \in {rm.players[1], rm.players[2]}
                                                THEN PeakOf(rm, u) ELSE 0]]
  <2>1. x = [rm EXCEPT !.scores = scores, !.records = Append(@, record)]
    BY DEF ScoreRound
  <2> HIDE DEF x, scores, record
  <2>2. Len(Append(rm.records, record)) = Len(rm.records) + 1 /\ Len(rm.records) \in Nat
    BY <1>1 DEF GameRoomType
  <2>3. /\ x.store = rm.store /\ x.players = rm.players /\ x.official = rm.official /\ x.handle = rm.handle
        /\ x.scores = scores /\ x.records = Append(rm.records, record)
    BY <1>1, <2>1 DEF GameRoomType
  <2> QED
    BY <2>2, <2>3 DEF scores
<1>3. w \in Users \cup {NoUser}
  <2>1. 1 \in DOMAIN rm.players /\ 2 \in DOMAIN rm.players
    BY <1>1 DEF GameRoomType
  <2>2. rm.players[1] \in Users /\ rm.players[2] \in Users
    BY <1>1, <2>1 DEF GameRoomType
  <2> QED
    BY <2>2 DEF RoundWinner
<1> HIDE DEF x, w
<1>4. Len(rm.records) < TotalRounds /\ Len(rm.records) + 1 <= rm.round /\ rm.round \in Nat
  BY <1>1, RecordsBelowRound DEF Orderly, InGame, Running, GameRoomType
<1>5. ASSUME NEW ph \in {"round_end", "countdown"}, NEW t
      PROVE  LET y == Arm([x EXCEPT !.phase = ph], "post", t)
             IN  /\ y.store = x.store /\ y.players = x.players /\ y.phase = ph
                 /\ y.official = x.official /\ SameResult(x, y)
                 /\ y.handle["post"] = t /\ y.handle["countdown"] = x.handle["countdown"]
  <2> DEFINE z == [x EXCEPT !.phase = ph]
  <2>1. /\ z \in GameRoomType /\ z.store = x.store /\ z.players = x.players /\ z.phase = ph
        /\ z.official = x.official /\ SameResult(x, z) /\ z.handle = x.handle
    BY <1>1 DEF GameRoomType, Phases, SameResult
  <2> HIDE DEF z
  <2> DEFINE y == Arm(z, "post", t)
  <2>2. /\ y.store = z.store /\ y.players = z.players /\ y.phase = z.phase
        /\ y.official = z.official /\ SameResult(z, y)
        /\ \A k \in Handles : y.handle[k] = IF k = "post" THEN t ELSE z.handle[k]
    BY <2>1, ArmFields, HandleTimers
  <2>3. y.handle["post"] = t /\ y.handle["countdown"] = z.handle["countdown"]
    BY <2>2, HandleTimers
  <2> HIDE DEF y
  <2>4. /\ y.store = x.store /\ y.players = x.players /\ y.phase = ph
        /\ y.official = x.official /\ SameResult(x, y)
        /\ y.handle["post"] = t /\ y.handle["countdown"] = x.handle["countdown"]
    BY <2>1, <2>2, <2>3 DEF SameResult
  <2> QED
    BY <2>4 DEF y, z
<1>6. new = Arm([x EXCEPT !.phase = "round_end"], "post", Timer("finish")) \/
      /\ rm.round < TotalRounds
      /\ new = Arm([x EXCEPT !.phase = "countdown"], "post", Timer("next"))
  BY <1>4, RoundsAssumption DEF ResolveRound, x
<1> HIDE DEF new
<1>6a. \E ph \in {"round_end", "countdown"} : \E t :
          new = Arm([x EXCEPT !.phase = ph], "post", t)
  BY <1>6
<1>6b. /\ new.store = x.store /\ new.players = x.players /\ new.phase \in {"round_end", "countdown"}
       /\ new.official = x.official /\ SameResult(x, new) /\ new.handle["countdown"] = x.handle["countdown"]
  BY <1>5, <1>6a
<1>6c. \/ new.phase = "round_end" /\ new.handle["post"] = Timer("finish")
       \/ new.phase = "countdown" /\ new.handle["post"] = Timer("next") /\ rm.round < TotalRounds
  BY <1>5, <1>6
<1>7. /\ new.store = rm.store /\ new.players = rm.players /\ new.official
      /\ RoundAdded(rm, new) /\ new.phase \in {"round_end", "countdown"}
  BY <1>1, <1>2, <1>3, <1>4, <1>6b DEF SameResult, RoundAdded
<1>8. Orderly(new)
  <2>1. PostInOrder(new) /\ new.handle["countdown"] = NoTimer
    BY <1>1, <1>2, <1>6b, <1>6c DEF PostInOrder
  <2>2. new.phase = "countdown" => Len(new.records) < TotalRounds
    <3>1. Len(new.records) = Len(rm.records) + 1 /\ (new.phase = "countdown" => rm.round < TotalRounds)
      BY <1>2, <1>6b, <1>6c DEF SameResult
    <3> QED
      BY <1>2, <1>4, <3>1, RoundsAssumption
  <2> QED
    BY <1>7, <2>1, <2>2 DEF Orderly, Lobby, InGame
<1>9. ~Expecting(rm)
  <2> DEFINE n == Len(rm.players)
  <2>1. n \in Nat /\ n >= 2
    BY <1>1 DEF GameRoomType
  <2> HIDE DEF n
  <2>2. n # 1
    BY <2>1
  <2> QED
    BY <2>2 DEF Expecting, n
<1> QED
  BY <1>7, <1>8, <1>9 DEF Progress, Move, InGame, new

LEMMA CloseProgress ==
  ASSUME NEW rm, Whole(rm), Orderly(rm), rm.phase = "playing" PROVE Progress(rm, CloseRound(rm))
<1> DEFINE new == [rm EXCEPT !.phase = "round_end"]
<1>1. /\ new.store = rm.store /\ new.players = rm.players /\ new.phase = "round_end"
      /\ new.official = rm.official /\ SameResult(rm, new) /\ new.handle = rm.handle
  BY DEF Whole, GameRoomType, SameResult
<1> HIDE DEF new
<1>2. Progress(rm, new)
  <2>1. Orderly(new)
    BY <1>1 DEF Orderly, PostInOrder, SameResult, Lobby, InGame
  <2>2. Move(rm, new)
    BY <1>1 DEF Move, InGame
  <2>3. Expecting(rm) => Expecting(new)
    BY <1>1 DEF Expecting, SameResult, Over
  <2> QED
    BY <1>1, <2>1, <2>2, <2>3 DEF Progress
<1>3. Len(rm.players) >= 2 \/ Len(rm.players) < 2
  BY DEF Whole, GameRoomType
<1>4. CASE Len(rm.players) < 2
  BY <1>2, <1>4 DEF CloseRound, new
<1>5. CASE Len(rm.players) >= 2
  <2>1. ~(Len(rm.players) < 2)
    BY <1>5 DEF Whole, GameRoomType
  <2> QED
    BY <1>5, <2>1, ResolveProgress DEF CloseRound
<1> QED
  BY <1>3, <1>4, <1>5

LEMMA FinishProgress ==
  ASSUME NEW old \in GameRoomType, Orderly(old), old.phase = "round_end", ~Expecting(old),
         NEW x \in GameRoomType, Smooth(old, x), x.handle["post"] = NoTimer
  PROVE  Progress(old, FinishGame(x))
<1> DEFINE y == [x EXCEPT !.phase = "game_over"]
<1>1. x.phase = "round_end" /\ old.handle["countdown"] = NoTimer /\ x.handle["countdown"] = NoTimer
  BY DEF Smooth, Quiet, Orderly
<1>2. /\ y \in GameRoomType /\ y.store = x.store /\ y.phase = "game_over" /\ y.handle = x.handle
      /\ SameResult(x, y)
  BY DEF GameRoomType, Phases, SameResult
<1> HIDE DEF y
<1>3. Smooth(y, y) /\ Smooth(y, RefreshTTL(y))
  BY <1>2, RefreshTTLSmooth, SmoothReflexive
<1>4. ASSUME NEW z, Smooth(y, z) PROVE Progress(old, z)
  BY <1>1, <1>2, <1>4, OverProgress DEF Smooth, Quiet, SameResult, Over
<1>5. FinishGame(x) = y \/ FinishGame(x) = RefreshTTL(y)
  BY <1>1 DEF FinishGame, y
<1> QED
  BY <1>3, <1>4, <1>5

-----------------------------------------------------------------------------
(* Change by change, in an open room. *)
LEMMA RemoveQuiet ==
  ASSUME NEW rm, Whole(rm), NEW u \in Members(rm)
  PROVE  LET new == RemovePlayer(rm, u) IN
         new \in GameRoomType /\ Quiet(rm, new) /\ (Len(rm.players) = 1 => new.players = <<>>)
<1> DEFINE new == RemovePlayer(rm, u)
           c == Cancel(rm, {u})
           rest == RemoveAt(rm.players, CHOOSE i \in DOMAIN rm.players : rm.players[i] = u)
<1>1. /\ Whole(new) /\ new.store = rm.store /\ new.phase = rm.phase /\ new.official = rm.official
      /\ Len(new.players) = Len(rm.players) - 1
  BY UnseatWhole
<1>2. c \in GameRoomType /\ Smooth(rm, c)
  BY CancelType, CancelSmooth DEF Whole
<1>3. new.records = c.records /\ new.scores = c.scores /\ new.handle = c.handle
  <2>1. new = [c EXCEPT !.players = rest, !.info[u] = NoPlayer]
    BY <1>2 DEF RemovePlayer, Smooth
  <2> HIDE DEF c, rest, new
  <2> QED
    BY <1>2, <2>1 DEF GameRoomType
<1> HIDE DEF new, c
<1>4. Quiet(rm, new)
  BY <1>1, <1>2, <1>3 DEF Smooth, Quiet, SameResult
<1>5. new.players \in Seq(Users)
  BY <1>1 DEF Whole, GameRoomType
<1>6. Len(rm.players) = 1 => new.players = <<>>
  BY <1>1, <1>5
<1> QED
  BY <1>1, <1>4, <1>6 DEF Whole, new

LEMMA ConnectionsProgress ==
  ASSUME NEW old, Whole(old), Orderly(old), NEW new, Returned(old, new) \/ Dropped(old, new)
  PROVE  Progress(old, new)
<1>0. old \in GameRoomType /\ Members(old) \subseteq Users
  BY MembersAreUsers DEF Whole
<1>1. ASSUME Returned(old, new) PROVE Progress(old, new)
  <2>1. PICK u \in Members(old) :
          \/ new = Deleted(RemovePlayer(old, u))
          \/ Len(old.players) # 1 /\ new = RemovePlayer(old, u)
          \/ \E s \in Sockets : new = Rejoined(old, u, s)
    BY <1>1 DEF Returned
  <2>2. RemovePlayer(old, u) \in GameRoomType /\ Quiet(old, RemovePlayer(old, u))
    BY RemoveQuiet
  <2>3. \A s : Smooth(old, Rejoined(old, u, s))
    BY <1>0, UpdatesSmooth
  <2> QED
    BY <1>0, <2>1, <2>2, <2>3, DeletedProgress, QuietProgress, SmoothProgress DEF Expecting
<1>2. ASSUME Dropped(old, new) PROVE Progress(old, new)
  <2>1. PICK u \in Members(old) : \/ new = Deleted(Away(old, u))
                                  \/ new = RefreshTTL(Away(old, u))
                                  \/ new = Arm(Away(old, u), u, Grace(u))
    BY <1>2 DEF Dropped
  <2> DEFINE x == Away(old, u)
  <2>2. x \in GameRoomType /\ Smooth(old, x) /\ u \in Users
    BY <1>0, AwayType, UpdatesSmooth
  <2> HIDE DEF x
  <2>3. u \in Handles /\ u \notin {"countdown", "post"} /\ Grace(u) \in Timers
    BY <2>2, HandleTimers DEF RoomHandles, MatchHandles
  <2>4. Smooth(x, RefreshTTL(x)) /\ Smooth(x, Arm(x, u, Grace(u)))
    BY <2>2, <2>3, RefreshTTLSmooth, ArmSmooth
  <2> QED
    BY <1>0, <2>1, <2>2, <2>4, DeletedProgress, SmoothTransitive, SmoothProgress DEF x
<1> QED
  BY <1>1, <1>2

LEMMA JoinStartedProgress ==
  ASSUME NEW old \in GameRoomType, Orderly(old), NEW new, JoinStarted(old, new)
  PROVE  /\ Progress(old, new) /\ new.store = old.store /\ new.players = old.players
         /\ new.phase \notin Over /\ new.phase \notin InGame
<1> DEFINE x == Cancel(old, {"ttl"})
<1>1. x \in GameRoomType /\ Smooth(old, x)
  BY CancelType, CancelSmooth
<1>2. /\ old.phase \notin InGame
      /\ \/ old.phase = "waiting" /\ new = x
         \/ old.phase # "waiting" /\ new = ResetGameData(x)
  BY DEF JoinStarted, JoinBegun
<1> HIDE DEF x
<1>3. CASE old.phase = "waiting" /\ new = x
  BY <1>1, <1>3, SmoothProgress, PhaseKinds DEF Smooth, Quiet, Lobby
<1>4. CASE new = ResetGameData(x)
  <2>1. Cleared(x, new)
    BY <1>1, <1>4, ResetsClear
  <2> QED
    BY <1>1, <1>2, <2>1, ClearedProgress, PhaseKinds DEF Smooth, Quiet, Cleared
<1> QED
  BY <1>2, <1>3, <1>4

LEMMA EventsProgress ==
  ASSUME NEW old, Whole(old), Orderly(old), NEW new,
         \/ Readied(old, new) \/ MicReadied(old, new) \/ MicFailed(old, new) \/ Submitted(old, new)
         \/ Rematched(old, new)
  PROVE  Progress(old, new)
<1>0. old \in GameRoomType
  BY DEF Whole
<1>1. ASSUME Readied(old, new) PROVE Progress(old, new)
  <2>1. PICK u \in Users : LET rm == [old EXCEPT !.info[u].ready = TRUE] IN
          old.phase = "ready" /\ (new = rm \/ new = StartCountdown([rm EXCEPT !.phase = "countdown"]))
    BY <1>1 DEF Readied
  <2> DEFINE rm == [old EXCEPT !.info[u].ready = TRUE]
  <2>2. rm \in GameRoomType /\ Smooth(old, rm)
    BY <1>0, PlayerUpdateType, UpdatesSmooth
  <2>3. new = rm \/ new = StartCountdown([rm EXCEPT !.phase = "countdown"])
    BY <2>1
  <2> HIDE DEF rm
  <2>4. Orderly(rm) /\ rm.phase = "ready"
    BY <2>1, <2>2, SmoothOrderly DEF Smooth, Quiet
  <2> QED
    BY <1>0, <2>2, <2>3, <2>4, SmoothProgress, StartProgress, SmoothFirst
<1>2. ASSUME MicReadied(old, new) PROVE Progress(old, new)
  <2>1. PICK u \in Users : LET rm == [old EXCEPT !.micReady = @ \cup {u}] IN
          old.phase = "preparing" /\ (new = rm \/ new = DoStartRound(Cancel(rm, {"prepare"})))
    BY <1>2 DEF MicReadied
  <2> DEFINE rm == [old EXCEPT !.micReady = @ \cup {u}]
             c == Cancel(rm, {"prepare"})
  <2>2. Smooth(old, rm)
    BY <1>0, UpdatesSmooth
  <2>3. rm \in GameRoomType
    BY <1>0 DEF GameRoomType
  <2>4. new = rm \/ new = DoStartRound(c)
    BY <2>1
  <2> HIDE DEF rm
  <2>5. c \in GameRoomType /\ Smooth(old, c)
    BY <2>2, <2>3, CancelType, CancelSmooth, SmoothTransitive
  <2> HIDE DEF c
  <2>6. Orderly(c) /\ c.phase = "preparing"
    BY <2>1, <2>5, SmoothOrderly DEF Smooth, Quiet
  <2> QED
    BY <1>0, <2>2, <2>4, <2>5, <2>6, SmoothProgress, DoStartRoundProgress, SmoothFirst
<1>3. ASSUME MicFailed(old, new) PROVE Progress(old, new)
  <2> DEFINE rm == Cancel(old, {"prepare"})
  <2>1. rm \in GameRoomType /\ Smooth(old, rm)
    BY <1>0, CancelType, CancelSmooth
  <2>2. /\ rm.phase = "preparing"
        /\ \/ \E u \in Members(old) : Forfeited(rm, u, new)
           \/ ~rm.official /\ new = ResetGameData(rm)
    BY <1>3 DEF MicFailed
  <2> HIDE DEF rm
  <2>3. ASSUME NEW u \in Members(old), Forfeited(rm, u, new) PROVE Progress(old, new)
    <3>1. Expecting(old) => OpponentOf(rm, u) = NoUser
      BY <2>1, LoneOpponent DEF Smooth, Members, Expecting
    <3> QED
      BY <1>0, <2>1, <2>3, <3>1, ForfeitedProgress DEF Smooth
  <2>4. CASE ~rm.official /\ new = ResetGameData(rm)
    <3>1. old.phase \in InGame => old.records = <<>>
      BY <2>1, <2>4 DEF Orderly, Smooth, Quiet
    <3>2. Cleared(rm, new)
      BY <2>1, <2>4, ResetsClear
    <3> QED
      BY <2>1, <3>1, <3>2, ClearedProgress DEF Smooth, Quiet
  <2> QED
    BY <2>2, <2>3, <2>4
<1>4. ASSUME Submitted(old, new) PROVE Progress(old, new)
  <2>1. PICK u \in Users, db \in Decibels : LET rm == [old EXCEPT !.info[u].sub = db] IN
          old.phase = "playing" /\ (new = rm \/ new = CloseRound(Cancel(rm, {"round"})))
    BY <1>4 DEF Submitted, CanSubmit
  <2> DEFINE rm == [old EXCEPT !.info[u].sub = db]
             c == Cancel(rm, {"round"})
  <2>2. Whole(rm) /\ Smooth(old, rm)
    BY <1>0, InfoWhole, UpdatesSmooth
  <2>3. new = rm \/ new = CloseRound(c)
    BY <2>1
  <2> HIDE DEF rm
  <2>4. Whole(c) /\ Smooth(old, c)
    BY <2>2, TimersWhole, CancelSmooth, SmoothTransitive DEF Whole
  <2> HIDE DEF c
  <2>5. Orderly(c) /\ c.phase = "playing"
    BY <2>1, <2>4, SmoothOrderly DEF Smooth, Quiet
  <2> QED
    BY <1>0, <2>2, <2>3, <2>4, <2>5, SmoothProgress, CloseProgress, SmoothFirst
<1>5. ASSUME Rematched(old, new) PROVE Progress(old, new)
  <2>1. PICK u \in Users :
          LET rm == [old EXCEPT !.info[u].rematch = TRUE, !.phase = "rematch_waiting"] IN
          old.phase \in Over /\ (new = rm \/ new = StartRematch(rm))
    BY <1>5 DEF Rematched, Over
  <2> DEFINE rm == [old EXCEPT !.info[u].rematch = TRUE, !.phase = "rematch_waiting"]
  <2>2. /\ rm.store = old.store /\ rm.players = old.players /\ SameResult(old, rm)
        /\ rm.phase = "rematch_waiting" /\ rm.handle = old.handle
    BY <1>0 DEF GameRoomType, SameResult
  <2>3. rm \in GameRoomType
    <3>1. "rematch_waiting" \in Phases \ Running
      BY DEF Phases, Running
    <3> QED
      BY <3>1, InfoWhole DEF Whole
  <2>4. new = rm \/ new = StartRematch(rm)
    BY <2>1
  <2> HIDE DEF rm
  <2>5. old.handle["countdown"] = NoTimer /\ old.handle["post"] = NoTimer /\ ~Expecting(old)
    BY <2>1 DEF Orderly, PostInOrder, Over, Expecting
  <2>6. Progress(old, rm)
    BY <1>0, <2>2, <2>5, OverProgress DEF Over
  <2>7. Progress(old, StartRematch(rm))
    BY <2>1, <2>2, <2>3, ResetsClear, ClearedProgress, PhaseKinds
  <2> QED
    BY <2>4, <2>6, <2>7
<1> QED
  BY <1>1, <1>2, <1>3, <1>4, <1>5

LEMMA LeftProgress ==
  ASSUME NEW old, Whole(old), Orderly(old), NEW new, Left(old, new) PROVE Progress(old, new)
<1> DEFINE active == old.phase \in InGame
           x == IF active THEN Cancel(old, {"prepare"}) ELSE old
<1>0. old \in GameRoomType
  BY DEF Whole
<1>1. PICK u \in Members(old) :
        LET rm == RemovePlayer(x, u)
            opp == OpponentOf(old, u)
        IN
        \/ active /\ rm.official /\ Forfeited(rm, u, new)
        \/ rm.players = <<>> /\ new = Deleted(rm)
        \/ active /\ ~rm.official /\ rm.players # <<>> /\ Stayed(SetupCancelled(rm), opp, old.info[u].host, new)
        \/ ~active /\ rm.players # <<>> /\ Stayed(SlotReleased(rm), opp, old.info[u].host, new)
  BY DEF Left
<1> DEFINE rm == RemovePlayer(x, u)
           opp == OpponentOf(old, u)
<1>2. Whole(x) /\ Smooth(old, x)
  BY <1>0, TimersWhole, CancelSmooth, SmoothReflexive
<1> HIDE DEF x
<1>3. u \in Members(x) /\ x.players = old.players
  BY <1>2 DEF Smooth, Members
<1>4. rm \in GameRoomType /\ Quiet(x, rm) /\ (Len(x.players) = 1 => rm.players = <<>>)
  BY <1>2, <1>3, RemoveQuiet
<1> HIDE DEF rm
<1>5. Quiet(old, rm) /\ (Expecting(old) => rm.players = <<>>)
  BY <1>2, <1>3, <1>4 DEF Smooth, Quiet, SameResult, Expecting
<1>6. CASE active /\ rm.official /\ Forfeited(rm, u, new)
  <2>1. rm.players = <<>> => OpponentOf(rm, u) = NoUser
    BY DEF OpponentOf
  <2> QED
    BY <1>0, <1>4, <1>5, <1>6, <2>1, ForfeitedProgress
<1>7. CASE new = Deleted(rm)
  BY <1>4, <1>7, DeletedProgress
<1>8. ASSUME NEW y, Cleared(rm, y), y \in GameRoomType, Stayed(y, opp, old.info[u].host, new),
             rm.players # <<>>, active => ~rm.official
      PROVE  Progress(old, new)
  <2>1. CASE new = Deleted(y)
    BY <1>8, <2>1, DeletedProgress
  <2>2. CASE new = y \/ new = [y EXCEPT !.info[opp].host = TRUE]
    <3>1. Smooth(y, new)
      BY <1>8, <2>2, UpdatesSmooth, SmoothReflexive
    <3>2. Cleared(rm, new)
      BY <1>8, <3>1 DEF Cleared, Smooth, Quiet, SameResult
    <3>3. active => old.records = <<>>
      BY <1>5, <1>8 DEF Orderly, Quiet
    <3>4. rm.store = old.store /\ ~Expecting(old)
      BY <1>5, <1>8 DEF Quiet
    <3> QED
      BY <3>2, <3>3, <3>4, ClearedProgress
  <2> QED
    BY <1>8, <2>1, <2>2 DEF Stayed
<1>9. /\ Cleared(rm, SetupCancelled(rm)) /\ SetupCancelled(rm) \in GameRoomType
      /\ Cleared(rm, SlotReleased(rm)) /\ SlotReleased(rm) \in GameRoomType
  BY <1>4, ResetsClear, LeaveResetsType
<1> QED
  BY <1>1, <1>6, <1>7, <1>8, <1>9 DEF rm

LEMMA CountdownProgress ==
  ASSUME NEW old \in GameRoomType, Orderly(old), NothingLost(old), NEW new,
         Ticked(old, new) \/ Prepared(old, new)
  PROVE  Progress(old, new)
<1>0. "countdown" \in Handles /\ \A n \in 0..CountdownTicks : Tick(n) \in Timers
  BY HandleTimers
<1>1. ASSUME NEW n \in 0..CountdownTicks, NEW rm \in Expired(old, "countdown", Tick(n))
      PROVE  /\ rm \in GameRoomType /\ Smooth(old, rm) /\ Orderly(rm) /\ old.handle["post"] = NoTimer
             /\ rm.phase \in {"ready", "countdown"} /\ rm.handle["countdown"] = NoTimer
             /\ rm.handle["post"] = NoTimer
  <2>1. rm \in GameRoomType /\ Smooth(old, rm) /\ rm.handle["countdown"] = NoTimer
        /\ old.handle["countdown"] # NoTimer
    BY <1>0, ExpiredSmooth
  <2>2. old.phase \in {"ready", "countdown"} /\ old.handle["post"] = NoTimer
    BY <2>1 DEF Orderly, PostInOrder
  <2> QED
    BY <2>1, <2>2, SmoothOrderly DEF Smooth, Quiet
<1>2. ASSUME Ticked(old, new) PROVE Progress(old, new)
  <2>1. PICK n \in 1..CountdownTicks : \E rm \in Expired(old, "countdown", Tick(n)) :
          new = Arm(rm, "countdown", Tick(n - 1))
    BY <1>2 DEF Ticked
  <2>2. PICK rm \in Expired(old, "countdown", Tick(n)) : new = Arm(rm, "countdown", Tick(n - 1))
    BY <2>1
  <2>3. n \in 0..CountdownTicks
    BY TicksAssumption
  <2>4. /\ rm \in GameRoomType /\ Smooth(old, rm) /\ Orderly(rm)
        /\ rm.phase \in {"ready", "countdown"} /\ rm.handle["post"] = NoTimer
    BY <1>1, <2>3
  <2>5. /\ new.store = rm.store /\ new.players = rm.players /\ new.phase = rm.phase
        /\ new.official = rm.official /\ SameResult(rm, new) /\ new.handle["post"] = NoTimer
    BY <2>2, <2>4, ArmFields, HandleTimers
  <2>6. Progress(rm, new)
    <3>1. Orderly(new)
      BY <2>4, <2>5 DEF Orderly, PostInOrder, SameResult
    <3>2. Move(rm, new)
      BY <2>4, <2>5 DEF Move, Lobby, InGame
    <3>3. Expecting(rm) => Expecting(new)
      BY <2>5 DEF Expecting, SameResult
    <3> QED
      BY <2>5, <3>1, <3>2, <3>3 DEF Progress
  <2> QED
    BY <2>4, <2>6, SmoothFirst
<1>3. ASSUME Prepared(old, new) PROVE Progress(old, new)
  <2>1. PICK rm \in Expired(old, "countdown", Tick(0)) : new = PrepareRound(Forget(rm, "countdown"))
    BY <1>3 DEF Prepared
  <2>2. 0 \in 0..CountdownTicks
    BY TicksAssumption
  <2> DEFINE x == Forget(rm, "countdown")
  <2>3. x \in GameRoomType /\ Smooth(rm, x)
    BY <1>0, <1>1, <2>2, ForgetType, ArmSmooth DEF Forget
  <2> HIDE DEF x
  <2>4. /\ Smooth(old, x) /\ Orderly(x) /\ x.phase \in {"ready", "countdown"}
        /\ x.handle["countdown"] = NoTimer /\ x.handle["post"] = NoTimer
    <3>1. Smooth(old, x) /\ Orderly(x)
      BY <1>1, <2>2, <2>3, SmoothTransitive, SmoothOrderly
    <3> QED
      BY <1>1, <2>2, <2>3, <3>1 DEF Smooth, Quiet
  <2> QED
    BY <2>1, <2>3, <2>4, PrepareProgress, SmoothFirst DEF x
<1> QED
  BY <1>2, <1>3

LEMMA PhaseEndProgress ==
  ASSUME NEW old, Whole(old), Orderly(old), NothingLost(old), NEW new,
         PrepareEnded(old, new) \/ RoundEnded(old, new)
  PROVE  Progress(old, new)
<1>0. /\ old \in GameRoomType /\ "prepare" \in Handles /\ "round" \in Handles
      /\ Timer("prepare") \in Timers /\ Timer("round") \in Timers
      /\ "prepare" \notin {"countdown", "post"}
  BY HandleTimers DEF Whole
<1>1. ASSUME PrepareEnded(old, new) PROVE Progress(old, new)
  <2>1. PICK rm \in Expired(old, "prepare", Timer("prepare")) :
          \/ new = rm \/ new = Forget(rm, "prepare")
          \/ ~rm.official /\ new = ResetGameData(rm)
          \/ \E u \in Users : u \in NotReady(rm) /\ Forfeited(rm, u, new)
          \/ new = Deleted(rm)
    BY <1>1 DEF PrepareEnded
  <2>2. rm \in GameRoomType /\ Smooth(old, rm) /\ Members(rm) = Members(old)
    BY <1>0, ExpiredSmooth
  <2>3. Smooth(old, Forget(rm, "prepare"))
    BY <1>0, <2>2, ArmSmooth, SmoothTransitive DEF Forget
  <2>4. CASE ~rm.official /\ new = ResetGameData(rm)
    <3>1. old.phase \in InGame => old.records = <<>>
      BY <2>2, <2>4 DEF Orderly, Smooth, Quiet
    <3>2. Cleared(rm, new)
      BY <2>2, <2>4, ResetsClear
    <3> QED
      BY <2>2, <3>1, <3>2, ClearedProgress DEF Smooth, Quiet
  <2>5. ASSUME NEW u \in NotReady(rm), Forfeited(rm, u, new) PROVE Progress(old, new)
    <3>1. Expecting(old) => OpponentOf(rm, u) = NoUser
      BY <2>2, LoneOpponent DEF Smooth, NotReady, Expecting
    <3> QED
      BY <1>0, <2>2, <2>5, <3>1, ForfeitedProgress DEF Smooth
  <2> QED
    BY <1>0, <2>1, <2>2, <2>3, <2>4, <2>5, SmoothProgress, DeletedProgress
<1>2. ASSUME RoundEnded(old, new) PROVE Progress(old, new)
  <2>1. PICK rm \in Expired(old, "round", Timer("round")) :
          \/ new = rm
          \/ rm.phase = "playing" /\ Len(rm.players) >= 2 /\ new = ResolveRound(rm)
    BY <1>2 DEF RoundEnded
  <2>2. Whole(rm) /\ Smooth(old, rm) /\ Orderly(rm)
    BY <1>0, TimersWhole, ExpiredSmooth, SmoothOrderly
  <2> QED
    BY <1>0, <2>1, <2>2, SmoothProgress, ResolveProgress, SmoothFirst
<1> QED
  BY <1>1, <1>2

LEMMA PostProgress ==
  ASSUME NEW old \in GameRoomType, Orderly(old), NothingLost(old), NEW new,
         Finished(old, new) \/ NextStarted(old, new)
  PROVE  Progress(old, new)
<1>0. "post" \in Handles /\ Timer("finish") \in Timers /\ Timer("next") \in Timers
      /\ Timer("finish") # Timer("next")
  BY HandleTimers DEF Timer
<1>1. PICK t \in {Timer("finish"), Timer("next")} : \E rm \in Expired(old, "post", t) :
        \/ t = Timer("finish") /\ new = FinishGame(Forget(rm, "post"))
        \/ t = Timer("next") /\ new = StartCountdown(Forget(rm, "post"))
  BY DEF Finished, NextStarted
<1>2. PICK rm \in Expired(old, "post", t) :
        \/ t = Timer("finish") /\ new = FinishGame(Forget(rm, "post"))
        \/ t = Timer("next") /\ new = StartCountdown(Forget(rm, "post"))
  BY <1>1
<1> DEFINE x == Forget(rm, "post")
<1>3. rm \in GameRoomType /\ Smooth(old, rm) /\ old.handle["post"] = t /\ t # NoTimer
  BY <1>0, ExpiredSmooth
<1>4. x \in GameRoomType /\ Smooth(rm, x) /\ x.handle["post"] = NoTimer
  BY <1>0, <1>3, ForgetType, ArmSmooth, ArmFields DEF Forget
<1> HIDE DEF x
<1>5. Smooth(old, x) /\ ~Expecting(old)
  BY <1>3, <1>4, SmoothTransitive DEF Expecting
<1>6. CASE t = Timer("finish") /\ new = FinishGame(x)
  <2>1. old.phase = "round_end"
    BY <1>0, <1>3, <1>6 DEF Orderly, PostInOrder
  <2> QED
    BY <1>4, <1>5, <1>6, <2>1, FinishProgress
<1>7. CASE t = Timer("next") /\ new = StartCountdown(x)
  <2>1. old.phase = "countdown"
    BY <1>0, <1>3, <1>7 DEF Orderly, PostInOrder
  <2>2. /\ new.store = x.store /\ new.players = x.players /\ new.phase = x.phase
        /\ new.official = x.official /\ SameResult(x, new) /\ new.handle["post"] = x.handle["post"]
    BY <1>4, <1>7, ArmFields, HandleTimers DEF StartCountdown
  <2> QED
    BY <1>4, <1>5, <2>1, <2>2, OnProgress DEF Smooth, Quiet, SameResult
<1> QED
  BY <1>2, <1>6, <1>7 DEF x

LEMMA GraceProgress ==
  ASSUME NEW old \in GameRoomType, Orderly(old), Attended(old), NothingLost(old), NEW new,
         GraceEnded(old, new) \/ TTLEnded(old, new)
  PROVE  Progress(old, new)
<1>1. ASSUME GraceEnded(old, new) PROVE Progress(old, new)
  <2>1. PICK u \in Users : \E rm \in Expired(old, u, Grace(u)) : Forfeited(rm, u, new)
    BY <1>1 DEF GraceEnded
  <2>2. PICK rm \in Expired(old, u, Grace(u)) : Forfeited(rm, u, new)
    BY <2>1
  <2>3. rm \in GameRoomType /\ Smooth(old, rm) /\ Members(rm) = Members(old) /\ old.handle[u] # NoTimer
    BY HandleTimers, ExpiredSmooth
  <2>4. u \in Members(rm)
    BY <2>3 DEF Attended
  <2>5. Expecting(old) => OpponentOf(rm, u) = NoUser
    BY <2>3, <2>4, LoneOpponent DEF Smooth, Expecting
  <2> QED
    BY <2>2, <2>3, <2>5, ForfeitedProgress DEF Smooth
<1>2. ASSUME TTLEnded(old, new) PROVE Progress(old, new)
  <2>1. PICK rm \in Expired(old, "ttl", Timer("ttl")) : new = Deleted(rm)
    BY <1>2 DEF TTLEnded
  <2> QED
    BY <2>1, HandleTimers, ExpiredType, DeletedProgress
<1> QED
  BY <1>1, <1>2

LEMMA HandledProgress ==
  ASSUME NEW old, Whole(old), Orderly(old), Attended(old), NothingLost(old), old.store = "open",
         NEW new, Handled(old, new)
  PROVE  Progress(old, new)
<1>1. old \in GameRoomType
  BY DEF Whole
<1>2. ~Created(old, new)
  BY DEF Created
<1> QED
  BY <1>1, <1>2, ConnectionsProgress, JoinStartedProgress, EventsProgress, LeftProgress,
     CountdownProgress, PhaseEndProgress, PostProgress, GraceProgress DEF Handled

-----------------------------------------------------------------------------
(* A step changes one open room, opens one, puts a late joiner into one, or is a crash. *)
OnlyRoom(q) == \A r \in Rooms : r # q => room'[r] = room[r]

LEMMA WritesOne ==
  ASSUME TypeOK, NEW q \in Rooms, NEW rm, NEW u, NEW us, NEW ss,
         \/ Put(q, rm) \/ Keep(q, rm, us, ss) \/ CleanupRoom(q, rm, us, ss) \/ HandleForfeit(q, rm, u, us, ss)
  PROVE  OnlyRoom(q)
<1>1. PICK x : Put(q, x)
  BY DEF Keep, CleanupRoom, HandleForfeit
<1> QED
  BY <1>1 DEF Put, OnlyRoom, TypeOK

InOpenRoom(q) == Open(q) /\ OnlyRoom(q) /\ (lookup' = lookup \/ \E s \in Sockets : RoomJoin(s, q))
Elsewhere ==
  UNCHANGED room /\ \A c \in lookup' : c \in lookup \/ c.target = NoRoom

LEMMA ConnectionRooms ==
  ASSUME RegInv, NEW s \in Sockets,
         \/ Connect(s) \/ TryReconnect(s) \/ Disconnect(s) \/ RoomCreate(s)
         \/ \E r \in Rooms : RoomJoin(s, r)
  PROVE  Elsewhere \/ \E q \in Rooms : InOpenRoom(q)
<1>0. TypeOK
  BY RegInvParts
<1>1. ASSUME Connect(s) \/ RoomCreate(s) PROVE Elsewhere
  BY <1>1 DEF Connect, RoomCreate, StartLookup, Elsewhere
<1>2. ASSUME TryReconnect(s) PROVE Elsewhere \/ \E q \in Rooms : InOpenRoom(q)
  <2> DEFINE u == Owner(s)
             r == RoomOfUser(u)
  <2>1. /\ lookup' = lookup
        /\ \/ UNCHANGED room
           \/ /\ InRoom(u, r)
              /\ \E rm, us, ss : Put(r, rm) \/ Keep(r, rm, us, ss) \/ CleanupRoom(r, rm, us, ss)
    BY <1>2 DEF TryReconnect
  <2>2. CASE UNCHANGED room
    BY <2>1, <2>2 DEF Elsewhere
  <2>3. CASE /\ InRoom(u, r)
             /\ \E rm, us, ss : Put(r, rm) \/ Keep(r, rm, us, ss) \/ CleanupRoom(r, rm, us, ss)
    <3>1. r \in Rooms /\ Open(r)
      BY <2>3, SenderOpen
    <3> QED
      BY <1>0, <2>1, <2>3, <3>1, WritesOne DEF InOpenRoom
  <2> QED
    BY <2>1, <2>2, <2>3
<1>3. ASSUME Disconnect(s) PROVE Elsewhere \/ \E q \in Rooms : InOpenRoom(q)
  <2> DEFINE u == Owner(s)
             r == RoomOfSocket(s)
  <2>1. /\ lookup' = lookup
        /\ \/ UNCHANGED room
           \/ /\ InRoom(u, r)
              /\ \E rm, us, ss : Keep(r, rm, us, ss) \/ CleanupRoom(r, rm, us, ss)
    BY <1>3 DEF Disconnect
  <2>2. CASE UNCHANGED room
    BY <2>1, <2>2 DEF Elsewhere
  <2>3. CASE InRoom(u, r) /\ \E rm, us, ss : Keep(r, rm, us, ss) \/ CleanupRoom(r, rm, us, ss)
    <3>1. r \in Rooms /\ Open(r)
      BY <2>3, SenderOpen
    <3> QED
      BY <1>0, <2>1, <2>3, <3>1, WritesOne DEF InOpenRoom
  <2> QED
    BY <2>1, <2>2, <2>3
<1>4. ASSUME NEW r \in Rooms, RoomJoin(s, r) PROVE InOpenRoom(r)
  <2>1. Open(r) /\ Put(r, JoinBegun(room[r]))
    BY <1>4 DEF RoomJoin
  <2>2. OnlyRoom(r)
    BY <1>0, <2>1, WritesOne
  <2> QED
    BY <1>4, <2>1, <2>2 DEF InOpenRoom
<1> QED
  BY <1>1, <1>2, <1>3, <1>4

LEMMA EventRooms ==
  ASSUME RegInv, NEW s \in Sockets, ClientEvent(s) PROVE \E q \in Rooms : InOpenRoom(q)
<1> DEFINE r == RoomOfUser(Owner(s))
<1>0. TypeOK
  BY RegInvParts
<1>1. FromPlayer(s)
  BY DEF ClientEvent, GameReady, RoundMicReady, RoundMicError, RoundSubmit, GameRematch, RoomLeave
<1>2. /\ lookup' = lookup
      /\ \E rm, u, us, ss : \/ Put(r, rm) \/ Keep(r, rm, us, ss) \/ CleanupRoom(r, rm, us, ss)
                            \/ HandleForfeit(r, rm, u, us, ss)
  <2>1. CASE GameReady(s) \/ RoundMicReady(s) \/ (\E db \in Decibels : RoundSubmit(s, db)) \/ GameRematch(s)
    BY <2>1 DEF GameReady, RoundMicReady, RoundSubmit, GameRematch, Update
  <2>2. CASE RoundMicError(s)
    BY <2>2 DEF RoundMicError, MicFailure
  <2>3. CASE RoomLeave(s)
    <3>1. ASSUME NEW rm, NEW opp, NEW host, NEW u, NEW q, LeftBehind(r, rm, opp, host, u, q)
          PROVE  \E x, us, ss : Keep(r, x, us, ss) \/ CleanupRoom(r, x, us, ss)
      BY <3>1 DEF LeftBehind
    <3>2. /\ lookup' = lookup
          /\ \/ \E rm, u, us, ss : CleanupRoom(r, rm, us, ss) \/ HandleForfeit(r, rm, u, us, ss)
             \/ \E rm, opp, host, u, q : LeftBehind(r, rm, opp, host, u, q)
      BY <2>3 DEF RoomLeave
    <3> QED
      BY <3>1, <3>2
  <2> QED
    BY <2>1, <2>2, <2>3 DEF ClientEvent
<1>3. r \in Rooms /\ Open(r)
  BY <1>1, SenderRegistered
<1>4. OnlyRoom(r)
  BY <1>0, <1>2, <1>3, WritesOne
<1> QED
  BY <1>2, <1>3, <1>4 DEF InOpenRoom

LEMMA CallbackRooms ==
  ASSUME RegInv, TimersDieWithRoom, NEW r \in Rooms, TimerCallback(r)
  PROVE  ProcessCrash \/ InOpenRoom(r)
<1>0. TypeOK
  BY RegInvParts
<1>1. ProcessCrash \/
      /\ lookup' = lookup
      /\ \E rm, u, us, ss : \/ Put(r, rm) \/ Keep(r, rm, us, ss) \/ CleanupRoom(r, rm, us, ss)
                            \/ HandleForfeit(r, rm, u, us, ss)
      /\ \/ \E h \in RoomHandles : \E t \in {Timer(k) : k \in {"prepare", "round", "finish", "next", "ttl"}}
                                            \cup {Tick(n) : n \in 0..CountdownTicks} :
              Expired(room[r], h, t) # {}
         \/ \E u \in Users : Expired(room[r], u, Grace(u)) # {}
  <2>0. /\ "countdown" \in RoomHandles /\ "prepare" \in RoomHandles /\ "round" \in RoomHandles
        /\ "post" \in RoomHandles /\ "ttl" \in RoomHandles
        /\ 0 \in 0..CountdownTicks /\ 1..CountdownTicks \subseteq 0..CountdownTicks
    BY TicksAssumption DEF RoomHandles, MatchHandles
  <2>1. CASE CountdownTick(r)
    BY <2>0, <2>1 DEF CountdownTick, Update
  <2>2. CASE CountdownEnd(r)
    BY <2>0, <2>2 DEF CountdownEnd, Update
  <2>3. CASE PrepareTimeout(r)
    BY <2>0, <2>3 DEF PrepareTimeout
  <2>4. CASE RoundTimeout(r)
    BY <2>0, <2>4 DEF RoundTimeout, Update
  <2>5. CASE FinishTimeout(r) \/ NextRoundTimeout(r)
    BY <2>0, <2>5 DEF FinishTimeout, NextRoundTimeout, Update
  <2>6. CASE TTLTimeout(r)
    BY <2>0, <2>6 DEF TTLTimeout
  <2>7. ASSUME NEW u \in Users, ForfeitTimeout(r, u)
        PROVE  /\ lookup' = lookup /\ Expired(room[r], u, Grace(u)) # {}
               /\ \E rm, v, us, ss : HandleForfeit(r, rm, v, us, ss)
    BY <2>7 DEF ForfeitTimeout
  <2> QED
    BY <2>1, <2>2, <2>3, <2>4, <2>5, <2>6, <2>7 DEF TimerCallback
<1>2. CASE ~ProcessCrash
  <2>1. Open(r)
    <3>1. ASSUME NEW h \in RoomHandles,
                 NEW t \in {Timer(k) : k \in {"prepare", "round", "finish", "next", "ttl"}}
                           \cup {Tick(n) : n \in 0..CountdownTicks},
                 Expired(room[r], h, t) # {}
          PROVE  Open(r)
      BY <3>1, PhaseCallback
    <3>2. ASSUME NEW u \in Users, Expired(room[r], u, Grace(u)) # {} PROVE Open(r)
      BY <3>2, CallbackOpen, HandleTimers
    <3> QED
      BY <1>1, <1>2, <3>1, <3>2
  <2>2. OnlyRoom(r)
    BY <1>0, <1>1, <1>2, WritesOne
  <2> QED
    BY <1>1, <1>2, <2>1, <2>2 DEF InOpenRoom
<1> QED
  BY <1>2

LEMMA StepRooms ==
  ASSUME RegInv, TimersDieWithRoom, [Next]_vars
  PROVE  \/ Elsewhere \/ ProcessCrash
         \/ \E q \in Rooms : InOpenRoom(q)
         \/ \E c \in lookup : RoomJoined(c) \/ \E q \in Rooms : RoomCreated(c, q)
<1>1. UNCHANGED vars => Elsewhere
  BY DEF vars, Elsewhere
<1>2. ASSUME NEW c \in lookup, ProfileMissing(c) PROVE Elsewhere
  BY <1>2 DEF ProfileMissing, Elsewhere
<1> QED
  BY <1>1, <1>2, ConnectionRooms, EventRooms, CallbackRooms DEF Next

-----------------------------------------------------------------------------
(* A player enters. *)
LEMMA EnteredProgress ==
  ASSUME NEW old \in GameRoomType, Expecting(old), NEW new, Entered(old, new)
  PROVE  new.store = old.store /\ Orderly(new) /\ Move(old, new)
<1>1. PICK u \in Users, s \in Sockets : new = Joined(old, u, s)
  BY DEF Entered
<1> DEFINE y == SetPlayer(old, u, Player(s, FALSE))
<1>2. y \in GameRoomType
  BY <1>1, PlayerType, SetPlayerType
<1>3. y.store = old.store /\ SameResult(old, y) /\ y.handle["post"] = old.handle["post"]
  <2> DEFINE f == Forget(old, u)
  <2>1. f \in GameRoomType /\ f.store = old.store /\ SameResult(old, f) /\ f.handle["post"] = old.handle["post"]
    BY ForgetType, ArmFields, HandleTimers DEF Forget, RoomHandles, MatchHandles
  <2>2. \E p : y = [f EXCEPT !.players = p, !.info[u] = Player(s, FALSE)]
    BY DEF SetPlayer
  <2> HIDE DEF y, f
  <2> QED
    BY <2>1, <2>2 DEF GameRoomType, SameResult
<1>4. /\ new.store = y.store /\ new.phase = "ready" /\ SameResult(y, new) /\ new.handle = y.handle
  <2>1. new = [y EXCEPT !.phase = "ready"]
    BY <1>1 DEF Joined
  <2> HIDE DEF y
  <2> QED
    BY <1>2, <2>1 DEF GameRoomType, SameResult
<1> HIDE DEF y
<1>5. new.store = old.store /\ new.phase = "ready" /\ new.records = <<>> /\ new.handle["post"] = NoTimer
  BY <1>3, <1>4 DEF SameResult, Expecting
<1>6. Orderly(new)
  BY <1>5 DEF Orderly, PostInOrder, Lobby, InGame
<1> QED
  BY <1>5, <1>6 DEF Move, Lobby, Expecting

LEMMA CreatedOrderly ==
  ASSUME NEW u \in Users, NEW s \in Sockets
  PROVE  LET new == SetPlayer(EmptyRoom("open"), u, Player(s, TRUE)) IN
         /\ new \in GameRoomType /\ new.store = "open" /\ new.phase = "waiting" /\ new.records = <<>>
         /\ new.scores = ZeroScores /\ Orderly(new)
<1> DEFINE old == EmptyRoom("open")
           f == Forget(old, u)
           new == SetPlayer(old, u, Player(s, TRUE))
<1>1. /\ old \in GameRoomType /\ old.store = "open" /\ old.phase = "waiting" /\ old.records = <<>>
      /\ old.scores = ZeroScores /\ \A h \in Handles : old.handle[h] = NoTimer
  BY EmptyType DEF EmptyRoom
<1>2. new \in GameRoomType
  BY <1>1, PlayerType, SetPlayerType
<1> HIDE DEF old
<1>3. /\ f \in GameRoomType /\ f.store = old.store /\ f.phase = old.phase /\ SameResult(old, f)
      /\ \A h \in Handles : f.handle[h] = NoTimer
  <2>1. u \in Handles /\ f = Arm(old, u, NoTimer) /\ f \in GameRoomType
    BY <1>1, ForgetType, HandleTimers DEF Forget
  <2>2. /\ f.store = old.store /\ f.phase = old.phase /\ SameResult(old, f)
        /\ \A h \in Handles : f.handle[h] = IF h = u THEN NoTimer ELSE old.handle[h]
    BY <1>1, <2>1, ArmFields
  <2> QED
    BY <1>1, <2>1, <2>2
<1>4. new.store = f.store /\ new.phase = f.phase /\ SameResult(f, new) /\ new.handle = f.handle
  <2>1. \E p : new = [f EXCEPT !.players = p, !.info[u] = Player(s, TRUE)]
    BY DEF SetPlayer
  <2> HIDE DEF new, f
  <2> QED
    BY <1>3, <2>1 DEF GameRoomType, SameResult
<1> HIDE DEF new, f
<1>5. /\ new.store = "open" /\ new.phase = "waiting" /\ new.records = <<>> /\ new.scores = ZeroScores
      /\ new.handle["countdown"] = NoTimer /\ new.handle["post"] = NoTimer
  BY <1>1, <1>3, <1>4, HandleTimers DEF SameResult
<1>6. Orderly(new)
  BY <1>5 DEF Orderly, PostInOrder, InGame
<1> QED
  BY <1>2, <1>5, <1>6 DEF new, old

-----------------------------------------------------------------------------
(* The invariant: an open room is orderly, and a room somebody is about to join waits for them. *)
Awaited(c) == c.target # NoRoom /\ room[c.target].store = "open" => Expecting(room[c.target])
DuelInv ==
  /\ \A r \in Rooms : room[r].store = "open" => Orderly(room[r])
  /\ \A c \in lookup : Awaited(c)

(* What a step makes of a room that is open. *)
Played(r) ==
  \/ room'[r] = room[r] \/ room'[r].store = "gone"
  \/ room'[r].store = "open" /\ Orderly(room'[r]) /\ Move(room[r], room'[r])

LEMMA CollectedStore ==
  ASSUME NEW rm \in GameRoomType
  PROVE  Collected(rm).store = rm.store /\ (rm.store # "gone" => Collected(rm) = rm)
BY DEF Collected, EmptyRoom

(* With two users, the one in a room waits for the other, whose only lookup it is. *)
LEMMA OneGuest ==
  ASSUME NEW a, NEW b, Users = {a, b}, RegInv, OneLookupEach, NEW c \in lookup, NEW d \in lookup,
         c.target = d.target, c.target \in Rooms, room[c.target].store = "open",
         Len(room[c.target].players) = 1
  PROVE  c = d
<1> DEFINE rm == room[c.target]
<1>1. Owner(c.sock) \notin Members(rm) /\ Owner(d.sock) \notin Members(rm)
  BY Outsider
<1>2. Owner(c.sock) \in {a, b} /\ Owner(d.sock) \in {a, b} /\ Members(rm) \subseteq {a, b} /\ rm \in GameRoomType
  BY RegInvParts, MembersAreUsers
<1>3. Members(rm) # {}
  <2>1. 1 \in DOMAIN rm.players
    BY <1>2 DEF GameRoomType
  <2> QED
    BY <2>1 DEF Members
<1>4. Owner(c.sock) = Owner(d.sock)
  BY <1>1, <1>2, <1>3
<1> QED
  BY <1>4 DEF OneLookupEach

LEMMA JoinAwaits ==
  ASSUME RegInv, DuelInv, NEW r \in Rooms, NEW s \in Sockets, RoomJoin(s, r)
  PROVE  /\ room'[r].store = "open" /\ Orderly(room'[r]) /\ Expecting(room'[r]) /\ Move(room[r], room'[r])
         /\ \A c \in lookup' : c \in lookup \/ c.target = r
<1> DEFINE old == room[r]
           new == JoinBegun(old)
<1>1. /\ old \in GameRoomType /\ old.store = "open" /\ Orderly(old) /\ old.players # <<>>
      /\ old.phase \notin InGame /\ Len(old.players) < 2
  BY RegInvParts DEF RoomJoin, Open, CanJoin, DuelInv, RegInv, MatchInv, Sound, Peopled
<1>2. /\ JoinStarted(old, new) /\ new \in GameRoomType
      /\ room'[r] = Collected(new)
  BY <1>1, CancelType, ResetGameDataType, RegInvParts DEF JoinStarted, RoomJoin, Put, TypeOK, JoinBegun
<1>3. /\ Progress(old, new) /\ new.store = "open" /\ new.phase \notin Over /\ new.phase \notin InGame
      /\ new.players = old.players
  BY <1>1, <1>2, JoinStartedProgress
<1> HIDE DEF new
<1>4. room'[r] = new
  BY <1>2, <1>3, CollectedStore
<1>5. Orderly(new) /\ Move(old, new) /\ new.phase \in Lobby
  BY <1>2, <1>3, PhaseKinds DEF Progress
<1>6. Len(new.players) = 1
  <2>1. Len(old.players) \in Nat /\ Len(old.players) # 0
    BY <1>1 DEF GameRoomType
  <2>2. \A n \in Nat : n # 0 /\ n < 2 => n = 1
    OBVIOUS
  <2> QED
    BY <1>1, <1>3, <2>1, <2>2
<1>7. Expecting(new)
  BY <1>3, <1>5, <1>6 DEF Expecting, Orderly, PostInOrder, Lobby
<1> QED
  BY <1>3, <1>4, <1>5, <1>7 DEF RoomJoin, StartLookup

(* The steps of a room that is open, and of one that is not. *)
LEMMA OpenPlayed ==
  ASSUME RegInv, DuelInv, TimersKeptTrack, [Next]_vars, NEW r \in Rooms, room[r].store = "open"
  PROVE  /\ Played(r)
         /\ Expecting(room[r]) /\ room'[r].store = "open" =>
              Expecting(room'[r]) \/ \E c \in lookup : c.target = r /\ RoomJoined(c)
<1> DEFINE old == room[r]
           Goal == /\ Played(r)
                   /\ Expecting(room[r]) /\ room'[r].store = "open" =>
                        Expecting(room'[r]) \/ \E c \in lookup : c.target = r /\ RoomJoined(c)
<1>1. /\ old \in GameRoomType /\ Sound(old) /\ Whole(old) /\ Orderly(old) /\ Attended(old)
      /\ NothingLost(old) /\ TypeOK
  BY RegInvParts DEF DuelInv, TimersKeptTrack, RegInv, MatchInv, Registered
<1>2. CASE room'[r] = room[r]
  BY <1>2 DEF Played
<1>3. ASSUME NEW new, Handled(old, new), room'[r] = Collected(new) PROVE Goal
  <2>1. Progress(old, new) /\ new \in GameRoomType
    BY <1>1, <1>3, HandledProgress, ChangeSound DEF Change, Sound, Whole
  <2>2. room'[r].store = new.store /\ (new.store # "gone" => room'[r] = new)
    BY <1>3, <2>1, CollectedStore
  <2> QED
    BY <2>1, <2>2 DEF Progress, Played
<1>4. ASSUME NEW new, Entered(old, new), room'[r] = Collected(new), NEW c \in lookup, RoomJoined(c) PROVE Goal
  <2>1. c.target \in Rooms
    BY <1>1, <1>4 DEF RoomJoined, TypeOK, Lookups
  <2>2. CASE c.target # r
    <3>1. OnlyRoom(c.target)
      BY <1>1, <1>4, <2>1, WritesOne DEF RoomJoined
    <3> QED
      BY <1>2, <2>2, <3>1 DEF OnlyRoom
  <2>3. CASE c.target = r
    <3>1. Expecting(old)
      BY <2>1, <2>3, RoomsAssumption DEF DuelInv, Awaited
    <3>2. new.store = old.store /\ Orderly(new) /\ Move(old, new) /\ new \in GameRoomType
      BY <1>1, <1>4, <3>1, EnteredProgress, ChangeSound DEF Change, Sound, Whole
    <3>3. room'[r] = new
      BY <1>4, <3>2, CollectedStore
    <3> QED
      BY <1>4, <2>3, <3>2, <3>3 DEF Played
  <2> QED
    BY <2>2, <2>3
<1>5. CASE room'[r] = EmptyRoom("gone")
  BY <1>5 DEF Played, EmptyRoom
<1> HIDE DEF Goal
<1>6. Goal
  <2>1. Changed(r)
    BY <1>1, StepChanges
  <2> HIDE DEF old
  <2>2. \/ room'[r] = room[r] \/ room'[r] = EmptyRoom("gone")
        \/ \E new : Handled(old, new) /\ room'[r] = Collected(new)
        \/ \E new : /\ Entered(old, new) /\ room'[r] = Collected(new)
                     /\ \E c \in lookup : RoomJoined(c)
    BY <2>1 DEF Changed, old
  <2>3. CASE room'[r] = room[r]
    BY <1>2, <2>3 DEF Goal
  <2>4. CASE room'[r] = EmptyRoom("gone")
    BY <1>5, <2>4 DEF Goal
  <2> QED
    BY <1>3, <1>4, <2>2, <2>3, <2>4
<1> QED
  BY <1>6 DEF Goal

Opened(r) ==
  /\ room[r].store = "free"
  /\ room'[r].store = "open" /\ room'[r].phase = "waiting"
  /\ room'[r].records = <<>> /\ room'[r].scores = ZeroScores /\ Orderly(room'[r])

LEMMA ClosedPlayed ==
  ASSUME RegInv, TimersDieWithRoom, [Next]_vars, NEW r \in Rooms, room[r].store # "open"
  PROVE  \/ room'[r].store = room[r].store
         \/ Opened(r) /\ \E c \in lookup : RoomCreated(c, r)
<1>1. TypeOK /\ room[r] \in GameRoomType /\ room[r].store \in {"free", "gone"}
  BY RegInvParts DEF GameRoomType
<1>2. CASE Elsewhere
  BY <1>2 DEF Elsewhere
<1>3. CASE ProcessCrash
  BY <1>1, <1>3 DEF ProcessCrash, EmptyRoom
<1>4. ASSUME NEW q \in Rooms, InOpenRoom(q) PROVE room'[r] = room[r]
  BY <1>4 DEF InOpenRoom, OnlyRoom, Open
<1>5. ASSUME NEW c \in lookup, RoomJoined(c) PROVE room'[r].store = room[r].store
  <2> DEFINE u == Owner(c.sock)
             q == c.target
             y == SetPlayer(room[q], u, Player(c.sock, FALSE))
             new == Joined(room[q], u, c.sock)
  <2>1. q \in Rooms /\ u \in Users /\ c.sock \in Sockets /\ Put(q, new) /\ q # NoRoom
    BY <1>1, <1>5, OwnerType DEF RoomJoined, TypeOK, Lookups
  <2>2. room[q] \in GameRoomType /\ room[q].store # "free"
    BY <2>1, RegInvParts DEF Indexed, NamedRoomsGivenOut
  <2>3. y \in GameRoomType /\ y.store = room[q].store
    BY <2>1, <2>2, PlayerType, SetPlayerType, SetPlayerMembers
  <2>4. new \in GameRoomType /\ new = [y EXCEPT !.phase = "ready"]
    BY <2>1, <2>2, JoinedType DEF Joined
  <2> HIDE DEF y, new
  <2>5. new.store = room[q].store
    BY <2>3, <2>4 DEF GameRoomType
  <2>6. OnlyRoom(q)
    BY <1>1, <2>1, WritesOne
  <2>7. room'[q] = Collected(new)
    BY <1>1, <2>1 DEF Put, TypeOK
  <2> QED
    BY <2>4, <2>5, <2>6, <2>7, CollectedStore DEF OnlyRoom
<1>6. ASSUME NEW c \in lookup, NEW q \in Rooms, RoomCreated(c, q)
      PROVE  room'[r] = room[r] \/ (q = r /\ Opened(r))
  <2> DEFINE u == Owner(c.sock)
             new == SetPlayer(EmptyRoom("open"), u, Player(c.sock, TRUE))
  <2>1. u \in Users /\ c.sock \in Sockets /\ Put(q, new) /\ room[q].store = "free"
    BY <1>1, <1>6, OwnerType DEF RoomCreated, TypeOK, Lookups
  <2>2. /\ new \in GameRoomType /\ new.store = "open" /\ new.phase = "waiting" /\ new.records = <<>>
        /\ new.scores = ZeroScores /\ Orderly(new)
    BY <2>1, CreatedOrderly
  <2> HIDE DEF new
  <2>3. OnlyRoom(q) /\ room'[q] = Collected(new)
    BY <1>1, <2>1, WritesOne DEF Put, TypeOK
  <2>4. room'[q] = new
    BY <2>2, <2>3, CollectedStore
  <2> QED
    BY <2>1, <2>2, <2>3, <2>4 DEF OnlyRoom, Opened
<1> QED
  BY <1>2, <1>3, <1>4, <1>5, <1>6, StepRooms

LEMMA DuelInvKept ==
  ASSUME NEW a, NEW b, Users = {a, b}, RegInv, OneLookupEach, TimersKeptTrack, DuelInv, [Next]_vars
  PROVE  DuelInv'
<1>0. TypeOK /\ TimersDieWithRoom
  BY RegInvParts DEF TimersKeptTrack, TimersDieWithRoom
<1>1. ASSUME NEW r \in Rooms, room'[r].store = "open" PROVE Orderly(room'[r])
  <2>1. CASE room[r].store = "open"
    BY <1>1, <2>1, OpenPlayed DEF Played, DuelInv
  <2>2. CASE room[r].store # "open"
    BY <1>0, <1>1, <2>2, ClosedPlayed DEF Opened
  <2> QED
    BY <2>1, <2>2
<1>2. ASSUME NEW c \in lookup', c.target # NoRoom, room'[c.target].store = "open"
      PROVE  Expecting(room'[c.target])
  <2> DEFINE r == c.target
  <2>1. CASE c \in lookup
    <3>1. r \in Rooms /\ room[r].store # "free"
      BY <1>0, <1>2, <2>1, RegInvParts DEF TypeOK, Lookups, Indexed, NamedRoomsGivenOut
    <3>2. room[r].store = "open"
      BY <1>0, <1>2, <3>1, ClosedPlayed DEF Opened
    <3>3. Expecting(room[r])
      BY <1>2, <2>1, <3>2 DEF DuelInv, Awaited
    <3>4. ASSUME NEW d \in lookup, d.target = r, RoomJoined(d) PROVE FALSE
      <4>1. c # d
        BY <1>2, <3>4 DEF RoomJoined
      <4> QED
        BY <2>1, <3>1, <3>2, <3>3, <3>4, <4>1, OneGuest DEF Expecting
    <3> QED
      BY <1>2, <3>1, <3>2, <3>3, <3>4, OpenPlayed
  <2>2. CASE c \notin lookup
    <3>1. PICK q \in Rooms, s \in Sockets : RoomJoin(s, q)
      BY <1>0, <1>2, <2>2, StepRooms DEF Elsewhere, ProcessCrash, InOpenRoom, RoomJoined, RoomCreated
    <3> QED
      BY <1>2, <2>2, <3>1, JoinAwaits
  <2> QED
    BY <2>1, <2>2
<1> QED
  BY <1>1, <1>2 DEF DuelInv, Awaited

LEMMA DuelInvInit == ASSUME Init PROVE DuelInv
<1>1. lookup = {} /\ \A r \in Rooms : room[r] = EmptyRoom("free")
  BY DEF Init
<1>2. EmptyRoom("free").store = "free"
  BY DEF EmptyRoom
<1> QED
  BY <1>1, <1>2 DEF DuelInv

-----------------------------------------------------------------------------
(* What a room shows of its match, and what a move makes of it. *)
Shown(rm, stage) == [stage |-> stage, played |-> Len(rm.records), score |-> rm.scores]

LEMMA OpenDuel ==
  ASSUME NEW rm \in GameRoomType, rm.store = "open"
  PROVE  /\ rm.phase \in Lobby => AsDuel(rm) = Shown(rm, "lobby")
         /\ rm.phase \in InGame => AsDuel(rm) = Shown(rm, "match")
         /\ rm.phase \in Over => AsDuel(rm) = Shown(rm, "over")
<1>2. AsDuel(rm) = Shown(rm, Stage(rm))
  BY DEF AsDuel, Shown
<1>3. rm.phase \in Lobby => Stage(rm) = "lobby"
  BY DEF Stage, Lobby, InGame
<1>4. rm.phase \in InGame => Stage(rm) = "match"
  BY DEF Stage, InGame
<1>5. rm.phase \in Over => Stage(rm) = "over"
  BY DEF Stage, Over, InGame
<1> QED
  BY <1>2, <1>3, <1>4, <1>5

LEMMA ClosedDuel ==
  ASSUME NEW rm
  PROVE  /\ rm.store = "free" => AsDuel(rm) = Duel!Fresh("none")
         /\ rm.store = "gone" => AsDuel(rm) = Duel!Fresh("gone")
<1>1. ZeroScores = Duel!Zero
  BY DEF ZeroScores, Duel!Zero
<1> QED
  BY <1>1 DEF AsDuel, Duel!Fresh

LEMMA NoRecordsFresh ==
  ASSUME NEW rm, Whole(rm), rm.records = <<>>, NEW stage PROVE Shown(rm, stage) = Duel!Fresh(stage)
<1>1. \A u \in Users : Wins(rm, u) = {}
  BY DEF Wins
<1>2. \A u \in Users : rm.scores[u] = 0
  BY <1>1, FS_EmptySet DEF Whole, Counted
<1>3. rm.scores \in [Users -> Nat]
  BY DEF Whole, GameRoomType
<1>4. rm.scores = Duel!Zero
  BY <1>2, <1>3 DEF Duel!Zero
<1> QED
  BY <1>4 DEF Shown, Duel!Fresh

LEMMA SameShown ==
  ASSUME NEW old, NEW new, SameResult(old, new), NEW stage PROVE Shown(new, stage) = Shown(old, stage)
BY DEF SameResult, Shown

(* What the abstract match may become of d, its steps that keep the room. *)
DuelStep(d, e) ==
  \/ e = d
  \/ d = Duel!Fresh("lobby") /\ e = Duel!Fresh("match")
  \/ d.stage \in {"match", "lobby"} /\ e = [d EXCEPT !.stage = "over"]
  \/ d = Duel!Fresh("match") /\ e = Duel!Fresh("lobby")
  \/ d.stage = "over" /\ e = Duel!Fresh("lobby")
  \/ /\ d.stage = "match" /\ d.played < TotalRounds
     /\ \E winners \in {{}} \cup {{u} : u \in Users} :
          e = [d EXCEPT !.played = @ + 1, !.score = Duel!Score(@, winners)]

LEMMA DecidedDuel ==
  ASSUME NEW old, NEW new, SameResult(old, new), NEW stage \in {"match", "lobby"}
  PROVE  DuelStep(Shown(old, stage), Shown(new, "over"))
<1> DEFINE d == Shown(old, stage)
<1>1. d.stage = stage /\ [d EXCEPT !.stage = "over"] = Shown(old, "over")
  BY DEF Shown
<1>2. Shown(new, "over") = Shown(old, "over")
  BY SameShown
<1> HIDE DEF d
<1>3. d.stage \in {"match", "lobby"} /\ Shown(new, "over") = [d EXCEPT !.stage = "over"]
  BY <1>1, <1>2
<1>4. DuelStep(d, Shown(new, "over"))
  BY <1>3 DEF DuelStep
<1> QED
  BY <1>4 DEF d

LEMMA ScoredDuel ==
  ASSUME NEW m, NEW t, NEW d, d = [stage |-> "match", played |-> d.played, score |-> d.score]
  PROVE  [d EXCEPT !.played = m, !.score = t] = [stage |-> "match", played |-> m, score |-> t]
<1>1. [d EXCEPT !.played = m] = [stage |-> "match", played |-> m, score |-> d.score]
  BY "played" # "score", "played" # "stage", "score" # "stage"
<1>2. [[stage |-> "match", played |-> m, score |-> d.score] EXCEPT !.score = t]
        = [stage |-> "match", played |-> m, score |-> t]
  OBVIOUS
<1>3. [d EXCEPT !.played = m, !.score = t] = [[d EXCEPT !.played = m] EXCEPT !.score = t]
  OBVIOUS
<1> QED
  BY <1>1, <1>2, <1>3

LEMMA RoundDuel ==
  ASSUME NEW old, NEW new, RoundAdded(old, new)
  PROVE  DuelStep(Shown(old, "match"), Shown(new, "match"))
<1> DEFINE d == Shown(old, "match")
           e == Shown(new, "match")
<1>1. PICK w \in Users \cup {NoUser} :
        new.scores = [u \in Users |-> IF u = w THEN old.scores[u] + 1 ELSE old.scores[u]]
  BY DEF RoundAdded
<1> DEFINE winners == IF w \in Users THEN {w} ELSE {}
<1>2. winners \in {{}} \cup {{u} : u \in Users}
  OBVIOUS
<1>3. new.scores = Duel!Score(old.scores, winners)
  BY <1>1, UsersAssumption DEF Duel!Score
<1> HIDE DEF winners
<1>4. Len(old.records) < TotalRounds /\ Len(new.records) = Len(old.records) + 1
  BY DEF RoundAdded
<1>5. d.stage = "match" /\ d.played < TotalRounds
  BY <1>4 DEF Shown
<1>6. e = [d EXCEPT !.played = @ + 1, !.score = Duel!Score(@, winners)]
  <2>1. /\ d = [stage |-> "match", played |-> Len(old.records), score |-> old.scores]
        /\ e = [stage |-> "match", played |-> Len(old.records) + 1, score |-> Duel!Score(old.scores, winners)]
    BY <1>3, <1>4 DEF Shown
  <2> HIDE DEF d, e
  <2>2. d.played = Len(old.records) /\ d.score = old.scores
    BY <2>1
  <2> DEFINE m == Len(old.records) + 1
             t == Duel!Score(old.scores, winners)
  <2>3. [d EXCEPT !.played = @ + 1, !.score = Duel!Score(@, winners)] = [d EXCEPT !.played = m, !.score = t]
    BY <2>2
  <2> HIDE DEF m, t
  <2>0. d = [stage |-> "match", played |-> d.played, score |-> d.score]
    BY <2>1, <2>2
  <2>4. [d EXCEPT !.played = m, !.score = t] = [stage |-> "match", played |-> m, score |-> t]
    BY <2>0, ScoredDuel
  <2> QED
    BY <2>1, <2>3, <2>4 DEF m, t
<1> HIDE DEF d, e
<1>7. DuelStep(d, e)
  BY <1>2, <1>5, <1>6 DEF DuelStep
<1> QED
  BY <1>7 DEF d, e

LEMMA ClearedDuel ==
  ASSUME NEW old, NEW stage \in {"lobby", "match", "over"}, stage # "over" => Shown(old, stage) = Duel!Fresh(stage)
  PROVE  DuelStep(Shown(old, stage), Duel!Fresh("lobby"))
<1>1. Shown(old, "over").stage = "over"
  BY DEF Shown
<1> QED
  BY <1>1 DEF DuelStep

LEMMA MoveIsDuel ==
  ASSUME NEW old, NEW new, Whole(old), Whole(new), old.store = "open", new.store = "open",
         Orderly(old), Orderly(new), Move(old, new)
  PROVE  DuelStep(AsDuel(old), AsDuel(new))
<1> DEFINE d == AsDuel(old)
           e == AsDuel(new)
<1>1. old \in GameRoomType /\ new \in GameRoomType
  BY DEF Whole
<1>2. /\ old.phase \in Lobby => d = Shown(old, "lobby") /\ d = Duel!Fresh("lobby")
      /\ old.phase \in InGame => d = Shown(old, "match")
      /\ old.phase \in Over => d = Shown(old, "over")
  BY <1>1, OpenDuel, NoRecordsFresh DEF Orderly
<1>3. /\ new.phase \in Lobby => e = Shown(new, "lobby") /\ e = Duel!Fresh("lobby")
      /\ new.phase \in InGame => e = Shown(new, "match")
      /\ new.phase \in Over => e = Shown(new, "over")
  BY <1>1, OpenDuel, NoRecordsFresh DEF Orderly
<1> HIDE DEF d, e
<1>4. CASE SameResult(old, new) /\ old.phase \in Lobby /\ new.phase \in Lobby
  BY <1>2, <1>3, <1>4 DEF DuelStep, d, e
<1>5. CASE SameResult(old, new) /\ old.phase \in Lobby /\ new.phase \in InGame
  <2>1. new.records = <<>>
    BY <1>5 DEF Orderly, SameResult
  <2>2. e = Duel!Fresh("match") /\ d = Duel!Fresh("lobby")
    BY <1>2, <1>3, <1>5, <2>1, NoRecordsFresh
  <2> QED
    BY <2>2 DEF DuelStep, d, e
<1>6. CASE SameResult(old, new) /\ old.phase \in Lobby \cup InGame /\ new.phase \in Over
  <2>1. e = Shown(new, "over") /\ (d = Shown(old, "lobby") \/ d = Shown(old, "match"))
    BY <1>2, <1>3, <1>6
  <2>2. DuelStep(d, e)
    BY <1>6, <2>1, DecidedDuel
  <2> QED
    BY <2>2 DEF d, e
<1>7. CASE SameResult(old, new) /\ \/ old.phase \in InGame /\ new.phase \in InGame
                                   \/ old.phase \in Over /\ new.phase \in Over
  <2>1. e = d
    BY <1>2, <1>3, <1>7, SameShown
  <2> QED
    BY <2>1 DEF DuelStep, d, e
<1>8. CASE new.phase \in Lobby /\ (old.phase \in InGame => old.records = <<>>)
  <2>1. \E stage \in {"lobby", "match", "over"} :
          d = Shown(old, stage) /\ (stage # "over" => Shown(old, stage) = Duel!Fresh(stage))
    BY <1>1, <1>2, <1>8, PhaseKinds, NoRecordsFresh
  <2>2. DuelStep(d, e)
    BY <1>3, <1>8, <2>1, ClearedDuel
  <2> QED
    BY <2>2 DEF d, e
<1>9. CASE old.phase \in InGame /\ new.phase \in InGame /\ RoundAdded(old, new)
  <2>1. d = Shown(old, "match") /\ e = Shown(new, "match")
    BY <1>2, <1>3, <1>9
  <2>2. DuelStep(d, e)
    BY <1>9, <2>1, RoundDuel
  <2> QED
    BY <2>2 DEF d, e
<1> QED
  BY <1>4, <1>5, <1>6, <1>7, <1>8, <1>9 DEF Move

-----------------------------------------------------------------------------
(* Every step is one of DuelMatch, or changes nothing it shows. *)
View == [r \in Rooms |-> AsDuel(room[r])]
Shows(q, e) == AsDuel(room'[q]) = e

LEMMA ViewBecomes ==
  ASSUME NEW q \in Rooms, OnlyRoom(q), NEW e, Shows(q, e) PROVE Duel!Becomes(q, e)
<1>1. \A r \in Rooms : View[r] = AsDuel(room[r]) /\ View'[r] = IF r = q THEN e ELSE View[r]
  BY DEF View, OnlyRoom, Shows
<1>2. View' = [r \in Rooms |-> View'[r]] /\ View = [r \in Rooms |-> View[r]]
  BY DEF View
<1> HIDE DEF View
<1>3. View' = [View EXCEPT ![q] = e]
  BY <1>1, <1>2
<1> QED
  BY <1>3 DEF View, Duel!Becomes

LEMMA DuelStepIsNext ==
  ASSUME NEW q \in Rooms, OnlyRoom(q), NEW e, Shows(q, e), DuelStep(View[q], e)
  PROVE  Duel!Next \/ View' = View
<1> DEFINE d == View[q]
<1>1. d = AsDuel(room[q]) /\ Duel!Becomes(q, e)
  BY ViewBecomes DEF View
<1>2. CASE e = d
  <2>1. \A r \in Rooms : AsDuel(room'[r]) = AsDuel(room[r])
    BY <1>1, <1>2 DEF OnlyRoom, Shows
  <2> QED
    BY <2>1 DEF View
<1>3. CASE d = Duel!Fresh("lobby") /\ e = Duel!Fresh("match")
  <2>1. Duel!Start(q)
    BY <1>1, <1>3 DEF Duel!Start, View
  <2> QED
    BY <2>1 DEF Duel!Next
<1>4. CASE d.stage \in {"match", "lobby"} /\ e = [d EXCEPT !.stage = "over"]
  <2>1. Duel!Decide(q)
    BY <1>1, <1>4 DEF Duel!Decide, View
  <2> QED
    BY <2>1 DEF Duel!Next
<1>5. CASE d = Duel!Fresh("match") /\ e = Duel!Fresh("lobby")
  <2>1. Duel!CallOff(q)
    BY <1>1, <1>5 DEF Duel!CallOff, View
  <2> QED
    BY <2>1 DEF Duel!Next
<1>6. CASE d.stage = "over" /\ e = Duel!Fresh("lobby")
  <2>1. Duel!Rematch(q)
    BY <1>1, <1>6 DEF Duel!Rematch, View
  <2> QED
    BY <2>1 DEF Duel!Next
<1>7. CASE /\ d.stage = "match" /\ d.played < TotalRounds
           /\ \E winners \in {{}} \cup {{u} : u \in Users} :
                e = [d EXCEPT !.played = @ + 1, !.score = Duel!Score(@, winners)]
  <2>1. Duel!Round(q)
    BY <1>1, <1>7 DEF Duel!Round, View
  <2> QED
    BY <2>1 DEF Duel!Next
<1> HIDE DEF d
<1>8. DuelStep(d, e)
  BY DEF d
<1> QED
  BY <1>2, <1>3, <1>4, <1>5, <1>6, <1>7, <1>8 DEF DuelStep

LEMMA OpenStage ==
  ASSUME NEW rm \in GameRoomType, rm.store = "open" PROVE AsDuel(rm).stage \in {"lobby", "match", "over"}
BY OpenDuel, PhaseKinds DEF Shown

LEMMA PlayedIsDuel ==
  ASSUME NEW q \in Rooms, OnlyRoom(q), room[q].store = "open", Played(q), DuelInv,
         Whole(room[q]), Whole(room'[q])
  PROVE  Duel!Next \/ View' = View
<1>1. room[q] \in GameRoomType /\ View[q] = AsDuel(room[q])
  BY DEF Whole, View
<1>2. CASE room'[q] = room[q]
  <2>1. \A r \in Rooms : room'[r] = room[r]
    BY <1>2 DEF OnlyRoom
  <2> QED
    BY <2>1 DEF View
<1>3. CASE room'[q].store = "gone"
  <2>1. Shows(q, Duel!Fresh("gone"))
    BY <1>3, ClosedDuel DEF Shows
  <2>2. Duel!Becomes(q, Duel!Fresh("gone"))
    BY <2>1, ViewBecomes
  <2>3. View[q].stage # "none"
    BY <1>1, OpenStage
  <2>4. Duel!Close(q)
    BY <2>2, <2>3 DEF Duel!Close, View
  <2> QED
    BY <2>4 DEF Duel!Next
<1>4. CASE room'[q].store = "open" /\ Orderly(room'[q]) /\ Move(room[q], room'[q])
  <2>1. Orderly(room[q])
    BY DEF DuelInv
  <2>2. DuelStep(AsDuel(room[q]), AsDuel(room'[q]))
    BY <1>4, <2>1, MoveIsDuel
  <2> QED
    BY <1>1, <2>2, DuelStepIsNext DEF Shows
<1> QED
  BY <1>2, <1>3, <1>4 DEF Played

LEMMA ClosedIsDuel ==
  ASSUME NEW q \in Rooms, OnlyRoom(q), room[q].store # "open", Whole(room[q]), Whole(room'[q]),
         room'[q].store = room[q].store \/ Opened(q)
  PROVE  Duel!Next \/ View' = View
<1>1. room[q].store \in {"free", "gone"} /\ View[q] = AsDuel(room[q])
  BY DEF Whole, GameRoomType, View
<1>2. CASE room'[q].store = room[q].store
  <2>1. AsDuel(room'[q]) = AsDuel(room[q])
    BY <1>1, <1>2, ClosedDuel
  <2>2. \A r \in Rooms : AsDuel(room'[r]) = AsDuel(room[r])
    BY <2>1 DEF OnlyRoom
  <2> QED
    BY <2>2 DEF View
<1>3. CASE Opened(q)
  <2>1. View[q] = Duel!Fresh("none")
    BY <1>1, <1>3, ClosedDuel DEF Opened
  <2>2. Shows(q, Duel!Fresh("lobby"))
    <3> DEFINE new == room'[q]
    <3>1. new \in GameRoomType /\ new.store = "open" /\ new.phase \in Lobby /\ new.records = <<>>
      BY <1>3 DEF Opened, Whole, Lobby
    <3>2. AsDuel(new) = Shown(new, "lobby")
      BY <3>1, OpenDuel
    <3>3. Shown(new, "lobby") = Duel!Fresh("lobby")
      BY <3>1, NoRecordsFresh
    <3> QED
      BY <3>2, <3>3 DEF Shows
  <2>3. Duel!Becomes(q, Duel!Fresh("lobby"))
    BY <2>2, ViewBecomes
  <2>4. Duel!Open(q)
    BY <2>1, <2>3 DEF Duel!Open, View
  <2> QED
    BY <2>4 DEF Duel!Next
<1> QED
  BY <1>2, <1>3

LEMMA CrashIsDuel ==
  ASSUME TypeOK, ProcessCrash PROVE Duel!Crash
<1>1. ASSUME NEW r \in Rooms
      PROVE  View'[r] = IF View[r].stage = "none" THEN View[r] ELSE Duel!Fresh("gone")
  <2>1. room'[r] = EmptyRoom(IF room[r].store = "free" THEN "free" ELSE "gone") /\ room[r] \in GameRoomType
    BY DEF ProcessCrash, TypeOK
  <2>2. View[r] = AsDuel(room[r]) /\ View'[r] = AsDuel(room'[r])
    BY DEF View
  <2>3. CASE room[r].store = "free"
    <3>1. room'[r].store = "free"
      BY <2>1, <2>3 DEF EmptyRoom
    <3>2. View[r] = Duel!Fresh("none") /\ View'[r] = Duel!Fresh("none")
      BY <2>2, <2>3, <3>1, ClosedDuel
    <3> QED
      BY <3>2 DEF Duel!Fresh
  <2>4. CASE room[r].store # "free"
    <3>1. room'[r].store = "gone" /\ room[r].store \in {"open", "gone"}
      BY <2>1, <2>4 DEF EmptyRoom, GameRoomType
    <3>2. View'[r] = Duel!Fresh("gone")
      BY <2>2, <3>1, ClosedDuel
    <3>3. View[r].stage # "none"
      BY <2>1, <2>2, <3>1, ClosedDuel, OpenStage DEF Duel!Fresh
    <3> QED
      BY <3>2, <3>3
  <2> QED
    BY <2>3, <2>4
<1>2. View' = [r \in Rooms |-> View'[r]]
  BY DEF View
<1> HIDE DEF View
<1>3. View' = [r \in Rooms |-> IF View[r].stage = "none" THEN View[r] ELSE Duel!Fresh("gone")]
  BY <1>1, <1>2
<1> QED
  BY <1>3 DEF View, Duel!Crash

LEMMA StepIsDuel ==
  ASSUME RegInv, (MatchInv)', DuelInv, TimersKeptTrack, [Next]_vars
  PROVE  Duel!Next \/ View' = View
<1>1. TypeOK /\ TimersDieWithRoom
  BY RegInvParts DEF TimersKeptTrack, TimersDieWithRoom
<1>2. \A r \in Rooms : Whole(room[r]) /\ Whole(room'[r])
  BY DEF RegInv, MatchInv, Sound
<1>3. ASSUME NEW q \in Rooms, OnlyRoom(q) PROVE Duel!Next \/ View' = View
  <2>1. CASE room[q].store = "open"
    BY <1>2, <1>3, <2>1, OpenPlayed, PlayedIsDuel
  <2>2. CASE room[q].store # "open"
    BY <1>1, <1>2, <1>3, <2>2, ClosedPlayed, ClosedIsDuel
  <2> QED
    BY <2>1, <2>2
<1>4. CASE Elsewhere
  BY <1>4 DEF Elsewhere, View
<1>5. CASE ProcessCrash
  BY <1>1, <1>5, CrashIsDuel DEF Duel!Next
<1>6. ASSUME NEW c \in lookup, RoomJoined(c) PROVE \E q \in Rooms : OnlyRoom(q)
  <2>1. c.target \in Rooms
    BY <1>1, <1>6 DEF RoomJoined, TypeOK, Lookups
  <2> QED
    BY <1>1, <1>6, <2>1, WritesOne DEF RoomJoined
<1>7. ASSUME NEW c \in lookup, NEW q \in Rooms, RoomCreated(c, q) PROVE OnlyRoom(q)
  BY <1>1, <1>7, WritesOne DEF RoomCreated
<1> QED
  BY <1>1, <1>3, <1>4, <1>5, <1>6, <1>7, StepRooms DEF InOpenRoom

LEMMA InitIsDuel == ASSUME Init PROVE Duel!Init
<1>1. \A r \in Rooms : AsDuel(room[r]) = Duel!Fresh("none")
  BY ClosedDuel DEF Init, EmptyRoom
<1> QED
  BY <1>1 DEF Duel!Init

(* Between two players every handler and timer callback is a step of DuelMatch *)
(* or changes nothing it shows: for any number of rooms, sockets and rounds,   *)
(* while a user has one lookup in flight and no handle of a running timer is   *)
(* overwritten.                                                                *)
THEOREM DuelsImplemented ==
  ASSUME NEW a, NEW b, Users = {a, b}
  PROVE  Spec /\ []OneLookupEach /\ []TimersKeptTrack => ImplementsDuelMatch
<1>1. TimersKeptTrack => TimersDieWithRoom
  BY DEF TimersKeptTrack, TimersDieWithRoom
<1>2. Init => DuelInv
  BY DuelInvInit
<1>3. RegInv /\ OneLookupEach /\ TimersKeptTrack /\ DuelInv /\ [Next]_vars => DuelInv'
  BY DuelInvKept
<1>4. Init => Duel!Init
  BY InitIsDuel
<1>5. RegInv /\ MatchInv' /\ DuelInv /\ TimersKeptTrack /\ [Next]_vars
        => [Duel!Next]_([r \in Rooms |-> AsDuel(room[r])])
  BY StepIsDuel DEF View
<1>6. TypeOK /\ Indexed /\ MatchInv /\ Registered => RegInv
  BY DEF RegInv
<1> QED
  BY <1>1, <1>2, <1>3, <1>4, <1>5, <1>6, TypeCorrect, IndexedHolds, MatchInvHolds, RegisteredHolds, PTL
     DEF Spec, ImplementsDuelMatch, Duel!Spec

(* Once the first official round of two players has started, no handler and no *)
(* timer callback takes the match back to waiting or ready: the late join that  *)
(* could is nobody's, as both of them are in the room.                          *)
THEOREM OfficialMatchesOfTwoAreDecided ==
  ASSUME NEW a, NEW b, Users = {a, b}
  PROVE  Spec /\ []OneLookupEach /\ []TimersDieWithRoom => OfficialMatchDecided
<1>1. RegInv /\ [Next]_vars =>
        \A r \in OpenRooms :
          /\ room[r].official /\ room[r].phase \in InGame
          /\ Cardinality(Members(room[r])) >= 2
          => \/ room'[r].phase \in InGame \cup {"game_over"}
             \/ room'[r].store = "gone"
  <2> SUFFICES ASSUME RegInv, [Next]_vars, NEW r \in OpenRooms, room[r].official,
                      room[r].phase \in InGame, Cardinality(Members(room[r])) >= 2
               PROVE  Decided(room'[r])
    BY DEF Decided
  <2>1. TypeOK /\ MatchInv /\ r \in Rooms /\ room[r].store = "open" /\ room[r] \in GameRoomType
    BY RegInvParts DEF OpenRooms, Open, RegInv
  <2>2. Members(room[r]) \subseteq {a, b}
    BY <2>1, MembersAreUsers
  <2>3. Members(room[r]) = {a, b}
    <3> DEFINE S == Members(room[r])
    <3>1. Cardinality({}) = 0 /\ Cardinality({a}) = 1 /\ Cardinality({b}) = 1
      BY FS_EmptySet, FS_Singleton
    <3>2. S = {} \/ S = {a} \/ S = {b} \/ S = {a, b}
      BY <2>2
    <3> HIDE DEF S
    <3>3. Cardinality(S) >= 2
      BY DEF S
    <3>4. S # {} /\ S # {a} /\ S # {b}
      BY <3>1, <3>3
    <3> QED
      BY <3>2, <3>4 DEF S
  <2>4. ASSUME NEW c \in lookup, RoomJoined(c) PROVE FALSE
    <3>1. Owner(c.sock) \notin Members(room[r])
      BY <2>1, Outsider
    <3>2. Owner(c.sock) \in Users
      BY RegInvParts
    <3> QED
      BY <2>3, <3>1, <3>2
  <2> QED
    BY <2>1, <2>4, DecidedStep
<1>2. TypeOK /\ Indexed /\ MatchInv /\ Registered => RegInv
  BY DEF RegInv
<1> QED
  BY <1>1, <1>2, TypeCorrect, IndexedHolds, MatchInvHolds, RegisteredHolds, PTL
     DEF Spec, OfficialMatchDecided
=============================================================================
