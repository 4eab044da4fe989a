------------------------------ MODULE MatchProofs ------------------------------
(***************************************************************************)
(* The match, with any number of users, rooms, lost timers and joins in    *)
(* flight.  The proof goes in three steps:                                 *)
(*                                                                         *)
(*   1. what a step of the gateway may do to one room, as relations between *)
(*      the room before and after (Change), one for each handler or timer  *)
(*      callback; users, sockets and the other rooms are forgotten;        *)
(*   2. an invariant of one room, Sound /\ Clocked, kept by each relation;  *)
(*   3. the properties, which follow from it.                              *)
(*                                                                         *)
(* Sound and Clocked are what the properties lack to be inductive.  A      *)
(* round is scored once because the round in play has no record yet; a     *)
(* submission stands because a room in play is official, so that a player  *)
(* who leaves it forfeits; a phase keeps its timer because, while players  *)
(* prepare, one of them is not ready, and so the timeout does something.   *)
(***************************************************************************)
EXTENDS GameGatewayProofs, FiniteSetTheorems

-----------------------------------------------------------------------------
(* What one step may do to one room. *)

(* handleForfeit against u, in room rm. *)
Forfeited(rm, u, new) ==
  \/ rm.phase = "game_over" /\ new = rm
  \/ rm.phase # "game_over" /\ OpponentOf(rm, u) = NoUser /\ new = Deleted(GameOver(rm))
  \/ rm.phase # "game_over" /\ OpponentOf(rm, u) # NoUser /\ new = RefreshTTL(GameOver(rm))

(* Connections. *)
Returned(old, new) ==
  \E u \in Members(old) :
    \/ old.phase \notin Reconnects /\ Len(old.players) = 1 /\ new = Deleted(RemovePlayer(old, u))
    \/ old.phase \notin Reconnects /\ Len(old.players) # 1 /\ new = RemovePlayer(old, u)
    \/ old.phase \in Reconnects /\ \E s \in Sockets : new = Rejoined(old, u, s)
Dropped(old, new) ==
  \E u \in Members(old) :
    \/ new = Deleted(Away(old, u))
    \/ new = RefreshTTL(Away(old, u))
    \/ new = Arm(Away(old, u), u, Grace(u))

(* Entering. *)
Created(old, new) ==
  /\ old.store = "free"
  /\ \E u \in Users, s \in Sockets : new = SetPlayer(EmptyRoom("open"), u, Player(s, TRUE))
JoinStarted(old, new) == old.phase \notin InGame /\ new = JoinBegun(old)
Entered(old, new)     == \E u \in Users, s \in Sockets : new = Joined(old, u, s)

(* Events. *)
Readied(old, new) ==
  \E u \in Users : LET rm == [old EXCEPT !.info[u].ready = TRUE] IN
    /\ old.phase = "ready"
    /\ new = rm \/ new = StartCountdown([rm EXCEPT !.phase = "countdown"])
MicReadied(old, new) ==
  \E u \in Users : LET rm == [old EXCEPT !.micReady = @ \cup {u}] IN
    /\ old.phase = "preparing"
    /\ \/ ~(Members(rm) \subseteq rm.micReady) /\ new = rm
       \/ new = DoStartRound(Cancel(rm, {"prepare"}))
MicFailed(old, new) ==
  LET rm == Cancel(old, {"prepare"}) IN
    /\ rm.phase = "preparing"
    /\ \/ rm.official /\ \E u \in Users : u \in Members(old) /\ Forfeited(rm, u, new)
       \/ ~rm.official /\ new = ResetGameData(rm)
Submitted(old, new) ==
  \E u \in Users, db \in Decibels : LET rm == [old EXCEPT !.info[u].sub = db] IN
    /\ CanSubmit(old, u)
    /\ new = rm \/ new = CloseRound(Cancel(rm, {"round"}))
Rematched(old, new) ==
  \E u \in Users : LET rm == [old EXCEPT !.info[u].rematch = TRUE, !.phase = "rematch_waiting"] IN
    /\ old.phase \in {"game_over", "rematch_waiting"}
    /\ new = rm \/ new = StartRematch(rm)

(* The opponent of a player who left stays, as host if that one was, or the room goes. *)
Stayed(rm, opp, wasHost, new) ==
  \/ new = Deleted(rm)
  \/ wasHost /\ new = [rm EXCEPT !.info[opp].host = TRUE]
  \/ ~wasHost /\ new = rm
Left(old, new) ==
  \E u \in Members(old) :
    LET active == old.phase \in InGame
        rm == RemovePlayer(IF active THEN Cancel(old, {"prepare"}) ELSE old, u)
        opp == OpponentOf(old, u)
    IN
    \/ active /\ rm.official /\ Forfeited(rm, u, new)
    \/ ~(active /\ rm.official) /\ rm.players = <<>> /\ new = Deleted(rm)
    \/ active /\ ~rm.official /\ rm.players # <<>> /\ Stayed(SetupCancelled(rm), opp, old.info[u].host, new)
    \/ ~active /\ rm.players # <<>> /\ Stayed(SlotReleased(rm), opp, old.info[u].host, new)

(* Timers. *)
Ticked(old, new) ==
  \E n \in 1..CountdownTicks : \E rm \in Expired(old, "countdown", Tick(n)) :
    new = Arm(rm, "countdown", Tick(n - 1))
Prepared(old, new) ==
  \E rm \in Expired(old, "countdown", Tick(0)) : new = PrepareRound(Forget(rm, "countdown"))
PrepareEnded(old, new) ==
  \E rm \in Expired(old, "prepare", Timer("prepare")) :
    \/ rm.phase # "preparing" /\ new = rm
    \/ rm.phase = "preparing" /\ NotReady(rm) = {} /\ new = Forget(rm, "prepare")
    \/ rm.phase = "preparing" /\ NotReady(rm) # {} /\ ~rm.official /\ new = ResetGameData(rm)
    \/ rm.phase = "preparing" /\ rm.official /\ \E u \in Users : u \in NotReady(rm) /\ Forfeited(rm, u, new)
    \/ rm.phase = "preparing" /\ new = Deleted(rm)
RoundEnded(old, new) ==
  \E rm \in Expired(old, "round", Timer("round")) :
    \/ rm.phase # "playing" /\ new = rm
    \/ rm.phase = "playing" /\ Len(rm.players) >= 2 /\ new = ResolveRound(rm)
Finished(old, new) ==
  \E rm \in Expired(old, "post", Timer("finish")) : new = FinishGame(Forget(rm, "post"))
NextStarted(old, new) ==
  \E rm \in Expired(old, "post", Timer("next")) : new = StartCountdown(Forget(rm, "post"))
GraceEnded(old, new) ==
  \E u \in Users : \E rm \in Expired(old, u, Grace(u)) : Forfeited(rm, u, new)
TTLEnded(old, new) == \E rm \in Expired(old, "ttl", Timer("ttl")) : new = Deleted(rm)

Handled(old, new) ==
  \/ Returned(old, new) \/ Dropped(old, new)
  \/ Created(old, new) \/ JoinStarted(old, new)
  \/ Readied(old, new) \/ MicReadied(old, new) \/ MicFailed(old, new) \/ Submitted(old, new)
  \/ Rematched(old, new) \/ Left(old, new)
  \/ Ticked(old, new) \/ Prepared(old, new) \/ PrepareEnded(old, new) \/ RoundEnded(old, new)
  \/ Finished(old, new) \/ NextStarted(old, new) \/ GraceEnded(old, new) \/ TTLEnded(old, new)
Change(old, new) == Handled(old, new) \/ Entered(old, new)

(* The room a step leaves is the old one, or what a change made of it, or emptied by a crash. *)
Changed(r) ==
  \/ room'[r] = room[r]
  \/ \E new : /\ \/ Handled(room[r], new)
                 \/ Entered(room[r], new) /\ \E c \in lookup : RoomJoined(c)
              /\ room'[r] = Collected(new)
  \/ room'[r] = EmptyRoom(IF room[r].store = "free" THEN "free" ELSE "gone")

LEMMA PutChanges ==
  ASSUME TypeOK, NEW r \in Rooms, NEW new, Handled(room[r], new), Put(r, new)
  PROVE  \A q \in Rooms : Changed(q)
<1>1. \A q \in Rooms : room'[q] = IF q = r THEN Collected(new) ELSE room[q]
  BY DEF Put, TypeOK
<1> HIDE DEF Handled
<1> QED
  BY <1>1 DEF Changed

LEMMA ForfeitIsForfeited ==
  ASSUME NEW r, NEW rm, NEW u, NEW us, NEW ss, HandleForfeit(r, rm, u, us, ss)
  PROVE  \E new : Forfeited(rm, u, new) /\ Put(r, new)
<1>1. CASE rm.phase = "game_over"
  BY <1>1 DEF HandleForfeit, Forfeited, Keep
<1>2. CASE rm.phase # "game_over" /\ OpponentOf(rm, u) = NoUser
  BY <1>2 DEF HandleForfeit, Forfeited, Keep, CleanupRoom
<1>3. CASE rm.phase # "game_over" /\ OpponentOf(rm, u) # NoUser
  BY <1>3 DEF HandleForfeit, Forfeited, Keep
<1> QED
  BY <1>1, <1>2, <1>3

-----------------------------------------------------------------------------
LEMMA TryReconnectChanges ==
  ASSUME TypeOK, NEW s \in Sockets, TryReconnect(s) PROVE \A q \in Rooms : Changed(q)
<1> DEFINE u == Owner(s)
           r == RoomOfUser(u)
<1>1. u \in Users /\ (r # NoRoom => r \in Rooms)
  BY OwnerType, RoomOfType, TypeOKSplit
<1>2. CASE ~InRoom(u, r)
  BY <1>2 DEF TryReconnect, Changed
<1>3. CASE InRoom(u, r)
  <2>1. r \in Rooms /\ u \in Members(room[r])
    BY <1>1, <1>3 DEF InRoom
  <2>2. \E new : Returned(room[r], new) /\ Put(r, new)
    <3>1. \/ room[r].phase \notin Reconnects /\ Len(room[r].players) = 1 /\ Put(r, Deleted(RemovePlayer(room[r], u)))
          \/ room[r].phase \notin Reconnects /\ Len(room[r].players) # 1 /\ Put(r, RemovePlayer(room[r], u))
          \/ room[r].phase \in Reconnects /\ Put(r, Rejoined(room[r], u, s))
      BY <1>3 DEF TryReconnect, CleanupRoom, Keep
    <3> QED
      BY <2>1, <3>1 DEF Returned
  <2> QED
    BY <2>1, <2>2, PutChanges DEF Handled
<1> QED
  BY <1>2, <1>3

LEMMA DisconnectChanges ==
  ASSUME TypeOK, NEW s \in Sockets, Disconnect(s) PROVE \A q \in Rooms : Changed(q)
<1> DEFINE u == Owner(s)
           r == RoomOfSocket(s)
<1>1. u \in Users /\ (r # NoRoom => r \in Rooms)
  BY OwnerType, RoomOfType, TypeOKSplit
<1>2. CASE ~InRoom(u, r)
  BY <1>2 DEF Disconnect, Changed
<1>3. CASE InRoom(u, r)
  <2>1. r \in Rooms /\ u \in Members(room[r])
    BY <1>1, <1>3 DEF InRoom
  <2>2. \E new : Dropped(room[r], new) /\ Put(r, new)
    <3>1. \/ Put(r, Deleted(Away(room[r], u)))
          \/ Put(r, RefreshTTL(Away(room[r], u)))
          \/ Put(r, Arm(Away(room[r], u), u, Grace(u)))
      BY <1>3 DEF Disconnect, CleanupRoom, Keep
    <3> QED
      BY <2>1, <3>1 DEF Dropped
  <2> QED
    BY <2>1, <2>2, PutChanges DEF Handled
<1> QED
  BY <1>2, <1>3

LEMMA JoinChanges ==
  ASSUME TypeOK, NEW s \in Sockets, NEW r \in Rooms, RoomJoin(s, r) PROVE \A q \in Rooms : Changed(q)
<1>1. JoinStarted(room[r], JoinBegun(room[r])) /\ Put(r, JoinBegun(room[r]))
  BY DEF RoomJoin, JoinStarted, CanJoin
<1> QED
  BY <1>1, PutChanges DEF Handled

LEMMA JoinedChanges ==
  ASSUME TypeOK, NEW c \in lookup, RoomJoined(c) PROVE \A q \in Rooms : Changed(q)
<1>1. c.sock \in Sockets /\ Owner(c.sock) \in Users /\ c.target \in Rooms
  BY OwnerType DEF TypeOK, Lookups, RoomJoined
<1>2. PICK new : Entered(room[c.target], new) /\ Put(c.target, new)
  BY <1>1 DEF RoomJoined, Entered
<1>3. \A q \in Rooms : room'[q] = IF q = c.target THEN Collected(new) ELSE room[q]
  BY <1>1, <1>2 DEF Put, TypeOK
<1> HIDE DEF Entered
<1> QED
  BY <1>1, <1>2, <1>3 DEF Changed

LEMMA CreatedChanges ==
  ASSUME TypeOK, NEW c \in lookup, NEW r \in Rooms, RoomCreated(c, r) PROVE \A q \in Rooms : Changed(q)
<1>1. c.sock \in Sockets /\ Owner(c.sock) \in Users
  BY OwnerType DEF TypeOK, Lookups
<1>2. \E new : Created(room[r], new) /\ Put(r, new)
  BY <1>1 DEF RoomCreated, Created
<1> QED
  BY <1>1, <1>2, PutChanges DEF Handled

(* Events of a player in a room. *)
LEMMA GameReadyChanges ==
  ASSUME TypeOK, NEW s \in Sockets, GameReady(s) PROVE \A q \in Rooms : Changed(q)
<1> DEFINE u == Owner(s)
           r == RoomOfUser(u)
           rm == [room[r] EXCEPT !.info[u].ready = TRUE]
<1>1. u \in Users /\ r \in Rooms /\ room[r] \in GameRoomType
  BY SenderType DEF GameReady
<1>2. room[r].phase = "ready"
  BY <1>1 DEF GameReady, GameRoomType
<1>3. Put(r, StartCountdown([rm EXCEPT !.phase = "countdown"])) \/ Put(r, rm)
  BY DEF GameReady, Update
<1>4. \E new : Readied(room[r], new) /\ Put(r, new)
  BY <1>1, <1>2, <1>3 DEF Readied
<1> QED
  BY <1>1, <1>4, PutChanges DEF Handled

LEMMA MicReadyChanges ==
  ASSUME TypeOK, NEW s \in Sockets, RoundMicReady(s) PROVE \A q \in Rooms : Changed(q)
<1> DEFINE u == Owner(s)
           r == RoomOfUser(u)
           rm == [room[r] EXCEPT !.micReady = @ \cup {u}]
<1>1. u \in Users /\ r \in Rooms /\ room[r] \in GameRoomType
  BY SenderType DEF RoundMicReady
<1>2. room[r].phase = "preparing"
  BY <1>1 DEF RoundMicReady, GameRoomType
<1>3. \/ Put(r, DoStartRound(Cancel(rm, {"prepare"})))
      \/ ~(Members(rm) \subseteq rm.micReady) /\ Put(r, rm)
  BY DEF RoundMicReady, Update
<1>4. \E new : MicReadied(room[r], new) /\ Put(r, new)
  BY <1>1, <1>2, <1>3 DEF MicReadied
<1> QED
  BY <1>1, <1>4, PutChanges DEF Handled

LEMMA MicErrorChanges ==
  ASSUME TypeOK, NEW s \in Sockets, RoundMicError(s) PROVE \A q \in Rooms : Changed(q)
<1> DEFINE u == Owner(s)
           r == RoomOfUser(u)
           rm == Cancel(room[r], {"prepare"})
<1>1. u \in Users /\ r \in Rooms /\ u \in Members(room[r])
  BY SenderType DEF RoundMicError
<1>2. /\ rm.phase = "preparing"
      /\ \/ rm.official /\ HandleForfeit(r, rm, u, {}, {})
         \/ ~rm.official /\ Put(r, ResetGameData(rm))
  BY DEF RoundMicError, MicFailure, Keep
<1>3. \E new : MicFailed(room[r], new) /\ Put(r, new)
  BY <1>1, <1>2, ForfeitIsForfeited DEF MicFailed
<1> QED
  BY <1>1, <1>3, PutChanges DEF Handled

LEMMA SubmitChanges ==
  ASSUME TypeOK, NEW s \in Sockets, NEW db \in Decibels, RoundSubmit(s, db)
  PROVE  \A q \in Rooms : Changed(q)
<1> DEFINE u == Owner(s)
           r == RoomOfUser(u)
           rm == [room[r] EXCEPT !.info[u].sub = db]
<1>1. u \in Users /\ r \in Rooms /\ CanSubmit(room[r], u)
  BY SenderType DEF RoundSubmit
<1>2. Put(r, CloseRound(Cancel(rm, {"round"}))) \/ Put(r, rm)
  BY DEF RoundSubmit, Update
<1>3. \E new : Submitted(room[r], new) /\ Put(r, new)
  BY <1>1, <1>2 DEF Submitted
<1> QED
  BY <1>1, <1>3, PutChanges DEF Handled

LEMMA RematchChanges ==
  ASSUME TypeOK, NEW s \in Sockets, GameRematch(s) PROVE \A q \in Rooms : Changed(q)
<1> DEFINE u == Owner(s)
           r == RoomOfUser(u)
           rm == [room[r] EXCEPT !.info[u].rematch = TRUE, !.phase = "rematch_waiting"]
<1>1. u \in Users /\ r \in Rooms /\ room[r].phase \in {"game_over", "rematch_waiting"}
  BY SenderType DEF GameRematch
<1>2. Put(r, StartRematch(rm)) \/ Put(r, rm)
  BY DEF GameRematch, Update
<1>3. \E new : Rematched(room[r], new) /\ Put(r, new)
  BY <1>1, <1>2 DEF Rematched
<1> QED
  BY <1>1, <1>3, PutChanges DEF Handled

LEMMA LeftBehindStays ==
  ASSUME NEW r, NEW rm, NEW opp, NEW host, NEW u, NEW q,
         LeftBehind(r, rm, opp, host, u, q)
  PROVE  \E new : Stayed(rm, opp, host, new) /\ Put(r, new)
<1>1. CASE opp = NoUser \/ ~rm.info[opp].connected
  BY <1>1 DEF LeftBehind, CleanupRoom, Keep, Stayed
<1>2. CASE ~(opp = NoUser \/ ~rm.info[opp].connected)
  BY <1>2 DEF LeftBehind, Keep, Stayed
<1> QED
  BY <1>1, <1>2

LEMMA LeaveChanges ==
  ASSUME TypeOK, NEW s \in Sockets, RoomLeave(s) PROVE \A q \in Rooms : Changed(q)
<1> DEFINE u == Owner(s)
           r == RoomOfUser(u)
           old == room[r]
           active == old.phase \in InGame
           rm == RemovePlayer(IF active THEN Cancel(old, {"prepare"}) ELSE old, u)
           opp == OpponentOf(old, u)
           host == old.info[u].host
           q == old.info[u].sock
<1>1. r \in Rooms /\ u \in Members(old)
  BY SenderType DEF RoomLeave
<1>2. \/ active /\ rm.official /\ HandleForfeit(r, rm, u, {u}, {q})
      \/ ~(active /\ rm.official) /\ rm.players = <<>> /\ CleanupRoom(r, rm, {u}, {q})
      \/ active /\ ~rm.official /\ rm.players # <<>> /\ LeftBehind(r, SetupCancelled(rm), opp, host, u, q)
      \/ ~active /\ rm.players # <<>> /\ LeftBehind(r, SlotReleased(rm), opp, host, u, q)
  BY DEF RoomLeave
<1> DEFINE Result(new) ==
             \/ active /\ rm.official /\ Forfeited(rm, u, new)
             \/ ~(active /\ rm.official) /\ rm.players = <<>> /\ new = Deleted(rm)
             \/ active /\ ~rm.official /\ rm.players # <<>> /\ Stayed(SetupCancelled(rm), opp, host, new)
             \/ ~active /\ rm.players # <<>> /\ Stayed(SlotReleased(rm), opp, host, new)
<1> HIDE DEF rm, opp, host, q
<1>3. \E new : Result(new) /\ Put(r, new)
  BY <1>2, ForfeitIsForfeited, LeftBehindStays DEF CleanupRoom, Keep
<1>4. \E new : Left(old, new) /\ Put(r, new)
  BY <1>1, <1>3 DEF Left, rm, opp, host
<1> QED
  BY <1>1, <1>4, PutChanges DEF Handled

(* Timer callbacks. *)
LEMMA TimerChanges ==
  ASSUME TypeOK, NEW r \in Rooms, TimerCallback(r) PROVE \A q \in Rooms : Changed(q)
<1> DEFINE Goal == \A q \in Rooms : Changed(q)
           old == room[r]
<1>1. ASSUME CountdownTick(r) \/ CountdownEnd(r) \/ FinishTimeout(r) \/ NextRoundTimeout(r) PROVE Goal
  <2>1. \E new : (Ticked(old, new) \/ Prepared(old, new) \/ Finished(old, new) \/ NextStarted(old, new)) /\ Put(r, new)
    BY <1>1 DEF CountdownTick, CountdownEnd, FinishTimeout, NextRoundTimeout, Update,
                Ticked, Prepared, Finished, NextStarted
  <2> QED
    BY <2>1, PutChanges DEF Handled
<1>2. ASSUME PrepareTimeout(r) PROVE Goal
  <2>1. PICK rm \in Expired(old, "prepare", Timer("prepare")) :
          \/ rm.phase # "preparing" /\ Put(r, rm)
          \/ rm.phase = "preparing" /\ NotReady(rm) = {} /\ Put(r, Forget(rm, "prepare"))
          \/ rm.phase = "preparing" /\ NotReady(rm) # {} /\ ~rm.official /\ Put(r, ResetGameData(rm))
          \/ rm.phase = "preparing" /\ rm.official /\ \E u \in Users : u \in NotReady(rm) /\ HandleForfeit(r, rm, u, {}, {})
          \/ rm.phase = "preparing" /\ Put(r, Deleted(rm))
    BY <1>2 DEF PrepareTimeout, Keep, CleanupRoom
  <2>2. \E new : PrepareEnded(old, new) /\ Put(r, new)
    BY <2>1, ForfeitIsForfeited DEF PrepareEnded
  <2> QED
    BY <2>2, PutChanges DEF Handled
<1>3. ASSUME RoundTimeout(r) PROVE Goal
  <2>1. PICK rm \in Expired(old, "round", Timer("round")) :
          \/ rm.phase # "playing" /\ Put(r, rm)
          \/ rm.phase = "playing" /\ Len(rm.players) >= 2 /\ Put(r, ResolveRound(rm))
          \/ ProcessCrash
    BY <1>3 DEF RoundTimeout, Update
  <2>2. CASE ProcessCrash
    BY <2>2 DEF ProcessCrash, Changed
  <2>3. CASE ~ProcessCrash
    <3>1. \E new : RoundEnded(old, new) /\ Put(r, new)
      BY <2>1, <2>3 DEF RoundEnded
    <3> QED
      BY <3>1, PutChanges DEF Handled
  <2> QED
    BY <2>2, <2>3
<1>4. ASSUME NEW u \in Users, ForfeitTimeout(r, u) PROVE Goal
  <2>1. \E new : GraceEnded(old, new) /\ Put(r, new)
    BY <1>4, ForfeitIsForfeited DEF ForfeitTimeout, GraceEnded
  <2> QED
    BY <2>1, PutChanges DEF Handled
<1>5. ASSUME TTLTimeout(r) PROVE Goal
  <2>1. \E new : TTLEnded(old, new) /\ Put(r, new)
    BY <1>5 DEF TTLTimeout, TTLEnded, CleanupRoom, Keep
  <2> QED
    BY <2>1, PutChanges DEF Handled
<1> QED
  BY <1>1, <1>2, <1>3, <1>4, <1>5 DEF TimerCallback

(* Whatever happens, happens to each room as one of the changes. *)
LEMMA StepChanges ==
  ASSUME TypeOK, [Next]_vars PROVE \A r \in Rooms : Changed(r)
<1> DEFINE Goal == \A r \in Rooms : Changed(r)
<1>0. ASSUME UNCHANGED room PROVE Goal
  BY <1>0 DEF Changed
<1>1. ASSUME UNCHANGED vars PROVE Goal
  BY <1>0, <1>1 DEF vars
<1>2. ASSUME NEW s \in Sockets,
             Connect(s) \/ TryReconnect(s) \/ Disconnect(s) \/ RoomCreate(s) \/ \E r \in Rooms : RoomJoin(s, r)
      PROVE  Goal
  BY <1>0, <1>2, TryReconnectChanges, DisconnectChanges, JoinChanges DEF Connect, RoomCreate
<1>3. ASSUME NEW s \in Sockets, ClientEvent(s) PROVE Goal
  BY <1>3, GameReadyChanges, MicReadyChanges, MicErrorChanges, SubmitChanges, RematchChanges, LeaveChanges
     DEF ClientEvent
<1>4. ASSUME NEW c \in lookup, RoomJoined(c) \/ ProfileMissing(c) \/ \E r \in Rooms : RoomCreated(c, r)
      PROVE  Goal
  BY <1>0, <1>4, JoinedChanges, CreatedChanges DEF ProfileMissing
<1>5. ASSUME NEW r \in Rooms, TimerCallback(r) PROVE Goal
  BY <1>5, TimerChanges
<1> HIDE DEF Goal
<1>6. Goal
  BY <1>1, <1>2, <1>3, <1>4, <1>5 DEF Next
<1> QED
  BY <1>6 DEF Goal

-----------------------------------------------------------------------------
Running == {"preparing", "playing"}

(* The rounds of a room: numbered upwards, scored once, and not before they ran. *)
Scored(rm) ==
  /\ \A i, j \in DOMAIN rm.records : i < j => rm.records[i].round < rm.records[j].round
  /\ \A i \in DOMAIN rm.records : rm.records[i].round \in 1..rm.round
  /\ rm.phase \in Running =>
       rm.round >= 1 /\ \A i \in DOMAIN rm.records : rm.records[i].round < rm.round

(* Its scores count the rounds won. *)
Wins(rm, u) == {i \in DOMAIN rm.records :
                  \A v \in Users \ {u} : rm.records[i].db[u] > rm.records[i].db[v]}
Counted(rm) == \A u \in Users : rm.scores[u] = Cardinality(Wins(rm, u))

(* Its players: each once, one host, and a round is played only in an official match. *)
Seated(rm) ==
  /\ IsInjective(rm.players)
  /\ \A u, v \in Users : rm.info[u].host /\ rm.info[v].host => u = v
  /\ rm.phase = "playing" => rm.official

Whole(rm) == rm \in GameRoomType /\ Scored(rm) /\ Counted(rm) /\ Seated(rm)

-----------------------------------------------------------------------------
(* Most helpers score nothing, prepare nothing and seat nobody. *)
Same(old, new) ==
  /\ new.round = old.round /\ new.records = old.records /\ new.scores = old.scores
  /\ new.players = old.players
  /\ \A u \in Users : new.info[u].host => old.info[u].host
  /\ new.phase \in Running => old.phase \in Running
  /\ new.phase = "playing" => old.phase = "playing" /\ (old.official => new.official)

LEMMA SameWhole ==
  ASSUME NEW old, NEW new \in GameRoomType, Whole(old), Same(old, new) PROVE Whole(new)
<1>1. Scored(new)
  BY DEF Whole, Scored, Same
<1>2. Counted(new)
  BY DEF Whole, Counted, Wins, Same
<1>3. Seated(new)
  BY DEF Whole, Seated, Same
<1> QED
  BY <1>1, <1>2, <1>3 DEF Whole

LEMMA NoRecordsWhole ==
  ASSUME NEW rm \in GameRoomType, rm.records = <<>>, rm.scores = ZeroScores,
         rm.phase \notin Running, IsInjective(rm.players),
         \A u, v \in Users : rm.info[u].host /\ rm.info[v].host => u = v
  PROVE  Whole(rm)
<1>1. Counted(rm)
  <2>1. \A u \in Users : Wins(rm, u) = {}
    BY DEF Wins
  <2> QED
    BY <2>1, FS_EmptySet DEF Counted, ZeroScores
<1> QED
  BY <1>1 DEF Whole, Scored, Seated, Running

LEMMA TimersWhole ==
  ASSUME NEW rm, Whole(rm)
  PROVE  /\ \A h \in Handles, t \in Timers \cup {NoTimer} : Whole(Arm(rm, h, t))
         /\ \A h \in Handles : Whole(Forget(rm, h))
         /\ \A hs : Whole(Cancel(rm, hs))
         /\ Whole(RefreshTTL(rm))
         /\ \A h \in Handles, t \in Timers : \A next \in Expired(rm, h, t) : Whole(next)
<1>1. ASSUME NEW x, Whole(x), NEW h \in Handles, NEW t \in Timers \cup {NoTimer} PROVE Whole(Arm(x, h, t))
  <2>1. Same(x, Arm(x, h, t))
    BY <1>1 DEF Whole, Same, Arm, GameRoomType
  <2> QED
    BY <1>1, <2>1, SameWhole, ArmType DEF Whole
<1>2. ASSUME NEW hs PROVE Whole(Cancel(rm, hs))
  <2>1. Same(rm, Cancel(rm, hs))
    BY DEF Whole, Same, Cancel, GameRoomType
  <2> QED
    BY <2>1, SameWhole, CancelType DEF Whole
<1>3. Whole(RefreshTTL(rm))
  BY <1>1, <1>2, TimersType, HandlesType DEF RefreshTTL
<1>4. ASSUME NEW h \in Handles, NEW t \in Timers, NEW next \in Expired(rm, h, t) PROVE Whole(next)
  <2>1. Same(rm, next)
    BY <1>4 DEF Whole, Same, Expired, GameRoomType
  <2> QED
    BY <1>4, <2>1, SameWhole, ExpiredType DEF Whole
<1> QED
  BY <1>1, <1>2, <1>3, <1>4 DEF Forget

LEMMA ResetsWhole ==
  ASSUME NEW rm, Whole(rm)
  PROVE  /\ Whole(ResetGameData(rm)) /\ Whole(StartRematch(rm))
         /\ Whole(SetupCancelled(rm)) /\ Whole(SlotReleased(rm))
<1>1. ASSUME NEW x, Whole(x), NEW ph \in Phases \ Running
      PROVE  Whole(ClearProgress(x, ph)) /\ Whole([ClearProgress(x, ph) EXCEPT !.official = FALSE])
  <2> DEFINE y == ClearProgress(x, ph)
             z == [y EXCEPT !.official = FALSE]
  <2>1. y \in GameRoomType
    BY <1>1, ClearProgressType DEF Whole
  <2>2. y.records = <<>> /\ y.scores = ZeroScores /\ y.phase = ph /\ y.players = x.players
    BY <1>1 DEF ClearProgress, GameRoomType, Whole
  <2>3. \A u \in Users : y.info[u].host = x.info[u].host
    <3>1. \A u \in Users : y.info[u] = FreshPlayer(x.info[u]) /\ x.info[u] \in PlayerInfo
      BY <1>1 DEF ClearProgress, GameRoomType, Whole
    <3>2. \A p \in PlayerInfo : FreshPlayer(p).host = p.host
      BY DEF FreshPlayer, PlayerInfo
    <3> QED
      BY <3>1, <3>2
  <2> HIDE DEF y
  <2>4. /\ z \in GameRoomType /\ z.records = <<>> /\ z.scores = ZeroScores /\ z.phase = ph
        /\ z.players = x.players /\ z.info = y.info
    BY <2>1, <2>2 DEF GameRoomType
  <2> HIDE DEF z
  <2>5. /\ IsInjective(x.players) /\ ph \notin Running
        /\ \A u, v \in Users : y.info[u].host /\ y.info[v].host => u = v
        /\ \A u, v \in Users : z.info[u].host /\ z.info[v].host => u = v
    BY <1>1, <2>3, <2>4 DEF Whole, Seated
  <2>6. Whole(y)
    BY <2>1, <2>2, <2>5, NoRecordsWhole
  <2>7. Whole(z)
    BY <2>4, <2>5, NoRecordsWhole
  <2> QED
    BY <2>6, <2>7 DEF y, z
<1>2. "ready" \in Phases \ Running /\ "waiting" \in Phases \ Running
  BY DEF Phases, Running
<1>3. ASSUME NEW x, Whole(x) PROVE Whole(ResetGameData(x))
  BY <1>1, <1>2, <1>3, TimersWhole DEF ResetGameData
<1>4. Whole(StartRematch(rm))
  BY <1>3, TimersWhole DEF StartRematch
<1>5. Whole(SetupCancelled(rm)) /\ Whole(SlotReleased(rm))
  BY <1>1, <1>2, TimersWhole DEF SetupCancelled, SlotReleased
<1> QED
  BY <1>3, <1>4, <1>5

(* A phase in which no round runs. *)
LEMMA PhaseWhole ==
  ASSUME NEW rm, Whole(rm), NEW ph \in Phases \ Running
  PROVE  Whole([rm EXCEPT !.phase = ph])
<1>1. Same(rm, [rm EXCEPT !.phase = ph]) /\ [rm EXCEPT !.phase = ph] \in GameRoomType
  BY DEF Whole, Same, GameRoomType, Running
<1> QED
  BY <1>1, SameWhole

LEMMA QuietPhases ==
  {"waiting", "ready", "countdown", "round_end", "game_over", "rematch_waiting"} \subseteq Phases \ Running
BY DEF Phases, Running

(* The next round takes a number no record has; *)
LEMMA PrepareRoundWhole == ASSUME NEW rm, Whole(rm) PROVE Whole(PrepareRound(rm))
<1> DEFINE new == PrepareRound(rm)
<1>1. new \in GameRoomType
  BY PrepareRoundType DEF Whole
<1>2. CASE rm.phase = "game_over"
  BY <1>2 DEF PrepareRound
<1>3. CASE rm.phase # "game_over"
  <2>1. /\ new.round = rm.round + 1 /\ new.records = rm.records /\ rm.round \in Nat
        /\ new.scores = rm.scores /\ new.players = rm.players /\ new.phase = "preparing"
    BY <1>3 DEF PrepareRound, Arm, Whole, GameRoomType
  <2>2. \A u \in Users : new.info[u].host = rm.info[u].host
    BY <1>3 DEF PrepareRound, Arm, Whole, GameRoomType, PlayerInfo
  <2>3. \A i \in DOMAIN rm.records : rm.records[i].round \in 1..rm.round
    BY DEF Whole, Scored
  <2>4. \A i \in DOMAIN rm.records : rm.records[i].round \in 1..(rm.round + 1) /\ rm.records[i].round < rm.round + 1
    BY <2>1, <2>3
  <2> HIDE DEF new
  <2>5. Scored(new)
    BY <2>1, <2>4 DEF Whole, Scored
  <2>6. Counted(new) /\ Seated(new)
    BY <2>1, <2>2 DEF Whole, Counted, Wins, Seated
  <2> QED
    BY <1>1, <2>5, <2>6 DEF Whole, new
<1> QED
  BY <1>2, <1>3

(* it is played only then, *)
LEMMA DoStartRoundWhole ==
  ASSUME NEW rm, Whole(rm), rm.phase \in Running PROVE Whole(DoStartRound(rm))
<1> DEFINE new == DoStartRound(rm)
<1>1. new \in GameRoomType
  BY DoStartRoundType DEF Whole
<1>2. /\ new.round = rm.round /\ new.records = rm.records /\ new.scores = rm.scores
      /\ new.players = rm.players /\ new.phase = "playing" /\ new.official /\ new.info = rm.info
  BY DEF DoStartRound, Arm, Whole, GameRoomType
<1> HIDE DEF new
<1>3. Scored(new) /\ Counted(new) /\ Seated(new)
  BY <1>2 DEF Whole, Scored, Counted, Wins, Seated, Running
<1> QED
  BY <1>1, <1>3 DEF Whole, new

(* and scored from then on, for the player whose peak is the higher. *)
LEMMA RoundWonByWinner ==
  ASSUME NEW rm, rm \in GameRoomType, IsInjective(rm.players), Len(rm.players) >= 2, NEW u \in Users
  PROVE  LET db == [v \in Users |-> IF v \in {rm.players[1], rm.players[2]} THEN PeakOf(rm, v) ELSE 0]
         IN  (\A v \in Users \ {u} : db[u] > db[v]) <=> u = RoundWinner(rm)
<1> DEFINE p == rm.players[1]
           q == rm.players[2]
           db == [v \in Users |-> IF v \in {p, q} THEN PeakOf(rm, v) ELSE 0]
<1>1. p \in Users /\ q \in Users /\ p # q
  <2>1. rm.players \in Seq(Users) /\ 1 \in DOMAIN rm.players /\ 2 \in DOMAIN rm.players
    BY DEF GameRoomType
  <2> QED
    BY <2>1 DEF IsInjective
<1>2. \A v \in Users : PeakOf(rm, v) \in Nat
  BY PeakOfType, DecibelsAssumption
<1> DEFINE x == PeakOf(rm, p)
           y == PeakOf(rm, q)
<1>3. RoundWinner(rm) = IF x > y THEN p ELSE IF y > x THEN q ELSE NoUser
  BY DEF RoundWinner
<1>4. /\ x \in Nat /\ y \in Nat /\ db[p] = x /\ db[q] = y
      /\ \A v \in Users \ {p, q} : db[v] = 0
  BY <1>1, <1>2
<1> DEFINE Agreed == (\A v \in Users \ {u} : db[u] > db[v]) <=> u = RoundWinner(rm)
<1> HIDE DEF p, q, x, y, db
<1>5. ASSUME u = p PROVE Agreed
  BY <1>1, <1>3, <1>4, <1>5, UsersAssumption
<1>6. ASSUME u = q PROVE Agreed
  BY <1>1, <1>3, <1>4, <1>6, UsersAssumption
<1>7. ASSUME u \notin {p, q} PROVE Agreed
  <2>1. db[u] = 0 /\ p \in Users \ {u} /\ ~(db[u] > db[p]) /\ u # RoundWinner(rm)
    BY <1>1, <1>3, <1>4, <1>7, UsersAssumption
  <2> QED
    BY <2>1
<1>8. Agreed
  BY <1>5, <1>6, <1>7
<1> QED
  BY <1>8 DEF db, p, q

LEMMA ScoreRoundWhole ==
  ASSUME NEW rm, Whole(rm), rm.phase \in Running, Len(rm.players) >= 2, NEW ph \in Phases \ Running
  PROVE  Whole([ScoreRound(rm) EXCEPT !.phase = ph])
<1> DEFINE sc == ScoreRound(rm)
           new == [sc EXCEPT !.phase = ph]
           db == [u \in Users |-> IF u \in {rm.players[1], rm.players[2]} THEN PeakOf(rm, u) ELSE 0]
           record == [round |-> rm.round, db |-> db]
           recs == Append(rm.records, record)
           n == Len(rm.records)
           winner == RoundWinner(rm)
<1>1. sc \in GameRoomType
  BY ScoreRoundType DEF Whole
<1>2. /\ sc.round = rm.round /\ sc.records = recs /\ sc.players = rm.players /\ sc.info = rm.info
      /\ \A u \in Users : sc.scores[u] = IF u = winner THEN rm.scores[u] + 1 ELSE rm.scores[u]
  <2> HIDE DEF db, winner
  <2> QED
    BY DEF ScoreRound, Whole, GameRoomType, db, winner
<1>3. \A u \in Users : (\A v \in Users \ {u} : db[u] > db[v]) <=> u = winner
  BY RoundWonByWinner DEF Whole, Seated
<1> HIDE DEF sc, db, winner
<1>4. /\ new \in GameRoomType /\ new.round = rm.round /\ new.records = recs /\ new.phase = ph
      /\ new.players = rm.players /\ new.info = rm.info /\ new.scores = sc.scores
  BY <1>1, <1>2 DEF GameRoomType
<1>5. /\ rm.records \in Seq(RoundRecord) /\ rm.round \in Nat /\ rm.round >= 1
      /\ \A i, j \in DOMAIN rm.records : i < j => rm.records[i].round < rm.records[j].round
      /\ \A i \in DOMAIN rm.records : rm.records[i].round \in 1..rm.round /\ rm.records[i].round < rm.round
  BY DEF Whole, Scored, GameRoomType
<1>6. /\ n \in Nat /\ DOMAIN rm.records = 1..n /\ DOMAIN recs = 1..(n + 1)
      /\ \A i \in 1..n : recs[i] = rm.records[i]
      /\ recs[n + 1] = record /\ record.round = rm.round /\ record.db = db
  BY <1>5
<1> HIDE DEF recs, n, record, new
<1>7. \A i \in 1..(n + 1) : i \in 1..n \/ i = n + 1
  BY <1>6
<1>8. \A i \in 1..(n + 1) : recs[i].round \in 1..rm.round
  BY <1>5, <1>6, <1>7
<1>9. ASSUME NEW i \in 1..(n + 1), NEW j \in 1..(n + 1), i < j PROVE recs[i].round < recs[j].round
  <2>1. i \in 1..n
    BY <1>6, <1>9
  <2>2. CASE j \in 1..n
    BY <1>5, <1>6, <1>9, <2>1, <2>2
  <2>3. CASE j = n + 1
    BY <1>5, <1>6, <2>1, <2>3
  <2> QED
    BY <1>7, <2>2, <2>3
<1>10. Scored(new)
  BY <1>4, <1>6, <1>8, <1>9 DEF Scored
<1>11. Counted(new)
  <2> SUFFICES ASSUME NEW u \in Users PROVE new.scores[u] = Cardinality(Wins(new, u))
    BY DEF Counted
  <2>1. Wins(rm, u) \subseteq 1..n /\ rm.scores[u] = Cardinality(Wins(rm, u)) /\ rm.scores[u] \in Nat
    BY <1>6 DEF Whole, Counted, Wins, GameRoomType
  <2>2. Wins(new, u) = IF u = winner THEN Wins(rm, u) \cup {n + 1} ELSE Wins(rm, u)
    <3>1. Wins(new, u) = {i \in 1..(n + 1) : \A v \in Users \ {u} : recs[i].db[u] > recs[i].db[v]}
      BY <1>4, <1>6 DEF Wins
    <3>2. Wins(rm, u) = {i \in 1..n : \A v \in Users \ {u} : recs[i].db[u] > recs[i].db[v]}
      BY <1>6 DEF Wins
    <3>3. (\A v \in Users \ {u} : recs[n + 1].db[u] > recs[n + 1].db[v]) <=> u = winner
      BY <1>3, <1>6
    <3>4. 1..(n + 1) = 1..n \cup {n + 1}
      BY <1>6
    <3> QED
      BY <3>1, <3>2, <3>3, <3>4
  <2>3. IsFiniteSet(Wins(rm, u)) /\ n + 1 \notin Wins(rm, u)
    <3>1. IsFiniteSet(1..n)
      <4>1. 1 \in Int /\ n \in Int
        BY <1>6
      <4> QED
        BY <4>1, FS_Interval
    <3> QED
      BY <1>6, <2>1, <3>1, FS_Subset
  <2>4. Cardinality(Wins(rm, u) \cup {n + 1}) = rm.scores[u] + 1
    BY <2>1, <2>3, FS_AddElement
  <2> QED
    BY <1>2, <1>4, <2>1, <2>2, <2>4
<1>12. Seated(new)
  BY <1>4 DEF Whole, Seated, Running
<1> QED
  BY <1>4, <1>10, <1>11, <1>12 DEF Whole, new, sc

LEMMA ResolveRoundWhole ==
  ASSUME NEW rm, Whole(rm), rm.phase \in Running, Len(rm.players) >= 2 PROVE Whole(ResolveRound(rm))
BY ScoreRoundWhole, QuietPhases, TimersWhole, TimersType, HandlesType DEF ResolveRound

-----------------------------------------------------------------------------
(* Ends of matches and of rooms. *)
LEMMA EndsWhole ==
  ASSUME NEW rm, Whole(rm)
  PROVE  Whole(FinishGame(rm)) /\ Whole(GameOver(rm)) /\ Whole(Deleted(rm)) /\ Whole(StartCountdown(rm))
<1>1. Whole([rm EXCEPT !.phase = "game_over"])
  BY PhaseWhole, QuietPhases
<1>2. Whole(FinishGame(rm))
  BY <1>1, TimersWhole DEF FinishGame
<1>3. Whole(GameOver(rm))
  <2>1. Whole(Cancel(rm, MatchHandles))
    BY TimersWhole
  <2> QED
    BY <2>1, PhaseWhole, QuietPhases DEF GameOver
<1>4. Whole(Deleted(rm))
  <2> DEFINE x == Cancel(rm, RoomHandles \cup Members(rm))
  <2>1. Whole(x)
    BY TimersWhole
  <2> HIDE DEF x
  <2>2. Same(x, [x EXCEPT !.store = "gone"]) /\ [x EXCEPT !.store = "gone"] \in GameRoomType
    BY <2>1 DEF Whole, Same, GameRoomType
  <2> QED
    BY <2>1, <2>2, SameWhole DEF Deleted, x
<1>5. Whole(StartCountdown(rm))
  <2>1. Tick(CountdownTicks) \in Timers
    BY TimersType, TicksAssumption
  <2> QED
    BY <2>1, TimersWhole, HandlesType DEF StartCountdown
<1> QED
  BY <1>2, <1>3, <1>4, <1>5

LEMMA ForfeitedWhole ==
  ASSUME NEW rm, Whole(rm), NEW u, NEW new, Forfeited(rm, u, new) PROVE Whole(new)
<1>1. Whole(GameOver(rm))
  BY EndsWhole
<1> QED
  BY <1>1, EndsWhole, TimersWhole DEF Forfeited

(* Players come, go and are away. *)
LEMMA SeatWhole ==
  ASSUME NEW rm, Whole(rm), NEW u \in Users, NEW s \in Sockets
  PROVE  Whole(Joined(rm, u, s))
<1> DEFINE f == Forget(rm, u)
           p == Player(s, FALSE)
           players == IF u \in Members(rm) THEN f.players ELSE Append(f.players, u)
           new == Joined(rm, u, s)
<1>1. Whole(f) /\ f.players = rm.players /\ f \in GameRoomType
  <2>1. Whole(f) /\ Kept(rm, f)
    BY TimersWhole, TimersKept, HandlesType DEF Whole
  <2> QED
    BY <2>1 DEF Kept, Whole
<1>2. new \in GameRoomType
  BY JoinedType DEF Whole
<1>3. p.host = FALSE
  BY DEF Player
<1> HIDE DEF p, f
<1>4. /\ new.round = f.round /\ new.records = f.records /\ new.scores = f.scores
      /\ new.players = players /\ new.phase = "ready"
      /\ \A v \in Users : new.info[v] = IF v = u THEN p ELSE f.info[v]
  BY <1>1 DEF Joined, SetPlayer, GameRoomType, f, p
<1> HIDE DEF new
<1>5. IsInjective(players)
  <2>1. CASE u \in Members(rm)
    BY <1>1, <2>1 DEF Whole, Seated
  <2>2. CASE u \notin Members(rm)
    <3> DEFINE seq == rm.players
    <3>1. seq \in Seq(Users) /\ \A a, b \in DOMAIN seq : seq[a] = seq[b] => a = b
      BY DEF Whole, Seated, IsInjective, GameRoomType
    <3>2. \A a \in DOMAIN seq : seq[a] # u
      BY <2>2 DEF Members
    <3>3. players = Append(seq, u)
      BY <1>1, <2>2
    <3> HIDE DEF seq, players
    <3>4. /\ DOMAIN players = 1..(Len(seq) + 1) /\ DOMAIN seq = 1..Len(seq) /\ Len(seq) \in Nat
          /\ players[Len(seq) + 1] = u /\ \A a \in 1..Len(seq) : players[a] = seq[a]
      BY <3>1, <3>3
    <3>5. \A a \in 1..(Len(seq) + 1) : a \in 1..Len(seq) \/ a = Len(seq) + 1
      BY <3>4
    <3> QED
      BY <3>1, <3>2, <3>4, <3>5 DEF IsInjective
  <2> QED
    BY <2>1, <2>2
<1>6. Scored(new) /\ Counted(new)
  BY <1>1, <1>4 DEF Whole, Scored, Counted, Wins, Running
<1>7. Seated(new)
  <2>1. \A v \in Users : new.info[v].host => f.info[v].host
    BY <1>3, <1>4
  <2> QED
    BY <1>1, <1>4, <1>5, <2>1 DEF Whole, Seated
<1> QED
  BY <1>2, <1>6, <1>7 DEF Whole, new

LEMMA UnseatWhole ==
  ASSUME NEW rm, Whole(rm), NEW u \in Members(rm)
  PROVE  LET new == RemovePlayer(rm, u) IN
         /\ Whole(new)
         /\ new.store = rm.store /\ new.phase = rm.phase /\ new.official = rm.official
         /\ Len(new.players) = Len(rm.players) - 1
         /\ \A v \in Users : v # u => new.info[v] = rm.info[v]
         /\ ~new.info[u].host /\ new.info[u].sub = NoSubmission
         /\ Members(new) = Members(rm) \ {u}
<1> DEFINE i == CHOOSE i \in DOMAIN rm.players : rm.players[i] = u
           c == Cancel(rm, {u})
           new == RemovePlayer(rm, u)
<1>1. i \in DOMAIN rm.players /\ rm.players[i] = u /\ u \in Users /\ rm.players \in Seq(Users)
  BY DEF Members, Whole, GameRoomType
<1>2. Whole(c) /\ c \in GameRoomType /\ c.players = rm.players /\ c.info = rm.info
      /\ c.store = rm.store /\ c.phase = rm.phase /\ c.official = rm.official
  <2>1. Whole(c)
    BY TimersWhole
  <2>2. /\ c.players = rm.players /\ c.info = rm.info
        /\ c.store = rm.store /\ c.phase = rm.phase /\ c.official = rm.official
    BY DEF Cancel, Whole, GameRoomType
  <2> QED
    BY <2>1, <2>2 DEF Whole
<1>3. new \in GameRoomType
  BY RemovePlayerType DEF Whole
<1>4. NoPlayer.host = FALSE /\ NoPlayer.sub = NoSubmission
  BY DEF NoPlayer, Player
<1> HIDE DEF i, c
<1>5. /\ new.round = c.round /\ new.records = c.records /\ new.scores = c.scores
      /\ new.players = RemoveAt(rm.players, i) /\ new.phase = c.phase /\ new.official = c.official
      /\ new.store = c.store
      /\ \A v \in Users : new.info[v] = IF v = u THEN NoPlayer ELSE c.info[v]
  BY <1>1, <1>2 DEF RemovePlayer, GameRoomType, i, c
<1> HIDE DEF new
<1>6. IsInjective(rm.players)
  BY DEF Whole, Seated
<1>7. /\ IsInjective(new.players) /\ Len(new.players) = Len(rm.players) - 1
      /\ \A k \in DOMAIN new.players : new.players[k] # u
  <2> DEFINE seq == rm.players
  <2>1. seq \in Seq(Users) /\ i \in DOMAIN seq /\ IsInjective(seq) /\ seq[i] = u
    BY <1>1, <1>6
  <2> HIDE DEF seq
  <2>2. IsInjective(RemoveAt(seq, i)) /\ \A k \in DOMAIN RemoveAt(seq, i) : RemoveAt(seq, i)[k] # u
    BY <2>1, RemoveAtInjective
  <2>3. Len(RemoveAt(seq, i)) = Len(seq) - 1
    BY <2>1, RemoveAtElements
  <2> QED
    BY <1>5, <2>2, <2>3 DEF seq
<1>8. Scored(new) /\ Counted(new)
  BY <1>2, <1>5 DEF Whole, Scored, Counted, Wins
<1>9. \A v \in Users : new.info[v].host => c.info[v].host
  BY <1>4, <1>5
<1>10. Seated(new)
  BY <1>2, <1>5, <1>7, <1>9 DEF Whole, Seated
<1>11. Members(new) = Members(rm) \ {u}
  <2>1. Members(rm) \ {u} \subseteq Members(new)
    BY RemovePlayerMembers DEF Whole, new
  <2>2. \A k \in DOMAIN new.players : \E j \in DOMAIN rm.players : new.players[k] = rm.players[j]
    <3> DEFINE seq == rm.players
               rest == RemoveAt(seq, i)
    <3>0. seq \in Seq(Users) /\ i \in DOMAIN seq
      BY <1>1
    <3> HIDE DEF seq
    <3>1. /\ DOMAIN rest = 1..(Len(seq) - 1) /\ i \in 1..Len(seq) /\ Len(seq) \in Nat
          /\ \A k \in 1..(i - 1) : rest[k] = seq[k]
          /\ \A k \in i..(Len(seq) - 1) : rest[k] = seq[k + 1]
          /\ DOMAIN seq = 1..Len(seq)
      BY <3>0, RemoveAtElements
    <3> HIDE DEF rest
    <3>2. ASSUME NEW k \in DOMAIN rest PROVE \E j \in DOMAIN seq : rest[k] = seq[j]
      <4>1. CASE k < i
        BY <3>1, <4>1
      <4>2. CASE k >= i
        <5>1. k + 1 \in DOMAIN seq /\ rest[k] = seq[k + 1]
          BY <3>1, <4>2
        <5> QED
          BY <5>1
      <4> QED
        BY <3>1, <4>1, <4>2
    <3> QED
      BY <1>5, <3>2 DEF rest, seq
  <2> QED
    BY <1>7, <2>1, <2>2 DEF Members
<1>12. Whole(new) /\ ~new.info[u].host /\ new.info[u].sub = NoSubmission
  BY <1>1, <1>3, <1>4, <1>5, <1>8, <1>10 DEF Whole
<1>13. new.store = rm.store /\ new.phase = rm.phase /\ new.official = rm.official
       /\ \A v \in Users : v # u => new.info[v] = rm.info[v]
  BY <1>2, <1>5
<1> QED
  BY <1>7, <1>11, <1>12, <1>13 DEF new

LEMMA PlayersWhole ==
  ASSUME NEW rm, Whole(rm), NEW u \in Users
  PROVE  Whole(Away(rm, u)) /\ \A s \in Sockets : Whole(Rejoined(rm, u, s))
<1>1. Whole(Away(rm, u))
  <2>1. Same(rm, Away(rm, u))
    BY DEF Away, Same, Whole, GameRoomType, PlayerInfo
  <2> QED
    BY <2>1, SameWhole, AwayType DEF Whole
<1>2. ASSUME NEW s \in Sockets PROVE Whole(Rejoined(rm, u, s))
  <2> DEFINE c == Cancel(rm, {u})
  <2>1. Whole(c)
    BY TimersWhole
  <2> HIDE DEF c
  <2>2. Same(c, [c EXCEPT !.info[u].sock = s, !.info[u].connected = TRUE])
    BY <2>1 DEF Same, Whole, GameRoomType, PlayerInfo
  <2>3. Rejoined(rm, u, s) = [c EXCEPT !.info[u].sock = s, !.info[u].connected = TRUE]
    BY DEF Rejoined, c
  <2> QED
    BY <2>1, <2>2, <2>3, SameWhole, RejoinedType DEF Whole
<1> QED
  BY <1>1, <1>2

(* Updates of one player's record, and of the set of the ready ones. *)
LEMMA InfoWhole ==
  ASSUME NEW rm, Whole(rm), NEW u \in Users
  PROVE  /\ Whole([rm EXCEPT !.info[u].ready = TRUE])
         /\ \A db \in Decibels : Whole([rm EXCEPT !.info[u].sub = db])
         /\ \A ph \in Phases \ Running : Whole([rm EXCEPT !.info[u].rematch = TRUE, !.phase = ph])
         /\ Whole([rm EXCEPT !.micReady = @ \cup {u}])
<1>1. Same(rm, [rm EXCEPT !.info[u].ready = TRUE])
  BY DEF Same, Whole, GameRoomType, PlayerInfo
<1>1a. Same(rm, [rm EXCEPT !.micReady = @ \cup {u}]) /\ [rm EXCEPT !.micReady = @ \cup {u}] \in GameRoomType
  BY DEF Same, Whole, GameRoomType
<1>2. \A db \in Decibels : Same(rm, [rm EXCEPT !.info[u].sub = db])
  BY DEF Same, Whole, GameRoomType, PlayerInfo
<1>3. \A ph \in Phases \ Running : Same(rm, [rm EXCEPT !.info[u].rematch = TRUE, !.phase = ph])
  BY DEF Same, Whole, GameRoomType, PlayerInfo, Running
<1> QED
  BY <1>1, <1>1a, <1>2, <1>3, SameWhole, PlayerUpdateType DEF Whole

(* A room without a host gets one. *)
LEMMA HostWhole ==
  ASSUME NEW rm, Whole(rm), NEW u, \A v \in Users : ~rm.info[v].host
  PROVE  Whole([rm EXCEPT !.info[u].host = TRUE])
<1> DEFINE new == [rm EXCEPT !.info[u].host = TRUE]
<1>1. new \in GameRoomType
  BY PlayerUpdateType DEF Whole
<1>2. /\ new.round = rm.round /\ new.records = rm.records /\ new.scores = rm.scores
      /\ new.players = rm.players /\ new.phase = rm.phase /\ new.official = rm.official
  BY DEF Whole, GameRoomType
<1>3. \A v \in Users : v # u => ~new.info[v].host
  BY DEF Whole, GameRoomType, PlayerInfo
<1> HIDE DEF new
<1>4. Scored(new) /\ Counted(new) /\ Seated(new)
  BY <1>2, <1>3 DEF Whole, Scored, Counted, Wins, Seated
<1> QED
  BY <1>1, <1>4 DEF Whole, new

-----------------------------------------------------------------------------
(* An open room has a player. *)
Peopled(rm) == rm.store = "open" => rm.players # <<>>
Sound(rm)   == Whole(rm) /\ Peopled(rm)

LEMMA KeptPeopled ==
  ASSUME NEW old, NEW new, Peopled(old), Kept(old, new) PROVE Peopled(new)
BY DEF Peopled, Kept

LEMMA DeletedSound ==
  ASSUME NEW rm, Whole(rm) PROVE Sound(Deleted(rm)) /\ Deleted(rm).store = "gone"
<1>1. Deleted(rm).store = "gone"
  <2> DEFINE x == Cancel(rm, RoomHandles \cup Members(rm))
  <2>1. x \in GameRoomType
    BY CancelType DEF Whole
  <2> HIDE DEF x
  <2> QED
    BY <2>1 DEF Deleted, x, GameRoomType
<1> QED
  BY <1>1, EndsWhole DEF Sound, Peopled

LEMMA TimersSound ==
  ASSUME NEW rm, Sound(rm)
  PROVE  /\ \A h \in Handles, t \in Timers \cup {NoTimer} : Sound(Arm(rm, h, t))
         /\ \A h \in Handles : Sound(Forget(rm, h))
         /\ \A hs : Sound(Cancel(rm, hs))
         /\ Sound(RefreshTTL(rm))
         /\ \A h \in Handles, t \in Timers : \A next \in Expired(rm, h, t) : Sound(next)
<1>1. Whole(rm) /\ rm \in GameRoomType /\ Peopled(rm)
  BY DEF Sound, Whole
<1> QED
  BY <1>1, TimersWhole, TimersKept, KeptPeopled DEF Sound

LEMMA MatchSound ==
  ASSUME NEW rm, Sound(rm)
  PROVE  /\ Sound(ResetGameData(rm)) /\ Sound(StartRematch(rm))
         /\ Sound(SetupCancelled(rm)) /\ Sound(SlotReleased(rm))
         /\ Sound(StartCountdown(rm)) /\ Sound(PrepareRound(rm))
         /\ Sound(FinishGame(rm)) /\ Sound(GameOver(rm))
         /\ rm.phase \in Running => Sound(DoStartRound(rm))
         /\ rm.phase \in Running /\ Len(rm.players) >= 2 => Sound(ResolveRound(rm))
<1>1. Whole(rm) /\ rm \in GameRoomType /\ Peopled(rm)
  BY DEF Sound, Whole
<1> QED
  BY <1>1, ResetsWhole, EndsWhole, PrepareRoundWhole, DoStartRoundWhole, ResolveRoundWhole,
     MatchKept, KeptPeopled DEF Sound

LEMMA ForfeitedSound ==
  ASSUME NEW rm, Whole(rm), NEW u, NEW new, Forfeited(rm, u, new),
         Peopled(rm) \/ rm.phase # "game_over"
  PROVE  Sound(new)
<1>1. CASE rm.phase = "game_over"
  BY <1>1 DEF Forfeited, Sound
<1>2. CASE rm.phase # "game_over" /\ OpponentOf(rm, u) = NoUser
  BY <1>2, EndsWhole, DeletedSound DEF Forfeited
<1>3. CASE rm.phase # "game_over" /\ OpponentOf(rm, u) # NoUser
  <2>1. rm.players # <<>>
    BY <1>3 DEF OpponentOf
  <2>2. Sound(rm)
    BY <2>1 DEF Sound, Peopled
  <2> QED
    BY <1>3, <2>2, MatchSound, TimersSound DEF Forfeited
<1> QED
  BY <1>1, <1>2, <1>3

(* A reset moves no host. *)
LEMMA ResetsHosts ==
  ASSUME NEW rm \in GameRoomType, NEW v \in Users
  PROVE  /\ SetupCancelled(rm).info[v].host = rm.info[v].host
         /\ SlotReleased(rm).info[v].host = rm.info[v].host
<1> DEFINE y == ClearProgress(rm, "waiting")
           z == [y EXCEPT !.official = FALSE]
<1>1. y \in GameRoomType
  BY ClearProgressType DEF Phases
<1>2. y.info[v].host = rm.info[v].host
  <2>1. y.info[v] = FreshPlayer(rm.info[v]) /\ rm.info[v] \in PlayerInfo
    BY DEF ClearProgress, GameRoomType
  <2> QED
    BY <2>1 DEF FreshPlayer, PlayerInfo
<1> HIDE DEF y
<1>3. z \in GameRoomType /\ z.info = y.info
  BY <1>1 DEF GameRoomType
<1> HIDE DEF z
<1>4. \A hs : Cancel(z, hs).info = z.info /\ Cancel(y, hs).info = y.info
  BY <1>1, <1>3 DEF Cancel, GameRoomType
<1> QED
  BY <1>2, <1>3, <1>4 DEF SetupCancelled, SlotReleased, y, z

(* Change by change. *)
LEMMA ConnectionsSound ==
  ASSUME NEW old, Sound(old), NEW new, Returned(old, new) \/ Dropped(old, new)
  PROVE  Sound(new)
<1>0. Whole(old) /\ old \in GameRoomType
  BY DEF Sound, Whole
<1>1. ASSUME NEW u \in Members(old), Len(old.players) # 1 PROVE Sound(RemovePlayer(old, u))
  <2>1. Whole(RemovePlayer(old, u)) /\ Len(RemovePlayer(old, u).players) = Len(old.players) - 1
    BY <1>0, UnseatWhole
  <2>2. Len(old.players) \in Nat /\ Len(old.players) # 0
    <3>1. old.players \in Seq(Users)
      BY <1>0 DEF GameRoomType
    <3>2. PICK i \in DOMAIN old.players : TRUE
      BY DEF Members
    <3> QED
      BY <3>1, <3>2
  <2>3. RemovePlayer(old, u).players # <<>>
    <3> DEFINE ps == RemovePlayer(old, u).players
    <3>1. Len(ps) # 0
      BY <1>1, <2>1, <2>2
    <3> HIDE DEF ps
    <3>2. ps # <<>>
      BY <3>1
    <3> QED
      BY <3>2 DEF ps
  <2> QED
    BY <2>1, <2>3 DEF Sound, Peopled
<1>2. ASSUME NEW u \in Members(old) PROVE Sound(Deleted(RemovePlayer(old, u)))
  BY <1>0, UnseatWhole, DeletedSound
<1>3. Members(old) \subseteq Users
  BY <1>0 DEF Members, GameRoomType
<1>4. ASSUME NEW u \in Members(old), NEW s \in Sockets PROVE Sound(Rejoined(old, u, s))
  <2>1. Whole(Rejoined(old, u, s))
    BY <1>0, <1>3, PlayersWhole
  <2>2. Kept(old, Rejoined(old, u, s))
    BY <1>0 DEF Rejoined, Cancel, Kept, GameRoomType
  <2> QED
    BY <2>1, <2>2, KeptPeopled DEF Sound
<1>5. ASSUME NEW u \in Members(old) PROVE Sound(Away(old, u)) /\ Whole(Away(old, u))
  <2>1. Whole(Away(old, u))
    BY <1>0, <1>3, PlayersWhole
  <2>2. Kept(old, Away(old, u))
    BY <1>0 DEF Away, Kept, GameRoomType
  <2> QED
    BY <2>1, <2>2, KeptPeopled DEF Sound
<1>6. \A u \in Users : u \in Handles /\ Grace(u) \in Timers
  BY DEF Handles, Timers
<1> QED
  BY <1>1, <1>2, <1>3, <1>4, <1>5, <1>6, DeletedSound, TimersSound DEF Returned, Dropped

LEMMA EnteringSound ==
  ASSUME NEW old, Sound(old), NEW new,
         Created(old, new) \/ JoinStarted(old, new) \/ Entered(old, new)
  PROVE  Sound(new)
<1>0. Whole(old) /\ old \in GameRoomType
  BY DEF Sound, Whole
<1>1. ASSUME Created(old, new) PROVE Sound(new)
  <2> DEFINE empty == EmptyRoom("open")
  <2>1. PICK u \in Users, s \in Sockets : new = SetPlayer(empty, u, Player(s, TRUE))
    BY <1>1 DEF Created
  <2> DEFINE f == Forget(empty, u)
             p == Player(s, TRUE)
  <2>2. empty \in GameRoomType /\ p \in PlayerInfo /\ NoPlayer.host = FALSE
    BY EmptyType, PlayerType DEF NoPlayer, Player
  <2>3. new \in GameRoomType
    BY <2>1, <2>2, SetPlayerType
  <2>4. /\ f.players = <<>> /\ f.records = <<>> /\ f.scores = ZeroScores /\ f.phase = "waiting"
        /\ f.info = [v \in Users |-> NoPlayer] /\ f \in GameRoomType /\ Members(empty) = {}
    <3>1. f \in GameRoomType
      BY <2>2, ForgetType, HandlesType
    <3> QED
      BY <3>1 DEF Forget, Arm, EmptyRoom, Members
  <2> HIDE DEF p, f
  <2>5. /\ new.players = Append(<<>>, u) /\ new.records = <<>> /\ new.scores = ZeroScores
        /\ new.phase = "waiting" /\ \A v \in Users : new.info[v] = IF v = u THEN p ELSE NoPlayer
    BY <2>1, <2>4 DEF SetPlayer, p, f, GameRoomType
  <2>6. new.players = <<u>>
    BY <2>5
  <2>7. Whole(new)
    BY <2>2, <2>3, <2>5, <2>6, NoRecordsWhole DEF IsInjective, Running
  <2> QED
    BY <2>6, <2>7 DEF Sound, Peopled
<1>2. ASSUME JoinStarted(old, new) PROVE Sound(new)
  BY <1>2, TimersSound, MatchSound DEF JoinStarted, JoinBegun
<1>3. ASSUME NEW u \in Users, NEW s \in Sockets PROVE Sound(Joined(old, u, s))
  <2> DEFINE j == Joined(old, u, s)
             y == SetPlayer(old, u, Player(s, FALSE))
  <2>1. Whole(j)
    BY <1>0, SeatWhole
  <2>2. y \in GameRoomType /\ y.store = old.store /\ Members(old) \subseteq Members(y)
    BY <1>0, PlayerType, SetPlayerType, SetPlayerMembers
  <2> HIDE DEF y
  <2>3. j.store = old.store /\ Members(old) \subseteq Members(j)
    <3>1. j = [y EXCEPT !.phase = "ready"]
      BY DEF Joined, y
    <3>2. j.store = y.store /\ j.players = y.players
      BY <2>2, <3>1 DEF GameRoomType
    <3> QED
      BY <2>2, <3>2 DEF Members
  <2> HIDE DEF j
  <2>4. j.store = "open" => j.players # <<>>
    <3>1. SUFFICES ASSUME j.store = "open" PROVE j.players # <<>>
      OBVIOUS
    <3>2. old.players # <<>> /\ old.players \in Seq(Users)
      BY <1>0, <2>3, <3>1 DEF Sound, Peopled, GameRoomType
    <3>3. old.players[1] \in Members(old)
      BY <3>2 DEF Members
    <3>4. PICK i \in DOMAIN j.players : j.players[i] = old.players[1]
      BY <2>3, <3>3 DEF Members
    <3> QED
      BY <3>4
  <2> QED
    BY <2>1, <2>4 DEF Sound, Peopled, j
<1> QED
  BY <1>1, <1>2, <1>3 DEF Entered

LEMMA EventsSound ==
  ASSUME NEW old, Sound(old), NEW new,
         Readied(old, new) \/ MicReadied(old, new) \/ MicFailed(old, new) \/ Submitted(old, new)
         \/ Rematched(old, new)
  PROVE  Sound(new)
<1>0. Whole(old) /\ old \in GameRoomType /\ Peopled(old)
  BY DEF Sound, Whole
<1>1. ASSUME NEW x, Sound(x), NEW ph \in Phases \ Running PROVE Sound([x EXCEPT !.phase = ph])
  <2>1. x \in GameRoomType /\ Peopled(x)
    BY <1>1 DEF Sound, Whole
  <2>2. Kept(x, [x EXCEPT !.phase = ph])
    BY <2>1 DEF Kept, GameRoomType
  <2> QED
    BY <1>1, <2>1, <2>2, PhaseWhole, KeptPeopled DEF Sound
<1>2. ASSUME Readied(old, new) PROVE Sound(new)
  <2>1. PICK u \in Users : LET rm == [old EXCEPT !.info[u].ready = TRUE] IN
          new = rm \/ new = StartCountdown([rm EXCEPT !.phase = "countdown"])
    BY <1>2 DEF Readied
  <2> DEFINE rm == [old EXCEPT !.info[u].ready = TRUE]
  <2>2. Whole(rm)
    BY <1>0, InfoWhole
  <2>3. Kept(old, rm)
    BY <1>0 DEF Kept, GameRoomType
  <2> HIDE DEF rm
  <2>4. Sound(rm)
    BY <1>0, <2>2, <2>3, KeptPeopled DEF Sound
  <2>5. Sound([rm EXCEPT !.phase = "countdown"])
    BY <1>1, <2>4, QuietPhases
  <2> QED
    BY <2>1, <2>4, <2>5, MatchSound DEF rm
<1>3. ASSUME MicReadied(old, new) PROVE Sound(new)
  <2>1. PICK u \in Users : LET rm == [old EXCEPT !.micReady = @ \cup {u}] IN
          old.phase = "preparing" /\ (new = rm \/ new = DoStartRound(Cancel(rm, {"prepare"})))
    BY <1>3 DEF MicReadied
  <2> DEFINE rm == [old EXCEPT !.micReady = @ \cup {u}]
             c == Cancel(rm, {"prepare"})
  <2>2. Whole(rm)
    BY <1>0, InfoWhole
  <2>3. Kept(old, rm) /\ rm.phase = old.phase
    BY <1>0 DEF Kept, GameRoomType
  <2> HIDE DEF rm
  <2>4. Sound(rm)
    BY <1>0, <2>2, <2>3, KeptPeopled DEF Sound
  <2>5. Sound(c)
    BY <2>4, TimersSound
  <2>6. c.phase = "preparing"
    BY <2>1, <2>2, <2>3 DEF Cancel, Whole, GameRoomType
  <2> HIDE DEF c
  <2>7. Sound(DoStartRound(c))
    BY <2>5, <2>6, MatchSound DEF Running
  <2> QED
    BY <2>1, <2>4, <2>7 DEF rm, c
<1>4. ASSUME MicFailed(old, new) PROVE Sound(new)
  <2> DEFINE c == Cancel(old, {"prepare"})
  <2>1. Sound(c)
    BY TimersSound
  <2>2. \/ c.official /\ \E u \in Users : Forfeited(c, u, new)
       \/ new = ResetGameData(c)
    BY <1>4 DEF MicFailed
  <2> HIDE DEF c
  <2> QED
    BY <2>1, <2>2, ForfeitedSound, MatchSound DEF Sound
<1>5. ASSUME Submitted(old, new) PROVE Sound(new)
  <2>1. PICK u \in Users, db \in Decibels : LET rm == [old EXCEPT !.info[u].sub = db] IN
          CanSubmit(old, u) /\ (new = rm \/ new = CloseRound(Cancel(rm, {"round"})))
    BY <1>5 DEF Submitted
  <2> DEFINE rm == [old EXCEPT !.info[u].sub = db]
             c == Cancel(rm, {"round"})
  <2>2. Whole(rm)
    BY <1>0, InfoWhole
  <2>3. Kept(old, rm) /\ rm.phase = old.phase /\ old.phase = "playing"
    BY <1>0, <2>1 DEF Kept, GameRoomType, CanSubmit
  <2> HIDE DEF rm
  <2>4. Sound(rm)
    BY <1>0, <2>2, <2>3, KeptPeopled DEF Sound
  <2>5. Sound(c)
    BY <2>4, TimersSound
  <2>6. c.phase = "playing" /\ Len(c.players) \in Nat
    BY <2>1, <2>2, <2>3 DEF Cancel, Whole, GameRoomType
  <2> HIDE DEF c
  <2>7. CASE Len(c.players) < 2
    BY <1>1, <2>1, <2>4, <2>5, <2>7, QuietPhases DEF CloseRound, rm, c
  <2>8. CASE ~(Len(c.players) < 2)
    <3>1. Sound(ResolveRound(c))
      BY <2>5, <2>6, <2>8, MatchSound DEF Running
    <3> QED
      BY <2>1, <2>4, <2>8, <3>1 DEF CloseRound, rm, c
  <2> QED
    BY <2>7, <2>8
<1>6. ASSUME Rematched(old, new) PROVE Sound(new)
  <2>1. PICK u \in Users : LET rm == [old EXCEPT !.info[u].rematch = TRUE, !.phase = "rematch_waiting"] IN
          new = rm \/ new = StartRematch(rm)
    BY <1>6 DEF Rematched
  <2> DEFINE rm == [old EXCEPT !.info[u].rematch = TRUE, !.phase = "rematch_waiting"]
  <2>2. Whole(rm)
    BY <1>0, InfoWhole, QuietPhases
  <2>3. Kept(old, rm)
    BY <1>0 DEF Kept, GameRoomType
  <2> HIDE DEF rm
  <2>4. Sound(rm)
    BY <1>0, <2>2, <2>3, KeptPeopled DEF Sound
  <2> QED
    BY <2>1, <2>4, MatchSound DEF rm
<1> QED
  BY <1>2, <1>3, <1>4, <1>5, <1>6

LEMMA LeftSound ==
  ASSUME NEW old, Sound(old), NEW new, Left(old, new) PROVE Sound(new)
<1>1. PICK u \in Members(old) :
        LET active == old.phase \in InGame
            rm == RemovePlayer(IF active THEN Cancel(old, {"prepare"}) ELSE old, u)
            opp == OpponentOf(old, u)
        IN
        \/ active /\ rm.official /\ Forfeited(rm, u, new)
        \/ ~(active /\ rm.official) /\ rm.players = <<>> /\ new = Deleted(rm)
        \/ active /\ ~rm.official /\ rm.players # <<>> /\ Stayed(SetupCancelled(rm), opp, old.info[u].host, new)
        \/ ~active /\ rm.players # <<>> /\ Stayed(SlotReleased(rm), opp, old.info[u].host, new)
  BY DEF Left
<1> DEFINE active == old.phase \in InGame
           x == IF active THEN Cancel(old, {"prepare"}) ELSE old
           rm == RemovePlayer(x, u)
           opp == OpponentOf(old, u)
           wasHost == old.info[u].host
<1>2. Whole(x) /\ x.phase = old.phase /\ x.info = old.info /\ Members(x) = Members(old)
  <2>1. Whole(old) /\ Whole(Cancel(old, {"prepare"}))
    BY TimersWhole DEF Sound
  <2>2. LET c == Cancel(old, {"prepare"}) IN c.phase = old.phase /\ c.info = old.info /\ c.players = old.players
    BY <2>1 DEF Whole, Cancel, GameRoomType
  <2> QED
    BY <2>1, <2>2 DEF Members
<1> HIDE DEF x
<1>3. /\ Whole(rm) /\ rm.phase = old.phase
      /\ \A v \in Users : v # u => rm.info[v] = old.info[v]
      /\ ~rm.info[u].host
  BY <1>2, UnseatWhole
<1>4. \/ active /\ rm.official /\ Forfeited(rm, u, new)
      \/ rm.players = <<>> /\ new = Deleted(rm)
      \/ rm.players # <<>> /\ Stayed(SetupCancelled(rm), opp, wasHost, new)
      \/ rm.players # <<>> /\ Stayed(SlotReleased(rm), opp, wasHost, new)
  BY <1>1 DEF x
<1>5. wasHost => \A v \in Users : ~rm.info[v].host
  <2>1. u \in Users /\ (\A a, b \in Users : old.info[a].host /\ old.info[b].host => a = b)
    BY DEF Sound, Whole, Seated, Members, GameRoomType
  <2> QED
    BY <1>3, <2>1
<1> HIDE DEF rm, opp, wasHost, active
<1>6. ASSUME active, Forfeited(rm, u, new) PROVE Sound(new)
  <2>1. rm.phase # "game_over"
    BY <1>3, <1>6 DEF active, InGame
  <2> QED
    BY <1>3, <1>6, <2>1, ForfeitedSound
<1>7. ASSUME NEW y, Sound(y), \A v \in Users : y.info[v].host = rm.info[v].host, Stayed(y, opp, wasHost, new)
      PROVE  Sound(new)
  <2>1. CASE new = Deleted(y)
    BY <1>7, <2>1, DeletedSound DEF Sound
  <2>2. CASE wasHost /\ new = [y EXCEPT !.info[opp].host = TRUE]
    <3>1. Whole(new)
      BY <1>5, <1>7, <2>2, HostWhole DEF Sound
    <3>2. Kept(y, new)
      BY <1>7, <2>2 DEF Kept, Sound, Whole, GameRoomType
    <3> QED
      BY <1>7, <3>1, <3>2, KeptPeopled DEF Sound
  <2>3. CASE new = y
    BY <1>7, <2>3
  <2> QED
    BY <1>7, <2>1, <2>2, <2>3 DEF Stayed
<1>8. ASSUME rm.players # <<>> PROVE Sound(SetupCancelled(rm)) /\ Sound(SlotReleased(rm))
  BY <1>3, <1>8, MatchSound DEF Sound, Peopled
<1>9. /\ \A v \in Users : SetupCancelled(rm).info[v].host = rm.info[v].host
      /\ \A v \in Users : SlotReleased(rm).info[v].host = rm.info[v].host
  BY <1>3, ResetsHosts DEF Whole
<1> QED
  BY <1>3, <1>4, <1>6, <1>7, <1>8, <1>9, DeletedSound

LEMMA CallbacksSound ==
  ASSUME NEW old, Sound(old), NEW new,
         \/ Ticked(old, new) \/ Prepared(old, new) \/ PrepareEnded(old, new) \/ RoundEnded(old, new)
         \/ Finished(old, new) \/ NextStarted(old, new) \/ GraceEnded(old, new) \/ TTLEnded(old, new)
  PROVE  Sound(new)
<1>1. \A h \in Handles, t \in Timers : \A rm \in Expired(old, h, t) : Sound(rm) /\ Whole(rm)
  BY TimersSound DEF Sound
<1>2. /\ RoomHandles \subseteq Handles /\ Users \subseteq Handles
      /\ {"countdown", "prepare", "round", "post", "ttl"} \subseteq Handles
  BY DEF Handles, RoomHandles, MatchHandles
<1>3. /\ {Timer(k) : k \in {"prepare", "round", "finish", "next", "ttl"}} \subseteq Timers
      /\ \A n \in 0..CountdownTicks : Tick(n) \in Timers
      /\ \A u \in Users : Grace(u) \in Timers
  BY DEF Timers
<1>4. ASSUME Ticked(old, new) PROVE Sound(new)
  <2>1. PICK n \in 1..CountdownTicks : \E rm \in Expired(old, "countdown", Tick(n)) :
          new = Arm(rm, "countdown", Tick(n - 1))
    BY <1>4 DEF Ticked
  <2>2. n \in 0..CountdownTicks /\ n - 1 \in 0..CountdownTicks
    BY TicksAssumption
  <2> QED
    BY <1>1, <1>2, <1>3, <2>1, <2>2, TimersSound
<1>5. ASSUME Prepared(old, new) PROVE Sound(new)
  <2>1. 0 \in 0..CountdownTicks
    BY TicksAssumption
  <2>2. PICK rm \in Expired(old, "countdown", Tick(0)) : new = PrepareRound(Forget(rm, "countdown"))
    BY <1>5 DEF Prepared
  <2>3. Sound(Forget(rm, "countdown"))
    BY <1>1, <1>2, <1>3, <2>1, TimersSound
  <2> QED
    BY <2>2, <2>3, MatchSound
<1>6. ASSUME PrepareEnded(old, new) PROVE Sound(new)
  <2>1. PICK rm \in Expired(old, "prepare", Timer("prepare")) :
          \/ new = rm \/ new = Forget(rm, "prepare") \/ new = ResetGameData(rm)
          \/ \E u \in Users : Forfeited(rm, u, new)
          \/ new = Deleted(rm)
    BY <1>6 DEF PrepareEnded
  <2>2. Sound(rm) /\ Whole(rm) /\ Peopled(rm)
    BY <1>1, <1>2, <1>3 DEF Sound
  <2> QED
    BY <1>2, <2>1, <2>2, TimersSound, MatchSound, ForfeitedSound, DeletedSound
<1>7. ASSUME RoundEnded(old, new) PROVE Sound(new)
  <2>1. PICK rm \in Expired(old, "round", Timer("round")) :
          \/ new = rm
          \/ rm.phase = "playing" /\ Len(rm.players) >= 2 /\ new = ResolveRound(rm)
    BY <1>7 DEF RoundEnded
  <2>2. Sound(rm)
    BY <1>1, <1>2, <1>3
  <2> QED
    BY <2>1, <2>2, MatchSound DEF Running
<1>8. ASSUME Finished(old, new) \/ NextStarted(old, new) PROVE Sound(new)
  <2>1. \/ \E rm \in Expired(old, "post", Timer("finish")) : new = FinishGame(Forget(rm, "post"))
        \/ \E rm \in Expired(old, "post", Timer("next")) : new = StartCountdown(Forget(rm, "post"))
    BY <1>8 DEF Finished, NextStarted
  <2>2. \E rm : Sound(Forget(rm, "post"))
                /\ (new = FinishGame(Forget(rm, "post")) \/ new = StartCountdown(Forget(rm, "post")))
    BY <1>1, <1>2, <1>3, <2>1, TimersSound
  <2> QED
    BY <2>2, MatchSound
<1>9. ASSUME GraceEnded(old, new) PROVE Sound(new)
  <2>1. PICK u \in Users : \E rm \in Expired(old, u, Grace(u)) : Forfeited(rm, u, new)
    BY <1>9 DEF GraceEnded
  <2>2. PICK rm \in Expired(old, u, Grace(u)) : Forfeited(rm, u, new)
    BY <2>1
  <2>3. Whole(rm) /\ Peopled(rm)
    BY <1>1, <1>2, <1>3 DEF Sound
  <2> QED
    BY <2>2, <2>3, ForfeitedSound
<1>10. ASSUME TTLEnded(old, new) PROVE Sound(new)
  BY <1>1, <1>2, <1>3, <1>10, DeletedSound DEF TTLEnded
<1> QED
  BY <1>4, <1>5, <1>6, <1>7, <1>8, <1>9, <1>10

LEMMA EmptySound ==
  ASSUME NEW store \in {"free", "gone"} PROVE Sound(EmptyRoom(store))
<1>1. EmptyRoom(store) \in GameRoomType
  BY EmptyType
<1>2. /\ EmptyRoom(store).records = <<>> /\ EmptyRoom(store).scores = ZeroScores
      /\ EmptyRoom(store).phase \notin Running /\ IsInjective(EmptyRoom(store).players)
      /\ EmptyRoom(store).store # "open"
      /\ \A u \in Users : ~EmptyRoom(store).info[u].host
  BY DEF EmptyRoom, Running, IsInjective, NoPlayer, Player
<1> QED
  BY <1>1, <1>2, NoRecordsWhole DEF Sound, Peopled

LEMMA ChangeSound ==
  ASSUME NEW old, Sound(old), NEW new, Change(old, new) PROVE Sound(new)
BY ConnectionsSound, EnteringSound, EventsSound, LeftSound, CallbacksSound DEF Change, Handled

LEMMA StepSound ==
  ASSUME TypeOK, [Next]_vars, NEW r \in Rooms, Sound(room[r]) PROVE Sound(room'[r])
<1>1. Changed(r)
  BY StepChanges
<1>2. ASSUME NEW new, Sound(new) PROVE Sound(Collected(new))
  BY <1>2, EmptySound DEF Collected
<1> QED
  BY <1>1, <1>2, ChangeSound, EmptySound DEF Changed, Change

-----------------------------------------------------------------------------
(* The timer that ends a phase, where the phase has one, is pending; while players *)
(* prepare, one of them is not ready.  A room that has lost all but one player is  *)
(* not looked after when a match is over.                                          *)
Ticking(rm) == \E n \in 0..CountdownTicks : Pending(rm, "countdown", Tick(n))
Clocked(rm) == rm.store = "open" =>
  /\ rm.phase = "countdown" => Ticking(rm) \/ Pending(rm, "post", Timer("next"))
  /\ rm.phase = "preparing" => Pending(rm, "prepare", Timer("prepare")) /\ NotReady(rm) # {}
  /\ rm.phase = "playing"   => Pending(rm, "round", Timer("round"))
  /\ Len(rm.players) >= 2 =>
       /\ rm.phase = "round_end" => Pending(rm, "post", Timer("finish"))
       /\ rm.phase \in {"game_over", "rematch_waiting"} => rm.handle["ttl"] # NoTimer

(* The timers that end a phase. *)
EndsPhase(ph) ==
  CASE ph = "countdown" -> {Tick(n) : n \in 0..CountdownTicks} \cup {Timer("next")}
    [] ph = "preparing" -> {Timer("prepare")}
    [] ph = "playing"   -> {Timer("round")}
    [] ph = "round_end" -> {Timer("finish")}
    [] OTHER            -> {}

(* The phase goes on, and no pending timer is gone, but for the given ones. *)
GoesOn(old, new, spent) ==
  /\ Kept(old, new) /\ new.phase = old.phase /\ new.micReady = old.micReady
  /\ \A h \in MatchHandles, t \in Timers \ spent : Pending(old, h, t) => Pending(new, h, t)
  /\ old.handle["ttl"] # NoTimer => new.handle["ttl"] # NoTimer

LEMMA GoesOnClocked ==
  ASSUME NEW old, NEW new, NEW spent, Clocked(old), GoesOn(old, new, spent),
         spent \cap EndsPhase(old.phase) = {}
  PROVE  Clocked(new)
<1>1. /\ new.store = old.store /\ new.players = old.players /\ new.phase = old.phase
      /\ new.micReady = old.micReady /\ NotReady(new) = NotReady(old)
  BY DEF GoesOn, Kept, NotReady, Members
<1>2. ASSUME NEW h \in MatchHandles, NEW t \in Timers, t \in EndsPhase(old.phase), Pending(old, h, t)
      PROVE  Pending(new, h, t)
  BY <1>2 DEF GoesOn
<1>3. /\ "countdown" \in MatchHandles /\ "post" \in MatchHandles
      /\ "prepare" \in MatchHandles /\ "round" \in MatchHandles
  BY DEF MatchHandles
<1>4. /\ \A n \in 0..CountdownTicks : Tick(n) \in Timers
      /\ Timer("next") \in Timers /\ Timer("prepare") \in Timers
      /\ Timer("round") \in Timers /\ Timer("finish") \in Timers
  BY DEF Timers
<1>5. SUFFICES ASSUME new.store = "open" PROVE Clocked(new)
  BY DEF Clocked
<1>6. new.phase = "countdown" => Ticking(new) \/ Pending(new, "post", Timer("next"))
  BY <1>1, <1>2, <1>3, <1>4, <1>5 DEF Clocked, Ticking, EndsPhase
<1>7. new.phase = "preparing" => Pending(new, "prepare", Timer("prepare")) /\ NotReady(new) # {}
  BY <1>1, <1>2, <1>3, <1>4, <1>5 DEF Clocked, EndsPhase
<1>8. new.phase = "playing" => Pending(new, "round", Timer("round"))
  BY <1>1, <1>2, <1>3, <1>4, <1>5 DEF Clocked, EndsPhase
<1>9. Len(new.players) >= 2 /\ new.phase = "round_end" => Pending(new, "post", Timer("finish"))
  BY <1>1, <1>2, <1>3, <1>4, <1>5 DEF Clocked, EndsPhase
<1>10. Len(new.players) >= 2 /\ new.phase \in {"game_over", "rematch_waiting"} => new.handle["ttl"] # NoTimer
  BY <1>1, <1>5 DEF Clocked, GoesOn
<1> QED
  BY <1>6, <1>7, <1>8, <1>9, <1>10 DEF Clocked

LEMMA NoTimerIsNone == NoTimer \notin Timers
BY DEF NoTimer, Timers, Timer, Tick, Grace

(* Starting a timer stops none, as far as its phase goes; *)
LEMMA ArmGoesOn ==
  ASSUME NEW rm \in GameRoomType, NEW h \in Handles, NEW t \in Timers \cup {NoTimer},
         h # "ttl" \/ t # NoTimer
  PROVE  GoesOn(rm, Arm(rm, h, t), {})
<1> DEFINE new == Arm(rm, h, t)
<1>1. /\ new.store = rm.store /\ new.players = rm.players /\ new.phase = rm.phase
      /\ new.micReady = rm.micReady /\ new.lost = Lose(rm.lost, rm.handle[h])
      /\ \A k \in Handles : new.handle[k] = IF k = h THEN t ELSE rm.handle[k]
  BY DEF Arm, GameRoomType
<1> HIDE DEF new
<1>2. \A x \in Timers : rm.lost[x] \in Nat
  BY DEF GameRoomType
<1>3. \A x \in Timers : new.lost[x] = IF x = rm.handle[h] THEN rm.lost[x] + 1 ELSE rm.lost[x]
  BY <1>1, NoTimerIsNone DEF Lose, GameRoomType
<1>4. MatchHandles \subseteq Handles /\ "ttl" \in Handles
  BY DEF Handles, RoomHandles
<1>5. \A k \in MatchHandles, x \in Timers : Pending(rm, k, x) => Pending(new, k, x)
  BY <1>1, <1>2, <1>3, <1>4 DEF Pending
<1>6. rm.handle["ttl"] # NoTimer => new.handle["ttl"] # NoTimer
  BY <1>1, <1>4
<1> QED
  BY <1>1, <1>5, <1>6 DEF GoesOn, Kept, new

(* nor does clearing those of players. *)
LEMMA CancelGoesOn ==
  ASSUME NEW rm \in GameRoomType, NEW hs, hs \cap RoomHandles = {}
  PROVE  GoesOn(rm, Cancel(rm, hs), {})
<1> DEFINE new == Cancel(rm, hs)
<1>1. /\ new.store = rm.store /\ new.players = rm.players /\ new.phase = rm.phase
      /\ new.micReady = rm.micReady /\ new.lost = rm.lost
      /\ \A k \in RoomHandles : new.handle[k] = rm.handle[k]
  BY DEF Cancel, GameRoomType, Handles
<1> QED
  BY <1>1 DEF GoesOn, Kept, Pending, RoomHandles

LEMMA RefreshTTLGoesOn ==
  ASSUME NEW rm \in GameRoomType
  PROVE  GoesOn(rm, RefreshTTL(rm), {}) /\ RefreshTTL(rm).handle["ttl"] # NoTimer
<1> DEFINE c == Cancel(rm, {"ttl"})
           new == Arm(c, "ttl", Timer("ttl"))
<1>1. /\ c.store = rm.store /\ c.players = rm.players /\ c.phase = rm.phase
      /\ c.micReady = rm.micReady /\ c.lost = rm.lost
      /\ \A k \in MatchHandles : c.handle[k] = rm.handle[k]
  BY DEF Cancel, GameRoomType, Handles, RoomHandles, MatchHandles
<1>2. c \in GameRoomType
  BY CancelType
<1> HIDE DEF c
<1>3. "ttl" \in Handles /\ Timer("ttl") \in Timers /\ Timer("ttl") # NoTimer
  BY NoTimerIsNone DEF Handles, RoomHandles, Timers
<1>4. GoesOn(c, new, {})
  BY <1>2, <1>3, ArmGoesOn
<1>5. new.handle["ttl"] = Timer("ttl")
  BY <1>2, <1>3 DEF Arm, GameRoomType
<1> HIDE DEF new
<1>6. RefreshTTL(rm) = new
  BY DEF RefreshTTL, c, new
<1> QED
  BY <1>1, <1>3, <1>4, <1>5, <1>6 DEF GoesOn, Kept, Pending

(* A callback spends its own timer. *)
LEMMA ExpiredGoesOn ==
  ASSUME NEW rm \in GameRoomType, NEW h \in Handles, h # "ttl", NEW t \in Timers, NEW new \in Expired(rm, h, t)
  PROVE  GoesOn(rm, new, {t})
<1>1. CASE rm.handle[h] = t /\ new = [rm EXCEPT !.handle[h] = NoTimer]
  <2>1. /\ new.store = rm.store /\ new.players = rm.players /\ new.phase = rm.phase
        /\ new.micReady = rm.micReady /\ new.lost = rm.lost
        /\ \A k \in Handles \ {h} : new.handle[k] = rm.handle[k]
    BY <1>1 DEF GameRoomType
  <2>2. MatchHandles \subseteq Handles /\ "ttl" \in Handles
    BY DEF Handles, RoomHandles
  <2> QED
    BY <1>1, <2>1, <2>2 DEF GoesOn, Kept, Pending
<1>2. CASE new = [rm EXCEPT !.lost[t] = @ - 1]
  <2>1. /\ new.store = rm.store /\ new.players = rm.players /\ new.phase = rm.phase
        /\ new.micReady = rm.micReady /\ new.handle = rm.handle
        /\ \A x \in Timers \ {t} : new.lost[x] = rm.lost[x]
    BY <1>2 DEF GameRoomType
  <2> QED
    BY <2>1 DEF GoesOn, Kept, Pending
<1> QED
  BY <1>1, <1>2 DEF Expired

LEMMA GoesOnTransitive ==
  ASSUME NEW a, NEW b, NEW c, NEW S, GoesOn(a, b, S), GoesOn(b, c, {}) PROVE GoesOn(a, c, S)
BY DEF GoesOn, Kept

-----------------------------------------------------------------------------
(* Rooms between matches need no timer, and those that are gone need nothing. *)
LEMMA IdleClocked ==
  ASSUME NEW rm, rm.store # "open" \/ rm.phase \in {"waiting", "ready"} PROVE Clocked(rm)
BY DEF Clocked

LEMMA DeletedClocked == ASSUME NEW rm, Whole(rm) PROVE Clocked(Deleted(rm))
BY DeletedSound, IdleClocked

(* What starts a phase starts its timer. *)
LEMMA StartCountdownClocked ==
  ASSUME NEW rm \in GameRoomType, Clocked(rm) \/ rm.phase = "countdown" PROVE Clocked(StartCountdown(rm))
<1> DEFINE new == Arm(rm, "countdown", Tick(CountdownTicks))
<1>1. "countdown" \in Handles /\ Tick(CountdownTicks) \in Timers /\ CountdownTicks \in 0..CountdownTicks
  BY TicksAssumption DEF Handles, RoomHandles, MatchHandles, Timers
<1>2. GoesOn(rm, new, {})
  BY <1>1, ArmGoesOn
<1>3. new.handle["countdown"] = Tick(CountdownTicks) /\ new.phase = rm.phase
  BY <1>1 DEF Arm, GameRoomType
<1>4. CASE rm.phase = "countdown"
  <2>1. Ticking(new)
    BY <1>1, <1>3 DEF Ticking, Pending
  <2> QED
    BY <1>3, <1>4, <2>1 DEF Clocked, StartCountdown
<1>5. CASE rm.phase # "countdown"
  BY <1>2, <1>5, GoesOnClocked DEF StartCountdown
<1> QED
  BY <1>4, <1>5

LEMMA PrepareRoundClocked ==
  ASSUME NEW rm, Sound(rm), rm.phase = "game_over" => Clocked(rm) PROVE Clocked(PrepareRound(rm))
<1> DEFINE new == PrepareRound(rm)
<1>1. CASE rm.phase = "game_over"
  BY <1>1 DEF PrepareRound
<1>2. CASE rm.phase # "game_over"
  <2>1. /\ new.store = rm.store /\ new.players = rm.players /\ new.phase = "preparing"
        /\ new.micReady = {} /\ new.handle["prepare"] = Timer("prepare")
    BY <1>2 DEF PrepareRound, Arm, Sound, Whole, GameRoomType, Handles, RoomHandles, MatchHandles
  <2> HIDE DEF new
  <2>2. new.store = "open" => NotReady(new) # {}
    <3>1. SUFFICES ASSUME new.store = "open" PROVE NotReady(new) # {}
      OBVIOUS
    <3>2. rm.players # <<>> /\ rm.players \in Seq(Users)
      BY <2>1, <3>1 DEF Sound, Whole, Peopled, GameRoomType
    <3>3. 1 \in DOMAIN rm.players
      BY <3>2
    <3>4. rm.players[1] \in NotReady(new)
      BY <2>1, <3>3 DEF NotReady, Members
    <3> QED
      BY <3>4
  <2>3. Clocked(new)
    BY <2>1, <2>2 DEF Clocked, Pending
  <2> QED
    BY <2>3 DEF new
<1> QED
  BY <1>1, <1>2

LEMMA DoStartRoundClocked == ASSUME NEW rm \in GameRoomType PROVE Clocked(DoStartRound(rm))
<1> DEFINE new == DoStartRound(rm)
<1>1. new.phase = "playing" /\ new.handle["round"] = Timer("round")
  BY DEF DoStartRound, Arm, GameRoomType, Handles, RoomHandles, MatchHandles
<1> QED
  BY <1>1 DEF Clocked, Pending

LEMMA ResolveRoundClocked == ASSUME NEW rm \in GameRoomType PROVE Clocked(ResolveRound(rm))
<1> DEFINE sc == ScoreRound(rm)
<1>1. sc \in GameRoomType /\ "post" \in Handles
  BY ScoreRoundType DEF Handles, RoomHandles, MatchHandles
<1> HIDE DEF sc
<1>2. CASE rm.round >= TotalRounds
  <2> DEFINE new == Arm([sc EXCEPT !.phase = "round_end"], "post", Timer("finish"))
  <2>1. new.phase = "round_end" /\ new.handle["post"] = Timer("finish")
    BY <1>1 DEF Arm, GameRoomType
  <2>2. ResolveRound(rm) = new
    BY <1>2 DEF ResolveRound, sc
  <2> QED
    BY <2>1, <2>2 DEF Clocked, Pending
<1>3. CASE ~(rm.round >= TotalRounds)
  <2> DEFINE new == Arm([sc EXCEPT !.phase = "countdown"], "post", Timer("next"))
  <2>1. new.phase = "countdown" /\ new.handle["post"] = Timer("next")
    BY <1>1 DEF Arm, GameRoomType
  <2>2. ResolveRound(rm) = new
    BY <1>3 DEF ResolveRound, sc
  <2> QED
    BY <2>1, <2>2 DEF Clocked, Pending
<1> QED
  BY <1>2, <1>3

LEMMA OverClocked ==
  ASSUME NEW rm \in GameRoomType, rm.phase = "game_over" PROVE Clocked(RefreshTTL(rm))
<1>1. RefreshTTL(rm).phase = "game_over"
  BY RefreshTTLGoesOn DEF GoesOn
<1> QED
  BY <1>1, RefreshTTLGoesOn DEF Clocked

LEMMA FinishGameClocked ==
  ASSUME NEW rm \in GameRoomType, rm.phase = "game_over" => Clocked(rm) PROVE Clocked(FinishGame(rm))
<1> DEFINE over == [rm EXCEPT !.phase = "game_over"]
<1>1. over \in GameRoomType /\ over.phase = "game_over" /\ over.players = rm.players
  BY DEF GameRoomType, Phases
<1> HIDE DEF over
<1>2. Len(rm.players) < 2 => Clocked(over)
  <2>1. Len(rm.players) \in Nat
    BY DEF GameRoomType
  <2> QED
    BY <1>1, <2>1 DEF Clocked
<1>3. Clocked(RefreshTTL(over))
  BY <1>1, OverClocked
<1> QED
  BY <1>2, <1>3 DEF FinishGame, over

LEMMA ForfeitedClocked ==
  ASSUME NEW rm, Whole(rm), rm.phase = "game_over" => Clocked(rm), NEW u, NEW new, Forfeited(rm, u, new)
  PROVE  Clocked(new)
<1>1. GameOver(rm).phase = "game_over" /\ Whole(GameOver(rm)) /\ GameOver(rm) \in GameRoomType
  <2>1. Cancel(rm, MatchHandles) \in GameRoomType
    BY CancelType DEF Whole
  <2> QED
    BY <2>1, EndsWhole DEF GameOver, GameRoomType, Whole
<1> QED
  BY <1>1, OverClocked, DeletedClocked DEF Forfeited

-----------------------------------------------------------------------------
LEMMA PhaseTimers ==
  /\ \A n \in 0..CountdownTicks, ph \in Phases \ {"countdown"} : {Tick(n)} \cap EndsPhase(ph) = {}
  /\ \A ph \in Phases \ {"preparing"} : {Timer("prepare")} \cap EndsPhase(ph) = {}
  /\ \A ph \in Phases \ {"playing"} : {Timer("round")} \cap EndsPhase(ph) = {}
  /\ \A ph \in Phases \ {"round_end"} : {Timer("finish")} \cap EndsPhase(ph) = {}
  /\ \A ph \in Phases \ {"countdown"} : {Timer("next")} \cap EndsPhase(ph) = {}
  /\ \A ph \in Phases : \A u : {Grace(u)} \cap EndsPhase(ph) = {}
BY DEF EndsPhase, Tick, Timer, Grace

LEMMA HandleTimers ==
  /\ RoomHandles \subseteq Handles /\ Users \subseteq Handles
  /\ {"countdown", "prepare", "round", "post"} \subseteq Handles \ {"ttl"} /\ "ttl" \in Handles
  /\ Users \cap RoomHandles = {} /\ "ttl" \notin Users
  /\ {Timer("prepare"), Timer("round"), Timer("finish"), Timer("next"), Timer("ttl")} \subseteq Timers
  /\ \A n \in 0..CountdownTicks : Tick(n) \in Timers
  /\ \A u \in Users : Grace(u) \in Timers
<1>1. /\ {Timer("prepare"), Timer("round"), Timer("finish"), Timer("next"), Timer("ttl")} \subseteq Timers
      /\ \A n \in 0..CountdownTicks : Tick(n) \in Timers
      /\ \A u \in Users : Grace(u) \in Timers
  BY DEF Timers
<1> QED
  BY <1>1, HandlesAssumption DEF Handles, RoomHandles, MatchHandles

(* Change by change. *)
LEMMA ConnectionsClocked ==
  ASSUME NEW old, Sound(old), Clocked(old), NEW new, Returned(old, new) \/ Dropped(old, new)
  PROVE  Clocked(new)
<1>0. Whole(old) /\ old \in GameRoomType /\ Members(old) \subseteq Users
  BY DEF Sound, Whole, Members, GameRoomType
<1>1. ASSUME NEW u \in Members(old), old.phase \notin Reconnects PROVE Clocked(RemovePlayer(old, u))
  <2> DEFINE rm == RemovePlayer(old, u)
             c == Cancel(old, {u})
  <2>1. Whole(rm) /\ rm.store = old.store /\ rm.phase = old.phase /\ Len(rm.players) = Len(old.players) - 1
    BY <1>0, UnseatWhole
  <2>2. rm.handle["ttl"] = old.handle["ttl"]
    <3>1. c.handle["ttl"] = old.handle["ttl"] /\ c \in GameRoomType
      <4>1. "ttl" \in Handles /\ "ttl" # u
        BY <1>0, HandleTimers
      <4>2. c.handle["ttl"] = old.handle["ttl"]
        BY <1>0, <4>1 DEF Cancel, GameRoomType
      <4> QED
        BY <1>0, <4>2, CancelType
    <3> DEFINE i == CHOOSE i \in DOMAIN old.players : old.players[i] = u
               gone == [c EXCEPT !.players = RemoveAt(@, i), !.info[u] = NoPlayer]
    <3>3. rm = gone
      BY DEF RemovePlayer
    <3> HIDE DEF c, i
    <3>2. rm.handle = c.handle
      BY <3>1, <3>3 DEF GameRoomType
    <3> QED
      BY <3>1, <3>2
  <2> HIDE DEF rm
  <2>3. rm.phase \notin {"countdown", "preparing", "playing", "round_end"}
    BY <1>1, <2>1 DEF Reconnects, InGame
  <2>4. Len(old.players) \in Nat
    BY <1>0 DEF GameRoomType
  <2> QED
    BY <2>1, <2>2, <2>3, <2>4 DEF Clocked, rm
<1>2. ASSUME NEW u \in Members(old), NEW s \in Sockets PROVE Clocked(Rejoined(old, u, s))
  <2> DEFINE c == Cancel(old, {u})
             rm == [c EXCEPT !.info[u].sock = s, !.info[u].connected = TRUE]
  <2>1. GoesOn(old, c, {}) /\ c \in GameRoomType
    BY <1>0, CancelGoesOn, CancelType, HandleTimers
  <2> HIDE DEF c
  <2>2. GoesOn(c, rm, {})
    BY <2>1 DEF GoesOn, Kept, Pending, GameRoomType
  <2>3. Clocked(c)
    BY <2>1, GoesOnClocked
  <2>4. Clocked(rm)
    BY <2>2, <2>3, GoesOnClocked
  <2> QED
    BY <2>4 DEF Rejoined, c
<1>3. ASSUME NEW u \in Members(old)
      PROVE  LET rm == Away(old, u) IN
             Clocked(RefreshTTL(rm)) /\ Clocked(Arm(rm, u, Grace(u))) /\ Clocked(Deleted(rm))
  <2> DEFINE rm == Away(old, u)
  <2>1. Whole(rm) /\ rm \in GameRoomType
    BY <1>0, PlayersWhole DEF Whole
  <2>2. GoesOn(old, rm, {})
    BY <1>0 DEF Away, GoesOn, Kept, Pending, GameRoomType
  <2> HIDE DEF rm
  <2>3. Clocked(rm)
    BY <2>2, GoesOnClocked
  <2>4. GoesOn(rm, RefreshTTL(rm), {}) /\ GoesOn(rm, Arm(rm, u, Grace(u)), {})
    BY <1>0, <2>1, RefreshTTLGoesOn, ArmGoesOn, HandleTimers
  <2>5. Clocked(RefreshTTL(rm)) /\ Clocked(Arm(rm, u, Grace(u)))
    BY <2>3, <2>4, GoesOnClocked
  <2> QED
    BY <2>1, <2>5, DeletedClocked DEF rm
<1>4. \A u \in Members(old) : Clocked(Deleted(RemovePlayer(old, u)))
  BY <1>0, UnseatWhole, DeletedClocked
<1> QED
  BY <1>1, <1>2, <1>3, <1>4 DEF Returned, Dropped

LEMMA PhasesOf ==
  ASSUME NEW rm \in GameRoomType
  PROVE  /\ ResetGameData(rm).phase = "ready" /\ SetupCancelled(rm).phase = "waiting"
         /\ SlotReleased(rm).phase = "waiting"
         /\ \A hs : Cancel(rm, hs).phase = rm.phase /\ Cancel(rm, hs) \in GameRoomType
<1>1. ASSUME NEW x \in GameRoomType, NEW hs PROVE Cancel(x, hs).phase = x.phase /\ Cancel(x, hs) \in GameRoomType
  BY CancelType DEF Cancel, GameRoomType
<1>2. ASSUME NEW ph \in Phases
      PROVE  LET y == ClearProgress(rm, ph)
                 z == [y EXCEPT !.official = FALSE]
             IN  y \in GameRoomType /\ y.phase = ph /\ z \in GameRoomType /\ z.phase = ph
  <2> DEFINE y == ClearProgress(rm, ph)
  <2>1. y \in GameRoomType
    BY ClearProgressType
  <2>2. y.phase = ph
    BY DEF ClearProgress, GameRoomType
  <2> HIDE DEF y
  <2> QED
    BY <2>1, <2>2 DEF GameRoomType, y
<1>3. "ready" \in Phases /\ "waiting" \in Phases
  BY DEF Phases
<1> QED
  BY <1>1, <1>2, <1>3 DEF ResetGameData, SetupCancelled, SlotReleased

LEMMA EnteringClocked ==
  ASSUME NEW old, Sound(old), NEW new,
         Created(old, new) \/ JoinStarted(old, new) \/ Entered(old, new)
  PROVE  Clocked(new)
<1>0. old \in GameRoomType
  BY DEF Sound, Whole
<1>1. ASSUME Created(old, new) PROVE Clocked(new)
  <2> DEFINE empty == EmptyRoom("open")
             f(u) == Forget(empty, u)
  <2>1. PICK u \in Users, s \in Sockets : new = SetPlayer(empty, u, Player(s, TRUE))
    BY <1>1 DEF Created
  <2>2. f(u).phase = "waiting" /\ f(u) \in GameRoomType
    BY EmptyType, ForgetType, HandlesType DEF Forget, Arm, EmptyRoom
  <2> HIDE DEF f
  <2>3. new.phase = "waiting"
    BY <2>1, <2>2 DEF SetPlayer, f, GameRoomType
  <2> QED
    BY <2>3, IdleClocked
<1>2. ASSUME JoinStarted(old, new) PROVE Clocked(new)
  <2>1. new.phase \in {"waiting", "ready"}
    BY <1>0, <1>2, PhasesOf DEF JoinStarted, JoinBegun
  <2> QED
    BY <2>1, IdleClocked
<1>3. ASSUME NEW u \in Users, NEW s \in Sockets PROVE Clocked(Joined(old, u, s))
  <2>1. SetPlayer(old, u, Player(s, FALSE)) \in GameRoomType
    BY <1>0, SetPlayerType, PlayerType
  <2>2. Joined(old, u, s).phase = "ready"
    BY <2>1 DEF Joined, GameRoomType
  <2> QED
    BY <2>2, IdleClocked
<1> QED
  BY <1>1, <1>2, <1>3 DEF Entered

LEMMA EventsClocked ==
  ASSUME NEW old, Sound(old), Clocked(old), NEW new,
         Readied(old, new) \/ MicReadied(old, new) \/ MicFailed(old, new) \/ Submitted(old, new)
         \/ Rematched(old, new)
  PROVE  Clocked(new)
<1>0. Whole(old) /\ old \in GameRoomType
  BY DEF Sound, Whole
<1>1. ASSUME Readied(old, new) PROVE Clocked(new)
  <2>1. PICK u \in Users : LET rm == [old EXCEPT !.info[u].ready = TRUE] IN
          old.phase = "ready" /\ (new = rm \/ new = StartCountdown([rm EXCEPT !.phase = "countdown"]))
    BY <1>1 DEF Readied
  <2> DEFINE rm == [old EXCEPT !.info[u].ready = TRUE]
             x == [rm EXCEPT !.phase = "countdown"]
  <2>2. rm \in GameRoomType /\ rm.phase = "ready"
    BY <1>0, <2>1, InfoWhole DEF Whole, GameRoomType
  <2> HIDE DEF rm
  <2>3. x \in GameRoomType /\ x.phase = "countdown"
    BY <2>2 DEF GameRoomType, Phases
  <2> HIDE DEF x
  <2>4. Clocked(StartCountdown(x)) /\ Clocked(rm)
    BY <2>2, <2>3, StartCountdownClocked, IdleClocked
  <2> QED
    BY <2>1, <2>4 DEF rm, x
<1>2. ASSUME MicReadied(old, new) PROVE Clocked(new)
  <2>1. PICK u \in Users : LET rm == [old EXCEPT !.micReady = @ \cup {u}] IN
          /\ old.phase = "preparing"
          /\ \/ ~(Members(rm) \subseteq rm.micReady) /\ new = rm
             \/ new = DoStartRound(Cancel(rm, {"prepare"}))
    BY <1>2 DEF MicReadied
  <2> DEFINE rm == [old EXCEPT !.micReady = @ \cup {u}]
  <2>2. /\ rm.store = old.store /\ rm.phase = old.phase /\ rm.handle = old.handle
        /\ rm.lost = old.lost /\ rm \in GameRoomType
    BY <1>0 DEF GameRoomType
  <2> HIDE DEF rm
  <2>3. CASE ~(Members(rm) \subseteq rm.micReady) /\ new = rm
    <3>1. NotReady(new) # {}
      BY <2>3 DEF NotReady
    <3> QED
      BY <2>1, <2>2, <2>3, <3>1 DEF Clocked, Pending
  <2>4. CASE new = DoStartRound(Cancel(rm, {"prepare"}))
    BY <2>2, <2>4, CancelType, DoStartRoundClocked
  <2> QED
    BY <2>1, <2>3, <2>4 DEF rm
<1>3. ASSUME MicFailed(old, new) PROVE Clocked(new)
  <2> DEFINE c == Cancel(old, {"prepare"})
  <2>1. c.phase = "preparing" /\ ((\E u \in Users : Forfeited(c, u, new)) \/ new = ResetGameData(c))
    BY <1>3 DEF MicFailed
  <2>2. Whole(c) /\ c \in GameRoomType
    BY <1>0, TimersWhole, CancelType
  <2> HIDE DEF c
  <2>3. Clocked(ResetGameData(c))
    BY <2>2, PhasesOf, IdleClocked
  <2> QED
    BY <2>1, <2>2, <2>3, ForfeitedClocked
<1>4. ASSUME Submitted(old, new) PROVE Clocked(new)
  <2>1. PICK u \in Users, db \in Decibels : LET rm == [old EXCEPT !.info[u].sub = db] IN
          new = rm \/ new = CloseRound(Cancel(rm, {"round"}))
    BY <1>4 DEF Submitted
  <2> DEFINE rm == [old EXCEPT !.info[u].sub = db]
             c == Cancel(rm, {"round"})
             x == [c EXCEPT !.phase = "round_end"]
  <2>2. GoesOn(old, rm, {})
    BY <1>0 DEF GoesOn, Kept, Pending, GameRoomType
  <2>3. rm \in GameRoomType
    BY <1>0, InfoWhole DEF Whole
  <2> HIDE DEF rm
  <2>4. Clocked(rm) /\ c \in GameRoomType
    BY <2>2, <2>3, GoesOnClocked, CancelType
  <2> HIDE DEF c
  <2>5. CASE Len(c.players) < 2
    <3>1. x.phase = "round_end" /\ x.players = c.players /\ Len(c.players) \in Nat
      BY <2>4 DEF GameRoomType
    <3> HIDE DEF x
    <3>2. Clocked(x)
      BY <2>5, <3>1 DEF Clocked
    <3> QED
      BY <2>1, <2>4, <2>5, <3>2 DEF CloseRound, rm, c, x
  <2>6. CASE ~(Len(c.players) < 2)
    BY <2>1, <2>4, <2>6, ResolveRoundClocked DEF CloseRound, rm, c
  <2> QED
    BY <2>5, <2>6
<1>5. ASSUME Rematched(old, new) PROVE Clocked(new)
  <2>1. PICK u \in Users : LET rm == [old EXCEPT !.info[u].rematch = TRUE, !.phase = "rematch_waiting"] IN
          old.phase \in {"game_over", "rematch_waiting"} /\ (new = rm \/ new = StartRematch(rm))
    BY <1>5 DEF Rematched
  <2> DEFINE rm == [old EXCEPT !.info[u].rematch = TRUE, !.phase = "rematch_waiting"]
  <2>2. rm.store = old.store /\ rm.players = old.players /\ rm.handle = old.handle /\ rm.phase = "rematch_waiting"
    BY <1>0 DEF GameRoomType
  <2>3. rm \in GameRoomType
    BY <1>0, InfoWhole, QuietPhases DEF Whole
  <2> HIDE DEF rm
  <2>4. Clocked(rm)
    BY <2>1, <2>2 DEF Clocked
  <2>5. StartRematch(rm).phase = "ready"
    BY <2>3, PhasesOf DEF StartRematch
  <2> QED
    BY <2>1, <2>4, <2>5, IdleClocked DEF rm
<1> QED
  BY <1>1, <1>2, <1>3, <1>4, <1>5

LEMMA LeftClocked ==
  ASSUME NEW old, Sound(old), NEW new, Left(old, new) PROVE Clocked(new)
<1>1. PICK u \in Members(old) :
        LET active == old.phase \in InGame
            rm == RemovePlayer(IF active THEN Cancel(old, {"prepare"}) ELSE old, u)
            opp == OpponentOf(old, u)
        IN
        \/ active /\ rm.official /\ Forfeited(rm, u, new)
        \/ ~(active /\ rm.official) /\ rm.players = <<>> /\ new = Deleted(rm)
        \/ active /\ ~rm.official /\ rm.players # <<>> /\ Stayed(SetupCancelled(rm), opp, old.info[u].host, new)
        \/ ~active /\ rm.players # <<>> /\ Stayed(SlotReleased(rm), opp, old.info[u].host, new)
  BY DEF Left
<1> DEFINE active == old.phase \in InGame
           x == IF active THEN Cancel(old, {"prepare"}) ELSE old
           rm == RemovePlayer(x, u)
           opp == OpponentOf(old, u)
           wasHost == old.info[u].host
<1>2. Whole(x) /\ x.phase = old.phase /\ Members(x) = Members(old)
  <2>1. Whole(old) /\ Whole(Cancel(old, {"prepare"}))
    BY TimersWhole DEF Sound
  <2>2. LET c == Cancel(old, {"prepare"}) IN c.phase = old.phase /\ c.players = old.players
    BY <2>1 DEF Whole, Cancel, GameRoomType
  <2> QED
    BY <2>1, <2>2 DEF Members
<1> HIDE DEF x
<1>3. Whole(rm) /\ rm \in GameRoomType /\ rm.phase = old.phase
  BY <1>2, UnseatWhole DEF Whole
<1>4. \/ active /\ Forfeited(rm, u, new)
      \/ new = Deleted(rm)
      \/ Stayed(SetupCancelled(rm), opp, wasHost, new)
      \/ Stayed(SlotReleased(rm), opp, wasHost, new)
  BY <1>1 DEF x
<1> HIDE DEF rm, opp, wasHost, active
<1>5. ASSUME active, Forfeited(rm, u, new) PROVE Clocked(new)
  <2>1. rm.phase # "game_over"
    BY <1>3, <1>5 DEF active, InGame
  <2> QED
    BY <1>3, <1>5, <2>1, ForfeitedClocked
<1>6. ASSUME NEW y, Whole(y), y.phase = "waiting", Stayed(y, opp, wasHost, new) PROVE Clocked(new)
  <2>1. new = Deleted(y) \/ new = [y EXCEPT !.info[opp].host = TRUE] \/ new = y
    BY <1>6 DEF Stayed
  <2>2. [y EXCEPT !.info[opp].host = TRUE].phase = "waiting"
    BY <1>6 DEF Whole, GameRoomType
  <2> QED
    BY <1>6, <2>1, <2>2, DeletedClocked, IdleClocked
<1>7. /\ Whole(SetupCancelled(rm)) /\ SetupCancelled(rm).phase = "waiting"
      /\ Whole(SlotReleased(rm)) /\ SlotReleased(rm).phase = "waiting"
  BY <1>3, ResetsWhole, PhasesOf
<1> QED
  BY <1>3, <1>4, <1>5, <1>6, <1>7, DeletedClocked

LEMMA ExpiredStill ==
  ASSUME NEW old, Sound(old), Clocked(old), NEW h \in Handles, h # "ttl", NEW t \in Timers, NEW rm \in Expired(old, h, t)
  PROVE  /\ Sound(rm) /\ Whole(rm) /\ rm \in GameRoomType
         /\ rm.phase = old.phase /\ rm.phase \in Phases
         /\ rm.store = old.store /\ NotReady(rm) = NotReady(old)
         /\ {t} \cap EndsPhase(rm.phase) = {} => Clocked(rm)
<1>1. old \in GameRoomType /\ Sound(rm) /\ Whole(rm) /\ rm \in GameRoomType /\ rm.phase \in Phases
  <2>1. Sound(rm)
    BY TimersSound
  <2> QED
    BY <2>1 DEF Sound, Whole, GameRoomType
<1>2. GoesOn(old, rm, {t})
  BY <1>1, ExpiredGoesOn
<1>3. {t} \cap EndsPhase(old.phase) = {} => Clocked(rm)
  BY <1>2, GoesOnClocked
<1> QED
  BY <1>1, <1>2, <1>3 DEF GoesOn, Kept, NotReady, Members

LEMMA ForgetStill ==
  ASSUME NEW rm, Sound(rm), NEW h \in Handles, h # "ttl"
  PROVE  LET x == Forget(rm, h) IN
         /\ Sound(x) /\ x \in GameRoomType /\ x.phase = rm.phase
         /\ Clocked(rm) => Clocked(x)
<1>1. rm \in GameRoomType /\ Sound(Forget(rm, h))
  BY TimersSound DEF Sound, Whole
<1>2. GoesOn(rm, Forget(rm, h), {})
  BY <1>1, ArmGoesOn DEF Forget
<1>3. Clocked(rm) => Clocked(Forget(rm, h))
  BY <1>2, GoesOnClocked
<1>4. Forget(rm, h) \in GameRoomType /\ Forget(rm, h).phase = rm.phase
  BY <1>1, <1>2 DEF Sound, Whole, GoesOn
<1> QED
  BY <1>1, <1>3, <1>4

LEMMA CallbacksClocked ==
  ASSUME NEW old, Sound(old), Clocked(old), NEW new,
         \/ Ticked(old, new) \/ Prepared(old, new) \/ PrepareEnded(old, new) \/ RoundEnded(old, new)
         \/ Finished(old, new) \/ NextStarted(old, new) \/ GraceEnded(old, new) \/ TTLEnded(old, new)
  PROVE  Clocked(new)
<1>1. ASSUME Ticked(old, new) PROVE Clocked(new)
  <2>1. PICK n \in 1..CountdownTicks : \E rm \in Expired(old, "countdown", Tick(n)) :
          new = Arm(rm, "countdown", Tick(n - 1))
    BY <1>1 DEF Ticked
  <2>2. PICK rm \in Expired(old, "countdown", Tick(n)) : new = Arm(rm, "countdown", Tick(n - 1))
    BY <2>1
  <2>3. n \in 0..CountdownTicks /\ n - 1 \in 0..CountdownTicks
    BY TicksAssumption
  <2>4. rm \in GameRoomType /\ rm.phase \in Phases /\ ({Tick(n)} \cap EndsPhase(rm.phase) = {} => Clocked(rm))
    BY <2>3, ExpiredStill, HandleTimers
  <2>5. GoesOn(rm, new, {})
    BY <2>2, <2>3, <2>4, ArmGoesOn, HandleTimers
  <2>6. CASE rm.phase = "countdown"
    <3>1. new.handle["countdown"] = Tick(n - 1) /\ new.phase = "countdown"
      BY <2>2, <2>4, <2>6, HandleTimers DEF Arm, GameRoomType
    <3>2. Ticking(new)
      BY <2>3, <3>1 DEF Ticking, Pending
    <3> QED
      BY <3>1, <3>2 DEF Clocked
  <2>7. CASE rm.phase # "countdown"
    <3>1. Clocked(rm)
      BY <2>3, <2>4, <2>7, PhaseTimers
    <3> QED
      BY <2>5, <3>1, GoesOnClocked
  <2> QED
    BY <2>6, <2>7
<1>2. ASSUME Prepared(old, new) PROVE Clocked(new)
  <2>1. PICK rm \in Expired(old, "countdown", Tick(0)) : new = PrepareRound(Forget(rm, "countdown"))
    BY <1>2 DEF Prepared
  <2>2. 0 \in 0..CountdownTicks
    BY TicksAssumption
  <2>3. Sound(rm) /\ rm.phase \in Phases /\ (rm.phase # "countdown" => Clocked(rm))
    BY <2>2, ExpiredStill, HandleTimers, PhaseTimers
  <2>4. LET x == Forget(rm, "countdown") IN Sound(x) /\ x.phase = rm.phase /\ (Clocked(rm) => Clocked(x))
    BY <2>3, ForgetStill, HandleTimers
  <2> QED
    BY <2>1, <2>3, <2>4, PrepareRoundClocked
<1>3. ASSUME PrepareEnded(old, new) PROVE Clocked(new)
  <2>1. PICK rm \in Expired(old, "prepare", Timer("prepare")) :
          \/ rm.phase # "preparing" /\ new = rm
          \/ rm.phase = "preparing" /\ NotReady(rm) = {} /\ new = Forget(rm, "prepare")
          \/ new = ResetGameData(rm)
          \/ rm.phase = "preparing" /\ \E u \in Users : Forfeited(rm, u, new)
          \/ new = Deleted(rm)
    BY <1>3 DEF PrepareEnded
  <2>2. /\ Sound(rm) /\ Whole(rm) /\ rm \in GameRoomType /\ rm.phase = old.phase /\ rm.phase \in Phases
        /\ rm.store = old.store /\ NotReady(rm) = NotReady(old)
        /\ rm.phase # "preparing" => Clocked(rm)
    BY ExpiredStill, HandleTimers, PhaseTimers
  <2>3. CASE rm.phase = "preparing" /\ NotReady(rm) = {} /\ new = Forget(rm, "prepare")
    <3>1. old.store # "open"
      BY <2>2, <2>3 DEF Clocked
    <3>2. Forget(rm, "prepare").store = rm.store
      BY <2>2, TimersKept, HandleTimers DEF Kept
    <3> QED
      BY <2>2, <2>3, <3>1, <3>2, IdleClocked
  <2>4. Clocked(ResetGameData(rm))
    BY <2>2, PhasesOf, IdleClocked
  <2> QED
    BY <2>1, <2>2, <2>3, <2>4, ForfeitedClocked, DeletedClocked
<1>4. ASSUME RoundEnded(old, new) PROVE Clocked(new)
  <2>1. PICK rm \in Expired(old, "round", Timer("round")) :
          (rm.phase # "playing" /\ new = rm) \/ new = ResolveRound(rm)
    BY <1>4 DEF RoundEnded
  <2>2. rm \in GameRoomType /\ rm.phase \in Phases /\ (rm.phase # "playing" => Clocked(rm))
    BY ExpiredStill, HandleTimers, PhaseTimers
  <2> QED
    BY <2>1, <2>2, ResolveRoundClocked
<1>5. ASSUME Finished(old, new) PROVE Clocked(new)
  <2>1. PICK rm \in Expired(old, "post", Timer("finish")) : new = FinishGame(Forget(rm, "post"))
    BY <1>5 DEF Finished
  <2>2. Sound(rm) /\ rm.phase \in Phases /\ (rm.phase # "round_end" => Clocked(rm))
    BY ExpiredStill, HandleTimers, PhaseTimers
  <2>3. LET x == Forget(rm, "post") IN x \in GameRoomType /\ x.phase = rm.phase /\ (Clocked(rm) => Clocked(x))
    BY <2>2, ForgetStill, HandleTimers
  <2> QED
    BY <2>1, <2>2, <2>3, FinishGameClocked
<1>6. ASSUME NextStarted(old, new) PROVE Clocked(new)
  <2>1. PICK rm \in Expired(old, "post", Timer("next")) : new = StartCountdown(Forget(rm, "post"))
    BY <1>6 DEF NextStarted
  <2>2. Sound(rm) /\ rm.phase \in Phases /\ (rm.phase # "countdown" => Clocked(rm))
    BY ExpiredStill, HandleTimers, PhaseTimers
  <2>3. LET x == Forget(rm, "post") IN x \in GameRoomType /\ x.phase = rm.phase /\ (Clocked(rm) => Clocked(x))
    BY <2>2, ForgetStill, HandleTimers
  <2> QED
    BY <2>1, <2>2, <2>3, StartCountdownClocked
<1>7. ASSUME GraceEnded(old, new) PROVE Clocked(new)
  <2>1. PICK u \in Users : \E rm \in Expired(old, u, Grace(u)) : Forfeited(rm, u, new)
    BY <1>7 DEF GraceEnded
  <2>2. PICK rm \in Expired(old, u, Grace(u)) : Forfeited(rm, u, new)
    BY <2>1
  <2>3. u \in Handles /\ u # "ttl" /\ Grace(u) \in Timers
    BY HandleTimers
  <2>4. Whole(rm) /\ rm.phase \in Phases /\ Clocked(rm)
    BY <2>3, ExpiredStill, PhaseTimers
  <2> QED
    BY <2>2, <2>4, ForfeitedClocked
<1>8. ASSUME TTLEnded(old, new) PROVE Clocked(new)
  <2>1. PICK rm \in Expired(old, "ttl", Timer("ttl")) : new = Deleted(rm)
    BY <1>8 DEF TTLEnded
  <2>2. Whole(rm)
    BY TimersSound, HandleTimers DEF Sound
  <2> QED
    BY <2>1, <2>2, DeletedClocked
<1> QED
  BY <1>1, <1>2, <1>3, <1>4, <1>5, <1>6, <1>7, <1>8

LEMMA StepClocked ==
  ASSUME TypeOK, [Next]_vars, NEW r \in Rooms, Sound(room[r]), Clocked(room[r]) PROVE Clocked(room'[r])
<1>1. Changed(r)
  BY StepChanges
<1>2. \A store \in {"free", "gone"} : Clocked(EmptyRoom(store))
  BY DEF EmptyRoom, Clocked
<1>3. ASSUME NEW new, Clocked(new) PROVE Clocked(Collected(new))
  BY <1>2, <1>3 DEF Collected
<1>4. \A new : Change(room[r], new) => Clocked(new)
  BY ConnectionsClocked, EnteringClocked, EventsClocked, LeftClocked, CallbacksClocked DEF Change, Handled
<1> QED
  BY <1>1, <1>2, <1>3, <1>4 DEF Changed, Change

-----------------------------------------------------------------------------
(* Submissions. *)
Stands(old, new) ==
  \A u \in Users : old.info[u].sub # NoSubmission /\ new.info[u].sub # old.info[u].sub
                     => new.info[u].sub = NoSubmission /\ new.phase # "playing"

SameSubs(old, new) == \A u \in Users : new.info[u].sub = old.info[u].sub
Wiped(rm) == rm.phase # "playing" /\ \A u \in Users : rm.info[u].sub = NoSubmission

LEMMA TimersKeepInfo ==
  ASSUME NEW rm \in GameRoomType
  PROVE  /\ \A h \in Handles, t \in Timers \cup {NoTimer} : Arm(rm, h, t).info = rm.info
         /\ \A h \in Handles : Forget(rm, h).info = rm.info
         /\ \A hs : Cancel(rm, hs).info = rm.info
         /\ RefreshTTL(rm).info = rm.info
         /\ \A h \in Handles, t \in Timers : \A next \in Expired(rm, h, t) : next.info = rm.info
<1>1. ASSUME NEW x \in GameRoomType, NEW h, NEW t PROVE Arm(x, h, t).info = x.info
  BY DEF Arm, GameRoomType
<1>2. ASSUME NEW hs PROVE Cancel(rm, hs).info = rm.info /\ Cancel(rm, hs) \in GameRoomType
  BY CancelType DEF Cancel, GameRoomType
<1>3. RefreshTTL(rm).info = rm.info
  BY <1>1, <1>2 DEF RefreshTTL
<1>4. \A h \in Handles, t \in Timers : \A next \in Expired(rm, h, t) : next.info = rm.info
  BY DEF Expired, GameRoomType
<1> QED
  BY <1>1, <1>2, <1>3, <1>4 DEF Forget

LEMMA MatchKeepsInfo ==
  ASSUME NEW rm \in GameRoomType
  PROVE  /\ StartCountdown(rm).info = rm.info /\ DoStartRound(rm).info = rm.info
         /\ ResolveRound(rm).info = rm.info /\ FinishGame(rm).info = rm.info
         /\ GameOver(rm).info = rm.info /\ GameOver(rm).phase = "game_over"
         /\ GameOver(rm) \in GameRoomType
         /\ Deleted(rm).info = rm.info /\ Deleted(rm).phase = rm.phase
<1>1. StartCountdown(rm).info = rm.info /\ DoStartRound(rm).info = rm.info
  BY DEF StartCountdown, DoStartRound, Arm, GameRoomType
<1>2. ResolveRound(rm).info = rm.info
  <2>1. ScoreRound(rm) \in GameRoomType /\ ScoreRound(rm).info = rm.info
    BY ScoreRoundType DEF ScoreRound, GameRoomType
  <2> QED
    BY <2>1 DEF ResolveRound, Arm, GameRoomType
<1>3. FinishGame(rm).info = rm.info
  <2>1. LET x == [rm EXCEPT !.phase = "game_over"] IN x \in GameRoomType /\ x.info = rm.info
    BY DEF GameRoomType, Phases
  <2> QED
    BY <2>1, TimersKeepInfo DEF FinishGame
<1>4. ASSUME NEW hs PROVE Cancel(rm, hs).info = rm.info /\ Cancel(rm, hs).phase = rm.phase /\ Cancel(rm, hs) \in GameRoomType
  BY CancelType DEF Cancel, GameRoomType
<1>5. GameOver(rm).info = rm.info /\ GameOver(rm).phase = "game_over" /\ GameOver(rm) \in GameRoomType
  <2> DEFINE x == Cancel(rm, MatchHandles)
  <2>1. x.info = rm.info /\ x \in GameRoomType
    BY <1>4
  <2> HIDE DEF x
  <2>2. LET y == [x EXCEPT !.phase = "game_over"] IN y.info = x.info /\ y.phase = "game_over"
    BY <2>1 DEF GameRoomType
  <2> QED
    BY <2>1, <2>2, GameOverType DEF GameOver, x
<1>6. Deleted(rm).info = rm.info /\ Deleted(rm).phase = rm.phase
  <2> DEFINE x == Cancel(rm, RoomHandles \cup Members(rm))
  <2>1. x.info = rm.info /\ x.phase = rm.phase /\ x \in GameRoomType
    BY <1>4
  <2> HIDE DEF x
  <2> QED
    BY <2>1 DEF Deleted, x, GameRoomType
<1> QED
  BY <1>1, <1>2, <1>3, <1>5, <1>6

LEMMA ResetsWipe ==
  ASSUME NEW rm \in GameRoomType
  PROVE  Wiped(ResetGameData(rm)) /\ Wiped(StartRematch(rm))
         /\ Wiped(SetupCancelled(rm)) /\ Wiped(SlotReleased(rm))
<1>1. ASSUME NEW x \in GameRoomType, NEW ph \in Phases, ph # "playing"
      PROVE  LET y == ClearProgress(x, ph)
                 z == [y EXCEPT !.official = FALSE]
             IN  y \in GameRoomType /\ Wiped(y) /\ z \in GameRoomType /\ Wiped(z)
  <2> DEFINE y == ClearProgress(x, ph)
  <2>1. y \in GameRoomType
    BY ClearProgressType
  <2>2. y.phase = ph /\ \A u \in Users : y.info[u] = FreshPlayer(x.info[u]) /\ x.info[u] \in PlayerInfo
    BY DEF ClearProgress, GameRoomType
  <2>3. \A p \in PlayerInfo : FreshPlayer(p).sub = NoSubmission
    BY DEF FreshPlayer, PlayerInfo
  <2>4. Wiped(y)
    BY <1>1, <2>2, <2>3 DEF Wiped
  <2> HIDE DEF y
  <2>5. LET z == [y EXCEPT !.official = FALSE] IN z \in GameRoomType /\ Wiped(z)
    BY <2>1, <2>4 DEF GameRoomType, Wiped
  <2> QED
    BY <2>1, <2>4, <2>5 DEF y
<1>2. ASSUME NEW x \in GameRoomType, Wiped(x), NEW hs PROVE Wiped(Cancel(x, hs))
  BY <1>2 DEF Wiped, Cancel, GameRoomType
<1>3. "ready" \in Phases /\ "waiting" \in Phases
  BY DEF Phases
<1>4. \A x \in GameRoomType : Wiped(ResetGameData(x))
  BY <1>1, <1>2, <1>3 DEF ResetGameData
<1>5. Wiped(StartRematch(rm))
  BY <1>4, CancelType DEF StartRematch
<1> QED
  BY <1>1, <1>2, <1>3, <1>4, <1>5 DEF SetupCancelled, SlotReleased

LEMMA PrepareRoundWipes ==
  ASSUME NEW rm \in GameRoomType PROVE PrepareRound(rm) = rm \/ Wiped(PrepareRound(rm))
<1>1. ASSUME rm.phase # "game_over" PROVE Wiped(PrepareRound(rm))
  BY <1>1 DEF PrepareRound, Arm, Wiped, GameRoomType, PlayerInfo
<1> QED
  BY <1>1 DEF PrepareRound

LEMMA SubsStand ==
  ASSUME NEW old, NEW new, SameSubs(old, new) \/ Wiped(new) PROVE Stands(old, new)
BY DEF Stands, SameSubs, Wiped

LEMMA ForfeitedStands ==
  ASSUME NEW rm \in GameRoomType, NEW u, NEW new, Forfeited(rm, u, new)
  PROVE  new.info = rm.info /\ (rm.phase # "playing" \/ new.phase = "game_over")
<1> DEFINE over == GameOver(rm)
<1>1. over.info = rm.info /\ over.phase = "game_over" /\ over \in GameRoomType
  BY MatchKeepsInfo
<1> HIDE DEF over
<1>2. Deleted(over).info = over.info /\ Deleted(over).phase = "game_over"
  BY <1>1, MatchKeepsInfo
<1>3. RefreshTTL(over).info = over.info /\ RefreshTTL(over).phase = "game_over"
  BY <1>1, TimersKeepInfo, RefreshTTLGoesOn DEF GoesOn
<1> QED
  BY <1>1, <1>2, <1>3 DEF Forfeited, over

LEMMA ConnectionsStand ==
  ASSUME NEW old, Whole(old), NEW new, Returned(old, new) \/ Dropped(old, new) PROVE Stands(old, new)
<1>0. old \in GameRoomType /\ Members(old) \subseteq Users
  BY DEF Whole, Members, GameRoomType
<1>1. ASSUME NEW u \in Members(old), old.phase \notin Reconnects, NEW rm,
             rm = RemovePlayer(old, u) \/ rm = Deleted(RemovePlayer(old, u))
      PROVE  Stands(old, rm)
  <2> DEFINE x == RemovePlayer(old, u)
  <2>1. x \in GameRoomType /\ x.phase = old.phase /\ x.info[u].sub = NoSubmission
        /\ \A v \in Users : v # u => x.info[v] = old.info[v]
    BY UnseatWhole DEF Whole
  <2> HIDE DEF x
  <2>2. Deleted(x).info = x.info /\ Deleted(x).phase = x.phase
    BY <2>1, MatchKeepsInfo
  <2>3. rm.info = x.info /\ rm.phase = old.phase
    BY <1>1, <2>1, <2>2 DEF x
  <2>4. old.phase # "playing"
    BY <1>1 DEF Reconnects, InGame
  <2> QED
    BY <2>1, <2>3, <2>4 DEF Stands
<1>2. ASSUME NEW u \in Members(old), NEW s \in Sockets PROVE Stands(old, Rejoined(old, u, s))
  <2> DEFINE c == Cancel(old, {u})
             rm == [c EXCEPT !.info[u].sock = s, !.info[u].connected = TRUE]
  <2>1. c.info = old.info /\ c \in GameRoomType
    BY <1>0, TimersKeepInfo, CancelType
  <2> HIDE DEF c
  <2>2. SameSubs(c, rm)
    BY <1>0, <2>1 DEF SameSubs, GameRoomType, PlayerInfo
  <2> HIDE DEF rm
  <2>3. Stands(old, rm)
    BY <2>1, <2>2, SubsStand DEF SameSubs
  <2> QED
    BY <2>3 DEF Rejoined, c, rm
<1>3. ASSUME NEW u \in Members(old), NEW rm,
             \/ rm = Deleted(Away(old, u)) \/ rm = RefreshTTL(Away(old, u)) \/ rm = Arm(Away(old, u), u, Grace(u))
      PROVE  Stands(old, rm)
  <2> DEFINE x == Away(old, u)
  <2>1. x \in GameRoomType
    BY <1>0, AwayType
  <2>2. SameSubs(old, x)
    BY <1>0 DEF Away, SameSubs, GameRoomType, PlayerInfo
  <2> HIDE DEF x
  <2>3. Deleted(x).info = x.info /\ RefreshTTL(x).info = x.info /\ Arm(x, u, Grace(u)).info = x.info
    BY <1>0, <2>1, MatchKeepsInfo, TimersKeepInfo, HandleTimers
  <2>4. rm.info = x.info
    BY <1>3, <2>3 DEF x
  <2> QED
    BY <2>2, <2>4, SubsStand DEF SameSubs
<1> QED
  BY <1>1, <1>2, <1>3 DEF Returned, Dropped

LEMMA EnteringStands ==
  ASSUME NEW old \in GameRoomType, NEW new,
         Created(old, new) \/ JoinStarted(old, new) \/ Entered(old, new)
  PROVE  Stands(old, new)
<1>1. ASSUME Created(old, new) PROVE Stands(old, new)
  <2> DEFINE empty == EmptyRoom("open")
             f(u) == Forget(empty, u)
             p(s) == Player(s, TRUE)
  <2>1. PICK u \in Users, s \in Sockets : new = SetPlayer(empty, u, Player(s, TRUE))
    BY <1>1 DEF Created
  <2>2. /\ f(u) \in GameRoomType /\ f(u).phase = "waiting" /\ f(u).info = [v \in Users |-> NoPlayer]
        /\ NoPlayer.sub = NoSubmission /\ p(s).sub = NoSubmission
    BY EmptyType, ForgetType, HandlesType DEF Forget, Arm, EmptyRoom, NoPlayer, Player
  <2> HIDE DEF f, p
  <2>3. new.phase = "waiting" /\ \A v \in Users : new.info[v] = IF v = u THEN p(s) ELSE NoPlayer
    BY <2>1, <2>2 DEF SetPlayer, f, p, GameRoomType
  <2> QED
    BY <2>2, <2>3, SubsStand DEF Wiped
<1>2. ASSUME JoinStarted(old, new) PROVE Stands(old, new)
  <2>1. Cancel(old, {"ttl"}).info = old.info /\ Cancel(old, {"ttl"}) \in GameRoomType
    BY TimersKeepInfo, CancelType
  <2>2. new.info = old.info \/ Wiped(new)
    BY <1>2, <2>1, ResetsWipe DEF JoinStarted, JoinBegun
  <2> QED
    BY <2>2, SubsStand DEF SameSubs
<1>3. ASSUME NEW u \in Users, NEW s \in Sockets PROVE Stands(old, Joined(old, u, s))
  <2> DEFINE p == Player(s, FALSE)
             f == Forget(old, u)
             j == Joined(old, u, s)
  <2>1. f \in GameRoomType /\ f.info = old.info /\ p.sub = NoSubmission
    BY ForgetType, HandleTimers, TimersKeepInfo DEF Player
  <2> HIDE DEF p, f
  <2>2. j.phase = "ready" /\ \A v \in Users : j.info[v] = IF v = u THEN p ELSE old.info[v]
    BY <2>1 DEF Joined, SetPlayer, GameRoomType, f, p
  <2> HIDE DEF j
  <2>3. Stands(old, j)
    BY <2>1, <2>2 DEF Stands
  <2> QED
    BY <2>3 DEF j
<1> QED
  BY <1>1, <1>2, <1>3 DEF Entered

LEMMA EventsStand ==
  ASSUME NEW old \in GameRoomType, NEW new,
         Readied(old, new) \/ MicReadied(old, new) \/ MicFailed(old, new) \/ Submitted(old, new)
         \/ Rematched(old, new)
  PROVE  Stands(old, new)
<1>1. ASSUME Readied(old, new) PROVE Stands(old, new)
  <2>1. PICK u \in Users : LET rm == [old EXCEPT !.info[u].ready = TRUE] IN
          new = rm \/ new = StartCountdown([rm EXCEPT !.phase = "countdown"])
    BY <1>1 DEF Readied
  <2> DEFINE rm == [old EXCEPT !.info[u].ready = TRUE]
             x == [rm EXCEPT !.phase = "countdown"]
  <2>2. rm \in GameRoomType /\ SameSubs(old, rm)
    <3>1. SameSubs(old, rm)
      BY DEF SameSubs, GameRoomType, PlayerInfo
    <3> QED
      BY <3>1, PlayerUpdateType
  <2> HIDE DEF rm
  <2>3. x \in GameRoomType /\ x.info = rm.info
    BY <2>2 DEF GameRoomType, Phases
  <2> HIDE DEF x
  <2>4. new.info = rm.info
    BY <2>1, <2>3, MatchKeepsInfo DEF rm, x
  <2> QED
    BY <2>2, <2>4, SubsStand DEF SameSubs
<1>2. ASSUME MicReadied(old, new) PROVE Stands(old, new)
  <2>1. PICK u \in Users : LET rm == [old EXCEPT !.micReady = @ \cup {u}] IN
          new = rm \/ new = DoStartRound(Cancel(rm, {"prepare"}))
    BY <1>2 DEF MicReadied
  <2> DEFINE rm == [old EXCEPT !.micReady = @ \cup {u}]
             c == Cancel(rm, {"prepare"})
  <2>2. rm \in GameRoomType /\ rm.info = old.info
    BY DEF GameRoomType
  <2> HIDE DEF rm
  <2>3. c.info = rm.info /\ c \in GameRoomType
    BY <2>2, TimersKeepInfo, CancelType
  <2> HIDE DEF c
  <2>4. new.info = old.info
    BY <2>1, <2>2, <2>3, MatchKeepsInfo DEF rm, c
  <2> QED
    BY <2>4, SubsStand DEF SameSubs
<1>3. ASSUME MicFailed(old, new) PROVE Stands(old, new)
  <2> DEFINE c == Cancel(old, {"prepare"})
  <2>1. (\E u \in Users : Forfeited(c, u, new)) \/ new = ResetGameData(c)
    BY <1>3 DEF MicFailed
  <2>2. c.info = old.info /\ c \in GameRoomType
    BY TimersKeepInfo, CancelType
  <2> HIDE DEF c
  <2>3. new.info = old.info \/ Wiped(new)
    BY <2>1, <2>2, ForfeitedStands, ResetsWipe
  <2> QED
    BY <2>3, SubsStand DEF SameSubs
<1>4. ASSUME Submitted(old, new) PROVE Stands(old, new)
  <2>1. PICK u \in Users, db \in Decibels : LET rm == [old EXCEPT !.info[u].sub = db] IN
          CanSubmit(old, u) /\ (new = rm \/ new = CloseRound(Cancel(rm, {"round"})))
    BY <1>4 DEF Submitted
  <2> DEFINE rm == [old EXCEPT !.info[u].sub = db]
             c == Cancel(rm, {"round"})
             x == [c EXCEPT !.phase = "round_end"]
  <2>2. rm \in GameRoomType /\ \A v \in Users : v # u => rm.info[v].sub = old.info[v].sub
    <3>1. \A v \in Users : v # u => rm.info[v].sub = old.info[v].sub
      BY DEF GameRoomType, PlayerInfo
    <3> QED
      BY <3>1, PlayerUpdateType
  <2> HIDE DEF rm
  <2>3. c.info = rm.info /\ c \in GameRoomType
    BY <2>2, TimersKeepInfo, CancelType
  <2> HIDE DEF c
  <2>4. x.info = c.info
    BY <2>3 DEF GameRoomType
  <2> HIDE DEF x
  <2>5. new.info = rm.info
    BY <2>1, <2>3, <2>4, MatchKeepsInfo DEF rm, c, x, CloseRound
  <2>6. old.info[u].sub = NoSubmission
    BY <2>1 DEF CanSubmit
  <2> QED
    BY <2>2, <2>5, <2>6 DEF Stands
<1>5. ASSUME Rematched(old, new) PROVE Stands(old, new)
  <2>1. PICK u \in Users : LET rm == [old EXCEPT !.info[u].rematch = TRUE, !.phase = "rematch_waiting"] IN
          new = rm \/ new = StartRematch(rm)
    BY <1>5 DEF Rematched
  <2> DEFINE rm == [old EXCEPT !.info[u].rematch = TRUE, !.phase = "rematch_waiting"]
  <2>2. rm \in GameRoomType /\ SameSubs(old, rm)
    <3>1. SameSubs(old, rm)
      BY DEF SameSubs, GameRoomType, PlayerInfo
    <3>2. "rematch_waiting" \in Phases
      BY DEF Phases
    <3> QED
      BY <3>1, <3>2, PlayerUpdateType
  <2> HIDE DEF rm
  <2>3. SameSubs(old, new) \/ Wiped(new)
    BY <2>1, <2>2, ResetsWipe DEF rm
  <2> QED
    BY <2>3, SubsStand
<1> QED
  BY <1>1, <1>2, <1>3, <1>4, <1>5

(* A room in play is official, so a player who leaves it forfeits. *)
LEMMA LeftStands ==
  ASSUME NEW old, Whole(old), NEW new, Left(old, new) PROVE Stands(old, new)
<1>1. PICK u \in Members(old) :
        LET active == old.phase \in InGame
            rm == RemovePlayer(IF active THEN Cancel(old, {"prepare"}) ELSE old, u)
            opp == OpponentOf(old, u)
        IN
        \/ active /\ rm.official /\ Forfeited(rm, u, new)
        \/ ~(active /\ rm.official) /\ rm.players = <<>> /\ new = Deleted(rm)
        \/ active /\ ~rm.official /\ rm.players # <<>> /\ Stayed(SetupCancelled(rm), opp, old.info[u].host, new)
        \/ ~active /\ rm.players # <<>> /\ Stayed(SlotReleased(rm), opp, old.info[u].host, new)
  BY DEF Left
<1> DEFINE active == old.phase \in InGame
           x == IF active THEN Cancel(old, {"prepare"}) ELSE old
           rm == RemovePlayer(x, u)
           opp == OpponentOf(old, u)
           wasHost == old.info[u].host
<1>2. Whole(x) /\ x.phase = old.phase /\ x.info = old.info /\ Members(x) = Members(old) /\ x.official = old.official
  <2>1. Whole(old) /\ Whole(Cancel(old, {"prepare"}))
    BY TimersWhole
  <2>2. LET c == Cancel(old, {"prepare"}) IN
          c.phase = old.phase /\ c.info = old.info /\ c.players = old.players /\ c.official = old.official
    BY <2>1 DEF Whole, Cancel, GameRoomType
  <2> QED
    BY <2>1, <2>2 DEF Members
<1> HIDE DEF x
<1>3. /\ rm \in GameRoomType /\ rm.phase = old.phase /\ rm.official = old.official
      /\ \A v \in Users : v # u => rm.info[v] = old.info[v]
      /\ rm.info[u].sub = NoSubmission
  BY <1>2, UnseatWhole DEF Whole
<1>4. \/ Forfeited(rm, u, new)
      \/ ~(active /\ rm.official) /\ new = Deleted(rm)
      \/ Stayed(SetupCancelled(rm), opp, wasHost, new)
      \/ Stayed(SlotReleased(rm), opp, wasHost, new)
  BY <1>1 DEF x
<1> HIDE DEF rm, opp, wasHost
<1>5. ASSUME new.info = rm.info, new.phase # "playing" PROVE Stands(old, new)
  BY <1>3, <1>5 DEF Stands
<1>6. CASE Forfeited(rm, u, new)
  <2>1. new.info = rm.info /\ (rm.phase # "playing" \/ new.phase = "game_over")
    BY <1>3, <1>6, ForfeitedStands
  <2>2. rm.phase = "game_over" => new.phase # "playing"
    BY <1>6 DEF Forfeited
  <2>3. rm.phase # "game_over" => new.phase = "game_over"
    <3>1. GameOver(rm).phase = "game_over" /\ GameOver(rm) \in GameRoomType
      BY <1>3, MatchKeepsInfo
    <3>2. Deleted(GameOver(rm)).phase = "game_over" /\ RefreshTTL(GameOver(rm)).phase = "game_over"
      BY <3>1, MatchKeepsInfo, RefreshTTLGoesOn DEF GoesOn
    <3> QED
      BY <1>6, <3>2 DEF Forfeited
  <2> QED
    BY <1>5, <2>1, <2>2, <2>3
<1>7. CASE ~(active /\ rm.official) /\ new = Deleted(rm)
  <2>1. new.info = rm.info /\ new.phase = old.phase
    BY <1>3, <1>7, MatchKeepsInfo
  <2>2. old.phase # "playing"
    BY <1>3, <1>7 DEF Whole, Seated, InGame
  <2> QED
    BY <1>5, <2>1, <2>2
<1>8. ASSUME NEW y \in GameRoomType, Wiped(y), Stayed(y, opp, wasHost, new) PROVE Stands(old, new)
  <2>1. CASE new = Deleted(y) \/ new = y
    BY <1>8, <2>1, MatchKeepsInfo, SubsStand DEF Wiped
  <2>2. CASE new = [y EXCEPT !.info[opp].host = TRUE]
    <3>1. Wiped(new)
      BY <1>8, <2>2 DEF Wiped, GameRoomType, PlayerInfo
    <3> QED
      BY <3>1, SubsStand
  <2> QED
    BY <1>8, <2>1, <2>2 DEF Stayed
<1>9. /\ SetupCancelled(rm) \in GameRoomType /\ Wiped(SetupCancelled(rm))
      /\ SlotReleased(rm) \in GameRoomType /\ Wiped(SlotReleased(rm))
  BY <1>3, ResetsWipe, LeaveResetsType
<1> QED
  BY <1>4, <1>6, <1>7, <1>8, <1>9

LEMMA CallbacksStand ==
  ASSUME NEW old \in GameRoomType, NEW new,
         \/ Ticked(old, new) \/ Prepared(old, new) \/ PrepareEnded(old, new) \/ RoundEnded(old, new)
         \/ Finished(old, new) \/ NextStarted(old, new) \/ GraceEnded(old, new) \/ TTLEnded(old, new)
  PROVE  Stands(old, new)
<1> SUFFICES new.info = old.info \/ Wiped(new)
  BY SubsStand DEF SameSubs
<1> DEFINE Goal == new.info = old.info \/ Wiped(new)
<1>1. ASSUME NEW h \in Handles, NEW t \in Timers, NEW rm \in Expired(old, h, t)
      PROVE  rm \in GameRoomType /\ rm.info = old.info
  BY ExpiredType, TimersKeepInfo
<1>2. ASSUME Ticked(old, new) PROVE Goal
  <2>1. PICK n \in 1..CountdownTicks : \E rm \in Expired(old, "countdown", Tick(n)) :
          new = Arm(rm, "countdown", Tick(n - 1))
    BY <1>2 DEF Ticked
  <2>2. n \in 0..CountdownTicks /\ n - 1 \in 0..CountdownTicks
    BY TicksAssumption
  <2> QED
    BY <1>1, <2>1, <2>2, TimersKeepInfo, HandleTimers
<1>3. ASSUME Prepared(old, new) PROVE Goal
  <2>1. PICK rm \in Expired(old, "countdown", Tick(0)) : new = PrepareRound(Forget(rm, "countdown"))
    BY <1>3 DEF Prepared
  <2>2. 0 \in 0..CountdownTicks
    BY TicksAssumption
  <2>3. LET x == Forget(rm, "countdown") IN x \in GameRoomType /\ x.info = old.info
    BY <1>1, <2>2, TimersKeepInfo, ForgetType, HandleTimers
  <2> QED
    BY <2>1, <2>3, PrepareRoundWipes
<1>4. ASSUME PrepareEnded(old, new) PROVE Goal
  <2>1. PICK rm \in Expired(old, "prepare", Timer("prepare")) :
          \/ new = rm \/ new = Forget(rm, "prepare") \/ new = ResetGameData(rm)
          \/ \E u \in Users : Forfeited(rm, u, new)
          \/ new = Deleted(rm)
    BY <1>4 DEF PrepareEnded
  <2>2. rm \in GameRoomType /\ rm.info = old.info /\ "prepare" \in Handles
    BY <1>1, HandleTimers
  <2> QED
    BY <2>1, <2>2, TimersKeepInfo, ResetsWipe, ForfeitedStands, MatchKeepsInfo
<1>5. ASSUME RoundEnded(old, new) PROVE Goal
  <2>1. PICK rm \in Expired(old, "round", Timer("round")) : new = rm \/ new = ResolveRound(rm)
    BY <1>5 DEF RoundEnded
  <2>2. rm \in GameRoomType /\ rm.info = old.info
    BY <1>1, HandleTimers
  <2> QED
    BY <2>1, <2>2, MatchKeepsInfo
<1>6. ASSUME Finished(old, new) \/ NextStarted(old, new) PROVE Goal
  <2>1. PICK rm \in Expired(old, "post", Timer("finish")) \cup Expired(old, "post", Timer("next")) :
          new = FinishGame(Forget(rm, "post")) \/ new = StartCountdown(Forget(rm, "post"))
    BY <1>6 DEF Finished, NextStarted
  <2>2. rm \in GameRoomType /\ rm.info = old.info
    BY <1>1, HandleTimers
  <2>3. LET x == Forget(rm, "post") IN x \in GameRoomType /\ x.info = old.info
    BY <2>2, TimersKeepInfo, ForgetType, HandleTimers
  <2> QED
    BY <2>1, <2>3, MatchKeepsInfo
<1>7. ASSUME GraceEnded(old, new) PROVE Goal
  <2>1. PICK u \in Users : \E rm \in Expired(old, u, Grace(u)) : Forfeited(rm, u, new)
    BY <1>7 DEF GraceEnded
  <2>2. PICK rm \in Expired(old, u, Grace(u)) : Forfeited(rm, u, new)
    BY <2>1
  <2>3. rm \in GameRoomType /\ rm.info = old.info
    BY <1>1, HandleTimers
  <2> QED
    BY <2>2, <2>3, ForfeitedStands
<1>8. ASSUME TTLEnded(old, new) PROVE Goal
  <2>1. PICK rm \in Expired(old, "ttl", Timer("ttl")) : new = Deleted(rm)
    BY <1>8 DEF TTLEnded
  <2>2. rm \in GameRoomType /\ rm.info = old.info
    BY <1>1, HandleTimers
  <2> QED
    BY <2>1, <2>2, MatchKeepsInfo
<1> QED
  BY <1>2, <1>3, <1>4, <1>5, <1>6, <1>7, <1>8

-----------------------------------------------------------------------------
LEMMA StepStands ==
  ASSUME TypeOK, [Next]_vars, NEW r \in Rooms, Whole(room[r]) PROVE Stands(room[r], room'[r])
<1>1. Changed(r) /\ room[r] \in GameRoomType
  BY StepChanges DEF Whole
<1>2. \A store \in {"free", "gone"} : Wiped(EmptyRoom(store))
  BY DEF EmptyRoom, NoPlayer, Player, Wiped
<1>3. ASSUME NEW new, Stands(room[r], new) PROVE Stands(room[r], Collected(new))
  BY <1>2, <1>3, SubsStand DEF Collected
<1>4. \A new : Change(room[r], new) => Stands(room[r], new)
  BY <1>1, ConnectionsStand, EnteringStands, EventsStand, LeftStands, CallbacksStand DEF Change, Handled
<1>5. room'[r] = room[r] => Stands(room[r], room'[r])
  BY DEF Stands
<1> QED
  BY <1>1, <1>2, <1>3, <1>4, <1>5, SubsStand DEF Changed, Change

(* The invariant: every room is sound and its phase has its timer. *)
MatchInv == \A r \in Rooms : Sound(room[r]) /\ Clocked(room[r])

LEMMA MatchInvHolds == Spec => []MatchInv
<1>1. Init => MatchInv
  BY EmptySound, IdleClocked DEF Init, MatchInv, EmptyRoom
<1>2. TypeOK /\ MatchInv /\ [Next]_vars => MatchInv'
  BY StepSound, StepClocked DEF MatchInv
<1> QED
  BY <1>1, <1>2, TypeCorrect, PTL DEF Spec

(* No event, late join, reset or lost timer makes a round count twice or count   *)
(* without having been prepared.                                                 *)
THEOREM RoundsAreScoredOnceEach == Spec => []RoundsScoredOnce
<1>1. MatchInv => RoundsScoredOnce
  BY DEF MatchInv, Sound, Whole, Scored, RoundsScoredOnce
<1> QED
  BY <1>1, MatchInvHolds, PTL

(* The score of a player is the number of recorded rounds that player won, on    *)
(* every path that scores, resets or ends a match.                               *)
THEOREM ScoresCountRoundsWon == Spec => []ScoresMatchRecords
<1>1. MatchInv => ScoresMatchRecords
  BY DEF MatchInv, Sound, Whole, Counted, Wins, ScoresMatchRecords
<1> QED
  BY <1>1, MatchInvHolds, PTL

LEMMA AtMostOne ==
  ASSUME NEW S, \A x, y \in S : x = y PROVE Cardinality(S) <= 1
<1>1. CASE S = {}
  BY <1>1, FS_EmptySet
<1>2. CASE S # {}
  <2>1. PICK x : S = {x}
    BY <1>2
  <2> QED
    BY <2>1, FS_Singleton
<1> QED
  BY <1>1, <1>2

(* An open room has a player, one host at most and every player once, however    *)
(* players join late, leave, are removed or take over.                           *)
THEOREM RoomsKeepTheirShape == Spec => []RoomShape
<1>1. MatchInv => RoomShape
  <2> SUFFICES ASSUME MatchInv, NEW r \in OpenRooms
               PROVE  /\ room[r].players # <<>> /\ IsInjective(room[r].players)
                      /\ Cardinality({u \in Users : room[r].info[u].host}) <= 1
    BY DEF RoomShape
  <2>1. Whole(room[r]) /\ Peopled(room[r]) /\ room[r].store = "open"
    BY DEF MatchInv, Sound, OpenRooms
  <2>2. \A u, v \in {w \in Users : room[r].info[w].host} : u = v
    BY <2>1 DEF Whole, Seated
  <2>3. Cardinality({u \in Users : room[r].info[u].host}) <= 1
    BY <2>2, AtMostOne
  <2> QED
    BY <2>1, <2>3 DEF Whole, Seated, Peopled
<1> QED
  BY <1>1, MatchInvHolds, PTL

(* Two members sit on two seats. *)
LEMMA TwoMembers ==
  ASSUME NEW rm \in GameRoomType, Cardinality(Members(rm)) >= 2 PROVE Len(rm.players) >= 2
<1> SUFFICES ASSUME ~(Len(rm.players) >= 2) PROVE FALSE
  OBVIOUS
<1>1. rm.players \in Seq(Users) /\ Len(rm.players) \in Nat /\ DOMAIN rm.players = 1..Len(rm.players)
  BY DEF GameRoomType
<1>2. \A i, j \in DOMAIN rm.players : i = j
  BY <1>1
<1>3. \A x, y \in Members(rm) : x = y
  BY <1>2 DEF Members
<1>4. Cardinality(Members(rm)) <= 1
  BY <1>3, AtMostOne
<1>5. IsFiniteSet(Members(rm))
  <2>1. CASE Members(rm) = {}
    BY <2>1, FS_EmptySet
  <2>2. CASE Members(rm) # {}
    <3>1. PICK x : Members(rm) = {x}
      BY <1>3, <2>2
    <3> QED
      BY <3>1, FS_Singleton
  <2> QED
    BY <2>1, <2>2
<1> QED
  BY <1>4, <1>5, FS_CardinalityType

(* The timer that ends the phase of a match between two players is pending,      *)
(* whatever was overwritten, cleared or lost: no match hangs.                    *)
THEOREM PhasesHaveTheirTimers == Spec => []PhaseHasItsTimer
<1>1. TypeOK /\ MatchInv => PhaseHasItsTimer
  BY TwoMembers DEF MatchInv, Clocked, Ticking, PhaseHasItsTimer, OpenRooms, TypeOK
<1> QED
  BY <1>1, TypeCorrect, MatchInvHolds, PTL

(* A room whose match is over goes away by itself, unless its players do         *)
(* something first.                                                              *)
THEOREM FinishedRoomsHaveTTL == Spec => []FinishedRoomHasTTL
<1>1. TypeOK /\ MatchInv => FinishedRoomHasTTL
  BY TwoMembers DEF MatchInv, Clocked, FinishedRoomHasTTL, OpenRooms, TypeOK
<1> QED
  BY <1>1, TypeCorrect, MatchInvHolds, PTL

(* No event, reconnect or timer replaces a submission or takes it back while its *)
(* round is played.                                                              *)
THEOREM SubmissionsStand == Spec => SubmissionStands
<1>1. TypeOK /\ MatchInv /\ [Next]_vars =>
        \A r \in Rooms : \A u \in Users :
          /\ room[r].info[u].sub # NoSubmission
          /\ room'[r].info[u].sub # room[r].info[u].sub
          => room'[r].info[u].sub = NoSubmission /\ room'[r].phase # "playing"
  BY StepStands DEF MatchInv, Sound, Stands
<1> QED
  BY <1>1, TypeCorrect, MatchInvHolds, PTL DEF Spec, SubmissionStands

-----------------------------------------------------------------------------
Decided(rm) == rm.phase \in InGame \cup {"game_over"} \/ rm.store = "gone"

LEMMA DeletedGone == ASSUME NEW rm \in GameRoomType PROVE Deleted(rm).store = "gone"
<1> DEFINE x == Cancel(rm, RoomHandles \cup Members(rm))
<1>1. x \in GameRoomType
  BY CancelType
<1> HIDE DEF x
<1> QED
  BY <1>1 DEF Deleted, x, GameRoomType

LEMMA ForfeitedDecides ==
  ASSUME NEW rm \in GameRoomType, NEW u, NEW new, Forfeited(rm, u, new) PROVE Decided(new)
<1> DEFINE over == GameOver(rm)
<1>1. over.phase = "game_over" /\ over \in GameRoomType
  BY MatchKeepsInfo
<1> HIDE DEF over
<1>2. Deleted(over).store = "gone" /\ RefreshTTL(over).phase = "game_over"
  BY <1>1, DeletedGone, RefreshTTLGoesOn DEF GoesOn
<1> QED
  BY <1>2 DEF Forfeited, Decided, over

LEMMA ResolvedPhase ==
  ASSUME NEW rm \in GameRoomType PROVE ResolveRound(rm).phase \in {"round_end", "countdown"}
<1>1. ScoreRound(rm) \in GameRoomType
  BY ScoreRoundType
<1> QED
  BY <1>1 DEF ResolveRound, Arm, GameRoomType

LEMMA CallbacksDecide ==
  ASSUME NEW old \in GameRoomType, old.official, old.phase \in InGame, NEW new,
         \/ Ticked(old, new) \/ Prepared(old, new) \/ PrepareEnded(old, new) \/ RoundEnded(old, new)
         \/ Finished(old, new) \/ NextStarted(old, new) \/ GraceEnded(old, new) \/ TTLEnded(old, new)
  PROVE  Decided(new)
<1>1. ASSUME NEW h \in Handles, NEW t \in Timers, NEW rm \in Expired(old, h, t)
      PROVE  rm \in GameRoomType /\ rm.phase \in InGame /\ rm.official
  <2>1. rm.phase = old.phase /\ rm.official = old.official
    BY <1>1 DEF Expired, GameRoomType
  <2> QED
    BY <2>1, ExpiredType
<1>2. ASSUME NEW rm \in GameRoomType, rm.phase \in InGame, NEW h \in Handles, NEW t \in Timers \cup {NoTimer}
      PROVE  LET x == Arm(rm, h, t) IN x.phase \in InGame /\ x \in GameRoomType
  BY <1>2, ArmType DEF Arm, GameRoomType
<1>3. ASSUME Ticked(old, new) PROVE Decided(new)
  <2>1. PICK n \in 1..CountdownTicks : \E rm \in Expired(old, "countdown", Tick(n)) :
          new = Arm(rm, "countdown", Tick(n - 1))
    BY <1>3 DEF Ticked
  <2>2. n \in 0..CountdownTicks /\ n - 1 \in 0..CountdownTicks
    BY TicksAssumption
  <2> QED
    BY <1>1, <1>2, <2>1, <2>2, HandleTimers DEF Decided
<1>4. ASSUME Prepared(old, new) PROVE Decided(new)
  <2>1. PICK rm \in Expired(old, "countdown", Tick(0)) : new = PrepareRound(Forget(rm, "countdown"))
    BY <1>4 DEF Prepared
  <2>2. 0 \in 0..CountdownTicks
    BY TicksAssumption
  <2>3. LET x == Forget(rm, "countdown") IN x \in GameRoomType
    BY <1>1, <1>2, <2>2, HandleTimers DEF Forget
  <2>4. ASSUME NEW x \in GameRoomType PROVE PrepareRound(x).phase \in {"game_over", "preparing"}
    BY DEF PrepareRound, Arm, GameRoomType
  <2> QED
    BY <2>1, <2>3, <2>4 DEF Decided, InGame
<1>5. ASSUME PrepareEnded(old, new) PROVE Decided(new)
  <2>1. PICK rm \in Expired(old, "prepare", Timer("prepare")) :
          \/ new = rm \/ new = Forget(rm, "prepare") \/ ~rm.official
          \/ \E u \in Users : Forfeited(rm, u, new)
          \/ new = Deleted(rm)
    BY <1>5 DEF PrepareEnded
  <2>2. rm \in GameRoomType /\ rm.phase \in InGame /\ rm.official
    BY <1>1, HandleTimers
  <2>3. Forget(rm, "prepare").phase \in InGame
    BY <1>2, <2>2, HandleTimers DEF Forget
  <2> QED
    BY <2>1, <2>2, <2>3, ForfeitedDecides, DeletedGone DEF Decided
<1>6. ASSUME RoundEnded(old, new) PROVE Decided(new)
  <2>1. PICK rm \in Expired(old, "round", Timer("round")) : new = rm \/ new = ResolveRound(rm)
    BY <1>6 DEF RoundEnded
  <2>2. rm \in GameRoomType /\ rm.phase \in InGame
    BY <1>1, HandleTimers
  <2> QED
    BY <2>1, <2>2, ResolvedPhase DEF Decided, InGame
<1>7. ASSUME Finished(old, new) \/ NextStarted(old, new) PROVE Decided(new)
  <2>1. PICK rm \in Expired(old, "post", Timer("finish")) \cup Expired(old, "post", Timer("next")) :
          new = FinishGame(Forget(rm, "post")) \/ new = StartCountdown(Forget(rm, "post"))
    BY <1>7 DEF Finished, NextStarted
  <2>2. rm \in GameRoomType /\ rm.phase \in InGame
    BY <1>1, HandleTimers
  <2>3. LET x == Forget(rm, "post") IN x \in GameRoomType /\ x.phase \in InGame
    BY <1>2, <2>2, HandleTimers DEF Forget
  <2>4. ASSUME NEW x \in GameRoomType, x.phase \in InGame
        PROVE  FinishGame(x).phase = "game_over" /\ StartCountdown(x).phase = x.phase
    <3>1. LET y == [x EXCEPT !.phase = "game_over"] IN y \in GameRoomType /\ y.phase = "game_over"
      BY DEF GameRoomType, Phases
    <3>2. \A y \in GameRoomType : RefreshTTL(y).phase = y.phase
      BY RefreshTTLGoesOn DEF GoesOn
    <3>3. StartCountdown(x).phase = x.phase
      BY DEF StartCountdown, Arm, GameRoomType
    <3> QED
      BY <3>1, <3>2, <3>3 DEF FinishGame
  <2> QED
    BY <2>1, <2>3, <2>4 DEF Decided
<1>8. ASSUME GraceEnded(old, new) PROVE Decided(new)
  <2>1. PICK u \in Users : \E rm \in Expired(old, u, Grace(u)) : Forfeited(rm, u, new)
    BY <1>8 DEF GraceEnded
  <2>2. PICK rm \in Expired(old, u, Grace(u)) : Forfeited(rm, u, new)
    BY <2>1
  <2>3. rm \in GameRoomType
    BY <1>1, HandleTimers
  <2> QED
    BY <2>2, <2>3, ForfeitedDecides
<1>9. ASSUME TTLEnded(old, new) PROVE Decided(new)
  <2>1. PICK rm \in Expired(old, "ttl", Timer("ttl")) : new = Deleted(rm)
    BY <1>9 DEF TTLEnded
  <2>2. rm \in GameRoomType
    BY <1>1, HandleTimers
  <2> QED
    BY <2>1, <2>2, DeletedGone DEF Decided
<1> QED
  BY <1>3, <1>4, <1>5, <1>6, <1>7, <1>8, <1>9

(* An official match in progress goes on, is over or goes with its room. *)
LEMMA HandledDecides ==
  ASSUME NEW old, Whole(old), old.store = "open", old.official, old.phase \in InGame,
         NEW new, Handled(old, new)
  PROVE  Decided(new)
<1>0. old \in GameRoomType /\ Members(old) \subseteq Users /\ InGame \subseteq Reconnects
  BY DEF Whole, Members, GameRoomType, Reconnects
<1>1. ASSUME Returned(old, new) PROVE Decided(new)
  <2>1. PICK u \in Members(old), s \in Sockets : new = Rejoined(old, u, s)
    BY <1>0, <1>1 DEF Returned
  <2>2. Rejoined(old, u, s).phase = old.phase
    BY <1>0 DEF Rejoined, Cancel, GameRoomType
  <2> QED
    BY <2>1, <2>2 DEF Decided
<1>2. ASSUME Dropped(old, new) PROVE Decided(new)
  <2>1. PICK u \in Members(old) : \/ new = Deleted(Away(old, u))
                                  \/ new = RefreshTTL(Away(old, u))
                                  \/ new = Arm(Away(old, u), u, Grace(u))
    BY <1>2 DEF Dropped
  <2> DEFINE x == Away(old, u)
  <2>2. x \in GameRoomType /\ x.phase = old.phase
    BY <1>0, AwayType DEF Away, GameRoomType
  <2> HIDE DEF x
  <2>3. Deleted(x).store = "gone" /\ RefreshTTL(x).phase = x.phase /\ Arm(x, u, Grace(u)).phase = x.phase
    BY <1>0, <2>2, DeletedGone, RefreshTTLGoesOn, ArmGoesOn, HandleTimers DEF GoesOn
  <2> QED
    BY <2>1, <2>2, <2>3 DEF Decided, x
<1>3. ASSUME JoinStarted(old, new) \/ Readied(old, new) \/ Rematched(old, new) PROVE Decided(new)
  BY <1>3 DEF JoinStarted, Readied, Rematched, InGame
<1>4. ASSUME MicReadied(old, new) PROVE Decided(new)
  <2>1. PICK u \in Users : LET rm == [old EXCEPT !.micReady = @ \cup {u}] IN
          new = rm \/ new = DoStartRound(Cancel(rm, {"prepare"}))
    BY <1>4 DEF MicReadied
  <2> DEFINE rm == [old EXCEPT !.micReady = @ \cup {u}]
             c == Cancel(rm, {"prepare"})
  <2>2. rm \in GameRoomType /\ rm.phase = old.phase
    BY <1>0 DEF GameRoomType
  <2> HIDE DEF rm
  <2>3. c \in GameRoomType
    BY <2>2, CancelType
  <2> HIDE DEF c
  <2>4. DoStartRound(c).phase = "playing"
    BY <2>3 DEF DoStartRound, Arm, GameRoomType
  <2> QED
    BY <2>1, <2>2, <2>4 DEF Decided, rm, c, InGame
<1>5. ASSUME MicFailed(old, new) PROVE Decided(new)
  <2> DEFINE c == Cancel(old, {"prepare"})
  <2>0. c.official
    BY <1>0 DEF Cancel, GameRoomType
  <2>1. c \in GameRoomType /\ c.official
    BY <1>0, <2>0, CancelType
  <2> QED
    BY <1>5, <2>1, ForfeitedDecides DEF MicFailed
<1>6. ASSUME Submitted(old, new) PROVE Decided(new)
  <2>1. PICK u \in Users, db \in Decibels : LET rm == [old EXCEPT !.info[u].sub = db] IN
          new = rm \/ new = CloseRound(Cancel(rm, {"round"}))
    BY <1>6 DEF Submitted
  <2> DEFINE rm == [old EXCEPT !.info[u].sub = db]
             c == Cancel(rm, {"round"})
             x == [c EXCEPT !.phase = "round_end"]
  <2>2. rm \in GameRoomType
    BY <1>0, PlayerUpdateType
  <2>3. rm.phase = old.phase
    BY <1>0 DEF GameRoomType
  <2> HIDE DEF rm
  <2>4. c \in GameRoomType
    BY <2>2, CancelType
  <2> HIDE DEF c
  <2>5. x.phase = "round_end"
    BY <2>4 DEF GameRoomType
  <2> HIDE DEF x
  <2> QED
    BY <2>1, <2>3, <2>4, <2>5, ResolvedPhase DEF Decided, CloseRound, rm, c, x, InGame
<1>7. ASSUME Left(old, new) PROVE Decided(new)
  <2>1. PICK u \in Members(old) :
          LET rm == RemovePlayer(Cancel(old, {"prepare"}), u)
          IN  (rm.official /\ Forfeited(rm, u, new)) \/ ~rm.official
    BY <1>7 DEF Left
  <2> DEFINE x == Cancel(old, {"prepare"})
             rm == RemovePlayer(x, u)
  <2>2. Whole(x) /\ Members(x) = Members(old) /\ x.official = old.official
    <3>1. Whole(x)
      BY TimersWhole
    <3>2. x.players = old.players /\ x.official = old.official
      BY <1>0 DEF Cancel, GameRoomType
    <3> QED
      BY <3>1, <3>2 DEF Members
  <2> HIDE DEF x
  <2>3. rm \in GameRoomType /\ rm.official = old.official
    BY <2>2, UnseatWhole DEF Whole
  <2> HIDE DEF rm
  <2> QED
    BY <2>1, <2>3, ForfeitedDecides DEF rm, x
<1>8. ASSUME \/ Ticked(old, new) \/ Prepared(old, new) \/ PrepareEnded(old, new) \/ RoundEnded(old, new)
             \/ Finished(old, new) \/ NextStarted(old, new) \/ GraceEnded(old, new) \/ TTLEnded(old, new)
      PROVE  Decided(new)
  BY <1>0, <1>8, CallbacksDecide
<1>9. ASSUME Created(old, new) PROVE Decided(new)
  BY <1>9 DEF Created
<1> QED
  BY <1>1, <1>2, <1>3, <1>4, <1>5, <1>6, <1>7, <1>8, <1>9 DEF Handled

LEMMA DecidedStep ==
  ASSUME TypeOK, MatchInv, [Next]_vars, \A c \in lookup : ~RoomJoined(c),
         NEW r \in OpenRooms, room[r].official, room[r].phase \in InGame
  PROVE  Decided(room'[r])
<1>1. r \in Rooms /\ Whole(room[r]) /\ room[r].store = "open"
  BY DEF MatchInv, Sound, OpenRooms
<1>2. \/ room'[r] = room[r] \/ room'[r] = EmptyRoom("gone")
      \/ \E new : Handled(room[r], new) /\ room'[r] = Collected(new)
  BY <1>1, StepChanges DEF Changed
<1>3. EmptyRoom("gone").store = "gone"
  BY DEF EmptyRoom
<1>4. ASSUME NEW new, Decided(new) PROVE Decided(Collected(new))
  BY <1>3, <1>4 DEF Collected, Decided
<1> QED
  BY <1>1, <1>2, <1>3, <1>4, HandledDecides DEF Decided

(* What is left of OfficialMatchDecided once late joins are set aside: while no  *)
(* join is past its room lookup, a match in an official room ends with a result  *)
(* or with its room.                                                             *)
DecidedButForLateJoins ==
  [][(\A c \in lookup : ~RoomJoined(c)) =>
       \A r \in OpenRooms :
         room[r].official /\ room[r].phase \in InGame =>
           \/ room'[r].phase \in InGame \cup {"game_over"}
           \/ room'[r].store = "gone"]_vars

(* Of all the handlers and timers, only the handler that puts a late joiner into *)
(* the room can take an official room in a match back to "ready".                *)
THEOREM OfficialMatchesAreDecided == Spec => DecidedButForLateJoins
<1>1. TypeOK /\ MatchInv /\ [Next]_vars =>
        ((\A c \in lookup : ~RoomJoined(c)) =>
           \A r \in OpenRooms :
             room[r].official /\ room[r].phase \in InGame =>
               \/ room'[r].phase \in InGame \cup {"game_over"}
               \/ room'[r].store = "gone")
  BY DecidedStep DEF Decided
<1> QED
  BY <1>1, TypeCorrect, MatchInvHolds, PTL DEF Spec, DecidedButForLateJoins
=============================================================================
