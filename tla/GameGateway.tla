----------------------------- MODULE GameGateway -----------------------------
(***************************************************************************)
(* The websocket gateway of the duel game: connections, the store's maps,  *)
(* and one action per event handler and per timer callback.                *)
(*                                                                         *)
(* Node runs a callback to its next await without interruption, so an      *)
(* action is what happens between two awaits.  Three handlers await before *)
(* they change state: handleConnection (operationalEvents.record, before   *)
(* tryReconnect), onRoomCreate and onRoomJoin (the profile lookup).        *)
(* Awaits after the last state change only delay messages.                 *)
(***************************************************************************)
EXTENDS GameRoom

CONSTANTS Rooms,      \* room codes; a code is given out once
          MaxLookups, \* profile lookups one user may have in flight
          MaxSockets, \* bound: sockets opened in a behaviour
          MaxLost,    \* bound: lost timers of a room, pending at one time
          MaxRound    \* bound: rounds prepared since the last reset

ASSUME RoomsAssumption == NoRoom \notin Rooms /\ MaxLookups \in Nat

VARIABLES sock,     \* sock[s]: "off" before it connects, "on", "gone"
          hello,    \* sockets whose handleConnection still awaits its event record
          lookup,   \* profile lookups in flight, made by room:create and room:join
          userRoom, \* userToRoom
          sockRoom, \* socketToRoom
          room      \* the rooms

vars == <<sock, hello, lookup, userRoom, sockRoom, room>>

(* The n-th lookup of a user: for room:join of a room, or room:create (NoRoom). *)
Lookups == [sock : Sockets, n : 1..MaxLookups, target : Rooms \cup {NoRoom}]

TypeOK ==
  /\ sock \in [Sockets -> {"off", "on", "gone"}]
  /\ hello \subseteq Sockets
  /\ lookup \subseteq Lookups
  /\ userRoom \in [Users -> Rooms \cup {NoRoom}]
  /\ sockRoom \in [Sockets -> Rooms \cup {NoRoom}]
  /\ room \in [Rooms -> GameRoomType]

Init ==
  /\ sock = [s \in Sockets |-> "off"]
  /\ hello = {}
  /\ lookup = {}
  /\ userRoom = [u \in Users |-> NoRoom]
  /\ sockRoom = [s \in Sockets |-> NoRoom]
  /\ room = [r \in Rooms |-> EmptyRoom("free")]

-----------------------------------------------------------------------------
(* The store. *)
Open(r) == r # NoRoom /\ room[r].store = "open"

(* getRoomByUserId, getRoomBySocketId *)
RoomOfUser(u)   == IF Open(userRoom[u]) THEN userRoom[u] ELSE NoRoom
RoomOfSocket(s) == IF Open(sockRoom[s]) THEN sockRoom[s] ELSE NoRoom

InRoom(u, r) == r # NoRoom /\ u \in Members(room[r])

(* getStats *)
ActivePlayerCount ==
  Cardinality({p \in Rooms \X Users : /\ Open(p[1])
                                      /\ p[2] \in Members(room[p[1]])
                                      /\ room[p[1]].info[p[2]].connected})
ConnectedSocketCount == Cardinality({s \in Sockets : sockRoom[s] # NoRoom})

(* The bounds on what the code does not bound. *)
LostTimers(rm) == UNION {{t} \X (1..rm.lost[t]) : t \in Timers}
WithinBounds(rm) == rm.round <= MaxRound /\ Cardinality(LostTimers(rm)) <= MaxLost
AnotherSocket == Cardinality({s \in Sockets : sock[s] # "off"}) < MaxSockets

(* Handlers write a room back only here. *)
Put(r, rm) == WithinBounds(rm) /\ room' = [room EXCEPT ![r] = Collected(rm)]

(* removeUser and removeSocket, for users us and sockets ss. *)
Unregister(us, ss) ==
  /\ userRoom' = [u \in Users |-> IF u \in us THEN NoRoom ELSE userRoom[u]]
  /\ sockRoom' = [s \in Sockets |-> IF s \in ss THEN NoRoom ELSE sockRoom[s]]

(* registerUser and registerSocket *)
Register(u, s, r) ==
  /\ userRoom' = [userRoom EXCEPT ![u] = r]
  /\ sockRoom' = [sockRoom EXCEPT ![s] = r]

(* tryReconnect: removeSocket(old), then registerSocket(s). *)
Reregister_KeepsOld(old, s, r) == \* mutated: no removeSocket
  sockRoom' = [sockRoom EXCEPT ![s] = r] /\ UNCHANGED userRoom
Reregister_DropsUser(old, s, r) == \* mutated: removeUser as well
  /\ sockRoom' = [q \in Sockets |-> IF q = s THEN r ELSE IF q = old THEN NoRoom ELSE sockRoom[q]]
  /\ userRoom' = [userRoom EXCEPT ![Owner(s)] = NoRoom]
Reregister(old, s, r) ==
  /\ sockRoom' = [q \in Sockets |-> IF q = s THEN r ELSE IF q = old THEN NoRoom ELSE sockRoom[q]]
  /\ UNCHANGED userRoom

(* The handler leaves room rm behind, having unregistered us and ss. *)
Keep(r, rm, us, ss) == Put(r, rm) /\ Unregister(us, ss)

(* cleanupRoom: whoever is in the room is unregistered, from whatever room. *)
CleanupRoom(r, rm, us, ss) ==
  Keep(r, Deleted(rm), us \cup Members(rm), ss \cup SocketsIn(rm))

(* handleForfeit *)
HandleForfeit_NoTTL(r, rm, u, us, ss) == \* mutated: no refreshTTL
  IF rm.phase = "game_over" THEN Keep(r, rm, us, ss)
  ELSE IF OpponentOf(rm, u) = NoUser THEN CleanupRoom(r, GameOver(rm), us, ss)
  ELSE Keep(r, GameOver(rm), us, ss)
HandleForfeit(r, rm, u, us, ss) ==
  IF rm.phase = "game_over" THEN Keep(r, rm, us, ss)
  ELSE IF OpponentOf(rm, u) = NoUser THEN CleanupRoom(r, GameOver(rm), us, ss)
  ELSE Keep(r, RefreshTTL(GameOver(rm)), us, ss)

-----------------------------------------------------------------------------
(* Connections. *)

(* handleConnection up to its await; a socket whose token fails never gets here. *)
Connect(s) ==
  /\ sock[s] = "off"
  /\ AnotherSocket
  /\ \A n \in 1..(s[2] - 1) : sock[<<Owner(s), n>>] # "off"
  /\ sock' = [sock EXCEPT ![s] = "on"]
  /\ hello' = hello \cup {s}
  /\ UNCHANGED <<lookup, userRoom, sockRoom, room>>

(* tryReconnect, once the event record is written.  The socket may be gone by then. *)
TryReconnect(s) ==
  LET u == Owner(s)
      r == RoomOfUser(u)
      rm == room[r]
      old == rm.info[u].sock
  IN
  /\ s \in hello
  /\ hello' = hello \ {s}
  /\ UNCHANGED <<sock, lookup>>
  /\ \/ /\ ~InRoom(u, r)
        /\ UNCHANGED <<userRoom, sockRoom, room>>
     \/ /\ InRoom(u, r)
        /\ rm.phase \notin Reconnects
        /\ IF Len(rm.players) = 1
           THEN CleanupRoom(r, RemovePlayer(rm, u), {u}, {old})
           ELSE Keep(r, RemovePlayer(rm, u), {u}, {old})
     \/ /\ InRoom(u, r)
        /\ rm.phase \in Reconnects
        /\ Put(r, Rejoined(rm, u, s))
        /\ Reregister(old, s, r)

(* handleDisconnect *)
Disconnect(s) ==
  LET u == Owner(s)
      r == RoomOfSocket(s)
      rm == Away(room[r], u)
  IN
  /\ sock[s] = "on"
  /\ sock' = [sock EXCEPT ![s] = "gone"]
  /\ UNCHANGED <<hello, lookup>>
  /\ \/ /\ ~InRoom(u, r)
        /\ Unregister({}, {s})
        /\ UNCHANGED room
     \/ /\ InRoom(u, r)
        /\ rm.phase = "waiting"
        /\ CleanupRoom(r, rm, {}, {s})
     \/ /\ InRoom(u, r)
        /\ rm.phase \in NoForfeit \ {"waiting"}
        /\ Keep(r, RefreshTTL(rm), {}, {s})
     \/ /\ InRoom(u, r)
        /\ rm.phase \notin NoForfeit
        /\ IF OpponentOf(rm, u) = NoUser
           THEN CleanupRoom(r, rm, {}, {s})
           ELSE Keep(r, Arm(rm, u, Grace(u)), {}, {s})

-----------------------------------------------------------------------------
(* Entering a room: a check, the profile lookup, then the change. *)
InFlight(u) == {c \in lookup : Owner(c.sock) = u}

StartLookup(s, target) ==
  \E n \in 1..MaxLookups :
    /\ \A c \in InFlight(Owner(s)) : c.n # n
    /\ lookup' = lookup \cup {[sock |-> s, n |-> n, target |-> target]}

(* onRoomCreate up to the await. *)
RoomCreate_AnyTime(s) == \* mutated: no "already in a room" check
  /\ sock[s] = "on"
  /\ StartLookup(s, NoRoom)
  /\ UNCHANGED <<sock, hello, userRoom, sockRoom, room>>
RoomCreate(s) ==
  /\ sock[s] = "on"
  /\ RoomOfUser(Owner(s)) = NoRoom
  /\ StartLookup(s, NoRoom)
  /\ UNCHANGED <<sock, hello, userRoom, sockRoom, room>>

(* onRoomCreate after the await: nothing is checked again. *)
RoomCreated(c, r) ==
  LET u == Owner(c.sock) IN
  /\ c \in lookup /\ c.target = NoRoom
  /\ room[r].store = "free"
  /\ lookup' = lookup \ {c}
  /\ Put(r, SetPlayer(EmptyRoom("open"), u, Player(c.sock, TRUE)))
  /\ Register(u, c.sock, r)
  /\ UNCHANGED <<sock, hello>>

(* What onRoomJoin does to the room before the await. *)
JoinBegun(rm) ==
  IF rm.phase = "waiting" THEN Cancel(rm, {"ttl"}) ELSE ResetGameData(Cancel(rm, {"ttl"}))

(* What it asks of the room. *)
CanJoin(rm) == rm.phase \notin InGame /\ Len(rm.players) < 2

(* onRoomJoin up to the await. *)
RoomJoin(s, r) ==
  /\ sock[s] = "on"
  /\ RoomOfUser(Owner(s)) = NoRoom
  /\ Open(r)
  /\ CanJoin(room[r])
  /\ Put(r, JoinBegun(room[r]))
  /\ StartLookup(s, r)
  /\ UNCHANGED <<sock, hello, userRoom, sockRoom>>

(* onRoomJoin after the await, on the room object it fetched before.  The      *)
(* TypeError it throws when no host is left comes after the last state change. *)
RoomJoined(c) ==
  LET u == Owner(c.sock)
      r == c.target
  IN
  /\ c \in lookup /\ r # NoRoom
  /\ lookup' = lookup \ {c}
  /\ Put(r, Joined(room[r], u, c.sock))
  /\ Register(u, c.sock, r)
  /\ UNCHANGED <<sock, hello>>

(* Either lookup finds no profile: the account has been deleted. *)
ProfileMissing(c) ==
  /\ c \in lookup
  /\ lookup' = lookup \ {c}
  /\ UNCHANGED <<sock, hello, userRoom, sockRoom, room>>

-----------------------------------------------------------------------------
(* Events of a player in a room. *)

(* The sender has a room and is in it. *)
FromPlayer(s) == sock[s] = "on" /\ InRoom(Owner(s), RoomOfUser(Owner(s)))

(* The handler changes the room only. *)
Update(r, rm) == Put(r, rm) /\ UNCHANGED <<sock, hello, lookup, userRoom, sockRoom>>

(* onGameReady *)
GameReady(s) ==
  LET u == Owner(s)
      r == RoomOfUser(u)
      rm == [room[r] EXCEPT !.info[u].ready = TRUE]
  IN
  /\ FromPlayer(s)
  /\ rm.phase = "ready"
  /\ Update(r, IF \A p \in Members(rm) : rm.info[p].ready
               THEN StartCountdown([rm EXCEPT !.phase = "countdown"]) ELSE rm)

(* onRoundMicReady *)
RoundMicReady(s) ==
  LET u == Owner(s)
      r == RoomOfUser(u)
      rm == [room[r] EXCEPT !.micReady = @ \cup {u}]
  IN
  /\ FromPlayer(s)
  /\ rm.phase = "preparing"
  /\ u \notin room[r].micReady
  /\ Update(r, IF Members(rm) \subseteq rm.micReady
               THEN DoStartRound(Cancel(rm, {"prepare"})) ELSE rm)

(* Before the first official round the match is called off, after it u forfeits. *)
MicFailure_CalledOff(r, rm, u) == Keep(r, ResetGameData(rm), {}, {}) \* mutated: no forfeit
MicFailure(r, rm, u) ==
  IF rm.official THEN HandleForfeit(r, rm, u, {}, {}) ELSE Keep(r, ResetGameData(rm), {}, {})

(* onRoundMicError *)
RoundMicError(s) ==
  LET u == Owner(s)
      r == RoomOfUser(u)
      rm == Cancel(room[r], {"prepare"})
  IN
  /\ FromPlayer(s)
  /\ rm.phase = "preparing"
  /\ MicFailure(r, rm, u)
  /\ UNCHANGED <<sock, hello, lookup>>

(* The last submission closes the round.  Alone in the room, resolveRound throws *)
(* after its first assignment, and the exception stays in the event handler.     *)
CloseRound(rm) ==
  IF Len(rm.players) < 2 THEN [rm EXCEPT !.phase = "round_end"] ELSE ResolveRound(rm)

(* onRoundSubmit *)
RoundSubmit(s, db) ==
  LET u == Owner(s)
      r == RoomOfUser(u)
      rm == [room[r] EXCEPT !.info[u].sub = db]
  IN
  /\ FromPlayer(s)
  /\ CanSubmit(room[r], u)
  /\ Update(r, IF \A p \in Members(rm) : rm.info[p].sub # NoSubmission
               THEN CloseRound(Cancel(rm, {"round"})) ELSE rm)

(* onGameRematch *)
GameRematch(s) ==
  LET u == Owner(s)
      r == RoomOfUser(u)
      rm == [room[r] EXCEPT !.info[u].rematch = TRUE, !.phase = "rematch_waiting"]
      opp == OpponentOf(rm, u)
  IN
  /\ FromPlayer(s)
  /\ room[r].phase \in {"game_over", "rematch_waiting"}
  /\ Update(r, IF opp # NoUser /\ rm.info[opp].rematch THEN StartRematch(rm) ELSE rm)

(* The end of onRoomLeave when rm still has players: it stays if the opponent is *)
(* connected, who takes over as host from a leaving host.                        *)
LeftBehind_StaysIndexed(r, rm, opp, wasHost, u, q) == \* mutated: no removeUser
  IF opp = NoUser \/ ~rm.info[opp].connected THEN CleanupRoom(r, rm, {}, {q})
  ELSE Keep(r, IF wasHost THEN [rm EXCEPT !.info[opp].host = TRUE] ELSE rm, {}, {q})
LeftBehind(r, rm, opp, wasHost, u, q) ==
  IF opp = NoUser \/ ~rm.info[opp].connected THEN CleanupRoom(r, rm, {u}, {q})
  ELSE Keep(r, IF wasHost THEN [rm EXCEPT !.info[opp].host = TRUE] ELSE rm, {u}, {q})

(* onRoomLeave *)
RoomLeave(s) ==
  LET u == Owner(s)
      r == RoomOfUser(u)
      p == room[r].info[u]
      opp == OpponentOf(room[r], u)
      active == room[r].phase \in InGame
      rm == RemovePlayer(IF active THEN Cancel(room[r], {"prepare"}) ELSE room[r], u)
  IN
  /\ FromPlayer(s)
  /\ UNCHANGED <<sock, hello, lookup>>
  /\ \/ /\ active /\ rm.official
        /\ HandleForfeit(r, rm, u, {u}, {p.sock})
     \/ /\ ~(active /\ rm.official)
        /\ rm.players = <<>>
        /\ CleanupRoom(r, rm, {u}, {p.sock})
     \/ /\ active /\ ~rm.official
        /\ rm.players # <<>>
        /\ LeftBehind(r, SetupCancelled(rm), opp, p.host, u, p.sock)
     \/ /\ ~active
        /\ rm.players # <<>>
        /\ LeftBehind(r, SlotReleased(rm), opp, p.host, u, p.sock)

-----------------------------------------------------------------------------
(* Timer callbacks. *)

(* startCountdown's tick: counts down, then arms the next tick or the last wait. *)
CountdownTick(r) ==
  \E n \in 1..CountdownTicks : \E rm \in Expired(room[r], "countdown", Tick(n)) :
    Update(r, Arm(rm, "countdown", Tick(n - 1)))

(* The last wait of the countdown. *)
CountdownEnd(r) ==
  \E rm \in Expired(room[r], "countdown", Tick(0)) :
    Update(r, PrepareRound(Forget(rm, "countdown")))

NotReady(rm) == Members(rm) \ rm.micReady

(* The callback of prepareRound. *)
PrepareTimeout(r) ==
  \E rm \in Expired(room[r], "prepare", Timer("prepare")) :
    /\ UNCHANGED <<sock, hello, lookup>>
    /\ \/ /\ rm.phase # "preparing"
          /\ Keep(r, rm, {}, {})
       \/ /\ rm.phase = "preparing" /\ NotReady(rm) = {}
          /\ Keep(r, Forget(rm, "prepare"), {}, {})
       \/ /\ rm.phase = "preparing" /\ NotReady(rm) # {} /\ ~rm.official
          /\ Keep(r, ResetGameData(rm), {}, {})
       \/ /\ rm.phase = "preparing" /\ rm.official
          /\ \E u \in Users : NotReady(rm) = {u} /\ HandleForfeit(r, rm, u, {}, {})
       \/ /\ rm.phase = "preparing" /\ rm.official
          /\ Cardinality(NotReady(rm)) > 1
          /\ CleanupRoom(r, rm, {}, {})

(* An exception in a timer callback ends the process; it is restarted empty. *)
ProcessCrash ==
  /\ sock' = [s \in Sockets |-> IF sock[s] = "on" THEN "gone" ELSE sock[s]]
  /\ hello' = {}
  /\ lookup' = {}
  /\ Unregister(Users, Sockets)
  /\ room' = [r \in Rooms |-> EmptyRoom(IF room[r].store = "free" THEN "free" ELSE "gone")]

(* The callback of doStartRound: the hard close of the round. *)
RoundTimeout(r) ==
  \E rm \in Expired(room[r], "round", Timer("round")) :
    \/ rm.phase # "playing" /\ Update(r, rm)
    \/ rm.phase = "playing" /\ Len(rm.players) >= 2 /\ Update(r, ResolveRound(rm))
    \/ rm.phase = "playing" /\ Len(rm.players) < 2 /\ ProcessCrash

(* The two callbacks of resolveRound. *)
FinishTimeout(r) ==
  \E rm \in Expired(room[r], "post", Timer("finish")) :
    Update(r, FinishGame(Forget(rm, "post")))
NextRoundTimeout(r) ==
  \E rm \in Expired(room[r], "post", Timer("next")) :
    Update(r, StartCountdown(Forget(rm, "post")))

(* The callback of handleDisconnect. *)
ForfeitTimeout(r, u) ==
  \E rm \in Expired(room[r], u, Grace(u)) :
    HandleForfeit(r, rm, u, {}, {}) /\ UNCHANGED <<sock, hello, lookup>>

(* The callback of refreshTTL. *)
TTLTimeout(r) ==
  \E rm \in Expired(room[r], "ttl", Timer("ttl")) :
    CleanupRoom(r, rm, {}, {}) /\ UNCHANGED <<sock, hello, lookup>>

-----------------------------------------------------------------------------
ClientEvent(s) ==
  \/ GameReady(s) \/ RoundMicReady(s) \/ RoundMicError(s)
  \/ (\E db \in Decibels : RoundSubmit(s, db))
  \/ GameRematch(s) \/ RoomLeave(s)

TimerCallback(r) ==
  \/ CountdownTick(r) \/ CountdownEnd(r) \/ PrepareTimeout(r) \/ RoundTimeout(r)
  \/ FinishTimeout(r) \/ NextRoundTimeout(r) \/ TTLTimeout(r)
  \/ \E u \in Users : ForfeitTimeout(r, u)

Next ==
  \/ \E s \in Sockets :
       \/ Connect(s) \/ TryReconnect(s) \/ Disconnect(s) \/ RoomCreate(s)
       \/ (\E r \in Rooms : RoomJoin(s, r))
       \/ ClientEvent(s)
  \/ \E c \in lookup : RoomJoined(c) \/ ProfileMissing(c) \/ (\E r \in Rooms : RoomCreated(c, r))
  \/ \E r \in Rooms : TimerCallback(r)

Spec == Init /\ [][Next]_vars
=============================================================================
