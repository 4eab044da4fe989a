--------------------------- MODULE RegistrationProofs ---------------------------
(***************************************************************************)
(* The two maps that lead an event to its room.                            *)
(*                                                                         *)
(* First, the user index is sound: an open room it names has the user as   *)
(* player.  UserIndexSound alone is not inductive.  A create opens a room, *)
(* so no entry may name a code that was never given out, and a join        *)
(* registers its user with the room it fetched before the await, so no     *)
(* lookup in flight may target one either (NamedRoomsGivenOut).            *)
(*                                                                         *)
(* Then, while no user has two lookups in flight and no lost timer         *)
(* outlives its room, both maps are exact (Registered).  Most steps leave  *)
(* the players of a room alone (Stay); the others take out a player the    *)
(* step unregisters, or bring in one who was in no room (Consistent and    *)
(* Entering).  A step that deletes a room or runs a timer concerns other   *)
(* rooms only because it unregisters users by their id, so the players of  *)
(* a room are kept apart from those of every other open one.               *)
(***************************************************************************)
EXTENDS MatchProofs

NamedRoomsGivenOut ==
  /\ \A u \in Users : userRoom[u] # NoRoom => room[userRoom[u]].store # "free"
  /\ \A c \in lookup : c.target # NoRoom => room[c.target].store # "free"

Indexed  == UserIndexSound /\ NamedRoomsGivenOut
IndexInv == TypeOK /\ Indexed

-----------------------------------------------------------------------------
(* One room is written back, entries may be dropped, and nobody whose entry   *)
(* stays has been taken out of the room.                                      *)
LEMMA RoomStep ==
  ASSUME IndexInv, NEW r \in Rooms, NEW rm \in GameRoomType, Put(r, rm),
         rm.store \in {room[r].store, "gone"},
         userRoom' \in [Users -> Rooms \cup {NoRoom}],
         \A u \in Users : userRoom'[u] \in {userRoom[u], NoRoom},
         \A u \in Members(room[r]) :
           rm.store = "open" /\ userRoom'[u] = r => u \in Members(rm),
         \A c \in lookup' : c \in lookup \/ c.target = NoRoom \/ Open(c.target)
  PROVE  Indexed'
<1> USE DEF IndexInv, Indexed
<1>1. room' \in [Rooms -> GameRoomType] /\ StoreOK
  BY PutType, TypeOKSplit
<1>2. /\ room'[r] = Collected(rm)
      /\ \A q \in Rooms \ {r} : room'[q] = room[q]
  BY DEF Put, TypeOK
<1>3. /\ Collected(rm).store = rm.store
      /\ rm.store = "open" => Collected(rm) = rm
  BY DEF Collected, EmptyRoom, GameRoomType
<1>4. \A q \in Rooms : room[q].store # "free" => room'[q].store # "free"
  BY <1>2, <1>3
<1>5. UserIndexSound'
  <2> SUFFICES ASSUME NEW u \in Users, Open(userRoom[u])'
               PROVE  u \in Members(room'[userRoom'[u]])
    BY DEF UserIndexSound
  <2>1. userRoom'[u] = userRoom[u] /\ userRoom[u] \in Rooms
    BY <1>1 DEF Open, StoreOK
  <2>2. CASE userRoom[u] = r
    <3>1. rm.store = "open" /\ room'[r] = rm
      BY <1>2, <1>3, <2>1, <2>2 DEF Open
    <3>2. u \in Members(room[r])
      BY <2>2, <3>1, RoomsAssumption DEF UserIndexSound, Open
    <3> QED BY <2>1, <2>2, <3>1, <3>2
  <2>3. CASE userRoom[u] # r
    BY <1>2, <2>1, <2>3 DEF UserIndexSound, Open
  <2> QED BY <2>2, <2>3
<1>6. NamedRoomsGivenOut'
  <2>1. ASSUME NEW u \in Users, userRoom'[u] # NoRoom
        PROVE  room'[userRoom'[u]].store # "free"
    BY <1>1, <1>4, <2>1 DEF NamedRoomsGivenOut, StoreOK
  <2>2. ASSUME NEW c \in lookup', c.target # NoRoom
        PROVE  room'[c.target].store # "free"
    <3>1. CASE c \in lookup
      <4>1. c.target \in Rooms
        BY <2>2, <3>1 DEF TypeOK, Lookups
      <4> QED BY <1>4, <2>2, <3>1, <4>1 DEF NamedRoomsGivenOut
    <3>2. CASE Open(c.target)
      <4>1. c.target \in Rooms \/ c.target \notin Rooms
        OBVIOUS
      <4> QED BY <1>4, <3>2, <1>2, <1>3, <4>1 DEF Open, Put, TypeOK
    <3> QED BY <2>2, <3>1, <3>2
  <2> QED BY <2>1, <2>2 DEF NamedRoomsGivenOut
<1> QED BY <1>5, <1>6

(* The handler keeps the players, or takes out only ones it unregisters. *)
LEMMA KeepIndexed ==
  ASSUME IndexInv, NEW r \in Rooms, NEW rm \in GameRoomType, NEW us, NEW ss,
         rm.store = room[r].store, Members(room[r]) \ us \subseteq Members(rm),
         Keep(r, rm, us, ss), lookup' = lookup
  PROVE  Indexed'
<1>1. /\ userRoom' \in [Users -> Rooms \cup {NoRoom}]
      /\ \A u \in Users : userRoom'[u] = IF u \in us THEN NoRoom ELSE userRoom[u]
  BY DEF Keep, Unregister, IndexInv, TypeOK
<1>2. Members(room[r]) \subseteq Users
  BY DEF IndexInv, TypeOK, GameRoomType, Members
<1>3. \A u \in Members(room[r]) : rm.store = "open" /\ userRoom'[u] = r => u \in Members(rm)
  BY <1>1, <1>2, RoomsAssumption
<1> QED BY <1>1, <1>3, RoomStep DEF Keep

LEMMA UpdateIndexed ==
  ASSUME IndexInv, NEW r \in Rooms, NEW rm \in GameRoomType, Kept(room[r], rm), Update(r, rm)
  PROVE  Indexed'
<1>1. Members(room[r]) = Members(rm) /\ Members(room[r]) \subseteq Users
  BY DEF Kept, Members, IndexInv, TypeOK, GameRoomType
<1>2. userRoom' = userRoom /\ lookup' = lookup /\ Put(r, rm)
  BY DEF Update
<1> QED BY <1>1, <1>2, RoomStep DEF Kept, IndexInv, TypeOK

LEMMA CleanupIndexed ==
  ASSUME IndexInv, NEW r \in Rooms, NEW rm \in GameRoomType, NEW us, NEW ss,
         CleanupRoom(r, rm, us, ss), lookup' = lookup
  PROVE  Indexed'
<1>1. Deleted(rm) \in GameRoomType /\ Deleted(rm).store = "gone"
  <2>1. Cancel(rm, RoomHandles \cup Members(rm)) \in GameRoomType
    BY CancelType
  <2> QED BY <2>1, DeletedType DEF Deleted, GameRoomType
<1>2. /\ userRoom' \in [Users -> Rooms \cup {NoRoom}]
      /\ \A u \in Users : userRoom'[u] \in {userRoom[u], NoRoom}
  BY DEF CleanupRoom, Keep, Unregister, IndexInv, TypeOK
<1>3. Put(r, Deleted(rm))
  BY DEF CleanupRoom, Keep
<1> QED BY <1>1, <1>2, <1>3, RoomStep

LEMMA ForfeitIndexed ==
  ASSUME IndexInv, NEW r \in Rooms, NEW rm \in GameRoomType, NEW u, NEW us, NEW ss,
         rm.store = room[r].store, Members(room[r]) \ us \subseteq Members(rm),
         HandleForfeit(r, rm, u, us, ss), lookup' = lookup
  PROVE  Indexed'
<1>1. GameOver(rm) \in GameRoomType /\ Kept(rm, GameOver(rm))
  BY GameOverType, MatchKept
<1>2. RefreshTTL(GameOver(rm)) \in GameRoomType /\ Kept(rm, RefreshTTL(GameOver(rm)))
  BY <1>1, RefreshTTLType, TimersKept DEF Kept
<1>3. Members(RefreshTTL(GameOver(rm))) = Members(rm)
  BY <1>2 DEF Kept, Members
<1>4. CASE Keep(r, rm, us, ss)
  BY <1>4, KeepIndexed
<1>5. CASE CleanupRoom(r, GameOver(rm), us, ss)
  BY <1>1, <1>5, CleanupIndexed
<1>6. CASE Keep(r, RefreshTTL(GameOver(rm)), us, ss)
  BY <1>2, <1>3, <1>6, KeepIndexed DEF Kept
<1> QED BY <1>4, <1>5, <1>6 DEF HandleForfeit

-----------------------------------------------------------------------------
(* Connections. *)
LEMMA UnchangedIndexed ==
  ASSUME IndexInv, UNCHANGED <<userRoom, room>>,
         \A c \in lookup' : c \in lookup \/ c.target = NoRoom
  PROVE  Indexed'
<1>1. UserIndexSound'
  BY DEF IndexInv, Indexed, UserIndexSound, Open
<1>2. NamedRoomsGivenOut'
  BY DEF IndexInv, Indexed, NamedRoomsGivenOut
<1> QED BY <1>1, <1>2 DEF Indexed

(* Entries are dropped and no room changes. *)
LEMMA UnregisterIndexed ==
  ASSUME IndexInv, NEW us, NEW ss, Unregister(us, ss), UNCHANGED <<room, lookup>>
  PROVE  Indexed'
<1>1. \A u \in Users : userRoom'[u] \in {userRoom[u], NoRoom}
  BY DEF Unregister
<1>2. UserIndexSound'
  BY <1>1 DEF IndexInv, Indexed, UserIndexSound, Open
<1>3. NamedRoomsGivenOut'
  BY <1>1 DEF IndexInv, Indexed, NamedRoomsGivenOut
<1> QED BY <1>2, <1>3 DEF Indexed

LEMMA TryReconnectIndexed ==
  ASSUME IndexInv, NEW s \in Sockets, TryReconnect(s)
  PROVE  Indexed'
<1> DEFINE u == Owner(s)
           r == RoomOfUser(u)
           rm == room[r]
<1>1. u \in Users /\ (r # NoRoom => r \in Rooms) /\ TypeOK /\ StoreOK /\ lookup' = lookup
  BY OwnerType, RoomOfType, TypeOKSplit DEF IndexInv, TryReconnect
<1>2. CASE ~InRoom(u, r)
  BY <1>1, <1>2, UnchangedIndexed DEF TryReconnect
<1>3. CASE InRoom(u, r)
  <2>1. r \in Rooms /\ rm \in GameRoomType /\ u \in Members(rm)
    BY <1>1, <1>3 DEF InRoom, StoreOK
  <2>2. /\ RemovePlayer(rm, u) \in GameRoomType
        /\ RemovePlayer(rm, u).store = rm.store
        /\ Members(rm) \ {u} \subseteq Members(RemovePlayer(rm, u))
    BY <2>1, RemovePlayerType, RemovePlayerMembers
  <2>3. Rejoined(rm, u, s) \in GameRoomType /\ Kept(rm, Rejoined(rm, u, s))
    <3>1. Cancel(rm, {u}) \in GameRoomType /\ Kept(rm, Cancel(rm, {u}))
      BY <2>1, CancelType, TimersKept
    <3>2. Kept(Cancel(rm, {u}), Rejoined(rm, u, s))
      BY <3>1 DEF Rejoined, GameRoomType, Kept
    <3> QED BY <1>1, <2>1, <3>1, <3>2, RejoinedType DEF Kept
  <2>4. CASE rm.phase \notin Reconnects
    <3>1. \/ CleanupRoom(r, RemovePlayer(rm, u), {u}, {rm.info[u].sock})
          \/ Keep(r, RemovePlayer(rm, u), {u}, {rm.info[u].sock})
      BY <1>3, <2>4 DEF TryReconnect
    <3> QED BY <1>1, <2>1, <2>2, <3>1, CleanupIndexed, KeepIndexed
  <2>5. CASE rm.phase \in Reconnects
    <3>1. Put(r, Rejoined(rm, u, s)) /\ userRoom' = userRoom
      BY <1>3, <2>5 DEF TryReconnect, Reregister
    <3>2. Members(Rejoined(rm, u, s)) = Members(rm) /\ Members(rm) \subseteq Users
      BY <2>1, <2>3 DEF Kept, Members, GameRoomType
    <3> QED BY <1>1, <2>1, <2>3, <3>1, <3>2, RoomStep DEF Kept, StoreOK
  <2> QED BY <2>4, <2>5
<1> QED BY <1>2, <1>3

LEMMA DisconnectIndexed ==
  ASSUME IndexInv, NEW s \in Sockets, Disconnect(s)
  PROVE  Indexed'
<1> DEFINE u == Owner(s)
           r == RoomOfSocket(s)
           rm == Away(room[r], u)
<1>1. u \in Users /\ (r # NoRoom => r \in Rooms) /\ TypeOK /\ StoreOK /\ lookup' = lookup
  BY OwnerType, RoomOfType, TypeOKSplit DEF IndexInv, Disconnect
<1>2. CASE ~InRoom(u, r)
  BY <1>1, <1>2, UnregisterIndexed DEF Disconnect
<1>3. CASE InRoom(u, r)
  <2>1. r \in Rooms /\ room[r] \in GameRoomType
    BY <1>1, <1>3 DEF InRoom, StoreOK
  <2>2. rm \in GameRoomType /\ Kept(room[r], rm)
    BY <1>1, <2>1, AwayType DEF Away, Kept, GameRoomType
  <2> HIDE DEF rm
  <2>3. /\ Arm(rm, u, Grace(u)) \in GameRoomType /\ RefreshTTL(rm) \in GameRoomType
        /\ Kept(room[r], Arm(rm, u, Grace(u))) /\ Kept(room[r], RefreshTTL(rm))
    <3>1. u \in Handles /\ Grace(u) \in Timers \cup {NoTimer}
      BY <1>1, TimersType, HandlesType
    <3> QED BY <2>2, <3>1, ArmType, RefreshTTLType, TimersKept DEF Kept
  <2>4. \/ CleanupRoom(r, rm, {}, {s})
        \/ Keep(r, RefreshTTL(rm), {}, {s})
        \/ Keep(r, Arm(rm, u, Grace(u)), {}, {s})
    BY <1>3 DEF Disconnect, rm
  <2>5. /\ Members(room[r]) = Members(RefreshTTL(rm))
        /\ Members(room[r]) = Members(Arm(rm, u, Grace(u)))
    BY <2>3 DEF Kept, Members
  <2> QED BY <1>1, <2>1, <2>2, <2>3, <2>4, <2>5, CleanupIndexed, KeepIndexed DEF Kept
<1> QED BY <1>2, <1>3

-----------------------------------------------------------------------------
(* Entering a room. *)
LEMMA RoomCreateIndexed ==
  ASSUME IndexInv, NEW s \in Sockets, RoomCreate(s)
  PROVE  Indexed'
BY UnchangedIndexed DEF RoomCreate, StartLookup

LEMMA RoomJoinIndexed ==
  ASSUME IndexInv, NEW s \in Sockets, NEW r \in Rooms, RoomJoin(s, r)
  PROVE  Indexed'
<1>1. room[r] \in GameRoomType /\ TypeOK
  BY DEF IndexInv, TypeOK
<1>2. JoinBegun(room[r]) \in GameRoomType /\ Kept(room[r], JoinBegun(room[r]))
  <2>1. Cancel(room[r], {"ttl"}) \in GameRoomType /\ Kept(room[r], Cancel(room[r], {"ttl"}))
    BY <1>1, CancelType, TimersKept
  <2> QED BY <2>1, ResetGameDataType, MatchKept DEF JoinBegun, Kept
<1>3. \A c \in lookup' : c \in lookup \/ c.target = NoRoom \/ Open(c.target)
  BY DEF RoomJoin, StartLookup
<1>4. Members(JoinBegun(room[r])) = Members(room[r]) /\ Members(room[r]) \subseteq Users
  BY <1>1, <1>2 DEF Kept, Members, GameRoomType
<1>5. Put(r, JoinBegun(room[r])) /\ userRoom' = userRoom
  BY DEF RoomJoin
<1> QED BY <1>1, <1>2, <1>3, <1>4, <1>5, RoomStep DEF Kept, TypeOK

(* A user is registered with a room it has just been put into. *)
LEMMA EntryIndexed ==
  ASSUME IndexInv, NEW r \in Rooms, NEW rm \in GameRoomType, NEW u \in Users, NEW s \in Sockets,
         Put(r, rm), Register(u, s, r), lookup' \subseteq lookup,
         room[r].store = rm.store \/ (room[r].store = "free" /\ rm.store = "open"),
         rm.store # "free",
         room[r].store = "open" => Members(room[r]) \subseteq Members(rm),
         u \in Members(rm)
  PROVE  Indexed'
<1> USE DEF IndexInv, Indexed
<1>1. /\ \A v \in Users : userRoom'[v] = IF v = u THEN r ELSE userRoom[v]
      /\ \A v \in Users : userRoom[v] \in Rooms \cup {NoRoom}
  BY DEF Register, TypeOK
<1>2. /\ room'[r] = Collected(rm)
      /\ \A q \in Rooms \ {r} : room'[q] = room[q]
  BY DEF Put, TypeOK
<1>3. /\ Collected(rm).store = rm.store
      /\ rm.store = "open" => Collected(rm) = rm
  BY DEF Collected, EmptyRoom, GameRoomType
<1>4. UserIndexSound'
  <2> SUFFICES ASSUME NEW v \in Users, Open(userRoom[v])'
               PROVE  v \in Members(room'[userRoom'[v]])
    BY DEF UserIndexSound
  <2>1. CASE v = u
    BY <1>1, <1>2, <1>3, <2>1 DEF Open
  <2>2. CASE v # u /\ userRoom[v] = r
    <3>1. room[r].store # "free" /\ userRoom[v] # NoRoom
      BY <2>2, RoomsAssumption DEF NamedRoomsGivenOut
    <3>2. rm.store = "open" /\ room[r].store = "open" /\ room'[r] = rm
      BY <1>1, <1>2, <1>3, <2>2, <3>1 DEF Open
    <3>3. v \in Members(room[r])
      BY <2>2, <3>1, <3>2 DEF UserIndexSound, Open
    <3> QED BY <1>1, <2>2, <3>2, <3>3
  <2>3. CASE v # u /\ userRoom[v] # r
    BY <1>1, <1>2, <2>3 DEF UserIndexSound, Open
  <2> QED BY <2>1, <2>2, <2>3
<1>5. NamedRoomsGivenOut'
  <2>1. \A q \in Rooms : room[q].store # "free" => room'[q].store # "free"
    BY <1>2, <1>3
  <2>2. room'[r].store # "free"
    BY <1>2, <1>3
  <2>3. ASSUME NEW v \in Users, userRoom'[v] # NoRoom
        PROVE  room'[userRoom'[v]].store # "free"
    BY <1>1, <2>1, <2>2, <2>3 DEF NamedRoomsGivenOut
  <2>4. ASSUME NEW c \in lookup', c.target # NoRoom
        PROVE  room'[c.target].store # "free"
    <3>1. c \in lookup /\ c.target \in Rooms
      BY <2>4 DEF TypeOK, Lookups
    <3> QED BY <2>1, <2>4, <3>1 DEF NamedRoomsGivenOut
  <2> QED BY <2>3, <2>4 DEF NamedRoomsGivenOut
<1> QED BY <1>4, <1>5

LEMMA RoomCreatedIndexed ==
  ASSUME IndexInv, NEW c \in lookup, NEW r \in Rooms, RoomCreated(c, r)
  PROVE  Indexed'
<1> DEFINE u == Owner(c.sock)
           rm == SetPlayer(EmptyRoom("open"), u, Player(c.sock, TRUE))
<1>1. c.sock \in Sockets /\ u \in Users
  BY OwnerType DEF IndexInv, TypeOK, Lookups
<1>2. EmptyRoom("open") \in GameRoomType /\ EmptyRoom("open").store = "open"
  BY EmptyType DEF EmptyRoom
<1>3. rm \in GameRoomType /\ rm.store = "open" /\ u \in Members(rm)
  BY <1>1, <1>2, PlayerType, SetPlayerType, SetPlayerMembers
<1> HIDE DEF rm
<1>4. room[r].store = "free" /\ Put(r, rm) /\ Register(u, c.sock, r) /\ lookup' \subseteq lookup
  BY DEF RoomCreated, rm
<1> QED BY <1>1, <1>3, <1>4, EntryIndexed

LEMMA RoomJoinedIndexed ==
  ASSUME IndexInv, NEW c \in lookup, RoomJoined(c)
  PROVE  Indexed'
<1> DEFINE u == Owner(c.sock)
           r == c.target
           rm == Joined(room[r], u, c.sock)
<1>1. c.sock \in Sockets /\ u \in Users /\ r \in Rooms /\ room[r] \in GameRoomType
  BY OwnerType DEF IndexInv, TypeOK, Lookups, RoomJoined
<1>2. room[r].store # "free"
  BY DEF IndexInv, Indexed, NamedRoomsGivenOut, RoomJoined
<1>3. rm \in GameRoomType /\ rm.store = room[r].store /\ Members(room[r]) \cup {u} \subseteq Members(rm)
  <2> DEFINE x == SetPlayer(room[r], u, Player(c.sock, FALSE))
  <2>1. Player(c.sock, FALSE) \in PlayerInfo
    BY <1>1, PlayerType
  <2>2. /\ x \in GameRoomType /\ x.store = room[r].store
        /\ Members(room[r]) \cup {u} \subseteq Members(x)
    BY <1>1, <2>1, SetPlayerType, SetPlayerMembers
  <2> HIDE DEF x
  <2>3. rm = [x EXCEPT !.phase = "ready"]
    BY DEF Joined, x
  <2>4. rm.store = x.store /\ rm.players = x.players
    BY <2>2, <2>3 DEF GameRoomType
  <2> QED BY <1>1, <2>2, <2>4, JoinedType DEF Members
<1> HIDE DEF rm
<1>4. Put(r, rm) /\ Register(u, c.sock, r) /\ lookup' \subseteq lookup
  BY DEF RoomJoined, rm
<1> QED BY <1>1, <1>2, <1>3, <1>4, EntryIndexed

LEMMA ProfileMissingIndexed ==
  ASSUME IndexInv, NEW c \in lookup, ProfileMissing(c)
  PROVE  Indexed'
BY UnchangedIndexed DEF ProfileMissing

-----------------------------------------------------------------------------
(* Events of a player in a room. *)
LEMMA SenderIndexed ==
  ASSUME IndexInv, NEW s \in Sockets, FromPlayer(s)
  PROVE  LET u == Owner(s)
             r == RoomOfUser(u)
         IN  /\ u \in Users /\ r \in Rooms /\ u \in Members(room[r])
             /\ room[r] \in GameRoomType /\ TypeOK /\ StoreOK
BY SenderType, TypeOKSplit DEF IndexInv

LEMMA GameReadyIndexed ==
  ASSUME IndexInv, NEW s \in Sockets, GameReady(s)
  PROVE  Indexed'
<1> DEFINE u == Owner(s)
           r == RoomOfUser(u)
           rm == [room[r] EXCEPT !.info[u].ready = TRUE]
           x == [rm EXCEPT !.phase = "countdown"]
<1>1. r \in Rooms /\ room[r] \in GameRoomType
  BY SenderIndexed DEF GameReady
<1>2. rm \in GameRoomType /\ Kept(room[r], rm)
  BY <1>1, PlayerUpdateType DEF Kept, GameRoomType
<1> HIDE DEF rm
<1>3. x \in GameRoomType /\ Kept(rm, x)
  BY <1>2 DEF GameRoomType, Phases, Kept
<1> HIDE DEF x
<1>4. StartCountdown(x) \in GameRoomType /\ Kept(room[r], StartCountdown(x))
  BY <1>2, <1>3, StartCountdownType, MatchKept DEF Kept
<1>5. Update(r, StartCountdown(x)) \/ Update(r, rm)
  BY DEF GameReady, rm, x
<1> QED BY <1>1, <1>2, <1>4, <1>5, UpdateIndexed

LEMMA RoundMicReadyIndexed ==
  ASSUME IndexInv, NEW s \in Sockets, RoundMicReady(s)
  PROVE  Indexed'
<1> DEFINE u == Owner(s)
           r == RoomOfUser(u)
           rm == [room[r] EXCEPT !.micReady = @ \cup {u}]
           x == Cancel(rm, {"prepare"})
<1>1. u \in Users /\ r \in Rooms /\ room[r] \in GameRoomType
  BY SenderIndexed DEF RoundMicReady
<1>2. rm \in GameRoomType /\ Kept(room[r], rm)
  BY <1>1 DEF GameRoomType, Kept
<1> HIDE DEF rm
<1>3. x \in GameRoomType /\ Kept(rm, x)
  BY <1>2, CancelType, TimersKept
<1> HIDE DEF x
<1>4. DoStartRound(x) \in GameRoomType /\ Kept(room[r], DoStartRound(x))
  BY <1>2, <1>3, DoStartRoundType, MatchKept DEF Kept
<1>5. Update(r, DoStartRound(x)) \/ Update(r, rm)
  BY DEF RoundMicReady, rm, x
<1> QED BY <1>1, <1>2, <1>4, <1>5, UpdateIndexed

LEMMA RoundMicErrorIndexed ==
  ASSUME IndexInv, NEW s \in Sockets, RoundMicError(s)
  PROVE  Indexed'
<1> DEFINE u == Owner(s)
           r == RoomOfUser(u)
           rm == Cancel(room[r], {"prepare"})
<1>1. r \in Rooms /\ room[r] \in GameRoomType
  BY SenderIndexed DEF RoundMicError
<1>2. rm \in GameRoomType /\ Kept(room[r], rm)
  BY <1>1, CancelType, TimersKept
<1>3. MicFailure(r, rm, u) /\ lookup' = lookup
  BY DEF RoundMicError
<1> HIDE DEF rm
<1>4. ResetGameData(rm) \in GameRoomType /\ Kept(room[r], ResetGameData(rm))
  BY <1>2, ResetGameDataType, MatchKept DEF Kept
<1>5. Members(rm) = Members(room[r]) /\ Members(ResetGameData(rm)) = Members(room[r])
  BY <1>2, <1>4 DEF Kept, Members
<1> QED BY <1>1, <1>2, <1>3, <1>4, <1>5, ForfeitIndexed, KeepIndexed DEF MicFailure, Kept

LEMMA RoundSubmitIndexed ==
  ASSUME IndexInv, NEW s \in Sockets, NEW db \in Decibels, RoundSubmit(s, db)
  PROVE  Indexed'
<1> DEFINE u == Owner(s)
           r == RoomOfUser(u)
           rm == [room[r] EXCEPT !.info[u].sub = db]
           x == Cancel(rm, {"round"})
<1>1. r \in Rooms /\ room[r] \in GameRoomType
  BY SenderIndexed DEF RoundSubmit
<1>2. rm \in GameRoomType /\ Kept(room[r], rm)
  BY <1>1, PlayerUpdateType DEF Kept, GameRoomType
<1> HIDE DEF rm
<1>3. x \in GameRoomType /\ Kept(rm, x)
  BY <1>2, CancelType, TimersKept
<1> HIDE DEF x
<1>4. CloseRound(x) \in GameRoomType /\ Kept(x, CloseRound(x))
  <2>1. Kept(x, [x EXCEPT !.phase = "round_end"])
    BY <1>3 DEF Kept, GameRoomType
  <2> QED BY <1>3, <2>1, CloseRoundType, MatchKept DEF CloseRound
<1>5. Update(r, CloseRound(x)) \/ Update(r, rm)
  BY DEF RoundSubmit, rm, x
<1> QED BY <1>1, <1>2, <1>3, <1>4, <1>5, UpdateIndexed DEF Kept

LEMMA GameRematchIndexed ==
  ASSUME IndexInv, NEW s \in Sockets, GameRematch(s)
  PROVE  Indexed'
<1> DEFINE u == Owner(s)
           r == RoomOfUser(u)
           rm == [room[r] EXCEPT !.info[u].rematch = TRUE, !.phase = "rematch_waiting"]
<1>1. r \in Rooms /\ room[r] \in GameRoomType
  BY SenderIndexed DEF GameRematch
<1>2. rm \in GameRoomType /\ Kept(room[r], rm)
  <2>1. "rematch_waiting" \in Phases
    BY DEF Phases
  <2>2. rm \in GameRoomType
    BY <1>1, <2>1, PlayerUpdateType
  <2>3. rm.store = room[r].store /\ rm.players = room[r].players
    BY <1>1 DEF GameRoomType
  <2> QED BY <2>2, <2>3 DEF Kept
<1> HIDE DEF rm
<1>3. StartRematch(rm) \in GameRoomType /\ Kept(room[r], StartRematch(rm))
  BY <1>2, StartRematchType, MatchKept DEF Kept
<1>4. Update(r, StartRematch(rm)) \/ Update(r, rm)
  BY DEF GameRematch, rm
<1> QED BY <1>1, <1>2, <1>3, <1>4, UpdateIndexed

LEMMA LeftBehindIndexed ==
  ASSUME IndexInv, NEW r \in Rooms, NEW rm \in GameRoomType, NEW opp, NEW wasHost, NEW u, NEW q,
         rm.store = room[r].store, Members(room[r]) \ {u} \subseteq Members(rm),
         LeftBehind(r, rm, opp, wasHost, u, q), lookup' = lookup
  PROVE  Indexed'
<1>1. /\ [rm EXCEPT !.info[opp].host = TRUE] \in GameRoomType
      /\ Kept(rm, [rm EXCEPT !.info[opp].host = TRUE])
  BY PlayerUpdateType DEF Kept, GameRoomType
<1>2. Members([rm EXCEPT !.info[opp].host = TRUE]) = Members(rm)
  BY <1>1 DEF Kept, Members
<1>3. CASE CleanupRoom(r, rm, {u}, {q})
  BY <1>3, CleanupIndexed
<1>4. CASE Keep(r, rm, {u}, {q})
  BY <1>4, KeepIndexed
<1>5. CASE Keep(r, [rm EXCEPT !.info[opp].host = TRUE], {u}, {q})
  BY <1>1, <1>2, <1>5, KeepIndexed DEF Kept
<1> QED BY <1>3, <1>4, <1>5 DEF LeftBehind

LEMMA RoomLeaveIndexed ==
  ASSUME IndexInv, NEW s \in Sockets, RoomLeave(s)
  PROVE  Indexed'
<1> DEFINE u == Owner(s)
           r == RoomOfUser(u)
           p == room[r].info[u]
           opp == OpponentOf(room[r], u)
           active == room[r].phase \in InGame
           before == IF active THEN Cancel(room[r], {"prepare"}) ELSE room[r]
           rm == RemovePlayer(before, u)
           set == SetupCancelled(rm)
           slot == SlotReleased(rm)
<1>1. u \in Users /\ r \in Rooms /\ u \in Members(room[r]) /\ room[r] \in GameRoomType
  BY SenderIndexed DEF RoomLeave
<1>2. before \in GameRoomType /\ Kept(room[r], before)
  BY <1>1, CancelType, TimersKept DEF Kept
<1>3. Members(before) = Members(room[r]) /\ before.store = room[r].store
  BY <1>2 DEF Kept, Members
<1> HIDE DEF before
<1>4. /\ rm \in GameRoomType /\ rm.store = room[r].store
      /\ Members(room[r]) \ {u} \subseteq Members(rm)
  BY <1>1, <1>2, <1>3, RemovePlayerType, RemovePlayerMembers
<1>5. /\ lookup' = lookup
      /\ \/ HandleForfeit(r, rm, u, {u}, {p.sock})
         \/ CleanupRoom(r, rm, {u}, {p.sock})
         \/ LeftBehind(r, set, opp, p.host, u, p.sock)
         \/ LeftBehind(r, slot, opp, p.host, u, p.sock)
  BY DEF RoomLeave, before
<1> HIDE DEF rm
<1>6. /\ set \in GameRoomType /\ Kept(rm, set) /\ slot \in GameRoomType /\ Kept(rm, slot)
      /\ Members(set) = Members(rm) /\ Members(slot) = Members(rm)
  <2>1. set \in GameRoomType /\ Kept(rm, set) /\ slot \in GameRoomType /\ Kept(rm, slot)
    BY <1>4, LeaveResetsType, MatchKept
  <2> HIDE DEF set, slot
  <2> QED BY <2>1 DEF Kept, Members
<1> HIDE DEF set, slot
<1>7. set.store = rm.store /\ slot.store = rm.store
  BY <1>6 DEF Kept
<1> QED BY <1>1, <1>4, <1>5, <1>6, <1>7, ForfeitIndexed, CleanupIndexed, LeftBehindIndexed

-----------------------------------------------------------------------------
(* Timer callbacks. *)
LEMMA TimedOutKept ==
  ASSUME IndexInv, NEW r \in Rooms, NEW h \in Handles, NEW t \in Timers,
         NEW rm \in Expired(room[r], h, t)
  PROVE  /\ rm \in GameRoomType /\ Kept(room[r], rm)
         /\ rm.store = room[r].store /\ Members(rm) = Members(room[r])
<1>1. room[r] \in GameRoomType /\ TypeOK
  BY DEF IndexInv, TypeOK
<1>2. rm \in GameRoomType /\ Kept(room[r], rm)
  BY <1>1, TimedOutType, TimersKept
<1> QED BY <1>2 DEF Kept, Members

LEMMA CountdownTickIndexed ==
  ASSUME IndexInv, NEW r \in Rooms, CountdownTick(r)
  PROVE  Indexed'
<1>1. PICK n \in 1..CountdownTicks :
        \E rm \in Expired(room[r], "countdown", Tick(n)) : Update(r, Arm(rm, "countdown", Tick(n - 1)))
  BY DEF CountdownTick
<1>2. PICK rm \in Expired(room[r], "countdown", Tick(n)) :
        Update(r, Arm(rm, "countdown", Tick(n - 1)))
  BY <1>1
<1>3. n \in 0..CountdownTicks /\ n - 1 \in 0..CountdownTicks
  BY TicksAssumption
<1>4. Tick(n) \in Timers /\ Tick(n - 1) \in Timers
  BY <1>3, TimersType
<1>5. rm \in GameRoomType /\ Kept(room[r], rm)
  BY <1>4, TimedOutKept, HandlesType
<1>6. /\ Arm(rm, "countdown", Tick(n - 1)) \in GameRoomType
      /\ Kept(room[r], Arm(rm, "countdown", Tick(n - 1)))
  BY <1>4, <1>5, ArmType, TimersKept, HandlesType DEF Kept
<1> QED BY <1>2, <1>6, UpdateIndexed

LEMMA CountdownEndIndexed ==
  ASSUME IndexInv, NEW r \in Rooms, CountdownEnd(r)
  PROVE  Indexed'
<1>1. PICK rm \in Expired(room[r], "countdown", Tick(0)) :
        Update(r, PrepareRound(Forget(rm, "countdown")))
  BY DEF CountdownEnd
<1>2. Tick(0) \in Timers
  BY TimersType, TicksAssumption
<1>3. rm \in GameRoomType /\ Kept(room[r], rm)
  BY <1>2, TimedOutKept, HandlesType
<1>4. Forget(rm, "countdown") \in GameRoomType /\ Kept(room[r], Forget(rm, "countdown"))
  BY <1>3, ForgetType, TimersKept, HandlesType DEF Kept
<1>5. /\ PrepareRound(Forget(rm, "countdown")) \in GameRoomType
      /\ Kept(room[r], PrepareRound(Forget(rm, "countdown")))
  BY <1>4, PrepareRoundType, MatchKept DEF Kept
<1> QED BY <1>1, <1>5, UpdateIndexed

LEMMA PrepareTimeoutIndexed ==
  ASSUME IndexInv, NEW r \in Rooms, PrepareTimeout(r)
  PROVE  Indexed'
<1>1. PICK rm \in Expired(room[r], "prepare", Timer("prepare")) :
        /\ lookup' = lookup
        /\ \/ Keep(r, rm, {}, {})
           \/ Keep(r, Forget(rm, "prepare"), {}, {})
           \/ Keep(r, ResetGameData(rm), {}, {})
           \/ \E u \in Users : HandleForfeit(r, rm, u, {}, {})
           \/ CleanupRoom(r, rm, {}, {})
  BY DEF PrepareTimeout
<1>2. /\ rm \in GameRoomType /\ rm.store = room[r].store /\ Members(rm) = Members(room[r])
  BY TimedOutKept, TimersType, HandlesType
<1>3. /\ Forget(rm, "prepare") \in GameRoomType /\ ResetGameData(rm) \in GameRoomType
      /\ Kept(rm, Forget(rm, "prepare")) /\ Kept(rm, ResetGameData(rm))
  BY <1>2, ForgetType, ResetGameDataType, HandlesType, TimersKept, MatchKept
<1>4. /\ Members(Forget(rm, "prepare")) = Members(rm) /\ Members(ResetGameData(rm)) = Members(rm)
      /\ Forget(rm, "prepare").store = rm.store /\ ResetGameData(rm).store = rm.store
  BY <1>3 DEF Kept, Members
<1> QED BY <1>1, <1>2, <1>3, <1>4, KeepIndexed, ForfeitIndexed, CleanupIndexed

LEMMA ProcessCrashIndexed ==
  ASSUME IndexInv, ProcessCrash
  PROVE  Indexed'
<1>1. \A u \in Users : userRoom'[u] = NoRoom
  BY DEF ProcessCrash, Unregister
<1>2. lookup' = {}
  BY DEF ProcessCrash
<1> QED BY <1>1, <1>2 DEF Indexed, UserIndexSound, NamedRoomsGivenOut, Open

LEMMA RoundTimeoutIndexed ==
  ASSUME IndexInv, NEW r \in Rooms, RoundTimeout(r)
  PROVE  Indexed'
<1>1. PICK rm \in Expired(room[r], "round", Timer("round")) :
        Update(r, rm) \/ Update(r, ResolveRound(rm)) \/ ProcessCrash
  BY DEF RoundTimeout
<1>2. rm \in GameRoomType /\ Kept(room[r], rm)
  BY TimedOutKept, TimersType, HandlesType
<1>3. ResolveRound(rm) \in GameRoomType /\ Kept(room[r], ResolveRound(rm))
  BY <1>2, ResolveRoundType, MatchKept DEF Kept
<1> QED BY <1>1, <1>2, <1>3, UpdateIndexed, ProcessCrashIndexed

LEMMA PostTimeoutsIndexed ==
  ASSUME IndexInv, NEW r \in Rooms, FinishTimeout(r) \/ NextRoundTimeout(r)
  PROVE  Indexed'
<1>1. PICK t \in {Timer("finish"), Timer("next")} : \E rm \in Expired(room[r], "post", t) :
        \/ Update(r, FinishGame(Forget(rm, "post")))
        \/ Update(r, StartCountdown(Forget(rm, "post")))
  BY DEF FinishTimeout, NextRoundTimeout
<1>2. PICK rm \in Expired(room[r], "post", t) :
        \/ Update(r, FinishGame(Forget(rm, "post")))
        \/ Update(r, StartCountdown(Forget(rm, "post")))
  BY <1>1
<1> DEFINE x == Forget(rm, "post")
<1>3. t \in Timers
  BY TimersType
<1>4. rm \in GameRoomType /\ Kept(room[r], rm)
  BY <1>3, TimedOutKept, HandlesType
<1>5. x \in GameRoomType /\ Kept(room[r], x)
  BY <1>4, ForgetType, TimersKept, HandlesType DEF Kept
<1> HIDE DEF x
<1>6. /\ FinishGame(x) \in GameRoomType /\ Kept(room[r], FinishGame(x))
      /\ StartCountdown(x) \in GameRoomType /\ Kept(room[r], StartCountdown(x))
  BY <1>5, FinishGameType, StartCountdownType, MatchKept DEF Kept
<1> QED BY <1>2, <1>6, UpdateIndexed DEF x

LEMMA ForfeitTimeoutIndexed ==
  ASSUME IndexInv, NEW r \in Rooms, NEW u \in Users, ForfeitTimeout(r, u)
  PROVE  Indexed'
<1>1. PICK rm \in Expired(room[r], u, Grace(u)) :
        HandleForfeit(r, rm, u, {}, {}) /\ lookup' = lookup
  BY DEF ForfeitTimeout
<1>2. rm \in GameRoomType /\ rm.store = room[r].store /\ Members(rm) = Members(room[r])
  BY TimedOutKept, TimersType, HandlesType
<1> QED BY <1>1, <1>2, ForfeitIndexed

LEMMA TTLTimeoutIndexed ==
  ASSUME IndexInv, NEW r \in Rooms, TTLTimeout(r)
  PROVE  Indexed'
<1>1. PICK rm \in Expired(room[r], "ttl", Timer("ttl")) :
        CleanupRoom(r, rm, {}, {}) /\ lookup' = lookup
  BY DEF TTLTimeout
<1>2. rm \in GameRoomType
  BY TimedOutKept, TimersType, HandlesType
<1> QED BY <1>1, <1>2, CleanupIndexed

-----------------------------------------------------------------------------
LEMMA NextIndexed ==
  ASSUME IndexInv, [Next]_vars
  PROVE  Indexed'
<1>1. CASE UNCHANGED vars
  BY <1>1, UnchangedIndexed DEF vars
<1>2. ASSUME NEW s \in Sockets,
             Connect(s) \/ TryReconnect(s) \/ Disconnect(s) \/ RoomCreate(s)
               \/ \E r \in Rooms : RoomJoin(s, r)
      PROVE  Indexed'
  <2>1. Connect(s) => Indexed'
    BY UnchangedIndexed DEF Connect
  <2> QED BY <1>2, <2>1, TryReconnectIndexed, DisconnectIndexed, RoomCreateIndexed,
             RoomJoinIndexed
<1>3. ASSUME NEW s \in Sockets, ClientEvent(s)
      PROVE  Indexed'
  BY <1>3, GameReadyIndexed, RoundMicReadyIndexed, RoundMicErrorIndexed, RoundSubmitIndexed,
     GameRematchIndexed, RoomLeaveIndexed DEF ClientEvent
<1>4. ASSUME NEW c \in lookup,
             RoomJoined(c) \/ ProfileMissing(c) \/ \E r \in Rooms : RoomCreated(c, r)
      PROVE  Indexed'
  BY <1>4, RoomJoinedIndexed, ProfileMissingIndexed, RoomCreatedIndexed
<1>5. ASSUME NEW r \in Rooms, TimerCallback(r)
      PROVE  Indexed'
  BY <1>5, CountdownTickIndexed, CountdownEndIndexed, PrepareTimeoutIndexed,
     RoundTimeoutIndexed, PostTimeoutsIndexed, TTLTimeoutIndexed, ForfeitTimeoutIndexed
     DEF TimerCallback
<1> QED BY <1>1, <1>2, <1>3, <1>4, <1>5 DEF Next

LEMMA IndexedHolds == Spec => []Indexed
<1>1. Init => Indexed
  BY DEF Init, Indexed, UserIndexSound, NamedRoomsGivenOut, Open
<1>2. TypeOK /\ Indexed /\ [Next]_vars => Indexed'
  BY NextIndexed DEF IndexInv
<1> QED BY <1>1, <1>2, TypeCorrect, PTL DEF Spec

(* store.getRoomByUserId never leads a handler to a room its user is not in: true  *)
(* of every order of events, and however many creates and joins one user has in    *)
(* flight.                                                                         *)
THEOREM UserIndexIsSound == Spec => []UserIndexSound
<1>1. Indexed => UserIndexSound
  BY DEF Indexed
<1> QED BY <1>1, IndexedHolds, PTL

-----------------------------------------------------------------------------
(* The players of a room and the timers against those who are away. *)

(* No grace timer is lost, and no other field holds one. *)
GraceHeld(rm) ==
  \A u \in Users : /\ rm.lost[Grace(u)] = 0
                   /\ \A h \in Handles : rm.handle[h] = Grace(u) => h = u

(* Each player came on a socket of their own, and waits for no one who is there. *)
Attended(rm) ==
  /\ GraceHeld(rm)
  /\ \A u \in Users : rm.handle[u] # NoTimer => u \in Members(rm) /\ ~rm.info[u].connected
  /\ \A u \in Members(rm) : rm.info[u].sock \in Sockets /\ Owner(rm.info[u].sock) = u

(* What most helpers leave alone: the players, their sockets and, unless they are *)
(* stopped, their grace timers.                                                   *)
Stay(old, new) ==
  /\ Kept(old, new)
  /\ \A u \in Users : /\ new.info[u].sock = old.info[u].sock
                      /\ new.info[u].connected = old.info[u].connected
                      /\ new.handle[u] \in {old.handle[u], NoTimer}
  /\ GraceHeld(old) => GraceHeld(new)

LEMMA StayTransitive ==
  ASSUME NEW a, NEW b, NEW c, Stay(a, b), Stay(b, c) PROVE Stay(a, c)
BY DEF Stay, Kept

LEMMA StayReflexive == ASSUME NEW a PROVE Stay(a, a)
BY DEF Stay, Kept

LEMMA StayAttended ==
  ASSUME NEW old \in GameRoomType, NEW new, Stay(old, new), Attended(old) PROVE Attended(new)
<1>1. Members(new) = Members(old) /\ Members(old) \subseteq Users
  BY DEF Stay, Kept, Members, GameRoomType
<1> QED
  BY <1>1 DEF Attended, Stay

(* Fields that are neither timers nor connections. *)
LEMMA OtherFieldsStay ==
  ASSUME NEW old, NEW new, Kept(old, new), new.handle = old.handle, new.lost = old.lost,
         \A u \in Users : /\ new.info[u].sock = old.info[u].sock
                          /\ new.info[u].connected = old.info[u].connected
  PROVE  Stay(old, new)
BY DEF Stay, GraceHeld

LEMMA GraceTimers ==
  /\ \A u, v \in Users : Grace(u) = Grace(v) => u = v
  /\ \A u \in Users : Grace(u) # NoTimer /\ (\A k : k # "forfeit" => Timer(k) # Grace(u))
                      /\ \A n : Tick(n) # Grace(u)
BY DEF Grace, NoTimer, Timer, Tick

LEMMA ArmStays ==
  ASSUME NEW rm \in GameRoomType, NEW h \in Handles, NEW t \in Timers \cup {NoTimer},
         t = NoTimer \/ h \in RoomHandles, \A u \in Users : t # Grace(u),
         h \in Users => rm.handle[h] = NoTimer
  PROVE  Stay(rm, Arm(rm, h, t))
<1> DEFINE new == Arm(rm, h, t)
<1>1. /\ new.store = rm.store /\ new.players = rm.players /\ new.info = rm.info
      /\ new.lost = Lose(rm.lost, rm.handle[h])
      /\ \A k \in Handles : new.handle[k] = IF k = h THEN t ELSE rm.handle[k]
  BY DEF Arm, GameRoomType
<1> HIDE DEF new
<1>2. \A x \in Timers : x # rm.handle[h] => new.lost[x] = rm.lost[x]
  BY <1>1 DEF Lose, GameRoomType
<1>3. Users \subseteq Handles /\ \A u \in Users : Grace(u) \in Timers /\ Grace(u) # NoTimer
  BY HandleTimers, GraceTimers
<1>4. GraceHeld(rm) => GraceHeld(new)
  <2> SUFFICES ASSUME GraceHeld(rm), NEW u \in Users
               PROVE  new.lost[Grace(u)] = 0 /\ \A k \in Handles : new.handle[k] = Grace(u) => k = u
    BY DEF GraceHeld
  <2>1. rm.handle[h] # Grace(u)
    BY <1>3, HandleTimers DEF GraceHeld
  <2> QED
    BY <1>1, <1>2, <1>3, <2>1 DEF GraceHeld
<1>5. \A u \in Users : new.handle[u] \in {rm.handle[u], NoTimer}
  BY <1>1, <1>3, HandleTimers
<1> QED
  BY <1>1, <1>4, <1>5 DEF Stay, Kept, new

LEMMA CancelStays ==
  ASSUME NEW rm \in GameRoomType, NEW hs PROVE Stay(rm, Cancel(rm, hs))
<1> DEFINE new == Cancel(rm, hs)
<1>1. /\ new.store = rm.store /\ new.players = rm.players /\ new.info = rm.info /\ new.lost = rm.lost
      /\ \A k \in Handles : new.handle[k] = IF k \in hs THEN NoTimer ELSE rm.handle[k]
  BY DEF Cancel, GameRoomType
<1> HIDE DEF new
<1>2. GraceHeld(rm) => GraceHeld(new)
  BY <1>1, GraceTimers DEF GraceHeld
<1>3. \A u \in Users : new.handle[u] \in {rm.handle[u], NoTimer}
  BY <1>1, HandleTimers
<1> QED
  BY <1>1, <1>2, <1>3 DEF Stay, Kept, new

LEMMA TimerKinds ==
  /\ \A k \in {"prepare", "round", "finish", "next", "ttl"} :
       Timer(k) \in Timers /\ \A u \in Users : Timer(k) # Grace(u)
  /\ \A n \in 0..CountdownTicks : Tick(n) \in Timers /\ \A u \in Users : Tick(n) # Grace(u)
  /\ \A u \in Users : NoTimer # Grace(u)
BY DEF Timers, Timer, Tick, Grace, NoTimer

LEMMA RefreshTTLStays ==
  ASSUME NEW rm \in GameRoomType PROVE Stay(rm, RefreshTTL(rm))
<1> DEFINE c == Cancel(rm, {"ttl"})
<1>1. c \in GameRoomType /\ Stay(rm, c)
  BY CancelType, CancelStays
<1> HIDE DEF c
<1>2. "ttl" \in Handles /\ "ttl" \in RoomHandles /\ "ttl" \notin Users
  BY HandleTimers DEF RoomHandles
<1>3. Stay(c, Arm(c, "ttl", Timer("ttl")))
  BY <1>1, <1>2, ArmStays, TimerKinds
<1> QED
  BY <1>1, <1>3, StayTransitive DEF RefreshTTL, c

LEMMA ForgetStays ==
  ASSUME NEW rm \in GameRoomType, NEW h \in RoomHandles PROVE Stay(rm, Forget(rm, h))
<1>1. h \in Handles /\ h \notin Users
  BY HandleTimers
<1> QED
  BY <1>1, ArmStays, TimerKinds DEF Forget

LEMMA ExpiredStays ==
  ASSUME NEW rm \in GameRoomType, NEW h \in Handles, NEW t \in Timers, NEW new \in Expired(rm, h, t),
         \/ \A u \in Users : t # Grace(u)
         \/ GraceHeld(rm) /\ h \in Users /\ t = Grace(h)
  PROVE  Stay(rm, new)
<1>1. CASE rm.handle[h] = t /\ new = [rm EXCEPT !.handle[h] = NoTimer]
  <2>1. /\ new.store = rm.store /\ new.players = rm.players /\ new.info = rm.info /\ new.lost = rm.lost
        /\ \A k \in Handles : new.handle[k] = IF k = h THEN NoTimer ELSE rm.handle[k]
    BY <1>1 DEF GameRoomType
  <2>2. GraceHeld(rm) => GraceHeld(new)
    BY <2>1, GraceTimers DEF GraceHeld
  <2>3. \A u \in Users : new.handle[u] \in {rm.handle[u], NoTimer}
    BY <2>1, HandleTimers
  <2> QED
    BY <2>1, <2>2, <2>3 DEF Stay, Kept
<1>2. CASE rm.lost[t] > 0 /\ new = [rm EXCEPT !.lost[t] = @ - 1]
  <2>1. /\ new.store = rm.store /\ new.players = rm.players /\ new.info = rm.info /\ new.handle = rm.handle
        /\ \A x \in Timers : x # t => new.lost[x] = rm.lost[x]
    BY <1>2 DEF GameRoomType
  <2>2. \A u \in Users : Grace(u) \in Timers /\ t # Grace(u)
    BY <1>2, HandleTimers DEF GraceHeld
  <2>3. GraceHeld(rm) => GraceHeld(new)
    BY <2>1, <2>2 DEF GraceHeld
  <2> QED
    BY <2>1, <2>3 DEF Stay, Kept
<1> QED
  BY <1>1, <1>2 DEF Expired

-----------------------------------------------------------------------------
LEMMA ClearProgressStays ==
  ASSUME NEW rm \in GameRoomType, NEW ph \in Phases
  PROVE  LET y == ClearProgress(rm, ph)
             z == [y EXCEPT !.official = FALSE]
         IN  y \in GameRoomType /\ z \in GameRoomType /\ Stay(rm, y) /\ Stay(rm, z)
<1> DEFINE y == ClearProgress(rm, ph)
           z == [y EXCEPT !.official = FALSE]
<1>1. y \in GameRoomType
  BY ClearProgressType
<1>2. /\ y.store = rm.store /\ y.players = rm.players /\ y.handle = rm.handle /\ y.lost = rm.lost
      /\ \A u \in Users : y.info[u] = FreshPlayer(rm.info[u]) /\ rm.info[u] \in PlayerInfo
  BY DEF ClearProgress, GameRoomType
<1>3. \A p \in PlayerInfo : FreshPlayer(p).sock = p.sock /\ FreshPlayer(p).connected = p.connected
  BY DEF FreshPlayer, PlayerInfo
<1> HIDE DEF y
<1>4. Stay(rm, y)
  BY <1>2, <1>3, OtherFieldsStay DEF Kept
<1>5. z \in GameRoomType /\ z.store = y.store /\ z.players = y.players /\ z.handle = y.handle
      /\ z.lost = y.lost /\ z.info = y.info
  BY <1>1 DEF GameRoomType
<1> HIDE DEF z
<1>6. Stay(y, z)
  BY <1>5, OtherFieldsStay DEF Kept
<1> QED
  BY <1>1, <1>4, <1>5, <1>6, StayTransitive DEF y, z

LEMMA ResetsStay ==
  ASSUME NEW rm \in GameRoomType
  PROVE  /\ Stay(rm, ResetGameData(rm)) /\ Stay(rm, StartRematch(rm))
         /\ Stay(rm, SetupCancelled(rm)) /\ Stay(rm, SlotReleased(rm))
         /\ Stay(rm, JoinBegun(rm))
<1>1. "ready" \in Phases /\ "waiting" \in Phases
  BY DEF Phases
<1>2. ASSUME NEW x \in GameRoomType, NEW hs, NEW ph \in Phases
      PROVE  /\ Stay(x, Cancel(ClearProgress(x, ph), hs))
             /\ Stay(x, Cancel([ClearProgress(x, ph) EXCEPT !.official = FALSE], hs))
  BY ClearProgressStays, CancelStays, StayTransitive
<1>3. \A x \in GameRoomType : Stay(x, ResetGameData(x))
  BY <1>1, <1>2 DEF ResetGameData
<1>4. Stay(rm, SetupCancelled(rm)) /\ Stay(rm, SlotReleased(rm))
  BY <1>1, <1>2 DEF SetupCancelled, SlotReleased
<1>5. Cancel(rm, {"ttl"}) \in GameRoomType /\ Stay(rm, Cancel(rm, {"ttl"}))
  BY CancelType, CancelStays
<1>6. Stay(rm, ResetGameData(Cancel(rm, {"ttl"})))
  BY <1>3, <1>5, StayTransitive
<1> QED
  BY <1>3, <1>4, <1>5, <1>6 DEF StartRematch, JoinBegun

LEMMA PhaseStays ==
  ASSUME NEW rm \in GameRoomType, NEW ph \in Phases
  PROVE  LET y == [rm EXCEPT !.phase = ph] IN y \in GameRoomType /\ Stay(rm, y)
<1> DEFINE y == [rm EXCEPT !.phase = ph]
<1>1. y \in GameRoomType /\ y.store = rm.store /\ y.players = rm.players /\ y.handle = rm.handle
      /\ y.lost = rm.lost /\ y.info = rm.info
  BY DEF GameRoomType
<1> HIDE DEF y
<1> QED
  BY <1>1, OtherFieldsStay DEF Kept, y

LEMMA StartsStay ==
  ASSUME NEW rm \in GameRoomType
  PROVE  /\ Stay(rm, StartCountdown(rm)) /\ Stay(rm, PrepareRound(rm))
         /\ Stay(rm, DoStartRound(rm))
<1>1. /\ "countdown" \in Handles \cap RoomHandles /\ "prepare" \in Handles \cap RoomHandles
      /\ "round" \in Handles \cap RoomHandles /\ CountdownTicks \in 0..CountdownTicks
      /\ RoomHandles \cap Users = {}
  BY HandleTimers, TicksAssumption DEF RoomHandles, MatchHandles
<1>2. \A x \in GameRoomType :
        /\ Stay(x, Arm(x, "countdown", Tick(CountdownTicks)))
        /\ Stay(x, Arm(x, "prepare", Timer("prepare")))
        /\ Stay(x, Arm(x, "round", Timer("round")))
  BY <1>1, ArmStays, TimerKinds
<1>3. Stay(rm, PrepareRound(rm))
  <2> DEFINE info == [u \in Users |-> [rm.info[u] EXCEPT !.sub = NoSubmission]]
             y == [rm EXCEPT !.phase = "preparing", !.round = @ + 1, !.micReady = {}, !.info = info]
  <2>1. y \in GameRoomType
    <3>1. info \in [Users -> PlayerInfo]
      BY InfoType, PlayerUpdates
    <3> HIDE DEF info
    <3>2. \A n \in Nat : [rm EXCEPT !.phase = "preparing", !.round = n, !.micReady = {}, !.info = info]
                           \in GameRoomType
      BY <3>1 DEF GameRoomType, Phases
    <3>3. rm.round + 1 \in Nat
      BY DEF GameRoomType
    <3> QED
      BY <3>2, <3>3
  <2>2. /\ y.store = rm.store /\ y.players = rm.players /\ y.handle = rm.handle /\ y.lost = rm.lost
        /\ \A u \in Users : y.info[u] = [rm.info[u] EXCEPT !.sub = NoSubmission] /\ rm.info[u] \in PlayerInfo
    BY DEF GameRoomType
  <2> HIDE DEF y
  <2>3. \A u \in Users : y.info[u].sock = rm.info[u].sock /\ y.info[u].connected = rm.info[u].connected
    BY <2>2 DEF PlayerInfo
  <2>4. Stay(rm, y)
    BY <2>2, <2>3, OtherFieldsStay DEF Kept
  <2>5. Stay(rm, Arm(y, "prepare", Timer("prepare")))
    BY <1>2, <2>1, <2>4, StayTransitive
  <2> QED
    BY <2>5, StayReflexive DEF PrepareRound, y
<1>4. Stay(rm, DoStartRound(rm))
  <2> DEFINE y == [rm EXCEPT !.phase = "playing", !.official = TRUE]
  <2>1. y \in GameRoomType /\ y.store = rm.store /\ y.players = rm.players /\ y.handle = rm.handle
        /\ y.lost = rm.lost /\ y.info = rm.info
    BY DEF GameRoomType, Phases
  <2> HIDE DEF y
  <2>2. Stay(rm, y)
    BY <2>1, OtherFieldsStay DEF Kept
  <2> QED
    BY <1>2, <2>1, <2>2, StayTransitive DEF DoStartRound, y
<1> QED
  BY <1>2, <1>3, <1>4 DEF StartCountdown

LEMMA EndsStay ==
  ASSUME NEW rm \in GameRoomType
  PROVE  /\ Stay(rm, ResolveRound(rm)) /\ Stay(rm, CloseRound(rm))
         /\ Stay(rm, FinishGame(rm)) /\ Stay(rm, GameOver(rm))
         /\ Stay(rm, RefreshTTL(GameOver(rm)))
<1>1. {"round_end", "countdown", "game_over"} \subseteq Phases
  BY DEF Phases
<1>2. Stay(rm, ResolveRound(rm))
  <2>1. "post" \in Handles \cap RoomHandles /\ "post" \notin Users
    BY HandleTimers DEF RoomHandles, MatchHandles
  <2> DEFINE x == ScoreRound(rm)
  <2>2. x \in GameRoomType
    BY ScoreRoundType
  <2>3. x.store = rm.store /\ x.players = rm.players /\ x.handle = rm.handle /\ x.lost = rm.lost /\ x.info = rm.info
    BY DEF ScoreRound, GameRoomType
  <2> HIDE DEF x
  <2>4. Stay(rm, x)
    BY <2>3, OtherFieldsStay DEF Kept
  <2>5. ASSUME NEW ph \in Phases, NEW k \in {"finish", "next"}
        PROVE  Stay(rm, Arm([x EXCEPT !.phase = ph], "post", Timer(k)))
    <3> DEFINE y == [x EXCEPT !.phase = ph]
    <3>1. y \in GameRoomType /\ Stay(x, y)
      BY <2>2, PhaseStays
    <3> HIDE DEF y
    <3>2. Stay(y, Arm(y, "post", Timer(k)))
      BY <2>1, <3>1, ArmStays, TimerKinds
    <3> QED
      BY <2>4, <3>1, <3>2, StayTransitive DEF y
  <2> QED
    BY <1>1, <2>5 DEF ResolveRound, x
<1>3. Stay(rm, CloseRound(rm))
  BY <1>1, <1>2, PhaseStays DEF CloseRound
<1>4. Stay(rm, FinishGame(rm))
  <2>1. LET y == [rm EXCEPT !.phase = "game_over"] IN Stay(rm, y) /\ Stay(rm, RefreshTTL(y))
    BY <1>1, PhaseStays, RefreshTTLStays, StayTransitive
  <2> QED
    BY <2>1, StayReflexive DEF FinishGame
<1>5. Stay(rm, GameOver(rm))
  BY <1>1, CancelType, CancelStays, PhaseStays, StayTransitive DEF GameOver
<1> QED
  BY <1>2, <1>3, <1>4, <1>5, GameOverType, RefreshTTLStays, StayTransitive

(* Updates of one player's record. *)
LEMMA PlayerUpdatesStay ==
  ASSUME NEW rm \in GameRoomType, NEW u
  PROVE  /\ Stay(rm, [rm EXCEPT !.info[u].ready = TRUE])
         /\ Stay(rm, [rm EXCEPT !.info[u].host = TRUE])
         /\ \A db \in Decibels : Stay(rm, [rm EXCEPT !.info[u].sub = db])
         /\ \A ph \in Phases : Stay(rm, [rm EXCEPT !.info[u].rematch = TRUE, !.phase = ph])
         /\ \A S : Stay(rm, [rm EXCEPT !.micReady = S])
<1> DEFINE a == [rm EXCEPT !.info[u].ready = TRUE]
           b == [rm EXCEPT !.info[u].host = TRUE]
           c(db) == [rm EXCEPT !.info[u].sub = db]
           d(ph) == [rm EXCEPT !.info[u].rematch = TRUE, !.phase = ph]
           m(S) == [rm EXCEPT !.micReady = S]
           Same5(x) == x.store = rm.store /\ x.players = rm.players /\ x.handle = rm.handle /\ x.lost = rm.lost
<1>1. Same5(a) /\ Same5(b) /\ (\A db : Same5(c(db))) /\ (\A ph : Same5(d(ph)))
  BY DEF GameRoomType
<1>2. \A S : Same5(m(S)) /\ m(S).info = rm.info
  BY DEF GameRoomType
<1>3. \A v \in Users : rm.info[v] \in PlayerInfo
  BY InfoType
<1>4. \A v \in Users : /\ a.info[v] = IF v = u THEN [rm.info[u] EXCEPT !.ready = TRUE] ELSE rm.info[v]
                       /\ b.info[v] = IF v = u THEN [rm.info[u] EXCEPT !.host = TRUE] ELSE rm.info[v]
  BY DEF GameRoomType
<1>5. \A db : \A v \in Users : c(db).info[v] = IF v = u THEN [rm.info[u] EXCEPT !.sub = db] ELSE rm.info[v]
  BY DEF GameRoomType
<1>6. \A ph : \A v \in Users : d(ph).info[v] = IF v = u THEN [rm.info[u] EXCEPT !.rematch = TRUE] ELSE rm.info[v]
  BY DEF GameRoomType
<1> HIDE DEF a, b, c, d, m
<1> DEFINE Conn(x) == \A v \in Users : /\ x.info[v].sock = rm.info[v].sock
                                       /\ x.info[v].connected = rm.info[v].connected
<1>8. Conn(a) /\ Conn(b) /\ (\A db \in Decibels : Conn(c(db))) /\ (\A ph : Conn(d(ph))) /\ (\A S : Conn(m(S)))
  <2>1. Conn(a)
    BY <1>3, <1>4 DEF PlayerInfo
  <2>2. Conn(b)
    BY <1>3, <1>4 DEF PlayerInfo
  <2>3. ASSUME NEW db \in Decibels PROVE Conn(c(db))
    <3>1. \A v \in Users : c(db).info[v] = IF v = u THEN [rm.info[u] EXCEPT !.sub = db] ELSE rm.info[v]
      BY <1>5
    <3> QED
      BY <1>3, <3>1 DEF PlayerInfo
  <2>4. \A ph : Conn(d(ph))
    BY <1>3, <1>6 DEF PlayerInfo
  <2>5. \A S : Conn(m(S))
    BY <1>2
  <2> QED
    BY <2>1, <2>2, <2>3, <2>4, <2>5
<1>9. \A x : Same5(x) /\ Conn(x) => Stay(rm, x)
  BY OtherFieldsStay DEF Kept
<1> HIDE DEF Same5, Conn
<1>10. Stay(rm, a) /\ Stay(rm, b) /\ (\A db \in Decibels : Stay(rm, c(db))) /\ (\A ph : Stay(rm, d(ph))) /\ (\A S : Stay(rm, m(S)))
  BY <1>1, <1>2, <1>8, <1>9
<1> QED
  BY <1>10 DEF a, b, c, d, m

-----------------------------------------------------------------------------
(* The invariant of the two maps. *)

(* A user with a lookup in flight is registered with no open room. *)
LookupsOutside == \A c \in lookup : ~Open(userRoom[Owner(c.sock)])

(* A socket that is registered is that of a connected player. *)
SocketsOnline ==
  \A s \in Sockets : Open(sockRoom[s]) => room[sockRoom[s]].info[Owner(s)].connected

SocketRoomsGivenOut ==
  \A s \in Sockets : sockRoom[s] # NoRoom => room[sockRoom[s]].store # "free"

(* A room that is not open has no timer a field holds; one whose code was never *)
(* given out has none at all.                                                   *)
Silent(rm) == \A h \in Handles : rm.handle[h] = NoTimer
NothingLost(rm) == \A t \in Timers : rm.lost[t] = 0

Registered ==
  /\ UserIndexComplete /\ SocketIndexExact
  /\ LookupsOutside /\ SocketsOnline /\ SocketRoomsGivenOut
  /\ \A r \in Rooms : room[r].store = "open" => Attended(room[r])
  /\ \A r \in Rooms : room[r].store # "open" => Silent(room[r])
  /\ \A r \in Rooms : room[r].store = "free" => NothingLost(room[r])

(* The hypotheses under which it is kept. *)
OneLookupEach == \A c, d \in lookup : Owner(c.sock) = Owner(d.sock) => c = d
TimersDieWithRoom == \A r \in Rooms : room[r].store = "gone" => NothingLost(room[r])

RegInv == TypeOK /\ Indexed /\ MatchInv /\ Registered

-----------------------------------------------------------------------------
(* An event in an open room: entries change only for its players, and as they do. *)
EntriesChange(r, new) ==
  /\ \A u \in Users : userRoom'[u] # userRoom[u] =>
       /\ userRoom'[u] = NoRoom /\ u \in Members(room[r])
       /\ new.store = "open" => u \notin Members(new)
  /\ \A s \in Sockets : sockRoom'[s] # sockRoom[s] =>
       Owner(s) \in Members(room[r]) /\ sockRoom'[s] \in {r, NoRoom}
SocketsExact(r, new) ==
  /\ \A s \in Sockets : sockRoom'[s] = r =>
       /\ Owner(s) \in Members(new) /\ new.info[Owner(s)].sock = s
       /\ new.info[Owner(s)].connected
  /\ \A u \in Members(new) : new.info[u].connected => sockRoom'[new.info[u].sock] = r

LEMMA EventRegistered ==
  ASSUME RegInv, NEW r \in Rooms, Open(r), NEW new \in GameRoomType, Put(r, new),
         new.store \in {"open", "gone"}, Members(new) \subseteq Members(room[r]),
         EntriesChange(r, new),
         \A c \in lookup' : Owner(c.sock) \in Users /\ (c \in lookup \/ ~Open(userRoom[Owner(c.sock)])),
         new.store = "open" => Attended(new) /\ SocketsExact(r, new),
         new.store = "gone" => Silent(new)
  PROVE  Registered'
<1> USE DEF RegInv, Registered
<1>1. /\ room'[r] = Collected(new)
      /\ \A q \in Rooms : q # r => room'[q] = room[q]
      /\ room[r].store = "open" /\ r # NoRoom
  BY RoomsAssumption DEF Put, TypeOK, Open
<1>2. /\ room'[r].store = new.store
      /\ new.store = "open" => room'[r] = new
  BY <1>1 DEF Collected, EmptyRoom, GameRoomType
<1>3. \A q \in Rooms : Members(room[q]) \subseteq Users
  BY DEF TypeOK, GameRoomType, Members
<1>4. /\ \A u \in Users : userRoom[u] \in Rooms \cup {NoRoom}
      /\ \A s \in Sockets : sockRoom[s] \in Rooms \cup {NoRoom} /\ Owner(s) \in Users
  BY OwnerType DEF TypeOK
<1>5. \A q \in Rooms : q # r /\ room[q].store = "open" => Members(room[q]) \cap Members(room[r]) = {}
  BY <1>1, <1>3 DEF UserIndexComplete, OpenRooms
<1>6. UserIndexComplete'
  <2> SUFFICES ASSUME NEW q \in Rooms, room'[q].store = "open", NEW u \in Members(room'[q])
               PROVE  userRoom'[u] = q
    BY DEF UserIndexComplete, OpenRooms
  <2>1. CASE q = r
    <3>1. u \in Members(new) /\ u \in Users /\ new.store = "open"
      BY <1>2, <1>3, <2>1
    <3>2. userRoom'[u] = userRoom[u]
      BY <3>1 DEF EntriesChange
    <3> QED
      BY <1>1, <2>1, <3>1, <3>2 DEF UserIndexComplete, OpenRooms
  <2>2. CASE q # r
    <3>1. u \in Members(room[q]) /\ room[q].store = "open" /\ u \in Users
      BY <1>1, <1>3, <2>2
    <3>2. u \notin Members(room[r])
      BY <1>5, <2>2, <3>1
    <3> QED
      BY <3>1, <3>2 DEF EntriesChange, UserIndexComplete, OpenRooms
  <2> QED
    BY <2>1, <2>2
<1>7. ASSUME NEW s \in Sockets, Open(sockRoom[s])'
      PROVE  /\ Owner(s) \in Members(room'[sockRoom'[s]])
             /\ room'[sockRoom'[s]].info[Owner(s)].sock = s
             /\ room'[sockRoom'[s]].info[Owner(s)].connected
  <2>1. sockRoom'[s] # NoRoom /\ room'[sockRoom'[s]].store = "open"
    BY <1>7 DEF Open
  <2>2. CASE sockRoom'[s] = r
    BY <1>2, <2>1, <2>2 DEF SocketsExact
  <2>3. CASE sockRoom'[s] # r
    <3>1. sockRoom'[s] = sockRoom[s]
      BY <2>1, <2>3 DEF EntriesChange
    <3>2. sockRoom[s] \in Rooms /\ sockRoom[s] # r
      BY <1>4, <2>1, <2>3, <3>1
    <3>3. Open(sockRoom[s]) /\ room'[sockRoom[s]] = room[sockRoom[s]]
      BY <1>1, <2>1, <3>1, <3>2 DEF Open
    <3> QED
      BY <3>1, <3>3 DEF SocketIndexExact, SocketsOnline
  <2> QED
    BY <2>2, <2>3
<1>8. ASSUME NEW q \in Rooms, room'[q].store = "open", NEW u \in Members(room'[q]), room'[q].info[u].connected
      PROVE  sockRoom'[room'[q].info[u].sock] = q
  <2>1. CASE q = r
    BY <1>2, <1>8, <2>1 DEF SocketsExact
  <2>2. CASE q # r
    <3>1. room'[q] = room[q] /\ u \in Members(room[q]) /\ room[q].store = "open"
      BY <1>1, <1>8, <2>2
    <3>2. room[q].info[u].sock \in Sockets /\ Owner(room[q].info[u].sock) = u
      BY <3>1 DEF Attended
    <3>3. u \notin Members(room[r])
      BY <1>5, <2>2, <3>1
    <3>4. sockRoom[room[q].info[u].sock] = q
      BY <1>8, <3>1 DEF SocketIndexExact, OpenRooms
    <3> QED
      BY <3>1, <3>2, <3>3, <3>4 DEF EntriesChange
  <2> QED
    BY <2>1, <2>2
<1>9. SocketIndexExact' /\ SocketsOnline'
  BY <1>7, <1>8 DEF SocketIndexExact, SocketsOnline, OpenRooms
<1>10. LookupsOutside'
  <2> SUFFICES ASSUME NEW c \in lookup', Open(userRoom[Owner(c.sock)])' PROVE FALSE
    BY DEF LookupsOutside
  <2> DEFINE u == Owner(c.sock)
  <2>1. u \in Users /\ ~Open(userRoom[u])
    BY DEF LookupsOutside
  <2> HIDE DEF u
  <2>2. userRoom'[u] # NoRoom /\ room'[userRoom'[u]].store = "open"
    BY DEF Open, u
  <2>3. userRoom'[u] = userRoom[u] /\ userRoom[u] \in Rooms
    BY <1>4, <2>1, <2>2 DEF EntriesChange
  <2>4. userRoom[u] # r
    BY <1>1, <2>1 DEF Open
  <2> QED
    BY <1>1, <2>1, <2>2, <2>3, <2>4 DEF Open
<1>11. SocketRoomsGivenOut'
  <2> SUFFICES ASSUME NEW s \in Sockets, sockRoom'[s] # NoRoom PROVE room'[sockRoom'[s]].store # "free"
    BY DEF SocketRoomsGivenOut
  <2>1. sockRoom'[s] = r \/ (sockRoom'[s] = sockRoom[s] /\ sockRoom[s] # NoRoom /\ sockRoom[s] \in Rooms)
    BY <1>4 DEF EntriesChange
  <2> QED
    BY <1>1, <1>2, <2>1 DEF SocketRoomsGivenOut
<1>12. \A q \in Rooms : room'[q].store = "open" => Attended(room'[q])
  BY <1>1, <1>2
<1>13. \A q \in Rooms : room'[q].store # "open" => Silent(room'[q])
  <2>1. Silent(EmptyRoom("gone"))
    BY DEF Silent, EmptyRoom
  <2>2. new.store = "gone" => Silent(room'[r])
    BY <1>1, <2>1 DEF Collected
  <2> QED
    BY <1>1, <1>2, <2>2
<1>14. \A q \in Rooms : room'[q].store = "free" => NothingLost(room'[q])
  BY <1>1, <1>2
<1> QED
  BY <1>6, <1>9, <1>10, <1>11, <1>12, <1>13, <1>14

-----------------------------------------------------------------------------
(* Players leave, go away, come back and come in. *)

LEMMA MembersAreUsers == \A rm \in GameRoomType : Members(rm) \subseteq Users
BY DEF Members, GameRoomType

LEMMA EmptyAttended ==
  ASSUME NEW store \in {"free", "open", "gone"}
  PROVE  LET e == EmptyRoom(store)
         IN  e.store = store /\ Members(e) = {} /\ Silent(e) /\ NothingLost(e) /\ Attended(e)
<1> DEFINE e == EmptyRoom(store)
<1>1. /\ e.store = store /\ e.players = <<>>
      /\ \A h \in Handles : e.handle[h] = NoTimer
      /\ \A t \in Timers : e.lost[t] = 0
  BY DEF EmptyRoom
<1> HIDE DEF e
<1>2. Members(e) = {}
  BY <1>1 DEF Members
<1>3. Users \subseteq Handles /\ \A u \in Users : Grace(u) \in Timers /\ Grace(u) # NoTimer
  BY HandleTimers, GraceTimers
<1>4. Attended(e)
  BY <1>1, <1>2, <1>3 DEF Attended, GraceHeld
<1> QED
  BY <1>1, <1>2, <1>4 DEF Silent, NothingLost, e

LEMMA DeletedSilent ==
  ASSUME NEW rm \in GameRoomType, Attended(rm)
  PROVE  LET d == Deleted(rm)
         IN  d \in GameRoomType /\ d.store = "gone" /\ Members(d) = Members(rm) /\ Silent(d)
<1> DEFINE d == Deleted(rm)
<1>1. /\ d.store = "gone" /\ d.players = rm.players
      /\ \A h \in Handles : d.handle[h] = IF h \in RoomHandles \cup Members(rm) THEN NoTimer
                                          ELSE rm.handle[h]
  BY DEF Deleted, Cancel, GameRoomType
<1>2. d \in GameRoomType
  BY DeletedType
<1> HIDE DEF d
<1>3. Silent(d)
  BY <1>1 DEF Silent, Handles, Attended
<1>4. Members(d) = Members(rm)
  BY <1>1 DEF Members
<1> QED
  BY <1>1, <1>2, <1>3, <1>4 DEF d

LEMMA RemoveAttended ==
  ASSUME NEW rm, Whole(rm), Attended(rm), NEW u \in Members(rm)
  PROVE  LET new == RemovePlayer(rm, u)
         IN  /\ new \in GameRoomType /\ Attended(new) /\ new.store = rm.store
             /\ Members(new) = Members(rm) \ {u}
             /\ \A v \in Users : v # u => new.info[v] = rm.info[v]
<1> DEFINE new == RemovePlayer(rm, u)
<1>1. /\ new \in GameRoomType /\ new.store = rm.store /\ Members(new) = Members(rm) \ {u}
      /\ \A v \in Users : v # u => new.info[v] = rm.info[v]
  BY UnseatWhole DEF Whole
<1>2. /\ new.lost = rm.lost
      /\ \A h \in Handles : new.handle[h] = IF h = u THEN NoTimer ELSE rm.handle[h]
  BY DEF RemovePlayer, Cancel, Whole, GameRoomType
<1> HIDE DEF new
<1>3. GraceHeld(new)
  BY <1>2, GraceTimers DEF GraceHeld, Attended
<1>4. Members(rm) \subseteq Users /\ Users \subseteq Handles
  BY MembersAreUsers, HandleTimers DEF Whole
<1>5. Attended(new)
  BY <1>1, <1>2, <1>3, <1>4 DEF Attended
<1> QED
  BY <1>1, <1>5 DEF new

LEMMA AwayAttended ==
  ASSUME NEW rm \in GameRoomType, Attended(rm), NEW u \in Members(rm), rm.info[u].connected
  PROVE  LET new == Away(rm, u)
             armed == Arm(new, u, Grace(u))
         IN  /\ new \in GameRoomType /\ Attended(new) /\ Kept(rm, new)
             /\ \A v \in Users : v # u => new.info[v] = rm.info[v]
             /\ new.info[u].sock = rm.info[u].sock /\ ~new.info[u].connected
             /\ armed \in GameRoomType /\ Attended(armed) /\ Kept(rm, armed) /\ armed.info = new.info
<1> DEFINE new == Away(rm, u)
           armed == Arm(new, u, Grace(u))
<1>1. u \in Users /\ u \in Handles /\ Grace(u) \in Timers /\ Users \subseteq Handles
      /\ Members(rm) \subseteq Users
  BY MembersAreUsers, HandleTimers
<1>2. new \in GameRoomType
  BY <1>1, AwayType
<1>3. /\ Kept(rm, new) /\ new.handle = rm.handle /\ new.lost = rm.lost
      /\ \A v \in Users : new.info[v] = IF v = u THEN [rm.info[u] EXCEPT !.connected = FALSE]
                                        ELSE rm.info[v]
  BY <1>1 DEF Away, Kept, GameRoomType
<1>4. rm.info[u] \in PlayerInfo
  BY <1>1, InfoType
<1> HIDE DEF new
<1>5. new.info[u].sock = rm.info[u].sock /\ ~new.info[u].connected
  BY <1>1, <1>3, <1>4 DEF PlayerInfo
<1>6. \A v \in Users : v # u => new.info[v] = rm.info[v]
  BY <1>3
<1>7. Members(new) = Members(rm)
  BY <1>3 DEF Kept, Members
<1>8. GraceHeld(rm) /\ GraceHeld(new)
  BY <1>3 DEF GraceHeld, Attended
<1>9. Attended(new)
  BY <1>1, <1>3, <1>5, <1>6, <1>7, <1>8 DEF Attended
<1>10. new.handle[u] = NoTimer
  BY <1>1, <1>3 DEF Attended
<1>11. armed \in GameRoomType /\ Kept(rm, armed)
  BY <1>1, <1>2, <1>3, ArmType, TimersKept DEF Kept
<1>12. /\ armed.info = new.info /\ armed.lost = new.lost
       /\ \A h \in Handles : armed.handle[h] = IF h = u THEN Grace(u) ELSE new.handle[h]
  BY <1>1, <1>2, <1>10 DEF Arm, Lose, GameRoomType
<1> HIDE DEF armed
<1>13. Members(armed) = Members(new)
  BY <1>11, <1>3 DEF Kept, Members
<1>14. GraceHeld(armed)
  BY <1>1, <1>8, <1>12, GraceTimers DEF GraceHeld
<1>15. Attended(armed)
  BY <1>1, <1>5, <1>7, <1>9, <1>12, <1>13, <1>14 DEF Attended
<1> QED
  BY <1>2, <1>3, <1>5, <1>6, <1>9, <1>11, <1>12, <1>15 DEF new, armed

LEMMA RejoinedAttended ==
  ASSUME NEW rm \in GameRoomType, Attended(rm), NEW u \in Members(rm), NEW s \in Sockets, Owner(s) = u
  PROVE  LET new == Rejoined(rm, u, s)
         IN  /\ new \in GameRoomType /\ Attended(new) /\ Kept(rm, new)
             /\ \A v \in Users : v # u => new.info[v] = rm.info[v]
             /\ new.info[u].sock = s /\ new.info[u].connected
<1> DEFINE new == Rejoined(rm, u, s)
<1>1. u \in Users /\ u \in Handles /\ Users \subseteq Handles /\ Members(rm) \subseteq Users
  BY MembersAreUsers, HandleTimers
<1>2. new \in GameRoomType
  BY <1>1, RejoinedType
<1>3. /\ Kept(rm, new) /\ new.lost = rm.lost
      /\ \A h \in Handles : new.handle[h] = IF h = u THEN NoTimer ELSE rm.handle[h]
      /\ \A v \in Users : new.info[v] = IF v = u THEN [rm.info[u] EXCEPT !.sock = s, !.connected = TRUE]
                                        ELSE rm.info[v]
  BY <1>1 DEF Rejoined, Cancel, Kept, GameRoomType
<1>4. rm.info[u] \in PlayerInfo
  BY <1>1, InfoType
<1> HIDE DEF new
<1>5. new.info[u].sock = s /\ new.info[u].connected
  BY <1>1, <1>3, <1>4 DEF PlayerInfo
<1>6. \A v \in Users : v # u => new.info[v] = rm.info[v]
  BY <1>3
<1>7. Members(new) = Members(rm)
  BY <1>3 DEF Kept, Members
<1>8. GraceHeld(new)
  BY <1>3, GraceTimers DEF GraceHeld, Attended
<1>9. Attended(new)
  BY <1>1, <1>3, <1>5, <1>6, <1>7, <1>8 DEF Attended
<1> QED
  BY <1>2, <1>3, <1>5, <1>6, <1>9 DEF new

(* A new player, whatever phase the room is put into. *)
LEMMA EnterAttended ==
  ASSUME NEW rm \in GameRoomType, NEW u \in Users, u \notin Members(rm), NEW p \in PlayerInfo,
         p.sock \in Sockets, Owner(p.sock) = u, p.connected, NEW new \in GameRoomType,
         new.store = SetPlayer(rm, u, p).store, new.players = SetPlayer(rm, u, p).players,
         new.info = SetPlayer(rm, u, p).info, new.lost = SetPlayer(rm, u, p).lost,
         new.handle = SetPlayer(rm, u, p).handle
  PROVE  /\ new.store = rm.store /\ Members(new) = Members(rm) \cup {u}
         /\ \A v \in Users : v # u => new.info[v] = rm.info[v]
         /\ new.info[u] = p
         /\ Attended(rm) => Attended(new)
         /\ Silent(rm) => Silent(new)
<1> DEFINE y == SetPlayer(rm, u, p)
<1>1. u \in Handles /\ Users \subseteq Handles /\ Members(rm) \subseteq Users
  BY MembersAreUsers, HandleTimers
<1>2. /\ y.store = rm.store /\ y.players = Append(rm.players, u)
      /\ y.info = [rm.info EXCEPT ![u] = p]
      /\ y.lost = Lose(rm.lost, rm.handle[u])
      /\ y.handle = [rm.handle EXCEPT ![u] = NoTimer]
  BY DEF SetPlayer, Forget, Arm, GameRoomType
<1>3. y \in GameRoomType
  BY SetPlayerType
<1> HIDE DEF y
<1>4. /\ new.store = y.store /\ new.players = y.players /\ new.info = y.info /\ new.lost = y.lost
      /\ new.handle = y.handle
  BY <1>3 DEF y, GameRoomType
<1>5. Members(new) = Members(rm) \cup {u}
  <2>1. rm.players \in Seq(Users)
    BY DEF GameRoomType
  <2>2. /\ DOMAIN Append(rm.players, u) = 1..(Len(rm.players) + 1) /\ Len(rm.players) \in Nat
        /\ Append(rm.players, u)[Len(rm.players) + 1] = u
        /\ DOMAIN rm.players = 1..Len(rm.players)
        /\ \A i \in 1..Len(rm.players) : Append(rm.players, u)[i] = rm.players[i]
    BY <2>1
  <2>3. Members(new) = {Append(rm.players, u)[i] : i \in 1..(Len(rm.players) + 1)}
    BY <1>2, <1>4, <2>2 DEF Members
  <2>4. Members(rm) = {rm.players[i] : i \in 1..Len(rm.players)}
    BY <2>2 DEF Members
  <2>5. \A i \in 1..(Len(rm.players) + 1) : i \in 1..Len(rm.players) \/ i = Len(rm.players) + 1
    BY <2>2
  <2>6. 1..Len(rm.players) \subseteq 1..(Len(rm.players) + 1) /\ Len(rm.players) + 1 \in 1..(Len(rm.players) + 1)
    BY <2>2
  <2> QED
    BY <2>2, <2>3, <2>4, <2>5, <2>6
<1>6. new.info[u] = p /\ \A v \in Users : v # u => new.info[v] = rm.info[v]
  BY <1>2, <1>4 DEF GameRoomType
<1>8. \A h \in Handles : new.handle[h] = IF h = u THEN NoTimer ELSE rm.handle[h]
  BY <1>2, <1>4 DEF GameRoomType
<1>9. ASSUME Attended(rm) PROVE Attended(new)
  <2>1. rm.handle[u] = NoTimer
    BY <1>9 DEF Attended
  <2>2. new.lost = rm.lost
    BY <1>2, <1>4, <2>1 DEF Lose
  <2>3. GraceHeld(new)
    BY <1>8, <1>9, <2>2, GraceTimers DEF GraceHeld, Attended
  <2> QED
    BY <1>1, <1>5, <1>6, <1>8, <1>9, <2>3 DEF Attended
<1>10. Silent(rm) => Silent(new)
  BY <1>8 DEF Silent
<1> QED
  BY <1>2, <1>4, <1>5, <1>6, <1>9, <1>10

-----------------------------------------------------------------------------
(* A room as a handler has changed it, before it is written back: the handler     *)
(* unregisters the users us, who have left it, and the sockets ss, among which    *)
(* are those of the players who have left it or gone away.                        *)
Consistent(r, rm, us, ss) ==
  /\ rm \in GameRoomType /\ rm.store = "open" /\ Attended(rm)
  /\ Members(rm) \subseteq Members(room[r])
  /\ us \subseteq Members(room[r]) \ Members(rm)
  /\ \A s \in ss : Owner(s) \in Members(room[r])
  /\ \A u \in Members(room[r]) :
       \/ /\ u \in Members(rm)
          /\ rm.info[u].sock = room[r].info[u].sock
          /\ rm.info[u].connected = room[r].info[u].connected
          /\ rm.info[u].sock \notin ss
       \/ room[r].info[u].sock \in ss /\ (u \in Members(rm) => ~rm.info[u].connected)

LEMMA SelfConsistent ==
  ASSUME RegInv, NEW r \in Rooms, Open(r) PROVE Consistent(r, room[r], {}, {})
BY DEF RegInv, Registered, Open, TypeOK, Consistent

LEMMA StayConsistent ==
  ASSUME NEW r, NEW rm, NEW us, NEW ss, Consistent(r, rm, us, ss),
         NEW x \in GameRoomType, Stay(rm, x)
  PROVE  Consistent(r, x, us, ss)
<1>1. Members(x) = Members(rm) /\ Members(rm) \subseteq Users /\ x.store = "open"
  BY MembersAreUsers DEF Stay, Kept, Members, Consistent
<1>2. Attended(x)
  BY StayAttended DEF Consistent
<1> QED
  BY <1>1, <1>2 DEF Consistent, Stay

LEMMA WriteRegistered ==
  ASSUME RegInv, NEW r \in Rooms, Open(r), NEW rm, NEW us, NEW ss, Consistent(r, rm, us, ss),
         Put(r, rm), Unregister(us, ss),
         \A c \in lookup' : Owner(c.sock) \in Users /\ (c \in lookup \/ ~Open(userRoom[Owner(c.sock)]))
  PROVE  Registered'
<1>1. /\ rm \in GameRoomType /\ rm.store = "open" /\ Members(rm) \subseteq Members(room[r]) /\ Attended(rm)
  BY DEF Consistent
<1>2. /\ \A u \in Users : userRoom'[u] = IF u \in us THEN NoRoom ELSE userRoom[u]
      /\ \A s \in Sockets : sockRoom'[s] = IF s \in ss THEN NoRoom ELSE sockRoom[s]
  BY DEF Unregister
<1>3. EntriesChange(r, rm)
  BY <1>2 DEF EntriesChange, Consistent
<1>4. SocketsExact(r, rm)
  <2>1. r # NoRoom /\ r \in OpenRooms /\ room[r].store = "open"
    BY RoomsAssumption DEF Open, OpenRooms
  <2>2. ASSUME NEW s \in Sockets, sockRoom'[s] = r
        PROVE  /\ Owner(s) \in Members(rm) /\ rm.info[Owner(s)].sock = s /\ rm.info[Owner(s)].connected
    <3>1. s \notin ss /\ sockRoom[s] = r
      BY <1>2, <2>1, <2>2
    <3>2. /\ Owner(s) \in Members(room[r]) /\ room[r].info[Owner(s)].sock = s
          /\ room[r].info[Owner(s)].connected
      BY <3>1, <2>1 DEF RegInv, Registered, SocketIndexExact, SocketsOnline, Open
    <3> QED
      BY <3>1, <3>2 DEF Consistent
  <2>3. ASSUME NEW u \in Members(rm), rm.info[u].connected
        PROVE  sockRoom'[rm.info[u].sock] = r
    <3>1. /\ u \in Members(room[r]) /\ rm.info[u].sock = room[r].info[u].sock
          /\ room[r].info[u].connected /\ rm.info[u].sock \notin ss /\ rm.info[u].sock \in Sockets
      BY <1>1, <2>3 DEF Consistent, Attended
    <3>2. sockRoom[room[r].info[u].sock] = r
      BY <2>1, <3>1 DEF RegInv, Registered, SocketIndexExact
    <3> QED
      BY <1>2, <3>1, <3>2
  <2> QED
    BY <2>2, <2>3 DEF SocketsExact
<1> QED
  BY <1>1, <1>3, <1>4, EventRegistered

LEMMA KeepRegistered ==
  ASSUME RegInv, NEW r \in Rooms, Open(r), NEW rm, NEW us, NEW ss, Consistent(r, rm, us, ss),
         Keep(r, rm, us, ss), lookup' = lookup
  PROVE  Registered'
<1>1. \A c \in lookup : Owner(c.sock) \in Users
  BY OwnerType DEF RegInv, TypeOK, Lookups
<1> QED
  BY <1>1, WriteRegistered DEF Keep

LEMMA UpdateRegistered ==
  ASSUME RegInv, NEW r \in Rooms, Open(r), NEW rm \in GameRoomType, Stay(room[r], rm), Update(r, rm)
  PROVE  Registered'
<1>1. Consistent(r, rm, {}, {})
  BY SelfConsistent, StayConsistent
<1>2. Keep(r, rm, {}, {}) /\ lookup' = lookup
  BY DEF Update, Keep, Unregister, RegInv, TypeOK
<1> QED
  BY <1>1, <1>2, KeepRegistered

LEMMA CleanupRegistered ==
  ASSUME RegInv, NEW r \in Rooms, Open(r), NEW rm, NEW us, NEW ss, Consistent(r, rm, us, ss),
         CleanupRoom(r, rm, us, ss), lookup' = lookup
  PROVE  Registered'
<1> DEFINE d == Deleted(rm)
<1>1. /\ d \in GameRoomType /\ d.store = "gone" /\ Members(d) = Members(rm) /\ Silent(d)
  BY DeletedSilent DEF Consistent
<1>2. Members(rm) \subseteq Members(room[r]) /\ us \subseteq Members(room[r])
  BY DEF Consistent
<1>3. /\ Put(r, d)
      /\ \A u \in Users : userRoom'[u] = IF u \in us \cup Members(rm) THEN NoRoom ELSE userRoom[u]
      /\ \A s \in Sockets : sockRoom'[s] = IF s \in ss \cup SocketsIn(rm) THEN NoRoom ELSE sockRoom[s]
  BY DEF CleanupRoom, Keep, Unregister
<1> HIDE DEF d
<1>4. \A s \in ss \cup SocketsIn(rm) : Owner(s) \in Members(room[r])
  BY <1>2 DEF Consistent, SocketsIn, Attended
<1>5. EntriesChange(r, d)
  BY <1>1, <1>2, <1>3, <1>4 DEF EntriesChange
<1>6. \A c \in lookup : Owner(c.sock) \in Users
  BY OwnerType DEF RegInv, TypeOK, Lookups
<1> QED
  BY <1>1, <1>2, <1>3, <1>5, <1>6, EventRegistered

LEMMA ForfeitRegistered ==
  ASSUME RegInv, NEW r \in Rooms, Open(r), NEW rm, NEW u, NEW us, NEW ss, Consistent(r, rm, us, ss),
         HandleForfeit(r, rm, u, us, ss), lookup' = lookup
  PROVE  Registered'
<1>1. rm \in GameRoomType
  BY DEF Consistent
<1>2. /\ GameOver(rm) \in GameRoomType /\ RefreshTTL(GameOver(rm)) \in GameRoomType
      /\ Stay(rm, GameOver(rm)) /\ Stay(rm, RefreshTTL(GameOver(rm)))
  BY <1>1, GameOverType, RefreshTTLType, EndsStay
<1>3. Consistent(r, GameOver(rm), us, ss) /\ Consistent(r, RefreshTTL(GameOver(rm)), us, ss)
  BY <1>2, StayConsistent
<1> QED
  BY <1>3, KeepRegistered, CleanupRegistered DEF HandleForfeit

LEMMA RemovedConsistent ==
  ASSUME RegInv, NEW r \in Rooms, Open(r), NEW rm, Whole(rm), Stay(room[r], rm), NEW u \in Members(rm)
  PROVE  Consistent(r, RemovePlayer(rm, u), {u}, {room[r].info[u].sock})
<1> DEFINE new == RemovePlayer(rm, u)
           old == room[r]
           q == old.info[u].sock
<1>1. rm \in GameRoomType /\ old \in GameRoomType
  BY DEF Whole, RegInv, TypeOK
<1>2. Consistent(r, rm, {}, {})
  BY <1>1, SelfConsistent, StayConsistent
<1>3. /\ Members(rm) = Members(old) /\ Members(rm) \subseteq Users /\ rm.store = "open" /\ Attended(rm)
      /\ Attended(old)
  BY <1>1, <1>2, SelfConsistent, MembersAreUsers DEF Stay, Kept, Members, Consistent
<1>4. /\ new \in GameRoomType /\ Attended(new) /\ new.store = rm.store
      /\ Members(new) = Members(rm) \ {u}
      /\ \A v \in Users : v # u => new.info[v] = rm.info[v]
  BY <1>3, RemoveAttended
<1> HIDE DEF new
<1>5. \A v \in Members(old) : /\ v \in Users /\ Owner(old.info[v].sock) = v
                              /\ rm.info[v].sock = old.info[v].sock
                              /\ rm.info[v].connected = old.info[v].connected
  BY <1>3 DEF Stay, Attended
<1>6. Owner(q) \in Members(old) /\ \A v \in Members(old) \ {u} : old.info[v].sock # q
  BY <1>3, <1>5
<1>7. \A v \in Members(old) \ {u} : /\ v \in Members(new) /\ new.info[v].sock = old.info[v].sock
                                    /\ new.info[v].connected = old.info[v].connected
                                    /\ new.info[v].sock \notin {q}
  BY <1>3, <1>4, <1>5, <1>6
<1>8. u \notin Members(new) /\ u \in Members(old)
  BY <1>3, <1>4
<1>9. Consistent(r, new, {u}, {q})
  BY <1>3, <1>4, <1>6, <1>7, <1>8 DEF Consistent
<1> QED
  BY <1>9 DEF new

LEMMA AwayConsistent ==
  ASSUME RegInv, NEW r \in Rooms, Open(r), NEW s \in Sockets, sockRoom[s] = r
  PROVE  LET u == Owner(s)
             new == Away(room[r], u)
         IN  /\ Consistent(r, new, {}, {s})
             /\ Consistent(r, Arm(new, u, Grace(u)), {}, {s})
             /\ Consistent(r, RefreshTTL(new), {}, {s})
<1> DEFINE old == room[r]
           u == Owner(s)
           new == Away(old, u)
           armed == Arm(new, u, Grace(u))
<1>1. /\ old \in GameRoomType /\ old.store = "open" /\ Attended(old)
  BY SelfConsistent DEF Consistent
<1>2. u \in Members(old) /\ old.info[u].sock = s /\ old.info[u].connected
  BY DEF RegInv, Registered, SocketIndexExact, SocketsOnline
<1>3. /\ new \in GameRoomType /\ Attended(new) /\ Kept(old, new)
      /\ \A v \in Users : v # u => new.info[v] = old.info[v]
      /\ new.info[u].sock = old.info[u].sock /\ ~new.info[u].connected
      /\ armed \in GameRoomType /\ Attended(armed) /\ Kept(old, armed) /\ armed.info = new.info
  BY <1>1, <1>2, AwayAttended
<1> HIDE DEF new, armed
<1>4. \A v \in Members(old) : v \in Users /\ Owner(old.info[v].sock) = v
  BY <1>1, MembersAreUsers DEF Attended
<1>5. Members(new) = Members(old) /\ Members(armed) = Members(old)
  BY <1>3 DEF Kept, Members
<1>6. \A v \in Members(old) \ {u} : new.info[v].sock \notin {s} /\ new.info[v] = old.info[v]
  BY <1>3, <1>4
<1>7. \A s1 \in {s} : Owner(s1) \in Members(old)
  BY <1>2
<1>8. Consistent(r, new, {}, {s})
  BY <1>1, <1>2, <1>3, <1>5, <1>6, <1>7 DEF Consistent, Kept
<1>9. Consistent(r, armed, {}, {s})
  BY <1>1, <1>2, <1>3, <1>5, <1>6, <1>7 DEF Consistent, Kept
<1>10. Consistent(r, RefreshTTL(new), {}, {s})
  BY <1>3, <1>8, RefreshTTLType, RefreshTTLStays, StayConsistent
<1> QED
  BY <1>8, <1>9, <1>10 DEF new, armed

-----------------------------------------------------------------------------
(* Steps that are no event of an open room. *)

(* Nothing but the lookups changes, and only a user without a room starts one. *)
LEMMA QuietRegistered ==
  ASSUME RegInv, UNCHANGED <<userRoom, sockRoom, room>>,
         \A c \in lookup' : c \in lookup \/ ~Open(userRoom[Owner(c.sock)])
  PROVE  Registered'
<1>1. UserIndexComplete' /\ SocketIndexExact' /\ SocketsOnline' /\ SocketRoomsGivenOut'
  BY DEF RegInv, Registered, UserIndexComplete, SocketIndexExact, SocketsOnline,
         SocketRoomsGivenOut, OpenRooms, Open
<1>2. LookupsOutside'
  BY DEF RegInv, Registered, LookupsOutside, Open
<1> QED
  BY <1>1, <1>2 DEF RegInv, Registered

(* A socket that is registered with no open room goes. *)
LEMMA SocketGoneRegistered ==
  ASSUME RegInv, NEW s \in Sockets, ~Open(sockRoom[s]), Unregister({}, {s}), UNCHANGED <<room, lookup>>
  PROVE  Registered'
<1>1. /\ \A u \in Users : userRoom'[u] = userRoom[u]
      /\ \A q \in Sockets : sockRoom'[q] = IF q = s THEN NoRoom ELSE sockRoom[q]
  BY DEF Unregister
<1>2. \A r \in Rooms : Members(room[r]) \subseteq Users
  BY MembersAreUsers DEF RegInv, TypeOK
<1>3. UserIndexComplete'
  BY <1>1, <1>2 DEF RegInv, Registered, UserIndexComplete, OpenRooms
<1>4. \A q \in Sockets : Open(sockRoom[q])' => q # s /\ Open(sockRoom[q]) /\ sockRoom'[q] = sockRoom[q]
  BY <1>1 DEF Open
<1>5. ASSUME NEW r \in OpenRooms, NEW u \in Members(room[r]), room[r].info[u].connected
      PROVE  sockRoom'[room[r].info[u].sock] = r
  <2>1. r \in Rooms /\ room[r].store = "open" /\ r # NoRoom
    BY RoomsAssumption DEF OpenRooms
  <2>2. room[r].info[u].sock \in Sockets /\ sockRoom[room[r].info[u].sock] = r
    BY <1>5, <2>1 DEF RegInv, Registered, SocketIndexExact, Attended
  <2> QED
    BY <1>1, <2>1, <2>2 DEF Open
<1>6. SocketIndexExact' /\ SocketsOnline'
  BY <1>4, <1>5 DEF RegInv, Registered, SocketIndexExact, SocketsOnline, OpenRooms
<1>7. LookupsOutside' /\ SocketRoomsGivenOut'
  <2>1. \A c \in lookup : Owner(c.sock) \in Users
    BY OwnerType DEF RegInv, TypeOK, Lookups
  <2> QED
    BY <1>1, <2>1 DEF RegInv, Registered, LookupsOutside, SocketRoomsGivenOut, Open
<1> QED
  BY <1>3, <1>6, <1>7 DEF RegInv, Registered

LEMMA CrashRegistered == ASSUME ProcessCrash PROVE Registered'
<1>1. /\ \A u \in Users : userRoom'[u] = NoRoom
      /\ \A s \in Sockets : sockRoom'[s] = NoRoom
      /\ \A r \in Rooms : room'[r] \in {EmptyRoom("free"), EmptyRoom("gone")}
      /\ lookup' = {}
  BY DEF ProcessCrash, Unregister
<1>2. \A r \in Rooms : room'[r].store # "open" /\ Silent(room'[r]) /\ NothingLost(room'[r])
  BY <1>1, EmptyAttended
<1> QED
  BY <1>1, <1>2 DEF Registered, UserIndexComplete, SocketIndexExact, SocketsOnline, SocketRoomsGivenOut,
                    LookupsOutside, OpenRooms, Open

(* A player comes back on a new socket. *)
LEMMA RejoinRegistered ==
  ASSUME RegInv, NEW r \in Rooms, Open(r), NEW s \in Sockets, Owner(s) \in Members(room[r]),
         Put(r, Rejoined(room[r], Owner(s), s)), Reregister(room[r].info[Owner(s)].sock, s, r),
         lookup' = lookup
  PROVE  Registered'
<1> DEFINE old == room[r]
           u == Owner(s)
           new == Rejoined(old, u, s)
           q == old.info[u].sock
<1>1. /\ old \in GameRoomType /\ old.store = "open" /\ Attended(old) /\ Members(old) \subseteq Users
  BY SelfConsistent, MembersAreUsers DEF Consistent
<1>2. /\ new \in GameRoomType /\ Attended(new) /\ Kept(old, new)
      /\ \A v \in Users : v # u => new.info[v] = old.info[v]
      /\ new.info[u].sock = s /\ new.info[u].connected
  BY <1>1, RejoinedAttended
<1> HIDE DEF new
<1>3. Members(new) = Members(old) /\ new.store = "open"
  BY <1>1, <1>2 DEF Kept, Members
<1>4. Owner(q) = u /\ q \in Sockets
  BY <1>1 DEF Attended
<1>5. /\ userRoom' = userRoom
      /\ \A p \in Sockets : sockRoom'[p] = IF p = s THEN r ELSE IF p = q THEN NoRoom ELSE sockRoom[p]
  BY DEF Reregister
<1>6. EntriesChange(r, new)
  BY <1>4, <1>5 DEF EntriesChange
<1>7. SocketsExact(r, new)
  <2>1. r # NoRoom /\ r \in OpenRooms
    BY <1>1, RoomsAssumption DEF OpenRooms
  <2>2. ASSUME NEW p \in Sockets, sockRoom'[p] = r
        PROVE  /\ Owner(p) \in Members(new) /\ new.info[Owner(p)].sock = p /\ new.info[Owner(p)].connected
    <3>1. CASE p = s
      BY <1>2, <1>3, <3>1
    <3>2. CASE p # s
      <4>1. p # q /\ sockRoom[p] = r
        BY <1>5, <2>1, <2>2, <3>2
      <4>2. Owner(p) \in Members(old) /\ old.info[Owner(p)].sock = p /\ old.info[Owner(p)].connected
        BY <2>1, <4>1 DEF RegInv, Registered, SocketIndexExact, SocketsOnline, Open
      <4>3. Owner(p) # u
        BY <4>1, <4>2
      <4> QED
        BY <1>1, <1>2, <1>3, <4>2, <4>3
    <3> QED
      BY <3>1, <3>2
  <2>3. ASSUME NEW v \in Members(new), new.info[v].connected
        PROVE  sockRoom'[new.info[v].sock] = r
    <3>1. CASE v = u
      BY <1>2, <1>5, <3>1
    <3>2. CASE v # u
      <4>1. v \in Members(old) /\ new.info[v] = old.info[v]
        BY <1>1, <1>2, <1>3, <3>2
      <4>2. old.info[v].sock \in Sockets /\ Owner(old.info[v].sock) = v /\ sockRoom[old.info[v].sock] = r
        BY <1>1, <2>1, <2>3, <4>1 DEF RegInv, Registered, SocketIndexExact, Attended
      <4> QED
        BY <1>4, <1>5, <3>2, <4>1, <4>2
    <3> QED
      BY <3>1, <3>2
  <2> QED
    BY <2>2, <2>3 DEF SocketsExact
<1>8. \A c \in lookup : Owner(c.sock) \in Users
  BY OwnerType DEF RegInv, TypeOK, Lookups
<1> QED
  BY <1>2, <1>3, <1>6, <1>7, <1>8, EventRegistered DEF new

(* User u is a player of the open room new on socket s, beside those of room r. *)
PlayersBefore(r) == IF room[r].store = "open" THEN Members(room[r]) ELSE {}
Entering(r, new, u, s) ==
  /\ Attended(new) /\ Members(new) = PlayersBefore(r) \cup {u}
  /\ \A v \in PlayersBefore(r) : v # u => new.info[v] = room[r].info[v]
  /\ new.info[u].sock = s /\ new.info[u].connected

(* A lookup ends: its user enters room r, whatever has become of it. *)
LEMMA EntryRegistered ==
  ASSUME RegInv, OneLookupEach, NEW c \in lookup, lookup' = lookup \ {c},
         NEW r \in Rooms, NEW new \in GameRoomType, Put(r, new),
         Register(Owner(c.sock), c.sock, r),
         \/ new.store = room[r].store /\ new.store \in {"open", "gone"}
         \/ room[r].store = "free" /\ new.store = "open",
         new.store = "open" => Entering(r, new, Owner(c.sock), c.sock),
         new.store = "gone" => Silent(new)
  PROVE  Registered'
<1> DEFINE s == c.sock
           u == Owner(s)
           before == PlayersBefore(r)
<1>1. s \in Sockets /\ u \in Users
  BY OwnerType DEF RegInv, TypeOK, Lookups
<1>2. /\ room'[r] = Collected(new)
      /\ \A q \in Rooms : q # r => room'[q] = room[q]
      /\ r # NoRoom /\ \A q \in Rooms : q # NoRoom
  BY RoomsAssumption DEF Put, RegInv, TypeOK
<1>3. /\ room'[r].store = new.store
      /\ new.store = "open" => room'[r] = new
  BY <1>2 DEF Collected, EmptyRoom, GameRoomType
<1>4. /\ \A v \in Users : userRoom'[v] = IF v = u THEN r ELSE userRoom[v]
      /\ \A p \in Sockets : sockRoom'[p] = IF p = s THEN r ELSE sockRoom[p]
      /\ \A v \in Users : userRoom[v] \in Rooms \cup {NoRoom}
      /\ \A p \in Sockets : sockRoom[p] \in Rooms \cup {NoRoom}
  BY DEF Register, RegInv, TypeOK
<1>5. \A q \in Rooms : Members(room[q]) \subseteq Users
  BY MembersAreUsers DEF RegInv, TypeOK
<1>6. \A q \in Rooms : room[q].store = "open" => u \notin Members(room[q])
  BY <1>2 DEF RegInv, Registered, UserIndexComplete, LookupsOutside, OpenRooms, Open
<1>7. new.store = "open" =>
        /\ Attended(new) /\ Members(new) = before \cup {u}
        /\ \A v \in before : v # u /\ new.info[v] = room[r].info[v]
        /\ new.info[u].sock = s /\ new.info[u].connected
  BY <1>6 DEF Entering, PlayersBefore
<1>8. before \subseteq Users /\ \A v \in before : room[r].store = "open" /\ v \in Members(room[r])
  BY <1>5 DEF PlayersBefore
<1>9. \A q \in Rooms : room'[q].store = "open" /\ q # r => room[q].store = "open" /\ room'[q] = room[q]
  BY <1>2
<1> HIDE DEF before, s, u
<1>10. UserIndexComplete'
  <2> SUFFICES ASSUME NEW q \in Rooms, room'[q].store = "open", NEW v \in Members(room'[q])
               PROVE  userRoom'[v] = q
    BY DEF UserIndexComplete, OpenRooms
  <2>1. CASE q = r
    <3>1. v \in before \cup {u}
      BY <1>3, <1>7, <2>1
    <3>2. ASSUME v \in before PROVE userRoom[v] = r /\ v # u /\ v \in Users
      BY <1>3, <1>7, <1>8, <2>1, <3>2 DEF RegInv, Registered, UserIndexComplete, OpenRooms
    <3> QED
      BY <1>1, <1>4, <2>1, <3>1, <3>2
  <2>2. CASE q # r
    <3>1. room[q].store = "open" /\ v \in Members(room[q]) /\ v \in Users /\ v # u
      BY <1>5, <1>6, <1>9, <2>2
    <3> QED
      BY <1>4, <3>1 DEF RegInv, Registered, UserIndexComplete, OpenRooms
  <2> QED
    BY <2>1, <2>2
<1>11. ASSUME NEW p \in Sockets, Open(sockRoom[p])'
       PROVE  /\ Owner(p) \in Members(room'[sockRoom'[p]])
              /\ room'[sockRoom'[p]].info[Owner(p)].sock = p
              /\ room'[sockRoom'[p]].info[Owner(p)].connected
  <2>1. sockRoom'[p] # NoRoom /\ room'[sockRoom'[p]].store = "open"
    BY <1>11 DEF Open
  <2>2. CASE p = s
    BY <1>1, <1>3, <1>4, <1>7, <2>1, <2>2 DEF u
  <2>3. CASE p # s
    <3>1. sockRoom'[p] = sockRoom[p] /\ sockRoom[p] \in Rooms /\ room[sockRoom[p]].store # "free"
      BY <1>4, <2>1, <2>3 DEF RegInv, Registered, SocketRoomsGivenOut
    <3>2. Open(sockRoom[p])
      BY <1>2, <1>3, <2>1, <3>1 DEF Open
    <3>3. /\ Owner(p) \in Members(room[sockRoom[p]])
          /\ room[sockRoom[p]].info[Owner(p)].sock = p
          /\ room[sockRoom[p]].info[Owner(p)].connected
      BY <3>2 DEF RegInv, Registered, SocketIndexExact, SocketsOnline
    <3>4. CASE sockRoom[p] = r
      <4>1. Owner(p) \in before
        BY <3>2, <3>3, <3>4 DEF Open, before, PlayersBefore
      <4> QED
        BY <1>3, <1>7, <2>1, <3>1, <3>3, <3>4, <4>1
    <3>5. CASE sockRoom[p] # r
      BY <1>2, <3>1, <3>3, <3>5
    <3> QED
      BY <3>4, <3>5
  <2> QED
    BY <2>2, <2>3
<1>12. ASSUME NEW q \in Rooms, room'[q].store = "open", NEW v \in Members(room'[q]),
              room'[q].info[v].connected
       PROVE  sockRoom'[room'[q].info[v].sock] = q
  <2>1. CASE q = r /\ v = u
    BY <1>1, <1>3, <1>4, <1>7, <1>12, <2>1
  <2>2. CASE q = r /\ v # u
    <3>1. v \in before /\ room'[q].info[v] = room[r].info[v]
      BY <1>3, <1>7, <1>12, <2>2
    <3>2. room[r].store = "open" /\ v \in Members(room[r])
      BY <1>8, <3>1
    <3>3. /\ room[r].info[v].sock \in Sockets /\ Owner(room[r].info[v].sock) = v
          /\ sockRoom[room[r].info[v].sock] = r
      BY <1>12, <3>1, <3>2 DEF RegInv, Registered, Attended, SocketIndexExact, OpenRooms
    <3> QED
      BY <1>4, <2>2, <3>1, <3>3 DEF u
  <2>3. CASE q # r
    <3>1. room[q].store = "open" /\ room'[q] = room[q] /\ v \in Members(room[q]) /\ v # u
      BY <1>6, <1>9, <1>12, <2>3
    <3>2. /\ room[q].info[v].sock \in Sockets /\ Owner(room[q].info[v].sock) = v
          /\ sockRoom[room[q].info[v].sock] = q
      BY <1>12, <3>1 DEF RegInv, Registered, Attended, SocketIndexExact, OpenRooms
    <3> QED
      BY <1>4, <3>1, <3>2 DEF u
  <2> QED
    BY <2>1, <2>2, <2>3
<1>13. SocketIndexExact' /\ SocketsOnline'
  BY <1>11, <1>12 DEF SocketIndexExact, SocketsOnline, OpenRooms
<1>14. LookupsOutside'
  <2> SUFFICES ASSUME NEW d \in lookup, d # c, Open(userRoom[Owner(d.sock)])' PROVE FALSE
    BY DEF LookupsOutside
  <2>1. Owner(d.sock) # u /\ Owner(d.sock) \in Users
    BY OwnerType DEF OneLookupEach, u, s, RegInv, TypeOK, Lookups
  <2> DEFINE v == Owner(d.sock)
  <2>2. v \in Users /\ v # u /\ ~Open(userRoom[v])
    BY <2>1 DEF RegInv, Registered, LookupsOutside
  <2> HIDE DEF v
  <2>3. userRoom'[v] # NoRoom /\ room'[userRoom'[v]].store = "open"
    BY DEF Open, v
  <2>4. userRoom'[v] = userRoom[v] /\ userRoom[v] \in Rooms /\ room[userRoom[v]].store # "free"
    BY <1>4, <2>2, <2>3 DEF RegInv, Indexed, NamedRoomsGivenOut
  <2> QED
    BY <1>2, <1>3, <2>2, <2>3, <2>4 DEF Open
<1>15. SocketRoomsGivenOut'
  <2> SUFFICES ASSUME NEW p \in Sockets, sockRoom'[p] # NoRoom PROVE room'[sockRoom'[p]].store # "free"
    BY DEF SocketRoomsGivenOut
  <2>1. sockRoom'[p] = r \/ (sockRoom'[p] = sockRoom[p] /\ sockRoom[p] \in Rooms)
    BY <1>4
  <2> QED
    BY <1>2, <1>3, <2>1 DEF RegInv, Registered, SocketRoomsGivenOut
<1>16. \A q \in Rooms : room'[q].store = "open" => Attended(room'[q])
  BY <1>2, <1>3, <1>7 DEF RegInv, Registered
<1>17. \A q \in Rooms : room'[q].store # "open" => Silent(room'[q])
  <2>1. new.store = "gone" => Silent(room'[r])
    BY <1>2, EmptyAttended DEF Collected
  <2> QED
    BY <1>2, <1>3, <2>1 DEF RegInv, Registered
<1>18. \A q \in Rooms : room'[q].store = "free" => NothingLost(room'[q])
  BY <1>2, <1>3 DEF RegInv, Registered
<1> QED
  BY <1>10, <1>13, <1>14, <1>15, <1>16, <1>17, <1>18 DEF Registered

-----------------------------------------------------------------------------
LEMMA RegInvParts ==
  ASSUME RegInv
  PROVE  /\ TypeOK /\ StoreOK /\ Registered /\ Indexed
         /\ \A r \in Rooms : room[r] \in GameRoomType /\ Whole(room[r])
         /\ \A c \in lookup : Owner(c.sock) \in Users
BY TypeOKSplit, OwnerType DEF RegInv, TypeOK, MatchInv, Sound, Lookups

(* The room of a sender. *)
LEMMA SenderOpen ==
  ASSUME RegInv, NEW s \in Sockets,
         NEW r, r = RoomOfUser(Owner(s)) \/ r = RoomOfSocket(s), InRoom(Owner(s), r)
  PROVE  r \in Rooms /\ Open(r) /\ room[r] \in GameRoomType /\ Owner(s) \in Members(room[r])
         /\ (r = RoomOfSocket(s) => sockRoom[s] = r \/ r = RoomOfUser(Owner(s)))
<1>1. r \in Rooms
  BY RegInvParts, RoomOfType, OwnerType DEF InRoom
<1> QED
  BY <1>1, RegInvParts DEF InRoom, RoomOfUser, RoomOfSocket

LEMMA TryReconnectRegistered ==
  ASSUME RegInv, NEW s \in Sockets, TryReconnect(s) PROVE Registered'
<1> DEFINE u == Owner(s)
           r == RoomOfUser(u)
           rm == room[r]
           old == rm.info[u].sock
<1>1. CASE ~InRoom(u, r)
  BY <1>1, QuietRegistered DEF TryReconnect
<1>2. CASE InRoom(u, r)
  <2>1. r \in Rooms /\ Open(r) /\ u \in Members(rm) /\ Whole(rm) /\ lookup' = lookup
    BY <1>2, SenderOpen, RegInvParts DEF TryReconnect
  <2>2. CASE rm.phase \notin Reconnects
    <3>1. \/ CleanupRoom(r, RemovePlayer(rm, u), {u}, {old})
          \/ Keep(r, RemovePlayer(rm, u), {u}, {old})
      BY <1>2, <2>2 DEF TryReconnect
    <3>2. Consistent(r, RemovePlayer(rm, u), {u}, {old})
      BY <2>1, RemovedConsistent, StayReflexive
    <3> QED
      BY <2>1, <3>1, <3>2, CleanupRegistered, KeepRegistered
  <2>3. CASE rm.phase \in Reconnects
    <3>1. Put(r, Rejoined(rm, u, s)) /\ Reregister(old, s, r)
      BY <1>2, <2>3 DEF TryReconnect
    <3> QED
      BY <2>1, <3>1, RejoinRegistered
  <2> QED
    BY <2>2, <2>3
<1> QED
  BY <1>1, <1>2

LEMMA DisconnectRegistered ==
  ASSUME RegInv, NEW s \in Sockets, Disconnect(s) PROVE Registered'
<1> DEFINE u == Owner(s)
           r == RoomOfSocket(s)
           rm == Away(room[r], u)
<1>1. lookup' = lookup
  BY DEF Disconnect
<1>2. CASE ~InRoom(u, r)
  <2>1. Open(sockRoom[s]) => InRoom(u, r)
    BY RegInvParts DEF Registered, SocketIndexExact, InRoom, RoomOfSocket, Open
  <2>2. Unregister({}, {s}) /\ UNCHANGED room
    BY <1>2 DEF Disconnect
  <2> QED
    BY <1>1, <1>2, <2>1, <2>2, SocketGoneRegistered
<1>3. CASE InRoom(u, r)
  <2>1. Open(r) /\ r \in Rooms /\ sockRoom[s] = r
    BY <1>3, SenderOpen DEF RoomOfSocket, InRoom
  <2>2. \/ CleanupRoom(r, rm, {}, {s})
        \/ Keep(r, RefreshTTL(rm), {}, {s})
        \/ Keep(r, Arm(rm, u, Grace(u)), {}, {s})
    BY <1>3 DEF Disconnect
  <2>3. /\ Consistent(r, rm, {}, {s})
        /\ Consistent(r, Arm(rm, u, Grace(u)), {}, {s})
        /\ Consistent(r, RefreshTTL(rm), {}, {s})
    BY <2>1, AwayConsistent
  <2> QED
    BY <1>1, <2>1, <2>2, <2>3, CleanupRegistered, KeepRegistered
<1> QED
  BY <1>2, <1>3

-----------------------------------------------------------------------------
(* Entering a room. *)
LEMMA NoRoomNotOpen ==
  ASSUME NEW u, RoomOfUser(u) = NoRoom PROVE ~Open(userRoom[u])
BY DEF RoomOfUser, Open

LEMMA StartRegistered ==
  ASSUME NEW s \in Sockets, NEW target, RoomOfUser(Owner(s)) = NoRoom, StartLookup(s, target)
  PROVE  \A c \in lookup' : c \in lookup \/ (~Open(userRoom[Owner(c.sock)]) /\ Owner(c.sock) \in Users)
BY NoRoomNotOpen, OwnerType DEF StartLookup

LEMMA RoomJoinRegistered ==
  ASSUME RegInv, NEW s \in Sockets, NEW r \in Rooms, RoomJoin(s, r) PROVE Registered'
<1> DEFINE new == JoinBegun(room[r])
<1>1. room[r] \in GameRoomType /\ \A c \in lookup : Owner(c.sock) \in Users
  BY RegInvParts
<1>2. Open(r) /\ Put(r, new) /\ UNCHANGED <<userRoom, sockRoom>> /\ StartLookup(s, r)
      /\ RoomOfUser(Owner(s)) = NoRoom
  BY DEF RoomJoin
<1>3. new \in GameRoomType /\ Stay(room[r], new)
  BY <1>1, CancelType, ResetGameDataType, ResetsStay DEF JoinBegun
<1> HIDE DEF new
<1>4. Consistent(r, new, {}, {})
  BY <1>2, <1>3, SelfConsistent, StayConsistent
<1>5. Unregister({}, {})
  BY <1>2 DEF Unregister, RegInv, TypeOK
<1>6. \A c \in lookup' : Owner(c.sock) \in Users /\ (c \in lookup \/ ~Open(userRoom[Owner(c.sock)]))
  BY <1>1, <1>2, StartRegistered
<1> QED
  BY <1>2, <1>4, <1>5, <1>6, WriteRegistered

(* A user whose lookup is in flight is a player of no open room. *)
LEMMA Outsider ==
  ASSUME RegInv, NEW c \in lookup, NEW r \in Rooms, room[r].store = "open"
  PROVE  Owner(c.sock) \notin Members(room[r])
BY RoomsAssumption DEF RegInv, Registered, UserIndexComplete, LookupsOutside, OpenRooms, Open

LEMMA RoomCreatedRegistered ==
  ASSUME RegInv, OneLookupEach, NEW c \in lookup, NEW r \in Rooms, RoomCreated(c, r)
  PROVE  Registered'
<1> DEFINE s == c.sock
           u == Owner(s)
           e == EmptyRoom("open")
           new == SetPlayer(e, u, Player(s, TRUE))
<1>1. s \in Sockets /\ u \in Users
  BY OwnerType DEF RegInv, TypeOK, Lookups
<1>2. e \in GameRoomType /\ e.store = "open" /\ Members(e) = {} /\ Attended(e)
  BY EmptyType, EmptyAttended
<1> HIDE DEF e
<1>3. new \in GameRoomType
  BY <1>1, <1>2, PlayerType, SetPlayerType
<1>4. /\ new.store = "open" /\ Members(new) = {u} /\ Attended(new)
      /\ new.info[u].sock = s /\ new.info[u].connected
  <2> DEFINE p == Player(s, TRUE)
  <2>1. p \in PlayerInfo /\ p.sock = s /\ p.connected
    BY <1>1, PlayerType DEF Player
  <2>2. new = SetPlayer(e, u, p)
    OBVIOUS
  <2> HIDE DEF new, p
  <2> QED
    BY <1>1, <1>2, <1>3, <2>1, <2>2, EnterAttended
<1>5. /\ lookup' = lookup \ {c} /\ room[r].store = "free" /\ Put(r, new) /\ Register(u, s, r)
  BY DEF RoomCreated, e
<1> HIDE DEF new
<1>6. Entering(r, new, u, s)
  BY <1>4, <1>5 DEF Entering, PlayersBefore
<1> QED
  BY <1>3, <1>4, <1>5, <1>6, EntryRegistered

LEMMA RoomJoinedRegistered ==
  ASSUME RegInv, OneLookupEach, NEW c \in lookup, RoomJoined(c) PROVE Registered'
<1> DEFINE s == c.sock
           u == Owner(s)
           r == c.target
           old == room[r]
           new == Joined(old, u, s)
<1>1. s \in Sockets /\ u \in Users /\ r \in Rooms
  BY OwnerType DEF RegInv, TypeOK, Lookups, RoomJoined
<1>2. old \in GameRoomType /\ old.store \in {"open", "gone"}
  <2>1. old \in GameRoomType /\ old.store # "free"
    BY <1>1, RegInvParts DEF Indexed, NamedRoomsGivenOut, RoomJoined
  <2> QED
    BY <2>1 DEF GameRoomType
<1>3. new \in GameRoomType
  BY <1>1, <1>2, JoinedType
<1>4. lookup' = lookup \ {c} /\ Put(r, new) /\ Register(u, s, r)
  BY DEF RoomJoined
<1>5. CASE old.store = "open"
  <2>1. u \notin Members(old) /\ Attended(old) /\ Members(old) \subseteq Users
    BY <1>1, <1>2, <1>5, Outsider, RegInvParts, MembersAreUsers DEF Registered
  <2> DEFINE p == Player(s, FALSE)
             y == SetPlayer(old, u, p)
  <2>2. p \in PlayerInfo /\ p.sock = s /\ p.connected
    BY <1>1, PlayerType DEF Player
  <2>3. y \in GameRoomType
    BY <1>1, <1>2, <2>2, SetPlayerType
  <2>4. new = [y EXCEPT !.phase = "ready"]
    BY DEF Joined
  <2> HIDE DEF new, p, y
  <2>5. /\ new.store = y.store /\ new.players = y.players /\ new.info = y.info
        /\ new.lost = y.lost /\ new.handle = y.handle
    BY <2>3, <2>4 DEF GameRoomType
  <2>6. /\ new.store = old.store /\ Members(new) = Members(old) \cup {u}
        /\ \A v \in Users : v # u => new.info[v] = old.info[v]
        /\ new.info[u].sock = s /\ new.info[u].connected /\ Attended(new)
    BY <1>1, <1>2, <1>3, <2>1, <2>2, <2>5, EnterAttended DEF y
  <2>7. Entering(r, new, u, s)
    BY <1>5, <2>1, <2>6 DEF Entering, PlayersBefore
  <2> QED
    BY <1>1, <1>3, <1>4, <1>5, <2>6, <2>7, EntryRegistered
<1>6. CASE old.store = "gone"
  <2> DEFINE y == SetPlayer(old, u, Player(s, FALSE))
  <2>1. y \in GameRoomType
    BY <1>1, <1>2, PlayerType, SetPlayerType
  <2>2. y.store = old.store /\ y.handle = [old.handle EXCEPT ![u] = NoTimer]
    BY <1>2 DEF SetPlayer, Forget, Arm, GameRoomType
  <2> HIDE DEF y
  <2>3. new.store = "gone" /\ new.handle = [old.handle EXCEPT ![u] = NoTimer]
    BY <1>6, <2>1, <2>2 DEF Joined, y, GameRoomType
  <2>4. Silent(old) /\ \A h \in Handles : new.handle[h] = IF h = u THEN NoTimer ELSE old.handle[h]
    BY <1>1, <1>2, <1>6, <2>3, RegInvParts DEF Registered, GameRoomType
  <2>5. Silent(new)
    BY <2>4 DEF Silent
  <2> HIDE DEF new
  <2> QED
    BY <1>1, <1>3, <1>4, <1>6, <2>3, <2>5, EntryRegistered
<1> QED
  BY <1>2, <1>5, <1>6

-----------------------------------------------------------------------------
(* Events of a player in a room. *)
LEMMA SenderRegistered ==
  ASSUME RegInv, NEW s \in Sockets, FromPlayer(s)
  PROVE  LET r == RoomOfUser(Owner(s))
         IN  r \in Rooms /\ Open(r) /\ room[r] \in GameRoomType /\ Whole(room[r])
             /\ Owner(s) \in Members(room[r])
BY SenderOpen, RegInvParts DEF FromPlayer

LEMMA UpdatesRegistered ==
  ASSUME RegInv, NEW s \in Sockets,
         \/ GameReady(s) \/ RoundMicReady(s) \/ GameRematch(s)
         \/ \E db \in Decibels : RoundSubmit(s, db)
  PROVE  Registered'
<1> DEFINE u == Owner(s)
           r == RoomOfUser(u)
           old == room[r]
<1>1. r \in Rooms /\ Open(r) /\ old \in GameRoomType
  BY SenderRegistered DEF GameReady, RoundMicReady, GameRematch, RoundSubmit
<1>2. \A x \in GameRoomType : Stay(old, x) /\ Update(r, x) => Registered'
  BY <1>1, UpdateRegistered
<1>3. {"countdown", "rematch_waiting"} \subseteq Phases
  BY DEF Phases
<1>4. CASE GameReady(s)
  <2> DEFINE rm == [old EXCEPT !.info[u].ready = TRUE]
             x == [rm EXCEPT !.phase = "countdown"]
  <2>1. rm \in GameRoomType /\ Stay(old, rm)
    BY <1>1, PlayerUpdateType, PlayerUpdatesStay
  <2>2. Update(r, StartCountdown(x)) \/ Update(r, rm)
    BY <1>4 DEF GameReady
  <2> HIDE DEF rm
  <2>3. x \in GameRoomType /\ Stay(rm, x)
    BY <1>3, <2>1, PhaseStays
  <2> HIDE DEF x
  <2>4. StartCountdown(x) \in GameRoomType /\ Stay(old, StartCountdown(x))
    BY <2>1, <2>3, StartCountdownType, StartsStay, StayTransitive
  <2> QED
    BY <1>2, <2>1, <2>2, <2>4
<1>5. CASE RoundMicReady(s)
  <2> DEFINE rm == [old EXCEPT !.micReady = @ \cup {u}]
             x == Cancel(rm, {"prepare"})
  <2>1. rm \in GameRoomType /\ Stay(old, rm)
    <3>1. u \in Users
      BY OwnerType
    <3>2. rm \in GameRoomType
      BY <1>1, <3>1 DEF GameRoomType
    <3> QED
      BY <1>1, <3>2, PlayerUpdatesStay
  <2>2. Update(r, DoStartRound(x)) \/ Update(r, rm)
    BY <1>5 DEF RoundMicReady
  <2> HIDE DEF rm
  <2>3. x \in GameRoomType /\ Stay(rm, x)
    BY <2>1, CancelType, CancelStays
  <2> HIDE DEF x
  <2>4. DoStartRound(x) \in GameRoomType /\ Stay(old, DoStartRound(x))
    BY <2>1, <2>3, DoStartRoundType, StartsStay, StayTransitive
  <2> QED
    BY <1>2, <2>1, <2>2, <2>4
<1>6. CASE GameRematch(s)
  <2> DEFINE rm == [old EXCEPT !.info[u].rematch = TRUE, !.phase = "rematch_waiting"]
  <2>1. rm \in GameRoomType /\ Stay(old, rm)
    BY <1>1, <1>3, PlayerUpdateType, PlayerUpdatesStay
  <2>2. Update(r, StartRematch(rm)) \/ Update(r, rm)
    BY <1>6 DEF GameRematch
  <2> HIDE DEF rm
  <2>3. StartRematch(rm) \in GameRoomType /\ Stay(old, StartRematch(rm))
    BY <2>1, StartRematchType, ResetsStay, StayTransitive
  <2> QED
    BY <1>2, <2>1, <2>2, <2>3
<1>7. ASSUME NEW db \in Decibels, RoundSubmit(s, db) PROVE Registered'
  <2> DEFINE rm == [old EXCEPT !.info[u].sub = db]
             x == Cancel(rm, {"round"})
  <2>1. rm \in GameRoomType /\ Stay(old, rm)
    BY <1>1, PlayerUpdateType, PlayerUpdatesStay
  <2>2. Update(r, CloseRound(x)) \/ Update(r, rm)
    BY <1>7 DEF RoundSubmit
  <2> HIDE DEF rm
  <2>3. x \in GameRoomType /\ Stay(rm, x)
    BY <2>1, CancelType, CancelStays
  <2> HIDE DEF x
  <2>4. CloseRound(x) \in GameRoomType /\ Stay(old, CloseRound(x))
    BY <2>1, <2>3, CloseRoundType, EndsStay, StayTransitive
  <2> QED
    BY <1>2, <2>1, <2>2, <2>4
<1> QED
  BY <1>4, <1>5, <1>6, <1>7

LEMMA MicErrorRegistered ==
  ASSUME RegInv, NEW s \in Sockets, RoundMicError(s) PROVE Registered'
<1> DEFINE u == Owner(s)
           r == RoomOfUser(u)
           rm == Cancel(room[r], {"prepare"})
<1>1. r \in Rooms /\ Open(r) /\ room[r] \in GameRoomType
  BY SenderRegistered DEF RoundMicError
<1>2. rm \in GameRoomType /\ Stay(room[r], rm)
  BY <1>1, CancelType, CancelStays
<1>3. MicFailure(r, rm, u) /\ lookup' = lookup
  BY DEF RoundMicError
<1> HIDE DEF rm
<1>4. Consistent(r, rm, {}, {}) /\ Consistent(r, ResetGameData(rm), {}, {})
  BY <1>1, <1>2, SelfConsistent, ResetGameDataType, ResetsStay, StayConsistent
<1> QED
  BY <1>1, <1>3, <1>4, ForfeitRegistered, KeepRegistered DEF MicFailure

LEMMA LeaveRegistered ==
  ASSUME RegInv, NEW s \in Sockets, RoomLeave(s) PROVE Registered'
<1> DEFINE u == Owner(s)
           r == RoomOfUser(u)
           old == room[r]
           p == old.info[u]
           opp == OpponentOf(old, u)
           active == old.phase \in InGame
           before == IF active THEN Cancel(old, {"prepare"}) ELSE old
           rm == RemovePlayer(before, u)
           q == p.sock
<1>1. r \in Rooms /\ Open(r) /\ old \in GameRoomType /\ Whole(old) /\ u \in Members(old)
  BY SenderRegistered DEF RoomLeave
<1>2. Whole(before) /\ Stay(old, before)
  BY <1>1, TimersWhole, CancelStays, StayReflexive
<1>3. /\ lookup' = lookup
      /\ \/ HandleForfeit(r, rm, u, {u}, {q})
         \/ CleanupRoom(r, rm, {u}, {q})
         \/ LeftBehind(r, SetupCancelled(rm), opp, p.host, u, q)
         \/ LeftBehind(r, SlotReleased(rm), opp, p.host, u, q)
  BY DEF RoomLeave
<1> HIDE DEF before
<1>4. Members(before) = Members(old)
  BY <1>2 DEF Stay, Kept, Members
<1>5. Consistent(r, rm, {u}, {q})
  BY <1>1, <1>2, <1>4, RemovedConsistent
<1> HIDE DEF rm
<1>6. rm \in GameRoomType
  BY <1>5 DEF Consistent
<1>7. ASSUME NEW x \in GameRoomType, Stay(rm, x), LeftBehind(r, x, opp, p.host, u, q) PROVE Registered'
  <2>1. LET y == [x EXCEPT !.info[opp].host = TRUE] IN y \in GameRoomType /\ Stay(rm, y)
    BY <1>7, PlayerUpdateType, PlayerUpdatesStay, StayTransitive
  <2>2. Consistent(r, x, {u}, {q}) /\ Consistent(r, [x EXCEPT !.info[opp].host = TRUE], {u}, {q})
    BY <1>5, <1>7, <2>1, StayConsistent
  <2> QED
    BY <1>1, <1>3, <1>7, <2>2, CleanupRegistered, KeepRegistered DEF LeftBehind
<1>8. /\ SetupCancelled(rm) \in GameRoomType /\ Stay(rm, SetupCancelled(rm))
      /\ SlotReleased(rm) \in GameRoomType /\ Stay(rm, SlotReleased(rm))
  BY <1>6, LeaveResetsType, ResetsStay
<1> QED
  BY <1>1, <1>3, <1>5, <1>7, <1>8, ForfeitRegistered, CleanupRegistered

-----------------------------------------------------------------------------
(* Timer callbacks.  They run in open rooms only: no field of another room holds *)
(* a timer, and by hypothesis none is left over from before.                     *)
LEMMA CallbackOpen ==
  ASSUME RegInv, TimersDieWithRoom, NEW r \in Rooms, NEW h \in Handles, NEW t \in Timers,
         NEW rm \in Expired(room[r], h, t), h \in Users \/ \A u \in Users : t # Grace(u),
         h \in Users => t = Grace(h)
  PROVE  /\ Open(r) /\ rm \in GameRoomType /\ Stay(room[r], rm)
         /\ Consistent(r, rm, {}, {})
<1>1. room[r] \in GameRoomType /\ rm \in GameRoomType
  BY RegInvParts, ExpiredType
<1>2. room[r].handle[h] = t \/ room[r].lost[t] > 0
  BY DEF Expired
<1>3. t # NoTimer
  BY DEF Timers, Timer, Tick, Grace, NoTimer
<1>4. room[r].store = "open"
  <2>1. ASSUME room[r].store # "open" PROVE Silent(room[r]) /\ NothingLost(room[r])
    BY <1>1, <2>1 DEF RegInv, Registered, TimersDieWithRoom, GameRoomType
  <2> QED
    BY <1>2, <1>3, <2>1 DEF Silent, NothingLost
<1>5. Open(r) /\ Attended(room[r])
  BY <1>4, RoomsAssumption DEF Open, RegInv, Registered
<1>6. Stay(room[r], rm)
  BY <1>1, <1>5, ExpiredStays DEF Attended
<1> QED
  BY <1>1, <1>5, <1>6, SelfConsistent, StayConsistent

(* The phase timers. *)
LEMMA PhaseCallback ==
  ASSUME RegInv, TimersDieWithRoom, NEW r \in Rooms, NEW h \in RoomHandles,
         NEW t \in {Timer(k) : k \in {"prepare", "round", "finish", "next", "ttl"}}
                   \cup {Tick(n) : n \in 0..CountdownTicks},
         NEW rm \in Expired(room[r], h, t)
  PROVE  /\ Open(r) /\ rm \in GameRoomType /\ Stay(room[r], rm)
         /\ Consistent(r, rm, {}, {})
<1>1. h \in Handles /\ h \notin Users
  BY HandleTimers
<1>2. t \in Timers /\ \A u \in Users : t # Grace(u)
  BY TimerKinds
<1> QED
  BY <1>1, <1>2, CallbackOpen

LEMMA CallbacksRegistered ==
  ASSUME RegInv, TimersDieWithRoom, NEW r \in Rooms, TimerCallback(r) PROVE Registered'
<1>1. /\ {"countdown", "prepare", "round", "post", "ttl"} \subseteq RoomHandles
      /\ RoomHandles \subseteq Handles /\ RoomHandles \cap Users = {}
  BY HandleTimers DEF RoomHandles, MatchHandles
<1>2. ASSUME NEW x \in GameRoomType, Open(r), Stay(room[r], x), Update(r, x) PROVE Registered'
  BY <1>2, UpdateRegistered
<1>3. CASE CountdownTick(r)
  <2>1. PICK n \in 1..CountdownTicks :
          \E rm \in Expired(room[r], "countdown", Tick(n)) : Update(r, Arm(rm, "countdown", Tick(n - 1)))
    BY <1>3 DEF CountdownTick
  <2>2. PICK rm \in Expired(room[r], "countdown", Tick(n)) :
          Update(r, Arm(rm, "countdown", Tick(n - 1)))
    BY <2>1
  <2>3. n \in 0..CountdownTicks /\ n - 1 \in 0..CountdownTicks
    BY TicksAssumption
  <2>4. Open(r) /\ rm \in GameRoomType /\ Stay(room[r], rm)
    BY <1>1, <2>3, PhaseCallback
  <2>5. /\ Arm(rm, "countdown", Tick(n - 1)) \in GameRoomType
        /\ Stay(rm, Arm(rm, "countdown", Tick(n - 1)))
    BY <1>1, <2>3, <2>4, ArmType, ArmStays, TimerKinds
  <2>6. Stay(room[r], Arm(rm, "countdown", Tick(n - 1)))
    BY <2>4, <2>5, StayTransitive
  <2> QED
    BY <1>2, <2>2, <2>4, <2>5, <2>6
<1>4. CASE CountdownEnd(r)
  <2>1. PICK rm \in Expired(room[r], "countdown", Tick(0)) :
          Update(r, PrepareRound(Forget(rm, "countdown")))
    BY <1>4 DEF CountdownEnd
  <2>2. 0 \in 0..CountdownTicks
    BY TicksAssumption
  <2>3. Open(r) /\ rm \in GameRoomType /\ Stay(room[r], rm)
    BY <1>1, <2>2, PhaseCallback
  <2> DEFINE x == Forget(rm, "countdown")
  <2>4. x \in GameRoomType /\ Stay(rm, x)
    BY <1>1, <2>3, ForgetType, ForgetStays
  <2> HIDE DEF x
  <2>5. PrepareRound(x) \in GameRoomType /\ Stay(room[r], PrepareRound(x))
    BY <2>3, <2>4, PrepareRoundType, StartsStay, StayTransitive
  <2> QED
    BY <1>2, <2>1, <2>3, <2>5 DEF x
<1>5. CASE PrepareTimeout(r)
  <2>1. PICK rm \in Expired(room[r], "prepare", Timer("prepare")) :
          /\ lookup' = lookup
          /\ \/ Keep(r, rm, {}, {})
             \/ Keep(r, Forget(rm, "prepare"), {}, {})
             \/ Keep(r, ResetGameData(rm), {}, {})
             \/ \E u \in Users : HandleForfeit(r, rm, u, {}, {})
             \/ CleanupRoom(r, rm, {}, {})
    BY <1>5 DEF PrepareTimeout
  <2>2. Open(r) /\ rm \in GameRoomType /\ Consistent(r, rm, {}, {})
    BY <1>1, PhaseCallback
  <2>3. Consistent(r, Forget(rm, "prepare"), {}, {}) /\ Consistent(r, ResetGameData(rm), {}, {})
    BY <1>1, <2>2, ForgetType, ForgetStays, ResetGameDataType, ResetsStay, StayConsistent
  <2> QED
    BY <2>1, <2>2, <2>3, KeepRegistered, ForfeitRegistered, CleanupRegistered
<1>6. CASE RoundTimeout(r)
  <2>1. PICK rm \in Expired(room[r], "round", Timer("round")) :
          Update(r, rm) \/ Update(r, ResolveRound(rm)) \/ ProcessCrash
    BY <1>6 DEF RoundTimeout
  <2>2. Open(r) /\ rm \in GameRoomType /\ Stay(room[r], rm)
    BY <1>1, PhaseCallback
  <2>3. ResolveRound(rm) \in GameRoomType /\ Stay(room[r], ResolveRound(rm))
    BY <2>2, ResolveRoundType, EndsStay, StayTransitive
  <2> QED
    BY <1>2, <2>1, <2>2, <2>3, CrashRegistered
<1>7. CASE FinishTimeout(r) \/ NextRoundTimeout(r)
  <2>1. PICK t \in {Timer("finish"), Timer("next")} : \E rm \in Expired(room[r], "post", t) :
          \/ Update(r, FinishGame(Forget(rm, "post")))
          \/ Update(r, StartCountdown(Forget(rm, "post")))
    BY <1>7 DEF FinishTimeout, NextRoundTimeout
  <2>2. PICK rm \in Expired(room[r], "post", t) :
          \/ Update(r, FinishGame(Forget(rm, "post")))
          \/ Update(r, StartCountdown(Forget(rm, "post")))
    BY <2>1
  <2>3. Open(r) /\ rm \in GameRoomType /\ Stay(room[r], rm)
    BY <1>1, PhaseCallback
  <2> DEFINE x == Forget(rm, "post")
  <2>4. x \in GameRoomType /\ Stay(room[r], x)
    BY <1>1, <2>3, ForgetType, ForgetStays, StayTransitive
  <2> HIDE DEF x
  <2>5. /\ FinishGame(x) \in GameRoomType /\ Stay(room[r], FinishGame(x))
        /\ StartCountdown(x) \in GameRoomType /\ Stay(room[r], StartCountdown(x))
    BY <2>4, FinishGameType, StartCountdownType, EndsStay, StartsStay, StayTransitive
  <2> QED
    BY <1>2, <2>2, <2>3, <2>5 DEF x
<1>8. CASE TTLTimeout(r)
  <2>1. PICK rm \in Expired(room[r], "ttl", Timer("ttl")) :
          CleanupRoom(r, rm, {}, {}) /\ lookup' = lookup
    BY <1>8 DEF TTLTimeout
  <2>2. Open(r) /\ Consistent(r, rm, {}, {})
    BY <1>1, PhaseCallback
  <2> QED
    BY <2>1, <2>2, CleanupRegistered
<1>9. ASSUME NEW u \in Users, ForfeitTimeout(r, u) PROVE Registered'
  <2>1. PICK rm \in Expired(room[r], u, Grace(u)) :
          HandleForfeit(r, rm, u, {}, {}) /\ lookup' = lookup
    BY <1>9 DEF ForfeitTimeout
  <2>2. Open(r) /\ Consistent(r, rm, {}, {})
    BY HandleTimers, CallbackOpen
  <2> QED
    BY <2>1, <2>2, ForfeitRegistered
<1> QED
  BY <1>3, <1>4, <1>5, <1>6, <1>7, <1>8, <1>9 DEF TimerCallback

-----------------------------------------------------------------------------
LEMMA NextRegistered ==
  ASSUME RegInv, OneLookupEach, TimersDieWithRoom, [Next]_vars PROVE Registered'
<1>1. CASE UNCHANGED vars
  BY <1>1, QuietRegistered DEF vars
<1>2. ASSUME NEW s \in Sockets, Connect(s) \/ RoomCreate(s) PROVE Registered'
  <2>1. RoomCreate(s) => \A c \in lookup' : c \in lookup \/ ~Open(userRoom[Owner(c.sock)])
    BY StartRegistered DEF RoomCreate
  <2> QED
    BY <1>2, <2>1, QuietRegistered DEF Connect, RoomCreate
<1>3. ASSUME NEW c \in lookup, ProfileMissing(c) PROVE Registered'
  BY <1>3, QuietRegistered DEF ProfileMissing
<1>4. ASSUME NEW s \in Sockets, ClientEvent(s) PROVE Registered'
  BY <1>4, UpdatesRegistered, MicErrorRegistered, LeaveRegistered DEF ClientEvent
<1> QED
  BY <1>1, <1>2, <1>3, <1>4, TryReconnectRegistered, DisconnectRegistered, RoomJoinRegistered,
     RoomJoinedRegistered, RoomCreatedRegistered, CallbacksRegistered DEF Next

LEMMA InitRegistered == ASSUME Init PROVE Registered
<1>1. \A r \in Rooms : room[r] = EmptyRoom("free")
  BY DEF Init
<1>2. \A r \in Rooms : room[r].store # "open" /\ Silent(room[r]) /\ NothingLost(room[r])
  BY <1>1, EmptyAttended
<1>3. /\ lookup = {} /\ \A s \in Sockets : sockRoom[s] = NoRoom
  BY DEF Init
<1> QED
  BY <1>2, <1>3 DEF Registered, UserIndexComplete, SocketIndexExact, SocketsOnline,
                    SocketRoomsGivenOut, LookupsOutside, OpenRooms, Open

LEMMA RegisteredHolds ==
  Spec /\ []OneLookupEach /\ []TimersDieWithRoom => []Registered
<1>1. Init => Registered
  BY InitRegistered
<1>2. TypeOK /\ Indexed /\ MatchInv /\ Registered /\ OneLookupEach /\ TimersDieWithRoom /\ [Next]_vars
        => Registered'
  BY NextRegistered DEF RegInv
<1> QED
  BY <1>1, <1>2, TypeCorrect, IndexedHolds, MatchInvHolds, PTL DEF Spec

(* The first hypothesis is what MaxLookups = 1 says, for every value of it the *)
(* lookups of a user differ in their numbers.                                  *)
LookupsNumbered ==
  \A c, d \in lookup : Owner(c.sock) = Owner(d.sock) /\ c.n = d.n => c = d

LEMMA LookupsChange ==
  ASSUME [Next]_vars
  PROVE  lookup' \subseteq lookup \/ \E s \in Sockets : \E target : StartLookup(s, target)
<1> DEFINE Goal == lookup' \subseteq lookup \/ \E s \in Sockets : \E target : StartLookup(s, target)
<1>1. UNCHANGED vars => Goal
  BY DEF vars
<1>2. ASSUME NEW s \in Sockets,
             Connect(s) \/ TryReconnect(s) \/ Disconnect(s) \/ RoomCreate(s)
               \/ \E r \in Rooms : RoomJoin(s, r)
      PROVE  Goal
  BY <1>2 DEF Connect, TryReconnect, Disconnect, RoomCreate, RoomJoin
<1>3. ASSUME NEW s \in Sockets, ClientEvent(s) PROVE Goal
  BY <1>3 DEF ClientEvent, GameReady, RoundMicReady, RoundMicError, RoundSubmit, GameRematch,
              RoomLeave, Update
<1>4. ASSUME NEW c \in lookup,
             RoomJoined(c) \/ ProfileMissing(c) \/ \E r \in Rooms : RoomCreated(c, r)
      PROVE  Goal
  BY <1>4 DEF RoomJoined, ProfileMissing, RoomCreated
<1>5. ASSUME NEW r \in Rooms, TimerCallback(r) PROVE Goal
  <2>1. lookup' = lookup \/ lookup' = {}
    BY <1>5 DEF TimerCallback, CountdownTick, CountdownEnd, PrepareTimeout, RoundTimeout, ProcessCrash,
                FinishTimeout, NextRoundTimeout, TTLTimeout, ForfeitTimeout, Update
  <2> QED
    BY <2>1
<1> QED
  BY <1>1, <1>2, <1>3, <1>4, <1>5 DEF Next

(* So the instances of the runs satisfy the first hypothesis, *)
LEMMA SingleLookups ==
  ASSUME MaxLookups = 1 PROVE Spec => []OneLookupEach
<1>1. Init => LookupsNumbered
  BY DEF Init, LookupsNumbered
<1>2. TypeOK /\ LookupsNumbered /\ [Next]_vars => LookupsNumbered'
  <2> SUFFICES ASSUME LookupsNumbered, [Next]_vars PROVE LookupsNumbered'
    OBVIOUS
  <2>1. CASE lookup' \subseteq lookup
    BY <2>1 DEF LookupsNumbered
  <2>2. ASSUME NEW s \in Sockets, NEW target, StartLookup(s, target) PROVE LookupsNumbered'
    <3>1. PICK n \in 1..MaxLookups :
            /\ \A c \in InFlight(Owner(s)) : c.n # n
            /\ lookup' = lookup \cup {[sock |-> s, n |-> n, target |-> target]}
      BY <2>2 DEF StartLookup
    <3> QED
      BY <3>1 DEF LookupsNumbered, InFlight
  <2> QED
    BY <2>1, <2>2, LookupsChange
<1>3. TypeOK /\ LookupsNumbered => OneLookupEach
  <2>1. TypeOK => \A c \in lookup : c.n = 1
    BY DEF TypeOK, Lookups
  <2> QED
    BY <2>1 DEF LookupsNumbered, OneLookupEach
<1> QED
  BY <1>1, <1>2, <1>3, TypeCorrect, PTL DEF Spec

(* The second hypothesis follows from MaxLost = 0.  A step writes rooms only by  *)
(* Put, which counts the lost timers of what it writes, or empties all of them.  *)
TimersKeptTrack == \A r \in Rooms : NothingLost(room[r])
Written == room' = room \/ (\E r, rm : Put(r, rm)) \/ ProcessCrash

LEMMA CallbacksWrite ==
  ASSUME NEW r \in Rooms, TimerCallback(r) PROVE Written
<1>1. ASSUME NEW rm, Update(r, rm) PROVE Written
  BY <1>1 DEF Update, Written
<1>2. ASSUME NEW rm, NEW us, NEW ss, Keep(r, rm, us, ss) \/ CleanupRoom(r, rm, us, ss) PROVE Written
  BY <1>2 DEF CleanupRoom, Keep, Written
<1>3. ASSUME NEW rm, NEW u, NEW us, NEW ss, HandleForfeit(r, rm, u, us, ss) PROVE Written
  BY <1>2, <1>3 DEF HandleForfeit
<1>4. CountdownTick(r) => Written
  BY <1>1 DEF CountdownTick
<1>5. CountdownEnd(r) => Written
  BY <1>1 DEF CountdownEnd
<1>6. PrepareTimeout(r) => Written
  BY <1>2, <1>3 DEF PrepareTimeout
<1>7. RoundTimeout(r) => Written
  BY <1>1 DEF RoundTimeout, Written
<1>8. FinishTimeout(r) => Written
  BY <1>1 DEF FinishTimeout
<1>9. NextRoundTimeout(r) => Written
  BY <1>1 DEF NextRoundTimeout
<1>10. TTLTimeout(r) => Written
  BY <1>2 DEF TTLTimeout
<1>11. ASSUME NEW u \in Users, ForfeitTimeout(r, u) PROVE Written
  BY <1>3, <1>11 DEF ForfeitTimeout
<1> QED
  BY <1>4, <1>5, <1>6, <1>7, <1>8, <1>9, <1>10, <1>11 DEF TimerCallback

LEMMA RoomsAreWritten ==
  ASSUME [Next]_vars PROVE Written
<1>1. ASSUME NEW r, NEW rm, NEW us, NEW ss, Keep(r, rm, us, ss) \/ CleanupRoom(r, rm, us, ss)
      PROVE  Written
  BY <1>1 DEF CleanupRoom, Keep, Written
<1>2. ASSUME NEW r, NEW rm, NEW u, NEW us, NEW ss, HandleForfeit(r, rm, u, us, ss) PROVE Written
  BY <1>1, <1>2 DEF HandleForfeit
<1>3. ASSUME NEW r, NEW rm, Update(r, rm) PROVE Written
  BY <1>3 DEF Update, Written
<1>4. UNCHANGED vars => Written
  BY DEF vars, Written
<1>5. ASSUME NEW s \in Sockets, Connect(s) \/ RoomCreate(s) \/ \E r \in Rooms : RoomJoin(s, r)
      PROVE  Written
  BY <1>5 DEF Connect, RoomCreate, RoomJoin, Written
<1>6. ASSUME NEW s \in Sockets, TryReconnect(s) PROVE Written
  <2>1. \/ UNCHANGED room \/ \E r, rm : Put(r, rm)
        \/ \E r, rm, us, ss : Keep(r, rm, us, ss) \/ CleanupRoom(r, rm, us, ss)
    BY <1>6 DEF TryReconnect
  <2> QED
    BY <1>1, <2>1 DEF Written
<1>7. ASSUME NEW s \in Sockets, Disconnect(s) PROVE Written
  <2>1. \/ UNCHANGED room
        \/ \E r, rm, us, ss : Keep(r, rm, us, ss) \/ CleanupRoom(r, rm, us, ss)
    BY <1>7 DEF Disconnect
  <2> QED
    BY <1>1, <2>1 DEF Written
<1>8. ASSUME NEW c \in lookup,
             RoomJoined(c) \/ ProfileMissing(c) \/ \E r \in Rooms : RoomCreated(c, r)
      PROVE  Written
  BY <1>8 DEF RoomJoined, ProfileMissing, RoomCreated, Written
<1>9. ASSUME NEW s \in Sockets,
             GameReady(s) \/ RoundMicReady(s) \/ GameRematch(s) \/ \E db \in Decibels : RoundSubmit(s, db)
      PROVE  Written
  <2>1. \E r, rm : Update(r, rm)
    BY <1>9 DEF GameReady, RoundMicReady, GameRematch, RoundSubmit
  <2> QED
    BY <1>3, <2>1
<1>10. ASSUME NEW s \in Sockets, RoundMicError(s) PROVE Written
  BY <1>1, <1>2, <1>10 DEF RoundMicError, MicFailure
<1>11. ASSUME NEW r, NEW rm, NEW opp, NEW host, NEW u, NEW q, LeftBehind(r, rm, opp, host, u, q)
       PROVE  Written
  BY <1>1, <1>11 DEF LeftBehind
<1>12. ASSUME NEW s \in Sockets, RoomLeave(s) PROVE Written
  <2>1. \/ \E r, rm, u, us, ss : HandleForfeit(r, rm, u, us, ss) \/ CleanupRoom(r, rm, us, ss)
        \/ \E r, rm, opp, host, u, q : LeftBehind(r, rm, opp, host, u, q)
    BY <1>12 DEF RoomLeave
  <2> QED
    BY <1>1, <1>2, <1>11, <2>1
<1> QED
  BY <1>4, <1>5, <1>6, <1>7, <1>8, <1>9, <1>10, <1>12, CallbacksWrite DEF Next, ClientEvent

(* No timer is counted when the count is zero; it counts, as there are finitely many timers. *)
LEMMA FiniteTimers ==
  ASSUME IsFiniteSet(Users) PROVE IsFiniteSet(Timers)
<1> DEFINE K == {"prepare", "round", "finish", "next", "ttl"}
           tick == [n \in 0..CountdownTicks |-> Tick(n)]
           timer == [k \in K |-> Timer(k)]
           grace == [u \in Users |-> Grace(u)]
<1>1. IsFiniteSet(0..CountdownTicks)
  BY FS_Interval, TicksAssumption
<1>2. IsFiniteSet({Tick(n) : n \in 0..CountdownTicks})
  <2>1. tick \in Surjection(0..CountdownTicks, {Tick(n) : n \in 0..CountdownTicks})
    BY DEF Surjection
  <2> QED
    BY <1>1, <2>1, FS_Surjection
<1>3. IsFiniteSet({Grace(u) : u \in Users})
  <2>1. grace \in Surjection(Users, {Grace(u) : u \in Users})
    BY DEF Surjection
  <2> QED
    BY <2>1, FS_Surjection
<1>4. IsFiniteSet({Timer(k) : k \in K})
  <2>1. IsFiniteSet({"next", "ttl"})
    <3>1. IsFiniteSet({"ttl"} \cup {"next"})
      BY FS_Singleton, FS_AddElement
    <3>2. {"next", "ttl"} = {"ttl"} \cup {"next"}
      OBVIOUS
    <3> QED
      BY <3>1, <3>2
  <2>2. IsFiniteSet({"round", "finish", "next", "ttl"})
    <3>1. IsFiniteSet({"next", "ttl"} \cup {"round"})
      BY <2>1, FS_AddElement
    <3>2. IsFiniteSet(({"next", "ttl"} \cup {"round"}) \cup {"finish"})
      BY <3>1, FS_AddElement
    <3>3. {"round", "finish", "next", "ttl"} = ({"next", "ttl"} \cup {"round"}) \cup {"finish"}
      OBVIOUS
    <3> QED
      BY <3>2, <3>3
  <2>3. IsFiniteSet(K)
    <3>1. K = {"round", "finish", "next", "ttl"} \cup {"prepare"}
      OBVIOUS
    <3> QED
      BY <2>2, <3>1, FS_AddElement
  <2>4. timer \in Surjection(K, {Timer(k) : k \in K})
    BY DEF Surjection
  <2> QED
    BY <2>3, <2>4, FS_Surjection
<1> QED
  BY <1>2, <1>3, <1>4, FS_Union DEF Timers

LEMMA NoneCounted ==
  ASSUME IsFiniteSet(Users), MaxLost = 0, NEW rm \in GameRoomType, WithinBounds(rm)
  PROVE  NothingLost(rm)
<1> DEFINE F == {{t} \X (1..rm.lost[t]) : t \in Timers}
           f == [t \in Timers |-> {t} \X (1..rm.lost[t])]
<1>1. rm.lost \in [Timers -> Nat]
  BY DEF GameRoomType
<1>2. IsFiniteSet(F)
  <2>1. f \in Surjection(Timers, F)
    BY DEF Surjection
  <2> QED
    BY <2>1, FiniteTimers, FS_Surjection
<1>3. \A S \in F : IsFiniteSet(S)
  <2> SUFFICES ASSUME NEW t \in Timers PROVE IsFiniteSet({t} \X (1..rm.lost[t]))
    OBVIOUS
  <2>1. IsFiniteSet({t}) /\ IsFiniteSet(1..rm.lost[t])
    <3>1. rm.lost[t] \in Int /\ 1 \in Int
      BY <1>1
    <3> QED
      BY <3>1, FS_Singleton, FS_Interval
  <2> QED
    BY <2>1, FS_Product
<1>4. IsFiniteSet(UNION F)
  BY <1>2, <1>3, FS_UNION
<1>5. Cardinality(UNION F) = 0
  <2>1. Cardinality(UNION F) \in Nat
    BY <1>4, FS_CardinalityType
  <2> QED
    BY <2>1 DEF WithinBounds, LostTimers
<1>6. UNION F = {}
  BY <1>4, <1>5, FS_EmptySet
<1> SUFFICES ASSUME NEW t \in Timers, rm.lost[t] # 0 PROVE FALSE
  BY <1>1 DEF NothingLost
<1>7. 1 \in 1..rm.lost[t]
  BY <1>1
<1>8. <<t, 1>> \in UNION F
  BY <1>7
<1> QED
  BY <1>6, <1>8

(* and the second one. *)
LEMMA NoTimerLost ==
  ASSUME IsFiniteSet(Users), MaxLost = 0 PROVE Spec => []TimersKeptTrack
<1>1. ASSUME NEW store PROVE NothingLost(EmptyRoom(store))
  BY DEF NothingLost, EmptyRoom
<1>2. Init => TimersKeptTrack
  BY <1>1 DEF Init, TimersKeptTrack
<1>3. TypeOK /\ TypeOK' /\ TimersKeptTrack /\ [Next]_vars => TimersKeptTrack'
  <2> SUFFICES ASSUME TypeOK, TypeOK', TimersKeptTrack, [Next]_vars, NEW r \in Rooms
               PROVE  NothingLost(room'[r])
    BY DEF TimersKeptTrack
  <2>1. room \in [Rooms -> GameRoomType] /\ room'[r] \in GameRoomType /\ NothingLost(room[r])
    BY DEF TypeOK, TimersKeptTrack
  <2>2. CASE room' = room
    BY <2>1, <2>2
  <2>3. ASSUME NEW q, NEW rm, Put(q, rm) PROVE NothingLost(room'[r])
    <3>1. room'[r] = room[r] \/ room'[r] = EmptyRoom("gone") \/ room'[r] = rm
      BY <2>1, <2>3 DEF Put, Collected
    <3>2. WithinBounds(rm)
      BY <2>3 DEF Put
    <3> QED
      BY <1>1, <2>1, <3>1, <3>2, NoneCounted
  <2>4. CASE ProcessCrash
    BY <1>1, <2>4 DEF ProcessCrash
  <2> QED
    BY <2>2, <2>3, <2>4, RoomsAreWritten DEF Written
<1> QED
  BY <1>2, <1>3, TypeCorrect, PTL DEF Spec

(* A player of an open room is registered with that room and so is in no other    *)
(* one.  Both hypotheses are needed: with two lookups in flight the user enters   *)
(* two rooms, and a timer that outlives its room may delete it a second time.     *)
THEOREM UserIndexIsComplete ==
  Spec /\ []OneLookupEach /\ []TimersDieWithRoom => []UserIndexComplete
<1>1. Registered => UserIndexComplete
  BY DEF Registered
<1> QED
  BY <1>1, RegisteredHolds, PTL

(* Of every player who is there, exactly the current socket is registered: a    *)
(* disconnect finds its room, a replaced socket finds none.                      *)
THEOREM SocketIndexIsExact ==
  Spec /\ []OneLookupEach /\ []TimersDieWithRoom => []SocketIndexExact
<1>1. Registered => SocketIndexExact
  BY DEF Registered
<1> QED
  BY <1>1, RegisteredHolds, PTL

(* handleDisconnect's timer never forfeits a player who is back, has left or has *)
(* been removed.                                                                 *)
THEOREM GraceRunsOnlyWhileAway ==
  Spec /\ []OneLookupEach /\ []TimersDieWithRoom => []GraceOnlyWhileAway
<1>1. TypeOK /\ Registered => GraceOnlyWhileAway
  <2> SUFFICES ASSUME TypeOK, Registered, NEW r \in OpenRooms, NEW u \in Users,
                      room[r].handle[u] # NoTimer \/ room[r].lost[Grace(u)] > 0
               PROVE  u \in Members(room[r]) /\ ~room[r].info[u].connected
    BY DEF GraceOnlyWhileAway
  <2>1. Attended(room[r])
    BY DEF Registered, OpenRooms
  <2>2. room[r].lost[Grace(u)] = 0
    BY <2>1 DEF Attended, GraceHeld
  <2> QED
    BY <2>1, <2>2 DEF Attended
<1> QED
  BY <1>1, RegisteredHolds, TypeCorrect, PTL

(* getStats: the players that are there have sockets of their own. *)
LEMMA RegisteredStats ==
  ASSUME IsFiniteSet(Users), TypeOK, Registered PROVE StatsConsistent
<1> DEFINE P == {p \in Rooms \X Users : /\ Open(p[1])
                                       /\ p[2] \in Members(room[p[1]])
                                       /\ room[p[1]].info[p[2]].connected}
           S == {s \in Sockets : sockRoom[s] # NoRoom}
           f == [p \in P |-> room[p[1]].info[p[2]].sock]
<1>1. IsFiniteSet(S)
  <2>1. IsFiniteSet(1..Connections)
    BY ConnectionsAssumption, FS_Interval
  <2>2. IsFiniteSet(Sockets)
    BY <2>1, FS_Product DEF Sockets
  <2> QED
    BY <2>2, FS_Subset
<1>2. ASSUME NEW p \in P
      PROVE  /\ f[p] \in S /\ Owner(f[p]) = p[2] /\ userRoom[p[2]] = p[1]
             /\ p = <<p[1], p[2]>>
  <2>1. /\ p[1] \in Rooms /\ room[p[1]].store = "open" /\ p[1] # NoRoom
        /\ p[2] \in Members(room[p[1]]) /\ room[p[1]].info[p[2]].connected
        /\ p = <<p[1], p[2]>>
    BY DEF Open
  <2>2. f[p] = room[p[1]].info[p[2]].sock
    OBVIOUS
  <2>3. f[p] \in Sockets /\ Owner(f[p]) = p[2]
    BY <2>1, <2>2 DEF Registered, Attended
  <2>4. sockRoom[f[p]] = p[1] /\ userRoom[p[2]] = p[1]
    BY <2>1, <2>2 DEF Registered, SocketIndexExact, UserIndexComplete, OpenRooms
  <2> QED
    BY <2>1, <2>3, <2>4
<1>3. f \in [P -> S]
  BY <1>2
<1> HIDE DEF P, S, f
<1>4. IsInjective(f)
  <2>1. ASSUME NEW p \in P, NEW q \in P, f[p] = f[q] PROVE p = q
    <3>1. p[2] = q[2] /\ p[1] = q[1]
      BY <1>2, <2>1
    <3>2. p = <<p[1], p[2]>> /\ q = <<q[1], q[2]>>
      BY <1>2
    <3> QED
      BY <3>1, <3>2
  <2> QED
    BY <1>3, <2>1 DEF IsInjective
<1>5. Cardinality(P) <= Cardinality(S)
  BY <1>1, <1>3, <1>4, FS_Injection DEF Injection
<1> QED
  BY <1>5 DEF P, S, StatsConsistent, ActivePlayerCount, ConnectedSocketCount

(* The health snapshot counts no more active players than sockets. *)
THEOREM StatsAreConsistent ==
  ASSUME IsFiniteSet(Users)
  PROVE  Spec /\ []OneLookupEach /\ []TimersDieWithRoom => []StatsConsistent
<1>1. TypeOK /\ Registered => StatsConsistent
  BY RegisteredStats
<1> QED
  BY <1>1, RegisteredHolds, TypeCorrect, PTL
=============================================================================
