------------------------------- MODULE ApiServer -------------------------------
(***************************************************************************)
(* The HTTP API's services over one database: AuthService, UserService,    *)
(* SoloRecordService and DiaryService, with the repositories they call.    *)
(*                                                                         *)
(* Nothing runs in a transaction.  A request is a sequence of awaited      *)
(* database or storage calls, each atomic, and any other request may run   *)
(* between two of them; an action is one such call and the code up to the  *)
(* next.  What a request has read is kept in its call record.              *)
(*                                                                         *)
(* Contents no property tells apart are left out: avatar color, consent,   *)
(* the fields of a diary entry, and the signup token (any identity may     *)
(* hold one, obtained by a login before it had an account).                *)
(***************************************************************************)
EXTENDS Integers, FiniteSets

CONSTANTS Calls,      \* requests that can be in progress at one time
          Identities, \* (authProvider, providerId) pairs
          Nicknames,
          Peaks,      \* peakDb values of solo records
          Dates,
          Null,
          MaxUsers,   \* bound: users ever created
          MaxImages   \* bound: images ever uploaded

ASSUME ValuesAssumption == Null \notin Identities \cup Nicknames /\ Peaks \subseteq Nat
ASSUME BoundsAssumption == MaxUsers \in Nat /\ MaxImages \in Nat

VARIABLES user,    \* user[id]: the User row, or NoRow
          solo,    \* solo[id]: the SoloRecord row, or NoRow
          diary,   \* diary[id]: the dates with a DiaryRecord row
          objects, \* the images in the R2 bucket
          users, images, \* ids and image keys given out so far
          issued,  \* the users whose tokens have been answered to a client
          call     \* call[c]: the request in progress, or Idle

vars == <<user, solo, diary, objects, users, images, issued, call>>

-----------------------------------------------------------------------------
Ids  == 1..MaxUsers
Keys == 1..MaxImages \* an image key is a fresh UUID
NoKey == 0
NoRow == [none |-> TRUE]

(* token: whether the column holds a refresh token.  A request that presents     *)
(* another one than the column's is answered 401 and changes nothing, so what    *)
(* matters is whether there is one to present.                                   *)
UserRow == [identity : Identities, nickname : Nicknames, token : BOOLEAN,
            image : Keys \cup {NoKey}]
SoloRow == [best : Peaks] \* peakDb is overwritten every time

Ops == {"signup", "token", "nickname", "image", "deleteMe", "solo"}
Steps == {"create", "write", "answer", "findKey", "deleteObject", "deleteDiary", "deleteSolo", "deleteUser"}
Call == [op : Ops, step : Steps, id : Ids \cup {0}, identity : Identities \cup {Null},
         nickname : Nicknames \cup {Null}, key : Keys \cup {NoKey},
         peak : Nat, seen : SoloRow \cup {NoRow}]
Idle == [op |-> "idle"]
NewCall(op, step, id) ==
  [op |-> op, step |-> step, id |-> id, identity |-> Null, nickname |-> Null,
   key |-> NoKey, peak |-> 0, seen |-> NoRow]
TokenCall(id) == NewCall("token", "write", id)

(* A request has the arguments its operation needs. *)
Argued(req) ==
  /\ req.op \in Ops \ {"signup"} => req.id \in Ids
  /\ req.op = "signup" => req.identity \in Identities
  /\ req.op \in {"signup", "nickname"} => req.nickname \in Nicknames
  /\ req.op = "solo" => req.peak \in Peaks

TypeOK ==
  /\ user \in [Ids -> UserRow \cup {NoRow}]
  /\ solo \in [Ids -> SoloRow \cup {NoRow}]
  /\ diary \in [Ids -> SUBSET Dates]
  /\ objects \subseteq Keys
  /\ users \in 0..MaxUsers /\ images \in 0..MaxImages
  /\ issued \subseteq Ids
  /\ call \in [Calls -> Call \cup {Idle}]
  /\ \A c \in Calls : Argued(call[c])

Init ==
  /\ user = [id \in Ids |-> NoRow]
  /\ solo = [id \in Ids |-> NoRow]
  /\ diary = [id \in Ids |-> {}]
  /\ objects = {} /\ users = 0 /\ images = 0 /\ issued = {}
  /\ call = [c \in Calls |-> Idle]

-----------------------------------------------------------------------------
Exists(id) == user[id] # NoRow
Known == issued \* an access token outlives the account it was made for

(* A request arrives and makes its first read; goes on; or ends, answered or not. *)
Free(c) == call[c] = Idle
Begin(c, req) == Free(c) /\ call' = [call EXCEPT ![c] = req]
At(c, op, step) == call[c].op = op /\ call[c].step = step
Goto(c, req) == call' = [call EXCEPT ![c] = req]
End(c) == call' = [call EXCEPT ![c] = Idle]

(* A database call fails, or the process ends, and the request with it. *)
Abort(c) ==
  /\ ~Free(c)
  /\ End(c)
  /\ UNCHANGED <<user, solo, diary, objects, users, images, issued>>

-----------------------------------------------------------------------------
(* AuthService. *)

(* oauthLogin up to findByProvider, when the identity has an account. *)
OauthLogin(c, i) ==
  \E id \in Ids :
    /\ Exists(id) /\ user[id].identity = i
    /\ Begin(c, TokenCall(id))
    /\ UNCHANGED <<user, solo, diary, objects, users, images, issued>>

(* completeOAuthSignup up to findByProvider, when it has none. *)
OauthSignup(c, i, n) ==
  /\ \A id \in Ids : Exists(id) => user[id].identity # i
  /\ Begin(c, [NewCall("signup", "create", 0) EXCEPT !.identity = i, !.nickname = n])
  /\ UNCHANGED <<user, solo, diary, objects, users, images, issued>>

(* The unique indexes of the User table; a violation is P2002. *)
Unique_NicknameOnly(i, n) == \A id \in Ids : Exists(id) => user[id].nickname # n \* mutated: no index on the identity
Unique(i, n) ==
  \A id \in Ids : Exists(id) => user[id].identity # i /\ user[id].nickname # n

(* createOAuthUser *)
CreateOAuthUser(c) ==
  LET i == call[c].identity
      n == call[c].nickname
      id == users + 1
  IN
  /\ At(c, "signup", "create")
  /\ \/ /\ ~Unique(i, n)
        /\ End(c)
        /\ UNCHANGED <<user, users>>
     \/ /\ Unique(i, n)
        /\ users < MaxUsers
        /\ users' = id
        /\ user' = [user EXCEPT ![id] = [identity |-> i, nickname |-> n, token |-> FALSE,
                                         image |-> NoKey]]
        /\ Goto(c, TokenCall(id))
  /\ UNCHANGED <<solo, diary, objects, images, issued>>

(* refresh up to findUserByUserId: the presented token has to be the column's. *)
Refresh(c, id) ==
  /\ Exists(id) /\ user[id].token
  /\ Begin(c, TokenCall(id))
  /\ UNCHANGED <<user, solo, diary, objects, users, images, issued>>

(* updateRefreshToken: P2025 when the row is gone. *)
Updatable_Any(id) == TRUE \* mutated: updateMany, no error without a row
Updatable(id) == Exists(id)

(* generateTokens, then updateRefreshToken, *)
WriteToken(c) ==
  LET id == call[c].id IN
  /\ At(c, "token", "write")
  /\ \/ ~Updatable(id) /\ End(c) /\ UNCHANGED user
     \/ /\ Updatable(id)
        /\ user' = IF Exists(id) THEN [user EXCEPT ![id].token = TRUE] ELSE user
        /\ Goto(c, [call[c] EXCEPT !.step = "answer"])
  /\ UNCHANGED <<solo, diary, objects, users, images, issued>>

(* and the answer, which looks at the database no more. *)
AnswerTokens(c) ==
  /\ At(c, "token", "answer")
  /\ issued' = issued \cup {call[c].id}
  /\ End(c)
  /\ UNCHANGED <<user, solo, diary, objects, users, images>>

(* logout *)
Logout(id) ==
  /\ Exists(id)
  /\ user' = [user EXCEPT ![id].token = FALSE]
  /\ UNCHANGED <<solo, diary, objects, users, images, issued, call>>

-----------------------------------------------------------------------------
(* UserService. *)

(* updateNickname: existsByNickname, then the update (P2025, P2002). *)
UpdateNickname(c, id, n) ==
  /\ \A other \in Ids : Exists(other) => user[other].nickname # n
  /\ Begin(c, [NewCall("nickname", "write", id) EXCEPT !.nickname = n])
  /\ UNCHANGED <<user, solo, diary, objects, users, images, issued>>
WriteNickname(c) ==
  LET id == call[c].id
      n == call[c].nickname
  IN
  /\ At(c, "nickname", "write")
  /\ End(c)
  /\ user' = IF Exists(id) /\ \A other \in Ids \ {id} : Exists(other) => user[other].nickname # n
             THEN [user EXCEPT ![id].nickname = n] ELSE user
  /\ UNCHANGED <<solo, diary, objects, users, images, issued>>

(* uploadProfileImage: the object first, then its key. *)
UploadProfileImage_KeyFirst(c, id) == \* mutated: the key first
  /\ images < MaxImages
  /\ images' = images + 1
  /\ user' = IF Exists(id) THEN [user EXCEPT ![id].image = images + 1] ELSE user
  /\ Begin(c, [NewCall("image", "write", id) EXCEPT !.key = images + 1])
  /\ UNCHANGED <<solo, diary, objects, users, issued>>
UploadProfileImage(c, id) ==
  /\ images < MaxImages
  /\ images' = images + 1
  /\ objects' = objects \cup {images + 1}
  /\ Begin(c, [NewCall("image", "write", id) EXCEPT !.key = images + 1])
  /\ UNCHANGED <<user, solo, diary, users, issued>>
UpdateProfileImageKey(c) ==
  LET id == call[c].id IN
  /\ At(c, "image", "write")
  /\ End(c)
  /\ user' = IF Exists(id) THEN [user EXCEPT ![id].image = call[c].key] ELSE user
  /\ UNCHANGED <<solo, diary, objects, users, images, issued>>

(* deleteMe: findUserByUserId, *)
DeleteMe(c, id) ==
  /\ Exists(id)
  /\ Begin(c, NewCall("deleteMe", "findKey", id))
  /\ UNCHANGED <<user, solo, diary, objects, users, images, issued>>

(* findProfileImageKey, null without a row, *)
FindProfileImageKey(c) ==
  LET req == call[c]
      key == IF Exists(req.id) THEN user[req.id].image ELSE NoKey
  IN
  /\ At(c, "deleteMe", "findKey")
  /\ Goto(c, [req EXCEPT !.step = IF key = NoKey THEN "deleteDiary" ELSE "deleteObject", !.key = key])
  /\ UNCHANGED <<user, solo, diary, objects, users, images, issued>>

(* deleteObject, whose failure is only logged, *)
DeleteObject(c) ==
  /\ At(c, "deleteMe", "deleteObject")
  /\ objects' \in {objects, objects \ {call[c].key}}
  /\ Goto(c, [call[c] EXCEPT !.step = "deleteDiary"])
  /\ UNCHANGED <<user, solo, diary, users, images, issued>>

(* deleteDiaryRecords, deleteSoloRecord, *)
DeleteDiaryRecords(c) ==
  /\ At(c, "deleteMe", "deleteDiary")
  /\ diary' = [diary EXCEPT ![call[c].id] = {}]
  /\ Goto(c, [call[c] EXCEPT !.step = "deleteSolo"])
  /\ UNCHANGED <<user, solo, objects, users, images, issued>>
DeleteSoloRecord(c) ==
  /\ At(c, "deleteMe", "deleteSolo")
  /\ solo' = [solo EXCEPT ![call[c].id] = NoRow]
  /\ Goto(c, [call[c] EXCEPT !.step = "deleteUser"])
  /\ UNCHANGED <<user, diary, objects, users, images, issued>>

(* The foreign keys of SoloRecord and DiaryRecord are ON DELETE RESTRICT. *)
Unreferenced_DiaryOnly(id) == diary[id] = {} \* mutated: no foreign key on SoloRecord
Unreferenced(id) == solo[id] = NoRow /\ diary[id] = {}

(* deleteUser: P2025 without a row, a foreign key error while records refer to it. *)
DeleteUser(c) ==
  LET id == call[c].id IN
  /\ At(c, "deleteMe", "deleteUser")
  /\ End(c)
  /\ user' = IF Unreferenced(id) THEN [user EXCEPT ![id] = NoRow] ELSE user
  /\ UNCHANGED <<solo, diary, objects, users, images, issued>>

-----------------------------------------------------------------------------
(* SoloRecordRepository. *)

(* upsertSoloRecord: findUnique, *)
CreateSoloRecord(c, id, p) ==
  /\ Begin(c, [NewCall("solo", "write", id) EXCEPT !.peak = p, !.seen = solo[id]])
  /\ UNCHANGED <<user, solo, diary, objects, users, images, issued>>

(* newBestDb *)
NewBest_Last(seen, p) == p \* mutated: no Math.max
NewBest_Zero(seen, p) == IF seen = NoRow THEN 0 ELSE p \* mutated: no record taken for a best of 0
NewBest(seen, p) == IF seen = NoRow THEN p ELSE IF seen.best > p THEN seen.best ELSE p

(* then an upsert, which creates the row if there is none by now; the foreign key *)
(* refuses a row without its user.                                                *)
UpsertSoloRecord(c) ==
  LET req == call[c] IN
  /\ At(c, "solo", "write")
  /\ End(c)
  /\ solo' = IF ~Exists(req.id) THEN solo
             ELSE [solo EXCEPT ![req.id] =
                     [best |-> IF solo[req.id] = NoRow THEN req.peak ELSE NewBest(req.seen, req.peak)]]
  /\ UNCHANGED <<user, diary, objects, users, images, issued>>

-----------------------------------------------------------------------------
(* DiaryRepository.  deleteDiary's read before the delete decides nothing the *)
(* delete does not; updateDiary changes contents only.                        *)
UpsertDiary(id, d) ==
  /\ Exists(id)
  /\ diary' = [diary EXCEPT ![id] = @ \cup {d}]
  /\ UNCHANGED <<user, solo, objects, users, images, issued, call>>
DeleteDiary(id, d) ==
  /\ d \in diary[id]
  /\ diary' = [diary EXCEPT ![id] = @ \ {d}]
  /\ UNCHANGED <<user, solo, objects, users, images, issued, call>>

-----------------------------------------------------------------------------
AuthStep(c) ==
  \/ \E i \in Identities : OauthLogin(c, i) \/ \E n \in Nicknames : OauthSignup(c, i, n)
  \/ CreateOAuthUser(c) \/ (\E id \in Known : Refresh(c, id))
  \/ WriteToken(c) \/ AnswerTokens(c)

UserStep(c) ==
  \/ \E id \in Known : \/ UploadProfileImage(c, id) \/ DeleteMe(c, id)
                       \/ \E n \in Nicknames : UpdateNickname(c, id, n)
  \/ WriteNickname(c) \/ UpdateProfileImageKey(c)
  \/ FindProfileImageKey(c) \/ DeleteObject(c) \/ DeleteDiaryRecords(c) \/ DeleteSoloRecord(c)
  \/ DeleteUser(c)

RecordStep(c) ==
  (\E id \in Known, p \in Peaks : CreateSoloRecord(c, id, p)) \/ UpsertSoloRecord(c)

Next ==
  \/ \E c \in Calls : AuthStep(c) \/ UserStep(c) \/ RecordStep(c) \/ Abort(c)
  \/ \E id \in Known : Logout(id) \/ \E d \in Dates : UpsertDiary(id, d) \/ DeleteDiary(id, d)

Spec == Init /\ [][Next]_vars
=============================================================================
