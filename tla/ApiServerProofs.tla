---------------------------- MODULE ApiServerProofs ----------------------------
(***************************************************************************)
(* The properties of ApiServerProps, for any number of requests, users and *)
(* images: first types and the database's constraints, then what no single *)
(* request's calls may do to an answer, a best score or an image, and last *)
(* that it implements Accounts.                                            *)
(***************************************************************************)
EXTENDS ApiServerProps, TLAPS

Requests == Call \cup {Idle}

(* Going to a request of the right type keeps the requests well typed. *)
LEMMA CallUpdate ==
  ASSUME TypeOK, NEW c \in Calls, NEW req \in Requests, Argued(req),
         call' = [call EXCEPT ![c] = req]
  PROVE  /\ call' \in [Calls -> Requests]
         /\ \A d \in Calls : Argued(call'[d])
PROOF
<1>1. call \in [Calls -> Requests] /\ \A d \in Calls : Argued(call[d])
  BY DEF TypeOK, Requests
<1>2. call' \in [Calls -> Requests]
  BY <1>1
<1>3. ASSUME NEW d \in Calls
      PROVE  Argued(call'[d])
  <2>1. CASE d = c
    BY <1>1, <2>1
  <2>2. CASE d # c
    <3>1. call'[d] = call[d]
      BY <1>1, <2>2
    <3> QED
      BY <1>1, <3>1
  <2> QED
    BY <2>1, <2>2
<1> QED
  BY <1>2, <1>3

(* Ending one does, too. *)
LEMMA EndUpdate ==
  ASSUME TypeOK, NEW c \in Calls, End(c)
  PROVE  /\ call' \in [Calls -> Requests]
         /\ \A d \in Calls : Argued(call'[d])
PROOF
<1>1. Idle \in Requests /\ Argued(Idle)
  BY DEF Requests, Idle, Argued, Ops
<1> QED
  BY <1>1, CallUpdate DEF End

(* A new request of an operation without arguments is well typed. *)
LEMMA NewCallType ==
  ASSUME NEW op \in Ops, NEW step \in Steps, NEW id \in Ids \cup {0}
  PROVE  /\ NewCall(op, step, id) \in Call
         /\ op \in {"token", "image", "deleteMe"} /\ id \in Ids => Argued(NewCall(op, step, id))
PROOF
<1>1. NewCall(op, step, id) \in Call
  BY DEF NewCall, Call, NoKey
<1>2. NewCall(op, step, id).op = op /\ NewCall(op, step, id).id = id
  BY DEF NewCall
<1> QED
  BY <1>1, <1>2 DEF Argued

(* What a request in progress has been given. *)
LEMMA InProgress ==
  ASSUME TypeOK, NEW c \in Calls, call[c].op \in Ops
  PROVE  call[c] \in Call /\ Argued(call[c])
PROOF
<1>1. call[c] \in Requests
  BY DEF TypeOK, Requests
<1>2. call[c] # Idle
  BY DEF Idle, Ops
<1> QED
  BY <1>1, <1>2 DEF Requests, TypeOK

(* No row looks like the absence of one. *)
LEMMA RowIsSome == ASSUME NEW row \in UserRow PROVE row # NoRow
PROOF
<1>1. DOMAIN row = {"identity", "nickname", "token", "image"}
  BY DEF UserRow
<1>2. DOMAIN NoRow = {"none"}
  BY DEF NoRow
<1> QED
  BY <1>1, <1>2

(* Changing a column of a user leaves a user. *)
LEMMA ColumnUpdate ==
  ASSUME TypeOK, NEW id, Exists(id) \/ id \notin Ids,
         \/ \E b \in BOOLEAN : user' = [user EXCEPT ![id].token = b]
         \/ \E n \in Nicknames : user' = [user EXCEPT ![id].nickname = n]
         \/ \E k \in Keys \cup {NoKey} : user' = [user EXCEPT ![id].image = k]
  PROVE  /\ user' \in [Ids -> UserRow \cup {NoRow}]
         /\ \A i \in Ids : Exists(i)' <=> Exists(i)
         /\ \A i \in Ids : Exists(i) => user'[i].identity = user[i].identity
PROOF
<1>1. user \in [Ids -> UserRow \cup {NoRow}]
  BY DEF TypeOK
<1>2. CASE id \notin Ids
  <2>1. user' = user
    BY <1>1, <1>2
  <2> QED
    BY <1>1, <2>1 DEF Exists
<1>3. CASE id \in Ids
  <2>1. user[id] \in UserRow
    BY <1>1, <1>3 DEF Exists
  <2>2. DOMAIN user' = Ids /\ \A i \in Ids \ {id} : user'[i] = user[i]
    BY <1>1
  <2>3. user'[id] \in UserRow /\ user'[id].identity = user[id].identity
    BY <1>1, <1>3, <2>1 DEF UserRow
  <2>4. user' \in [Ids -> UserRow \cup {NoRow}]
    <3>1. user' = [i \in Ids |-> user'[i]]
      BY <1>1
    <3>2. \A i \in Ids : user'[i] \in UserRow \cup {NoRow}
      BY <1>1, <2>2, <2>3
    <3> QED
      BY <3>1, <3>2
  <2>5. Exists(id) /\ Exists(id)'
    BY <1>3, <2>1, <2>3, RowIsSome DEF Exists
  <2> QED
    BY <2>2, <2>3, <2>4, <2>5 DEF Exists
<1> QED
  BY <1>2, <1>3

-----------------------------------------------------------------------------
(* Every step keeps TypeOK. *)

(* The first steps that only read. *)
LEMMA BeginType ==
  ASSUME TypeOK, NEW c \in Calls,
         \/ \E i \in Identities : OauthLogin(c, i)
         \/ \E i \in Identities, n \in Nicknames : OauthSignup(c, i, n)
         \/ \E id \in Known : Refresh(c, id)
         \/ \E id \in Known, n \in Nicknames : UpdateNickname(c, id, n)
         \/ \E id \in Known : DeleteMe(c, id)
         \/ \E id \in Known, p \in Peaks : CreateSoloRecord(c, id, p)
  PROVE  TypeOK'
PROOF
<1>1. Known \subseteq Ids
  BY DEF TypeOK, Known
<1>2. UNCHANGED <<user, solo, diary, objects, users, images, issued>>
  BY DEF OauthLogin, OauthSignup, Refresh, UpdateNickname, DeleteMe, CreateSoloRecord
<1>3. PICK req \in Call : Argued(req) /\ call' = [call EXCEPT ![c] = req]
  <2>1. ASSUME NEW i \in Identities, OauthLogin(c, i)
        PROVE  \E req \in Call : Argued(req) /\ call' = [call EXCEPT ![c] = req]
    <3>1. PICK id \in Ids : call' = [call EXCEPT ![c] = NewCall("token", "write", id)]
      BY <2>1 DEF OauthLogin, Begin, TokenCall
    <3> QED
      BY <3>1, NewCallType DEF Ops, Steps
  <2>2. ASSUME NEW i \in Identities, NEW n \in Nicknames, OauthSignup(c, i, n)
        PROVE  \E req \in Call : Argued(req) /\ call' = [call EXCEPT ![c] = req]
    <3> DEFINE new == NewCall("signup", "create", 0)
               req == [new EXCEPT !.identity = i, !.nickname = n]
    <3>1. new \in Call /\ new.op = "signup"
      BY NewCallType DEF Ops, Steps, NewCall
    <3>2. req \in Call /\ Argued(req)
      BY <3>1 DEF Call, Argued, Ops
    <3>3. call' = [call EXCEPT ![c] = req]
      BY <2>2 DEF OauthSignup, Begin
    <3> QED
      BY <3>2, <3>3
  <2>3. ASSUME NEW id \in Known, Refresh(c, id)
        PROVE  \E req \in Call : Argued(req) /\ call' = [call EXCEPT ![c] = req]
    <3>1. call' = [call EXCEPT ![c] = NewCall("token", "write", id)]
      BY <2>3 DEF Refresh, Begin, TokenCall
    <3> QED
      BY <1>1, <3>1, NewCallType DEF Ops, Steps
  <2>4. ASSUME NEW id \in Known, NEW n \in Nicknames, UpdateNickname(c, id, n)
        PROVE  \E req \in Call : Argued(req) /\ call' = [call EXCEPT ![c] = req]
    <3> DEFINE new == NewCall("nickname", "write", id)
               req == [new EXCEPT !.nickname = n]
    <3>1. new \in Call /\ new.op = "nickname" /\ new.id \in Ids
      BY <1>1, NewCallType DEF Ops, Steps, NewCall
    <3>2. req \in Call /\ Argued(req)
      BY <3>1 DEF Call, Argued, Ops
    <3>3. call' = [call EXCEPT ![c] = req]
      BY <2>4 DEF UpdateNickname, Begin
    <3> QED
      BY <3>2, <3>3
  <2>5. ASSUME NEW id \in Known, DeleteMe(c, id)
        PROVE  \E req \in Call : Argued(req) /\ call' = [call EXCEPT ![c] = req]
    <3>1. call' = [call EXCEPT ![c] = NewCall("deleteMe", "findKey", id)]
      BY <2>5 DEF DeleteMe, Begin
    <3> QED
      BY <1>1, <3>1, NewCallType DEF Ops, Steps
  <2>6. ASSUME NEW id \in Known, NEW p \in Peaks, CreateSoloRecord(c, id, p)
        PROVE  \E req \in Call : Argued(req) /\ call' = [call EXCEPT ![c] = req]
    <3> DEFINE new == NewCall("solo", "write", id)
               req == [new EXCEPT !.peak = p, !.seen = solo[id]]
    <3>1. new \in Call /\ new.op = "solo" /\ new.id \in Ids
      BY <1>1, NewCallType DEF Ops, Steps, NewCall
    <3>2. solo[id] \in SoloRow \cup {NoRow} /\ p \in Nat
      BY <1>1, ValuesAssumption DEF TypeOK
    <3>3. req \in Call /\ Argued(req)
      BY <3>1, <3>2 DEF Call, Argued, Ops
    <3>4. call' = [call EXCEPT ![c] = req]
      BY <2>6 DEF CreateSoloRecord, Begin
    <3> QED
      BY <3>3, <3>4
  <2> QED
    BY <2>1, <2>2, <2>3, <2>4, <2>5, <2>6
<1>4. req \in Requests
  BY DEF Requests
<1> QED
  BY <1>2, <1>3, <1>4, CallUpdate DEF TypeOK, Requests

(* createOAuthUser keeps TypeOK. *)
LEMMA CreateOAuthUserType == ASSUME TypeOK, NEW c \in Calls, CreateOAuthUser(c) PROVE TypeOK'
PROOF
<1> DEFINE i == call[c].identity
           n == call[c].nickname
           id == users + 1
           row == [identity |-> i, nickname |-> n, token |-> FALSE, image |-> NoKey]
<1>1. UNCHANGED <<solo, diary, objects, images, issued>>
  BY DEF CreateOAuthUser
<1>2. CASE End(c) /\ UNCHANGED <<user, users>>
  BY <1>1, <1>2, EndUpdate DEF TypeOK, Requests
<1>3. CASE /\ users < MaxUsers
           /\ users' = id
           /\ user' = [user EXCEPT ![id] = row]
           /\ Goto(c, TokenCall(id))
  <2>1. id \in Ids /\ users' \in 0..MaxUsers
    BY <1>3, BoundsAssumption DEF TypeOK, Ids
  <2>2. i \in Identities /\ n \in Nicknames
    BY InProgress DEF CreateOAuthUser, At, Ops, Argued
  <2>3. row \in UserRow
    BY <2>2 DEF UserRow
  <2>4. user' \in [Ids -> UserRow \cup {NoRow}]
    BY <1>3, <2>3 DEF TypeOK
  <2>5. TokenCall(id) \in Requests /\ Argued(TokenCall(id))
    BY <2>1, NewCallType DEF TokenCall, Ops, Steps, Requests
  <2> QED
    BY <1>1, <1>3, <2>1, <2>4, <2>5, CallUpdate DEF Goto, TypeOK, Requests
<1> QED
  BY <1>2, <1>3 DEF CreateOAuthUser

(* A token request goes from its write to its answer with the same account. *)
LEMMA TokenAnswerType ==
  ASSUME TypeOK, NEW c \in Calls, WriteToken(c)
  PROVE  LET req == [call[c] EXCEPT !.step = "answer"] IN
           /\ req \in Requests /\ Argued(req)
           /\ req.op = "token" /\ req.id = call[c].id
PROOF
<1>1. call[c] \in Call /\ Argued(call[c]) /\ call[c].op = "token"
  BY InProgress DEF WriteToken, At, Ops
<1> QED
  BY <1>1 DEF Requests, Call, Steps, Argued, Ops

(* and is answered for it. *)
LEMMA AnswerTokensType == ASSUME TypeOK, NEW c \in Calls, AnswerTokens(c) PROVE TypeOK'
PROOF
<1>1. call[c].id \in Ids
  BY InProgress DEF AnswerTokens, At, Ops, Argued
<1> QED
  BY <1>1, EndUpdate DEF AnswerTokens, TypeOK, Requests

(* The writes to a column of a user. *)
LEMMA ColumnWrite ==
  ASSUME TypeOK, NEW c \in Calls,
         WriteToken(c) \/ WriteNickname(c) \/ UpdateProfileImageKey(c)
  PROVE  /\ TypeOK'
         /\ UNCHANGED <<solo, diary>>
         /\ \A id \in Ids : Exists(id)' <=> Exists(id)
         /\ \A id \in Ids : Exists(id) => user'[id].identity = user[id].identity
PROOF
<1>1. CASE WriteToken(c)
  <2> DEFINE id == call[c].id
             req == [call[c] EXCEPT !.step = "answer"]
  <2>1. UNCHANGED <<solo, diary, objects, users, images, issued>>
    BY <1>1 DEF WriteToken
  <2>2. CASE End(c) /\ UNCHANGED user
    BY <2>1, <2>2, EndUpdate DEF TypeOK, Requests, Exists
  <2>3. CASE ~(End(c) /\ UNCHANGED user)
    <3>1. Exists(id) /\ user' = [user EXCEPT ![id].token = TRUE] /\ call' = [call EXCEPT ![c] = req]
      BY <1>1, <2>3 DEF WriteToken, Updatable, Goto
    <3>2. req \in Requests /\ Argued(req)
      BY <1>1, TokenAnswerType
    <3>3. /\ user' \in [Ids -> UserRow \cup {NoRow}]
          /\ \A i \in Ids : Exists(i)' <=> Exists(i)
          /\ \A i \in Ids : Exists(i) => user'[i].identity = user[i].identity
      BY <3>1, ColumnUpdate
    <3> HIDE DEF req
    <3> QED
      BY <2>1, <3>1, <3>2, <3>3, CallUpdate DEF TypeOK, Requests
  <2> QED
    BY <2>2, <2>3
<1>2. CASE WriteNickname(c)
  <2> DEFINE id == call[c].id
             n == call[c].nickname
  <2>1. n \in Nicknames
    BY <1>2, InProgress DEF WriteNickname, At, Ops, Argued
  <2>2. /\ user' \in [Ids -> UserRow \cup {NoRow}]
        /\ \A i \in Ids : Exists(i)' <=> Exists(i)
        /\ \A i \in Ids : Exists(i) => user'[i].identity = user[i].identity
    <3>1. CASE user' = user
      BY <3>1 DEF TypeOK, Exists
    <3>2. CASE user' # user
      <4>1. Exists(id) /\ user' = [user EXCEPT ![id].nickname = n]
        BY <1>2, <3>2 DEF WriteNickname
      <4> QED
        BY <2>1, <4>1, ColumnUpdate
    <3> QED
      BY <3>1, <3>2
  <2> QED
    BY <1>2, <2>2, EndUpdate DEF WriteNickname, TypeOK, Requests
<1>3. CASE UpdateProfileImageKey(c)
  <2> DEFINE id == call[c].id
             key == call[c].key
  <2>1. key \in Keys \cup {NoKey}
    BY <1>3, InProgress DEF UpdateProfileImageKey, At, Ops, Call
  <2>2. /\ user' \in [Ids -> UserRow \cup {NoRow}]
        /\ \A i \in Ids : Exists(i)' <=> Exists(i)
        /\ \A i \in Ids : Exists(i) => user'[i].identity = user[i].identity
    <3>1. CASE user' = user
      BY <3>1 DEF TypeOK, Exists
    <3>2. CASE user' # user
      <4>1. Exists(id) /\ user' = [user EXCEPT ![id].image = key]
        BY <1>3, <3>2 DEF UpdateProfileImageKey
      <4> QED
        BY <2>1, <4>1, ColumnUpdate
    <3> QED
      BY <3>1, <3>2
  <2> QED
    BY <1>3, <2>2, EndUpdate DEF UpdateProfileImageKey, TypeOK, Requests
<1> QED
  BY <1>1, <1>2, <1>3

(* logout, a request of one call. *)
LEMMA LogoutWrite ==
  ASSUME TypeOK, NEW id \in Known, Logout(id)
  PROVE  /\ TypeOK'
         /\ UNCHANGED <<solo, diary>>
         /\ \A i \in Ids : Exists(i)' <=> Exists(i)
         /\ \A i \in Ids : Exists(i) => user'[i].identity = user[i].identity
PROOF
<1>1. Exists(id) /\ user' = [user EXCEPT ![id].token = FALSE]
  BY DEF Logout
<1>2. /\ user' \in [Ids -> UserRow \cup {NoRow}]
      /\ \A i \in Ids : Exists(i)' <=> Exists(i)
      /\ \A i \in Ids : Exists(i) => user'[i].identity = user[i].identity
  BY <1>1, ColumnUpdate
<1> QED
  BY <1>2 DEF Logout, TypeOK

(* uploadProfileImage keeps TypeOK. *)
LEMMA UploadProfileImageType ==
  ASSUME TypeOK, NEW c \in Calls, NEW id \in Known, UploadProfileImage(c, id)
  PROVE  TypeOK'
PROOF
<1> DEFINE new == NewCall("image", "write", id)
           req == [new EXCEPT !.key = images + 1]
<1>1. images + 1 \in Keys /\ images' \in 0..MaxImages
  BY BoundsAssumption DEF UploadProfileImage, TypeOK, Keys
<1>2. new \in Call /\ new.op = "image" /\ new.id \in Ids
  BY NewCallType DEF TypeOK, Known, Ops, Steps, NewCall
<1>3. req \in Requests /\ Argued(req)
  BY <1>1, <1>2 DEF Call, Requests, Argued, Ops
<1>4. call' = [call EXCEPT ![c] = req]
  BY DEF UploadProfileImage, Begin
<1> QED
  BY <1>1, <1>3, <1>4, CallUpdate DEF UploadProfileImage, TypeOK, Requests

(* The steps of deleteMe after the first. *)
LEMMA DeletionType ==
  ASSUME TypeOK, NEW c \in Calls,
         \/ FindProfileImageKey(c) \/ DeleteObject(c) \/ DeleteDiaryRecords(c)
         \/ DeleteSoloRecord(c) \/ DeleteUser(c)
  PROVE  TypeOK'
PROOF
<1> DEFINE req == call[c]
           id == req.id
<1>1. req \in Call /\ req.op = "deleteMe" /\ Argued(req) /\ id \in Ids
  BY InProgress DEF FindProfileImageKey, DeleteObject, DeleteDiaryRecords, DeleteSoloRecord,
     DeleteUser, At, Ops, Argued
<1>2. ASSUME NEW step \in Steps, NEW key \in Keys \cup {NoKey}
      PROVE  LET next == [req EXCEPT !.step = step, !.key = key] IN next \in Requests /\ Argued(next)
  BY <1>1 DEF Call, Requests, Argued, Ops
<1>3. ASSUME NEW step \in Steps
      PROVE  LET next == [req EXCEPT !.step = step] IN next \in Requests /\ Argued(next)
  BY <1>1 DEF Call, Requests, Argued, Ops
<1>4. CASE FindProfileImageKey(c)
  <2> DEFINE key == IF Exists(id) THEN user[id].image ELSE NoKey
             step == IF key = NoKey THEN "deleteDiary" ELSE "deleteObject"
  <2>1. key \in Keys \cup {NoKey}
    BY <1>1 DEF TypeOK, Exists, UserRow
  <2>2. step \in Steps
    BY DEF Steps
  <2>3. call' = [call EXCEPT ![c] = [req EXCEPT !.step = step, !.key = key]]
    BY <1>4 DEF FindProfileImageKey, Goto
  <2>4. call' \in [Calls -> Requests] /\ \A d \in Calls : Argued(call'[d])
    BY <1>2, <2>1, <2>2, <2>3, CallUpdate
  <2> QED
    BY <1>4, <2>4 DEF FindProfileImageKey, TypeOK, Requests
<1>5. CASE DeleteObject(c)
  <2>1. call' \in [Calls -> Requests] /\ \A d \in Calls : Argued(call'[d])
    BY <1>3, <1>5, CallUpdate DEF DeleteObject, Goto, Steps
  <2> QED
    BY <1>5, <2>1 DEF DeleteObject, TypeOK, Requests
<1>6. CASE DeleteDiaryRecords(c)
  <2>1. call' \in [Calls -> Requests] /\ \A d \in Calls : Argued(call'[d])
    BY <1>3, <1>6, CallUpdate DEF DeleteDiaryRecords, Goto, Steps
  <2> QED
    BY <1>6, <2>1 DEF DeleteDiaryRecords, TypeOK, Requests
<1>7. CASE DeleteSoloRecord(c)
  <2>1. call' \in [Calls -> Requests] /\ \A d \in Calls : Argued(call'[d])
    BY <1>3, <1>7, CallUpdate DEF DeleteSoloRecord, Goto, Steps
  <2> QED
    BY <1>7, <2>1 DEF DeleteSoloRecord, TypeOK, Requests
<1>8. CASE DeleteUser(c)
  BY <1>8, EndUpdate DEF DeleteUser, TypeOK, Requests
<1> QED
  BY <1>4, <1>5, <1>6, <1>7, <1>8

(* The upsert of a solo record keeps TypeOK. *)
LEMMA UpsertSoloRecordType == ASSUME TypeOK, NEW c \in Calls, UpsertSoloRecord(c) PROVE TypeOK'
PROOF
<1> DEFINE req == call[c]
           best == IF solo[req.id] = NoRow THEN req.peak ELSE NewBest(req.seen, req.peak)
<1>1. req \in Call /\ req.peak \in Peaks
  BY InProgress DEF UpsertSoloRecord, At, Ops, Argued
<1>2. best \in Peaks
  BY <1>1 DEF NewBest, Call, SoloRow
<1>3. solo' \in [Ids -> SoloRow \cup {NoRow}]
  BY <1>2 DEF UpsertSoloRecord, TypeOK, SoloRow
<1> QED
  BY <1>3, EndUpdate DEF UpsertSoloRecord, TypeOK, Requests

(* Together: TypeOK is inductive. *)
LEMMA StepType == TypeOK /\ [Next]_vars => TypeOK'
PROOF
<1> SUFFICES ASSUME TypeOK, [Next]_vars PROVE TypeOK'
  OBVIOUS
<1>1. ASSUME NEW c \in Calls, AuthStep(c) PROVE TypeOK'
  BY <1>1, BeginType, CreateOAuthUserType, ColumnWrite, AnswerTokensType DEF AuthStep
<1>2. ASSUME NEW c \in Calls, UserStep(c) PROVE TypeOK'
  BY <1>2, BeginType, UploadProfileImageType, ColumnWrite, DeletionType DEF UserStep
<1>3. ASSUME NEW c \in Calls, RecordStep(c) PROVE TypeOK'
  BY <1>3, BeginType, UpsertSoloRecordType DEF RecordStep
<1>4. ASSUME NEW c \in Calls, Abort(c) PROVE TypeOK'
  BY <1>4, EndUpdate DEF Abort, TypeOK, Requests
<1>5. ASSUME NEW id \in Known, Logout(id) PROVE TypeOK'
  BY <1>5, LogoutWrite
<1>6. ASSUME NEW id \in Known, NEW d \in Dates, UpsertDiary(id, d) \/ DeleteDiary(id, d) PROVE TypeOK'
  BY <1>6 DEF UpsertDiary, DeleteDiary, TypeOK
<1>7. CASE UNCHANGED vars
  BY <1>7 DEF TypeOK, vars, Argued
<1> QED
  BY <1>1, <1>2, <1>3, <1>4, <1>5, <1>6, <1>7 DEF Next

(* A deleted account leaves no records: a new row of one needs the user, and  *)
(* the user goes only when nothing refers to it.                              *)
LEMMA StepRecords ==
  TypeOK /\ DeletedAccountHasNoRecords /\ [Next]_vars => DeletedAccountHasNoRecords'
PROOF
<1> SUFFICES ASSUME TypeOK, DeletedAccountHasNoRecords, [Next]_vars
             PROVE  DeletedAccountHasNoRecords'
  OBVIOUS
<1>0. user \in [Ids -> UserRow \cup {NoRow}] /\ solo \in [Ids -> SoloRow \cup {NoRow}]
      /\ diary \in [Ids -> SUBSET Dates]
  BY DEF TypeOK
<1>1. ASSUME UNCHANGED <<solo, diary>>, \A id \in Ids : Exists(id) => Exists(id)'
      PROVE  DeletedAccountHasNoRecords'
  BY <1>1 DEF DeletedAccountHasNoRecords
<1>2. ASSUME UNCHANGED <<user, solo, diary>> PROVE DeletedAccountHasNoRecords'
  BY <1>1, <1>2 DEF Exists
<1>3. ASSUME NEW c \in Calls, AuthStep(c) PROVE DeletedAccountHasNoRecords'
  <2>1. CASE CreateOAuthUser(c)
    <3>1. CASE user' = user
      BY <1>2, <2>1, <3>1 DEF CreateOAuthUser
    <3>2. CASE user' # user
      <4> DEFINE row == [identity |-> call[c].identity, nickname |-> call[c].nickname,
                         token |-> FALSE, image |-> NoKey]
      <4>1. UNCHANGED <<solo, diary>> /\ user' = [user EXCEPT ![users + 1] = row]
        BY <2>1, <3>2 DEF CreateOAuthUser
      <4>2. call[c].identity \in Identities /\ call[c].nickname \in Nicknames
        BY <2>1, InProgress DEF CreateOAuthUser, At, Ops, Argued
      <4>3. row # NoRow
        BY <4>2, RowIsSome DEF UserRow
      <4> QED
        BY <1>0, <1>1, <4>1, <4>3 DEF Exists
    <3> QED
      BY <3>1, <3>2
  <2>2. CASE WriteToken(c)
    BY <1>1, <2>2, ColumnWrite
  <2>3. CASE ~CreateOAuthUser(c) /\ ~WriteToken(c)
    BY <1>2, <1>3, <2>3 DEF AuthStep, OauthLogin, OauthSignup, Refresh, AnswerTokens
  <2> QED
    BY <2>1, <2>2, <2>3
<1>4. ASSUME NEW c \in Calls, UserStep(c) PROVE DeletedAccountHasNoRecords'
  <2>1. CASE WriteNickname(c) \/ UpdateProfileImageKey(c)
    BY <1>1, <2>1, ColumnWrite
  <2>2. CASE DeleteDiaryRecords(c) \/ DeleteSoloRecord(c)
    BY <1>0, <2>2 DEF DeleteDiaryRecords, DeleteSoloRecord, DeletedAccountHasNoRecords, Exists
  <2>3. CASE DeleteUser(c)
    BY <1>0, <2>3 DEF DeleteUser, Unreferenced, DeletedAccountHasNoRecords, Exists
  <2>4. CASE (\E id \in Known : UploadProfileImage(c, id) \/ DeleteMe(c, id)
                 \/ \E n \in Nicknames : UpdateNickname(c, id, n))
             \/ FindProfileImageKey(c) \/ DeleteObject(c)
    BY <1>2, <2>4 DEF UploadProfileImage, DeleteMe, UpdateNickname, FindProfileImageKey, DeleteObject
  <2> QED
    BY <1>4, <2>1, <2>2, <2>3, <2>4 DEF UserStep
<1>5. ASSUME NEW c \in Calls, RecordStep(c) PROVE DeletedAccountHasNoRecords'
  <2>1. CASE UpsertSoloRecord(c)
    BY <1>0, <2>1 DEF UpsertSoloRecord, DeletedAccountHasNoRecords, Exists
  <2>2. CASE ~UpsertSoloRecord(c)
    BY <1>2, <1>5, <2>2 DEF RecordStep, CreateSoloRecord
  <2> QED
    BY <2>1, <2>2
<1>6. ASSUME NEW c \in Calls, Abort(c) PROVE DeletedAccountHasNoRecords'
  BY <1>2, <1>6 DEF Abort
<1>7. ASSUME NEW id \in Known, Logout(id) PROVE DeletedAccountHasNoRecords'
  BY <1>1, <1>7, LogoutWrite
<1>8. ASSUME NEW id \in Known, NEW d \in Dates, UpsertDiary(id, d) \/ DeleteDiary(id, d)
      PROVE  DeletedAccountHasNoRecords'
  BY <1>0, <1>8 DEF UpsertDiary, DeleteDiary, DeletedAccountHasNoRecords, Exists
<1>9. CASE UNCHANGED vars
  BY <1>2, <1>9 DEF vars
<1> QED
  BY <1>3, <1>4, <1>5, <1>6, <1>7, <1>8, <1>9 DEF Next

-----------------------------------------------------------------------------
(* Two accounts are told apart by identity and nickname: the database decides  *)
(* when a row is written, whatever the request has read before.                *)

Apart(a, b) == user[a].identity # user[b].identity /\ user[a].nickname # user[b].nickname

(* Users whose rows stand, or go, stay apart. *)
LEMMA StillApart ==
  ASSUME OneAccountEach,
         \A id \in Ids : Exists(id)' => /\ Exists(id)
                                       /\ user'[id].identity = user[id].identity
                                       /\ user'[id].nickname = user[id].nickname
  PROVE  OneAccountEach'
BY DEF OneAccountEach

(* The token and the image say nothing of the nickname. *)
LEMMA NicknameStands ==
  ASSUME TypeOK, NEW id, Exists(id) \/ id \notin Ids,
         \/ \E b \in BOOLEAN : user' = [user EXCEPT ![id].token = b]
         \/ \E k \in Keys \cup {NoKey} : user' = [user EXCEPT ![id].image = k]
  PROVE  \A i \in Ids : Exists(i) => user'[i].nickname = user[i].nickname
PROOF
<1>1. user \in [Ids -> UserRow \cup {NoRow}]
  BY DEF TypeOK
<1>2. CASE id \notin Ids
  BY <1>1, <1>2
<1>3. CASE id \in Ids
  <2>1. user[id] \in UserRow
    BY <1>1, <1>3 DEF Exists
  <2> QED
    BY <1>1, <1>3, <2>1 DEF UserRow
<1> QED
  BY <1>2, <1>3

(* The writes of a token or an image key. *)
LEMMA OtherColumnsStand ==
  ASSUME TypeOK, NEW c \in Calls,
         WriteToken(c) \/ UpdateProfileImageKey(c)
  PROVE  \A i \in Ids : Exists(i) => user'[i].nickname = user[i].nickname
PROOF
<1> DEFINE id == call[c].id
           key == call[c].key
<1>1. CASE user' = user
  BY <1>1
<1>2. CASE user' # user
  <2>1. CASE WriteToken(c)
    <3>1. Exists(id) /\ user' = [user EXCEPT ![id].token = TRUE]
      BY <1>2, <2>1 DEF WriteToken, Updatable
    <3> QED
      BY <3>1, NicknameStands
  <2>2. CASE UpdateProfileImageKey(c)
    <3>1. Exists(id) /\ user' = [user EXCEPT ![id].image = key]
      BY <1>2, <2>2 DEF UpdateProfileImageKey
    <3>2. key \in Keys \cup {NoKey}
      BY <2>2, InProgress DEF UpdateProfileImageKey, At, Ops, Call
    <3> QED
      BY <3>1, <3>2, NicknameStands
  <2> QED
    BY <2>1, <2>2
<1> QED
  BY <1>1, <1>2

LEMMA OtherColumns ==
  ASSUME TypeOK, OneAccountEach, NEW c \in Calls,
         WriteToken(c) \/ UpdateProfileImageKey(c)
  PROVE  OneAccountEach'
BY OtherColumnsStand, ColumnWrite, StillApart

(* updateNickname: P2002 refuses the name of another user. *)
LEMMA WriteNicknameApart ==
  ASSUME TypeOK, OneAccountEach, NEW c \in Calls, WriteNickname(c)
  PROVE  OneAccountEach'
PROOF
<1> DEFINE id == call[c].id
           n == call[c].nickname
<1>1. CASE user' = user
  BY <1>1 DEF OneAccountEach, Exists
<1>2. CASE user' # user
  <2>1. /\ \A other \in Ids \ {id} : Exists(other) => user[other].nickname # n
        /\ user' = [user EXCEPT ![id].nickname = n]
        /\ Exists(id)
    BY <1>2 DEF WriteNickname
  <2>2. id \in Ids
    BY InProgress DEF WriteNickname, At, Ops, Argued
  <2>3. user[id] \in UserRow /\ user \in [Ids -> UserRow \cup {NoRow}]
    BY <2>1, <2>2 DEF TypeOK, Exists
  <2>4. user'[id].nickname = n /\ \A other \in Ids \ {id} : user'[other] = user[other]
    BY <2>1, <2>2, <2>3 DEF UserRow
  <2>5. \A i \in Ids : Exists(i)' <=> Exists(i)
    BY ColumnWrite
  <2>6. \A i \in Ids : Exists(i) => user'[i].identity = user[i].identity
    BY ColumnWrite
  <2> SUFFICES ASSUME NEW a \in Ids, NEW b \in Ids, a # b, Exists(a)', Exists(b)'
               PROVE  Apart(a, b)'
    BY DEF OneAccountEach, Apart
  <2>7. Exists(a) /\ Exists(b) /\ Apart(a, b)
    BY <2>5 DEF OneAccountEach, Apart
  <2>8. user'[a].identity # user'[b].identity
    BY <2>6, <2>7 DEF Apart
  <2>9. user'[a].nickname # user'[b].nickname
    BY <2>1, <2>4, <2>7 DEF Apart
  <2> QED
    BY <2>8, <2>9 DEF Apart
<1> QED
  BY <1>1, <1>2

(* createOAuthUser: P2002 refuses an identity or a nickname that is taken. *)
LEMMA CreateOAuthUserApart ==
  ASSUME TypeOK, OneAccountEach, NEW c \in Calls, CreateOAuthUser(c)
  PROVE  OneAccountEach'
PROOF
<1> DEFINE i == call[c].identity
           n == call[c].nickname
           id == users + 1
           row == [identity |-> i, nickname |-> n, token |-> FALSE, image |-> NoKey]
<1>1. CASE user' = user
  BY <1>1 DEF OneAccountEach, Exists
<1>2. CASE user' # user
  <2>1. Unique(i, n) /\ users < MaxUsers /\ user' = [user EXCEPT ![id] = row]
    BY <1>2 DEF CreateOAuthUser
  <2>2. id \in Ids /\ user \in [Ids -> UserRow \cup {NoRow}]
    BY <2>1, BoundsAssumption DEF TypeOK, Ids
  <2>3. user'[id].identity = i /\ user'[id].nickname = n
        /\ \A other \in Ids \ {id} : user'[other] = user[other]
    BY <2>1, <2>2
  <2> SUFFICES ASSUME NEW a \in Ids, NEW b \in Ids, a # b, Exists(a)', Exists(b)'
               PROVE  Apart(a, b)'
    BY DEF OneAccountEach, Apart
  <2>4. CASE a = id
    BY <2>1, <2>3, <2>4 DEF Unique, Apart, Exists
  <2>5. CASE b = id
    BY <2>1, <2>3, <2>5 DEF Unique, Apart, Exists
  <2>6. CASE a # id /\ b # id
    BY <2>3, <2>6 DEF OneAccountEach, Apart, Exists
  <2> QED
    BY <2>4, <2>5, <2>6
<1> QED
  BY <1>1, <1>2

(* OneAccountEach is inductive, given TypeOK. *)
LEMMA StepApart == TypeOK /\ OneAccountEach /\ [Next]_vars => OneAccountEach'
PROOF
<1> SUFFICES ASSUME TypeOK, OneAccountEach, [Next]_vars PROVE OneAccountEach'
  OBVIOUS
<1>0. user \in [Ids -> UserRow \cup {NoRow}]
  BY DEF TypeOK
<1>1. ASSUME UNCHANGED user PROVE OneAccountEach'
  BY <1>1 DEF OneAccountEach, Exists
<1>2. ASSUME NEW c \in Calls, AuthStep(c) PROVE OneAccountEach'
  <2>1. CASE CreateOAuthUser(c)
    BY <2>1, CreateOAuthUserApart
  <2>2. CASE WriteToken(c)
    BY <2>2, OtherColumns
  <2>3. CASE ~CreateOAuthUser(c) /\ ~WriteToken(c)
    BY <1>1, <1>2, <2>3 DEF AuthStep, OauthLogin, OauthSignup, Refresh, AnswerTokens
  <2> QED
    BY <2>1, <2>2, <2>3
<1>3. ASSUME NEW c \in Calls, UserStep(c) PROVE OneAccountEach'
  <2>1. CASE WriteNickname(c)
    BY <2>1, WriteNicknameApart
  <2>2. CASE UpdateProfileImageKey(c)
    BY <2>2, OtherColumns
  <2>3. CASE DeleteUser(c)
    <3>1. \A id \in Ids : Exists(id)' => user'[id] = user[id] /\ Exists(id)
      BY <1>0, <2>3 DEF DeleteUser, Exists
    <3> QED
      BY <3>1, StillApart
  <2>4. CASE ~WriteNickname(c) /\ ~UpdateProfileImageKey(c) /\ ~DeleteUser(c)
    BY <1>1, <1>3, <2>4 DEF UserStep, UploadProfileImage, DeleteMe, UpdateNickname,
       FindProfileImageKey, DeleteObject, DeleteDiaryRecords, DeleteSoloRecord
  <2> QED
    BY <2>1, <2>2, <2>3, <2>4
<1>4. ASSUME NEW c \in Calls, RecordStep(c) PROVE OneAccountEach'
  BY <1>1, <1>4 DEF RecordStep, CreateSoloRecord, UpsertSoloRecord
<1>5. ASSUME NEW c \in Calls, Abort(c) PROVE OneAccountEach'
  BY <1>1, <1>5 DEF Abort
<1>6. ASSUME NEW id \in Known, Logout(id) PROVE OneAccountEach'
  <2>1. Exists(id) /\ user' = [user EXCEPT ![id].token = FALSE]
    BY <1>6 DEF Logout
  <2> QED
    BY <1>6, <2>1, LogoutWrite, NicknameStands, StillApart
<1>7. ASSUME NEW id \in Known, NEW d \in Dates, UpsertDiary(id, d) \/ DeleteDiary(id, d)
      PROVE  OneAccountEach'
  BY <1>1, <1>7 DEF UpsertDiary, DeleteDiary
<1>8. CASE UNCHANGED vars
  BY <1>1, <1>8 DEF vars
<1> QED
  BY <1>2, <1>3, <1>4, <1>5, <1>6, <1>7, <1>8 DEF Next

-----------------------------------------------------------------------------
(* The empty database satisfies the three invariants. *)
LEMMA InitHolds == Init => TypeOK /\ OneAccountEach /\ DeletedAccountHasNoRecords
PROOF
<1> SUFFICES ASSUME Init PROVE TypeOK /\ OneAccountEach /\ DeletedAccountHasNoRecords
  OBVIOUS
<1>1. Idle \in Requests /\ Argued(Idle)
  BY DEF Requests, Idle, Argued, Ops
<1>2. TypeOK
  BY <1>1, BoundsAssumption DEF Init, TypeOK, Requests
<1>3. OneAccountEach /\ DeletedAccountHasNoRecords
  BY DEF Init, OneAccountEach, DeletedAccountHasNoRecords, Exists
<1> QED
  BY <1>2, <1>3

(* Whatever requests run together and wherever they fail, an identity has at   *)
(* most one account and a nickname one holder.                                 *)
THEOREM AccountsStayApart == Spec => []OneAccountEach
PROOF
<1> DEFINE Inv == TypeOK /\ OneAccountEach
<1>1. Init => Inv
  BY InitHolds
<1>2. Inv /\ [Next]_vars => Inv'
  BY StepType, StepApart
<1> QED
  BY <1>1, <1>2, PTL DEF Spec

(* No record is left of an account that has been deleted, although the token   *)
(* outlives it and the deletion is five calls.                                 *)
THEOREM RecordsHaveTheirUser == Spec => []DeletedAccountHasNoRecords
PROOF
<1> DEFINE Inv == TypeOK /\ DeletedAccountHasNoRecords
<1>1. Init => Inv
  BY InitHolds
<1>2. Inv /\ [Next]_vars => Inv'
  BY StepType, StepRecords
<1> QED
  BY <1>1, <1>2, PTL DEF Spec

(* Rows, requests and history keep their types. *)
THEOREM ApiTypeCorrect == Spec => []TypeOK
PROOF
<1>1. Init => TypeOK
  BY InitHolds
<1> QED
  BY <1>1, StepType, PTL DEF Spec

-----------------------------------------------------------------------------
(* Requests begin with no key, and those for tokens with an account that is there. *)
LEMMA BeginCall ==
  ASSUME NEW c \in Calls,
         \/ \E i \in Identities : OauthLogin(c, i)
         \/ \E i \in Identities, n \in Nicknames : OauthSignup(c, i, n)
         \/ \E id \in Known : Refresh(c, id)
         \/ \E id \in Known, n \in Nicknames : UpdateNickname(c, id, n)
         \/ \E id \in Known : DeleteMe(c, id)
         \/ \E id \in Known, p \in Peaks : CreateSoloRecord(c, id, p)
  PROVE  \E req : /\ req.op \in Ops \ {"image"} /\ req.key = NoKey
                  /\ req.op = "token" => Exists(req.id)
                  /\ call' = [call EXCEPT ![c] = req]
PROOF
<1> DEFINE Goal == \E req : /\ req.op \in Ops \ {"image"} /\ req.key = NoKey
                            /\ req.op = "token" => Exists(req.id)
                            /\ call' = [call EXCEPT ![c] = req]
<1>1. ASSUME NEW i \in Identities, OauthLogin(c, i) PROVE Goal
  <2>1. PICK id \in Ids : Exists(id) /\ call' = [call EXCEPT ![c] = NewCall("token", "write", id)]
    BY <1>1 DEF OauthLogin, Begin, TokenCall
  <2> DEFINE req == NewCall("token", "write", id)
  <2>2. req.op = "token" /\ req.key = NoKey /\ req.id = id
    BY DEF NewCall
  <2>3. call' = [call EXCEPT ![c] = req]
    BY <2>1
  <2> HIDE DEF req
  <2> QED
    BY <2>1, <2>2, <2>3 DEF Ops
<1>2. ASSUME NEW i \in Identities, NEW n \in Nicknames, OauthSignup(c, i, n) PROVE Goal
  <2> DEFINE req == [NewCall("signup", "create", 0) EXCEPT !.identity = i, !.nickname = n]
  <2>1. req.op = "signup" /\ req.key = NoKey
    BY DEF NewCall
  <2>2. call' = [call EXCEPT ![c] = req]
    BY <1>2 DEF OauthSignup, Begin
  <2> HIDE DEF req
  <2> QED
    BY <2>1, <2>2 DEF Ops
<1>3. ASSUME NEW id \in Known, Refresh(c, id) PROVE Goal
  <2> DEFINE req == NewCall("token", "write", id)
  <2>1. req.op = "token" /\ req.key = NoKey /\ req.id = id
    BY DEF NewCall
  <2>2. Exists(id) /\ call' = [call EXCEPT ![c] = req]
    BY <1>3 DEF Refresh, Begin, TokenCall
  <2> HIDE DEF req
  <2> QED
    BY <2>1, <2>2 DEF Ops
<1>4. ASSUME NEW id \in Known, NEW n \in Nicknames, UpdateNickname(c, id, n) PROVE Goal
  <2> DEFINE req == [NewCall("nickname", "write", id) EXCEPT !.nickname = n]
  <2>1. req.op = "nickname" /\ req.key = NoKey
    BY DEF NewCall
  <2>2. call' = [call EXCEPT ![c] = req]
    BY <1>4 DEF UpdateNickname, Begin
  <2> HIDE DEF req
  <2> QED
    BY <2>1, <2>2 DEF Ops
<1>5. ASSUME NEW id \in Known, DeleteMe(c, id) PROVE Goal
  <2> DEFINE req == NewCall("deleteMe", "findKey", id)
  <2>1. req.op = "deleteMe" /\ req.key = NoKey
    BY DEF NewCall
  <2>2. call' = [call EXCEPT ![c] = req]
    BY <1>5 DEF DeleteMe, Begin
  <2> HIDE DEF req
  <2> QED
    BY <2>1, <2>2 DEF Ops
<1>6. ASSUME NEW id \in Known, NEW p \in Peaks, CreateSoloRecord(c, id, p) PROVE Goal
  <2> DEFINE req == [NewCall("solo", "write", id) EXCEPT !.peak = p, !.seen = solo[id]]
  <2>1. req.op = "solo" /\ req.key = NoKey
    BY DEF NewCall
  <2>2. call' = [call EXCEPT ![c] = req]
    BY <1>6 DEF CreateSoloRecord, Begin
  <2> HIDE DEF req
  <2> QED
    BY <2>1, <2>2 DEF Ops
<1> HIDE DEF Goal
<1>7. Goal
  BY <1>1, <1>2, <1>3, <1>4, <1>5, <1>6
<1> QED
  BY <1>7 DEF Goal

(* What the requests for tokens of an account may become once it is gone. *)
Fewer(id) == Overtaken(id)' \subseteq Overtaken(id) /\ Stored(id)' \subseteq Stored(id)

(* A request that becomes one for another account, or for something else. *)
LEMMA FewerByOther ==
  ASSUME TypeOK, NEW id, NEW c \in Calls, NEW req, call' = [call EXCEPT ![c] = req],
         req.op # "token" \/ req.id # id
  PROVE  Fewer(id)
PROOF
<1>1. call'[c] = req /\ \A d \in Calls \ {c} : call'[d] = call[d]
  BY DEF TypeOK
<1> QED
  BY <1>1 DEF Fewer, Overtaken, Stored

LEMMA FewerByEnd == ASSUME TypeOK, NEW id, NEW c \in Calls, End(c) PROVE Fewer(id)
PROOF
<1>1. Idle.op # "token" /\ call' = [call EXCEPT ![c] = Idle]
  BY DEF End, Idle
<1> QED
  BY <1>1, FewerByOther

(* The requests for tokens. *)
LEMMA AuthSessions ==
  ASSUME TypeOK, NEW id \in 1..users, ~Exists(id), NEW c \in Calls, AuthStep(c)
  PROVE  ~Exists(id)' /\ Fewer(id)
PROOF
<1>1. id \in Ids /\ users \in Nat /\ id # users + 1
  BY BoundsAssumption DEF TypeOK, Ids
<1>2. CASE CreateOAuthUser(c)
  <2> DEFINE req == NewCall("token", "write", users + 1)
  <2>1. req.id = users + 1
    BY DEF NewCall
  <2>2. End(c) \/ call' = [call EXCEPT ![c] = req]
    BY <1>2 DEF CreateOAuthUser, Goto, TokenCall
  <2> HIDE DEF req
  <2>3. Fewer(id)
    BY <1>1, <2>1, <2>2, FewerByEnd, FewerByOther
  <2>4. user'[id] = user[id]
    BY <1>1, <1>2 DEF CreateOAuthUser, TypeOK
  <2> QED
    BY <2>3, <2>4 DEF Exists
<1>3. CASE WriteToken(c)
  <2> DEFINE req == [call[c] EXCEPT !.step = "answer"]
  <2>1. ~Exists(id)'
    BY <1>1, <1>3, ColumnWrite
  <2>2. req.id = call[c].id
    BY <1>3, TokenAnswerType
  <2>3. End(c) \/ (Exists(req.id) /\ call' = [call EXCEPT ![c] = req])
    BY <1>3, <2>2 DEF WriteToken, Updatable, Goto
  <2> HIDE DEF req
  <2>4. Fewer(id)
    BY <2>3, FewerByEnd, FewerByOther
  <2> QED
    BY <2>1, <2>4
<1>4. CASE AnswerTokens(c)
  BY <1>4, FewerByEnd DEF AnswerTokens, Exists
<1>5. CASE ~CreateOAuthUser(c) /\ ~WriteToken(c) /\ ~AnswerTokens(c)
  <2>1. PICK req : (req.op = "token" => Exists(req.id)) /\ call' = [call EXCEPT ![c] = req]
    BY <1>5, BeginCall DEF AuthStep
  <2>2. Fewer(id)
    BY <2>1, FewerByOther
  <2>3. user' = user
    BY <1>5 DEF AuthStep, OauthLogin, OauthSignup, Refresh
  <2> QED
    BY <2>2, <2>3 DEF Exists
<1> QED
  BY <1>2, <1>3, <1>4, <1>5

(* The other operations: none of them is, or becomes, a request for tokens. *)
LEMMA OtherSessions ==
  ASSUME TypeOK, NEW id \in 1..users, ~Exists(id), NEW c \in Calls,
         UserStep(c) \/ RecordStep(c) \/ Abort(c)
  PROVE  ~Exists(id)' /\ Fewer(id)
PROOF
<1>1. id \in Ids
  BY BoundsAssumption DEF TypeOK, Ids
<1>2. CASE (\E i \in Known : DeleteMe(c, i) \/ \E n \in Nicknames : UpdateNickname(c, i, n))
           \/ \E i \in Known, p \in Peaks : CreateSoloRecord(c, i, p)
  <2>1. PICK req : (req.op = "token" => Exists(req.id)) /\ call' = [call EXCEPT ![c] = req]
    BY <1>2, BeginCall
  <2>2. user' = user
    BY <1>2 DEF DeleteMe, UpdateNickname, CreateSoloRecord
  <2> QED
    BY <2>1, <2>2, FewerByOther DEF Exists
<1>3. ASSUME NEW i \in Known, UploadProfileImage(c, i) PROVE ~Exists(id)' /\ Fewer(id)
  <2> DEFINE req == [NewCall("image", "write", i) EXCEPT !.key = images + 1]
  <2>1. req.op = "image"
    BY DEF NewCall
  <2>2. call' = [call EXCEPT ![c] = req] /\ user' = user
    BY <1>3 DEF UploadProfileImage, Begin
  <2> HIDE DEF req
  <2> QED
    BY <2>1, <2>2, FewerByOther DEF Exists
<1>4. CASE WriteNickname(c) \/ UpdateProfileImageKey(c)
  <2>1. End(c)
    BY <1>4 DEF WriteNickname, UpdateProfileImageKey
  <2> QED
    BY <1>1, <1>4, <2>1, ColumnWrite, FewerByEnd
<1>5. CASE DeleteUser(c) \/ UpsertSoloRecord(c) \/ Abort(c)
  <2>1. End(c) /\ (user' = user \/ \E i : user' = [user EXCEPT ![i] = NoRow])
    BY <1>5 DEF DeleteUser, UpsertSoloRecord, Abort
  <2> QED
    BY <1>1, <2>1, FewerByEnd DEF Exists, TypeOK
<1>6. CASE FindProfileImageKey(c) \/ DeleteObject(c) \/ DeleteDiaryRecords(c) \/ DeleteSoloRecord(c)
  <2>1. call[c].op = "deleteMe" /\ call[c] \in Call
    BY <1>6, InProgress DEF FindProfileImageKey, DeleteObject, DeleteDiaryRecords, DeleteSoloRecord, At, Ops
  <2>2. \A s, k : /\ [call[c] EXCEPT !.step = s].op = "deleteMe"
                  /\ [call[c] EXCEPT !.step = s, !.key = k].op = "deleteMe"
    BY <2>1 DEF Call
  <2>3. \E req : req.op = "deleteMe" /\ call' = [call EXCEPT ![c] = req]
    BY <1>6, <2>2 DEF FindProfileImageKey, DeleteObject, DeleteDiaryRecords, DeleteSoloRecord, Goto
  <2>4. user' = user
    BY <1>6 DEF FindProfileImageKey, DeleteObject, DeleteDiaryRecords, DeleteSoloRecord
  <2> QED
    BY <2>3, <2>4, FewerByOther DEF Exists
<1> QED
  BY <1>2, <1>3, <1>4, <1>5, <1>6 DEF UserStep, RecordStep

LEMMA StepSessions ==
  ASSUME TypeOK, [Next]_vars, NEW id \in 1..users, ~Exists(id)
  PROVE  ~Exists(id)' /\ Fewer(id)
PROOF
<1>1. id \in Ids
  BY BoundsAssumption DEF TypeOK, Ids
<1>2. ASSUME UNCHANGED <<user, call>> PROVE ~Exists(id)' /\ Fewer(id)
  BY <1>2 DEF Exists, Fewer, Overtaken, Stored
<1>3. ASSUME NEW i \in Known, Logout(i) PROVE ~Exists(id)' /\ Fewer(id)
  <2>1. ~Exists(id)'
    BY <1>1, <1>3, LogoutWrite
  <2>2. Fewer(id)
    BY <1>3 DEF Logout, Fewer, Overtaken, Stored
  <2> QED
    BY <2>1, <2>2
<1>4. ASSUME NEW i \in Known, NEW d \in Dates, UpsertDiary(i, d) \/ DeleteDiary(i, d)
      PROVE  ~Exists(id)' /\ Fewer(id)
  BY <1>2, <1>4 DEF UpsertDiary, DeleteDiary
<1>5. CASE UNCHANGED vars
  BY <1>2, <1>5 DEF vars
<1> QED
  BY <1>3, <1>4, <1>5, AuthSessions, OtherSessions DEF Next

(* No session is begun for an account that is gone, and of those its deletion has *)
(* overtaken only the ones whose token was stored before it may still be answered. *)
THEOREM SessionsEnd == Spec => SessionsEndWithAccount
PROOF
<1>1. TypeOK /\ [Next]_vars =>
        [\A id \in 1..users : ~Exists(id) =>
           /\ ~Exists(id)'
           /\ Overtaken(id)' \subseteq Overtaken(id) /\ Stored(id)' \subseteq Stored(id)]_vars
  BY StepSessions DEF Fewer
<1> QED
  BY <1>1, ApiTypeCorrect, PTL DEF Spec, SessionsEndWithAccount

-----------------------------------------------------------------------------
(* A best score is the larger of what the request has seen and what it brings. *)
LEMMA UpsertFalls ==
  ASSUME TypeOK, NEW c \in Calls, UpsertSoloRecord(c),
         NEW id \in Ids, solo[id] # NoRow, solo'[id] # NoRow, solo'[id].best < solo[id].best
  PROVE  At(c, "solo", "write") /\ call'[c] = Idle /\ call[c].id = id /\ call[c].seen # solo[id]
PROOF
<1> DEFINE req == call[c]
<1>1. At(c, "solo", "write") /\ call'[c] = Idle
  BY DEF UpsertSoloRecord, End, TypeOK
<1>2. req \in Call /\ req.peak \in Peaks /\ req.id \in Ids
  BY <1>1, InProgress DEF At, Ops, Argued
<1>3. solo[id] \in SoloRow /\ solo[id].best \in Nat /\ solo \in [Ids -> SoloRow \cup {NoRow}]
  BY ValuesAssumption DEF TypeOK, SoloRow
<1>4. req.id = id /\ Exists(id)
  BY <1>2, <1>3 DEF UpsertSoloRecord
<1>5. solo'[id].best = NewBest(req.seen, req.peak)
  BY <1>2, <1>3, <1>4 DEF UpsertSoloRecord
<1>6. CASE req.seen = solo[id]
  <2>1. req.seen # NoRow /\ req.seen.best = solo[id].best /\ req.peak \in Nat
    BY <1>2, <1>6, ValuesAssumption
  <2>2. solo'[id].best = IF req.seen.best > req.peak THEN req.seen.best ELSE req.peak
    BY <1>5, <2>1 DEF NewBest
  <2> HIDE DEF req
  <2> QED
    BY <1>3, <2>1, <2>2
<1> QED
  BY <1>1, <1>4, <1>6

LEMMA StepBest ==
  ASSUME TypeOK, [Next]_vars, NEW id \in Ids,
         solo[id] # NoRow, solo'[id] # NoRow, solo'[id].best < solo[id].best
  PROVE  \E c \in Calls : At(c, "solo", "write") /\ call'[c] = Idle /\ call[c].id = id /\ call[c].seen # solo[id]
PROOF
<1>1. solo[id].best \in Nat
  BY ValuesAssumption DEF TypeOK, SoloRow
<1>2. solo'[id] # solo[id]
  BY <1>1
<1>3. ASSUME NEW c \in Calls, DeleteSoloRecord(c) PROVE FALSE
  BY <1>2, <1>3 DEF DeleteSoloRecord, TypeOK
<1>4. ASSUME UNCHANGED solo PROVE FALSE
  BY <1>2, <1>4
<1>5. \E c \in Calls : UpsertSoloRecord(c)
  BY <1>3, <1>4 DEF Next, AuthStep, UserStep, RecordStep, Abort, OauthLogin, OauthSignup, CreateOAuthUser,
     Refresh, WriteToken, AnswerTokens, UploadProfileImage, DeleteMe, UpdateNickname, WriteNickname, UpdateProfileImageKey,
     FindProfileImageKey, DeleteObject, DeleteDiaryRecords, DeleteUser, CreateSoloRecord, Logout,
     UpsertDiary, DeleteDiary, vars
<1> QED
  BY <1>5, UpsertFalls

(* A best score that falls was overwritten by a request that read before another *)
(* one wrote.                                                                    *)
THEOREM BestIsKeptWithoutOverlap == Spec => BestFallsOnlyByOverlap
PROOF
<1>1. TypeOK /\ [Next]_vars =>
        [\A id \in Ids : solo[id] # NoRow /\ solo'[id] # NoRow /\ solo'[id].best < solo[id].best =>
           \E c \in Calls : /\ At(c, "solo", "write") /\ call'[c] = Idle
                            /\ call[c].id = id /\ call[c].seen # solo[id]]_vars
  BY StepBest
<1> QED
  BY <1>1, ApiTypeCorrect, PTL DEF Spec, BestFallsOnlyByOverlap

-----------------------------------------------------------------------------
(* The image of a profile.  A key that is being stored is nobody's yet: it is not *)
(* in a row, and no other request holds it, a deletion least of all.              *)
Holding == {"image", "deleteMe"}
KeysGivenOut ==
  /\ \A c \in Calls : call[c].op \in Holding => call[c].key \in 0..images
  /\ \A id \in Ids : Exists(id) => user[id].image \in 0..images
UploadsStored == \A c \in Calls : call[c].op = "image" => call[c].key \in objects
UploadsPrivate ==
  \A c \in Calls : call[c].op = "image" =>
    /\ \A d \in Calls \ {c} : call[d].op \in Holding => call[d].key # call[c].key
    /\ \A id \in Ids : Exists(id) => user[id].image # call[c].key
(* Nor is a stored one anybody else's: two rows have different images, and a     *)
(* deletion that holds the image of a row is one of that account.                *)
ImagesOwned ==
  /\ \A a, b \in Ids : a # b /\ Exists(a) /\ Exists(b) /\ user[a].image = user[b].image =>
       user[a].image = NoKey
  /\ \A c \in Calls, id \in Ids :
       call[c].op = "deleteMe" /\ Exists(id) /\ user[id].image = call[c].key =>
         call[c].id = id \/ call[c].key = NoKey
ImageInv == KeysGivenOut /\ UploadsStored /\ UploadsPrivate /\ ImagesOwned

(* Rows go, or keep their image, or begin without one. *)
ImagesStand ==
  \A id \in Ids : Exists(id)' =>
    user'[id].image = NoKey \/ (Exists(id) /\ user'[id].image = user[id].image)

LEMMA UploadHasKey ==
  ASSUME TypeOK, UploadsStored, NEW c \in Calls, call[c].op = "image"
  PROVE  call[c].key # NoKey
BY DEF TypeOK, UploadsStored, Keys, NoKey

LEMMA ColumnsKeepImages ==
  ASSUME TypeOK, NEW id, Exists(id) \/ id \notin Ids,
         \/ \E b \in BOOLEAN : user' = [user EXCEPT ![id].token = b]
         \/ \E n \in Nicknames : user' = [user EXCEPT ![id].nickname = n]
  PROVE  ImagesStand
PROOF
<1>1. user \in [Ids -> UserRow \cup {NoRow}]
  BY DEF TypeOK
<1>2. CASE id \notin Ids
  <2>1. user' = user
    BY <1>1, <1>2
  <2> QED
    BY <2>1 DEF ImagesStand, Exists
<1>3. CASE id \in Ids
  <2>1. user[id] \in UserRow
    BY <1>1, <1>3 DEF Exists
  <2>2. user'[id].image = user[id].image
    BY <1>1, <1>3, <2>1 DEF UserRow
  <2>3. \A i \in Ids \ {id} : user'[i] = user[i]
    BY <1>1
  <2> QED
    BY <1>3, <2>2, <2>3 DEF ImagesStand, Exists
<1> QED
  BY <1>2, <1>3

LEMMA RowsKeepImages ==
  ASSUME TypeOK, NEW c \in Calls, CreateOAuthUser(c) \/ WriteToken(c) \/ WriteNickname(c) \/ DeleteUser(c)
  PROVE  ImagesStand
PROOF
<1>0. user \in [Ids -> UserRow \cup {NoRow}]
  BY DEF TypeOK
<1>1. ASSUME user' = user PROVE ImagesStand
  BY <1>1 DEF ImagesStand, Exists
<1>2. CASE CreateOAuthUser(c)
  <2>1. CASE user' # user
    <3> DEFINE row == [identity |-> call[c].identity, nickname |-> call[c].nickname,
                       token |-> FALSE, image |-> NoKey]
    <3>1. user' = [user EXCEPT ![users + 1] = row] /\ row.image = NoKey
      BY <1>2, <2>1 DEF CreateOAuthUser
    <3> HIDE DEF row
    <3> QED
      BY <1>0, <3>1 DEF ImagesStand, Exists
  <2> QED
    BY <1>1, <2>1
<1>3. CASE WriteToken(c)
  <2>1. call[c].id \in Ids
    BY <1>3, InProgress DEF WriteToken, At, Ops, Argued
  <2>2. user' = user \/ (Exists(call[c].id) /\ user' = [user EXCEPT ![call[c].id].token = TRUE])
    BY <1>3 DEF WriteToken
  <2> QED
    BY <1>1, <2>2, ColumnsKeepImages
<1>4. CASE WriteNickname(c)
  <2>1. call[c].nickname \in Nicknames
    BY <1>4, InProgress DEF WriteNickname, At, Ops, Argued
  <2>2. user' = user \/ (Exists(call[c].id) /\ user' = [user EXCEPT ![call[c].id].nickname = call[c].nickname])
    BY <1>4 DEF WriteNickname
  <2> QED
    BY <1>1, <2>1, <2>2, ColumnsKeepImages
<1>5. CASE DeleteUser(c)
  BY <1>0, <1>1, <1>5 DEF DeleteUser, ImagesStand, Exists
<1> QED
  BY <1>2, <1>3, <1>4, <1>5

LEMMA ImagesStillApart ==
  ASSUME ImagesOwned, ImagesStand
  PROVE  \A a, b \in Ids : a # b /\ Exists(a)' /\ Exists(b)' /\ user'[a].image = user'[b].image =>
           user'[a].image = NoKey
BY DEF ImagesOwned, ImagesStand

(* A request goes on without a key of its own, or with one that its account had. *)
LEMMA KeysPass ==
  ASSUME TypeOK, ImageInv, ImagesStand, UNCHANGED <<objects, images>>,
         NEW c \in Calls, NEW req, call' = [call EXCEPT ![c] = req], req.op # "image",
         req.op = "deleteMe" =>
           \/ req.key = NoKey
           \/ req.id \in Ids /\ Exists(req.id) /\ req.key = user[req.id].image
           \/ call[c].op = "deleteMe" /\ req.key = call[c].key /\ req.id = call[c].id
  PROVE  ImageInv'
PROOF
<1>1. call'[c] = req /\ \A d \in Calls \ {c} : call'[d] = call[d]
  BY DEF TypeOK
<1>2. images \in Nat /\ NoKey \in 0..images
  BY BoundsAssumption DEF TypeOK, NoKey
<1>3. \A d \in Calls : call'[d].op = "image" => d # c /\ call'[d] = call[d] /\ call[d].op = "image"
  BY <1>1
<1>4. KeysGivenOut'
  <2>1. \A id \in Ids : Exists(id)' => user'[id].image \in 0..images
    BY <1>2 DEF ImageInv, KeysGivenOut, ImagesStand
  <2>2. req.op \in Holding => req.key \in 0..images
    BY <1>2 DEF ImageInv, KeysGivenOut, Holding
  <2> QED
    BY <1>1, <2>1, <2>2 DEF ImageInv, KeysGivenOut
<1>5. UploadsStored'
  BY <1>3 DEF ImageInv, UploadsStored
<1>6. UploadsPrivate'
  <2> SUFFICES ASSUME NEW d \in Calls, call'[d].op = "image"
               PROVE  /\ \A e \in Calls \ {d} : call'[e].op \in Holding => call'[e].key # call'[d].key
                      /\ \A id \in Ids : Exists(id)' => user'[id].image # call'[d].key
    BY DEF UploadsPrivate
  <2>1. d # c /\ call'[d] = call[d] /\ call[d].op = "image" /\ call[d].key # NoKey
    BY <1>3, UploadHasKey DEF ImageInv
  <2>2. req.op \in Holding => req.key # call[d].key
    BY <2>1 DEF ImageInv, UploadsPrivate, Holding
  <2>3. \A e \in Calls \ {d} : call'[e].op \in Holding => call'[e].key # call[d].key
    BY <1>1, <2>1, <2>2 DEF ImageInv, UploadsPrivate
  <2>4. \A id \in Ids : Exists(id)' => user'[id].image # call[d].key
    BY <2>1 DEF ImageInv, UploadsPrivate, ImagesStand
  <2> QED
    BY <2>1, <2>3, <2>4
<1>7. ImagesOwned'
  <2>1. ASSUME NEW d \in Calls, NEW id \in Ids, call'[d].op = "deleteMe", Exists(id)',
               user'[id].image = call'[d].key, call'[d].key # NoKey
        PROVE  call'[d].id = id
    <3>1. Exists(id) /\ user[id].image = call'[d].key
      BY <2>1 DEF ImagesStand
    <3> QED
      BY <1>1, <2>1, <3>1 DEF ImageInv, ImagesOwned
  <2> QED
    BY <2>1, ImagesStillApart DEF ImageInv, ImagesOwned
<1> QED
  BY <1>4, <1>5, <1>6, <1>7 DEF ImageInv

LEMMA EndKeys ==
  ASSUME TypeOK, ImageInv, ImagesStand, UNCHANGED <<objects, images>>, NEW c \in Calls, End(c)
  PROVE  ImageInv'
PROOF
<1>1. Idle.op = "idle" /\ call' = [call EXCEPT ![c] = Idle]
  BY DEF Idle, End
<1> QED
  BY <1>1, KeysPass

(* A request of one call. *)
LEMMA SameKeys ==
  ASSUME TypeOK, ImageInv, ImagesStand, UNCHANGED <<objects, images, call>>
  PROVE  ImageInv'
PROOF
<1>1. NoKey \in 0..images
  BY BoundsAssumption DEF TypeOK, NoKey
<1>2. KeysGivenOut' /\ UploadsStored'
  BY <1>1 DEF ImageInv, KeysGivenOut, UploadsStored, ImagesStand
<1>3. UploadsPrivate'
  BY UploadHasKey DEF ImageInv, UploadsPrivate, ImagesStand
<1>4. ImagesOwned'
  BY ImagesStillApart DEF ImageInv, ImagesOwned, ImagesStand
<1> QED
  BY <1>2, <1>3, <1>4 DEF ImageInv

(* A new object has a new key. *)
LEMMA UploadKeys ==
  ASSUME TypeOK, ImageInv, NEW c \in Calls, NEW id \in Known, UploadProfileImage(c, id)
  PROVE  ImageInv' /\ ImagesStand
PROOF
<1> DEFINE req == [NewCall("image", "write", id) EXCEPT !.key = images + 1]
<1>1. req.op = "image" /\ req.key = images + 1
  BY DEF NewCall
<1>2. call' = [call EXCEPT ![c] = req] /\ user' = user /\ objects' = objects \cup {images + 1} /\ images' = images + 1
  BY DEF UploadProfileImage, Begin
<1> HIDE DEF req
<1>3. call'[c] = req /\ \A d \in Calls \ {c} : call'[d] = call[d]
  BY <1>2 DEF TypeOK
<1>4. images \in Nat
  BY BoundsAssumption DEF TypeOK
<1>5. \A k \in 0..images : k \in 0..images' /\ k # images + 1
  BY <1>2, <1>4
<1>6. images + 1 \in 0..images'
  BY <1>2, <1>4
<1>7. KeysGivenOut'
  BY <1>1, <1>2, <1>3, <1>5, <1>6 DEF ImageInv, KeysGivenOut, Exists
<1>8. UploadsStored'
  BY <1>1, <1>2, <1>3 DEF ImageInv, UploadsStored
<1>9. UploadsPrivate'
  <2>1. \A d \in Calls : call[d].op \in Holding => call[d].key # images + 1
    BY <1>5 DEF ImageInv, KeysGivenOut
  <2>2. \A i \in Ids : Exists(i) => user[i].image # images + 1
    BY <1>5 DEF ImageInv, KeysGivenOut
  <2> QED
    BY <1>1, <1>2, <1>3, <2>1, <2>2 DEF ImageInv, UploadsPrivate, Exists, Holding
<1>10. ImagesOwned'
  BY <1>1, <1>2, <1>3 DEF ImageInv, ImagesOwned, Exists
<1> QED
  BY <1>2, <1>7, <1>8, <1>9, <1>10 DEF ImageInv, ImagesStand, Exists

(* The key goes into the row, and the request no longer has it. *)
LEMMA StoreKey ==
  ASSUME TypeOK, ImageInv, NEW c \in Calls, UpdateProfileImageKey(c)
  PROVE  /\ ImageInv'
         /\ \A id \in Ids : Exists(id)' => \/ user'[id].image \in objects
                                           \/ Exists(id) /\ user'[id].image = user[id].image
PROOF
<1> DEFINE k == call[c].key
           id == call[c].id
<1>0. user \in [Ids -> UserRow \cup {NoRow}]
  BY DEF TypeOK
<1>1. call[c].op = "image" /\ id \in Ids
  BY InProgress DEF UpdateProfileImageKey, At, Ops, Argued
<1>2. k \in objects /\ k \in 0..images
  BY <1>1 DEF ImageInv, UploadsStored, KeysGivenOut, Holding
<1>3. UNCHANGED <<objects, images>> /\ End(c)
  BY DEF UpdateProfileImageKey
<1>4. call'[c].op = "idle" /\ \A d \in Calls \ {c} : call'[d] = call[d]
  BY <1>3 DEF End, Idle, TypeOK
<1>5. \A i \in Ids : Exists(i)' => user'[i].image = k \/ (Exists(i) /\ user'[i].image = user[i].image)
  <2>1. CASE ~Exists(id)
    BY <2>1 DEF UpdateProfileImageKey, Exists
  <2>2. CASE Exists(id)
    <3>1. user[id] \in UserRow /\ user' = [user EXCEPT ![id].image = k]
      BY <1>0, <1>1, <2>2 DEF UpdateProfileImageKey, Exists
    <3>2. user'[id].image = k
      BY <1>0, <1>1, <3>1 DEF UserRow
    <3>3. \A i \in Ids \ {id} : user'[i] = user[i]
      BY <1>0, <3>1
    <3> QED
      BY <1>1, <3>2, <3>3 DEF Exists
  <2> QED
    BY <2>1, <2>2
<1>10. \A i \in Ids \ {id} : Exists(i)' => Exists(i) /\ user'[i].image = user[i].image
  BY <1>0 DEF UpdateProfileImageKey, Exists
<1>6. \A d \in Calls : call'[d].op = "image" => d # c /\ call'[d] = call[d] /\ call[d].key # k
  BY <1>1, <1>4 DEF ImageInv, UploadsPrivate, Holding
<1> HIDE DEF k, id
<1>7. KeysGivenOut'
  BY <1>2, <1>3, <1>4, <1>5 DEF ImageInv, KeysGivenOut, Holding
<1>8. UploadsStored'
  BY <1>3, <1>6 DEF ImageInv, UploadsStored
<1>9. UploadsPrivate'
  <2> SUFFICES ASSUME NEW d \in Calls, call'[d].op = "image"
               PROVE  /\ \A e \in Calls \ {d} : call'[e].op \in Holding => call'[e].key # call'[d].key
                      /\ \A i \in Ids : Exists(i)' => user'[i].image # call'[d].key
    BY DEF UploadsPrivate
  <2>1. call'[d] = call[d] /\ call[d].op = "image" /\ call[d].key # k
    BY <1>6
  <2>2. \A e \in Calls \ {d} : call'[e].op \in Holding => call'[e].key # call[d].key
    BY <1>4, <2>1 DEF ImageInv, UploadsPrivate, Holding
  <2>3. \A i \in Ids : Exists(i)' => user'[i].image # call[d].key
    BY <1>5, <2>1 DEF ImageInv, UploadsPrivate
  <2> QED
    BY <2>1, <2>2, <2>3
<1>11. ImagesOwned'
  <2>1. \A i \in Ids : Exists(i) => user[i].image # k
    BY <1>1 DEF ImageInv, UploadsPrivate, k
  <2>2. \A d \in Calls : call'[d].op = "deleteMe" => call'[d] = call[d] /\ call[d].key # k
    BY <1>1, <1>4 DEF ImageInv, UploadsPrivate, Holding, k
  <2>3. \A a, b \in Ids : a # b /\ Exists(a)' /\ Exists(b)' /\ user'[a].image = user'[b].image =>
          user'[a].image = NoKey
    BY <1>5, <1>10, <2>1 DEF ImageInv, ImagesOwned
  <2>4. \A d \in Calls, i \in Ids :
          call'[d].op = "deleteMe" /\ Exists(i)' /\ user'[i].image = call'[d].key =>
            call'[d].id = i \/ call'[d].key = NoKey
    BY <1>5, <2>2 DEF ImageInv, ImagesOwned
  <2> QED
    BY <2>3, <2>4 DEF ImagesOwned
<1> QED
  BY <1>2, <1>5, <1>7, <1>8, <1>9, <1>11 DEF ImageInv

(* A deletion removes no object that is being stored. *)
LEMMA DeleteObjectKeys ==
  ASSUME TypeOK, ImageInv, NEW c \in Calls, DeleteObject(c) PROVE ImageInv'
PROOF
<1> DEFINE req == [call[c] EXCEPT !.step = "deleteDiary"]
<1>1. call[c].op = "deleteMe" /\ call[c] \in Call
  BY InProgress DEF DeleteObject, At, Ops
<1>2. req.op = "deleteMe" /\ req.key = call[c].key /\ req.id = call[c].id
  BY <1>1 DEF Call
<1>3. call' = [call EXCEPT ![c] = req] /\ UNCHANGED <<user, images>> /\ objects \ {call[c].key} \subseteq objects'
  BY DEF DeleteObject, Goto
<1> HIDE DEF req
<1>4. call'[c] = req /\ \A d \in Calls \ {c} : call'[d] = call[d]
  BY <1>3 DEF TypeOK
<1>5. KeysGivenOut'
  BY <1>1, <1>2, <1>3, <1>4 DEF ImageInv, KeysGivenOut, Exists, Holding
<1>6. UploadsStored'
  BY <1>1, <1>2, <1>3, <1>4 DEF ImageInv, UploadsStored, UploadsPrivate, Holding
<1>7. UploadsPrivate'
  BY <1>1, <1>2, <1>3, <1>4 DEF ImageInv, UploadsPrivate, Exists, Holding
<1>8. ImagesOwned'
  BY <1>1, <1>2, <1>3, <1>4 DEF ImageInv, ImagesOwned, Exists
<1> QED
  BY <1>5, <1>6, <1>7, <1>8 DEF ImageInv

(* The other steps of a deletion. *)
LEMMA DeletionKeys ==
  ASSUME TypeOK, ImageInv, NEW c \in Calls,
         FindProfileImageKey(c) \/ DeleteDiaryRecords(c) \/ DeleteSoloRecord(c)
  PROVE  ImageInv' /\ ImagesStand
PROOF
<1> DEFINE old == call[c]
<1>1. old.op = "deleteMe" /\ old \in Call /\ old.id \in Ids
  BY InProgress DEF FindProfileImageKey, DeleteDiaryRecords, DeleteSoloRecord, At, Ops, Argued
<1>2. UNCHANGED <<user, objects, images>> /\ ImagesStand
  BY DEF FindProfileImageKey, DeleteDiaryRecords, DeleteSoloRecord, ImagesStand, Exists
<1>3. ASSUME NEW step, call' = [call EXCEPT ![c] = [old EXCEPT !.step = step]] PROVE ImageInv'
  <2> DEFINE req == [old EXCEPT !.step = step]
  <2>1. req.op = "deleteMe" /\ req.key = call[c].key /\ req.id = call[c].id
    BY <1>1 DEF Call
  <2>2. call' = [call EXCEPT ![c] = req]
    BY <1>3
  <2> HIDE DEF req
  <2> QED
    BY <1>1, <1>2, <2>1, <2>2, KeysPass
<1>4. CASE FindProfileImageKey(c)
  <2> DEFINE key == IF Exists(old.id) THEN user[old.id].image ELSE NoKey
             step == IF key = NoKey THEN "deleteDiary" ELSE "deleteObject"
             req == [old EXCEPT !.step = step, !.key = key]
  <2>1. req.op = "deleteMe" /\ req.key = key /\ req.id = old.id
    BY <1>1 DEF Call
  <2>2. key = NoKey \/ (Exists(old.id) /\ key = user[old.id].image)
    BY <1>1
  <2>3. call' = [call EXCEPT ![c] = req]
    BY <1>4 DEF FindProfileImageKey, Goto
  <2> HIDE DEF req, key
  <2> QED
    BY <1>1, <1>2, <2>1, <2>2, <2>3, KeysPass
<1> QED
  BY <1>2, <1>3, <1>4 DEF DeleteDiaryRecords, DeleteSoloRecord, Goto

(* The first calls of requests bring no key. *)
LEMMA BeginKeys ==
  ASSUME TypeOK, ImageInv, NEW c \in Calls,
         \/ \E i \in Identities : OauthLogin(c, i)
         \/ \E i \in Identities, n \in Nicknames : OauthSignup(c, i, n)
         \/ \E id \in Known : Refresh(c, id)
         \/ \E id \in Known, n \in Nicknames : UpdateNickname(c, id, n)
         \/ \E id \in Known : DeleteMe(c, id)
         \/ \E id \in Known, p \in Peaks : CreateSoloRecord(c, id, p)
  PROVE  ImageInv' /\ ImagesStand
PROOF
<1>1. UNCHANGED <<user, objects, images>> /\ ImagesStand
  BY DEF OauthLogin, OauthSignup, Refresh, UpdateNickname, DeleteMe, CreateSoloRecord, ImagesStand, Exists
<1>2. PICK req : req.op \in Ops \ {"image"} /\ req.key = NoKey /\ call' = [call EXCEPT ![c] = req]
  BY BeginCall
<1> QED
  BY <1>1, <1>2, KeysPass

LEMMA StepImages ==
  ASSUME TypeOK, ImageInv, [Next]_vars
  PROVE  /\ ImageInv'
         /\ \A id \in Ids : ImageStored(id) /\ ~ImageStored(id)' => LostBy(id)
PROOF
<1> DEFINE Goal == /\ ImageInv'
                   /\ \A id \in Ids : ImageStored(id) /\ ~ImageStored(id)' => LostBy(id)
<1>1. ASSUME ImageInv', ImagesStand, objects \subseteq objects' PROVE Goal
  BY <1>1 DEF ImagesStand, ImageStored
<1>2. ASSUME NEW c \in Calls, AuthStep(c) PROVE Goal
  <2>1. CASE CreateOAuthUser(c)
    <3> DEFINE req == NewCall("token", "write", users + 1)
    <3>1. ImagesStand /\ UNCHANGED <<objects, images>>
      BY <2>1, RowsKeepImages DEF CreateOAuthUser
    <3>2. req.op = "token"
      BY DEF NewCall
    <3>3. End(c) \/ call' = [call EXCEPT ![c] = req]
      BY <2>1 DEF CreateOAuthUser, Goto, TokenCall
    <3> HIDE DEF req
    <3>4. ImageInv'
      BY <3>1, <3>2, <3>3, EndKeys, KeysPass
    <3> QED
      BY <1>1, <3>1, <3>4
  <2>2. CASE WriteToken(c)
    <3> DEFINE req == [call[c] EXCEPT !.step = "answer"]
    <3>1. ImagesStand /\ UNCHANGED <<objects, images>>
      BY <2>2, RowsKeepImages DEF WriteToken
    <3>2. req.op = "token"
      BY <2>2, TokenAnswerType
    <3>3. End(c) \/ call' = [call EXCEPT ![c] = req]
      BY <2>2 DEF WriteToken, Goto
    <3> HIDE DEF req
    <3>4. ImageInv'
      BY <3>1, <3>2, <3>3, EndKeys, KeysPass
    <3> QED
      BY <1>1, <3>1, <3>4
  <2>3. CASE AnswerTokens(c)
    <3>1. ImagesStand /\ UNCHANGED <<objects, images>> /\ End(c)
      BY <2>3 DEF AnswerTokens, ImagesStand, Exists
    <3> QED
      BY <1>1, <3>1, EndKeys
  <2>4. CASE ~CreateOAuthUser(c) /\ ~WriteToken(c) /\ ~AnswerTokens(c)
    <3>1. ImageInv' /\ ImagesStand
      BY <1>2, <2>4, BeginKeys DEF AuthStep
    <3>2. objects' = objects
      BY <1>2, <2>4 DEF AuthStep, OauthLogin, OauthSignup, Refresh
    <3> QED
      BY <1>1, <3>1, <3>2
  <2> QED
    BY <2>1, <2>2, <2>3, <2>4
<1>3. ASSUME NEW c \in Calls, UserStep(c) PROVE Goal
  <2>1. ASSUME NEW id \in Known, UploadProfileImage(c, id) PROVE Goal
    BY <1>1, <2>1, UploadKeys DEF UploadProfileImage
  <2>2. ASSUME \E id \in Known : DeleteMe(c, id) \/ \E n \in Nicknames : UpdateNickname(c, id, n) PROVE Goal
    <3>1. ImageInv' /\ ImagesStand
      BY <2>2, BeginKeys
    <3>2. objects' = objects
      BY <2>2 DEF DeleteMe, UpdateNickname
    <3> QED
      BY <1>1, <3>1, <3>2
  <2>3. CASE WriteNickname(c) \/ DeleteUser(c)
    <3>1. ImagesStand /\ UNCHANGED <<objects, images>> /\ End(c)
      BY <2>3, RowsKeepImages DEF WriteNickname, DeleteUser
    <3> QED
      BY <1>1, <3>1, EndKeys
  <2>4. CASE UpdateProfileImageKey(c)
    <3>1. objects' = objects
      BY <2>4 DEF UpdateProfileImageKey
    <3> QED
      BY <2>4, <3>1, StoreKey DEF ImageStored
  <2>5. CASE DeleteObject(c)
    <3>1. \A id \in Ids : ImageStored(id) /\ ~ImageStored(id)' => LostBy(id)
      BY <2>5 DEF DeleteObject, ImageStored, LostBy, ImageInv, ImagesOwned, At, Exists
    <3> QED
      BY <2>5, <3>1, DeleteObjectKeys
  <2>6. CASE FindProfileImageKey(c) \/ DeleteDiaryRecords(c) \/ DeleteSoloRecord(c)
    <3>1. objects' = objects
      BY <2>6 DEF FindProfileImageKey, DeleteDiaryRecords, DeleteSoloRecord
    <3> QED
      BY <1>1, <2>6, <3>1, DeletionKeys
  <2> HIDE DEF Goal
  <2> QED
    BY <1>3, <2>1, <2>2, <2>3, <2>4, <2>5, <2>6 DEF UserStep
<1>4. ASSUME NEW c \in Calls, RecordStep(c) \/ Abort(c) PROVE Goal
  <2>1. ASSUME \E id \in Known, p \in Peaks : CreateSoloRecord(c, id, p) PROVE Goal
    <3>1. ImageInv' /\ ImagesStand
      BY <2>1, BeginKeys
    <3>2. objects' = objects
      BY <2>1 DEF CreateSoloRecord
    <3> QED
      BY <1>1, <3>1, <3>2
  <2>2. CASE UpsertSoloRecord(c) \/ Abort(c)
    <3>1. ImagesStand /\ UNCHANGED <<objects, images>> /\ End(c)
      BY <2>2 DEF UpsertSoloRecord, Abort, ImagesStand, Exists
    <3> QED
      BY <1>1, <3>1, EndKeys
  <2> QED
    BY <1>4, <2>1, <2>2 DEF RecordStep
<1>5. ASSUME NEW id \in Known, Logout(id) PROVE Goal
  <2>1. Exists(id) /\ user' = [user EXCEPT ![id].token = FALSE] /\ UNCHANGED <<objects, images, call>>
    BY <1>5 DEF Logout
  <2> QED
    BY <1>1, <2>1, ColumnsKeepImages, SameKeys
<1>6. ASSUME UNCHANGED <<user, objects, images, call>> PROVE Goal
  <2>1. ImagesStand
    BY <1>6 DEF ImagesStand, Exists
  <2> QED
    BY <1>1, <1>6, <2>1, SameKeys
<1>7. ASSUME NEW id \in Known, NEW d \in Dates, UpsertDiary(id, d) \/ DeleteDiary(id, d) PROVE Goal
  BY <1>6, <1>7 DEF UpsertDiary, DeleteDiary
<1>8. ASSUME UNCHANGED vars PROVE Goal
  BY <1>6, <1>8 DEF vars
<1> HIDE DEF Goal
<1>9. Goal
  BY <1>2, <1>3, <1>4, <1>5, <1>7, <1>8 DEF Next
<1> QED
  BY <1>9 DEF Goal

(* A profile loses its image only to a deletion of the account: an object is in    *)
(* the bucket before its key is in the row, and nobody else's deletion takes it.   *)
THEOREM ImagesAreStored == Spec => ImageLostOnlyByDeletion
PROOF
<1> DEFINE Inv == TypeOK /\ ImageInv
<1>1. Init => Inv
  <2>1. Init => ImageInv
    BY DEF Init, ImageInv, KeysGivenOut, UploadsStored, UploadsPrivate, ImagesOwned, Holding, Idle, Exists
  <2> QED
    BY <2>1, InitHolds
<1>2. Inv /\ [Next]_vars => Inv'
  BY StepType, StepImages
<1>3. Inv /\ [Next]_vars =>
        [\A id \in Ids : ImageStored(id) /\ ~ImageStored(id)' => LostBy(id)]_vars
  BY StepImages
<1> QED
  BY <1>1, <1>2, <1>3, PTL DEF Spec, ImageLostOnlyByDeletion

-----------------------------------------------------------------------------
(* ApiServer implements Accounts, for any number of requests, users and names: a *)
(* call that changes an account or its records is one step of Accounts, every    *)
(* other call is none.                                                           *)

(* Ids are given out in order. *)
Numbered == \A id \in Ids : Exists(id) => id <= users

(* Nothing that Accounts sees. *)
Stutter == UNCHANGED <<AccountsNow, solo, diary, Used>>

LEMMA AccountIsSome ==
  ASSUME NEW row, row # NoRow PROVE AccountOf(row) # NoRow
<1>1. DOMAIN [identity |-> row.identity, nickname |-> row.nickname] = {"identity", "nickname"}
  OBVIOUS
<1>2. DOMAIN NoRow = {"none"}
  BY DEF NoRow
<1> QED
  BY <1>1, <1>2 DEF AccountOf

(* The abstract account is there exactly when the row is. *)
LEMMA ThereIsExists == \A id \in Ids : Abstract!There(id) <=> Exists(id)
<1> TAKE id \in Ids
<1>1. AccountsNow[id] = AccountOf(user[id])
  BY DEF AccountsNow
<1>2. CASE user[id] = NoRow
  BY <1>1, <1>2 DEF AccountOf, Abstract!There, Exists
<1>3. CASE user[id] # NoRow
  BY <1>1, <1>3, AccountIsSome DEF Abstract!There, Exists
<1> QED
  BY <1>2, <1>3

LEMMA AccountFields ==
  \A id \in Ids : Exists(id) => /\ AccountsNow[id].identity = user[id].identity
                                /\ AccountsNow[id].nickname = user[id].nickname
BY DEF AccountsNow, AccountOf, Exists

(* A column Accounts does not have. *)
LEMMA SameAccounts ==
  ASSUME \A id \in Ids : Exists(id)' <=> Exists(id),
         \A id \in Ids : Exists(id) => /\ user'[id].identity = user[id].identity
                                       /\ user'[id].nickname = user[id].nickname
  PROVE  AccountsNow' = AccountsNow
BY DEF AccountsNow, AccountOf, Exists

LEMMA ReadsOnly == ASSUME UNCHANGED <<user, solo, diary, users>> PROVE Stutter
BY DEF Stutter, AccountsNow, Used

-----------------------------------------------------------------------------
(* createOAuthUser *)
LEMMA CreateIsSignUp ==
  ASSUME TypeOK, Numbered, DeletedAccountHasNoRecords, NEW c \in Calls, CreateOAuthUser(c),
         Unique(call[c].identity, call[c].nickname)
  PROVE  /\ Abstract!Next
         /\ Numbered'
<1> DEFINE i == call[c].identity
           n == call[c].nickname
           id == users + 1
           row == [identity |-> i, nickname |-> n, token |-> FALSE, image |-> NoKey]
<1>1. /\ Unique(i, n) /\ users < MaxUsers /\ users' = id
      /\ user' = [user EXCEPT ![id] = row]
      /\ UNCHANGED <<solo, diary>>
  BY DEF CreateOAuthUser
<1>2. id \in Ids /\ user \in [Ids -> UserRow \cup {NoRow}] /\ users \in Nat
  BY <1>1, BoundsAssumption DEF TypeOK, Ids
<1>3. i \in Identities /\ n \in Nicknames
  BY InProgress DEF CreateOAuthUser, At, Ops, Argued
<1>4. row # NoRow
  BY <1>3, RowIsSome DEF UserRow
<1>5. ~Exists(id)
  BY <1>2 DEF Numbered
<1>6. AccountsNow' = [AccountsNow EXCEPT ![id] = [identity |-> i, nickname |-> n]]
  BY <1>1, <1>2, <1>4 DEF AccountsNow, AccountOf
<1>7. id \notin Used /\ Used' = Used \cup {id}
  BY <1>1, <1>2 DEF Used
<1>8. Abstract!Free(n, id) /\ \A other \in Ids : Abstract!There(other) => AccountsNow[other].identity # i
  BY <1>1, ThereIsExists, AccountFields DEF Abstract!Free, Unique
<1>9. Abstract!SignUp(id, i, n)
  BY <1>1, <1>2, <1>5, <1>6, <1>7, <1>8, ThereIsExists DEF Abstract!SignUp, DeletedAccountHasNoRecords
<1>10. Numbered'
  BY <1>1, <1>2 DEF Numbered, Exists, Ids
<1> QED
  BY <1>2, <1>3, <1>9, <1>10 DEF Abstract!Next

(* updateNickname *)
LEMMA WriteNicknameIsRename ==
  ASSUME TypeOK, NEW c \in Calls, WriteNickname(c), user' # user
  PROVE  Abstract!Next
<1> DEFINE id == call[c].id
           n == call[c].nickname
<1>1. /\ Exists(id) /\ \A other \in Ids \ {id} : Exists(other) => user[other].nickname # n
      /\ user' = [user EXCEPT ![id].nickname = n]
      /\ UNCHANGED <<solo, diary, users>>
  BY DEF WriteNickname
<1>2. id \in Ids /\ n \in Nicknames /\ user \in [Ids -> UserRow \cup {NoRow}]
  BY InProgress DEF WriteNickname, At, Ops, Argued, TypeOK
<1>3. user[id] \in UserRow
  BY <1>1, <1>2 DEF Exists
<1>4. /\ user'[id].nickname = n /\ user'[id].identity = user[id].identity
      /\ \A other \in Ids \ {id} : user'[other] = user[other]
  BY <1>1, <1>2, <1>3 DEF UserRow
<1>5. user'[id] # NoRow
  <2>1. \A other \in Ids : Exists(other) => user'[other] # NoRow
    BY ColumnWrite DEF Exists
  <2> QED
    BY <1>1, <1>2, <2>1
<1>6. AccountsNow'[id] = [identity |-> AccountsNow[id].identity, nickname |-> n]
  BY <1>1, <1>2, <1>4, <1>5 DEF AccountsNow, AccountOf, Exists
<1>7. \A other \in Ids \ {id} : AccountsNow'[other] = AccountsNow[other]
  BY <1>4 DEF AccountsNow
<1>8. AccountsNow' = [AccountsNow EXCEPT ![id] = [identity |-> AccountsNow[id].identity, nickname |-> n]]
  BY <1>6, <1>7 DEF AccountsNow
<1>9. Abstract!Rename(id, n)
  BY <1>1, <1>2, <1>8, ThereIsExists, AccountFields DEF Abstract!Rename, Abstract!Free, Used
<1> QED
  BY <1>2, <1>9 DEF Abstract!Next

(* The writes and the deletions of records. *)
LEMMA SoloIsScored ==
  ASSUME TypeOK, DeletedAccountHasNoRecords, NEW id \in Ids, NEW record \in SoloRow \cup {NoRow},
         UNCHANGED <<user, users, diary>>, solo' = [solo EXCEPT ![id] = record],
         Exists(id) \/ record = NoRow
  PROVE  Abstract!Next \/ Stutter
<1>1. UNCHANGED <<AccountsNow, Used>>
  BY DEF AccountsNow, Used
<1>2. CASE Exists(id)
  BY <1>1, <1>2, ThereIsExists DEF Abstract!Next, Abstract!Score
<1>3. CASE ~Exists(id)
  <2>1. solo[id] = record /\ DOMAIN solo = Ids /\ solo = [i \in Ids |-> solo[i]]
    BY <1>3 DEF DeletedAccountHasNoRecords, TypeOK
  <2> QED
    BY <1>1, <2>1 DEF Stutter
<1> QED
  BY <1>2, <1>3

LEMMA DiaryIsNoted ==
  ASSUME TypeOK, DeletedAccountHasNoRecords, NEW id \in Ids, NEW dates \in SUBSET Dates,
         UNCHANGED <<user, users, solo>>, diary' = [diary EXCEPT ![id] = dates],
         Exists(id) \/ dates = {}
  PROVE  Abstract!Next \/ Stutter
<1>1. UNCHANGED <<AccountsNow, Used>>
  BY DEF AccountsNow, Used
<1>2. CASE Exists(id)
  BY <1>1, <1>2, ThereIsExists DEF Abstract!Next, Abstract!Note
<1>3. CASE ~Exists(id)
  <2>1. diary[id] = dates /\ DOMAIN diary = Ids /\ diary = [i \in Ids |-> diary[i]]
    BY <1>3 DEF DeletedAccountHasNoRecords, TypeOK
  <2> QED
    BY <1>1, <2>1 DEF Stutter
<1> QED
  BY <1>2, <1>3

(* deleteUser *)
LEMMA DeleteUserIsClose ==
  ASSUME TypeOK, NEW c \in Calls, DeleteUser(c), user' # user
  PROVE  Abstract!Next
<1> DEFINE id == call[c].id
<1>1. Unreferenced(id) /\ user' = [user EXCEPT ![id] = NoRow] /\ UNCHANGED <<solo, diary, users>>
  BY DEF DeleteUser
<1>2. id \in Ids /\ user \in [Ids -> UserRow \cup {NoRow}]
  BY InProgress DEF DeleteUser, At, Ops, Argued, TypeOK
<1>3. Exists(id)
  BY <1>1, <1>2 DEF Exists
<1>4. AccountsNow' = [AccountsNow EXCEPT ![id] = NoRow]
  BY <1>1, <1>2 DEF AccountsNow, AccountOf
<1>5. Abstract!Close(id)
  BY <1>1, <1>2, <1>3, <1>4, ThereIsExists DEF Abstract!Close, Unreferenced, Used
<1> QED
  BY <1>2, <1>5 DEF Abstract!Next

-----------------------------------------------------------------------------
Inv == TypeOK /\ DeletedAccountHasNoRecords /\ Numbered

(* Only createOAuthUser makes a row. *)
LEMMA StillNumbered ==
  ASSUME TypeOK, Numbered, UNCHANGED users, \A id \in Ids : Exists(id)' => Exists(id)
  PROVE  Numbered'
BY DEF Numbered

(* A step of ApiServer is a step of Accounts or a stutter, and keeps ids in order. *)
LEMMA StepRefines == Inv /\ [Next]_vars => (Abstract!Next \/ Stutter) /\ Numbered'
<1> SUFFICES ASSUME Inv, [Next]_vars PROVE (Abstract!Next \/ Stutter) /\ Numbered'
  OBVIOUS
<1> USE DEF Inv
<1> DEFINE Goal == (Abstract!Next \/ Stutter) /\ Numbered'
<1>1. ASSUME UNCHANGED <<user, solo, diary, users>> PROVE Goal
  BY <1>1, ReadsOnly, StillNumbered DEF Exists
<1>2. ASSUME NEW c \in Calls, CreateOAuthUser(c) PROVE Goal
  <2>1. CASE ~Unique(call[c].identity, call[c].nickname)
    BY <1>1, <1>2, <2>1 DEF CreateOAuthUser
  <2>2. CASE Unique(call[c].identity, call[c].nickname)
    BY <1>2, <2>2, CreateIsSignUp
  <2> QED
    BY <2>1, <2>2
<1>3. ASSUME NEW c \in Calls, WriteToken(c) \/ UpdateProfileImageKey(c) PROVE Goal
  <2>1. UNCHANGED <<solo, diary, users>> /\ \A id \in Ids : Exists(id)' <=> Exists(id)
    BY <1>3, ColumnWrite DEF WriteToken, UpdateProfileImageKey
  <2>2. AccountsNow' = AccountsNow
    BY <1>3, <2>1, ColumnWrite, OtherColumnsStand, SameAccounts
  <2> QED
    BY <2>1, <2>2, StillNumbered DEF Stutter, Used
<1>4. ASSUME NEW c \in Calls, WriteNickname(c) PROVE Goal
  <2>1. UNCHANGED <<solo, diary, users>> /\ \A id \in Ids : Exists(id)' <=> Exists(id)
    BY <1>4, ColumnWrite DEF WriteNickname
  <2>2. CASE user' = user
    BY <1>1, <2>1, <2>2
  <2>3. CASE user' # user
    BY <1>4, <2>1, <2>3, WriteNicknameIsRename, StillNumbered
  <2> QED
    BY <2>2, <2>3
<1>5. ASSUME NEW c \in Calls, DeleteDiaryRecords(c) PROVE Goal
  <2>1. PICK id \in Ids : id = call[c].id
    BY <1>5, InProgress DEF DeleteDiaryRecords, At, Ops, Argued
  <2>2. UNCHANGED <<user, users, solo>> /\ diary' = [diary EXCEPT ![id] = {}]
    BY <1>5, <2>1 DEF DeleteDiaryRecords
  <2> QED
    BY <2>2, DiaryIsNoted, StillNumbered DEF Exists
<1>6. ASSUME NEW c \in Calls, DeleteSoloRecord(c) PROVE Goal
  <2>1. PICK id \in Ids : id = call[c].id
    BY <1>6, InProgress DEF DeleteSoloRecord, At, Ops, Argued
  <2>2. UNCHANGED <<user, users, diary>> /\ solo' = [solo EXCEPT ![id] = NoRow]
    BY <1>6, <2>1 DEF DeleteSoloRecord
  <2> QED
    BY <2>2, SoloIsScored, StillNumbered DEF Exists
<1>7. ASSUME NEW c \in Calls, UpsertSoloRecord(c) PROVE Goal
  <2> DEFINE req == call[c]
             new == [best |-> IF solo[req.id] = NoRow THEN req.peak ELSE NewBest(req.seen, req.peak)]
  <2>1. PICK id \in Ids : id = req.id
    BY <1>7, InProgress DEF UpsertSoloRecord, At, Ops, Argued
  <2>2. CASE user[id] = NoRow
    BY <1>1, <1>7, <2>1, <2>2 DEF UpsertSoloRecord, Exists
  <2>3. CASE user[id] # NoRow
    <3>1. req.peak \in Peaks /\ req.seen \in SoloRow \cup {NoRow}
      BY <1>7, InProgress DEF UpsertSoloRecord, At, Ops, Argued, Call
    <3>2. new \in SoloRow
      BY <3>1 DEF SoloRow, NewBest
    <3>3. UNCHANGED <<user, users, diary>> /\ solo' = [solo EXCEPT ![id] = new]
      BY <1>7, <2>1, <2>3 DEF UpsertSoloRecord, Exists
    <3>4. PICK record \in SoloRow : record = new
      BY <3>2
    <3>5. solo' = [solo EXCEPT ![id] = record]
      BY <3>3, <3>4
    <3> HIDE DEF new, req
    <3>6. Abstract!Next \/ Stutter
      BY <2>3, <3>3, <3>5, SoloIsScored DEF Exists
    <3> QED
      BY <3>3, <3>6, StillNumbered DEF Exists
  <2> QED
    BY <2>2, <2>3
<1>8. ASSUME NEW c \in Calls, DeleteUser(c) PROVE Goal
  <2>1. UNCHANGED <<solo, diary, users>> /\ \A id \in Ids : Exists(id)' => Exists(id)
    BY <1>8 DEF DeleteUser, Exists, TypeOK
  <2>2. CASE user' = user
    BY <1>1, <2>1, <2>2
  <2>3. CASE user' # user
    BY <1>8, <2>1, <2>3, DeleteUserIsClose, StillNumbered
  <2> QED
    BY <2>2, <2>3
<1>9. ASSUME NEW id \in Known, Logout(id) PROVE Goal
  <2>1. UNCHANGED <<solo, diary, users>> /\ \A i \in Ids : Exists(i)' <=> Exists(i)
    BY <1>9, LogoutWrite DEF Logout
  <2>2. \A i \in Ids : Exists(i) => /\ user'[i].identity = user[i].identity
                                     /\ user'[i].nickname = user[i].nickname
    BY <1>9, LogoutWrite, NicknameStands DEF Logout
  <2>3. AccountsNow' = AccountsNow
    BY <2>1, <2>2, SameAccounts
  <2> QED
    BY <2>1, <2>3, StillNumbered DEF Stutter, Used
<1>10. ASSUME NEW id \in Known, NEW d \in Dates, UpsertDiary(id, d) \/ DeleteDiary(id, d) PROVE Goal
  <2>1. id \in Ids
    BY DEF TypeOK, Known
  <2>2. Exists(id)
    BY <1>10, <2>1 DEF UpsertDiary, DeleteDiary, DeletedAccountHasNoRecords
  <2>3. PICK dates \in SUBSET Dates : /\ UNCHANGED <<user, users, solo>>
                                       /\ diary' = [diary EXCEPT ![id] = dates]
    <3>1. diary[id] \cup {d} \in SUBSET Dates /\ diary[id] \ {d} \in SUBSET Dates
      BY <2>1 DEF TypeOK
    <3> QED
      BY <1>10, <3>1 DEF UpsertDiary, DeleteDiary
  <2> QED
    BY <2>1, <2>2, <2>3, DiaryIsNoted, StillNumbered DEF Exists
<1>11. ASSUME NEW c \in Calls, AuthStep(c) PROVE Goal
  BY <1>1, <1>2, <1>3, <1>11 DEF AuthStep, OauthLogin, OauthSignup, Refresh, AnswerTokens
<1>12. ASSUME NEW c \in Calls, UserStep(c) PROVE Goal
  <2>1. CASE WriteNickname(c) \/ UpdateProfileImageKey(c) \/ DeleteDiaryRecords(c)
             \/ DeleteSoloRecord(c) \/ DeleteUser(c)
    BY <1>3, <1>4, <1>5, <1>6, <1>8, <2>1
  <2>2. CASE (\E id \in Known : UploadProfileImage(c, id) \/ DeleteMe(c, id)
                 \/ \E n \in Nicknames : UpdateNickname(c, id, n))
             \/ FindProfileImageKey(c) \/ DeleteObject(c)
    BY <1>1, <2>2 DEF UploadProfileImage, DeleteMe, UpdateNickname, FindProfileImageKey, DeleteObject
  <2> QED
    BY <1>12, <2>1, <2>2 DEF UserStep
<1>13. ASSUME NEW c \in Calls, RecordStep(c) \/ Abort(c) PROVE Goal
  BY <1>1, <1>7, <1>13 DEF RecordStep, CreateSoloRecord, Abort
<1>14. CASE UNCHANGED vars
  BY <1>1, <1>14 DEF vars
<1> QED
  BY <1>9, <1>10, <1>11, <1>12, <1>13, <1>14 DEF Next

LEMMA InitRefines == Init => Inv /\ Abstract!Init
<1> SUFFICES ASSUME Init PROVE Inv /\ Abstract!Init
  OBVIOUS
<1>1. Inv
  BY InitHolds DEF Init, Inv, Numbered, Exists
<1>2. AccountsNow = [id \in Ids |-> NoRow] /\ Used = {}
  BY DEF Init, AccountsNow, AccountOf, Used
<1> QED
  BY <1>1, <1>2 DEF Init, Abstract!Init

(* Whatever runs together and wherever it fails, each call of each request is a  *)
(* whole step of Accounts or none: the accounts' rules hold at every call.       *)
THEOREM AccountsImplemented == Spec => ImplementsAccounts
<1>1. Inv /\ [Next]_vars => Inv'
  BY StepType, StepRecords, StepRefines DEF Inv
<1>2. Inv /\ [Next]_vars => [Abstract!Next]_(Abstract!vars)
  BY StepRefines DEF Stutter, Abstract!vars
<1> QED
  BY <1>1, <1>2, InitRefines, PTL DEF Spec, ImplementsAccounts, Abstract!Spec
=============================================================================
