---------------------------- MODULE ApiServerProps ----------------------------
(***************************************************************************)
(* What the API should keep true of an account's data while several of its *)
(* requests are in progress.                                               *)
(***************************************************************************)
EXTENDS ApiServer

(* An identity has at most one account and a nickname one holder: the check     *)
(* and the insert of completeOAuthSignup, and those of updateNickname, are two  *)
(* calls, and two requests may pass the check together.                         *)
OneAccountEach ==
  \A a, b \in Ids : a # b /\ Exists(a) /\ Exists(b) =>
    user[a].identity # user[b].identity /\ user[a].nickname # user[b].nickname

(* A deleted account leaves no records, although a record may be written       *)
(* between deleteMe's deletions and by a token that outlives the account.       *)
DeletedAccountHasNoRecords ==
  \A id \in Ids : ~Exists(id) => solo[id] = NoRow /\ diary[id] = {}

(* An account that is gone stays gone and its sessions run out: no login, signup *)
(* or refresh begins for it, and of those its deletion has overtaken only the    *)
(* ones that had stored their token before may still be answered with it.        *)
Overtaken(id) == {c \in Calls : call[c].op = "token" /\ call[c].id = id}
Stored(id) == {c \in Overtaken(id) : call[c].step = "answer"}
SessionsEndWithAccount ==
  [][\A id \in 1..users : ~Exists(id) =>
       /\ ~Exists(id)'
       /\ Overtaken(id)' \subseteq Overtaken(id) /\ Stored(id)' \subseteq Stored(id)]_vars

(* A profile's image key refers to a stored object, until a deletion of that    *)
(* account that has read the key removes the object (and may go no further).    *)
ImageStored(id) == ~Exists(id) \/ user[id].image \in objects \cup {NoKey}
LostBy(id) ==
  \E c \in Calls : At(c, "deleteMe", "deleteObject") /\ call[c].id = id /\ call[c].key = user[id].image
ImageLostOnlyByDeletion ==
  [][\A id \in Ids : ImageStored(id) /\ ~ImageStored(id)' => LostBy(id)]_vars

(* bestDb falls only when the request that writes it has not seen the record it *)
(* overwrites: requests that do not overlap accumulate the maximum.             *)
BestFallsOnlyByOverlap ==
  [][\A id \in Ids : solo[id] # NoRow /\ solo'[id] # NoRow /\ solo'[id].best < solo[id].best =>
       \E c \in Calls : /\ At(c, "solo", "write") /\ call'[c] = Idle
                        /\ call[c].id = id /\ call[c].seen # solo[id]]_vars

(* Every call of every request is a step of Accounts, or none: the checks that   *)
(* an account needs are made again by the database at the call that changes it.  *)
AccountOf(row) == IF row = NoRow THEN NoRow ELSE [identity |-> row.identity, nickname |-> row.nickname]
AccountsNow == [id \in Ids |-> AccountOf(user[id])]
Used == 1..users
Abstract == INSTANCE Accounts WITH account <- AccountsNow, used <- Used, Records <- SoloRow, Nothing <- NoRow
ImplementsAccounts == Abstract!Spec
=============================================================================
