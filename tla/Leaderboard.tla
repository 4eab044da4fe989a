----------------------------- MODULE Leaderboard -----------------------------
(***************************************************************************)
(* GET /leaderboard/global over the tables of ApiServer.  The list and the *)
(* caller's own entry are read at the same time, each by several queries   *)
(* outside any transaction, so signups, new records and deletions run      *)
(* between any two of them.                                                *)
(*                                                                         *)
(* An entry is its user and its score; nickname, avatar and image, and the *)
(* signing of image URLs after the last query, are left out.  Of the API's *)
(* requests those that change what the queries count are in Next.          *)
(***************************************************************************)
EXTENDS ApiServer, Sequences, SequencesExt

CONSTANTS TopN,    \* TOP_N, 50 in the code
          MaxMoved \* bound: users whose place changes during one request
ASSUME TopNAssumption == TopN \in Nat \ {0} /\ MaxMoved \in Nat

VARIABLES read, \* the request in progress, or NoRead
          moved \* history: the users whose place has changed since it began

boardVars == <<user, solo, diary, objects, users, images, issued, call, read, moved>>

-----------------------------------------------------------------------------
NoRead == [listStep |-> "none"]
Entry == [id : Ids, best : Nat]
ReadType == [me : Ids, listStep : {"records", "rest", "done"}, list : Seq(Entry),
         myStep : {"user", "record", "higher", "counts", "done"}, mine : SoloRow \cup {NoRow},
         counted : SUBSET {"records", "before"}, rank : Nat]
NoEntry == 0 \* the rank of a caller without an account: myEntry is null

BoardTypeOK ==
  /\ TypeOK
  /\ read \in ReadType \cup {NoRead}
  /\ read # NoRead => Len(read.list) <= TopN
  /\ moved \subseteq Ids

(* The first request finds accounts and records of any kind, left by earlier ones, *)
(* and no request in progress.                                                     *)
BoardInit ==
  /\ users \in 0..MaxUsers
  /\ \E who \in SUBSET (1..users) :
       \E i \in Injection(who, Identities), n \in Injection(who, Nicknames) :
         user = [id \in Ids |-> IF id \in who
                                THEN [identity |-> i[id], nickname |-> n[id], token |-> TRUE, image |-> NoKey]
                                ELSE NoRow]
  /\ solo \in [Ids -> SoloRow \cup {NoRow}]
  /\ \A id \in Ids : solo[id] # NoRow => Exists(id)
  /\ issued = {id \in Ids : Exists(id)}
  /\ diary = [id \in Ids |-> {}]
  /\ objects = {} /\ images = 0
  /\ call = [c \in Calls |-> Idle]
  /\ read = NoRead /\ moved = {}

Scored   == {id \in Ids : solo[id] # NoRow}
Unscored == {id \in Ids : Exists(id) /\ solo[id] = NoRow}

(* The prefix a query with "take" returns. *)
Take(s, n) == SubSeq(s, 1, Min({n, Len(s)}))

-----------------------------------------------------------------------------
(* getGlobalLeaderboard, up to its Promise.all. *)
GetGlobalLeaderboard(id) ==
  /\ read = NoRead
  /\ read' = [me |-> id, listStep |-> "records", list |-> <<>>, myStep |-> "user",
              mine |-> NoRow, counted |-> {}, rank |-> 1]

(* getTopEntries, the first query: ORDER BY bestDb alone leaves the order of ties *)
(* to the database.                                                               *)
Ranked_Ascending(s) == \A i, j \in DOMAIN s : i < j => solo[s[i]].best <= solo[s[j]].best \* mutated: asc
Ranked(s) == \A i, j \in DOMAIN s : i < j => solo[s[i]].best >= solo[s[j]].best
TopRecords ==
  /\ read.listStep = "records"
  /\ \E s \in SetToSeqs(Scored) :
       LET top == Take(s, TopN) IN
       /\ Ranked(s)
       /\ read' = [read EXCEPT
                     !.list = [i \in DOMAIN top |-> [id |-> top[i], best |-> solo[top[i]].best]],
                     !.listStep = IF Len(top) < TopN THEN "rest" ELSE "done"]

(* The second query fills the remaining places, by age. *)
ByAge(s) == \A i, j \in DOMAIN s : i < j => s[i] < s[j]
Others_All == {s \in SetToSeqs({id \in Ids : Exists(id)}) : ByAge(s)} \* mutated: no "soloRecords none"
Others == {s \in SetToSeqs(Unscored) : ByAge(s)}
Remaining_All == TopN \* mutated: the records are not subtracted
Remaining == TopN - Len(read.list)
TopOthers ==
  /\ read.listStep = "rest"
  /\ \E s \in Others :
       LET rest == Take(s, Remaining) IN
       read' = [read EXCEPT !.list = @ \o [i \in DOMAIN rest |-> [id |-> rest[i], best |-> 0]],
                            !.listStep = "done"]

-----------------------------------------------------------------------------
(* getMyEntry: the user, *)
FindMe ==
  /\ read.myStep = "user"
  /\ read' = IF Exists(read.me) THEN [read EXCEPT !.myStep = "record"]
             ELSE [read EXCEPT !.myStep = "done", !.rank = NoEntry]

(* the user's record, *)
FindMyRecord ==
  /\ read.myStep = "record"
  /\ read' = [read EXCEPT !.mine = solo[read.me],
                          !.myStep = IF solo[read.me] = NoRow THEN "counts" ELSE "higher"]

(* with a record, those above it; *)
Higher_Ties(best) == {id \in Scored : solo[id].best >= best} \* mutated: gte
Higher(best) == {id \in Scored : solo[id].best > best}
CountHigher ==
  /\ read.myStep = "higher"
  /\ read' = [read EXCEPT !.rank = @ + Cardinality(Higher(read.mine.best)), !.myStep = "done"]

(* without one, all records and the older users without one, in two queries. *)
Before_All(id) == Unscored \ {id} \* mutated: no "id lt userId"
Before(id) == {other \in Unscored : other < id}
Count(query, S) ==
  LET counted == read.counted \cup {query} IN
  /\ read.myStep = "counts" /\ query \notin read.counted
  /\ read' = [read EXCEPT !.rank = @ + Cardinality(S), !.counted = counted,
                          !.myStep = IF counted = {"records", "before"} THEN "done" ELSE @]
CountRecords == Count("records", Scored)
CountBefore  == Count("before", Before(read.me))

-----------------------------------------------------------------------------
Answered(r) == r # NoRead /\ r.listStep = "done" /\ r.myStep = "done"

(* The request ends: both entries are there, or a query has failed. *)
EndRead == read # NoRead /\ read' = NoRead

ReadStep ==
  \/ \E id \in Known : GetGlobalLeaderboard(id)
  \/ /\ read # NoRead
     /\ \/ TopRecords \/ TopOthers
        \/ FindMe \/ FindMyRecord \/ CountHigher \/ CountRecords \/ CountBefore
        \/ EndRead

(* The requests that write what the queries read: signup, records, deletion; and a *)
(* login, where it gives a client the token to ask with.                           *)
WriteStep ==
  \E c \in Calls :
    \/ (\E i \in Identities : \/ OauthLogin(c, i) /\ call'[c].id \notin Known
                              \/ \E n \in Nicknames : OauthSignup(c, i, n))
    \/ CreateOAuthUser(c) \/ WriteToken(c) \/ AnswerTokens(c)
    \/ RecordStep(c) \/ Abort(c)
    \/ (\E id \in Known : DeleteMe(c, id))
    \/ FindProfileImageKey(c) \/ DeleteObject(c) \/ DeleteDiaryRecords(c) \/ DeleteSoloRecord(c)
    \/ DeleteUser(c)

Displaced == {id \in Ids : Exists(id)' # Exists(id) \/ solo'[id] # solo[id]}

BoardNext ==
  \/ ReadStep /\ UNCHANGED vars /\ moved' = (IF read' = NoRead THEN {} ELSE moved)
  \/ ~Answered(read) /\ WriteStep /\ UNCHANGED read
     /\ moved' = (IF read = NoRead THEN {} ELSE moved \cup Displaced)
     /\ Cardinality(moved') <= MaxMoved

BoardSpec == BoardInit /\ [][BoardNext]_boardVars
=============================================================================
