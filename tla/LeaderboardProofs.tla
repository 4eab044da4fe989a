--------------------------- MODULE LeaderboardProofs ---------------------------
(***************************************************************************)
(* The properties of LeaderboardProps, for any number of users, requests   *)
(* and places.  The types and the foreign key of the records are those of  *)
(* ApiServerProofs.  About the request in progress one fact carries all:   *)
(* for the users who have not moved since it began, what its queries found *)
(* is what is there now.                                                   *)
(***************************************************************************)
EXTENDS LeaderboardProps, ApiServerProofs, FiniteSetTheorems, SequenceTheorems

(* The list so far, as far as it concerns users who have not moved: it is in the *)
(* order of the board, and after its first query they are the scored ones.       *)
Names(list, id) == \E i \in DOMAIN list : list[i].id = id
Orderly(list) ==
  \A i, j \in DOMAIN list : i < j /\ list[i].id \notin moved /\ list[j].id \notin moved =>
    list[i].id # list[j].id /\ ~Ahead(list[j].id, list[i].id)
Present(list) == \A i \in DOMAIN list : list[i].id \notin moved => Exists(list[i].id)
Complete(list) ==
  \A id \in Still : ~Names(list, id) =>
    Len(list) = TopN /\ \A i \in DOMAIN list : list[i].id \notin moved => ~Ahead(id, list[i].id)
ListInv(r) ==
  /\ Orderly(r.list) /\ Present(r.list)
  /\ r.listStep = "records" => r.list = <<>>
  /\ r.listStep = "rest" => Len(r.list) < TopN /\ \A id \in Ids \ moved : id \in Scored <=> Names(r.list, id)
  /\ r.listStep = "done" => Complete(r.list)

(* The rank so far of a caller who has not moved: one more than the sizes of the *)
(* sets the counts have found, which but for those moved are the present ones.   *)
Agree(found, present) == \A id \in Ids \ moved : id \in found <=> id \in present
Sum(P, Q) == 1 + Cardinality(P) + Cardinality(Q)
CountsInv(r) ==
  \E P, Q \in SUBSET Ids :
    /\ r.rank = Sum(P, Q)
    /\ IF "records" \in r.counted THEN Agree(P, Scored) ELSE P = {}
    /\ IF "before" \in r.counted THEN Agree(Q, Before(r.me)) ELSE Q = {}
Ranks(r) ==
  \E P, Q \in SUBSET Ids :
    r.rank = Sum(P, Q) /\ P \cap Q \subseteq moved /\ Agree(P \cup Q, {id \in Ids : Ahead(id, r.me)})
RankInv(r) ==
  r.me \in Still =>
    /\ r.myStep \in {"user", "record", "higher"} => r.rank = 1 /\ r.counted = {}
    /\ r.myStep = "higher" => r.mine = solo[r.me] /\ solo[r.me] # NoRow
    /\ r.myStep = "counts" => solo[r.me] = NoRow /\ CountsInv(r)
    /\ r.myStep = "done" => Ranks(r)

BoardInv ==
  /\ BoardTypeOK /\ DeletedAccountHasNoRecords
  /\ read = NoRead => moved = {}
  /\ read # NoRead => ListInv(read) /\ RankInv(read)

-----------------------------------------------------------------------------
LEMMA TakePrefix ==
  ASSUME NEW S, NEW s \in Seq(S), NEW n \in Nat, NEW t, t = Take(s, n)
  PROVE  /\ t \in Seq(S) /\ Len(t) = (IF n <= Len(s) THEN n ELSE Len(s))
         /\ \A i \in 1..Len(t) : t[i] = s[i] /\ i \in 1..Len(s)
<1>1. PICK len \in Nat : len = Len(s)
  OBVIOUS
<1>2. PICK m \in Nat : m = IF n <= len THEN n ELSE len
  OBVIOUS
<1>3. Min({n, len}) = m
  <2>1. \E x \in {n, len} : \A y \in {n, len} : x <= y
    OBVIOUS
  <2>2. Min({n, len}) \in {n, len} /\ \A y \in {n, len} : Min({n, len}) <= y
    BY <2>1 DEF Min
  <2> QED
    BY <1>2, <2>2
<1>4. t = SubSeq(s, 1, m)
  BY <1>1, <1>3 DEF Take
<1>5. m <= len /\ \A i \in 1..m : s[i] \in S /\ i \in 1..len
  BY <1>1, <1>2
<1>6. t \in Seq(S) /\ Len(t) = m /\ \A i \in 1..m : t[i] = s[i]
  BY <1>4, <1>5, SubSeqProperties
<1> QED
  BY <1>1, <1>2, <1>5, <1>6

(* A query that puts the rows of a table in some order returns each once. *)
LEMMA RowsOnce ==
  ASSUME NEW S \in SUBSET Ids, NEW s \in SetToSeqs(S)
  PROVE  /\ s \in Seq(S) /\ \A i, j \in 1..Len(s) : i # j => s[i] # s[j]
         /\ \A id \in S : \E i \in 1..Len(s) : s[i] = id
<1>1. IsFiniteSet(S)
  <2>1. IsFiniteSet(1..MaxUsers)
    BY BoundsAssumption, FS_Interval
  <2> QED
    BY <2>1, FS_Subset DEF Ids
<1>2. PICK n \in Nat : n = Cardinality(S)
  BY <1>1, FS_CardinalityType
<1>3. s \in [1..n -> S] /\ \A i, j \in 1..n : i # j => s[i] # s[j]
  BY <1>2 DEF SetToSeqs
<1>4. s \in Seq(S) /\ Len(s) = n
  BY <1>3
<1>5. s \in Injection(1..n, S)
  BY <1>3 DEF Injection, IsInjective
<1>6. Cardinality(1..n) = n
  BY FS_Interval
<1>7. s \in Surjection(1..n, S)
  BY <1>1, <1>2, <1>5, <1>6, FS_Injection
<1> QED
  BY <1>3, <1>4, <1>7 DEF Surjection

LEMMA SetsOfIds ==
  ASSUME NEW S \in SUBSET Ids PROVE IsFiniteSet(S) /\ Cardinality(S) \in Nat
<1>1. IsFiniteSet(1..MaxUsers)
  BY BoundsAssumption, FS_Interval
<1>2. IsFiniteSet(S)
  BY <1>1, FS_Subset DEF Ids
<1> QED
  BY <1>2, FS_CardinalityType

-----------------------------------------------------------------------------
(* The types of the tables, and of what is read from them. *)
LEMMA Tables ==
  ASSUME BoardTypeOK, DeletedAccountHasNoRecords
  PROVE  /\ \A id \in Scored : solo[id] \in SoloRow /\ solo[id].best \in Nat /\ Exists(id)
         /\ Scored \subseteq Ids /\ Unscored \subseteq Ids /\ Ids \subseteq Nat
         /\ \A id \in Ids : Exists(id) <=> id \in Scored \cup Unscored
         /\ Scored \cap Unscored = {}
         /\ moved \subseteq Ids
         /\ read # NoRead => read \in ReadType
<1>1. solo \in [Ids -> SoloRow \cup {NoRow}]
  BY DEF BoardTypeOK, TypeOK
<1>2. \A id \in Scored : id \in Ids /\ solo[id] # NoRow
  BY DEF Scored
<1>3. \A id \in Scored : solo[id] \in SoloRow /\ solo[id].best \in Nat
  BY <1>1, <1>2, ValuesAssumption DEF SoloRow
<1>4. \A id \in Scored : Exists(id)
  BY <1>2 DEF DeletedAccountHasNoRecords
<1>5. Ids \subseteq Nat
  BY DEF Ids
<1> QED
  BY <1>2, <1>3, <1>4, <1>5 DEF Scored, Unscored, BoardTypeOK

LEMMA EntryIds ==
  ASSUME NEW list \in Seq(Entry) PROVE \A i \in DOMAIN list : list[i].id \in Ids
<1>1. \A i \in DOMAIN list : list[i] \in Entry
  OBVIOUS
<1> QED
  BY <1>1 DEF Entry

LEMMA WriteIsStep == WriteStep => Next
BY DEF WriteStep, Next, AuthStep, UserStep, RecordStep

LEMMA InitBoard == BoardInit => BoardInv
<1> SUFFICES ASSUME BoardInit PROVE BoardInv
  OBVIOUS
<1>0. PICK who \in SUBSET (1..users) :
        \E i \in Injection(who, Identities), n \in Injection(who, Nicknames) :
          user = [id \in Ids |-> IF id \in who
                                 THEN [identity |-> i[id], nickname |-> n[id], token |-> TRUE, image |-> NoKey]
                                 ELSE NoRow]
  BY DEF BoardInit
<1>1. PICK i \in Injection(who, Identities), n \in Injection(who, Nicknames) :
        user = [id \in Ids |-> IF id \in who
                               THEN [identity |-> i[id], nickname |-> n[id], token |-> TRUE, image |-> NoKey]
                               ELSE NoRow]
  BY <1>0
<1>2. \A id \in who : i[id] \in Identities /\ n[id] \in Nicknames
  BY DEF Injection
<1>3. user \in [Ids -> UserRow \cup {NoRow}]
  BY <1>1, <1>2 DEF UserRow
<1>4. call \in [Calls -> Call \cup {Idle}] /\ \A c \in Calls : Argued(call[c])
  BY DEF BoardInit, Argued, Ops, Idle
<1>5. TypeOK
  BY <1>3, <1>4, BoundsAssumption DEF BoardInit, TypeOK
<1> QED
  BY <1>5 DEF BoardInit, BoardInv, BoardTypeOK, DeletedAccountHasNoRecords

-----------------------------------------------------------------------------
(* A write changes nothing about who has not moved. *)
LEMMA WriteKeeps ==
  ASSUME BoardInv, WriteStep, UNCHANGED read,
         moved' = (IF read = NoRead THEN {} ELSE moved \cup Displaced)
  PROVE  BoardInv'
<1>1. TypeOK' /\ DeletedAccountHasNoRecords'
  BY WriteIsStep, StepType, StepRecords DEF BoardInv, BoardTypeOK
<1>2. moved' \subseteq Ids
  BY DEF BoardInv, BoardTypeOK, Displaced
<1>3. BoardTypeOK'
  BY <1>1, <1>2 DEF BoardInv, BoardTypeOK, ReadType, NoRead, Entry, Ids, SoloRow
<1>4. CASE read = NoRead
  BY <1>1, <1>3, <1>4 DEF BoardInv, NoRead
<1>5. CASE read # NoRead
  <2>1. moved \subseteq moved' /\ Displaced \subseteq moved'
    BY <1>5
  <2>2. \A id \in Ids \ moved' : /\ id \in Ids \ moved /\ (Exists(id)' <=> Exists(id)) /\ solo'[id] = solo[id]
                                 /\ (id \in Scored' <=> id \in Scored) /\ (id \in Unscored' <=> id \in Unscored)
                                 /\ (id \in Still' <=> id \in Still)
    BY <2>1 DEF Displaced, Scored, Unscored, Still
  <2>3. \A a, b \in Ids \ moved' : Ahead(a, b)' <=> Ahead(a, b)
    BY <2>2 DEF Ahead
  <2>4. \A id \in Still' : id \in Ids \ moved' /\ id \in Still
    BY <2>2 DEF Still
  <2>5. read' = read /\ read \in ReadType /\ ListInv(read) /\ RankInv(read)
    BY <1>5 DEF BoardInv, BoardTypeOK
  <2>6. \A i \in DOMAIN read.list : read.list[i].id \in Ids
    <3>1. read.list \in Seq(Entry)
      BY <2>5 DEF ReadType
    <3> QED
      BY <3>1, EntryIds
  <2>7. Orderly(read.list)' /\ Present(read.list)' /\ (Complete(read.list) => Complete(read.list)')
    <3>1. Orderly(read.list)'
      BY <2>1, <2>3, <2>5, <2>6 DEF ListInv, Orderly
    <3>2. Present(read.list)'
      BY <2>1, <2>2, <2>5, <2>6 DEF ListInv, Present
    <3>3. ASSUME Complete(read.list) PROVE Complete(read.list)'
      BY <2>1, <2>3, <2>4, <2>5, <2>6, <3>3 DEF Complete, Names
    <3> QED
      BY <3>1, <3>2, <3>3
  <2>8. ListInv(read)'
    BY <2>2, <2>5, <2>7 DEF ListInv, Names
  <2>9. RankInv(read)'
    <3> SUFFICES ASSUME read.me \in Still' PROVE RankInv(read)'
      BY <2>5 DEF RankInv
    <3>1. read.me \in Still /\ read.me \in Ids \ moved' /\ solo'[read.me] = solo[read.me]
      BY <2>2, <2>4
    <3>2. \A P, S, T : (\A id \in Ids \ moved' : id \in S <=> id \in T) /\ Agree(P, S) => \A id \in Ids \ moved' : id \in P <=> id \in T
      BY <2>1 DEF Agree
    <3>3. ASSUME CountsInv(read) PROVE CountsInv(read)'
      <4>1. \A id \in Ids \ moved' : id \in Before(read.me) <=> id \in Before(read.me)'
        BY <2>2, <2>5 DEF Before
      <4>2. PICK P, Q \in SUBSET Ids :
              /\ read.rank = Sum(P, Q)
              /\ IF "records" \in read.counted THEN Agree(P, Scored) ELSE P = {}
              /\ IF "before" \in read.counted THEN Agree(Q, Before(read.me)) ELSE Q = {}
        BY <3>3 DEF CountsInv
      <4>3. "records" \in read.counted => Agree(P, Scored)'
        BY <2>2, <3>2, <4>2 DEF Agree
      <4>4. "before" \in read.counted => Agree(Q, Before(read.me))'
        BY <3>2, <4>1, <4>2 DEF Agree
      <4> QED
        BY <2>5, <4>2, <4>3, <4>4 DEF CountsInv, Sum
    <3>4. ASSUME Ranks(read) PROVE Ranks(read)'
      <4>1. PICK P, Q \in SUBSET Ids :
              /\ read.rank = Sum(P, Q) /\ P \cap Q \subseteq moved
              /\ Agree(P \cup Q, {id \in Ids : Ahead(id, read.me)})
        BY <3>4 DEF Ranks
      <4>2. \A id \in Ids \ moved' : Ahead(id, read.me)' <=> Ahead(id, read.me)
        BY <2>3, <3>1
      <4>3. \A id \in Ids \ moved' : id \in P \cup Q <=> Ahead(id, read.me)'
        BY <2>1, <4>1, <4>2 DEF Agree
      <4> QED
        BY <2>1, <2>5, <4>1, <4>3 DEF Ranks, Agree, Sum
    <3> QED
      BY <2>5, <3>1, <3>3, <3>4 DEF RankInv
  <2> QED
    BY <1>1, <1>3, <1>5, <2>5, <2>8, <2>9 DEF BoardInv
<1> QED
  BY <1>4, <1>5

-----------------------------------------------------------------------------
(* A query changes nothing but the request, *)
LEMMA ReadKeeps ==
  ASSUME BoardInv, UNCHANGED vars, moved' = moved, read # NoRead, read' \in ReadType,
         Len(read'.list) <= TopN, ListInv(read'), RankInv(read')
  PROVE  BoardInv'
<1>1. TypeOK' /\ DeletedAccountHasNoRecords'
  BY StepType, StepRecords DEF BoardInv, BoardTypeOK
<1>2. UNCHANGED <<user, solo>>
  BY DEF vars
<1>3. ReadType' = ReadType /\ NoRead' = NoRead
  BY DEF ReadType, NoRead, Entry, Ids, SoloRow, NoRow
<1>4. read'.listStep # "none"
  BY DEF ReadType
<1>5. read' # NoRead
  BY <1>4 DEF NoRead
<1>6. Scored' = Scored /\ Unscored' = Unscored /\ Still' = Still /\ \A id : Exists(id)' = Exists(id)
  BY <1>2 DEF Scored, Unscored, Still, Exists
<1>7. \A a, b : Ahead(a, b)' = Ahead(a, b)
  BY <1>2, <1>6 DEF Ahead
<1>8. ListInv(read)'
  BY <1>6, <1>7 DEF ListInv, Orderly, Present, Complete, Names
<1>9. RankInv(read)'
  BY <1>2, <1>6, <1>7 DEF RankInv, CountsInv, Ranks, Agree, Sum, Before
<1>10. BoardTypeOK'
  BY <1>1, <1>3 DEF BoardInv, BoardTypeOK
<1> QED
  BY <1>1, <1>5, <1>8, <1>9, <1>10 DEF BoardInv, NoRead

(* and of the request a query of the list only the list, *)
LEMMA ListChanges ==
  ASSUME BoardInv, read # NoRead, NEW list \in Seq(Entry), NEW step \in {"rest", "done"},
         read' = [read EXCEPT !.list = list, !.listStep = step]
  PROVE  /\ read' \in ReadType /\ read'.list = list /\ read'.listStep = step
         /\ RankInv(read')
<1>1. read \in ReadType /\ RankInv(read)
  BY DEF BoardInv, BoardTypeOK
<1>2. /\ read' \in ReadType /\ read'.list = list /\ read'.listStep = step
      /\ read'.me = read.me /\ read'.myStep = read.myStep /\ read'.mine = read.mine
      /\ read'.counted = read.counted /\ read'.rank = read.rank
  BY <1>1 DEF ReadType
<1> QED
  BY <1>1, <1>2 DEF RankInv, CountsInv, Ranks

(* of the rank only the rank. *)
LEMMA RankChanges ==
  ASSUME BoardInv, read # NoRead, read' \in ReadType,
         read'.list = read.list, read'.listStep = read.listStep
  PROVE  Len(read'.list) <= TopN /\ ListInv(read')
BY DEF BoardInv, BoardTypeOK, ListInv

-----------------------------------------------------------------------------
(* The first query of the list: what it leaves out is not ahead of what it takes. *)
LEMMA TopRecordsInv ==
  ASSUME BoardInv, read # NoRead, TopRecords, UNCHANGED vars, moved' = moved PROVE BoardInv'
<1>0. PICK s \in SetToSeqs(Scored) : \E top :
        /\ top = Take(s, TopN) /\ Ranked(s)
        /\ read' = [read EXCEPT
                      !.list = [i \in DOMAIN top |-> [id |-> top[i], best |-> solo[top[i]].best]],
                      !.listStep = IF Len(top) < TopN THEN "rest" ELSE "done"]
  BY DEF TopRecords
<1>1. PICK top :
        /\ top = Take(s, TopN) /\ Ranked(s)
        /\ read' = [read EXCEPT
                      !.list = [i \in DOMAIN top |-> [id |-> top[i], best |-> solo[top[i]].best]],
                      !.listStep = IF Len(top) < TopN THEN "rest" ELSE "done"]
  BY <1>0
<1> DEFINE list == [i \in DOMAIN top |-> [id |-> top[i], best |-> solo[top[i]].best]]
           step == IF Len(top) < TopN THEN "rest" ELSE "done"
<1>2. /\ \A id \in Scored : solo[id] \in SoloRow /\ solo[id].best \in Nat /\ Exists(id)
      /\ Scored \subseteq Ids /\ Scored \cap Unscored = {}
  BY Tables DEF BoardInv
<1>3. /\ s \in Seq(Scored) /\ \A i, j \in 1..Len(s) : i # j => s[i] # s[j]
      /\ \A id \in Scored : \E i \in 1..Len(s) : s[i] = id
  BY <1>2, RowsOnce
<1>4. PICK len \in Nat : len = Len(s)
  BY <1>3
<1>5. PICK m \in Nat : m = IF TopN <= len THEN TopN ELSE len
  BY TopNAssumption
<1>6. top \in Seq(Scored) /\ Len(top) = m /\ DOMAIN top = 1..m /\ \A i \in 1..m : top[i] = s[i] /\ i \in 1..len
  <2>1. TopN \in Nat
    BY TopNAssumption
  <2>2. /\ top \in Seq(Scored) /\ Len(top) = (IF TopN <= Len(s) THEN TopN ELSE Len(s))
        /\ \A i \in 1..Len(top) : top[i] = s[i] /\ i \in 1..Len(s)
    <3>1. PICK S, n : S = Scored /\ n = TopN
      OBVIOUS
    <3>2. s \in Seq(S) /\ n \in Nat /\ top = Take(s, n)
      BY <1>1, <1>3, <2>1, <3>1
    <3>3. /\ top \in Seq(S) /\ Len(top) = (IF n <= Len(s) THEN n ELSE Len(s))
          /\ \A i \in 1..Len(top) : top[i] = s[i] /\ i \in 1..Len(s)
      BY ONLY <3>2, TakePrefix
    <3> QED
      BY <3>1, <3>3
  <2> QED
    BY <1>4, <1>5, <2>2
<1>7. /\ DOMAIN list = 1..m /\ \A i \in 1..m : list[i] = [id |-> s[i], best |-> solo[s[i]].best]
  BY <1>6
<1>8. \A i \in 1..len : s[i] \in Scored
  BY <1>3, <1>4
<1> HIDE DEF list
<1>9. \A i \in 1..m : list[i] \in Entry /\ list[i].id = s[i]
  BY <1>2, <1>6, <1>7, <1>8 DEF Entry
<1>10. list \in Seq(Entry) /\ Len(list) = m /\ m <= TopN
  <2>1. list = [i \in 1..m |-> list[i]]
    BY <1>7 DEF list
  <2>2. m <= TopN
    BY <1>5, TopNAssumption
  <2>3. list \in [1..m -> Entry]
    BY <1>9, <2>1
  <2> QED
    BY <2>2, <2>3
<1>11. step \in {"rest", "done"} /\ read' = [read EXCEPT !.list = list, !.listStep = step]
  BY <1>1 DEF list
<1>12. read' \in ReadType /\ read'.list = list /\ read'.listStep = step /\ RankInv(read')
  BY <1>10, <1>11, ListChanges
<1>13. \A i, j \in 1..len : i < j => solo[s[i]].best >= solo[s[j]].best
  BY <1>1, <1>3, <1>4 DEF Ranked
<1>14. \A i, j \in 1..len : i < j => s[i] # s[j] /\ ~Ahead(s[j], s[i])
  <2> SUFFICES ASSUME NEW i \in 1..len, NEW j \in 1..len, i < j PROVE s[i] # s[j] /\ ~Ahead(s[j], s[i])
    OBVIOUS
  <2>1. s[i] \in Scored /\ s[j] \in Scored /\ s[i] # s[j]
    BY <1>3, <1>4, <1>8
  <2>2. ~(solo[s[j]].best > solo[s[i]].best)
    BY <1>2, <1>13, <2>1
  <2> QED
    BY <1>2, <2>1, <2>2 DEF Ahead
<1>15. Orderly(list)
  BY <1>6, <1>7, <1>9, <1>14 DEF Orderly
<1>16. Present(list)
  BY <1>2, <1>6, <1>7, <1>8, <1>9 DEF Present
<1>17. CASE m < TopN
  <2>1. m = len /\ step = "rest"
    BY <1>5, <1>6, <1>17
  <2>2. \A id \in Ids : id \in Scored <=> Names(list, id)
    BY <1>3, <1>4, <1>7, <1>8, <1>9, <2>1 DEF Names
  <2>3. ListInv(read')
    BY <1>10, <1>12, <1>15, <1>16, <1>17, <2>1, <2>2 DEF ListInv
  <2> QED
    BY <1>10, <1>12, <2>3, ReadKeeps
<1>18. CASE ~(m < TopN)
  <2>1. m = TopN /\ step = "done"
    BY <1>5, <1>6, <1>18, TopNAssumption
  <2>2. ASSUME NEW id \in Still, ~Names(list, id), NEW i \in 1..m PROVE ~Ahead(id, list[i].id)
    <3>1. list[i].id = s[i] /\ s[i] \in Scored /\ i \in 1..len
      BY <1>6, <1>8, <1>9
    <3>2. CASE id \in Scored
      <4>1. PICK k \in 1..len : s[k] = id
        BY <1>3, <1>4, <3>2
      <4>2. k \notin 1..m
        BY <1>7, <1>9, <2>2, <4>1 DEF Names
      <4>3. i < k
        BY <4>2
      <4> QED
        BY <1>14, <3>1, <4>1, <4>3
    <3>3. CASE id \notin Scored
      BY <1>2, <3>1, <3>3 DEF Ahead
    <3> QED
      BY <3>2, <3>3
  <2>3. Complete(list)
    BY <1>7, <1>10, <2>1, <2>2 DEF Complete
  <2>4. ListInv(read')
    BY <1>12, <1>15, <1>16, <2>1, <2>3 DEF ListInv
  <2> QED
    BY <1>10, <1>12, <2>4, ReadKeeps
<1> QED
  BY <1>17, <1>18

(* The second one: after the scored come the oldest of the others. *)
LEMMA TopOthersInv ==
  ASSUME BoardInv, read # NoRead, TopOthers, UNCHANGED vars, moved' = moved PROVE BoardInv'
<1>0. PICK s \in Others : \E rest :
        /\ rest = Take(s, Remaining)
        /\ read' = [read EXCEPT !.list = @ \o [i \in DOMAIN rest |-> [id |-> rest[i], best |-> 0]],
                                !.listStep = "done"]
  BY DEF TopOthers
<1>1. PICK rest :
        /\ rest = Take(s, Remaining)
        /\ read' = [read EXCEPT !.list = @ \o [i \in DOMAIN rest |-> [id |-> rest[i], best |-> 0]],
                                !.listStep = "done"]
  BY <1>0
<1> DEFINE new == [i \in DOMAIN rest |-> [id |-> rest[i], best |-> 0]]
           list == read.list \o new
<1>2. /\ Scored \subseteq Ids /\ Unscored \subseteq Ids /\ Ids \subseteq Nat
      /\ Scored \cap Unscored = {} /\ \A id \in Ids : Exists(id) <=> id \in Scored \cup Unscored
  BY Tables DEF BoardInv
<1>3. /\ s \in Seq(Unscored) /\ \A i, j \in 1..Len(s) : i # j => s[i] # s[j]
      /\ \A id \in Unscored : \E i \in 1..Len(s) : s[i] = id
  BY <1>2, RowsOnce DEF Others
<1>4. PICK len \in Nat : len = Len(s)
  BY <1>3
<1>5. /\ read.listStep = "rest" /\ read.list \in Seq(Entry) /\ Len(read.list) < TopN
      /\ Orderly(read.list) /\ Present(read.list)
      /\ \A id \in Ids \ moved : id \in Scored <=> Names(read.list, id)
  BY DEF BoardInv, BoardTypeOK, ReadType, TopOthers, ListInv
<1>6. PICK k \in Nat : k = Len(read.list)
  BY <1>5
<1>7. PICK free \in Nat \ {0} : free = Remaining /\ k + free = TopN
  <2>1. Remaining = TopN - k /\ k < TopN /\ TopN \in Nat
    BY <1>5, <1>6, TopNAssumption DEF Remaining
  <2>2. TopN - k \in Nat \ {0} /\ k + (TopN - k) = TopN
    BY <2>1
  <2> QED
    BY <2>1, <2>2
<1>8. PICK m \in Nat : m = IF free <= len THEN free ELSE len
  OBVIOUS
<1>9. rest \in Seq(Unscored) /\ Len(rest) = m /\ DOMAIN rest = 1..m /\ \A i \in 1..m : rest[i] = s[i] /\ i \in 1..len
  <2>1. PICK S, n : S = Unscored /\ n = Remaining
    OBVIOUS
  <2>2. s \in Seq(S) /\ n \in Nat /\ rest = Take(s, n)
    BY <1>1, <1>3, <1>7, <2>1
  <2>3. /\ rest \in Seq(S) /\ Len(rest) = (IF n <= Len(s) THEN n ELSE Len(s))
        /\ \A i \in 1..Len(rest) : rest[i] = s[i] /\ i \in 1..Len(s)
    BY ONLY <2>2, TakePrefix
  <2> QED
    BY <1>4, <1>7, <1>8, <2>1, <2>3
<1>10. DOMAIN new = 1..m /\ \A i \in 1..m : new[i] = [id |-> s[i], best |-> 0]
  BY <1>9
<1>11. \A i \in 1..len : s[i] \in Unscored /\ s[i] \in Ids /\ s[i] \in Nat
  <2>1. \A i \in 1..len : s[i] \in Unscored
    BY <1>3, <1>4
  <2> QED
    BY <1>2, <2>1
<1>12. new \in Seq(Entry) /\ Len(new) = m
  <2>1. new = [i \in 1..m |-> new[i]]
    BY <1>10
  <2> HIDE DEF new
  <2>2. \A i \in 1..m : new[i] \in Entry
    BY <1>9, <1>10, <1>11 DEF Entry
  <2>3. new \in [1..m -> Entry]
    BY <2>1, <2>2
  <2> QED
    BY <2>3
<1> HIDE DEF new
<1>13. /\ list \in Seq(Entry) /\ Len(list) = k + m /\ DOMAIN list = 1..(k + m) /\ k + m <= TopN
       /\ \A i \in 1..(k + m) : list[i] = IF i <= k THEN read.list[i] ELSE new[i - k]
  <2>1. k + m <= TopN
    BY <1>7, <1>8
  <2>2. PICK old : old = read.list
    OBVIOUS
  <2>3. old \in Seq(Entry) /\ Len(old) = k /\ new \in Seq(Entry) /\ Len(new) = m
    BY <1>5, <1>6, <1>12, <2>2
  <2>4. /\ old \o new \in Seq(Entry) /\ Len(old \o new) = k + m
        /\ \A i \in 1..(k + m) : (old \o new)[i] = IF i <= k THEN old[i] ELSE new[i - k]
    BY <2>3, ConcatProperties
  <2>5. DOMAIN (old \o new) = 1..(k + m)
    BY <2>4
  <2> QED
    BY <2>1, <2>2, <2>4, <2>5
<1>14. DOMAIN read.list = 1..k
  BY <1>5, <1>6
<1> HIDE DEF list
<1>15. \A i \in 1..k : list[i] = read.list[i] /\ i \in 1..(k + m)
  BY <1>13
<1>16. \A i \in (k + 1)..(k + m) : list[i].id = s[i - k] /\ i - k \in 1..m /\ i - k \in 1..len /\ i \in 1..(k + m)
  BY <1>9, <1>10, <1>13
<1>17. read' \in ReadType /\ read'.list = list /\ read'.listStep = "done" /\ RankInv(read')
  BY <1>1, <1>13, ListChanges DEF list, new
<1>18. \A i, j \in 1..len : i < j => s[i] < s[j]
  BY <1>3, <1>4 DEF Others, ByAge
<1>19. \A i \in 1..k : list[i].id \notin moved => list[i].id \in Scored
  <2>1. \A i \in 1..k : read.list[i].id \in Ids
    BY <1>5, <1>14, EntryIds
  <2> QED
    BY <1>5, <1>14, <1>15, <2>1 DEF Names
<1>20. \A a, b : a \in Unscored /\ b \in Scored => a # b /\ ~Ahead(a, b)
  BY <1>2 DEF Ahead
<1>21. \A a, b : a \in Unscored /\ b \in Unscored /\ ~(a < b) => ~Ahead(a, b)
  BY <1>2 DEF Ahead
<1>22. Orderly(list)
  <2> SUFFICES ASSUME NEW i \in 1..(k + m), NEW j \in 1..(k + m), i < j,
                      list[i].id \notin moved, list[j].id \notin moved
               PROVE  list[i].id # list[j].id /\ ~Ahead(list[j].id, list[i].id)
    BY <1>13 DEF Orderly
  <2>1. CASE j <= k
    <3>1. i \in 1..k /\ j \in 1..k
      BY <2>1
    <3> QED
      BY <1>5, <1>14, <1>15, <3>1 DEF Orderly
  <2>2. CASE i <= k /\ j > k
    <3>1. i \in 1..k /\ j \in (k + 1)..(k + m)
      BY <2>2
    <3> QED
      BY <1>11, <1>16, <1>19, <1>20, <3>1
  <2>3. CASE i > k
    <3>1. i \in (k + 1)..(k + m) /\ j \in (k + 1)..(k + m) /\ i - k < j - k
      BY <2>3
    <3>2. list[i].id < list[j].id /\ list[i].id \in Nat /\ list[j].id \in Nat
          /\ list[i].id \in Unscored /\ list[j].id \in Unscored
      BY <1>11, <1>16, <1>18, <3>1
    <3> QED
      BY <1>21, <3>2
  <2> QED
    BY <2>1, <2>2, <2>3
<1>23. Present(list)
  <2> SUFFICES ASSUME NEW i \in 1..(k + m), list[i].id \notin moved PROVE Exists(list[i].id)
    BY <1>13 DEF Present
  <2>1. CASE i <= k
    <3>1. i \in 1..k
      BY <2>1
    <3> QED
      BY <1>2, <1>19, <3>1
  <2>2. CASE i > k
    <3>1. i \in (k + 1)..(k + m)
      BY <2>2
    <3> QED
      BY <1>2, <1>11, <1>16, <3>1
  <2> QED
    BY <2>1, <2>2
<1>24. Complete(list)
  <2> SUFFICES ASSUME NEW id \in Still, ~Names(list, id)
               PROVE  /\ k + m = TopN
                      /\ \A i \in 1..(k + m) : list[i].id \notin moved => ~Ahead(id, list[i].id)
    BY <1>13 DEF Complete
  <2>1. id \in Ids \ moved /\ Exists(id)
    BY DEF Still
  <2>2. id \in Unscored
    <3> SUFFICES ASSUME id \in Scored PROVE FALSE
      BY <1>2, <2>1
    <3>1. PICK i \in 1..k : read.list[i].id = id
      BY <1>5, <1>14, <2>1 DEF Names
    <3> QED
      BY <1>13, <1>15, <3>1 DEF Names
  <2>3. PICK p \in 1..len : s[p] = id
    BY <1>3, <1>4, <2>2
  <2>4. p > m
    <3> SUFFICES ASSUME ~(p > m) PROVE FALSE
      OBVIOUS
    <3>1. k + p \in (k + 1)..(k + m) /\ (k + p) - k = p
      OBVIOUS
    <3>2. list[k + p].id = s[p] /\ k + p \in 1..(k + m)
      BY <1>16, <3>1
    <3> QED
      BY <1>13, <2>3, <3>2 DEF Names
  <2>5. k + m = TopN
    BY <1>7, <1>8, <2>3, <2>4
  <2>6. ASSUME NEW i \in 1..(k + m), list[i].id \notin moved PROVE ~Ahead(id, list[i].id)
    <3>1. CASE i <= k
      <4>1. i \in 1..k
        BY <3>1
      <4> QED
        BY <1>19, <1>20, <2>2, <2>6, <4>1
    <3>2. CASE i > k
      <4>1. i \in (k + 1)..(k + m)
        BY <3>2
      <4>2. list[i].id = s[i - k] /\ i - k \in 1..len /\ i - k < p
        BY <1>16, <2>4, <4>1
      <4>3. list[i].id < id /\ list[i].id \in Nat /\ id \in Nat /\ list[i].id \in Unscored
        BY <1>11, <1>18, <2>3, <4>2
      <4> QED
        BY <1>21, <2>2, <4>3
    <3> QED
      BY <3>1, <3>2
  <2> QED
    BY <2>5, <2>6
<1>25. ListInv(read')
  BY <1>17, <1>22, <1>23, <1>24 DEF ListInv
<1> QED
  BY <1>13, <1>17, <1>25, ReadKeeps

-----------------------------------------------------------------------------
(* The caller's entry. *)
LEMMA FindMeInv ==
  ASSUME BoardInv, read # NoRead, FindMe, UNCHANGED vars, moved' = moved PROVE BoardInv'
<1>1. read \in ReadType /\ RankInv(read)
  BY DEF BoardInv, BoardTypeOK
<1>2. CASE Exists(read.me)
  <2>1. read' = [read EXCEPT !.myStep = "record"] /\ read.myStep = "user"
    BY <1>2 DEF FindMe
  <2>2. /\ read' \in ReadType /\ read'.list = read.list /\ read'.listStep = read.listStep
        /\ read'.me = read.me /\ read'.myStep = "record"
        /\ read'.rank = read.rank /\ read'.counted = read.counted
    BY <1>1, <2>1 DEF ReadType
  <2>3. RankInv(read')
    BY <1>1, <2>1, <2>2 DEF RankInv
  <2> QED
    BY <2>2, <2>3, RankChanges, ReadKeeps
<1>3. CASE ~Exists(read.me)
  <2>1. read' = [read EXCEPT !.myStep = "done", !.rank = NoEntry]
    BY <1>3 DEF FindMe
  <2>2. /\ read' \in ReadType /\ read'.list = read.list /\ read'.listStep = read.listStep
        /\ read'.me = read.me
    BY <1>1, <2>1 DEF ReadType, NoEntry
  <2>3. RankInv(read')
    BY <1>3, <2>2 DEF RankInv, Still
  <2> QED
    BY <2>2, <2>3, RankChanges, ReadKeeps
<1> QED
  BY <1>2, <1>3

LEMMA FindMyRecordInv ==
  ASSUME BoardInv, read # NoRead, FindMyRecord, UNCHANGED vars, moved' = moved PROVE BoardInv'
<1>1. read \in ReadType /\ RankInv(read) /\ read.myStep = "record"
  BY DEF BoardInv, BoardTypeOK, FindMyRecord
<1>2. PICK row, step : row = solo[read.me] /\ step = IF row = NoRow THEN "counts" ELSE "higher"
  OBVIOUS
<1>3. row \in SoloRow \cup {NoRow} /\ step \in {"counts", "higher"}
  BY <1>1, <1>2 DEF BoardInv, BoardTypeOK, TypeOK, ReadType
<1>4. read' = [read EXCEPT !.mine = row, !.myStep = step]
  BY <1>2 DEF FindMyRecord
<1>5. /\ read' \in ReadType /\ read'.list = read.list /\ read'.listStep = read.listStep
      /\ read'.me = read.me /\ read'.myStep = step /\ read'.mine = row
      /\ read'.rank = read.rank /\ read'.counted = read.counted
  BY <1>1, <1>3, <1>4 DEF ReadType
<1>6. RankInv(read')
  <2> SUFFICES ASSUME read.me \in Still PROVE RankInv(read')
    BY <1>5 DEF RankInv
  <2>1. read.rank = 1 /\ read.counted = {}
    BY <1>1 DEF RankInv
  <2>2. CountsInv(read')
    <3>1. Sum({}, {}) = 1 /\ {} \in SUBSET Ids
      BY FS_EmptySet DEF Sum
    <3> QED
      BY <1>5, <2>1, <3>1 DEF CountsInv
  <2> QED
    BY <1>2, <1>3, <1>5, <2>1, <2>2 DEF RankInv
<1> QED
  BY <1>5, <1>6, RankChanges, ReadKeeps

LEMMA CountHigherInv ==
  ASSUME BoardInv, read # NoRead, CountHigher, UNCHANGED vars, moved' = moved PROVE BoardInv'
<1>1. read \in ReadType /\ RankInv(read) /\ read.myStep = "higher"
  BY DEF BoardInv, BoardTypeOK, CountHigher
<1>2. Scored \subseteq Ids /\ Scored \cap Unscored = {}
  BY Tables DEF BoardInv
<1>3. PICK higher \in SUBSET Ids : higher = Higher(read.mine.best)
  BY <1>2 DEF Higher
<1>4. PICK n \in Nat : n = Cardinality(higher)
  BY SetsOfIds
<1>5. read' = [read EXCEPT !.rank = @ + n, !.myStep = "done"] /\ read.rank + n \in Nat
  BY <1>1, <1>3, <1>4 DEF CountHigher, ReadType
<1>6. /\ read' \in ReadType /\ read'.list = read.list /\ read'.listStep = read.listStep
      /\ read'.me = read.me /\ read'.myStep = "done" /\ read'.rank = read.rank + n
  BY <1>1, <1>5 DEF ReadType
<1>7. RankInv(read')
  <2> SUFFICES ASSUME read.me \in Still PROVE Ranks(read')
    BY <1>6 DEF RankInv
  <2>1. read.rank = 1 /\ read.mine = solo[read.me] /\ read.me \in Scored
    BY <1>1 DEF RankInv, ReadType, Scored
  <2>2. Agree(higher, {id \in Ids : Ahead(id, read.me)})
    BY <1>2, <1>3, <2>1 DEF Agree, Ahead, Higher
  <2>3. read'.rank = Sum(higher, {}) /\ {} \in SUBSET Ids
    BY <1>4, <1>6, <2>1, FS_EmptySet DEF Sum
  <2> QED
    BY <1>6, <2>2, <2>3 DEF Ranks
<1> QED
  BY <1>6, <1>7, RankChanges, ReadKeeps

(* The two counts of a caller without a record, in either order. *)
LEMMA CountInv ==
  ASSUME BoardInv, read # NoRead, UNCHANGED vars, moved' = moved,
         NEW query \in {"records", "before"}, NEW S \in SUBSET Ids, Count(query, S),
         S = IF query = "records" THEN Scored ELSE Before(read.me)
  PROVE  BoardInv'
<1> DEFINE counted == read.counted \cup {query}
           step == IF counted = {"records", "before"} THEN "done" ELSE read.myStep
<1>1. read \in ReadType /\ RankInv(read) /\ read.myStep = "counts" /\ query \notin read.counted
  BY DEF BoardInv, BoardTypeOK, Count
<1>2. PICK n \in Nat : n = Cardinality(S)
  BY SetsOfIds
<1>3. read' = [read EXCEPT !.rank = @ + n, !.counted = counted, !.myStep = step]
  BY <1>2 DEF Count
<1>4. /\ counted \subseteq {"records", "before"} /\ step \in {"counts", "done"}
      /\ read.rank \in Nat /\ read.rank + n \in Nat
  BY <1>1 DEF ReadType
<1> HIDE DEF counted, step
<1>5. /\ read' \in ReadType /\ read'.list = read.list /\ read'.listStep = read.listStep
      /\ read'.me = read.me /\ read'.myStep = step /\ read'.rank = read.rank + n
      /\ read'.counted = counted
  BY <1>1, <1>3, <1>4 DEF ReadType
<1>6. RankInv(read')
  <2> SUFFICES ASSUME read.me \in Still PROVE solo[read.me] = NoRow /\ CountsInv(read') /\ (step = "done" => Ranks(read'))
    BY <1>4, <1>5 DEF RankInv
  <2>1. solo[read.me] = NoRow /\ CountsInv(read)
    BY <1>1 DEF RankInv
  <2>2. PICK P, Q \in SUBSET Ids :
          /\ read.rank = Sum(P, Q)
          /\ IF "records" \in read.counted THEN Agree(P, Scored) ELSE P = {}
          /\ IF "before" \in read.counted THEN Agree(Q, Before(read.me)) ELSE Q = {}
    BY <2>1 DEF CountsInv
  <2>3. \E A, B \in SUBSET Ids :
          /\ read'.rank = Sum(A, B)
          /\ IF "records" \in counted THEN Agree(A, Scored) ELSE A = {}
          /\ IF "before" \in counted THEN Agree(B, Before(read.me)) ELSE B = {}
    <3>1. Cardinality(P) \in Nat /\ Cardinality(Q) \in Nat /\ Cardinality({}) = 0
      BY SetsOfIds, FS_EmptySet
    <3>2. CASE query = "records"
      <4>1. P = {} /\ S = Scored /\ Agree(S, Scored)
        BY <1>1, <2>2, <3>2 DEF Agree
      <4>2. read'.rank = Sum(S, Q)
        BY <1>2, <1>5, <2>2, <3>1, <4>1 DEF Sum
      <4>3. "records" \in counted /\ ("before" \in counted <=> "before" \in read.counted)
        BY <3>2 DEF counted
      <4> QED
        BY <2>2, <4>1, <4>2, <4>3
    <3>3. CASE query = "before"
      <4>1. Q = {} /\ S = Before(read.me) /\ Agree(S, Before(read.me))
        BY <1>1, <2>2, <3>3 DEF Agree
      <4>2. read'.rank = Sum(P, S)
        BY <1>2, <1>5, <2>2, <3>1, <4>1 DEF Sum
      <4>3. "before" \in counted /\ ("records" \in counted <=> "records" \in read.counted)
        BY <3>3 DEF counted
      <4> QED
        BY <2>2, <4>1, <4>2, <4>3
    <3> QED
      BY <3>2, <3>3
  <2>4. CountsInv(read')
    BY <1>5, <2>3 DEF CountsInv
  <2>5. ASSUME step = "done" PROVE Ranks(read')
    <3>1. counted = {"records", "before"}
      BY <1>1, <2>5 DEF step
    <3>2. PICK A, B \in SUBSET Ids :
            read'.rank = Sum(A, B) /\ Agree(A, Scored) /\ Agree(B, Before(read.me))
      BY <2>3, <3>1
    <3>3. read.me \in Unscored /\ Scored \cap Unscored = {}
      BY <1>1, <2>1, Tables DEF Still, Unscored, BoardInv
    <3>4. \A id \in Ids : Ahead(id, read.me) <=> id \in Scored \/ id \in Before(read.me)
      BY <3>3 DEF Ahead, Before
    <3>5. Agree(A \cup B, {id \in Ids : Ahead(id, read.me)})
      BY <3>2, <3>4 DEF Agree
    <3>6. A \cap B \subseteq moved
      BY <3>2, <3>3 DEF Agree, Before
    <3> QED
      BY <1>5, <3>2, <3>5, <3>6 DEF Ranks
  <2> QED
    BY <2>1, <2>4, <2>5
<1> QED
  BY <1>5, <1>6, RankChanges, ReadKeeps

-----------------------------------------------------------------------------
(* A request begins with nobody moved. *)
LEMMA BeginInv ==
  ASSUME BoardInv, NEW id \in Known, GetGlobalLeaderboard(id), UNCHANGED vars,
         moved' = (IF read' = NoRead THEN {} ELSE moved)
  PROVE  BoardInv'
<1> DEFINE r == [me |-> id, listStep |-> "records", list |-> <<>>, myStep |-> "user",
                 mine |-> NoRow, counted |-> {}, rank |-> 1]
<1>1. read' = r /\ read = NoRead /\ moved = {}
  BY DEF GetGlobalLeaderboard, BoardInv
<1>2. id \in Ids
  BY DEF BoardInv, BoardTypeOK, TypeOK, Known
<1>3. r.me = id /\ r.listStep = "records" /\ r.list = <<>> /\ r.myStep = "user" /\ r.counted = {} /\ r.rank = 1
  OBVIOUS
<1>4. r \in ReadType
  BY <1>2 DEF ReadType
<1> HIDE DEF r
<1>5. r # NoRead
  <2>1. "records" # "none"
    OBVIOUS
  <2> QED
    BY <1>3, <2>1 DEF NoRead
<1>6. moved' = {}
  BY <1>1, <1>5
<1>7. Len(r.list) = 0 /\ DOMAIN r.list = {} /\ 0 <= TopN
  BY <1>3, TopNAssumption
<1>8. /\ TypeOK' /\ DeletedAccountHasNoRecords'
  BY StepType, StepRecords DEF BoardInv, BoardTypeOK
<1>9. ReadType' = ReadType
  BY DEF ReadType, Entry, Ids, SoloRow, NoRow
<1>10. BoardTypeOK'
  BY <1>1, <1>4, <1>6, <1>7, <1>8, <1>9 DEF BoardTypeOK
<1>11. ListInv(read)'
  BY <1>1, <1>3, <1>7 DEF ListInv, Orderly, Present
<1>12. RankInv(read)'
  BY <1>1, <1>3 DEF RankInv
<1> QED
  BY <1>1, <1>5, <1>8, <1>10, <1>11, <1>12 DEF BoardInv, NoRead

LEMMA EndInv ==
  ASSUME BoardInv, EndRead, UNCHANGED vars, moved' = (IF read' = NoRead THEN {} ELSE moved) PROVE BoardInv'
<1>1. read' = NoRead /\ moved' = {}
  BY DEF EndRead
<1>2. TypeOK' /\ DeletedAccountHasNoRecords'
  BY StepType, StepRecords DEF BoardInv, BoardTypeOK
<1> QED
  BY <1>1, <1>2 DEF BoardInv, BoardTypeOK, NoRead

LEMMA StepBoard == BoardInv /\ [BoardNext]_boardVars => BoardInv'
<1> SUFFICES ASSUME BoardInv, [BoardNext]_boardVars PROVE BoardInv'
  OBVIOUS
<1>1. CASE UNCHANGED boardVars
  <2>1. UNCHANGED vars /\ UNCHANGED <<read, moved>>
    BY <1>1 DEF boardVars, vars
  <2>2. CASE read = NoRead
    <3>1. TypeOK' /\ DeletedAccountHasNoRecords'
      BY <2>1, StepType, StepRecords DEF BoardInv, BoardTypeOK
    <3> QED
      BY <2>1, <2>2, <3>1 DEF BoardInv, BoardTypeOK, NoRead, Ids
  <2>3. CASE read # NoRead
    BY <2>1, <2>3, ReadKeeps DEF BoardInv, BoardTypeOK
  <2> QED
    BY <2>2, <2>3
<1>2. ASSUME WriteStep, UNCHANGED read, moved' = (IF read = NoRead THEN {} ELSE moved \cup Displaced)
      PROVE  BoardInv'
  BY <1>2, WriteKeeps
<1>3. ASSUME ReadStep, UNCHANGED vars, moved' = (IF read' = NoRead THEN {} ELSE moved) PROVE BoardInv'
  <2>1. ASSUME NEW id \in Known, GetGlobalLeaderboard(id) PROVE BoardInv'
    BY <1>3, <2>1, BeginInv
  <2>2. CASE EndRead
    BY <1>3, <2>2, EndInv
  <2>3. ASSUME read # NoRead, TopRecords \/ TopOthers \/ FindMe \/ FindMyRecord \/ CountHigher \/ CountRecords \/ CountBefore
        PROVE  BoardInv'
    <3>1. read' # NoRead
      <4>1. read \in ReadType
        BY <2>3 DEF BoardInv, BoardTypeOK
      <4>2. DOMAIN read' = DOMAIN read
        BY <2>3 DEF TopRecords, TopOthers, FindMe, FindMyRecord, CountHigher, CountRecords, CountBefore, Count
      <4>3. "me" \in DOMAIN read /\ "me" \notin DOMAIN NoRead
        BY <4>1 DEF ReadType, NoRead
      <4> QED
        BY <4>2, <4>3
    <3>2. moved' = moved
      BY <1>3, <3>1
    <3>3. Scored \in SUBSET Ids /\ Before(read.me) \in SUBSET Ids
      BY DEF Scored, Before, Unscored
    <3>4. CASE CountRecords
      BY <1>3, <2>3, <3>2, <3>3, <3>4, CountInv DEF CountRecords
    <3>5. CASE CountBefore
      BY <1>3, <2>3, <3>2, <3>3, <3>5, CountInv DEF CountBefore
    <3> QED
      BY <1>3, <2>3, <3>2, <3>4, <3>5, TopRecordsInv, TopOthersInv, FindMeInv, FindMyRecordInv, CountHigherInv
  <2> QED
    BY <1>3, <2>1, <2>2, <2>3 DEF ReadStep
<1> QED
  BY <1>1, <1>2, <1>3 DEF BoardNext

LEMMA BoardHolds == BoardSpec => []BoardInv
BY InitBoard, StepBoard, PTL DEF BoardSpec

(* Every answer in the making keeps its type, and the list never exceeds TopN. *)
THEOREM BoardTypes == BoardSpec => []BoardTypeOK
BY BoardHolds, PTL DEF BoardInv

-----------------------------------------------------------------------------
(* The answer's step changes nothing but the request, so what the invariant says *)
(* of the answer it says of the users as they are.                               *)
LEMMA AnswerStands ==
  ASSUME BoardInv, BoardInv', BoardNext, Answering
  PROVE  /\ read' \in ReadType /\ Len(read'.list) <= TopN /\ ListInv(read') /\ Complete(read'.list)
         /\ read'.me \in Still => Ranks(read')
<1>1. read' # NoRead /\ read'.listStep = "done" /\ read'.myStep = "done" /\ read' # read
  BY DEF Answering, Answered
<1>2. UNCHANGED vars /\ moved' = moved
  BY <1>1 DEF BoardNext
<1>3. UNCHANGED <<user, solo>>
  BY <1>2 DEF vars
<1>4. /\ ReadType' = ReadType /\ NoRead' = NoRead
  BY DEF ReadType, NoRead, Entry, Ids, SoloRow, NoRow
<1>5. read' \in ReadType /\ Len(read'.list) <= TopN /\ ListInv(read)' /\ RankInv(read)'
  BY <1>1, <1>4 DEF BoardInv, BoardTypeOK
<1>6. Scored' = Scored /\ Unscored' = Unscored /\ Still' = Still /\ \A id : Exists(id)' = Exists(id)
  BY <1>2, <1>3 DEF Scored, Unscored, Still, Exists
<1>7. \A a, b : Ahead(a, b)' = Ahead(a, b)
  BY <1>3, <1>6 DEF Ahead
<1>8. ListInv(read')
  BY <1>2, <1>5, <1>6, <1>7 DEF ListInv, Orderly, Present, Complete, Names
<1>9. read'.me \in Still => Ranks(read)'
  BY <1>1, <1>5, <1>6 DEF RankInv
<1>10. Ranks(read)' => Ranks(read')
  BY <1>2, <1>7 DEF Ranks, Agree, Sum
<1> QED
  BY <1>1, <1>5, <1>8, <1>9, <1>10 DEF ListInv

LEMMA NotTwice ==
  ASSUME BoardInv, BoardInv', BoardNext, Answering, NEW id \in Ids, id \notin moved
  PROVE  ~(Cardinality(Listed(read'.list, id)) > 1)
<1>1. PICK list, L : list = read'.list /\ L = Listed(list, id)
  OBVIOUS
<1>2. list \in Seq(Entry) /\ Orderly(list)
  BY <1>1, AnswerStands DEF ReadType, ListInv
<1>3. \A i \in L : i \in 1..Len(list) /\ list[i].id = id
  BY <1>1, <1>2 DEF Listed
<1>4. \A i, j \in L : i = j
  <2> SUFFICES ASSUME NEW i \in L, NEW j \in L, i < j PROVE FALSE
    BY <1>2, <1>3
  <2> QED
    BY <1>2, <1>3 DEF Orderly
<1>5. L = {} \/ \E i : L = {i}
  BY <1>4
<1>6. Cardinality(L) \in {0, 1}
  BY <1>5, FS_EmptySet, FS_Singleton
<1> QED
  BY <1>1, <1>6

LEMMA NotPassedOver ==
  ASSUME BoardInv, BoardInv', BoardNext, Answering, NEW id \in Still, Listed(read'.list, id) = {}
  PROVE  /\ Len(read'.list) = TopN
         /\ \A other \in Still : Listed(read'.list, other) # {} => ~Ahead(id, other)
<1>1. Complete(read'.list)
  BY AnswerStands
<1>2. ~Names(read'.list, id)
  BY DEF Listed, Names
<1> QED
  BY <1>1, <1>2 DEF Complete, Listed, Still

(* What two sets that are both counted come to. *)
LEMMA SumOf ==
  ASSUME NEW P \in SUBSET Ids, NEW Q \in SUBSET Ids
  PROVE  /\ Sum(P, Q) = 1 + Cardinality(P \cup Q) + Cardinality(P \cap Q)
         /\ Cardinality(P \cup Q) \in Nat /\ Cardinality(P \cap Q) \in Nat
<1>1. IsFiniteSet(P) /\ IsFiniteSet(Q) /\ Cardinality(P) \in Nat /\ Cardinality(Q) \in Nat
  BY SetsOfIds
<1>2. Cardinality(P \cup Q) = Cardinality(P) + Cardinality(Q) - Cardinality(P \cap Q)
  BY <1>1, FS_Union
<1>3. Cardinality(P \cup Q) \in Nat /\ Cardinality(P \cap Q) \in Nat
  <2>1. P \cup Q \in SUBSET Ids /\ P \cap Q \in SUBSET Ids
    OBVIOUS
  <2> QED
    BY <2>1, SetsOfIds
<1> QED
  BY <1>1, <1>2, <1>3 DEF Sum

LEMMA Subsets ==
  ASSUME NEW T \in SUBSET Ids, NEW S \in SUBSET T PROVE Cardinality(S) <= Cardinality(T)
BY SetsOfIds, FS_Subset

LEMMA RankIsRight ==
  ASSUME BoardInv, BoardInv', BoardNext, Answering, read'.me \in Still,
         NEW ahead, ahead = {id \in Still : Ahead(id, read'.me)}
  PROVE  read'.rank - 1 - Cardinality(ahead) \in 0..(2 * Cardinality(moved))
<1>1. PICK P, Q \in SUBSET Ids :
        /\ read'.rank = Sum(P, Q) /\ P \cap Q \subseteq moved
        /\ Agree(P \cup Q, {id \in Ids : Ahead(id, read'.me)})
  BY AnswerStands DEF Ranks
<1>2. \A id \in Ids : Ahead(id, read'.me) => Exists(id)
  BY Tables DEF BoardInv, Ahead
<1>3. ahead \in SUBSET Ids /\ moved \in SUBSET Ids
  BY Tables DEF BoardInv, Still
<1>4. ahead \subseteq P \cup Q
  BY <1>1 DEF Agree, Still
<1>5. P \cup Q \subseteq ahead \cup moved
  BY <1>1, <1>2 DEF Agree, Still
<1>6. PICK a, m, u, v, w \in Nat :
        /\ a = Cardinality(ahead) /\ m = Cardinality(moved) /\ u = Cardinality(P \cup Q)
        /\ v = Cardinality(P \cap Q) /\ w = Cardinality(ahead \cup moved)
  <2>1. P \cup Q \in SUBSET Ids /\ P \cap Q \in SUBSET Ids /\ ahead \cup moved \in SUBSET Ids
    BY <1>3
  <2> QED
    BY <1>3, <2>1, SetsOfIds
<1>7. read'.rank = 1 + u + v
  BY <1>1, <1>6, SumOf
<1>8. a <= u
  BY <1>4, <1>6, Subsets
<1>9. v <= m
  BY <1>1, <1>3, <1>6, Subsets
<1>10. u <= w
  <2>1. ahead \cup moved \in SUBSET Ids
    BY <1>3
  <2> QED
    BY <1>5, <1>6, <2>1, Subsets
<1>11. w <= a + m
  <2>1. Sum(ahead, moved) = 1 + w + Cardinality(ahead \cap moved) /\ Cardinality(ahead \cap moved) \in Nat
    BY <1>3, <1>6, SumOf
  <2>2. Sum(ahead, moved) = 1 + a + m
    BY <1>6 DEF Sum
  <2> QED
    BY <2>1, <2>2
<1>12. (1 + u + v) - 1 - a \in 0..(2 * m)
  BY <1>8, <1>9, <1>10, <1>11
<1> QED
  BY <1>6, <1>7, <1>12

LEMMA PlaceIsRight ==
  ASSUME BoardInv, BoardInv', BoardNext, Answering, moved = {},
         NEW i \in Listed(read'.list, read'.me),
         NEW tied, tied = {id \in Still : ~Ahead(id, read'.me) /\ ~Ahead(read'.me, id)}
  PROVE  read'.rank <= i /\ i < read'.rank + Cardinality(tied)
<1>1. PICK list, me : list = read'.list /\ me = read'.me
  OBVIOUS
<1>2. /\ list \in Seq(Entry) /\ Orderly(list) /\ Present(list) /\ Complete(list) /\ me \in Ids
      /\ me \in Still => Ranks(read')
  BY <1>1, AnswerStands DEF ReadType, ListInv
<1>3. i \in 1..Len(list) /\ list[i].id = me
  BY <1>1, <1>2 DEF Listed
<1>4. \A j \in 1..Len(list) : list[j].id \in Still /\ list[j].id \in Ids
  <2>1. \A j \in DOMAIN list : list[j].id \in Ids
    BY <1>2, EntryIds
  <2> QED
    BY <1>2, <2>1 DEF Present, Still
<1>5. me \in Still
  BY <1>3, <1>4
<1>6. PICK ahead : ahead = {id \in Ids : Ahead(id, me)}
  OBVIOUS
<1>7. ahead \in SUBSET Ids /\ tied \in SUBSET Ids
  BY <1>6 DEF Still
<1>8. PICK a, t \in Nat : a = Cardinality(ahead) /\ t = Cardinality(tied)
  BY <1>7, SetsOfIds
<1>9. read'.rank = 1 + a
  <2>1. PICK P, Q \in SUBSET Ids :
          read'.rank = Sum(P, Q) /\ P \cap Q \subseteq {} /\ Agree(P \cup Q, ahead)
    BY <1>1, <1>2, <1>5, <1>6 DEF Ranks
  <2>2. P \cup Q = ahead /\ P \cap Q = {}
    BY <1>7, <2>1 DEF Agree
  <2>3. read'.rank = 1 + Cardinality(ahead) + Cardinality({})
    BY <2>1, <2>2, SumOf
  <2> QED
    BY <1>8, <2>3, FS_EmptySet
<1>10. \A j, k \in 1..Len(list) : j < k => list[j].id # list[k].id /\ ~Ahead(list[k].id, list[j].id)
  BY <1>2 DEF Orderly
<1>11. ~Ahead(me, me)
  BY <1>2, Tables DEF BoardInv, Ahead
<1>12. PICK n \in Nat : n = Len(list)
  BY <1>2
<1>13. ASSUME NEW id \in ahead PROVE \E j \in 1..(i - 1) : list[j].id = id
  <2>1. id \in Still /\ Ahead(id, me)
    BY <1>6, <1>13, Tables DEF BoardInv, Ahead, Still
  <2>2. Names(list, id)
    BY <1>2, <1>3, <2>1 DEF Complete
  <2>3. PICK j \in 1..n : list[j].id = id
    BY <1>2, <1>12, <2>2 DEF Names
  <2>4. j # i
    BY <1>3, <1>11, <2>1, <2>3
  <2>5. ~(i < j)
    BY <1>3, <1>10, <1>12, <2>1, <2>3
  <2>6. j \in 1..(i - 1)
    BY <1>3, <1>12, <2>4, <2>5
  <2> QED
    BY <2>3, <2>6
<1>14. a <= i - 1
  <2> DEFINE place == [id \in ahead |-> CHOOSE j \in 1..(i - 1) : list[j].id = id]
  <2>1. \A id \in ahead : place[id] \in 1..(i - 1) /\ list[place[id]].id = id
    BY <1>13
  <2>2. place \in [ahead -> 1..(i - 1)]
    BY <2>1
  <2>3. DOMAIN place = ahead
    OBVIOUS
  <2> HIDE DEF place
  <2>4. place \in Injection(ahead, 1..(i - 1))
    BY <2>1, <2>2, <2>3 DEF Injection, IsInjective
  <2>5. IsFiniteSet(1..(i - 1)) /\ Cardinality(1..(i - 1)) = i - 1
    <3>1. i - 1 \in Int /\ 1 \in Int /\ i >= 1 /\ i \in Int
      BY <1>3, <1>12
    <3>2. IsFiniteSet(1..(i - 1)) /\ Cardinality(1..(i - 1)) = IF 1 > i - 1 THEN 0 ELSE (i - 1) - 1 + 1
      BY <3>1, FS_Interval
    <3> QED
      BY <3>1, <3>2
  <2> QED
    BY <1>8, <2>4, <2>5, FS_Injection
<1>15. i <= a + t
  <2> DEFINE shown == [j \in 1..i |-> list[j].id]
  <2>1. \A j \in 1..i : j \in 1..n /\ shown[j] = list[j].id
    BY <1>3, <1>12
  <2>2. DOMAIN shown = 1..i
    OBVIOUS
  <2> HIDE DEF shown
  <2>3. \A j \in 1..i : shown[j] \in ahead \cup tied
    <3> SUFFICES ASSUME NEW j \in 1..i PROVE list[j].id \in ahead \cup tied
      BY <2>1
    <3>1. list[j].id \in Still /\ list[j].id \in Ids
      BY <1>4, <1>12, <2>1
    <3>2. ~Ahead(me, list[j].id)
      BY <1>3, <1>10, <1>11, <1>12, <2>1
    <3> QED
      BY <1>1, <1>6, <3>1, <3>2
  <2>4. \A j, k \in 1..i : shown[j] = shown[k] => j = k
    <3> SUFFICES ASSUME NEW j \in 1..i, NEW k \in 1..i, j < k PROVE list[j].id # list[k].id
      BY <1>3, <1>12, <2>1
    <3> QED
      BY <1>10, <1>12, <2>1
  <2>5. shown \in [1..i -> ahead \cup tied]
    BY <2>2, <2>3 DEF shown
  <2>6. shown \in Injection(1..i, ahead \cup tied)
    BY <2>2, <2>4, <2>5 DEF Injection, IsInjective
  <2>7. Cardinality(1..i) = i /\ IsFiniteSet(ahead \cup tied)
    <3>1. ahead \cup tied \in SUBSET Ids
      BY <1>7
    <3>2. IsFiniteSet(ahead \cup tied)
      BY <3>1, SetsOfIds
    <3>3. 1 \in Int /\ i \in Int /\ i >= 1
      BY <1>3, <1>12
    <3>4. Cardinality(1..i) = IF 1 > i THEN 0 ELSE i - 1 + 1
      BY <3>3, FS_Interval
    <3> QED
      BY <3>2, <3>3, <3>4
  <2>8. i <= Cardinality(ahead \cup tied)
    BY <2>6, <2>7, FS_Injection
  <2>9. Sum(ahead, tied) = 1 + Cardinality(ahead \cup tied) + Cardinality(ahead \cap tied)
        /\ Cardinality(ahead \cup tied) \in Nat /\ Cardinality(ahead \cap tied) \in Nat
    BY <1>7, SumOf
  <2>10. Sum(ahead, tied) = 1 + a + t
    BY <1>8 DEF Sum
  <2> QED
    BY <1>3, <1>12, <2>8, <2>9, <2>10
<1> QED
  BY <1>3, <1>8, <1>9, <1>12, <1>14, <1>15

-----------------------------------------------------------------------------
(* However many write meanwhile, the list names nobody twice who has not moved. *)
THEOREM NobodyListedTwice == BoardSpec => ListedOnce
<1>1. BoardInv /\ BoardInv' /\ [BoardNext]_boardVars =>
        [Answering => \A id \in Ids : Cardinality(Listed(read'.list, id)) > 1 => id \in moved]_boardVars
  BY NotTwice
<1> QED
  BY <1>1, BoardHolds, PTL DEF BoardSpec, ListedOnce

(* However many write meanwhile, nobody who has not moved is left out of the list *)
(* while there is room, or in favour of somebody behind who has not moved.        *)
THEOREM NobodyIsPassedOver == BoardSpec => NobodyPassedOver
<1>1. BoardInv /\ BoardInv' /\ [BoardNext]_boardVars =>
        [Answering => \A id \in Still : Listed(read'.list, id) = {} =>
           /\ Len(read'.list) = TopN
           /\ \A other \in Still : Listed(read'.list, other) # {} => ~Ahead(id, other)]_boardVars
  BY NotPassedOver
<1> QED
  BY <1>1, BoardHolds, PTL DEF BoardSpec, NobodyPassedOver

(* The rank of a caller who has not moved is never better than those ahead allow, *)
(* and worse by no more than two for each user who moved while the queries ran.   *)
THEOREM RankIsOffByThoseMoved == BoardSpec => RankCountsThoseAhead
<1>1. BoardInv /\ BoardInv' /\ [BoardNext]_boardVars =>
        [Answering /\ read'.me \in Still =>
           LET ahead == {id \in Still : Ahead(id, read'.me)}
           IN  read'.rank - 1 - Cardinality(ahead) \in 0..(2 * Cardinality(moved))]_boardVars
  BY RankIsRight
<1> QED
  BY <1>1, BoardHolds, PTL DEF BoardSpec, RankCountsThoseAhead

(* When nobody moves, the caller's rank is the first place of those who share the *)
(* caller's score, and the list shows the caller in one of their places.          *)
THEOREM RankIsAPlaceInTheList == BoardSpec => RankAgreesWithList
<1>1. BoardInv /\ BoardInv' /\ [BoardNext]_boardVars =>
        [Answering /\ moved = {} =>
           \A i \in Listed(read'.list, read'.me) :
             LET tied == {id \in Still : ~Ahead(id, read'.me) /\ ~Ahead(read'.me, id)}
             IN  read'.rank <= i /\ i < read'.rank + Cardinality(tied)]_boardVars
  BY PlaceIsRight
<1> QED
  BY <1>1, BoardHolds, PTL DEF BoardSpec, RankAgreesWithList
=============================================================================
