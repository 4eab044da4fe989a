------------------------------- MODULE Accounts -------------------------------
(***************************************************************************)
(* What the API promises of its accounts, each request at once and whole:  *)
(* an id, an identity and a nickname belong to one account at a time, an   *)
(* id to one ever; records belong to an account that is there; an account  *)
(* goes only after its records.                                            *)
(***************************************************************************)
CONSTANTS Ids, Identities, Nicknames, Dates,
          Records, \* what a solo record may be
          Nothing  \* no account, no solo record

VARIABLES account, \* account[id]: [identity, nickname], or Nothing
          solo,    \* solo[id]: a record, or Nothing
          diary,   \* diary[id]: the dates with an entry
          used     \* the ids given out so far

vars == <<account, solo, diary, used>>

Init ==
  /\ account = [id \in Ids |-> Nothing]
  /\ solo = [id \in Ids |-> Nothing]
  /\ diary = [id \in Ids |-> {}]
  /\ used = {}

-----------------------------------------------------------------------------
There(id) == account[id] # Nothing
Free(n, id) == \A other \in Ids \ {id} : There(other) => account[other].nickname # n

SignUp(id, i, n) ==
  /\ id \notin used /\ ~There(id)
  /\ solo[id] = Nothing /\ diary[id] = {}
  /\ Free(n, id) /\ \A other \in Ids : There(other) => account[other].identity # i
  /\ account' = [account EXCEPT ![id] = [identity |-> i, nickname |-> n]]
  /\ used' = used \cup {id}
  /\ UNCHANGED <<solo, diary>>

Rename(id, n) ==
  /\ There(id) /\ Free(n, id)
  /\ account' = [account EXCEPT ![id] = [identity |-> account[id].identity, nickname |-> n]]
  /\ UNCHANGED <<solo, diary, used>>

Score(id, record) ==
  /\ There(id)
  /\ solo' = [solo EXCEPT ![id] = record]
  /\ UNCHANGED <<account, diary, used>>

Note(id, dates) ==
  /\ There(id)
  /\ diary' = [diary EXCEPT ![id] = dates]
  /\ UNCHANGED <<account, solo, used>>

Close(id) ==
  /\ There(id) /\ solo[id] = Nothing /\ diary[id] = {}
  /\ account' = [account EXCEPT ![id] = Nothing]
  /\ UNCHANGED <<solo, diary, used>>

Next ==
  \E id \in Ids :
    \/ \E i \in Identities, n \in Nicknames : SignUp(id, i, n)
    \/ \E n \in Nicknames : Rename(id, n)
    \/ \E record \in Records \cup {Nothing} : Score(id, record)
    \/ \E dates \in SUBSET Dates : Note(id, dates)
    \/ Close(id)

Spec == Init /\ [][Next]_vars
=============================================================================
