---------------------------- MODULE SessionsProofs ----------------------------
(***************************************************************************)
(* The properties of Sessions for any number of concurrent requests, any   *)
(* lifetime of a token and any bound of the clock.                         *)
(***************************************************************************)
EXTENDS Sessions, TLAPS

(* What the steps of one request do to its call record. *)
LEMMA BeginType ==
  ASSUME TypeOK, NEW c \in Calls, Begin(c)
  PROVE  /\ call' \in [Calls -> Call \cup {Idle}]
         /\ \A d \in Calls : call'[d].step \in {"write", "answer"} => call'[d].token # NoToken
BY DEF TypeOK, Begin, Call, Idle

LEMMA SignType ==
  ASSUME TypeOK, NEW c \in Calls, GenerateTokens(c)
  PROVE  /\ call' \in [Calls -> Call \cup {Idle}]
         /\ \A d \in Calls : call'[d].step \in {"write", "answer"} => call'[d].token # NoToken
BY DEF TypeOK, Tokens, NoToken, Call, GenerateTokens, Signed

LEMMA StoreType ==
  ASSUME TypeOK, NEW c \in Calls, UpdateRefreshToken(c)
  PROVE  /\ call' \in [Calls -> Call \cup {Idle}]
         /\ \A d \in Calls : call'[d].step \in {"write", "answer"} => call'[d].token # NoToken
         /\ column' = call[c].token /\ column' \in Tokens
         /\ call' = [call EXCEPT ![c] = [step |-> "answer", token |-> call[c].token]]
<1> USE DEF TypeOK, Call, Idle
<1>1. call[c] \in Call /\ call[c].token \in Tokens
  BY DEF UpdateRefreshToken, NoToken, Tokens
<1>2. call' = [call EXCEPT ![c] = [step |-> "answer", token |-> call[c].token]]
  BY DEF UpdateRefreshToken
<1>3. column' = call[c].token
  BY DEF UpdateRefreshToken, Stored
<1> QED
  BY <1>1, <1>2, <1>3 DEF NoToken, Tokens

LEMMA EndType ==
  ASSUME TypeOK, NEW c \in Calls, call' = [call EXCEPT ![c] = Idle]
  PROVE  /\ call' \in [Calls -> Call \cup {Idle}]
         /\ \A d \in Calls : call'[d].step \in {"write", "answer"} => call'[d].token # NoToken
BY DEF TypeOK, Idle

LEMMA InitType == Init => TypeOK
<1> SUFFICES ASSUME Init PROVE TypeOK
  OBVIOUS
<1>1. clock \in Tokens /\ column \in Tokens \cup {NoToken}
  BY TimesAssumption DEF Init, Tokens
<1>2. call \in [Calls -> Call \cup {Idle}] /\ \A c \in Calls : call[c].step = "idle"
  BY DEF Init, Idle
<1>3. pending \in [out : BOOLEAN, calls : SUBSET Calls]
  BY DEF Init, NotOut
<1> QED
  BY <1>1, <1>2, <1>3 DEF Init, TypeOK

LEMMA StepType == TypeOK /\ [Next]_vars => TypeOK'
<1> SUFFICES ASSUME TypeOK, [Next]_vars PROVE TypeOK'
  OBVIOUS
<1>0. (dead \subseteq Tokens)'
  BY DEF Next, vars, TypeOK, Tokens
<1>1. ASSUME NEW c \in Calls, Login(c) PROVE TypeOK'
  BY <1>0, <1>1, BeginType DEF TypeOK, Login, Begin, NotOut
<1>2. ASSUME NEW c \in Calls, NEW t \in Tokens, Refresh(c, t) PROVE TypeOK'
  BY <1>0, <1>2, BeginType DEF TypeOK, Refresh, Begin
<1>3. ASSUME NEW c \in Calls, GenerateTokens(c) PROVE TypeOK'
  BY <1>0, <1>3, SignType DEF TypeOK, GenerateTokens
<1>4. ASSUME NEW c \in Calls, UpdateRefreshToken(c) PROVE TypeOK'
  BY <1>0, <1>4, StoreType DEF TypeOK, UpdateRefreshToken, NotOut
<1>5. ASSUME NEW c \in Calls, Answer(c) PROVE TypeOK'
  <2>1. call[c].token \in Tokens
    BY <1>5 DEF TypeOK, Answer, Call, Idle
  <2> QED
    BY <1>0, <1>5, <2>1, EndType DEF TypeOK, Answer
<1>6. ASSUME NEW c \in Calls, Lose(c) PROVE TypeOK'
  BY <1>0, <1>6, EndType DEF TypeOK, Lose
<1>7. ASSUME Logout PROVE TypeOK'
  BY <1>0, <1>7 DEF TypeOK, Logout, OutWith, InProgress
<1>8. ASSUME Tick PROVE TypeOK'
  BY <1>0, <1>8, TimesAssumption DEF TypeOK, Tick, Tokens
<1>9. ASSUME UNCHANGED vars PROVE TypeOK'
  BY <1>9 DEF TypeOK, vars
<1> QED
  BY <1>1, <1>2, <1>3, <1>4, <1>5, <1>6, <1>7, <1>8, <1>9 DEF Next

(* Every value of the account's row, of the requests and of the history has its type. *)
THEOREM SessionsTypeCorrect == Spec => []TypeOK
BY InitType, StepType, PTL DEF Spec

-----------------------------------------------------------------------------
(* A dead token's second is over, so nothing signs it again; it is not the *)
(* column's, and no request is about to make it that.                      *)
DeadStay ==
  \A t \in dead : /\ t # column /\ t < clock
                  /\ \A c \in Calls : call[c].step = "write" => call[c].token # t

(* While an account is logged out its column is empty, and what is in progress *)
(* was so at the logout.                                                       *)
OutHolds == pending.out => column = NoToken /\ InProgress \subseteq pending.calls

(* In step there is at most one request; when it waits for its answer only, its  *)
(* token is the column's, and when there is none the client's is.                *)
InStepHolds ==
  inStep =>
    /\ \A c, d \in InProgress : c = d
    /\ \A c \in Calls : call[c].step = "answer" => call[c].token = column
    /\ InProgress = {} => held = column

SessionInv == TypeOK /\ DeadStay /\ OutHolds /\ InStepHolds

LEMMA InitInv == Init => SessionInv
BY InitType DEF Init, SessionInv, DeadStay, OutHolds, InStepHolds, NotOut

LEMMA StepDead == TypeOK /\ DeadStay /\ [Next]_vars => DeadStay'
<1> SUFFICES ASSUME TypeOK, DeadStay, [Next]_vars,
                    NEW t \in dead'
             PROVE  /\ t # column' /\ t < clock'
                    /\ \A c \in Calls : call'[c].step = "write" => call'[c].token # t
  BY DEF DeadStay
<1>1. CASE t \notin dead
  BY <1>1 DEF Next, vars, Dead
<1>2. CASE t \in dead
  <2> USE <1>2 DEF DeadStay
  <2>0. t \in Tokens /\ t # NoToken
    BY DEF TypeOK, Tokens, NoToken
  <2>1. ASSUME NEW c \in Calls, Begin(c) PROVE t # column' /\ t < clock' /\ \A d \in Calls : call'[d].step = "write" => call'[d].token # t
    BY <2>1 DEF Begin, TypeOK
  <2>2. ASSUME NEW c \in Calls, GenerateTokens(c) PROVE t # column' /\ t < clock' /\ \A d \in Calls : call'[d].step = "write" => call'[d].token # t
    <3> QED
      BY <2>0, <2>2 DEF GenerateTokens, Signed, TypeOK, Tokens
  <2>3. ASSUME NEW c \in Calls, UpdateRefreshToken(c) PROVE t # column' /\ t < clock' /\ \A d \in Calls : call'[d].step = "write" => call'[d].token # t
    BY <2>3, StoreType DEF UpdateRefreshToken, TypeOK
  <2>4. ASSUME NEW c \in Calls, call' = [call EXCEPT ![c] = Idle], UNCHANGED <<clock, column>>
        PROVE t # column' /\ t < clock' /\ \A d \in Calls : call'[d].step = "write" => call'[d].token # t
    BY <2>4 DEF TypeOK, Idle
  <2>5. CASE Logout
    BY <2>0, <2>5 DEF Logout
  <2>6. CASE Tick
    BY <2>0, <2>6 DEF Tick, TypeOK, Tokens
  <2>7. CASE UNCHANGED vars
    BY <2>7 DEF vars
  <2> QED
    BY <2>1, <2>2, <2>3, <2>4, <2>5, <2>6, <2>7 DEF Next, Login, Refresh, Answer, Lose
<1> QED
  BY <1>1, <1>2

LEMMA StepOut == TypeOK /\ OutHolds /\ [Next]_vars => OutHolds'
<1> SUFFICES ASSUME TypeOK, OutHolds, [Next]_vars PROVE OutHolds'
  OBVIOUS
<1> USE DEF OutHolds, InProgress
<1>1. ASSUME NEW c \in Calls, Login(c) PROVE OutHolds'
  BY <1>1 DEF Login, NotOut
<1>2. ASSUME NEW c \in Calls, NEW t \in Tokens, Refresh(c, t) PROVE OutHolds'
  <2>1. column = t /\ t # NoToken /\ pending' = pending
    BY <1>2 DEF Refresh, Accepted, Tokens, NoToken
  <2> QED
    BY <2>1
<1>3. ASSUME NEW c \in Calls, GenerateTokens(c) PROVE OutHolds'
  <2>1. c \in InProgress
    BY <1>3 DEF GenerateTokens, Idle
  <2> QED
    BY <1>3, <2>1 DEF GenerateTokens, TypeOK
<1>4. ASSUME NEW c \in Calls, UpdateRefreshToken(c) PROVE OutHolds'
  BY <1>4 DEF UpdateRefreshToken, NotOut
<1>5. ASSUME NEW c \in Calls, call' = [call EXCEPT ![c] = Idle], UNCHANGED <<column, pending>>
      PROVE  OutHolds'
  BY <1>5 DEF TypeOK
<1>6. CASE Logout
  BY <1>6 DEF Logout, OutWith
<1>7. CASE Tick
  BY <1>7 DEF Tick
<1>8. CASE UNCHANGED vars
  BY <1>8 DEF vars
<1> QED
  BY <1>1, <1>2, <1>3, <1>4, <1>5, <1>6, <1>7, <1>8 DEF Next, Answer, Lose

LEMMA StepInStep == TypeOK /\ InStepHolds /\ [Next]_vars => InStepHolds'
<1> SUFFICES ASSUME TypeOK, InStepHolds, [Next]_vars, inStep' PROVE InStepHolds'
  BY DEF InStepHolds
<1> USE DEF InStepHolds, InProgress
<1>1. ASSUME NEW c \in Calls, Begin(c), InProgress = {} PROVE InStepHolds'
  BY <1>1 DEF Begin, TypeOK, Idle
<1>2. ASSUME NEW c \in Calls, Login(c) \/ \E t \in Tokens : Refresh(c, t) PROVE InStepHolds'
  BY <1>1, <1>2 DEF Login, Refresh
<1>3. ASSUME NEW c \in Calls, GenerateTokens(c) PROVE InStepHolds'
  <2>1. c \in InProgress /\ c \in InProgress'
    BY <1>3 DEF GenerateTokens, TypeOK, Idle
  <2> QED
    BY <1>3, <2>1 DEF GenerateTokens, TypeOK
<1>4. ASSUME NEW c \in Calls, UpdateRefreshToken(c) PROVE InStepHolds'
  <2>1. c \in InProgress /\ c \in InProgress' /\ \A d \in Calls \ {c} : call[d] = Idle
    BY <1>4 DEF UpdateRefreshToken, TypeOK, Idle
  <2>2. column' = call[c].token /\ call'[c] = [step |-> "answer", token |-> call[c].token]
    BY <1>4, StoreType DEF TypeOK
  <2>3. \A d \in Calls \ {c} : call'[d] = Idle
    BY <1>4, <2>1 DEF UpdateRefreshToken, TypeOK
  <2> QED
    BY <2>1, <2>2, <2>3 DEF Idle
<1>5. ASSUME NEW c \in Calls, Answer(c) PROVE InStepHolds'
  <2>1. c \in InProgress /\ \A d \in Calls \ {c} : call[d] = Idle
    BY <1>5 DEF Answer, TypeOK, Idle
  <2>2. held' = column'
    BY <1>5 DEF Answer
  <2>3. \A d \in Calls : call'[d] = Idle
    BY <1>5, <2>1 DEF Answer, TypeOK
  <2> QED
    BY <2>2, <2>3 DEF Idle
<1>6. ASSUME NEW c \in Calls, Lose(c) PROVE InStepHolds'
  BY <1>6 DEF Lose
<1>7. CASE Logout
  BY <1>7 DEF Logout
<1>8. CASE Tick
  BY <1>8 DEF Tick
<1>9. CASE UNCHANGED vars
  BY <1>9 DEF vars
<1> QED
  BY <1>2, <1>3, <1>4, <1>5, <1>6, <1>7, <1>8, <1>9 DEF Next

LEMMA StepInv == SessionInv /\ [Next]_vars => SessionInv'
BY StepType, StepDead, StepOut, StepInStep DEF SessionInv

-----------------------------------------------------------------------------
(* Whatever overlaps and gets lost, a token that has been replaced is accepted    *)
(* again by no refresh: it stays out of the column for good once the last request *)
(* that signed the same string has stored it.                                     *)
THEOREM ReplacedTokensStayDead == Spec => ReplacedTokenStaysDead
<1>1. SessionInv /\ [Next]_vars => [\A c \in Calls, t \in Tokens : Refresh(c, t) => t \notin dead]_vars
  BY DEF SessionInv, DeadStay, Refresh, Accepted
<1> QED
  BY <1>1, InitInv, StepInv, PTL DEF Spec, ReplacedTokenStaysDead

(* A logout is undone only by a login begun after it or by a request that was     *)
(* already past its comparison.                                                   *)
THEOREM LogoutIsFinal == Spec => LogoutHolds
<1>1. SessionInv /\ [Next]_vars
        => [\A c \in Calls : UpdateRefreshToken(c) /\ pending.out => c \in pending.calls]_vars
  BY DEF SessionInv, OutHolds, InProgress, UpdateRefreshToken, Idle
<1> QED
  BY <1>1, InitInv, StepInv, PTL DEF Spec, LogoutHolds

(* One request at a time and no lost answer since the login: the client has the   *)
(* token of the column.                                                           *)
THEOREM SingleFlightIsSafe == Spec => []ClientStaysLoggedIn
<1>1. SessionInv => ClientStaysLoggedIn
  BY DEF SessionInv, InStepHolds, ClientStaysLoggedIn
<1> QED
  BY <1>1, InitInv, StepInv, PTL DEF Spec
=============================================================================
