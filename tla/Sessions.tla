------------------------------- MODULE Sessions -------------------------------
(***************************************************************************)
(* The refresh token of one account: AuthService and the refresh_token     *)
(* column of its User row, one token at a time.  A refresh token's payload *)
(* is the user and the second it was signed in, so two that are signed in  *)
(* the same second are the same string: a token is the second.             *)
(*                                                                         *)
(* ApiServer has the accounts, and requests that end for want of a row;    *)
(* here the row exists.                                                    *)
(***************************************************************************)
EXTENDS Integers

CONSTANTS Calls,   \* requests that can be in progress at one time
          Ttl,     \* expiresIn of a refresh token, 30 days in the code
          MaxTime  \* bound: the clock

ASSUME TimesAssumption == Ttl \in Nat \ {0} /\ MaxTime \in Nat \ {0}

VARIABLES clock,    \* the current second
          column,   \* user.refreshToken, or NoToken
          call,     \* call[c]: the request in progress, or Idle
          received, \* the tokens clients have been answered
          held,     \* the token of the latest answer
          inStep,   \* history: since a login, requests came one by one and none was lost
          dead,     \* history: tokens that were replaced and that nobody is about to store
          pending   \* history: the requests that were in progress at the latest logout;
                    \* NotOut when a login has begun or one of them has stored a token since

vars == <<clock, column, call, received, held, inStep, dead, pending>>

-----------------------------------------------------------------------------
Tokens == 1..MaxTime
NoToken == 0
Idle == [step |-> "idle", token |-> NoToken]
Call == [step : {"sign", "write", "answer"}, token : Tokens \cup {NoToken}]
NotOut == [out |-> FALSE, calls |-> {}]
OutWith(calls) == [out |-> TRUE, calls |-> calls]

TypeOK ==
  /\ clock \in Tokens
  /\ column \in Tokens \cup {NoToken}
  /\ call \in [Calls -> Call \cup {Idle}]
  /\ \A c \in Calls : call[c].step \in {"write", "answer"} => call[c].token # NoToken
  /\ received \subseteq Tokens /\ held \in received \cup {NoToken}
  /\ inStep \in BOOLEAN
  /\ dead \subseteq Tokens
  /\ pending \in [out : BOOLEAN, calls : SUBSET Calls]

Init ==
  /\ clock = 1 /\ column = NoToken
  /\ call = [c \in Calls |-> Idle]
  /\ received = {} /\ held = NoToken /\ inStep = FALSE /\ dead = {} /\ pending = NotOut

InProgress == {c \in Calls : call[c] # Idle}

(* Replaced, not being stored by anybody, and of a second that is over. *)
Dead(t) ==
  /\ t # column' /\ t < clock'
  /\ \A c \in Calls : call'[c].step = "write" => call'[c].token # t

-----------------------------------------------------------------------------
Begin(c) ==
  /\ call[c] = Idle
  /\ call' = [call EXCEPT ![c] = [step |-> "sign", token |-> NoToken]]
  /\ UNCHANGED <<clock, column, received, held>>

(* oauthLogin up to findByProvider, for an identity that has the account. *)
Login(c) ==
  /\ Begin(c)
  /\ inStep' = (InProgress = {})
  /\ pending' = NotOut

(* refresh up to findUserByUserId: the token is not expired and is the column's. *)
Verified(t) == clock < t + Ttl
Accepted_Null(t) == Verified(t) /\ column \in {t, NoToken} \* mutated: compared only when there is one
Accepted_Any(t) == Verified(t) /\ column # NoToken \* mutated: not compared
Accepted(t) == Verified(t) /\ column = t
Refresh(c, t) ==
  /\ t \in received /\ Accepted(t)
  /\ Begin(c)
  /\ inStep' = (inStep /\ InProgress = {} /\ t = held)
  /\ UNCHANGED pending

(* generateTokens *)
Signed_Exp == clock + Ttl \* mutated: told apart by exp
Signed == clock
GenerateTokens(c) ==
  /\ call[c].step = "sign"
  /\ call' = [call EXCEPT ![c] = [step |-> "write", token |-> Signed]]
  /\ UNCHANGED <<clock, column, received, held, inStep, pending>>

(* updateRefreshToken *)
Stored_Again(c) == clock \* mutated: signed again for the column
Stored(c) == call[c].token
UpdateRefreshToken(c) ==
  /\ call[c].step = "write"
  /\ column' = Stored(c)
  /\ call' = [call EXCEPT ![c] = [step |-> "answer", token |-> call[c].token]]
  /\ pending' = NotOut
  /\ UNCHANGED <<clock, received, held, inStep>>

(* The answer arrives; *)
Answer(c) ==
  /\ call[c].step = "answer"
  /\ received' = received \cup {call[c].token}
  /\ held' = call[c].token
  /\ call' = [call EXCEPT ![c] = Idle]
  /\ UNCHANGED <<clock, column, inStep, pending>>

(* or a database call fails, the process ends, or the answer is lost. *)
Lose(c) ==
  /\ call[c] # Idle
  /\ call' = [call EXCEPT ![c] = Idle]
  /\ inStep' = FALSE
  /\ UNCHANGED <<clock, column, received, held, pending>>

Logout ==
  /\ received # {}
  /\ column' = NoToken
  /\ inStep' = FALSE
  /\ pending' = OutWith(InProgress)
  /\ UNCHANGED <<clock, call, received, held>>

Tick ==
  /\ clock < MaxTime
  /\ clock' = clock + 1
  /\ UNCHANGED <<column, call, received, held, inStep, pending>>

Next ==
  /\ \/ \E c \in Calls :
          \/ Login(c) \/ \E t \in Tokens : Refresh(c, t)
          \/ GenerateTokens(c) \/ UpdateRefreshToken(c) \/ Answer(c) \/ Lose(c)
     \/ Logout \/ Tick
  /\ dead' = dead \cup {t \in Tokens : Dead(t)}

Spec == Init /\ [][Next]_vars

-----------------------------------------------------------------------------
(* A token that has been replaced is never accepted again, unless a request that *)
(* signed the same string in the same second stores it late: of two refreshes    *)
(* with one token the second is refused once the first has stored its own.       *)
ReplacedTokenStaysDead ==
  [][\A c \in Calls, t \in Tokens : Refresh(c, t) => t \notin dead]_vars

(* After a logout nothing stores a token but a login begun since or a request that *)
(* was already past its comparison.                                                *)
LogoutHolds ==
  [][\A c \in Calls : UpdateRefreshToken(c) /\ pending.out => c \in pending.calls]_vars

(* A client that sends one request at a time, and has lost no answer since it     *)
(* logged in, always holds the token of the column, which is the one the server   *)
(* accepts until it expires.                                                      *)
ClientStaysLoggedIn == inStep /\ InProgress = {} => held = column
=============================================================================
