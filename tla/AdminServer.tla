------------------------------ MODULE AdminServer ------------------------------
(***************************************************************************)
(* The administrator's side: AdminAuthService with the login rate limiter  *)
(* in the process's memory, and the events every attempt leaves, which     *)
(* AdminController pages through.  A login runs without an await from      *)
(* isBlocked to registerFailure or reset; then it waits for its event and  *)
(* answers.  Tokens are left out: a valid code is answered with one.       *)
(***************************************************************************)
EXTENDS OperationalEvents

CONSTANTS Calls,       \* logins that can be in progress at one time
          Ips,
          WindowMs,    \* DEFAULT_WINDOW_MS, in units of the clock
          MaxAttempts, \* DEFAULT_MAX_ATTEMPTS
          MaxTime      \* bound: the clock

ASSUME LimiterAssumption == WindowMs \in Nat \ {0} /\ MaxAttempts \in Nat \ {0} /\ MaxTime \in Nat
ASSUME NamesAssumption ==
  {"admin_login_rate_limited", "admin_login_failed", "admin_login_success"} \subseteq Names

VARIABLES now,      \* Date.now()
          attempts, \* attempts[ip]: the AttemptRecord, or NoRecord
          call,     \* call[c]: the event a login waits for, or 0
          failures  \* history: the wrong codes of an address and when they were given, back to
                    \* the last success or restart, as far as no more than a window ago

adminVars == <<now, attempts, call, failures>>
vars == <<eventVars, adminVars>>

NoRecord == [count |-> 0]
AttemptRecord == [count : 1..MaxAttempts, firstAttemptAt : 0..now]
Failure == [id : EventIds, at : 0..now] \* by the event it left

TypeOK ==
  /\ EventsTypeOK
  /\ now \in 0..MaxTime
  /\ attempts \in [Ips -> AttemptRecord \cup {NoRecord}]
  /\ call \in [Calls -> EventIds \cup {0}]
  /\ failures \in [Ips -> SUBSET Failure]

Init ==
  /\ EventsInit
  /\ now = 0
  /\ attempts = [ip \in Ips |-> NoRecord]
  /\ call = [c \in Calls |-> 0]
  /\ failures = [ip \in Ips |-> {}]

-----------------------------------------------------------------------------
(* AdminLoginRateLimiter *)

IsExpired_AtEnd(record) == now - record.firstAttemptAt >= WindowMs \* mutated: >=
IsExpired(record) == now - record.firstAttemptAt > WindowMs

(* isBlocked also drops an expired record, *)
IsBlocked_Ever(record) == record # NoRecord /\ record.count >= MaxAttempts \* mutated: never expires
IsBlocked_Above(record) == record # NoRecord /\ ~IsExpired(record) /\ record.count > MaxAttempts \* mutated: >
IsBlocked(record) == record # NoRecord /\ ~IsExpired(record) /\ record.count >= MaxAttempts

(* so registerFailure, right after it, finds none. *)
RegisterFailure(record) ==
  IF record = NoRecord \/ IsExpired(record) THEN [count |-> 1, firstAttemptAt |-> now]
  ELSE [record EXCEPT !.count = @ + 1]

-----------------------------------------------------------------------------
(* login up to the await of its event. *)
Attempt(c, ip, name) ==
  /\ call[c] = 0
  /\ BeginRecord(name)
  /\ call' = [call EXCEPT ![c] = Len(event')]
  /\ UNCHANGED <<now, stored, returned, walk>>

RefuseLogin(c, ip) ==
  /\ IsBlocked(attempts[ip])
  /\ Attempt(c, ip, "admin_login_rate_limited")
  /\ UNCHANGED <<attempts, failures>>

FailLogin(c, ip) ==
  /\ ~IsBlocked(attempts[ip])
  /\ Attempt(c, ip, "admin_login_failed")
  /\ attempts' = [attempts EXCEPT ![ip] = RegisterFailure(@)]
  /\ failures' = [failures EXCEPT ![ip] = @ \cup {[id |-> Len(event'), at |-> now]}]

PassLogin(c, ip) ==
  /\ ~IsBlocked(attempts[ip])
  /\ Attempt(c, ip, "admin_login_success")
  /\ attempts' = [attempts EXCEPT ![ip] = NoRecord]
  /\ failures' = [failures EXCEPT ![ip] = {}]

Answer(c) ==
  /\ call[c] # 0 /\ Recorded(call[c])
  /\ call' = [call EXCEPT ![c] = 0]
  /\ returned' = returned \cup {call[c]}
  /\ UNCHANGED <<event, inserting, stored, walk, now, attempts, failures>>

-----------------------------------------------------------------------------
Recent(fails, t) == {f \in fails : f.at >= t - WindowMs}

Tick ==
  /\ now < MaxTime
  /\ now' = now + 1
  /\ failures' = [ip \in Ips |-> Recent(failures[ip], now')]
  /\ UNCHANGED <<eventVars, attempts, call>>

(* The process restarts: the limiter is empty, logins get no answer; inserts that *)
(* were sent may still commit.                                                    *)
Restart ==
  /\ attempts' = [ip \in Ips |-> NoRecord]
  /\ call' = [c \in Calls |-> 0]
  /\ failures' = [ip \in Ips |-> {}]
  /\ UNCHANGED <<eventVars, now>>

Next ==
  \/ \E c \in Calls : \/ \E ip \in Ips : RefuseLogin(c, ip) \/ FailLogin(c, ip) \/ PassLogin(c, ip)
                      \/ Answer(c)
  \/ EventsStep /\ UNCHANGED adminVars
  \/ Tick \/ Restart

Spec == Init /\ [][Next]_vars
=============================================================================
