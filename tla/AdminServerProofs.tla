--------------------------- MODULE AdminServerProofs ---------------------------
(***************************************************************************)
(* What the rate limiter allows and refuses, for any number of addresses   *)
(* and logins, any window and any number of attempts; and what the pages   *)
(* of the events show, for any number of events, filters and limits.       *)
(***************************************************************************)
EXTENDS AdminServerProps, FiniteSetTheorems, SequenceTheorems, WellFoundedInduction, TLAPS

(* Why an address has the record it has.  "before" are the failures of an earlier *)
(* record, "counted" those of the present one; the present one begins with its    *)
(* first failure, so once it is expired that failure is out of the window.        *)
Before(record, fails) == {f \in fails : f.at < record.firstAttemptAt}
Counted(record, fails) == {f \in fails : f.at >= record.firstAttemptAt}
Explained(record, fails, t) ==
  \/ record = NoRecord /\ fails = {}
  \/ /\ record \in [count : 1..MaxAttempts, firstAttemptAt : Nat] /\ record.firstAttemptAt <= t
     /\ \A f \in Counted(record, fails) : f.at <= record.firstAttemptAt + WindowMs
     /\ IF t - record.firstAttemptAt > WindowMs
        THEN Cardinality(fails) < record.count
        ELSE /\ Cardinality(Before(record, fails)) < MaxAttempts
             /\ Cardinality(Counted(record, fails)) = record.count
             /\ \E f \in fails : f.at = record.firstAttemptAt

(* The failures kept are the recent ones, each with an event of its own. *)
Kept(fails, t, ids) ==
  /\ IsFiniteSet(fails)
  /\ \A f \in fails : f.at \in Nat /\ f.at <= t /\ t - f.at <= WindowMs /\ f.id \in 1..ids

Inv ==
  /\ event \in Seq(Names) /\ now \in Nat
  /\ attempts = [ip \in Ips |-> attempts[ip]] /\ failures = [ip \in Ips |-> failures[ip]]
  /\ \A ip \in Ips : Explained(attempts[ip], failures[ip], now) /\ Kept(failures[ip], now, Len(event))

-----------------------------------------------------------------------------
(* Nothing is left of an earlier record once the present one is expired. *)
LEMMA ExpiredIsRecent ==
  ASSUME NEW record, NEW fails, NEW t \in Nat, NEW ids \in Nat, Kept(fails, t, ids),
         record \in [count : 1..MaxAttempts, firstAttemptAt : Nat],
         t - record.firstAttemptAt > WindowMs
  PROVE  Counted(record, fails) = fails
BY LimiterAssumption DEF Kept, Counted

LEMMA FailsSplit ==
  ASSUME NEW record \in [count : 1..MaxAttempts, firstAttemptAt : Nat], NEW fails, NEW t \in Nat,
         NEW ids \in Nat, Kept(fails, t, ids)
  PROVE  /\ IsFiniteSet(Before(record, fails)) /\ IsFiniteSet(Counted(record, fails))
         /\ Cardinality(fails) \in Nat
         /\ Cardinality(Counted(record, fails)) <= Cardinality(fails)
         /\ Cardinality(fails) <= Cardinality(Before(record, fails)) + Cardinality(Counted(record, fails))
<1> DEFINE B == Before(record, fails)
           C == Counted(record, fails)
<1>1. IsFiniteSet(fails) /\ B \subseteq fails /\ C \subseteq fails
  BY DEF Kept, Before, Counted
<1>2. IsFiniteSet(B) /\ IsFiniteSet(C) /\ Cardinality(C) <= Cardinality(fails)
  BY <1>1, FS_Subset
<1>3. fails = B \cup C
  BY DEF Kept, Before, Counted
<1> HIDE DEF B, C
<1>4. Cardinality(fails) <= Cardinality(B) + Cardinality(C)
  <2>1. Cardinality(B \cup C) = Cardinality(B) + Cardinality(C) - Cardinality(B \cap C)
    BY <1>2, FS_Union
  <2>2. Cardinality(B) \in Nat /\ Cardinality(C) \in Nat /\ Cardinality(B \cap C) \in Nat
    BY <1>2, FS_CardinalityType, FS_Intersection
  <2> QED
    BY <1>3, <2>1, <2>2
<1> QED
  BY <1>1, <1>2, <1>4, FS_CardinalityType DEF B, C

-----------------------------------------------------------------------------
(* registerFailure on an address that is not blocked. *)
LEMMA FailureIsExplained ==
  ASSUME NEW record, NEW fails, NEW ids \in Nat, now \in Nat,
         Explained(record, fails, now), Kept(fails, now, ids), ~IsBlocked(record)
  PROVE  /\ Explained(RegisterFailure(record), fails \cup {[id |-> ids + 1, at |-> now]}, now)
         /\ Kept(fails \cup {[id |-> ids + 1, at |-> now]}, now, ids + 1)
<1> DEFINE f == [id |-> ids + 1, at |-> now]
           new == RegisterFailure(record)
           first == [count |-> 1, firstAttemptAt |-> now]
<1>1. Kept(fails \cup {f}, now, ids + 1)
  <2>1. IsFiniteSet(fails \cup {f})
    BY FS_AddElement DEF Kept
  <2> QED
    BY <2>1, LimiterAssumption DEF Kept
<1>2. f \notin fails
  BY DEF Kept
<1>3. ASSUME new = first, \A g \in fails : g.at < now, Cardinality(fails) < MaxAttempts
      PROVE  Explained(new, fails \cup {f}, now)
  <2>1. Before(first, fails \cup {f}) = fails
    BY <1>3 DEF Before
  <2>2. Counted(first, fails \cup {f}) = {f}
    BY <1>3, <1>1 DEF Counted, Kept
  <2>3. Cardinality({f}) = 1
    BY FS_Singleton
  <2>4. first \in [count : 1..MaxAttempts, firstAttemptAt : Nat]
    BY LimiterAssumption
  <2>5. /\ first.count = 1 /\ first.firstAttemptAt = now /\ f.at = now
        /\ ~(now - now > WindowMs) /\ now <= now + WindowMs /\ now <= now
    BY LimiterAssumption
  <2> HIDE DEF first, f, new
  <2>6. \A g \in Counted(first, fails \cup {f}) : g.at <= first.firstAttemptAt + WindowMs
    BY <2>2, <2>5
  <2>7. \E g \in fails \cup {f} : g.at = first.firstAttemptAt
    BY <2>5
  <2>8. Explained(first, fails \cup {f}, now)
    BY <1>3, <2>1, <2>2, <2>3, <2>4, <2>5, <2>6, <2>7 DEF Explained
  <2> QED
    BY <1>3, <2>8
<1>4. CASE record = NoRecord
  <2>1. new = first /\ fails = {}
    BY <1>4 DEF RegisterFailure, Explained, NoRecord
  <2> QED
    BY <1>1, <1>3, <2>1, FS_EmptySet, LimiterAssumption
<1>5. CASE record # NoRecord /\ IsExpired(record)
  <2>1. record \in [count : 1..MaxAttempts, firstAttemptAt : Nat] /\ Cardinality(fails) < record.count
    BY <1>5 DEF Explained, IsExpired
  <2>2. Counted(record, fails) = fails
    BY <1>5, <2>1, ExpiredIsRecent DEF IsExpired
  <2>3. \A g \in fails : g.at < now
    BY <1>5, <2>1, <2>2, LimiterAssumption DEF Explained, IsExpired, Kept
  <2>4. Cardinality(fails) < MaxAttempts
    BY <2>1, FS_CardinalityType, LimiterAssumption DEF Kept
  <2> QED
    BY <1>1, <1>3, <1>5, <2>3, <2>4 DEF RegisterFailure
<1>6. CASE record # NoRecord /\ ~IsExpired(record)
  <2>1. /\ record \in [count : 1..MaxAttempts, firstAttemptAt : Nat] /\ record.firstAttemptAt <= now
        /\ now - record.firstAttemptAt <= WindowMs
        /\ \A g \in Counted(record, fails) : g.at <= record.firstAttemptAt + WindowMs
        /\ Cardinality(Before(record, fails)) < MaxAttempts
        /\ Cardinality(Counted(record, fails)) = record.count
        /\ \E g \in fails : g.at = record.firstAttemptAt
    BY <1>6, LimiterAssumption DEF Explained, IsExpired
  <2>2. new = [record EXCEPT !.count = @ + 1] /\ record.count < MaxAttempts
    BY <1>6, <2>1, LimiterAssumption DEF RegisterFailure, IsBlocked
  <2>3. /\ new \in [count : 1..MaxAttempts, firstAttemptAt : Nat]
        /\ new.count = record.count + 1 /\ new.firstAttemptAt = record.firstAttemptAt
    BY <2>1, <2>2, LimiterAssumption
  <2>4. Before(new, fails \cup {f}) = Before(record, fails)
    BY <2>1, <2>3 DEF Before
  <2>5. Counted(new, fails \cup {f}) = Counted(record, fails) \cup {f}
    BY <2>1, <2>3 DEF Counted
  <2>6. Cardinality(Counted(record, fails) \cup {f}) = Cardinality(Counted(record, fails)) + 1
    BY <1>2, <2>1, FailsSplit, FS_AddElement DEF Counted
  <2>7. \A g \in Counted(record, fails) \cup {f} : g.at <= new.firstAttemptAt + WindowMs
    BY <2>1, <2>3, LimiterAssumption
  <2> HIDE DEF new, f
  <2>8. \E g \in fails \cup {f} : g.at = new.firstAttemptAt
    BY <2>1, <2>3
  <2>9. ~(now - new.firstAttemptAt > WindowMs)
    BY <2>1, <2>3, LimiterAssumption
  <2>10. Explained(new, fails \cup {f}, now)
    BY <2>1, <2>3, <2>4, <2>5, <2>6, <2>7, <2>8, <2>9 DEF Explained
  <2> QED
    BY <1>1, <2>10 DEF new, f
<1> QED
  BY <1>4, <1>5, <1>6

(* The clock moves: failures leave the window, the first of a record with it. *)
LEMMA TickIsExplained ==
  ASSUME NEW record, NEW fails, NEW t \in Nat, NEW ids \in Nat,
         Explained(record, fails, t), Kept(fails, t, ids)
  PROVE  /\ Explained(record, Recent(fails, t + 1), t + 1)
         /\ Kept(Recent(fails, t + 1), t + 1, ids)
<1> DEFINE rest == Recent(fails, t + 1)
<1>1. rest \subseteq fails /\ \A f \in fails : f \in rest <=> t + 1 - f.at <= WindowMs
  BY LimiterAssumption DEF Recent, Kept
<1>2. IsFiniteSet(rest) /\ Cardinality(rest) <= Cardinality(fails)
      /\ Cardinality(rest) \in Nat /\ Cardinality(fails) \in Nat
  BY <1>1, FS_Subset, FS_CardinalityType DEF Kept
<1> HIDE DEF rest
<1>3. Kept(rest, t + 1, ids)
  BY <1>1, <1>2 DEF Kept
<1>4. CASE record = NoRecord /\ fails = {}
  BY <1>1, <1>3, <1>4 DEF Explained, rest
<1>5. CASE record # NoRecord
  <2>1. /\ record \in [count : 1..MaxAttempts, firstAttemptAt : Nat] /\ record.firstAttemptAt <= t
        /\ \A f \in Counted(record, fails) : f.at <= record.firstAttemptAt + WindowMs
    BY <1>5 DEF Explained
  <2>2. \A f \in Counted(record, rest) : f.at <= record.firstAttemptAt + WindowMs
    BY <1>1, <2>1 DEF Counted
  <2>3. CASE t - record.firstAttemptAt > WindowMs
    <3>1. Cardinality(fails) < record.count
      BY <1>5, <2>3 DEF Explained
    <3>2. Cardinality(rest) < record.count
      BY <1>2, <2>1, <3>1
    <3>3. t + 1 - record.firstAttemptAt > WindowMs
      BY <2>1, <2>3, LimiterAssumption
    <3>4. Explained(record, rest, t + 1)
      BY <2>1, <2>2, <3>2, <3>3 DEF Explained
    <3> QED
      BY <1>3, <3>4 DEF rest
  <2>4. CASE ~(t - record.firstAttemptAt > WindowMs)
    <3>1. /\ Cardinality(Before(record, fails)) < MaxAttempts
          /\ Cardinality(Counted(record, fails)) = record.count
          /\ \E f \in fails : f.at = record.firstAttemptAt
      BY <1>5, <2>4 DEF Explained
    <3>2. CASE t + 1 - record.firstAttemptAt > WindowMs
      <4>1. PICK f \in fails : f.at = record.firstAttemptAt
        BY <3>1
      <4>2. f \in Counted(record, fails) /\ f \notin rest
        <5>1. record.firstAttemptAt \in Nat /\ t + 1 - f.at > WindowMs
          BY <2>1, <3>2, <4>1
        <5> QED
          BY <1>1, <4>1, <5>1, LimiterAssumption DEF Counted
      <4>3. rest \subseteq Counted(record, fails) \ {f}
        BY <1>1, <2>1, <3>2, <4>2, LimiterAssumption DEF Counted, Kept
      <4>4. IsFiniteSet(Counted(record, fails))
        BY <2>1, FailsSplit
      <4>5. /\ IsFiniteSet(Counted(record, fails) \ {f})
            /\ Cardinality(Counted(record, fails) \ {f}) = record.count - 1
        BY <3>1, <4>2, <4>4, FS_RemoveElement
      <4>6. Cardinality(rest) <= record.count - 1
        BY <4>3, <4>5, FS_Subset
      <4>7. Explained(record, rest, t + 1)
        BY <1>2, <2>1, <2>2, <3>2, <4>6 DEF Explained
      <4> QED
        BY <1>3, <4>7 DEF rest
    <3>3. CASE ~(t + 1 - record.firstAttemptAt > WindowMs)
      <4>1. Counted(record, rest) = Counted(record, fails)
        BY <1>1, <2>1, <3>3, LimiterAssumption DEF Counted, Kept
      <4>2. Before(record, rest) \subseteq Before(record, fails) /\ IsFiniteSet(Before(record, fails))
        BY <1>1, <2>1, FailsSplit DEF Before
      <4>3. Cardinality(Before(record, rest)) < MaxAttempts
        BY <3>1, <4>2, FS_Subset, FS_CardinalityType, LimiterAssumption
      <4>4. \E f \in rest : f.at = record.firstAttemptAt
        <5>1. PICK f \in fails : f.at = record.firstAttemptAt
          BY <3>1
        <5>2. record.firstAttemptAt \in Nat /\ t + 1 - f.at <= WindowMs
          BY <2>1, <3>3, <5>1, LimiterAssumption
        <5> QED
          BY <1>1, <5>1, <5>2
      <4>5. Explained(record, rest, t + 1)
        BY <2>1, <2>2, <3>1, <3>3, <4>1, <4>3, <4>4 DEF Explained
      <4> QED
        BY <1>3, <4>5 DEF rest
    <3> QED
      BY <3>2, <3>3
  <2> QED
    BY <2>3, <2>4
<1>6. record = NoRecord => fails = {}
  BY LimiterAssumption DEF Explained, NoRecord
<1> QED
  BY <1>4, <1>5, <1>6

-----------------------------------------------------------------------------
(* The failures of an address that is blocked are at least MaxAttempts, *)
LEMMA BlockedHasFailures ==
  ASSUME Inv, NEW ip \in Ips, IsBlocked(attempts[ip])
  PROVE  Cardinality(failures[ip]) >= MaxAttempts
<1> DEFINE record == attempts[ip]
           fails == failures[ip]
<1>1. Explained(record, fails, now) /\ Kept(fails, now, Len(event)) /\ now \in Nat /\ Len(event) \in Nat
  BY DEF Inv
<1>2. record # NoRecord /\ ~(now - record.firstAttemptAt > WindowMs) /\ record.count >= MaxAttempts
  BY DEF IsBlocked, IsExpired
<1> HIDE DEF record, fails
<1>3. /\ record \in [count : 1..MaxAttempts, firstAttemptAt : Nat]
      /\ Cardinality(Counted(record, fails)) = record.count
  BY <1>1, <1>2 DEF Explained
<1>4. Cardinality(Counted(record, fails)) <= Cardinality(fails) /\ Cardinality(fails) \in Nat
  BY <1>1, <1>3, FailsSplit
<1>5. Cardinality(fails) >= MaxAttempts
  BY <1>2, <1>3, <1>4, LimiterAssumption
<1> QED
  BY <1>5 DEF fails

(* and of any address at most two records' worth, less the one that had to expire. *)
LEMMA ExplainedIsBounded == Inv => FailuresBounded
<1> SUFFICES ASSUME Inv, NEW ip \in Ips PROVE Cardinality(failures[ip]) <= 2 * MaxAttempts - 1
  BY DEF FailuresBounded
<1> DEFINE record == attempts[ip]
           fails == failures[ip]
<1>1. Explained(record, fails, now) /\ Kept(fails, now, Len(event)) /\ now \in Nat /\ Len(event) \in Nat
  BY DEF Inv
<1> HIDE DEF record, fails
<1>2. Cardinality(fails) \in Nat
  BY <1>1, FS_CardinalityType DEF Kept
<1>3. CASE fails = {}
  BY <1>3, FS_EmptySet, LimiterAssumption DEF fails
<1>4. CASE fails # {}
  <2>1. record \in [count : 1..MaxAttempts, firstAttemptAt : Nat]
    BY <1>1, <1>4 DEF Explained
  <2>2. CASE now - record.firstAttemptAt > WindowMs
    <3>1. Cardinality(fails) < record.count
      BY <1>1, <1>4, <2>2 DEF Explained
    <3> QED
      BY <1>2, <2>1, <3>1, LimiterAssumption DEF fails
  <2>3. CASE ~(now - record.firstAttemptAt > WindowMs)
    <3>1. /\ Cardinality(Before(record, fails)) < MaxAttempts
          /\ Cardinality(Counted(record, fails)) = record.count
      BY <1>1, <1>4, <2>3 DEF Explained
    <3>2. /\ Cardinality(fails) <= Cardinality(Before(record, fails)) + Cardinality(Counted(record, fails))
          /\ Cardinality(Before(record, fails)) \in Nat
      BY <1>1, <2>1, FailsSplit, FS_CardinalityType
    <3> QED
      BY <1>2, <2>1, <3>1, <3>2, LimiterAssumption DEF fails
  <2> QED
    BY <2>2, <2>3
<1> QED
  BY <1>3, <1>4

-----------------------------------------------------------------------------
LEMMA InitInv == Init => Inv
<1> SUFFICES ASSUME Init PROVE Inv
  OBVIOUS
<1>1. event = <<>> /\ event \in Seq(Names) /\ now = 0
  BY DEF Init, EventsInit
<1>2. \A ip \in Ips : Explained(attempts[ip], failures[ip], now)
  BY DEF Init, Explained
<1>3. \A ip \in Ips : Kept(failures[ip], now, Len(event))
  BY FS_EmptySet DEF Init, Kept
<1> QED
  BY <1>1, <1>2, <1>3 DEF Init, Inv

(* A longer table of events takes nothing away. *)
LEMMA KeptOn ==
  ASSUME NEW fails, NEW t, NEW ids \in Nat, Kept(fails, t, ids) PROVE Kept(fails, t, ids + 1)
BY DEF Kept

(* What a login does to the events. *)
LEMMA AttemptEvent ==
  ASSUME event \in Seq(Names), NEW c, NEW ip,
         NEW name \in {"admin_login_rate_limited", "admin_login_failed", "admin_login_success"},
         Attempt(c, ip, name)
  PROVE  event' \in Seq(Names) /\ Len(event') = Len(event) + 1 /\ Len(event) \in Nat /\ now' = now
BY NamesAssumption DEF Attempt, BeginRecord

LEMMA StepInv == Inv /\ [Next]_vars => Inv'
<1> SUFFICES ASSUME Inv, [Next]_vars PROVE Inv'
  OBVIOUS
<1> USE DEF Inv
<1>0. Len(event) \in Nat
  OBVIOUS
<1>1. ASSUME UNCHANGED <<event, now, attempts, failures>> PROVE Inv'
  BY <1>1
<1>2. ASSUME NEW c \in Calls, NEW ip \in Ips, RefuseLogin(c, ip) PROVE Inv'
  <2>1. event' \in Seq(Names) /\ Len(event') = Len(event) + 1 /\ now' = now
    BY <1>2, AttemptEvent DEF RefuseLogin
  <2>2. UNCHANGED <<attempts, failures>>
    BY <1>2 DEF RefuseLogin
  <2> QED
    BY <1>0, <2>1, <2>2, KeptOn
<1>3. ASSUME NEW c \in Calls, NEW ip \in Ips, FailLogin(c, ip) PROVE Inv'
  <2>1. event' \in Seq(Names) /\ Len(event') = Len(event) + 1 /\ now' = now
    BY <1>3, AttemptEvent DEF FailLogin
  <2>2. /\ ~IsBlocked(attempts[ip])
        /\ attempts' = [attempts EXCEPT ![ip] = RegisterFailure(attempts[ip])]
        /\ failures' = [failures EXCEPT ![ip] = failures[ip] \cup {[id |-> Len(event) + 1, at |-> now]}]
    BY <1>3, <2>1 DEF FailLogin
  <2>3. Explained(attempts'[ip], failures'[ip], now) /\ Kept(failures'[ip], now, Len(event) + 1)
    BY <1>0, <2>2, FailureIsExplained
  <2>4. \A other \in Ips \ {ip} : attempts'[other] = attempts[other] /\ failures'[other] = failures[other]
    BY <2>2
  <2>5. \A other \in Ips : Explained(attempts'[other], failures'[other], now) /\ Kept(failures'[other], now, Len(event) + 1)
    BY <1>0, <2>3, <2>4, KeptOn
  <2>6. attempts' = [i \in Ips |-> attempts'[i]] /\ failures' = [i \in Ips |-> failures'[i]]
    BY <2>2
  <2> QED
    BY <2>1, <2>5, <2>6
<1>4. ASSUME NEW c \in Calls, NEW ip \in Ips, PassLogin(c, ip) PROVE Inv'
  <2>1. event' \in Seq(Names) /\ Len(event') = Len(event) + 1 /\ now' = now
    BY <1>4, AttemptEvent DEF PassLogin
  <2>2. attempts' = [attempts EXCEPT ![ip] = NoRecord] /\ failures' = [failures EXCEPT ![ip] = {}]
    BY <1>4 DEF PassLogin
  <2>3. Explained(attempts'[ip], failures'[ip], now) /\ Kept(failures'[ip], now, Len(event) + 1)
    BY <2>2, FS_EmptySet DEF Explained, Kept
  <2>4. \A other \in Ips \ {ip} : attempts'[other] = attempts[other] /\ failures'[other] = failures[other]
    BY <2>2
  <2>5. \A other \in Ips : Explained(attempts'[other], failures'[other], now) /\ Kept(failures'[other], now, Len(event) + 1)
    BY <1>0, <2>3, <2>4, KeptOn
  <2>6. attempts' = [i \in Ips |-> attempts'[i]] /\ failures' = [i \in Ips |-> failures'[i]]
    BY <2>2
  <2> QED
    BY <2>1, <2>5, <2>6
<1>5. ASSUME Tick PROVE Inv'
  <2>1. UNCHANGED <<event, attempts>> /\ now' = now + 1
        /\ failures' = [ip \in Ips |-> Recent(failures[ip], now + 1)]
    BY <1>5 DEF Tick, eventVars
  <2>2. \A ip \in Ips : /\ Explained(attempts[ip], failures'[ip], now + 1)
                        /\ Kept(failures'[ip], now + 1, Len(event))
    BY <1>0, <2>1, TickIsExplained
  <2> QED
    BY <2>1, <2>2
<1>6. ASSUME Restart PROVE Inv'
  <2>1. UNCHANGED <<event, now>> /\ attempts' = [ip \in Ips |-> NoRecord]
        /\ failures' = [ip \in Ips |-> {}]
    BY <1>6 DEF Restart, eventVars
  <2>2. \A ip \in Ips : Explained(attempts'[ip], failures'[ip], now) /\ Kept(failures'[ip], now, Len(event))
    BY <2>1, FS_EmptySet DEF Explained, Kept
  <2> QED
    BY <2>1, <2>2
<1>7. ASSUME NEW c \in Calls, Answer(c) PROVE Inv'
  BY <1>1, <1>7 DEF Answer
<1>8. ASSUME EventsStep, UNCHANGED adminVars PROVE Inv'
  BY <1>1, <1>8 DEF EventsStep, EndInsert, NextPage, FirstPage, EndWalk, adminVars
<1>9. CASE UNCHANGED vars
  BY <1>1, <1>9 DEF vars, eventVars, adminVars
<1> QED
  BY <1>2, <1>3, <1>4, <1>5, <1>6, <1>7, <1>8, <1>9 DEF Next

LEMMA InvHolds == Spec => []Inv
BY InitInv, StepInv, PTL DEF Spec

(* Whatever the order of logins, ticks and restarts, no address gets more than  *)
(* 2 * MaxAttempts - 1 wrong codes looked at within a window.                   *)
THEOREM AttemptsAreBounded == Spec => []FailuresBounded
BY InvHolds, ExplainedIsBounded, PTL

(* Whatever the order of logins, ticks and restarts, an address is refused only *)
(* after MaxAttempts wrong codes within the last window.                        *)
THEOREM RefusalIsDeserved == Spec => RefusedOnlyAfterFailures
<1>1. ASSUME Inv PROVE [\A c \in Calls, ip \in Ips : RefuseLogin(c, ip) => Cardinality(failures[ip]) >= MaxAttempts]_vars
  BY <1>1, BlockedHasFailures DEF RefuseLogin
<1> QED
  BY <1>1, InvHolds, PTL DEF RefusedOnlyAfterFailures

-----------------------------------------------------------------------------
(* Every set of naturals that is not empty has a least element: what an induction *)
(* over a number comes to, without a formula as a parameter.                      *)
LEMMA LeastNatural ==
  ASSUME NEW T \in SUBSET Nat, T # {} PROVE \E n \in T : \A m \in T : n <= m
<1> DEFINE R == OpToRel(<, Nat)
<1>1. IsWellFoundedOn(R, Nat)
  BY NatLessThanWellFounded, Zenon
<1>2. PICK n \in T : \A m \in T : <<m, n>> \notin R
  BY <1>1, WFMin, Zenon
<1>3. \A m \in Nat : m < n => <<m, n>> \in R
  BY DEF OpToRel
<1> HIDE DEF R
<1>4. \A m \in T : m \in Nat /\ ~(m < n)
  BY <1>2, <1>3
<1>5. n \in Nat
  OBVIOUS
<1> QED
  BY <1>4, <1>5

(* The rows of a finite table can be put in descending order: a smallest set that *)
(* could not is not empty, and without its least element it can.                  *)
Sortable(S) == \E rows \in SetToSeqs(S) : Descending(rows)

LEMMA SortableWithLeast ==
  ASSUME NEW S \in SUBSET Nat, IsFiniteSet(S), NEW m \in S, \A s \in S : m <= s, Sortable(S \ {m})
  PROVE  Sortable(S)
<1>1. PICK n \in Nat : n = Cardinality(S)
  BY FS_CardinalityType
<1>2. Cardinality(S \ {m}) = n - 1 /\ n - 1 \in Nat
  <2>1. IsFiniteSet(S \ {m}) /\ Cardinality(S \ {m}) = n - 1
    BY <1>1, FS_RemoveElement
  <2> QED
    BY <2>1, FS_CardinalityType
<1>3. PICK rest \in [1..(n - 1) -> S \ {m}] :
        (\A i, j \in 1..(n - 1) : i # j => rest[i] # rest[j]) /\ Descending(rest)
  BY <1>2 DEF Sortable, SetToSeqs
<1> DEFINE rows == [i \in 1..n |-> IF i = n THEN m ELSE rest[i]]
<1>4. \A i \in 1..n : rows[i] = IF i = n THEN m ELSE rest[i]
  OBVIOUS
<1>5. rows \in [1..n -> S] /\ DOMAIN rows = 1..n
  <2>1. \A i \in 1..n : i # n => i \in 1..(n - 1) /\ rest[i] \in S
    BY <1>2, <1>3
  <2>2. \A i \in 1..n : rows[i] \in S
    BY <1>4, <2>1
  <2> QED
    BY <2>2
<1> HIDE DEF rows
<1>6. \A i \in 1..(n - 1) : rest[i] > m /\ rest[i] \in Nat
  <2>1. \A i \in 1..(n - 1) : rest[i] \in S /\ rest[i] # m
    OBVIOUS
  <2>2. \A s \in S : s \in Nat /\ (s # m => s > m)
    OBVIOUS
  <2> QED
    BY <2>1, <2>2
<1>7. ASSUME NEW i \in 1..n, NEW j \in 1..n, i < j PROVE rows[i] > rows[j]
  <2>1. i \in 1..(n - 1) /\ rows[i] = rest[i]
    BY <1>4, <1>7
  <2>2. CASE j = n
    BY <1>4, <1>6, <2>1, <2>2
  <2>3. CASE j # n
    <3>1. j \in 1..(n - 1) /\ rows[j] = rest[j] /\ DOMAIN rest = 1..(n - 1)
      BY <1>4, <2>3
    <3> QED
      BY <1>3, <1>7, <2>1, <3>1 DEF Descending
  <2> QED
    BY <2>2, <2>3
<1>8. \A i \in 1..n : rows[i] \in Nat
  BY <1>5
<1>9. ASSUME NEW i \in 1..n, NEW j \in 1..n, i # j PROVE rows[i] # rows[j]
  <2>1. i < j \/ j < i
    BY <1>9
  <2> QED
    BY <1>7, <1>8, <2>1
<1>10. rows \in SetToSeqs(S)
  BY <1>1, <1>5, <1>9 DEF SetToSeqs
<1> QED
  BY <1>5, <1>7, <1>10 DEF Sortable, Descending

LEMMA SortedRows ==
  ASSUME NEW S \in SUBSET Nat, IsFiniteSet(S) PROVE Sortable(S)
<1> DEFINE Bad == {n \in Nat : \E T \in SUBSET Nat : IsFiniteSet(T) /\ Cardinality(T) = n /\ ~Sortable(T)}
<1>1. Bad = {}
  <2> SUFFICES ASSUME Bad # {} PROVE FALSE
    OBVIOUS
  <2>1. PICK n \in Bad : \A m \in Bad : n <= m
    BY LeastNatural
  <2>2. PICK T \in SUBSET Nat : IsFiniteSet(T) /\ Cardinality(T) = n /\ ~Sortable(T)
    OBVIOUS
  <2>3. T # {}
    <3> SUFFICES ASSUME T = {} PROVE FALSE
      OBVIOUS
    <3>1. Cardinality({}) = 0
      BY FS_EmptySet
    <3> DEFINE none == [i \in 1..0 |-> i]
    <3>2. none \in SetToSeqs({}) /\ Descending(none)
      BY <3>1 DEF SetToSeqs, Descending
    <3> QED
      BY <2>2, <3>2 DEF Sortable
  <2>4. PICK m \in T : \A s \in T : m <= s
    BY <2>2, <2>3, LeastNatural
  <2>5. IsFiniteSet(T \ {m}) /\ Cardinality(T \ {m}) = n - 1
    BY <2>2, FS_RemoveElement
  <2>6. n - 1 \in Nat /\ n \in Nat /\ T \ {m} \in SUBSET Nat
    BY <2>5, FS_CardinalityType
  <2>7. n - 1 \notin Bad
    <3> HIDE DEF Bad
    <3> QED
      BY <2>1, <2>6
  <2>8. Sortable(T \ {m})
    BY <2>5, <2>6, <2>7
  <2> QED
    BY <2>2, <2>4, <2>8, SortableWithLeast
<1> QED
  BY <1>1, FS_CardinalityType

(* The query returns every row once, the latest first. *)
LEMMA RowsOf ==
  ASSUME NEW S \in SUBSET Nat, IsFiniteSet(S), NEW rows, rows = OrderedById(S)
  PROVE  /\ rows \in Seq(S) /\ Descending(rows)
         /\ \A s \in S : \E i \in 1..Len(rows) : rows[i] = s
<1>1. rows \in SetToSeqs(S) /\ Descending(rows)
  BY SortedRows DEF OrderedById, Sortable
<1>2. PICK n \in Nat : n = Cardinality(S)
  BY FS_CardinalityType
<1>3. rows \in [1..n -> S] /\ \A i, j \in 1..n : i # j => rows[i] # rows[j]
  BY <1>1, <1>2 DEF SetToSeqs
<1>4. rows \in Seq(S) /\ Len(rows) = n
  BY <1>3
<1>5. rows \in Injection(1..n, S)
  BY <1>3 DEF Injection, IsInjective
<1>6. Cardinality(1..n) = n
  BY FS_Interval
<1>7. rows \in Surjection(1..n, S)
  BY <1>2, <1>5, <1>6, FS_Injection
<1> QED
  BY <1>1, <1>4, <1>7 DEF Surjection

-----------------------------------------------------------------------------
LEMMA MinOfTwo ==
  ASSUME NEW a \in Int, NEW b \in Int PROVE Min({a, b}) = IF a <= b THEN a ELSE b
<1>1. \E x \in {a, b} : \A y \in {a, b} : x <= y
  OBVIOUS
<1>2. Min({a, b}) \in {a, b} /\ \A y \in {a, b} : Min({a, b}) <= y
  BY <1>1 DEF Min
<1> QED
  BY <1>2

LEMMA MaxOfTwo ==
  ASSUME NEW a \in Int, NEW b \in Int PROVE Max({a, b}) = IF a >= b THEN a ELSE b
<1>1. \E x \in {a, b} : \A y \in {a, b} : x >= y
  OBVIOUS
<1>2. Max({a, b}) \in {a, b} /\ \A y \in {a, b} : Max({a, b}) >= y
  BY <1>1 DEF Max
<1> QED
  BY <1>2

(* Whatever is asked for, a page has room for a row, and for no more than MaxLimit. *)
LEMMA LimitIsClamped == ASSUME NEW limit \in Limits PROVE ClampLimit(limit) \in 1..MaxLimit
<1>1. CASE limit = Undefined
  BY <1>1, LimitsAssumption DEF ClampLimit
<1>2. CASE limit # Undefined
  <2>1. limit \in Int /\ 1 \in Int /\ MaxLimit \in Nat \ {0}
    BY <1>2, LimitsAssumption
  <2>2. Max({limit, 1}) \in Nat \ {0}
    BY <2>1, MaxOfTwo
  <2>3. Min({Max({limit, 1}), MaxLimit}) \in 1..MaxLimit
    BY <2>1, <2>2, MinOfTwo
  <2> QED
    BY <1>2, <2>3 DEF ClampLimit
<1> QED
  BY <1>1, <1>2

-----------------------------------------------------------------------------
(* The rows a page is cut from. *)
Below(filter, cursor) == {id \in Matching(filter) : cursor # NoCursor => id < cursor}

LEMMA FoundBelow ==
  ASSUME NEW ids \in Nat, stored \subseteq 1..ids, NEW filter, NEW cursor \in Matching(filter) \cup {NoCursor},
         NEW found, found = Found(filter, cursor)
  PROVE  /\ found \in Seq(Below(filter, cursor)) /\ Descending(found)
         /\ Below(filter, cursor) \subseteq Range(found)
<1> DEFINE from == {id \in Matching(filter) : cursor # NoCursor => id <= cursor}
           rows == OrderedById(from)
           B == Below(filter, cursor)
<1>1. Matching(filter) \subseteq 1..ids
  BY DEF Matching
<1>2. from \subseteq 1..ids /\ from \in SUBSET Nat /\ IsFiniteSet(from)
  <2>1. from \subseteq 1..ids
    BY <1>1
  <2>2. IsFiniteSet(1..ids)
    BY FS_Interval
  <2> HIDE DEF from
  <2> QED
    <3>1. IsFiniteSet(from)
      BY <2>1, <2>2, FS_Subset
    <3> QED
      BY <2>1, <3>1
<1>3. /\ rows \in Seq(from) /\ Descending(rows)
      /\ \A id \in from : \E i \in 1..Len(rows) : rows[i] = id
  <2> HIDE DEF from
  <2> QED
    BY <1>2, RowsOf
<1>4. found = SubSeq(rows, Skip(cursor) + 1, Len(rows))
  BY DEF Found
<1>5. /\ B \subseteq from /\ (cursor = NoCursor => from = B)
      /\ cursor # NoCursor => cursor \in from /\ from = B \cup {cursor} /\ cursor \notin B
  BY <1>1 DEF Below, NoCursor
<1>6. PICK n \in Nat : n = Len(rows)
  <2> HIDE DEF from, rows
  <2> QED
    BY <1>3
<1> HIDE DEF from, rows, B
<1>7. \A i, j \in 1..n : i < j => rows[i] > rows[j]
  BY <1>3, <1>6 DEF Descending
<1>8. \A i \in 1..n : rows[i] \in from /\ rows[i] \in Nat
  <2>1. \A i \in 1..n : rows[i] \in from
    BY <1>3, <1>6
  <2> QED
    BY <1>2, <2>1
<1>9. CASE cursor = NoCursor
  <2>1. found = rows
    BY <1>3, <1>4, <1>9 DEF Skip
  <2> QED
    BY <1>3, <1>5, <1>9, <2>1 DEF B, Range
<1>10. CASE cursor # NoCursor
  <2>1. PICK k \in 1..n : rows[k] = cursor
    BY <1>3, <1>5, <1>6, <1>10
  <2>2. k = 1
    <3>1. rows[1] <= cursor
      <4>1. rows[1] \in from /\ 1 \in 1..n
        BY <1>8, <2>1
      <4> QED
        BY <1>10, <4>1 DEF from
    <3> QED
      BY <1>7, <1>8, <2>1, <3>1
  <2>3. n >= 1 /\ rows[1] = cursor
    BY <2>1, <2>2
  <2>4. found = SubSeq(rows, 2, n)
    BY <1>4, <1>6, <1>10 DEF Skip
  <2>5. ASSUME NEW i \in 2..n PROVE rows[i] \in B
    <3>1. i \in 1..n /\ 1 \in 1..n /\ 1 < i /\ rows[i] \in from /\ rows[i] \in Nat
      BY <1>8
    <3>2. rows[1] > rows[i]
      BY <1>7, <3>1
    <3>3. rows[i] # cursor
      BY <2>3, <3>1, <3>2
    <3> QED
      BY <1>5, <1>10, <3>1, <3>3
  <2>6. found \in Seq(B) /\ Len(found) = n - 1 /\ \A i \in 1..(n - 1) : found[i] = rows[i + 1]
    BY <2>3, <2>4, <2>5, SubSeqProperties
  <2>7. DOMAIN found = 1..(n - 1)
    BY <2>6
  <2>8. Descending(found)
    <3> SUFFICES ASSUME NEW i \in 1..(n - 1), NEW j \in 1..(n - 1), i < j PROVE found[i] > found[j]
      BY <2>7 DEF Descending
    <3>1. i + 1 \in 1..n /\ j + 1 \in 1..n /\ i + 1 < j + 1
      OBVIOUS
    <3> QED
      BY <1>7, <2>6, <3>1
  <2>9. ASSUME NEW id \in B PROVE \E i \in 1..(n - 1) : found[i] = id
    <3>1. PICK i \in 1..n : rows[i] = id
      BY <1>3, <1>5, <1>6
    <3>2. i # 1
      BY <1>5, <1>10, <2>3, <3>1
    <3>3. i - 1 \in 1..(n - 1) /\ (i - 1) + 1 = i
      BY <3>2
    <3> QED
      BY <2>6, <3>1, <3>3
  <2> QED
    BY <2>6, <2>7, <2>8, <2>9 DEF B, Range
<1> QED
  BY <1>9, <1>10

(* A page: rows of the filter below the cursor, the latest first, and all of them *)
(* down to the next cursor, which is its last row.                                *)
LEMMA FindManyPage ==
  ASSUME NEW ids \in Nat, stored \subseteq 1..ids, NEW filter, NEW limit \in Limits,
         NEW cursor \in Matching(filter) \cup {NoCursor},
         NEW page, page = FindMany(filter, limit, cursor)
  PROVE  /\ page.items \in Seq(Below(filter, cursor)) /\ Descending(page.items)
         /\ page.nextCursor # NoCursor =>
              /\ page.nextCursor \in Range(page.items)
              /\ \A i \in DOMAIN page.items : page.items[i] >= page.nextCursor
         /\ page.nextCursor \in Below(filter, cursor) \cup {NoCursor}
         /\ \A id \in Below(filter, cursor) : id >= page.nextCursor => id \in Range(page.items)
<1> DEFINE B == Below(filter, cursor)
           items == page.items
           next == page.nextCursor
<1>1. PICK n \in Nat \ {0} : n = ClampLimit(limit)
  BY LimitIsClamped
<1>2. PICK rows : rows = Found(filter, cursor)
  OBVIOUS
<1>3. /\ rows \in Seq(B) /\ Descending(rows)
      /\ \A id \in B : \E i \in 1..Len(rows) : rows[i] = id
  <2> HIDE DEF items, next, B
  <2>1. cursor \in Matching(filter) \cup {NoCursor} /\ stored \subseteq 1..ids /\ ids \in Nat
    OBVIOUS
  <2>2. /\ rows \in Seq(Below(filter, cursor)) /\ Descending(rows)
        /\ Below(filter, cursor) \subseteq Range(rows)
    BY <1>2, <2>1, FoundBelow
  <2> QED
    BY <2>2 DEF B, Range
<1>4. PICK len \in Nat : len = Len(rows)
  BY <1>3
<1>5. items = SubSeq(rows, 1, Min({n, len})) /\ next = IF len > n THEN rows[n] ELSE NoCursor
  BY <1>1, <1>2, <1>4 DEF FindMany, NextCursor
<1>6. PICK m \in Nat : m = IF n <= len THEN n ELSE len
  OBVIOUS
<1>7. Min({n, len}) = m /\ m <= len
  BY <1>6, MinOfTwo
<1>8. B \subseteq Nat
  <2>1. B \subseteq stored /\ stored \subseteq 1..ids
    BY DEF Below, Matching
  <2> HIDE DEF B
  <2> QED
    BY <2>1
<1> HIDE DEF items, next, B
<1>9. \A i \in 1..len : rows[i] \in B /\ rows[i] \in Nat
  <2>1. \A i \in 1..len : rows[i] \in B
    BY <1>3, <1>4
  <2> QED
    BY <1>8, <2>1
<1>10. \A i, j \in 1..len : i < j => rows[i] > rows[j]
  BY <1>3, <1>4 DEF Descending
<1>11. /\ items \in Seq(B) /\ Len(items) = m /\ DOMAIN items = 1..m
       /\ \A i \in 1..m : items[i] = rows[i]
  <2>1. items = SubSeq(rows, 1, m) /\ \A i \in 1..m : rows[i] \in B
    <3>1. items = SubSeq(rows, 1, m)
      BY <1>5, <1>7
    <3>2. \A i \in 1..m : i \in 1..len
      BY <1>7
    <3> QED
      BY <1>9, <3>1, <3>2
  <2> QED
    BY <2>1, SubSeqProperties
<1>12. Descending(items)
  BY <1>7, <1>10, <1>11 DEF Descending
<1>13. CASE len > n
  <2>1. m = n /\ next = rows[n] /\ n \in 1..m /\ n \in 1..len
    BY <1>5, <1>6, <1>13
  <2>2. next \in Range(items) /\ next \in B
    BY <1>9, <1>11, <2>1 DEF Range
  <2>3. \A i \in 1..m : items[i] >= next
    <3> SUFFICES ASSUME NEW i \in 1..m PROVE rows[i] >= rows[n]
      BY <1>11, <2>1
    <3>1. i \in 1..len /\ (i < n \/ i = n)
      BY <1>7, <2>1
    <3> QED
      BY <1>9, <1>10, <2>1, <3>1
  <2>4. ASSUME NEW id \in B, id >= next PROVE id \in Range(items)
    <3>1. PICK i \in 1..len : rows[i] = id
      BY <1>3, <1>4
    <3>2. i <= n
      BY <1>9, <1>10, <2>1, <2>4, <3>1
    <3>3. i \in 1..m /\ items[i] = id
      BY <1>11, <2>1, <3>1, <3>2
    <3> QED
      BY <1>11, <3>3 DEF Range
  <2> QED
    BY <1>11, <1>12, <2>2, <2>3, <2>4 DEF B, items, next
<1>14. CASE ~(len > n)
  <2>1. m = len /\ next = NoCursor
    BY <1>5, <1>6, <1>14
  <2>2. \A id \in B : id \in Range(items)
    BY <1>3, <1>4, <1>11, <2>1 DEF Range
  <2> QED
    BY <1>11, <1>12, <2>1, <2>2 DEF B, items, next
<1> QED
  BY <1>13, <1>14

-----------------------------------------------------------------------------
(* A walk under way: it has shown, the latest first, all that is due down to its *)
(* cursor, which is the last row shown, and none of what is due can yet arrive.  *)
Walking(w) ==
  /\ w.due \cap inserting = {}
  /\ \A id \in w.due : w.filter \in {Undefined, event[id]}
  /\ Range(w.got) \subseteq Matching(w.filter) /\ Descending(w.got)
  /\ w.cursor # NoCursor => w.cursor \in Range(w.got) /\ \A id \in Range(w.got) : id >= w.cursor
  /\ \A id \in w.due \cap stored : id >= w.cursor => id \in Range(w.got)

(* What record() has answered for has left the inserts. *)
WalksInv ==
  /\ EventsTypeOK
  /\ call \in [Calls -> EventIds \cup {0}]
  /\ returned \cap inserting = {}
  /\ walk # NoWalk => Walking(walk)

LEMMA ShownInOrder == WalksInv => PagesInOrder /\ WalkIsComplete
<1> SUFFICES ASSUME WalksInv, walk # NoWalk PROVE PagesInOrder /\ WalkIsComplete
  BY DEF PagesInOrder, WalkIsComplete
<1>1. Walking(walk) /\ walk \in Walk /\ walk.got \in Seq(EventIds)
  BY DEF WalksInv, EventsTypeOK, Walk
<1>2. WalkIsComplete
  BY <1>1 DEF Walking, WalkIsComplete
<1>3. ASSUME NEW i \in DOMAIN walk.got
      PROVE  walk.got[i] \in Matching(walk.filter) /\ \A j \in 1..(i - 1) : walk.got[j] > walk.got[i]
  <2>1. walk.got[i] \in Range(walk.got)
    BY DEF Range
  <2>2. DOMAIN walk.got = 1..Len(walk.got) /\ Len(walk.got) \in Nat
    BY <1>1
  <2>3. \A j \in 1..(i - 1) : j \in DOMAIN walk.got /\ j < i
    BY <2>2
  <2> QED
    BY <1>1, <2>1, <2>3 DEF Walking, Descending
<1> QED
  BY <1>2, <1>3 DEF PagesInOrder

-----------------------------------------------------------------------------
(* A new event is in the table at the earliest after its insert, so no walk that *)
(* is under way has to show it.                                                  *)
LEMMA BeginRecordWalks ==
  ASSUME WalksInv, NEW name \in Names, BeginRecord(name), UNCHANGED <<stored, returned, walk>>
  PROVE  /\ EventsTypeOK' /\ (returned \cap inserting = {})' /\ (walk # NoWalk => Walking(walk))'
         /\ EventIds \subseteq EventIds' /\ Len(event') \in EventIds'
<1>1. event \in Seq(Names) /\ Len(event) \in Nat /\ EventIds = 1..Len(event)
  BY DEF WalksInv, EventsTypeOK, EventIds
<1>2. /\ event' \in Seq(Names) /\ Len(event') = Len(event) + 1 /\ Len(event') <= MaxEvents
      /\ \A id \in EventIds : event'[id] = event[id]
  BY <1>1, LimitsAssumption DEF BeginRecord
<1>3. EventIds' = 1..(Len(event) + 1) /\ EventIds \subseteq EventIds' /\ Len(event) + 1 \notin EventIds
  BY <1>1, <1>2 DEF EventIds
<1>4. inserting' = inserting \cup {Len(event) + 1} /\ stored' = stored /\ returned' = returned /\ walk' = walk
  BY DEF BeginRecord
<1>5. /\ inserting \subseteq EventIds /\ stored \subseteq EventIds \ inserting /\ returned \subseteq EventIds
      /\ walk \in Walk \cup {NoWalk}
  BY DEF WalksInv, EventsTypeOK
<1>6. EventsTypeOK' /\ returned' \cap inserting' = {}
  <2>1. inserting' \subseteq EventIds' /\ stored' \subseteq EventIds' \ inserting' /\ returned' \subseteq EventIds'
    <3>1. Len(event) + 1 \in EventIds'
      BY <1>1, <1>3
    <3> QED
      BY <1>3, <1>4, <1>5, <3>1
  <2>2. ASSUME walk \in Walk PROVE walk \in Walk'
    <3>1. walk.got \in Seq(EventIds')
      <4>1. walk.got \in Seq(EventIds) /\ EventIds \subseteq EventIds'
        BY <1>3, <2>2 DEF Walk
      <4> QED
        BY ONLY <4>1, SeqMonotonic
    <3>2. walk.cursor \in EventIds' \cup {NoCursor} /\ walk.due \subseteq EventIds'
      BY <1>3, <2>2 DEF Walk
    <3> QED
      BY <2>2, <3>1, <3>2 DEF Walk, NoCursor
  <2>3. walk' \in Walk' \cup {NoWalk}
    BY <1>4, <1>5, <2>2
  <2>4. returned' \cap inserting' = {}
    BY <1>3, <1>4, <1>5 DEF WalksInv
  <2> QED
    BY <1>2, <2>1, <2>3, <2>4 DEF EventsTypeOK, NoWalk
<1>7. ASSUME walk # NoWalk PROVE Walking(walk)'
  <2>1. Walking(walk) /\ walk.due \subseteq EventIds
    BY <1>5, <1>7 DEF WalksInv, Walk
  <2>2. Matching(walk.filter)' = Matching(walk.filter)
    BY <1>2, <1>4, <1>5 DEF Matching
  <2>3. walk.due \cap inserting' = {}
    BY <1>3, <1>4, <2>1 DEF Walking
  <2>4. \A id \in walk.due : walk.filter \in {Undefined, event'[id]}
    BY <1>2, <2>1 DEF Walking
  <2> QED
    BY <1>4, <2>1, <2>2, <2>3, <2>4 DEF Walking
<1> QED
  BY <1>1, <1>2, <1>3, <1>4, <1>6, <1>7 DEF NoWalk

(* A row arrives, or never will. *)
LEMMA EndInsertWalks ==
  ASSUME WalksInv, NEW id \in EventIds, EndInsert(id)
  PROVE  EventsTypeOK' /\ (returned \cap inserting = {})' /\ (walk # NoWalk => Walking(walk))'
<1>1. /\ id \in inserting /\ inserting' = inserting \ {id} /\ stored' \subseteq stored \cup {id}
      /\ stored \subseteq stored' /\ UNCHANGED <<event, returned, walk>>
  BY DEF EndInsert
<1>2. /\ inserting \subseteq EventIds /\ stored \subseteq EventIds \ inserting
      /\ returned \subseteq EventIds /\ walk \in Walk \cup {NoWalk}
      /\ event \in Seq(Names) /\ Len(event) <= MaxEvents
  BY DEF WalksInv, EventsTypeOK
<1>3. EventIds' = EventIds /\ Walk' = Walk
  BY <1>1 DEF EventIds, Walk
<1>4. EventsTypeOK' /\ returned' \cap inserting' = {}
  <2>1. inserting' \subseteq EventIds /\ stored' \subseteq EventIds \ inserting' /\ returned' \cap inserting' = {}
    BY <1>1, <1>2 DEF WalksInv
  <2> QED
    BY <1>1, <1>2, <1>3, <2>1 DEF EventsTypeOK, NoWalk
<1>5. ASSUME walk # NoWalk PROVE Walking(walk)'
  <2>1. Walking(walk)
    BY <1>5 DEF WalksInv
  <2>2. Matching(walk.filter) \subseteq Matching(walk.filter)'
    BY <1>1 DEF Matching
  <2>3. walk.due \cap inserting' = {} /\ walk.due \cap stored' = walk.due \cap stored
    BY <1>1, <2>1 DEF Walking
  <2> QED
    BY <1>1, <2>1, <2>2, <2>3 DEF Walking
<1> QED
  BY <1>1, <1>4, <1>5 DEF NoWalk

(* A walk begins with the rows there are. *)
LEMMA FirstPageWalks ==
  ASSUME WalksInv, NEW filter \in Filters, NEW limit \in Limits, FirstPage(filter, limit)
  PROVE  EventsTypeOK' /\ (walk # NoWalk => Walking(walk))'
<1> DEFINE page == FindMany(filter, limit, NoCursor)
           due == Matching(filter) \cup {id \in returned : filter \in {Undefined, event[id]}}
           w == [filter |-> filter, got |-> page.items, cursor |-> page.nextCursor, due |-> due]
<1>1. walk' = w /\ UNCHANGED <<event, inserting, stored, returned>>
  BY DEF FirstPage
<1>2. /\ inserting \subseteq EventIds /\ stored \subseteq EventIds \ inserting
      /\ returned \subseteq EventIds /\ returned \cap inserting = {}
      /\ event \in Seq(Names) /\ Len(event) <= MaxEvents
  BY DEF WalksInv, EventsTypeOK
<1>3. EventIds' = EventIds /\ Walk' = Walk /\ EventIds = 1..Len(event) /\ Len(event) \in Nat
  BY <1>1, <1>2 DEF EventIds, Walk
<1>4. Below(filter, NoCursor) = Matching(filter) /\ Matching(filter) \subseteq stored
  BY DEF Below, Matching
<1>5. /\ page.items \in Seq(Matching(filter)) /\ Descending(page.items)
      /\ page.nextCursor # NoCursor =>
           /\ page.nextCursor \in Range(page.items)
           /\ \A i \in DOMAIN page.items : page.items[i] >= page.nextCursor
      /\ page.nextCursor \in Matching(filter) \cup {NoCursor}
      /\ \A id \in Matching(filter) : id >= page.nextCursor => id \in Range(page.items)
  <2>1. stored \subseteq 1..Len(event) /\ NoCursor \in Matching(filter) \cup {NoCursor}
    BY <1>2, <1>3
  <2> HIDE DEF page
  <2>2. PICK p, c : p = page /\ c = NoCursor
    OBVIOUS
  <2>3. p = FindMany(filter, limit, c) /\ c \in Matching(filter) \cup {NoCursor}
    BY <2>2 DEF page
  <2>4. PICK B : B = Below(filter, c)
    OBVIOUS
  <2>5. /\ p.items \in Seq(B) /\ Descending(p.items)
        /\ p.nextCursor # NoCursor =>
             /\ p.nextCursor \in Range(p.items)
             /\ \A i \in DOMAIN p.items : p.items[i] >= p.nextCursor
        /\ p.nextCursor \in B \cup {NoCursor}
        /\ \A id \in B : id >= p.nextCursor => id \in Range(p.items)
    BY <1>3, <2>1, <2>3, <2>4, FindManyPage
  <2>6. B = Matching(filter)
    BY <1>4, <2>2, <2>4
  <2> QED
    BY <2>2, <2>5, <2>6
<1> HIDE DEF page
<1>6. due \subseteq EventIds /\ due \cap inserting = {} /\ due \cap stored = Matching(filter)
      /\ \A id \in due : filter \in {Undefined, event[id]}
  BY <1>2, <1>4 DEF Matching
<1>7. page.items \in Seq(EventIds) /\ Range(page.items) \subseteq Matching(filter)
  BY <1>2, <1>4, <1>5, SeqMonotonic DEF Range
<1> HIDE DEF due
<1>8. w.filter = filter /\ w.got = page.items /\ w.cursor = page.nextCursor /\ w.due = due
  OBVIOUS
<1>9. w \in Walk
  BY <1>2, <1>4, <1>5, <1>6, <1>7 DEF Walk
<1> HIDE DEF w
<1>10. Walking(w)
  <2>1. page.nextCursor # NoCursor => \A id \in Range(page.items) : id >= page.nextCursor
    BY <1>5 DEF Range
  <2> QED
    BY <1>5, <1>6, <1>7, <1>8, <2>1 DEF Walking
<1>11. Walking(walk)'
  BY <1>1, <1>10 DEF Walking, Matching
<1>12. EventsTypeOK'
  BY <1>1, <1>2, <1>3, <1>9 DEF EventsTypeOK, NoWalk
<1> QED
  BY <1>11, <1>12

(* The rows below the cursor follow those down to it. *)
LEMMA NextPageWalks ==
  ASSUME WalksInv, NEW limit \in Limits, NextPage(limit)
  PROVE  EventsTypeOK' /\ (walk # NoWalk => Walking(walk))'
<1> DEFINE page == FindMany(walk.filter, limit, walk.cursor)
           B == Below(walk.filter, walk.cursor)
           got == walk.got \o page.items
           w == [walk EXCEPT !.got = got, !.cursor = page.nextCursor]
<1>1. walk' = w /\ walk.cursor # NoCursor /\ UNCHANGED <<event, inserting, stored, returned>>
  BY DEF NextPage
<1>2. /\ inserting \subseteq EventIds /\ stored \subseteq EventIds \ inserting
      /\ returned \subseteq EventIds
      /\ event \in Seq(Names) /\ Len(event) <= MaxEvents
  BY DEF WalksInv, EventsTypeOK
<1>3. EventIds' = EventIds /\ Walk' = Walk /\ EventIds = 1..Len(event) /\ Len(event) \in Nat
  BY <1>1, <1>2 DEF EventIds, Walk
<1>4. walk # NoWalk
  BY <1>1 DEF NoWalk
<1>5. Walking(walk) /\ walk \in Walk
  BY <1>4 DEF WalksInv, EventsTypeOK
<1>6. /\ walk.got \in Seq(EventIds) /\ Range(walk.got) \subseteq Matching(walk.filter)
      /\ Descending(walk.got) /\ walk.cursor \in Range(walk.got)
      /\ \A id \in Range(walk.got) : id >= walk.cursor
      /\ walk.filter \in Filters /\ walk.due \subseteq EventIds
  BY <1>1, <1>5 DEF Walking, Walk
<1>7. /\ page.items \in Seq(B) /\ Descending(page.items)
      /\ page.nextCursor # NoCursor =>
           /\ page.nextCursor \in Range(page.items)
           /\ \A i \in DOMAIN page.items : page.items[i] >= page.nextCursor
      /\ page.nextCursor \in B \cup {NoCursor}
      /\ \A id \in B : id >= page.nextCursor => id \in Range(page.items)
  <2>1. stored \subseteq 1..Len(event) /\ walk.cursor \in Matching(walk.filter) \cup {NoCursor}
    BY <1>2, <1>3, <1>6
  <2> HIDE DEF page
  <2>2. PICK p, f, c : p = page /\ f = walk.filter /\ c = walk.cursor
    OBVIOUS
  <2>3. p = FindMany(f, limit, c) /\ c \in Matching(f) \cup {NoCursor}
    BY <2>1, <2>2 DEF page
  <2> QED
    BY <1>3, <2>1, <2>2, <2>3, FindManyPage
<1> HIDE DEF page
<1>8. /\ B \subseteq Matching(walk.filter) /\ Matching(walk.filter) \subseteq EventIds
      /\ B \subseteq EventIds /\ EventIds \subseteq Nat /\ walk.cursor \in Nat
      /\ \A id \in Matching(walk.filter) : id \in B <=> id < walk.cursor
  <2>1. B \subseteq Matching(walk.filter) /\ \A id \in Matching(walk.filter) : id \in B <=> id < walk.cursor
    BY <1>1 DEF Below
  <2>2. Matching(walk.filter) \subseteq EventIds
    BY <1>2 DEF Matching
  <2> HIDE DEF B
  <2>3. EventIds \subseteq Nat
    BY <1>3
  <2> QED
    BY <1>6, <2>1, <2>2, <2>3
<1> HIDE DEF B
<1>9. page.items \in Seq(EventIds) /\ Range(page.items) \subseteq B
  <2>1. page.items \in Seq(EventIds)
    <3>1. page.items \in Seq(B) /\ B \subseteq EventIds
      BY <1>7, <1>8
    <3> QED
      BY ONLY <3>1, SeqMonotonic
  <2> QED
    BY <1>7, <2>1 DEF Range
<1>10. got \in Seq(EventIds) /\ Range(got) = Range(walk.got) \cup Range(page.items)
  BY <1>6, <1>9, ConcatProperties, RangeConcatenation
<1>11. Descending(got)
  <2>1. PICK m, n \in Nat : m = Len(walk.got) /\ n = Len(page.items)
    BY <1>6, <1>9
  <2>2. /\ Len(got) = m + n /\ DOMAIN got = 1..(m + n)
        /\ \A i \in 1..m : got[i] = walk.got[i] /\ i \in DOMAIN walk.got
        /\ \A i \in (m + 1)..(m + n) : got[i] = page.items[i - m] /\ i - m \in DOMAIN page.items
    <3>1. Len(got) = m + n /\ DOMAIN got = 1..(m + n)
      BY <1>6, <1>9, <1>10, <2>1, ConcatProperties
    <3>2. \A i \in 1..(m + n) : got[i] = IF i <= m THEN walk.got[i] ELSE page.items[i - m]
      BY <1>6, <1>9, <2>1, ConcatProperties
    <3>3. \A i \in 1..m : i \in DOMAIN walk.got /\ i \in 1..(m + n)
      <4>1. DOMAIN walk.got = 1..m
        BY <1>6, <2>1
      <4> QED
        BY <4>1
    <3>4. \A i \in (m + 1)..(m + n) : i - m \in DOMAIN page.items /\ i \in 1..(m + n) /\ ~(i <= m)
      <4>1. DOMAIN page.items = 1..n
        BY <1>9, <2>1
      <4> QED
        BY <4>1
    <3> HIDE DEF got
    <3>5. \A i \in 1..m : got[i] = walk.got[i]
      BY <3>2, <3>3
    <3>6. \A i \in (m + 1)..(m + n) : got[i] = page.items[i - m]
      BY <3>2, <3>4
    <3> QED
      BY <3>1, <3>3, <3>4, <3>5, <3>6
  <2>3. \A i \in 1..m : got[i] \in Range(walk.got) /\ got[i] >= walk.cursor /\ got[i] \in Nat
    <3>1. \A i \in 1..m : got[i] \in Range(walk.got)
      BY <2>2 DEF Range
    <3> QED
      BY <1>6, <1>8, <3>1
  <2>4. \A i \in (m + 1)..(m + n) : got[i] \in B /\ got[i] < walk.cursor /\ got[i] \in Nat
    <3>1. \A i \in (m + 1)..(m + n) : got[i] \in B
      BY <1>9, <2>2 DEF Range
    <3> QED
      BY <1>8, <3>1
  <2>5. walk.cursor \in Nat
    BY <1>8
  <2> SUFFICES ASSUME NEW i \in 1..(m + n), NEW j \in 1..(m + n), i < j PROVE got[i] > got[j]
    BY <2>2 DEF Descending
  <2> HIDE DEF got
  <2>6. CASE j <= m
    <3>1. i \in 1..m /\ j \in 1..m
      BY <2>6
    <3> QED
      BY <1>6, <2>2, <3>1 DEF Descending
  <2>7. CASE i > m
    <3>1. i \in (m + 1)..(m + n) /\ j \in (m + 1)..(m + n) /\ i - m < j - m
      BY <2>7
    <3> QED
      BY <1>7, <2>2, <3>1 DEF Descending
  <2>8. CASE i <= m /\ j > m
    <3>1. i \in 1..m /\ j \in (m + 1)..(m + n)
      BY <2>8
    <3> QED
      BY <2>3, <2>4, <2>5, <3>1
  <2> QED
    BY <2>6, <2>7, <2>8
<1> HIDE DEF got
<1>12. DOMAIN walk = {"filter", "got", "cursor", "due"}
  BY <1>5 DEF Walk
<1>13. w.filter = walk.filter /\ w.got = got /\ w.cursor = page.nextCursor /\ w.due = walk.due
  BY <1>5 DEF Walk
<1>14. w \in Walk
  <2>1. page.nextCursor \in EventIds \cup {NoCursor}
    BY <1>7, <1>8
  <2> QED
    BY <1>5, <1>10, <2>1 DEF Walk
<1> HIDE DEF w
<1>15. \A id \in Range(got) : id \in Matching(walk.filter)
  BY <1>6, <1>8, <1>9, <1>10
<1>16. page.nextCursor # NoCursor => page.nextCursor \in Range(got) /\ \A id \in Range(got) : id >= page.nextCursor
  <2> SUFFICES ASSUME page.nextCursor # NoCursor, NEW id \in Range(got) PROVE page.nextCursor \in Range(got) /\ id >= page.nextCursor
    BY <1>7, <1>10
  <2>1. page.nextCursor \in Range(page.items) /\ page.nextCursor \in B /\ page.nextCursor < walk.cursor
    BY <1>7, <1>8
  <2>2. page.nextCursor \in Nat /\ walk.cursor \in Nat /\ id \in Nat
    <3>1. id \in EventIds
      BY <1>6, <1>8, <1>9, <1>10
    <3> QED
      BY <1>8, <2>1, <3>1
  <2>3. CASE id \in Range(walk.got)
    BY <1>6, <1>10, <2>1, <2>2, <2>3
  <2>4. CASE id \in Range(page.items)
    BY <1>7, <1>10, <2>1, <2>4 DEF Range
  <2> QED
    BY <1>10, <2>3, <2>4
<1>17. ASSUME NEW id \in walk.due \cap stored, id >= page.nextCursor PROVE id \in Range(got)
  <2>1. id \in Matching(walk.filter) /\ id \in Nat
    <3>1. id \in Matching(walk.filter)
      BY <1>5 DEF Walking, Matching
    <3> QED
      BY <1>2, <1>8, <3>1
  <2>2. CASE id >= walk.cursor
    BY <1>5, <1>10, <2>2 DEF Walking
  <2>3. CASE ~(id >= walk.cursor)
    <3>1. walk.cursor \in Nat
      BY <1>8
    <3>2. id \in B
      BY <1>8, <2>1, <2>3, <3>1
    <3> QED
      BY <1>7, <1>10, <1>17, <3>2
  <2> QED
    BY <2>2, <2>3
<1>18. Walking(w)
  BY <1>5, <1>11, <1>13, <1>15, <1>16, <1>17 DEF Walking
<1>19. Walking(walk)'
  BY <1>1, <1>18 DEF Walking, Matching
<1>20. EventsTypeOK'
  BY <1>1, <1>2, <1>3, <1>14 DEF EventsTypeOK, NoWalk
<1> QED
  BY <1>19, <1>20

-----------------------------------------------------------------------------
LEMMA AttemptWalks ==
  ASSUME WalksInv, NEW c \in Calls, NEW ip, NEW name \in Names, Attempt(c, ip, name)
  PROVE  WalksInv' /\ EventIds \subseteq EventIds' /\ Len(event') \in EventIds'
<1>1. BeginRecord(name) /\ UNCHANGED <<stored, returned, walk>> /\ call' = [call EXCEPT ![c] = Len(event')]
  BY DEF Attempt
<1>2. /\ EventsTypeOK' /\ (returned \cap inserting = {})' /\ (walk # NoWalk => Walking(walk))'
      /\ EventIds \subseteq EventIds' /\ Len(event') \in EventIds'
  BY <1>1, BeginRecordWalks
<1>3. call' \in [Calls -> EventIds' \cup {0}]
  <2>1. call \in [Calls -> EventIds \cup {0}]
    BY DEF WalksInv
  <2> QED
    BY <1>1, <1>2, <2>1
<1> QED
  BY <1>2, <1>3 DEF WalksInv

LEMMA InitWalks == Init => WalksInv
<1> SUFFICES ASSUME Init PROVE WalksInv
  OBVIOUS
<1>1. event = <<>> /\ EventIds = {} /\ event \in Seq(Names) /\ Len(event) = 0
  BY DEF Init, EventsInit, EventIds
<1> QED
  BY <1>1, LimitsAssumption DEF Init, EventsInit, WalksInv, EventsTypeOK

LEMMA StepWalks == WalksInv /\ [Next]_vars => WalksInv'
<1> SUFFICES ASSUME WalksInv, [Next]_vars PROVE WalksInv'
  OBVIOUS
<1>0. EventsTypeOK /\ call \in [Calls -> EventIds \cup {0}] /\ returned \cap inserting = {}
  BY DEF WalksInv
<1>1. ASSUME NEW c \in Calls, NEW ip \in Ips, RefuseLogin(c, ip) \/ FailLogin(c, ip) \/ PassLogin(c, ip)
      PROVE  WalksInv'
  BY <1>1, AttemptWalks, NamesAssumption DEF RefuseLogin, FailLogin, PassLogin
<1>2. ASSUME NEW c \in Calls, Answer(c) PROVE WalksInv'
  <2>1. /\ call[c] # 0 /\ call[c] \notin inserting
        /\ call' = [call EXCEPT ![c] = 0] /\ returned' = returned \cup {call[c]}
        /\ UNCHANGED <<event, inserting, stored, walk>>
    BY <1>2 DEF Answer, Recorded
  <2>2. EventIds' = EventIds /\ Walk' = Walk
    BY <2>1 DEF EventIds, Walk
  <2>3. returned' \subseteq EventIds /\ returned' \cap inserting = {} /\ call' \in [Calls -> EventIds \cup {0}]
    BY <1>0, <2>1 DEF EventsTypeOK
  <2>4. EventsTypeOK'
    BY <1>0, <2>1, <2>2, <2>3 DEF EventsTypeOK, NoWalk
  <2>5. walk # NoWalk => Walking(walk)'
    BY <2>1 DEF WalksInv, Walking, Matching
  <2> QED
    BY <2>1, <2>2, <2>3, <2>4, <2>5 DEF WalksInv, NoWalk
<1>3. ASSUME UNCHANGED <<returned, call>>, EventIds' = EventIds, EventsTypeOK', (returned \cap inserting = {})',
             (walk # NoWalk => Walking(walk))'
      PROVE  WalksInv'
  BY <1>0, <1>3 DEF WalksInv
<1>4. ASSUME NEW id \in EventIds, EndInsert(id), UNCHANGED adminVars PROVE WalksInv'
  BY <1>3, <1>4, EndInsertWalks DEF EndInsert, adminVars, EventIds
<1>5. ASSUME NEW limit \in Limits, NextPage(limit), UNCHANGED adminVars PROVE WalksInv'
  BY <1>0, <1>3, <1>5, NextPageWalks DEF NextPage, adminVars, EventIds
<1>6. ASSUME NEW limit \in Limits, NEW filter \in Filters, FirstPage(filter, limit), UNCHANGED adminVars PROVE WalksInv'
  BY <1>0, <1>3, <1>6, FirstPageWalks DEF FirstPage, adminVars, EventIds
<1>7. ASSUME EndWalk, UNCHANGED adminVars PROVE WalksInv'
  BY <1>0, <1>7 DEF EndWalk, adminVars, WalksInv, EventsTypeOK, EventIds, NoWalk
<1>8. ASSUME UNCHANGED eventVars, call' = call \/ call' = [c \in Calls |-> 0] PROVE WalksInv'
  <2>1. call' \in [Calls -> EventIds \cup {0}]
    BY <1>0, <1>8
  <2> QED
    BY <1>8, <2>1 DEF eventVars, WalksInv, EventsTypeOK, EventIds, Walk, NoWalk, Walking, Matching
<1>9. CASE Tick
  BY <1>8, <1>9 DEF Tick
<1>10. CASE Restart
  BY <1>8, <1>10 DEF Restart
<1>11. CASE UNCHANGED vars
  BY <1>8, <1>11 DEF vars, adminVars
<1> QED
  BY <1>1, <1>2, <1>4, <1>5, <1>6, <1>7, <1>9, <1>10, <1>11 DEF Next, EventsStep

LEMMA WalksHold == Spec => []WalksInv
BY InitWalks, StepWalks, PTL DEF Spec

(* However the inserts of other events commit between them, the pages of a walk *)
(* show the events of its filter once each, the latest ids first.               *)
THEOREM PagesAreInOrder == Spec => []PagesInOrder
BY WalksHold, ShownInOrder, PTL

(* Down to its cursor a walk has shown every event stored, or answered for and not *)
(* lost, by the time it began, for any filter and any limits asked for on the way. *)
THEOREM WalksAreComplete == Spec => []WalkIsComplete
BY WalksHold, ShownInOrder, PTL

-----------------------------------------------------------------------------
(* The rest of the state; what the limiter keeps is typed by what explains it. *)
RestInv == now \in 0..MaxTime /\ failures \in [Ips -> SUBSET Failure]

LEMMA StepRest == WalksInv /\ WalksInv' /\ RestInv /\ [Next]_vars => RestInv'
<1> SUFFICES ASSUME WalksInv, WalksInv', RestInv, [Next]_vars PROVE RestInv'
  OBVIOUS
<1>1. now \in Nat /\ now <= MaxTime /\ failures \in [Ips -> SUBSET Failure]
  BY LimiterAssumption DEF RestInv
<1>2. ASSUME EventIds \subseteq EventIds', now' = now, UNCHANGED failures PROVE RestInv'
  <2>1. Failure \subseteq Failure'
    BY <1>2 DEF Failure
  <2> QED
    BY <1>2, <2>1 DEF RestInv
<1>3. ASSUME NEW c \in Calls, NEW ip \in Ips, RefuseLogin(c, ip) PROVE RestInv'
  <2>1. EventIds \subseteq EventIds' /\ now' = now
    BY <1>3, AttemptWalks, NamesAssumption DEF RefuseLogin, Attempt
  <2> QED
    BY <1>2, <1>3, <2>1 DEF RefuseLogin
<1>4. ASSUME NEW c \in Calls, NEW ip \in Ips, FailLogin(c, ip) PROVE RestInv'
  <2>1. EventIds \subseteq EventIds' /\ now' = now /\ Len(event') \in EventIds'
    BY <1>4, AttemptWalks, NamesAssumption DEF FailLogin, Attempt
  <2>2. failures' = [failures EXCEPT ![ip] = @ \cup {[id |-> Len(event'), at |-> now]}]
    BY <1>4 DEF FailLogin
  <2>3. Failure \subseteq Failure' /\ [id |-> Len(event'), at |-> now] \in Failure'
    BY <1>1, <2>1 DEF Failure
  <2>4. failures' \in [Ips -> SUBSET Failure']
    BY <1>1, <2>2, <2>3
  <2> QED
    BY <1>1, <2>1, <2>4 DEF RestInv
<1>5. ASSUME NEW c \in Calls, NEW ip \in Ips, PassLogin(c, ip) PROVE RestInv'
  <2>1. EventIds \subseteq EventIds' /\ now' = now
    BY <1>5, AttemptWalks, NamesAssumption DEF PassLogin, Attempt
  <2>2. Failure \subseteq Failure' /\ failures' = [failures EXCEPT ![ip] = {}]
    BY <1>5, <2>1 DEF Failure, PassLogin
  <2>3. failures' \in [Ips -> SUBSET Failure']
    BY <1>1, <2>2
  <2> QED
    BY <1>1, <2>1, <2>3 DEF RestInv
<1>6. CASE Tick
  <2>1. now' = now + 1 /\ now < MaxTime /\ UNCHANGED event /\ failures' = [ip \in Ips |-> Recent(failures[ip], now')]
    BY <1>6 DEF Tick, eventVars
  <2>2. now' \in 0..MaxTime /\ 0..now \subseteq 0..now'
    BY <1>1, <2>1, LimiterAssumption
  <2>3. Failure \subseteq Failure'
    BY <2>1, <2>2 DEF Failure, EventIds
  <2>4. \A ip \in Ips : Recent(failures[ip], now') \subseteq Failure'
    BY <1>1, <2>3 DEF Recent
  <2>5. failures' \in [Ips -> SUBSET Failure']
    BY <2>1, <2>4
  <2> QED
    BY <2>2, <2>5 DEF RestInv
<1>7. CASE Restart
  BY <1>7 DEF Restart, eventVars, RestInv, Failure, EventIds
<1>8. ASSUME NEW c \in Calls, Answer(c) PROVE RestInv'
  BY <1>2, <1>8 DEF Answer, EventIds
<1>9. ASSUME EventsStep, UNCHANGED adminVars PROVE RestInv'
  BY <1>2, <1>9 DEF EventsStep, EndInsert, NextPage, FirstPage, EndWalk, adminVars, EventIds
<1>10. CASE UNCHANGED vars
  BY <1>2, <1>10 DEF vars, eventVars, adminVars, EventIds
<1> QED
  BY <1>3, <1>4, <1>5, <1>6, <1>7, <1>8, <1>9, <1>10 DEF Next

LEMMA InitRest == Init => RestInv
BY LimiterAssumption DEF Init, RestInv

LEMMA TypedParts == Inv /\ WalksInv /\ RestInv => TypeOK
<1> SUFFICES ASSUME Inv, WalksInv, RestInv PROVE TypeOK
  OBVIOUS
<1>1. \A ip \in Ips : attempts[ip] \in AttemptRecord \cup {NoRecord}
  <2> SUFFICES ASSUME NEW ip \in Ips, attempts[ip] # NoRecord PROVE attempts[ip] \in AttemptRecord
    OBVIOUS
  <2>1. PICK record : record = attempts[ip]
    OBVIOUS
  <2>2. record \in [count : 1..MaxAttempts, firstAttemptAt : Nat] /\ record.firstAttemptAt <= now /\ now \in Nat
    BY <2>1 DEF Inv, Explained
  <2>3. record \in [count : 1..MaxAttempts, firstAttemptAt : 0..now]
    BY <2>2
  <2> QED
    BY <2>1, <2>3 DEF AttemptRecord
<1>2. attempts \in [Ips -> AttemptRecord \cup {NoRecord}]
  BY <1>1 DEF Inv
<1> QED
  BY <1>2 DEF WalksInv, RestInv, TypeOK

(* Every variable keeps its type: no record counts past MaxAttempts, every login *)
(* waits for an event that exists, and no row of the table is still an insert.   *)
THEOREM AdminTypes == Spec => []TypeOK
<1>1. Spec => []RestInv
  BY InitRest, StepRest, WalksHold, PTL DEF Spec
<1> QED
  BY <1>1, InvHolds, WalksHold, TypedParts, PTL
=============================================================================
