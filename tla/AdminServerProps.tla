--------------------------- MODULE AdminServerProps ---------------------------
(***************************************************************************)
(* What the rate limiter allows and what an administrator gets to see.     *)
(***************************************************************************)
EXTENDS AdminServer

(* From one address no more than 2 * MaxAttempts - 1 wrong codes are looked at *)
(* within any WindowMs, unless a right one or a restart came between: a record *)
(* is counted from its first failure, so the end of one and the whole of the   *)
(* next may fall into one window.                                              *)
FailuresBounded == \A ip \in Ips : Cardinality(failures[ip]) <= 2 * MaxAttempts - 1

(* Nobody is refused who has not given MaxAttempts wrong codes within the last *)
(* WindowMs, and without a right one since.                                    *)
RefusedOnlyAfterFailures ==
  [][\A c \in Calls, ip \in Ips : RefuseLogin(c, ip) => Cardinality(failures[ip]) >= MaxAttempts]_vars

(* The pages of a walk show events of its filter, each once, the latest ids first. *)
PagesInOrder ==
  walk # NoWalk =>
    \A i \in DOMAIN walk.got :
      /\ walk.got[i] \in Matching(walk.filter)
      /\ \A j \in 1..(i - 1) : walk.got[j] > walk.got[i]

(* Down to its cursor, and at its end down to the oldest row, a walk has shown all *)
(* that was stored when it began, and every login answered by then whose event was *)
(* not lost, however the inserts of other events commit meanwhile.                 *)
WalkIsComplete ==
  walk # NoWalk =>
    \A id \in walk.due \cap stored : id >= walk.cursor => id \in Range(walk.got)
=============================================================================
