----------------------------- MODULE ScoreBoard -----------------------------
(***************************************************************************)
(* policy::ScoreBoard: which transport/endpoint pairs may be tried.  The   *)
(* moving average only weighs the draw among the eligible ones, and its    *)
(* floor keeps every weight positive, so select_next may return any of     *)
(* them.  Quarantines end by the clock, 60 to 300 seconds after they were  *)
(* set, independently of the engine's ticks.                               *)
(***************************************************************************)
EXTENDS Integers

CONSTANTS
  Candidate,             \* transport/endpoint pairs of the bundle
  QuarantineThreshold    \* QUARANTINE_THRESHOLD

ASSUME BoardAssumption == QuarantineThreshold \in Nat \ {0}

VARIABLES
  failures,      \* consecutive_failures, up to the threshold
  quarantined    \* the candidates whose quarantined_until is in the future

board == <<failures, quarantined>>

observe_success(c) ==
  /\ failures' = [failures EXCEPT ![c] = 0]
  /\ quarantined' = quarantined \ {c}

\* Mutant: every failure counts.
CountFailure(c, remote) ==
  LET n == IF failures[c] < QuarantineThreshold THEN failures[c] + 1
           ELSE failures[c]
  IN /\ failures' = [failures EXCEPT ![c] = n]
     /\ quarantined' = IF n >= QuarantineThreshold THEN quarantined \cup {c}
                       ELSE quarantined

\* Only a remote signal counts; every failure from the threshold on sets
\* the quarantine anew.
observe_failure(c, remote) ==
  LET n == IF failures[c] < QuarantineThreshold THEN failures[c] + 1
           ELSE failures[c]
  IN IF remote
     THEN /\ failures' = [failures EXCEPT ![c] = n]
          /\ quarantined' = IF n >= QuarantineThreshold
                            THEN quarantined \cup {c} ELSE quarantined
     ELSE UNCHANGED board

QuarantineEnds(c) ==
  /\ c \in quarantined
  /\ quarantined' = quarantined \ {c}
  /\ UNCHANGED failures

Eligible == Candidate \ quarantined

BoardInit ==
  /\ failures = [c \in Candidate |-> 0]
  /\ quarantined = {}
=============================================================================
