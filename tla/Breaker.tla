------------------------------ MODULE Breaker ------------------------------
(***************************************************************************)
(* internal/breaker: the per-service consecutive-failure circuit breaker.  *)
(* Every method holds b.mu, so each is one step.                           *)
(*                                                                         *)
(* Time is discrete.  A breaker only ever compares time.Since(openedAt)    *)
(* with the cooldown, and the failure count with the threshold, so `since' *)
(* stops counting at Cooldown (the zero openedAt of a fresh entry is that  *)
(* long ago) and `fails' at Threshold + 1.                                 *)
(***************************************************************************)
EXTENDS Naturals

CONSTANTS
    Services,   \* the keys
    Threshold,  \* consecutive failures that open a circuit
    Cooldown    \* ticks it stays open

ASSUME BreakerAssumption ==
    /\ Threshold \in Nat \ {0}
    /\ Cooldown \in Nat \ {0}

VARIABLES
    fails,      \* entry.consecutiveFailures
    since       \* time.Since(entry.openedAt)

breaker == <<fails, since>>

BreakerInit ==
    /\ fails = [s \in Services |-> 0]
    /\ since = [s \in Services |-> Cooldown]

-----------------------------------------------------------------------------

(* The answer of Allow.                                                     *)
Admits(s) == fails[s] < Threshold \/ since[s] >= Cooldown

(* Allow: a cooldown that has elapsed is forgotten with the first trial.    *)
Allow(s) ==
    /\ fails' = [fails EXCEPT ![s] = IF Admits(s) /\ @ >= Threshold THEN 0 ELSE @]
    /\ since' = since

(* Mutant of RetryAfter: the remaining time is rounded up by one.           *)
RetryAfterPadded(s) ==
    IF fails[s] < Threshold THEN 0 ELSE Cooldown + 1 - since[s]

RetryAfter(s) ==
    IF fails[s] < Threshold THEN 0 ELSE Cooldown - since[s]

(* State.Open of Status.                                                    *)
Open(s) == fails[s] >= Threshold /\ since[s] < Cooldown

(* Mutant of RecordFailure: every failure at or past the threshold restarts *)
(* the clock.                                                               *)
RecordFailureRestarting(s) ==
    /\ fails' = [fails EXCEPT ![s] = IF @ > Threshold THEN @ ELSE @ + 1]
    /\ since' = [since EXCEPT ![s] = IF fails[s] + 1 >= Threshold THEN 0 ELSE @]

(* Only the failure that reaches the threshold sets openedAt.               *)
RecordFailure(s) ==
    /\ fails' = [fails EXCEPT ![s] = IF @ > Threshold THEN @ ELSE @ + 1]
    /\ since' = [since EXCEPT ![s] = IF fails[s] + 1 = Threshold THEN 0 ELSE @]

Reset(s) ==
    /\ fails' = [fails EXCEPT ![s] = 0]
    /\ since' = [since EXCEPT ![s] = Cooldown]

RecordSuccess(s) ==
    /\ fails' = [fails EXCEPT ![s] = 0]
    /\ since' = since

(* A tick of the clock.                                                     *)
Age == since' = [s \in Services |-> IF since[s] < Cooldown THEN since[s] + 1
                                    ELSE since[s]]

-----------------------------------------------------------------------------

(* The breaker under any traffic at all.                                    *)
BreakerNext ==
    \/ \E s \in Services : \/ Allow(s) \/ RecordFailure(s)
                           \/ Reset(s) \/ RecordSuccess(s)
    \/ Age /\ UNCHANGED fails

BreakerSpec == BreakerInit /\ [][BreakerNext]_breaker

(* Type correctness.                                                        *)
BreakerTypeOK ==
    /\ fails \in [Services -> 0..(Threshold + 1)]
    /\ since \in [Services -> 0..Cooldown]

(* The three ways of asking agree: a service is parked for (RetryAfter > 0) *)
(* exactly while Allow would refuse it and Status shows it open.  A park    *)
(* that ends at a service Allow still refuses would hand back every job.    *)
ViewsAgree ==
    \A s \in Services : /\ (RetryAfter(s) = 0) <=> Admits(s)
                        /\ Open(s) <=> ~Admits(s)

(* Failures of attempts that were under way when a circuit opened arrive    *)
(* late; no step ever prolongs the cooldown of an open circuit.             *)
NeverProlonged ==
    [][\A s \in Services : Open(s) => RetryAfter(s)' <= RetryAfter(s)]_breaker
=============================================================================
