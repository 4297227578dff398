-------------------------------- MODULE Ages --------------------------------
(* What the components of a job's preparation share: the workers, and time. *)
(* Only differences of time matter, so a stamp is represented by its age,   *)
(* which stops at the limit the code compares it with.                      *)
EXTENDS Naturals

CONSTANTS
    Workers,
    None,
    Never   \* the age of a stamp that was never set: time.Time's IsZero

ASSUME AgesAssumption == None \notin Workers /\ Never \notin Nat

Older(age, limit) ==
    IF age = Never \/ age = limit THEN age ELSE age + 1

(* time.Since(stamp) >= limit, true of a stamp that was never set.          *)
Past(age, limit) == age = Never \/ age >= limit
=============================================================================
