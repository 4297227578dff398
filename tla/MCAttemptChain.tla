--------------------------- MODULE MCAttemptChain ---------------------------
(* Model-checking instances of AttemptChain.                                *)
EXTENDS AttemptChain, TLC

CONSTANTS j1, j2, tidal, qobuz, amazon

(* What the jobs were added with.                                           *)
AllTidal == [j \in Jobs |-> tidal]
TidalAndAmazon == [j \in Jobs |-> IF j = j1 THEN tidal ELSE amazon]

(* SPF_FALLBACK_SERVICES.                                                   *)
ThenQobuz == <<qobuz>>

JobSymmetry == Permutations(Jobs)
=============================================================================
