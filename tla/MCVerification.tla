--------------------------- MODULE MCVerification ---------------------------
(* Model-checking instances of Verification.                                *)
EXTENDS Verification, TLC

CONSTANTS c1, c2, b1, b2

Config(explicit, fslAt, address) ==
    [explicit |-> explicit, fsl |-> fslAt, address |-> address]

(* An operator with each of the two endpoints, a solver in another container *)
(* and one beside the proxy.                                                *)
AllConfigs == {
    Config("relay", "none", FALSE), Config("callback", "none", FALSE),
    Config("none", "remote", TRUE), Config("none", "local", TRUE)}
=============================================================================
