--------------------------- MODULE MCAttemptStart ---------------------------
(* Model-checking instance of AttemptStart.                                 *)
EXTENDS AttemptStart

CONSTANTS w1, w2, u1, u2

Setting(cmd, api, fallbacks) ==
    [renewCmd |-> cmd, tidalAPI |-> api, tidalFallbacks |-> fallbacks]

(* A solver to run and the community tier only; one URL; a list with and    *)
(* without a URL of its own.                                                *)
AllSettings == {
    Setting(TRUE, None, <<>>), Setting(FALSE, u1, <<>>),
    Setting(FALSE, u1, <<u2>>), Setting(FALSE, None, <<u2, u1>>)}
=============================================================================
