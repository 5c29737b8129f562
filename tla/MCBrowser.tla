------------------------------- MODULE MCBrowser -------------------------------
(* Small instances of Browser for TLC. *)
EXTENDS Browser, TLC

CONSTANTS pa, pb, x1, x2

TwoProviders == {pa, pb}
TwoPaths == {x1, x2}

===============================================================================
