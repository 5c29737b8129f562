-------------------------------- MODULE MCSession --------------------------------
(* A small instance of Session for TLC. *)
EXTENDS Session

CONSTANTS sw, tx

OneSwitch == {sw}
OneText == {tx}

===============================================================================
