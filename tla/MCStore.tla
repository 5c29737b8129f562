--------------------------------- MODULE MCStore ---------------------------------
(* A small instance of Store for TLC. *)
EXTENDS Store

TwoIds == {1, 2}

===============================================================================
