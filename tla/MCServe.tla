--------------------------------- MODULE MCServe ---------------------------------
(* A small instance of Serve for TLC. *)
EXTENDS Serve, TLC

CONSTANTS p1, p2, t1, t2, s1, s2

TwoPorts == {p1, p2}
TwoTokens == {t1, t2}
OneSocket == {s1}
TwoSockets == {s1, s2}

\* Tokens are only compared for equality.
Symmetry == Permutations(Token)

===============================================================================
