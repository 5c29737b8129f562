------------------------------ MODULE MCRegistry ------------------------------
(* Small instances of Registry for TLC. *)
EXTENDS Registry, TLC

CONSTANTS desk, w1, w2, a1, a2

TwoSockets == {w1, w2}
OneSocket == {w1}
TwoAddrs == {a1, a2}

\* Sockets are interchangeable, and so are addresses.
Symmetry == Permutations(Web) \cup Permutations(Addr)

===============================================================================
