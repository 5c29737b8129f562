--------------------------------- MODULE MCHub ---------------------------------
(* Small instances of Hub for TLC. *)
EXTENDS Hub, TLC

CONSTANTS v1, v2, p1, p2, a1, a2

TwoViewers == {v1, v2}
OnePath == {p1}
TwoPaths == {p1, p2}
OneAddr == {a1}
TwoAddrs == {a1, a2}

\* Viewers and paths are only compared for equality.
Symmetry == Permutations(Viewer) \cup Permutations(Path)

===============================================================================
