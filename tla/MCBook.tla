--------------------------------- MODULE MCBook ---------------------------------
(* Small instances of Book for TLC. *)
EXTENDS Book

CONSTANTS a1, a2, n1, n2

E1 == [name |-> n1, addr |-> a1]
E2 == [name |-> n2, addr |-> a2]

\* The second differs from the first by its name only, the third by its address.
TwoEntries == {E1, E2}
ThreeEntries == {E1, [name |-> n2, addr |-> a1], [name |-> n1, addr |-> a2]}

\* A file with a folder and a provider in it, whose ids are not in pre-order.
Nested == [kids |-> (0 :> <<2>>) @@ (2 :> <<1>>), entry |-> (1 :> E2), next |-> 3]

OneImport == {Nested}

===============================================================================
