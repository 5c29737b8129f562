-------------------------------- MODULE SubMap --------------------------------
(***************************************************************************)
(* The subscription reference counts of the hub (emberviewer/src/hub.rs).  *)
(*                                                                         *)
(* A SubMap maps a path to the set of subscribers interested in it.  It is *)
(* a partial function: a path that nobody wants has no entry.  The Rust    *)
(* helpers mutate the map and return what the device must be told; here    *)
(* each helper is split into the new map and the answer.                   *)
(***************************************************************************)

\* The empty map, HashMap::new().
NoSubs == [p \in {} |-> {}]

\* Subscriber v has a reference on path p.
Holds(subs, v, p) == p \in DOMAIN subs /\ v \in subs[p]

\* The references on p; an absent entry reads as the empty set.
Refs(subs, p) == IF p \in DOMAIN subs THEN subs[p] ELSE {}

\* sub_add: the new map, and whether this was the 0 -> 1 transition.
sub_add(subs, p, v) ==
    [q \in DOMAIN subs \cup {p} |->
        IF q = p THEN Refs(subs, p) \cup {v} ELSE subs[q]]

\* (Faulty: every Subscribe is taken for the first.)
FirstRefAlways(subs, p) == TRUE

FirstRef(subs, p) == Refs(subs, p) = {}

\* sub_remove: the new map, and whether this was the 1 -> 0 transition.
LastRef(subs, p, v) == p \in DOMAIN subs /\ subs[p] \ {v} = {}

sub_remove(subs, p, v) ==
    [q \in DOMAIN subs \ (IF LastRef(subs, p, v) THEN {p} ELSE {}) |->
        IF q = p THEN subs[q] \ {v} ELSE subs[q]]

\* release_subscriber: the paths nobody is left on, and the map without v.
Orphaned(subs, v) == {q \in DOMAIN subs : subs[q] \ {v} = {}}

release_subscriber(subs, v) ==
    [q \in DOMAIN subs \ Orphaned(subs, v) |-> subs[q] \ {v}]

===============================================================================
