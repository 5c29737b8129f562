-------------------------------- MODULE Fanout --------------------------------
(***************************************************************************)
(* What the hub promises (emberviewer/src/hub.rs, module comment): many    *)
(* viewers, one consumer.  While the connection is live the device serves  *)
(* exactly the paths some viewer is interested in; while it is down the    *)
(* interests are kept and served again as soon as it is back.              *)
(***************************************************************************)
CONSTANTS Viewer, Path

VARIABLES
    interest, \* interest[v]: the paths v is interested in
    live,     \* the connection is up and the interests have been replayed
    served    \* the paths the device is subscribed to

vars == <<interest, live, served>>

Wanted(i) == UNION {i[v] : v \in Viewer}

Init ==
    /\ interest = [v \in Viewer |-> {}]
    /\ live = FALSE
    /\ served = {}

\* The device follows the interests in the same step, when there is one.
Follow == served' = IF live' THEN Wanted(interest') ELSE {}

Add(v, p) ==
    /\ interest' = [interest EXCEPT ![v] = @ \cup {p}]
    /\ UNCHANGED live
    /\ Follow

Remove(v, p) ==
    /\ interest' = [interest EXCEPT ![v] = @ \ {p}]
    /\ UNCHANGED live
    /\ Follow

Leave(v) ==
    /\ interest' = [interest EXCEPT ![v] = {}]
    /\ UNCHANGED live
    /\ Follow

GoLive ==
    /\ ~live
    /\ live' = TRUE
    /\ UNCHANGED interest
    /\ Follow

GoDown ==
    /\ live
    /\ live' = FALSE
    /\ UNCHANGED interest
    /\ Follow

\* The hub is gone, and the interests with it.
End ==
    /\ interest' = [v \in Viewer |-> {}]
    /\ live' = FALSE
    /\ Follow

Next ==
    \/ \E v \in Viewer, p \in Path : Add(v, p) \/ Remove(v, p)
    \/ \E v \in Viewer : Leave(v)
    \/ GoLive
    \/ GoDown
    \/ End

Spec == Init /\ [][Next]_vars

===============================================================================
