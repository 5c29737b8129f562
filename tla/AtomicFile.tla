------------------------------- MODULE AtomicFile -------------------------------
(***************************************************************************)
(* What write_atomic and quarantine (emberviewer/src/fsutil.rs) promise    *)
(* together of a store file: whoever reads it finds nothing or something   *)
(* that was once put there as a whole.  A power loss may bring back        *)
(* something older, never a part of it.                                    *)
(***************************************************************************)
CONSTANT Whole \* what may be found: nothing, or a whole content

VARIABLES
    value, \* what a reader finds
    after  \* what may be found after a power loss

Init ==
    /\ value \in Whole
    /\ after = {value}

\* Another content replaces the one there, or nothing does.
Put(c) ==
    /\ value' = c
    /\ after' \subseteq after \cup {c}
    /\ c \in after'

\* The system writes back what it holds.
Settle ==
    /\ value' = value
    /\ after' = {value}

PowerLoss ==
    /\ value' \in after
    /\ after' = {value'}

Next == (\E c \in Whole : Put(c)) \/ Settle \/ PowerLoss

Spec == Init /\ [][Next]_<<value, after>>

===============================================================================
