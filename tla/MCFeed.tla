-------------------------------- MODULE MCFeed --------------------------------
(* Small instances of Feed for TLC. *)
EXTENDS Feed, TLC

CONSTANTS desk, bare

\* A viewer with a lease, as the application makes them, and a Subscriber
\* taken from a Hub directly, as Hub::subscribe allows.
TwoViewers == {desk, bare}
OneLease == {desk}

===============================================================================
