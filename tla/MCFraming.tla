------------------------------- MODULE MCFraming -------------------------------
(* Small instances of Framing for TLC. *)
EXTENDS Framing, TLC

\* A plain byte, the escape byte and both delimiters, alone and split, and a
\* payload two packages longer than a decoder of two bytes reassembles.
Payloads == {<<>>, <<CE>>, <<5, EOF>>, <<BOF, 6>>, <<5, 6, CE, 7>>}

===============================================================================
