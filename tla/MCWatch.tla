-------------------------------- MODULE MCWatch --------------------------------
(* Two senders and two receivers, one of each cloned from the other. *)
EXTENDS WatchProperties

CONSTANTS s1, s2, r1, r2
=============================================================================
