--------------------------- MODULE MCAteccDriver ----------------------------
(* AteccDriver for TLC: two digests, two keys, a few faults. *)
EXTENDS AteccDriver

=============================================================================
