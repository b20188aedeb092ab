----------------------------- MODULE MCNicDriver ----------------------------
(* NicDriver for TLC: small rings, a few frames and link changes. *)
EXTENDS NicDriver

=============================================================================
