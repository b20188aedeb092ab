--------------------------- MODULE MCDhcpClient ---------------------------
(* Two servers with one address each. *)
EXTENDS DhcpClient

CONSTANTS s1, s2, a1, a2

MCOwner == [a \in Addrs |-> IF a = a1 THEN s1 ELSE s2]

\* Another host may have the address of s1.
MCTakenSets == {{}, {a1}}

=============================================================================
