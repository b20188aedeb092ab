-------------------------- MODULE MCTcpConnection --------------------------
(***************************************************************************)
(* TcpConnection for TLC: the client writes, one MSS is one unit.          *)
(* Either two segments are lost, or one other thing goes wrong; or any one *)
(* thing does; or nothing.                                                 *)
(***************************************************************************)
EXTENDS TcpConnection

TwoUnits == [h \in Hosts |-> IF h = "client" THEN 2 ELSE 0]

ThreeUnits == [h \in Hosts |-> IF h = "client" THEN 3 ELSE 0]

TwoLossesOrOneOther ==
    [kind \in {"lose", "delay", "refuses"} |-> IF kind = "lose" THEN 1 ELSE 2]

AnyFault ==
    [kind \in {"lose", "duplicate", "delay", "hurry", "timeout", "abort", "memory"}
        |-> 1]

NoFault == [kind \in {} |-> 1]

=============================================================================
