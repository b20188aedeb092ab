----------------------------- MODULE NicService -----------------------------
(***************************************************************************)
(* What the Ethernet driver promises to the stack: two FIFO channels.  A   *)
(* frame the driver has accepted is sent, a frame the controller has       *)
(* stored is handed to the stack; whole, once, in order, and eventually.   *)
(* Frames may be lost only before: refused by the driver, or not stored    *)
(* because the ring is full.                                               *)
(***************************************************************************)
EXTENDS Naturals, Sequences

CONSTANTS TxFrames, RxFrames

VARIABLES
    accepted,   \* frames nicSendPacket returned NO_ERROR for
    wire,       \* frames the controller has sent
    stored,     \* frames the controller has stored in the ring
    delivered   \* frames given to nicProcessPacket

vars == <<accepted, wire, stored, delivered>>

Init ==
    /\ accepted = <<>>
    /\ wire = <<>>
    /\ stored = <<>>
    /\ delivered = <<>>

Accept(f) ==
    /\ accepted' = Append(accepted, f)
    /\ UNCHANGED <<wire, stored, delivered>>

Transmit ==
    /\ Len(wire) < Len(accepted)
    /\ wire' = Append(wire, accepted[Len(wire) + 1])
    /\ UNCHANGED <<accepted, stored, delivered>>

Store(f) ==
    /\ stored' = Append(stored, f)
    /\ UNCHANGED <<accepted, wire, delivered>>

Deliver ==
    /\ Len(delivered) < Len(stored)
    /\ delivered' = Append(delivered, stored[Len(delivered) + 1])
    /\ UNCHANGED <<accepted, wire, stored>>

Next ==
    \/ \E f \in TxFrames : Accept(f)
    \/ Transmit
    \/ \E f \in RxFrames : Store(f)
    \/ Deliver

Spec == Init /\ [][Next]_vars /\ WF_vars(Transmit) /\ WF_vars(Deliver)

=============================================================================
