---------------------------- MODULE TcpService -----------------------------
(***************************************************************************)
(* What a TCP connection promises to the two programs that use it: two     *)
(* streams of units, read in the order they were written, none missing,    *)
(* none twice, and an end of stream that is seen only behind the last      *)
(* unit.  A connection may break at any time: nothing more is read then.   *)
(***************************************************************************)
EXTENDS Naturals, Sequences

CONSTANT Units     \* the most a program writes

VARIABLES
    written,    \* units each end has written: 1, 2, ... written
    shut,       \* the end has closed its stream
    read,       \* what each end has read
    ended       \* the end was told that the stream of its peer is over

vars == <<written, shut, read, ended>>

Ends == {"client", "server"}

Other(h) == IF h = "client" THEN "server" ELSE "client"

Init ==
    /\ written = [h \in Ends |-> 0]
    /\ shut = [h \in Ends |-> FALSE]
    /\ read = [h \in Ends |-> <<>>]
    /\ ended = [h \in Ends |-> FALSE]

Write(h) ==
    /\ ~shut[h]
    /\ \E n \in written[h] + 1 .. Units : written' = [written EXCEPT ![h] = n]
    /\ UNCHANGED <<shut, read, ended>>

Shut(h) ==
    /\ shut' = [shut EXCEPT ![h] = TRUE]
    /\ UNCHANGED <<written, read, ended>>

Read(h) ==
    /\ ~ended[h]
    /\ \E n \in Len(read[h]) + 1 .. written[Other(h)] :
            read' = [read EXCEPT ![h] = [k \in 1 .. n |-> k]]
    /\ UNCHANGED <<written, shut, ended>>

End(h) ==
    /\ shut[Other(h)] /\ Len(read[h]) = written[Other(h)]
    /\ ended' = [ended EXCEPT ![h] = TRUE]
    /\ UNCHANGED <<written, shut, read>>

Next == \E h \in Ends : Write(h) \/ Shut(h) \/ Read(h) \/ End(h)

Spec == Init /\ [][Next]_vars

=============================================================================
