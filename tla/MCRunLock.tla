------------------------------ MODULE MCRunLock ------------------------------
(* Small instances of RunLock: two manual invocations and the service's. *)
EXTENDS RunLock

CONSTANTS p1, p2, timer, i1, i2, i3

MCProcs == {p1, p2, timer}
MCTwoProcs == {p1, timer}
MCServiceProcs == {timer}
MCInodes == {i1, i2, i3}
MCTwoInodes == {i1, i2}

=============================================================================
