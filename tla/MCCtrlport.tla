------------------------------ MODULE MCCtrlport ------------------------------
(***************************************************************************)
(* Instances of CtrlportEndpoint for TLC: what each thread calls.          *)
(***************************************************************************)
EXTENDS CtrlportEndpoint

Call(op, addr, timed, ack) ==
    [op |-> op, addr |-> addr, timed |-> timed, ack |-> ack]

\* Two threads that never use the same opcode and address.
DistinctCalls ==
    [t \in {"t1", "t2"} |->
        IF t = "t1"
        THEN {Call("WRITE", 1, FALSE, FALSE), Call("READ", 1, FALSE, TRUE)}
        ELSE {Call("WRITE", 2, TRUE, TRUE), Call("SLEEP", 0, FALSE, FALSE)}]

\* One thread with posted writes, timed writes and reads.
OneThreadCalls ==
    [t \in {"t1"} |->
        {Call("WRITE", 1, FALSE, FALSE), Call("WRITE", 1, TRUE, TRUE),
         Call("READ", 1, FALSE, TRUE), Call("SLEEP", 0, FALSE, FALSE)}]

\* Two threads that write the same register.
SharedCalls ==
    [t \in {"t1", "t2"} |->
        {Call("WRITE", 1, TRUE, FALSE), Call("WRITE", 1, FALSE, TRUE)}]


MCOps == {"WRITE", "READ", "SLEEP"}
MCAddrs == 0..2
=============================================================================
