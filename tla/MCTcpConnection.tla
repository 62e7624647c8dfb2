--------------------------- MODULE MCTcpConnection ---------------------------
(* Instances of TcpConnection small enough for TLC.                        *)
EXTENDS TcpConnection

(* A careful program, whose callbacks do everything, and one whose threads *)
(* do everything and take no care.                                         *)
CarefulUser == [loopOps |-> Ops, callerOps |-> {"send"},
                keepRef |-> TRUE, askConnected |-> TRUE]
CarelessUser == [loopOps |-> {"send"}, callerOps |-> Ops,
                 keepRef |-> FALSE, askConnected |-> FALSE]

MCUsers == {CarefulUser, CarelessUser}
MCCareful == {CarefulUser}

(* A failed assertion aborts the program, and what a functor does to a     *)
(* destroyed connection is undefined: nothing is explored beyond.  Neither *)
(* happens to a careful program (AssertionsHold).                          *)
Defined == failed = {} /\ NoDanglingFunctor
=============================================================================
