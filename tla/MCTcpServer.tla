---------------------------- MODULE MCTcpServer ----------------------------
(* Instances of TcpServer small enough for TLC.                            *)
EXTENDS TcpServer

Scarce == 2 * Cardinality(Loops) + 1
Enough == 2 * Cardinality(Loops) + Cardinality(Clients) + 1

(* Careful programs with few descriptors and with enough, and one that     *)
(* calls start() twice or quits with clients connected.                    *)
MCPrograms ==
  {[limit |-> Scarce, quiet |-> TRUE, starts |-> 1],
   [limit |-> Enough, quiet |-> TRUE, starts |-> 1],
   [limit |-> Scarce, quiet |-> FALSE, starts |-> 2]}

MCScarce == {[limit |-> Scarce, quiet |-> TRUE, starts |-> 1]}
=============================================================================
