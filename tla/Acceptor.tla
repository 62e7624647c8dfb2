------------------------------ MODULE Acceptor ------------------------------
(***************************************************************************)
(* The acceptors (src/net/Acceptor.cc), one per IO loop and all bound to   *)
(* one address (SO_REUSEPORT), with the reserve descriptor idleFd_ each    *)
(* holds against a full descriptor table, and the clients that connect.    *)
(*                                                                         *)
(* The kernel looks for a free descriptor before it looks at the queue of  *)
(* connections (Linux, accept4): with none free accept fails with EMFILE   *)
(* even when nobody waits.                                                 *)
(***************************************************************************)
EXTENDS Poller

VARIABLES
  pc,           \* per thread, see TcpServer; an acceptor's loop also has
                \*   "accept"   at accept() (54)
                \*   "refuse"   idleFd_ closed, at accept() (78)
                \*   "refused"  has the client, at close() (81)
                \*   "reopen"   at open() (83)
  active,       \* per loop: channels poll returned and not yet handled
  idleFd_,      \* per loop
  listening_,   \* per loop
  client,       \* per client: "new", "waiting", "accepted", "refused"
  home,         \* per client: the loop whose socket the kernel chose
  left          \* clients that have closed their end

acceptorVars == <<idleFd_, listening_>>
clientVars   == <<client, home, left>>

NoLoop == "none"

AcceptorInit ==
  /\ idleFd_ = [l \in Loops |-> NoFd]
  /\ listening_ = [l \in Loops |-> FALSE]
  /\ client = [c \in Clients |-> "new"]
  /\ home = [c \in Clients |-> NoLoop]
  /\ left = {}

Waiting(l) == {c \in Clients : client[c] = "waiting" /\ home[c] = l}

(* Readable: a socket with a connection to accept, or at end of file.      *)
Readable == {l \in Loops : Waiting(l) /= {}} \cup left

-----------------------------------------------------------------------------
(* The clients.  The kernel spreads them over the listening sockets.       *)

Connect(c) ==
  /\ client[c] = "new"
  /\ \E l \in Loops : listening_[l] /\ home' = [home EXCEPT ![c] = l]
  /\ client' = [client EXCEPT ![c] = "waiting"]
  /\ UNCHANGED left

Leave(c) ==
  /\ client[c] \in {"waiting", "accepted"} /\ c \notin left
  /\ left' = left \cup {c}
  /\ UNCHANGED <<client, home>>

-----------------------------------------------------------------------------
(* The acceptor.                                                           *)

(* The constructor: a socket and the reserve.                              *)
NewAcceptor(l) ==
  LET fd == Lowest(Free)
      idle == Lowest(Free \ {fd})
  IN /\ Cardinality(Free) >= 2
     /\ open' = open \cup {fd, idle}
     /\ chan' = [chan EXCEPT ![l] = NewChannel(fd)]
     /\ idleFd_' = [idleFd_ EXCEPT ![l] = idle]
     /\ UNCHANGED <<channels_, epoll, listening_>>

(* Mutant of Listen: does not enable reading.                              *)
ListenOnly(l) ==
  /\ listening_' = [listening_ EXCEPT ![l] = TRUE]
  /\ UNCHANGED <<open, pollerVars, idleFd_>>

Listen(l) ==
  /\ listening_' = [listening_ EXCEPT ![l] = TRUE]
  /\ UpdateChannel(l, l, chan[l], {"IN"})
  /\ UNCHANGED <<open, idleFd_>>

(* handleRead, the descriptor it got; newConnectionCallback_ is TcpServer's *)
Accept(l, c, fd) ==
  /\ pc[l] = "accept" /\ Free /= {}
  /\ c \in Waiting(l) /\ fd = Lowest(Free)
  /\ open' = open \cup {fd}
  /\ client' = [client EXCEPT ![c] = "accepted"]
  /\ UNCHANGED <<pc, active, idleFd_, listening_, home, left>>

(* EAGAIN: nobody waits.                                                   *)
AcceptNone(l) ==
  /\ pc[l] = "accept" /\ Free /= {} /\ Waiting(l) = {}
  /\ pc' = [pc EXCEPT ![l] = "handle"]
  /\ UNCHANGED <<open, pollerVars, active, acceptorVars, clientVars>>

(* EMFILE: gives up the reserve.                                           *)
AcceptFull(l) ==
  /\ pc[l] = "accept" /\ Free = {}
  /\ Close({idleFd_[l]})
  /\ idleFd_' = [idleFd_ EXCEPT ![l] = NoFd]
  /\ pc' = [pc EXCEPT ![l] = "refuse"]
  /\ UNCHANGED <<chan, channels_, active, listening_, clientVars>>

(* The inner loop (77-80) ends: it got a descriptor and a client.          *)
Refuse(l) ==
  /\ pc[l] = "refuse" /\ Free /= {}
  /\ \E c \in Waiting(l) :
       /\ open' = open \cup {Lowest(Free)}
       /\ idleFd_' = [idleFd_ EXCEPT ![l] = Lowest(Free)]
       /\ client' = [client EXCEPT ![c] = "refused"]
  /\ pc' = [pc EXCEPT ![l] = "refused"]
  /\ UNCHANGED <<pollerVars, active, listening_, home, left>>

(* Mutant of CloseRefused: keeps the refused client's socket open.         *)
CloseRefusedNot(l) ==
  /\ pc[l] = "refused"
  /\ idleFd_' = [idleFd_ EXCEPT ![l] = NoFd]
  /\ pc' = [pc EXCEPT ![l] = "reopen"]
  /\ UNCHANGED <<open, pollerVars, active, listening_, clientVars>>

CloseRefused(l) ==
  /\ pc[l] = "refused"
  /\ Close({idleFd_[l]})
  /\ idleFd_' = [idleFd_ EXCEPT ![l] = NoFd]
  /\ pc' = [pc EXCEPT ![l] = "reopen"]
  /\ UNCHANGED <<chan, channels_, active, listening_, clientVars>>

(* The inner loop (82-85) ends: it got its reserve back.                   *)
Reopen(l) ==
  /\ pc[l] = "reopen" /\ Free /= {}
  /\ open' = open \cup {Lowest(Free)}
  /\ idleFd_' = [idleFd_ EXCEPT ![l] = Lowest(Free)]
  /\ pc' = [pc EXCEPT ![l] = "accept"]
  /\ UNCHANGED <<pollerVars, active, listening_, clientVars>>

(* handleRead, but for a connection it hands on.                           *)
HandleRead(l) ==
  AcceptNone(l) \/ AcceptFull(l) \/ Refuse(l) \/ CloseRefused(l) \/ Reopen(l)
=============================================================================
