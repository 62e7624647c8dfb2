------------------------------ MODULE TcpServer ------------------------------
(***************************************************************************)
(* A TcpServer (src/net/TcpServer.cc) with its pool of IO loops            *)
(* (src/net/EventLoopThreadPool.cc): start() makes the threads and gives   *)
(* each loop its Acceptor; each loop accepts its own connections, closes   *)
(* them with the help of the base loop, and takes part in the end of the   *)
(* server, when its destructor quits and joins one loop after the other.   *)
(*                                                                         *)
(* A connection lives while something refers to it: the loop's map or a    *)
(* functor, queued or in the vector that doPendingFunctors runs.  The step *)
(* that drops the last reference destroys it and closes its descriptor,    *)
(* whichever thread that is.  What a connection transports, and the user's *)
(* own references to it, are in module TcpConnection; how a loop is woken  *)
(* is in module EventLoop.                                                 *)
(***************************************************************************)
EXTENDS Acceptor, Sequences, SequencesExt

CONSTANT Programs   \* the programs that may run the server, see Program

(* The descriptor limit; does the program quit only when no client is      *)
(* left and none comes; how often does it call start().                    *)
Program == [limit : Nat, quiet : BOOLEAN, starts : {1, 2}]

ASSUME ProgramAssumption == Programs \subseteq Program

VARIABLES
  state_,            \* per connection: "none", "kConnected", "kDisconnected"
  connections_,      \* per loop: EventLoop::connections_
  pendingFunctors_,  \* per thread
  functors,          \* per thread: the vector doPendingFunctors runs
  ran,               \* per thread: how many of them have run
  quit_,             \* threads whose loop was told to quit
  failed,            \* what the program aborted on
  program            \* the program, fixed at the start

Base == "base"       \* the main thread and its loop
Threads == Loops \cup {Base}

queueVars  == <<pendingFunctors_, functors, ran>>
serverVars == <<state_, connections_, queueVars, quit_, failed, program>>
vars == <<limit, open, pollerVars, pc, active, acceptorVars, clientVars, serverVars>>

Functor(op, c) == [op |-> op, conn |-> c]
NoConn == "none"

Init ==
  /\ program \in Programs /\ limit = program.limit
  /\ PollerInit /\ AcceptorInit
  /\ pc = [t \in Threads |-> IF t = Base THEN "start" ELSE "none"]
  /\ active = [t \in Threads |-> {}]
  /\ state_ = [c \in Clients |-> "none"]
  /\ connections_ = [l \in Loops |-> {}]
  /\ pendingFunctors_ = [t \in Threads |-> <<>>]
  /\ functors = [t \in Threads |-> <<>>]
  /\ ran = [t \in Threads |-> 0]
  /\ quit_ = {}
  /\ failed = {}

(* The shared_ptrs to a connection.                                        *)
Referenced(c) ==
  \/ \E l \in Loops : c \in connections_[l]
  \/ \E t \in Threads : \E f \in ToSet(pendingFunctors_[t]) \cup ToSet(functors[t]) : f.conn = c

Alive(ch) == IF ch \in Loops THEN chan[ch].fd_ /= NoFd ELSE Referenced(ch)

-----------------------------------------------------------------------------
(* start(), in the main thread.                                            *)

(* EventLoopThreadPool::start: every loop is built and looping.            *)
StartThreads ==
  /\ pc[Base] = "start"
  /\ pc' = [t \in Threads |-> IF t = Base THEN "acceptors" ELSE "poll"]
  /\ UNCHANGED <<limit, open, pollerVars, active, acceptorVars, clientVars, serverVars>>

(* new Acceptor, then setAcceptor: listen() is left to the loop.           *)
SetAcceptor(l) ==
  /\ pc[Base] = "acceptors" /\ chan[l].fd_ = NoFd
  /\ \/ /\ NewAcceptor(l)
        /\ pendingFunctors_' = [pendingFunctors_ EXCEPT ![l] = Append(@, Functor("listen", NoConn))]
        /\ UNCHANGED failed
     \/ /\ Cardinality(Free) < 2       \* createNonblockingOrDie, or the assertion on idleFd_
        /\ failed' = failed \cup {"descriptors"}
        /\ UNCHANGED <<open, pollerVars, acceptorVars, pendingFunctors_>>
  /\ UNCHANGED <<limit, pc, active, clientVars, state_, connections_, functors, ran, quit_, program>>

StartReturns ==
  /\ pc[Base] = "acceptors" /\ \A l \in Loops : chan[l].fd_ /= NoFd
  /\ pc' = [pc EXCEPT ![Base] = "poll"]
  /\ UNCHANGED <<limit, open, pollerVars, active, acceptorVars, clientVars, serverVars>>

(* A second start() gives a loop a second acceptor: setAcceptor destroys   *)
(* the first one in the main thread, and updateChannel aborts.             *)
StartAgain ==
  /\ pc[Base] = "poll" /\ program.starts = 2 /\ Loops /= {}
  /\ failed' = failed \cup {"assertInLoopThread"}
  /\ UNCHANGED <<limit, open, pollerVars, pc, active, acceptorVars, clientVars, state_,
                 connections_, queueVars, quit_, program>>

-----------------------------------------------------------------------------
(* The loops.  A loop in "poll" is in epoll_wait.                          *)

Woken(t) == pendingFunctors_[t] /= <<>> \/ t \in quit_

Poll(t) ==
  LET ready == IF t = Base THEN {} ELSE Ready(t, Readable)
  IN /\ pc[t] = "poll" /\ (ready /= {} \/ Woken(t))
     /\ active' = [active EXCEPT ![t] = ready]
     /\ pc' = [pc EXCEPT ![t] = "handle"]
     /\ UNCHANGED <<limit, open, pollerVars, acceptorVars, clientVars, serverVars>>

(* Channel::handleEvent of the acceptor's channel: handleRead begins.      *)
HandleAcceptor(l) ==
  /\ pc[l] = "handle" /\ l \in active[l]
  /\ active' = [active EXCEPT ![l] = @ \ {l}]
  /\ pc' = [pc EXCEPT ![l] = "accept"]
  /\ UNCHANGED <<limit, open, pollerVars, acceptorVars, clientVars, serverVars>>

(* TcpServer::newConnection and, inline, connectEstablished.               *)
NewConnection(l, c, fd) ==
  /\ state_' = [state_ EXCEPT ![c] = "kConnected"]
  /\ connections_' = [connections_ EXCEPT ![l] = @ \cup {c}]
  /\ UpdateChannel(l, c, NewChannel(fd), {"IN"})
  /\ failed' = failed \cup UpdateFaults(l, NewChannel(fd), {"IN"})

AcceptConnection(l) ==
  /\ \E c \in Waiting(l) : Accept(l, c, Lowest(Free)) /\ NewConnection(l, c, Lowest(Free))
  /\ UNCHANGED <<limit, queueVars, quit_, program>>

(* Mutant of Closed: does not disable the channel.                         *)
ClosedListening(l, c) == UNCHANGED pollerVars

(* handleClose's disableAll.                                               *)
Closed(l, c) == UpdateChannel(l, c, chan[c], {})

(* handleEvent of a connection's channel, the peer gone: the tie, then     *)
(* handleRead reads nothing and handleClose calls removeConnection.        *)
HandleClose(l, c) ==
  /\ pc[l] = "handle" /\ c \in active[l]
  /\ active' = [active EXCEPT ![l] = @ \ {c}]
  /\ IF Referenced(c)
     THEN /\ failed' = failed \cup Check("handleClose", state_[c] = "kConnected")
          /\ state_' = [state_ EXCEPT ![c] = "kDisconnected"]
          /\ Closed(l, c)
          /\ pendingFunctors_' = [pendingFunctors_ EXCEPT ![Base] =
                                    Append(@, Functor("removeConnectionInLoop", c))]
     ELSE UNCHANGED <<failed, state_, pollerVars, pendingFunctors_>>
  /\ UNCHANGED <<limit, open, pc, acceptorVars, clientVars, connections_, functors, ran, quit_, program>>

DoPendingFunctors(t) ==
  /\ pc[t] = "handle" /\ active[t] = {}
  /\ functors' = [functors EXCEPT ![t] = pendingFunctors_[t]]
  /\ pendingFunctors_' = [pendingFunctors_ EXCEPT ![t] = <<>>]
  /\ ran' = [ran EXCEPT ![t] = 0]
  /\ pc' = [pc EXCEPT ![t] = "functors"]
  /\ UNCHANGED <<limit, open, pollerVars, active, acceptorVars, clientVars, state_, connections_,
                 quit_, failed, program>>

NextFunctor(t, op) ==
  /\ pc[t] = "functors" /\ ran[t] < Len(functors[t])
  /\ functors[t][ran[t] + 1].op = op
  /\ ran' = [ran EXCEPT ![t] = @ + 1]

RunListen(l) ==
  /\ NextFunctor(l, "listen")
  /\ Listen(l)
  /\ failed' = failed \cup UpdateFaults(l, chan[l], {"IN"})
  /\ UNCHANGED <<limit, pc, active, clientVars, state_, connections_, pendingFunctors_, functors,
                 quit_, program>>

(* Mutant of Handed: the connection is not handed back to its loop.        *)
NotHanded(c) == pendingFunctors_

(* ioLoop->queueInLoop(connectDestroyed).                                  *)
Handed(c) ==
  [pendingFunctors_ EXCEPT ![home[c]] = Append(@, Functor("connectDestroyed", c))]

(* TcpServer::removeConnectionInLoop, in the base loop.                    *)
RemoveConnectionInLoop ==
  /\ NextFunctor(Base, "removeConnectionInLoop")
  /\ pendingFunctors_' = Handed(functors[Base][ran[Base] + 1].conn)
  /\ UNCHANGED <<limit, open, pollerVars, pc, active, acceptorVars, clientVars, state_,
                 connections_, functors, quit_, failed, program>>

(* connectDestroyed; state_ is kDisconnected since handleClose.            *)
ConnectDestroyed(l) ==
  /\ NextFunctor(l, "connectDestroyed")
  /\ LET c == functors[l][ran[l] + 1].conn
     IN /\ connections_' = [connections_ EXCEPT ![l] = @ \ {c}]
        /\ RemoveChannel(l, c)
        /\ failed' = failed \cup RemoveFaults(l, c)
                            \cup Check("removeConnection", c \in connections_[l])
  /\ UNCHANGED <<limit, open, pc, active, acceptorVars, clientVars, state_, pendingFunctors_,
                 functors, quit_, program>>

(* The connections a step of thread t drops the last reference to: their   *)
(* destructors' assertions, and what the descriptors they close are.       *)
Gone == {c \in Clients : Referenced(c) /\ ~ Referenced(c)'}

DestructorFaults(t, gone) ==
  Check("~TcpConnection", \A c \in gone : state_[c] = "kDisconnected")
    \cup Check("~Channel", \A c \in gone : chan[c].index_ = "kNew"
                                             /\ (t = home[c] => ~ hasChannel(t, c)))

(* Mutant of FunctorsDone: the loop does not look at quit_.                *)
FunctorsDoneGoesOn(t) ==
  /\ pc[t] = "functors" /\ ran[t] = Len(functors[t])
  /\ functors' = [functors EXCEPT ![t] = <<>>]
  /\ ran' = [ran EXCEPT ![t] = 0]
  /\ pc' = [pc EXCEPT ![t] = "poll"]
  /\ UNCHANGED <<limit, channels_, active, acceptorVars, clientVars, state_,
                 connections_, pendingFunctors_, quit_, program>>
  /\ failed' = failed \cup DestructorFaults(t, Gone)
  /\ chan' = [c \in Channels |-> IF c \in Gone THEN NoChannel ELSE chan[c]]
  /\ Close({chan[c].fd_ : c \in Gone})

(* The end of doPendingFunctors destroys its vector; loop() tests quit_.   *)
FunctorsDone(t) ==
  /\ pc[t] = "functors" /\ ran[t] = Len(functors[t])
  /\ functors' = [functors EXCEPT ![t] = <<>>]
  /\ ran' = [ran EXCEPT ![t] = 0]
  /\ pc' = [pc EXCEPT ![t] = IF t \in quit_ THEN "exit" ELSE "poll"]
  /\ UNCHANGED <<limit, channels_, active, acceptorVars, clientVars, state_,
                 connections_, pendingFunctors_, quit_, program>>
  /\ failed' = failed \cup DestructorFaults(t, Gone)
  /\ chan' = [c \in Channels |-> IF c \in Gone THEN NoChannel ELSE chan[c]]
  /\ Close({chan[c].fd_ : c \in Gone})

-----------------------------------------------------------------------------
(* The end of the server.                                                  *)

Served(c) == client[c] \in {"new", "refused"} \/ (client[c] = "accepted" /\ ~ Referenced(c))

Quit ==
  /\ pc[Base] \in {"poll", "handle", "functors"} /\ Base \notin quit_
  /\ program.quiet => \A c \in Clients : Served(c)
  /\ quit_' = quit_ \cup {Base}
  /\ UNCHANGED <<limit, open, pollerVars, pc, active, acceptorVars, clientVars, state_,
                 connections_, queueVars, failed, program>>

(* ~TcpServer destroys the pool: ~EventLoopThread quits a loop and joins   *)
(* its thread before it turns to the next.                                 *)
QuitLoop(l) ==
  /\ pc[Base] = "exit" /\ l \notin quit_
  /\ \A k \in Loops \cap quit_ : pc[k] = "gone"
  /\ quit_' = quit_ \cup {l}
  /\ UNCHANGED <<limit, open, pollerVars, pc, active, acceptorVars, clientVars, state_,
                 connections_, queueVars, failed, program>>

(* ~EventLoop in its thread: pendingFunctors_, then acceptor_ (~Acceptor), *)
(* poller_ and, last, connections_.  The kernel resets who still waits.    *)
LoopEnd(l) ==
  /\ pc[l] = "exit"
  /\ pc' = [pc EXCEPT ![l] = "gone"]
  /\ pendingFunctors_' = [pendingFunctors_ EXCEPT ![l] = <<>>]
  /\ connections_' = [connections_ EXCEPT ![l] = {}]
  /\ channels_' = [channels_ EXCEPT ![l] = <<>>]
  /\ idleFd_' = [idleFd_ EXCEPT ![l] = NoFd]
  /\ listening_' = [listening_ EXCEPT ![l] = FALSE]
  /\ client' = [c \in Clients |-> IF c \in Waiting(l) THEN "refused" ELSE client[c]]
  /\ UNCHANGED <<limit, active, home, left, state_, functors, ran, quit_, program>>
  /\ failed' = failed \cup UpdateFaults(l, chan[l], {}) \cup DestructorFaults(l, Gone)
  /\ chan' = [c \in Channels |-> IF c \in Gone \cup {l} THEN NoChannel ELSE chan[c]]
  /\ LET fds == {chan[c].fd_ : c \in Gone \cup {l}} \cup {idleFd_[l]}
     IN /\ open' = open \ fds
        /\ epoll' = [k \in Loops |-> IF k = l THEN <<>> ELSE Less(epoll[k], fds)]

(* ~EventLoop of the base loop, after the server.                          *)
BaseEnd ==
  /\ pc[Base] = "exit" /\ \A l \in Loops : pc[l] = "gone"
  /\ pc' = [pc EXCEPT ![Base] = "gone"]
  /\ pendingFunctors_' = [pendingFunctors_ EXCEPT ![Base] = <<>>]
  /\ UNCHANGED <<limit, channels_, active, acceptorVars, clientVars, state_, connections_,
                 functors, ran, quit_, program>>
  /\ failed' = failed \cup DestructorFaults(Base, Gone)
  /\ chan' = [c \in Channels |-> IF c \in Gone THEN NoChannel ELSE chan[c]]
  /\ Close({chan[c].fd_ : c \in Gone})

-----------------------------------------------------------------------------
MainStep ==
  \/ StartThreads \/ StartReturns
  \/ \E l \in Loops : SetAcceptor(l) \/ QuitLoop(l)
  \/ Poll(Base) \/ DoPendingFunctors(Base) \/ RemoveConnectionInLoop \/ FunctorsDone(Base)
  \/ BaseEnd

LoopStep(l) ==
  \/ Poll(l) \/ HandleAcceptor(l)
  \/ HandleRead(l) /\ UNCHANGED <<limit, serverVars>>
  \/ AcceptConnection(l)
  \/ \E c \in Clients : HandleClose(l, c)
  \/ DoPendingFunctors(l) \/ RunListen(l) \/ ConnectDestroyed(l) \/ FunctorsDone(l)
  \/ LoopEnd(l)

(* No client comes to a program that is quiet and quits.                   *)
ClientStep(c) ==
  /\ (Connect(c) /\ ~ (program.quiet /\ Base \in quit_)) \/ Leave(c)
  /\ UNCHANGED <<limit, open, pollerVars, pc, active, acceptorVars, serverVars>>

(* A failed assertion ends the process.                                    *)
Next ==
  /\ failed = {}
  /\ \/ MainStep \/ StartAgain \/ Quit
     \/ \E l \in Loops : LoopStep(l)
     \/ \E c \in Clients : ClientStep(c)

(* Every thread runs; clients connect, leave and the user quits at will.   *)
Fairness ==
  /\ WF_vars(failed = {} /\ MainStep)
  /\ \A l \in Loops : WF_vars(failed = {} /\ LoopStep(l))

Spec == Init /\ [][Next]_vars /\ Fairness

-----------------------------------------------------------------------------
(* Properties.                                                             *)

(* The state's types.                                                      *)
TypeOK ==
  /\ open \subseteq 1..limit
  /\ chan \in [Channels -> [fd_ : 0..limit, events_ : SUBSET {"IN"},
                            index_ : {"kNew", "kAdded", "kDeleted"}]]
  /\ idleFd_ \in [Loops -> 0..limit] /\ listening_ \in [Loops -> BOOLEAN]
  /\ client \in [Clients -> {"new", "waiting", "accepted", "refused"}]
  /\ home \in [Clients -> Loops \cup {NoLoop}] /\ left \subseteq Clients
  /\ state_ \in [Clients -> {"none", "kConnected", "kDisconnected"}]
  /\ connections_ \in [Loops -> SUBSET Clients] /\ quit_ \subseteq Threads

(* Every open descriptor has exactly one owner, a listening socket, a      *)
(* reserve or a live connection, and every owner's descriptor is open:     *)
(* none leaks and none is closed under its owner (Acceptor::handleRead     *)
(* 54-85, ~Socket, ~Acceptor), at the limit too.                           *)
FdsOwned ==
  LET acceptors == {l \in Loops : chan[l].fd_ /= NoFd}
      reserves  == {l \in Loops : idleFd_[l] /= NoFd}
      conns     == {c \in Clients : Referenced(c)}
  IN /\ open = {chan[x].fd_ : x \in acceptors \cup conns} \cup {idleFd_[l] : l \in reserves}
     /\ Cardinality(open) = Cardinality(acceptors) + Cardinality(reserves) + Cardinality(conns)

(* What a poller's map, its epoll set or the list being handled names is a *)
(* live channel, under the descriptor it has now: with numbers reused at   *)
(* once no event reaches the wrong connection (EPollPoller 92-146).        *)
NoCrossTalk ==
  failed = {} => \A l \in Loops :
    /\ \A fd \in DOMAIN channels_[l] :
         Alive(channels_[l][fd]) /\ chan[channels_[l][fd]].fd_ = fd
    /\ \A fd \in DOMAIN epoll[l] :
         fd \in DOMAIN channels_[l] /\ channels_[l][fd] = epoll[l][fd]
    /\ \A ch \in active[l] : Alive(ch)

(* A program that starts the server once and quits it quietly.             *)
Careful == program.quiet /\ program.starts = 1

(* Nothing aborts, but start() when the descriptors do not suffice: the    *)
(* poller's assertions, the destructors' (TcpConnection.cc:44,             *)
(* Channel.cc:35), epoll_ctl and assertInLoopThread.                       *)
NothingAborts == failed \subseteq {"descriptors"}

(* In a careful program nothing aborts.                                    *)
AssertionsHold == Careful => NothingAborts

(* More descriptors than the server can use.                               *)
Ample == Careful /\ limit > 2 * Cardinality(Loops) + Cardinality(Clients)

(* With ample descriptors whoever connects is accepted, and always comes a *)
(* time when nobody waits (each client connects once; handleRead 53-71).   *)
ClientsAnswered == []<>(Ample => \A c \in Clients : client[c] \in {"new", "accepted"})

(* With ample descriptors a connection whose peer has left is destroyed,   *)
(* by way of its loop, the base loop and its loop again (handleClose,      *)
(* removeConnectionInLoop, connectDestroyed), and its descriptor closed.   *)
ConnectionsReclaimed ==
  []<>(Ample => \A c \in left : client[c] = "accepted" => ~ Referenced(c))

(* With ample descriptors a server that is told to stop ends with all its  *)
(* threads joined and every descriptor closed (~TcpServer, ~EventLoop).    *)
StopReturns == Ample /\ Base \in quit_ ~> pc[Base] = "gone" /\ open = {}

(* "解决busy loop": a loop that found no descriptor and gave up its        *)
(* reserve comes back to its other channels (handleRead 74-86).            *)
RefusalEnds == \A l \in Loops : pc[l] = "refuse" ~> pc[l] \in {"poll", "gone"}
=============================================================================
