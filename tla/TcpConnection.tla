---------------------------- MODULE TcpConnection ----------------------------
(***************************************************************************)
(* The life of one TcpConnection (src/net/TcpConnection.cc) between the    *)
(* three kinds of threads that touch it: its IO loop, the server's base    *)
(* loop (TcpServer::removeConnectionInLoop) and the user's threads.        *)
(*                                                                         *)
(* A loop is what EventLoopProofs shows it to be: a LoopExecutor, running  *)
(* queued functors in order, between the events of its channels.  Handlers *)
(* and functors are steps of the IO thread; what user code does inside a   *)
(* callback is a step of its own, and so is each access another thread     *)
(* makes to state_ or to a loop's queue.  The program ignores SIGPIPE, as  *)
(* sendInLoop's EPIPE branch supposes.                                     *)
(***************************************************************************)
EXTENDS Naturals, Sequences

CONSTANTS
  Callers,        \* the user's threads
  Messages,       \* what is sent, each once
  MsgLen,         \* units in a message: what one write may split
  HighWaterMark,  \* highWaterMark_, in units
  Users,          \* the programs that may use the connection, see User
  MaxQueue        \* bound on queued startRead and stopRead functors

Ops == {"send", "shutdown", "startRead", "stopRead"}

ASSUME MsgLenAssumption == MsgLen \in Nat \ {0}

(* A program: what its callbacks call in the IO thread, what its threads   *)
(* call, whether these hold their pointer until their functors ran, and    *)
(* whether connected() is tested before startRead and stopRead.            *)
User == [loopOps : SUBSET Ops, callerOps : SUBSET Ops,
         keepRef : BOOLEAN, askConnected : BOOLEAN]

ASSUME UserAssumption == Users \subseteq User

VARIABLES
  state_, reading_,
  events_,        \* the channel's interest: subset of {"IN", "OUT"}
  index_,         \* the channel in the poller: kNew, kAdded, kDeleted
  outputBuffer_,  \* units not yet written
  inMap,          \* the IO loop's connections_ holds the connection
  ioPc,           \* IO thread: "poll", "event" (in handleEvent), "callback"
  revents_,       \* what handleEvent has still to dispatch
  ioQueue,        \* functors queued to the IO loop
  baseQueue,      \* removeConnectionInLoop functors queued to the base loop
  holds,          \* callers that hold a TcpConnectionPtr
  callerPc, callerMsg,
  peer,           \* "open", "eof", "reset", "drained" (reset, error fetched)
  inData,         \* received bytes wait in the kernel
  shutWr,         \* SHUT_WR was done
  wire,           \* units written to the socket
  accepted,       \* messages sendInLoop took, in order
  issued,         \* per thread: messages it passed to send()
  promised,       \* per thread: messages it sent before its own shutdown()
  downCalls,      \* connectionCallback_ calls made on disconnection
  failed,         \* assertions that did not hold
  user            \* the program, fixed at the start

connVars   == <<state_, reading_, events_, index_, outputBuffer_, inMap>>
ioVars     == <<ioPc, revents_, ioQueue, baseQueue>>
callerVars == <<holds, callerPc, callerMsg>>
netVars    == <<peer, inData, shutWr, wire>>
ghostVars  == <<accepted, issued, promised, downCalls, failed, user>>
vars       == <<connVars, ioVars, callerVars, netVars, ghostVars>>

IO == "io"      \* the IO thread, as an issuer of messages
None == "none"

Functor(op, m, t) == [op |-> op, msg |-> m, from |-> t]
SharedOps == {"writeComplete", "highWater", "connectDestroyed"}
Shared(op) == Functor(op, None, IO)   \* binds shared_from_this()

Unit(m) == [k \in 1..MsgLen |-> <<m, k>>]

Init ==
  /\ state_ = "kConnecting" /\ reading_ = TRUE
  /\ events_ = {} /\ index_ = "kNew"
  /\ outputBuffer_ = <<>> /\ inMap = FALSE
  /\ ioPc = "poll" /\ revents_ = {} /\ ioQueue = <<>> /\ baseQueue = <<>>
  /\ holds = {}
  /\ callerPc = [t \in Callers |-> "idle"]
  /\ callerMsg = [t \in Callers |-> None]
  /\ peer = "open" /\ inData = FALSE /\ shutWr = FALSE /\ wire = <<>>
  /\ accepted = <<>>
  /\ issued = [t \in Callers \cup {IO} |-> <<>>]
  /\ promised = [t \in Callers \cup {IO} |-> {}] /\ downCalls = 0 /\ failed = {}
  /\ user \in Users

Established == state_ /= "kConnecting"

(* Somebody owns the connection: the loop's map, a caller, a functor bound *)
(* to a shared_ptr, or the guard of the handler that is running.           *)
Referenced ==
  \/ inMap
  \/ holds /= {}
  \/ baseQueue /= <<>>
  \/ \E i \in DOMAIN ioQueue : ioQueue[i].op \in SharedOps
  \/ ioPc /= "poll"

Gone == Established /\ ~ Referenced

Assert(name, ok) == failed' = IF ok THEN failed ELSE failed \cup {name}

-----------------------------------------------------------------------------
(* The channel in its poller; EPollPoller::updateChannel.                  *)

(* Mutant of UpdateChannel: an interest is never taken back.               *)
UpdateChannelStuck(ev) ==
  /\ events_' = events_ \cup ev
  /\ index_' = "kAdded"

UpdateChannel(ev) ==
  /\ events_' = ev
  /\ index_' = IF index_ = "kAdded" /\ ev = {} THEN "kDeleted" ELSE "kAdded"

(* EPollPoller::removeChannel.                                             *)
RemoveChannel == events_' = {} /\ index_' = "kNew"

-----------------------------------------------------------------------------
(* Operations in the IO thread.  q is ioQueue less the functor running.    *)

Broken == shutWr \/ peer \in {"reset", "drained"}

(* A call that fails with the socket's error takes it away.                *)
Fetched == IF peer = "reset" THEN "drained" ELSE peer

(* Mutant of Rest: appends from data, not from data + nwrote.              *)
RestAll(m, n) == IF n = MsgLen THEN <<>> ELSE Unit(m)

(* What sendInLoop buffers after a write of n.                             *)
Rest(m, n) == SubSeq(Unit(m), n + 1, MsgLen)

(* sendInLoop: direct write if nothing is buffered, the rest is buffered.  *)
SendInLoop(m, q) ==
  \/ /\ state_ = "kDisconnected"
     /\ ioQueue' = q
     /\ UNCHANGED <<events_, index_, outputBuffer_, wire, accepted, peer>>
  \/ /\ state_ /= "kDisconnected"
     /\ LET direct == "OUT" \notin events_ /\ outputBuffer_ = <<>>
        IN \/ /\ direct /\ Broken          \* faultError
              /\ ioQueue' = q
              /\ peer' = Fetched
              /\ UNCHANGED <<events_, index_, outputBuffer_, wire, accepted>>
           \/ /\ ~ (direct /\ Broken)
              /\ \E n \in (IF direct THEN 0..MsgLen ELSE {0}) :
                   LET rest == Rest(m, n)
                       high == rest /= <<>> /\ Len(outputBuffer_) + Len(rest) >= HighWaterMark
                   IN /\ wire' = wire \o SubSeq(Unit(m), 1, n)
                      /\ outputBuffer_' = outputBuffer_ \o rest
                      /\ accepted' = Append(accepted, m)
                      /\ ioQueue' = q \o (IF rest = <<>> THEN <<Shared("writeComplete")>> ELSE <<>>)
                                      \o (IF high THEN <<Shared("highWater")>> ELSE <<>>)
                      /\ IF rest /= <<>> /\ "OUT" \notin events_
                         THEN UpdateChannel(events_ \cup {"OUT"})
                         ELSE UNCHANGED <<events_, index_>>
                      /\ UNCHANGED peer

(* Mutant of ShutdownInLoop: does not ask isWriting().                     *)
ShutdownAtOnce(ev) == shutWr' = TRUE

ShutdownInLoop(ev) == shutWr' = (shutWr \/ "OUT" \notin ev)

StartReadInLoop ==
  IF ~ reading_ \/ "IN" \notin events_
  THEN UpdateChannel(events_ \cup {"IN"}) /\ reading_' = TRUE
  ELSE UNCHANGED <<events_, index_, reading_>>

StopReadInLoop ==
  IF reading_ \/ "IN" \in events_
  THEN UpdateChannel(events_ \ {"IN"}) /\ reading_' = FALSE
  ELSE UNCHANGED <<events_, index_, reading_>>

(* TcpServer::newConnection, run by the loop's acceptor, then              *)
(* connectEstablished, which ends in the user's connectionCallback_.       *)
ConnectEstablished ==
  /\ ioPc = "poll" /\ state_ = "kConnecting"
  /\ state_' = "kConnected"
  /\ inMap' = TRUE
  /\ UpdateChannel({"IN"})
  /\ ioPc' = "callback"
  /\ UNCHANGED <<reading_, outputBuffer_, revents_, ioQueue, baseQueue,
                 callerVars, netVars, ghostVars>>

(* The kernel: HUP and ERR need no interest; OUT is up to the window.      *)
Revents(room) ==
  (IF "IN" \in events_ /\ (inData \/ peer /= "open") THEN {"IN"} ELSE {})
    \cup (IF "OUT" \in events_ /\ (room \/ peer \in {"reset", "drained"}) THEN {"OUT"} ELSE {})
    \cup (IF peer \in {"reset", "drained"} \/ (peer = "eof" /\ shutWr) THEN {"HUP"} ELSE {})
    \cup (IF peer = "reset" THEN {"ERR"} ELSE {})

Poll(room) ==
  /\ ioPc = "poll" /\ index_ = "kAdded" /\ Referenced   \* tie_.lock()
  /\ Revents(room) /= {}
  /\ revents_' = Revents(room)
  /\ ioPc' = "event"
  /\ UNCHANGED <<connVars, ioQueue, baseQueue, callerVars, netVars, ghostVars>>

(* handleClose, then the closeCallback_: TcpServer::removeConnection.      *)
HandleClose ==
  /\ Assert("handleClose", state_ \in {"kConnected", "kDisconnecting"})
  /\ state_' = "kDisconnected"
  /\ UpdateChannel({})
  /\ baseQueue' = Append(baseQueue, "removeConnectionInLoop")

(* handleEvent dispatches HUP without IN, then ERR, then IN, then OUT.     *)
EventClose ==
  /\ ioPc = "event" /\ "HUP" \in revents_
  /\ revents_' = revents_ \ {"HUP"}
  /\ IF "IN" \notin revents_
     THEN HandleClose
     ELSE UNCHANGED <<state_, events_, index_, baseQueue, failed>>
  /\ UNCHANGED <<reading_, outputBuffer_, inMap, ioPc, ioQueue, callerVars,
                 netVars, accepted, issued, promised, downCalls, user>>

(* handleError only logs, but getSocketError takes the error away.         *)
EventError ==
  /\ ioPc = "event" /\ "HUP" \notin revents_ /\ "ERR" \in revents_
  /\ revents_' = revents_ \ {"ERR"}
  /\ peer' = Fetched
  /\ UNCHANGED <<connVars, ioPc, ioQueue, baseQueue, callerVars, inData, shutWr,
                 wire, ghostVars>>

(* handleRead: data goes to messageCallback_, 0 closes, an error (of a     *)
(* reset that came after the poll) is logged.                              *)
EventRead ==
  /\ ioPc = "event" /\ revents_ \cap {"HUP", "ERR"} = {} /\ "IN" \in revents_
  /\ revents_' = revents_ \ {"IN"}
  /\ \/ /\ inData
        /\ inData' = FALSE /\ ioPc' = "callback"
        /\ UNCHANGED <<state_, events_, index_, baseQueue, failed, peer>>
     \/ /\ ~ inData /\ peer = "reset"
        /\ peer' = Fetched
        /\ UNCHANGED <<state_, events_, index_, baseQueue, failed, inData, ioPc>>
     \/ /\ ~ inData /\ peer /= "reset"
        /\ HandleClose
        /\ UNCHANGED <<peer, inData, ioPc>>
  /\ UNCHANGED <<reading_, outputBuffer_, inMap, ioQueue, callerVars, shutWr,
                 wire, accepted, issued, promised, downCalls, user>>

(* Mutant of FinishShutdown: handleWrite leaves it to shutdownInLoop.      *)
NeverFinish(ev) == UNCHANGED shutWr

(* handleWrite's end, when the buffer is empty.                            *)
FinishShutdown(ev) ==
  IF state_ = "kDisconnecting" THEN ShutdownInLoop(ev) ELSE UNCHANGED shutWr

(* handleWrite: writes what the kernel takes; when all is out it stops     *)
(* writing, queues writeCompleteCallback_ and finishes a shutdown().       *)
EventWrite ==
  /\ ioPc = "event" /\ revents_ = {"OUT"}
  /\ revents_' = {}
  /\ \/ /\ "OUT" \notin events_ \/ Broken \/ outputBuffer_ = <<>>
        /\ peer' = IF "OUT" \in events_ THEN Fetched ELSE peer
        /\ UNCHANGED <<outputBuffer_, wire, events_, index_, ioQueue, shutWr>>
     \/ /\ "OUT" \in events_ /\ ~ Broken
        /\ \E n \in 1..Len(outputBuffer_) :
             /\ wire' = wire \o SubSeq(outputBuffer_, 1, n)
             /\ outputBuffer_' = SubSeq(outputBuffer_, n + 1, Len(outputBuffer_))
             /\ IF n = Len(outputBuffer_)
                THEN /\ UpdateChannel(events_ \ {"OUT"})
                     /\ ioQueue' = Append(ioQueue, Shared("writeComplete"))
                     /\ FinishShutdown(events_ \ {"OUT"})
                ELSE UNCHANGED <<events_, index_, ioQueue, shutWr>>
        /\ UNCHANGED peer
  /\ UNCHANGED <<state_, reading_, inMap, ioPc, baseQueue, callerVars, inData,
                 ghostVars>>

EventDone ==
  /\ ioPc = "event" /\ revents_ = {}
  /\ ioPc' = "poll"
  /\ UNCHANGED <<connVars, revents_, ioQueue, baseQueue, callerVars, netVars, ghostVars>>

-----------------------------------------------------------------------------
(* Functors of the IO loop, in the order they were queued.                 *)

FunctorAt(op) == ioPc = "poll" /\ ioQueue /= <<>> /\ Head(ioQueue).op = op

RunSend ==
  /\ FunctorAt("send") /\ Referenced
  /\ SendInLoop(Head(ioQueue).msg, Tail(ioQueue))
  /\ UNCHANGED <<state_, reading_, inMap, ioPc, revents_, baseQueue, callerVars,
                 inData, shutWr, issued, promised, downCalls, failed, user>>

RunShutdown ==
  /\ FunctorAt("shutdown") /\ Referenced
  /\ ShutdownInLoop(events_)
  /\ ioQueue' = Tail(ioQueue)
  /\ UNCHANGED <<connVars, ioPc, revents_, baseQueue, callerVars, peer, inData,
                 wire, ghostVars>>

RunRead ==
  /\ Referenced
  /\ \/ FunctorAt("startRead") /\ StartReadInLoop
     \/ FunctorAt("stopRead") /\ StopReadInLoop
  /\ ioQueue' = Tail(ioQueue)
  /\ UNCHANGED <<state_, outputBuffer_, inMap, ioPc, revents_, baseQueue,
                 callerVars, netVars, ghostVars>>

(* writeCompleteCallback_ and highWaterMarkCallback_: user code.           *)
RunCallback ==
  /\ FunctorAt("writeComplete") \/ FunctorAt("highWater")
  /\ ioQueue' = Tail(ioQueue)
  /\ ioPc' = "callback"
  /\ UNCHANGED <<connVars, revents_, baseQueue, callerVars, netVars, ghostVars>>

(* connectDestroyed: connectionCallback_ only if still kConnected; then    *)
(* the loop forgets the connection and the poller its channel.             *)
RunConnectDestroyed ==
  /\ FunctorAt("connectDestroyed")
  /\ ioQueue' = Tail(ioQueue)
  /\ state_' = IF state_ = "kConnected" THEN "kDisconnected" ELSE state_
  /\ downCalls' = IF state_ = "kConnected" THEN downCalls + 1 ELSE downCalls
  /\ Assert("remove", inMap /\ (state_ = "kConnected" \/ events_ = {}))
  /\ inMap' = FALSE
  /\ RemoveChannel
  /\ UNCHANGED <<reading_, outputBuffer_, ioPc, revents_, baseQueue, callerVars,
                 netVars, accepted, issued, promised, user>>

-----------------------------------------------------------------------------
(* User code inside a callback in the IO thread.                           *)

Fresh(m) == \A t \in Callers \cup {IO} : \A i \in DOMAIN issued[t] : issued[t][i] /= m

LoopSend(m) ==
  /\ ioPc = "callback" /\ "send" \in user.loopOps
  /\ state_ = "kConnected" /\ Fresh(m)
  /\ issued' = [issued EXCEPT ![IO] = Append(@, m)]
  /\ SendInLoop(m, ioQueue)
  /\ UNCHANGED <<state_, reading_, inMap, ioPc, revents_, baseQueue, callerVars,
                 inData, shutWr, promised, downCalls, failed, user>>

LoopShutdown ==
  /\ ioPc = "callback" /\ "shutdown" \in user.loopOps
  /\ state_ = "kConnected"
  /\ state_' = "kDisconnecting"
  /\ ShutdownInLoop(events_)
  /\ promised' = [promised EXCEPT ![IO] = {issued[IO][i] : i \in DOMAIN issued[IO]}]
  /\ UNCHANGED <<reading_, events_, index_, outputBuffer_, inMap, ioVars, callerVars,
                 peer, inData, wire, accepted, issued, downCalls, failed, user>>

LoopRead ==
  /\ ioPc = "callback"
  /\ user.askConnected => state_ = "kConnected"
  /\ \/ "startRead" \in user.loopOps /\ StartReadInLoop
     \/ "stopRead" \in user.loopOps /\ StopReadInLoop
  /\ UNCHANGED <<state_, outputBuffer_, inMap, ioVars, callerVars, netVars, ghostVars>>

(* The callback passes the TcpConnectionPtr on to a thread.                *)
Share(t) ==
  /\ ioPc = "callback" /\ t \notin holds
  /\ holds' = holds \cup {t}
  /\ UNCHANGED <<connVars, ioVars, callerPc, callerMsg, netVars, ghostVars>>

CallbackReturn ==
  /\ ioPc = "callback"
  /\ ioPc' = "event"
  /\ UNCHANGED <<connVars, revents_, ioQueue, baseQueue, callerVars, netVars, ghostVars>>

-----------------------------------------------------------------------------
(* The base loop.                                                          *)

(* Mutant of RemoveConnectionInLoop: connectDestroyed is not queued.       *)
RemoveAndForget ==
  /\ baseQueue /= <<>>
  /\ baseQueue' = Tail(baseQueue)
  /\ UNCHANGED <<connVars, ioPc, revents_, ioQueue, callerVars, netVars, ghostVars>>

RemoveConnectionInLoop ==
  /\ baseQueue /= <<>>
  /\ baseQueue' = Tail(baseQueue)
  /\ ioQueue' = Append(ioQueue, Shared("connectDestroyed"))
  /\ UNCHANGED <<connVars, ioPc, revents_, callerVars, netVars, ghostVars>>

-----------------------------------------------------------------------------
(* The user's threads: state_ is tested, and the functor queued, in steps. *)

At(t, pc) == t \in holds /\ callerPc[t] = pc
Goto(t, pc) == callerPc' = [callerPc EXCEPT ![t] = pc]

(* Mutant of Queue: the newest functor is put first.                       *)
QueueFront(f) == ioQueue' = <<f>> \o ioQueue

Queue(f) == ioQueue' = Append(ioQueue, f)

CallerSend(t, m) ==
  /\ At(t, "idle") /\ "send" \in user.callerOps
  /\ state_ = "kConnected" /\ Fresh(m)
  /\ issued' = [issued EXCEPT ![t] = Append(@, m)]
  /\ callerMsg' = [callerMsg EXCEPT ![t] = m]
  /\ Goto(t, "queueSend")
  /\ UNCHANGED <<connVars, ioVars, holds, netVars, accepted, promised, downCalls, failed, user>>

CallerQueueSend(t) ==
  /\ At(t, "queueSend")
  /\ Queue(Functor("send", callerMsg[t], t))
  /\ Goto(t, "idle")
  /\ UNCHANGED <<connVars, ioPc, revents_, baseQueue, holds, callerMsg, netVars, ghostVars>>

CallerShutdown(t) ==
  /\ At(t, "idle") /\ "shutdown" \in user.callerOps
  /\ state_ = "kConnected"
  /\ Goto(t, "setState")
  /\ promised' = [promised EXCEPT ![t] = {issued[t][i] : i \in DOMAIN issued[t]}]
  /\ UNCHANGED <<connVars, ioVars, holds, callerMsg, netVars, accepted, issued,
                 downCalls, failed, user>>

CallerSetState(t) ==
  /\ At(t, "setState")
  /\ state_' = "kDisconnecting"
  /\ Goto(t, "queueShutdown")
  /\ UNCHANGED <<reading_, events_, index_, outputBuffer_, inMap, ioVars, holds,
                 callerMsg, netVars, ghostVars>>

CallerQueueShutdown(t) ==
  /\ At(t, "queueShutdown")
  /\ Queue(Functor("shutdown", None, t))
  /\ Goto(t, "idle")
  /\ UNCHANGED <<connVars, ioPc, revents_, baseQueue, holds, callerMsg, netVars, ghostVars>>

CallerRead(t, op) ==
  /\ At(t, "idle") /\ op \in user.callerOps \cap {"startRead", "stopRead"}
  /\ user.askConnected => state_ = "kConnected"
  /\ Len(ioQueue) < MaxQueue
  /\ Queue(Functor(op, None, t))
  /\ UNCHANGED <<connVars, ioPc, revents_, baseQueue, callerVars, netVars, ghostVars>>

Release(t) ==
  /\ At(t, "idle")
  /\ user.keepRef => \A i \in DOMAIN ioQueue : ioQueue[i].from /= t
  /\ holds' = holds \ {t}
  /\ UNCHANGED <<connVars, ioVars, callerPc, callerMsg, netVars, ghostVars>>

-----------------------------------------------------------------------------
(* The peer.                                                               *)
PeerData ==
  /\ Established /\ peer = "open" /\ ~ inData
  /\ inData' = TRUE
  /\ UNCHANGED <<connVars, ioVars, callerVars, peer, shutWr, wire, ghostVars>>

PeerClose ==
  /\ Established /\ peer \in {"open", "eof"}
  /\ peer' \in {"eof", "reset"} /\ peer' /= peer
  /\ inData' \in {inData, inData /\ peer' = "eof"}   \* a reset may discard data
  /\ UNCHANGED <<connVars, ioVars, callerVars, shutWr, wire, ghostVars>>

-----------------------------------------------------------------------------
IoStep ==
  \/ ConnectEstablished \/ EventClose \/ EventError \/ EventRead
  \/ EventWrite \/ EventDone \/ Poll(FALSE) \/ CallbackReturn
  \/ RunSend \/ RunShutdown \/ RunRead \/ RunCallback \/ RunConnectDestroyed

UserInLoop ==
  \/ \E m \in Messages : LoopSend(m)
  \/ LoopShutdown \/ LoopRead
  \/ \E t \in Callers : Share(t)

CallerContinue(t) ==
  CallerQueueSend(t) \/ CallerSetState(t) \/ CallerQueueShutdown(t)

CallerStart(t) ==
  \/ \E m \in Messages : CallerSend(t, m)
  \/ CallerShutdown(t)
  \/ \E op \in {"startRead", "stopRead"} : CallerRead(t, op)

Next ==
  \/ IoStep \/ Poll(TRUE) \/ UserInLoop \/ RemoveConnectionInLoop
  \/ \E t \in Callers : CallerStart(t) \/ CallerContinue(t) \/ Release(t)
  \/ PeerData \/ PeerClose

Spec == Init /\ [][Next]_vars

(* A program whose threads only send, keep their pointer meanwhile, and    *)
(* which tests connected().                                                *)
Careful == user.callerOps \subseteq {"send"} /\ user.keepRef /\ user.askConnected

(* Both loops run, callbacks return, a thread finishes the call it is in   *)
(* and drops its pointer at last.  Stated for careful programs, the only   *)
(* ones that liveness properties are about.                                *)
Fairness ==
  /\ WF_vars(Careful /\ IoStep)
  /\ WF_vars(Careful /\ RemoveConnectionInLoop)
  /\ \A t \in Callers : /\ WF_vars(Careful /\ CallerContinue(t))
                        /\ SF_vars(Careful /\ Release(t))

FairSpec == Spec /\ Fairness

(* In addition, the peer's window opens again and again.                   *)
PeerReadsSpec ==
  FairSpec /\ SF_vars(Careful /\ Poll(TRUE)) /\ WF_vars(Careful /\ EventWrite)
-----------------------------------------------------------------------------
FunctorType ==
  [op : SharedOps \cup Ops, msg : Messages \cup {None}, from : Callers \cup {IO}]

TypeOK ==
  /\ state_ \in {"kConnecting", "kConnected", "kDisconnecting", "kDisconnected"}
  /\ reading_ \in BOOLEAN /\ inMap \in BOOLEAN
  /\ inData \in BOOLEAN /\ shutWr \in BOOLEAN
  /\ events_ \subseteq {"IN", "OUT"} /\ revents_ \subseteq {"IN", "OUT", "HUP", "ERR"}
  /\ index_ \in {"kNew", "kAdded", "kDeleted"}
  /\ outputBuffer_ \in Seq(Messages \X (1..MsgLen))
  /\ wire \in Seq(Messages \X (1..MsgLen))
  /\ ioPc \in {"poll", "event", "callback"}
  /\ ioQueue \in Seq(FunctorType)
  /\ baseQueue \in Seq({"removeConnectionInLoop"})
  /\ holds \subseteq Callers
  /\ callerPc \in [Callers -> {"idle", "queueSend", "setState", "queueShutdown"}]
  /\ callerMsg \in [Callers -> Messages \cup {None}]
  /\ peer \in {"open", "eof", "reset", "drained"}
  /\ accepted \in Seq(Messages)
  /\ issued \in [Callers \cup {IO} -> Seq(Messages)]
  /\ promised \in [Callers \cup {IO} -> SUBSET Messages]
  /\ downCalls \in Nat
  /\ failed \subseteq {"handleClose", "remove"}
  /\ user \in Users

(* What was written and what is buffered are the accepted messages, whole, *)
(* in order and without a gap, however sendInLoop's direct writes and      *)
(* handleWrite's partial ones (TcpConnection.cc:95-150, 260-296) fall.     *)
StreamIntegrity ==
  LET stream == wire \o outputBuffer_
  IN /\ Len(stream) = MsgLen * Len(accepted)
     /\ \A i \in DOMAIN stream :
          stream[i] = <<accepted[(i - 1) \div MsgLen + 1], ((i - 1) % MsgLen) + 1>>

(* In a careful program the messages one thread sends are taken in the     *)
(* order of its send() calls, and none is skipped while a later one is     *)
(* taken (send, 47-88).                                                    *)
SenderOrder ==
  Careful => \A t \in Callers \cup {IO} :
    LET mine == SelectSeq(accepted, LAMBDA m : \E i \in DOMAIN issued[t] : issued[t][i] = m)
    IN mine = SubSeq(issued[t], 1, Len(mine))

(* In a careful program, until the connection is closed the channel asks   *)
(* for POLLOUT exactly while bytes wait: no byte is forgotten and POLLOUT  *)
(* never spins (sendInLoop 143-148, handleWrite 270-274).                  *)
WritingIffBuffered ==
  Careful /\ Established /\ state_ /= "kDisconnected" =>
    ("OUT" \in events_ <=> outputBuffer_ /= <<>>)

(* In a careful program the assertions of handleClose (302), of            *)
(* connectDestroyed's removeConnection and Channel::remove (EventLoop.h:96, *)
(* Channel.cc:94), and of the destructors (TcpConnection.cc:44,            *)
(* Channel.cc:35) hold.                                                    *)
AssertionsHold ==
  Careful => failed = {} /\ (Gone => state_ = "kDisconnected" /\ index_ = "kNew")

(* A functor bound to the raw pointer `this' (60, 85, 154, 169, 188) is    *)
(* never left in the queue of a connection that has been destroyed.        *)
NoDanglingFunctor == Gone => ioQueue = <<>>

Flushed(t) ==
  shutWr /\ peer \in {"open", "eof"} =>
    \A m \in promised[t] : \A k \in 1..MsgLen : \E i \in DOMAIN wire : wire[i] = <<m, k>>

(* In a careful program, when the write side is shut, everything the IO    *)
(* thread had sent before it called shutdown() is out, unless the peer     *)
(* resets (shutdownInLoop 192-200, handleWrite 279-283).                   *)
FlushedBeforeShutdown == Careful => Flushed(IO)

(* The same for what any thread had sent before its own shutdown().        *)
FlushedForAll == \A t \in Callers \cup {IO} : Flushed(t)

(* ~TcpConnection's own assertion, TcpConnection.cc:44.                    *)
DestroyedDisconnected == Gone => state_ = "kDisconnected"

(* handleClose's own assertion, TcpConnection.cc:302.                      *)
ClosedOnce == "handleClose" \notin failed

(* TcpServer.h:31: the connection callback is called on connection and on  *)
(* disconnection; connectDestroyed is where it would be.                   *)
CallbackOnDisconnect == Established /\ ~ inMap => downCalls = 1

(* In a careful program a closed connection leaves both loops and is       *)
(* destroyed once the threads that share it let go (handleClose to         *)
(* removeConnectionInLoop to connectDestroyed).                            *)
ClosedIsReclaimed == []<>(Careful /\ state_ = "kDisconnected" => Gone)

(* In a careful program shutdown() is carried out: the write side is shut  *)
(* or the connection closed, if the peer goes on reading.  (What is closed *)
(* or shut stays so, here and above, so []<> says that it leads to it.)    *)
ShutdownCompletes ==
  []<>(Careful /\ state_ = "kDisconnecting" => shutWr)
=============================================================================
