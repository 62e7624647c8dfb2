------------------------------- MODULE Poller -------------------------------
(***************************************************************************)
(* The channels of a process and the pollers of its IO loops: Channel      *)
(* (src/net/Channel.cc), EPollPoller (src/net/Epoller.cc), the epoll sets  *)
(* of the kernel behind them, and the table of descriptors all share.      *)
(*                                                                         *)
(* A descriptor is the lowest free number, so a number comes back as soon  *)
(* as it is closed; the kernel takes a closed descriptor out of every      *)
(* epoll set, the poller's own map keeps what was not removed.             *)
(***************************************************************************)
EXTENDS Naturals, FiniteSets, TLC

CONSTANTS
  Loops,     \* the IO loops; the channel of a loop's acceptor bears its name
  Clients    \* the peers; the channel of a client's connection bears its name

Channels == Loops \cup Clients

VARIABLES
  limit,       \* RLIMIT_NOFILE, the descriptors that always stay open left out
  open,        \* open descriptors
  chan,        \* per channel: fd_, events_, index_
  channels_,   \* per loop, EPollPoller::channels_: a function of descriptors
  epoll        \* per loop, the kernel's set: a function of descriptors

pollerVars == <<chan, channels_, epoll>>

Free == (1..limit) \ open
Lowest(S) == CHOOSE f \in S : \A g \in S : f <= g

NoFd == 0
NewChannel(fd) == [fd_ |-> fd, events_ |-> {}, index_ |-> "kNew"]
NoChannel == NewChannel(NoFd)

PollerInit ==
  /\ open = {}
  /\ chan = [ch \in Channels |-> NoChannel]
  /\ channels_ = [l \in Loops |-> <<>>]
  /\ epoll = [l \in Loops |-> <<>>]

Less(f, fds) == [x \in DOMAIN f \ fds |-> f[x]]

(* An assertion of the code, or an error it aborts on: the names in failed *)
Check(name, ok) == IF ok THEN {} ELSE {name}

-----------------------------------------------------------------------------
(* Channel::update, EventLoop::updateChannel, EPollPoller::updateChannel.  *)
(* c holds the fields of channel ch before; ev is its new events_.         *)

UpdateChannel(l, ch, c, ev) ==
  LET adds == c.index_ \in {"kNew", "kDeleted"}
      dels == ~ adds /\ ev = {}
  IN /\ chan' = [chan EXCEPT ![ch] = [fd_ |-> c.fd_, events_ |-> ev,
                   index_ |-> IF dels THEN "kDeleted" ELSE "kAdded"]]
     /\ channels_' = IF adds THEN [channels_ EXCEPT ![l] = (c.fd_ :> ch) @@ @] ELSE channels_
     /\ epoll' = [epoll EXCEPT ![l] = IF dels THEN Less(@, {c.fd_}) ELSE (c.fd_ :> ch) @@ @]

(* EPollPoller::update: a failed EPOLL_CTL_ADD or MOD is fatal.            *)
UpdateFaults(l, c, ev) ==
  LET adds == c.index_ \in {"kNew", "kDeleted"}
  IN Check("epoll_ctl", adds <=> c.fd_ \notin DOMAIN epoll[l])

(* Mutant of RemoveChannel: forgets to erase the poller's entry.           *)
RemoveChannelKeeps(l, ch) ==
  /\ chan' = [chan EXCEPT ![ch].index_ = "kNew"]
  /\ epoll' = [epoll EXCEPT ![l] = Less(@, {chan[ch].fd_})]
  /\ UNCHANGED channels_

(* Channel::remove, EventLoop::removeChannel, EPollPoller::removeChannel.  *)
RemoveChannel(l, ch) ==
  /\ chan' = [chan EXCEPT ![ch].index_ = "kNew"]
  /\ channels_' = [channels_ EXCEPT ![l] = Less(@, {chan[ch].fd_})]
  /\ epoll' = [epoll EXCEPT ![l] = Less(@, {chan[ch].fd_})]

hasChannel(l, ch) ==
  chan[ch].fd_ \in DOMAIN channels_[l] /\ channels_[l][chan[ch].fd_] = ch

RemoveFaults(l, ch) ==
  Check("removeChannel", hasChannel(l, ch) /\ chan[ch].events_ = {} /\ chan[ch].index_ /= "kNew")

(* close(): the number is free, and in no epoll set.                       *)
Close(fds) ==
  /\ open' = open \ fds
  /\ epoll' = [l \in Loops |-> Less(epoll[l], fds)]

(* What epoll_wait returns when these channels' sockets are readable.      *)
Ready(l, readable) ==
  {ch \in {epoll[l][fd] : fd \in DOMAIN epoll[l]} : chan[ch].events_ /= {} /\ ch \in readable}
=============================================================================
