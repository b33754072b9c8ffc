----------------------------- MODULE EpollPoller -----------------------------
(****************************************************************************)
(* Channel, Poller and EpollPoller (src/src/channel.cc, poller.cc,          *)
(* epoll_poller.cc): which descriptors the kernel watches for a loop, and   *)
(* how the events it reports reach the callbacks of the channels.           *)
(*                                                                          *)
(* All of this runs in the loop's thread, so there is one sequence of       *)
(* steps; what makes it hard is that user code called in the middle of a    *)
(* round changes registrations and destroys channels, and that descriptors  *)
(* and addresses are used again.  The kernel's side (the interest list of   *)
(* the epoll instance, the descriptor table, the events reported) is        *)
(* external.                                                                *)
(****************************************************************************)
EXTENDS Naturals, Sequences, FiniteSets

CONSTANTS
  Channels,                  \* addresses of channel objects
  Fds,                       \* descriptors
  ReadOnly,                  \* channels with a read callback only, and no
                             \* tie_: of an acceptor, of the wakeup descriptor
  NULL,
  kDefaultChannelListSize    \* 16 in the code

ASSUME NullAssumption == NULL \notin Channels \cup Fds
ASSUME FdsAssumption == IsFiniteSet(Fds)
ASSUME SizeAssumption == kDefaultChannelListSize \in Nat \ {0}

VARIABLES
  fd_,              \* of each channel object; NULL: no object there
  events_,          \* the events a channel is interested in
  state_,           \* what the poller has done with a channel
  channels_,        \* the poller's map from descriptors to channels
  interest,         \* the kernel's interest list: mask and pointer per fd
  size,             \* events_.size() of the poller
  active,           \* channels poll() returned and not handled, with revents_
  current,          \* the channel in handleEventWithGuard(), whether revents_
                    \* have input, and the callbacks that are left
  running,          \* "user", "dispatch", "callback"; "undefined" once the
                    \* loop has used a channel that was destroyed
  stale,            \* channels destroyed while the round still points at them
  fatal             \* update() has called LOG_FATAL

registration == <<events_, state_, channels_, interest, fatal>>
round == <<size, active, current, running, stale>>
vars == <<fd_, registration, round>>

Interest == {"read", "write"}
Flags == {"IN", "PRI", "OUT", "ERR", "HUP"}
Kinds == {"close", "error", "read", "write"}

NoEntry == [ptr |-> NULL, mask |-> {}]
Idle == [channel |-> NULL, input |-> FALSE, left |-> <<>>]

(* Every variable stays in its type.                                        *)
TypeOK ==
  /\ fd_ \in [Channels -> Fds \cup {NULL}]
  /\ events_ \in [Channels -> SUBSET Interest]
  /\ state_ \in [Channels -> {"initialized", "added", "removed"}]
  /\ channels_ \in [Fds -> Channels \cup {NULL}]
  /\ interest \in [Fds -> [ptr : Channels \cup {NULL}, mask : SUBSET Interest]]
  /\ size \in Nat \ {0}
  /\ active \in [Channels -> SUBSET Flags]
  /\ current \in [channel : Channels \cup {NULL}, input : BOOLEAN,
                  left : Seq(Kinds)]
  /\ running \in {"user", "dispatch", "callback", "undefined"}
  /\ stale \in SUBSET Channels
  /\ fatal \in BOOLEAN

Init ==
  /\ fd_ = [c \in Channels |-> NULL]
  /\ events_ = [c \in Channels |-> {}]
  /\ state_ = [c \in Channels |-> "initialized"]
  /\ channels_ = [fd \in Fds |-> NULL]
  /\ interest = [fd \in Fds |-> NoEntry]
  /\ size = kDefaultChannelListSize
  /\ active = [c \in Channels |-> {}]
  /\ current = Idle
  /\ running = "user"
  /\ stale = {}
  /\ fatal = FALSE

-----------------------------------------------------------------------------
(* The life of a channel, as its owners (EventLoop, Acceptor and            *)
(* TcpConnection) arrange it.                                               *)

exists == {c \in Channels : fd_[c] # NULL}

(* User code runs outside a round, or in a callback of one.                 *)
UserCode == running \in {"user", "callback"} /\ ~fatal

(* new Channel(loop, fd) for a descriptor just opened.                      *)
Create(c, fd) ==
  /\ UserCode
  /\ c \notin exists
  /\ \A d \in exists : fd_[d] # fd
  /\ fd_' = [fd_ EXCEPT ![c] = fd]
  /\ events_' = [events_ EXCEPT ![c] = {}]
  /\ state_' = [state_ EXCEPT ![c] = "initialized"]
  /\ UNCHANGED <<channels_, interest, fatal, round>>

(* The channel is gone and its descriptor closed, which takes it off the    *)
(* interest list.  The owners call remove() first.                          *)
Gone(c) ==
  /\ c \in exists
  /\ state_[c] = "initialized"
  /\ fd_' = [fd_ EXCEPT ![c] = NULL]
  /\ events_' = [events_ EXCEPT ![c] = {}]
  /\ interest' = [interest EXCEPT ![fd_[c]] = NoEntry]
  /\ UNCHANGED <<state_, channels_, fatal, size, active>>

(* The round points at a channel whose event it has still to handle, and at *)
(* one without tie_ while its callback runs.                                *)
PointsAt(c) == active[c] # {} \/ (c \in ReadOnly /\ c = current.channel)

(* Mutant: connEstablish() forgets tie(), so that handleEvent() does not    *)
(* hold the connection whose callback it calls.                             *)
Destroy_NotTied(c) ==
  /\ UserCode
  /\ Gone(c)
  /\ stale' = IF PointsAt(c) THEN stale \cup {c} ELSE stale
  /\ UNCHANGED <<current, running>>

(* The owner destroys the channel, outside a round or in a callback:        *)
(* ~TcpServer() calls connDestory() at once for a connection of the running *)
(* loop, and ~Acceptor() frees its channel.  A connection whose callback    *)
(* runs is held by handleEvent(): it goes in Release.                       *)
Destroy(c) ==
  /\ UserCode
  /\ c = current.channel => c \in ReadOnly
  /\ Gone(c)
  /\ stale' = IF PointsAt(c) THEN stale \cup {c} ELSE stale
  /\ UNCHANGED <<current, running>>

-----------------------------------------------------------------------------
(* Registration.                                                            *)

(* epoll_ctl(): EEXIST when the descriptor to add is already there, ENOENT  *)
(* when the one to modify or delete is not.                                 *)
CtlFails(op, fd) == (op = "ADD") <=> (interest[fd].ptr # NULL)

(* EpollPoller::update(): a failing DEL is logged, any other failure ends   *)
(* the process.                                                             *)
Update(op, c, ev) ==
  /\ interest' =
       IF CtlFails(op, fd_[c]) THEN interest
       ELSE [interest EXCEPT ![fd_[c]] =
               IF op = "DEL" THEN NoEntry ELSE [ptr |-> c, mask |-> ev]]
  /\ fatal' = (op # "DEL" /\ CtlFails(op, fd_[c]))

(* Mutant: a channel that falls silent is marked and not deleted.           *)
UpdateChannel_NoDel(c, ev) ==
  /\ UserCode
  /\ c \in exists
  /\ events_' = [events_ EXCEPT ![c] = ev]
  /\ \/ /\ state_[c] # "added"
        /\ channels_' = [channels_ EXCEPT ![fd_[c]] = c]
        /\ state_' = [state_ EXCEPT ![c] = "added"]
        /\ Update("ADD", c, ev)
     \/ /\ state_[c] = "added"
        /\ state_' = [state_ EXCEPT ![c] = IF ev = {} THEN "removed" ELSE @]
        /\ IF ev = {} THEN UNCHANGED <<interest, fatal>> ELSE Update("MOD", c, ev)
        /\ UNCHANGED channels_
  /\ UNCHANGED <<fd_, round>>

(* EpollPoller::updateChannel(), called by Channel::update() once events_   *)
(* is ev.                                                                   *)
UpdateChannel(c, ev) ==
  /\ UserCode
  /\ c \in exists
  /\ events_' = [events_ EXCEPT ![c] = ev]
  /\ \/ /\ state_[c] # "added"
        /\ channels_' = IF state_[c] = "initialized"
                        THEN [channels_ EXCEPT ![fd_[c]] = c] ELSE channels_
        /\ state_' = [state_ EXCEPT ![c] = "added"]
        /\ Update("ADD", c, ev)
     \/ /\ state_[c] = "added"
        /\ ev = {}
        /\ state_' = [state_ EXCEPT ![c] = "removed"]
        /\ Update("DEL", c, ev)
        /\ UNCHANGED channels_
     \/ /\ state_[c] = "added"
        /\ ev # {}
        /\ Update("MOD", c, ev)
        /\ UNCHANGED <<state_, channels_>>
  /\ UNCHANGED <<fd_, round>>

enableReadEvent(c) == UpdateChannel(c, events_[c] \cup {"read"})
disableReadEvent(c) == UpdateChannel(c, events_[c] \ {"read"})
enableWriteEvent(c) == UpdateChannel(c, events_[c] \cup {"write"})
disableWriteEvent(c) == UpdateChannel(c, events_[c] \ {"write"})
disableAllEvent(c) == UpdateChannel(c, {})

(* Mutant: the map keeps the entry of a removed channel.                    *)
Remove_KeepsEntry(c) ==
  /\ UserCode
  /\ c \in exists
  /\ IF state_[c] = "added" THEN Update("DEL", c, events_[c])
                            ELSE UNCHANGED <<interest, fatal>>
  /\ state_' = [state_ EXCEPT ![c] = "initialized"]
  /\ UNCHANGED <<fd_, events_, channels_, round>>

(* Mutant: the state is reset before it is tested, so nothing is deleted.   *)
Remove_StateFirst(c) ==
  /\ UserCode
  /\ c \in exists
  /\ channels_' = [channels_ EXCEPT ![fd_[c]] = NULL]
  /\ state_' = [state_ EXCEPT ![c] = "initialized"]
  /\ UNCHANGED <<fd_, events_, interest, fatal, round>>

(* Channel::remove() calls EpollPoller::removeChannel(): the map entry of   *)
(* the descriptor goes, whatever it is; events_ stays as it was.            *)
Remove(c) ==
  /\ UserCode
  /\ c \in exists
  /\ channels_' = [channels_ EXCEPT ![fd_[c]] = NULL]
  /\ IF state_[c] = "added" THEN Update("DEL", c, events_[c])
                            ELSE UNCHANGED <<interest, fatal>>
  /\ state_' = [state_ EXCEPT ![c] = "initialized"]
  /\ UNCHANGED <<fd_, events_, round>>

isChannelExist(c) == channels_[fd_[c]] = c

-----------------------------------------------------------------------------
(* A round of loop().                                                       *)

(* What the kernel may report for a mask: errors and hangups always.        *)
Reportable(mask) ==
  {"ERR", "HUP"} \cup (IF "read" \in mask THEN {"IN", "PRI"} ELSE {})
                 \cup (IF "write" \in mask THEN {"OUT"} ELSE {})

(* Where the loop stands when it has used a channel that is there, or not.  *)
After(there) == IF there THEN "dispatch" ELSE "undefined"

Registered == {fd \in Fds : interest[fd].ptr # NULL}

(* Mutant: the array is resized whenever something was reported.            *)
Resized_AlwaysDoubles(num_events) == IF num_events > 0 THEN 2 * size ELSE size

(* Mutant: a full array is halved.                                          *)
Resized_Halves(num_events) == IF num_events = size THEN size \div 2 ELSE size

(* events_.size() after num_events entries were filled in.                  *)
Resized(num_events) == IF num_events = size THEN 2 * size ELSE size

(* poll(): epoll_wait fills at most size entries, triggerChannels() copies  *)
(* them to the channels, and a full array is doubled for the next time.     *)
(* No entry: timeout or EINTR.                                              *)
Poll(report) ==
  LET num_events == Cardinality({fd \in Registered : report[fd] # {}}) IN
  /\ running = "user"
  /\ ~fatal
  /\ \A fd \in Registered : report[fd] \subseteq Reportable(interest[fd].mask)
  /\ num_events <= size
  /\ active' = [c \in Channels |->
                  UNION {report[fd] : fd \in {e \in Registered : interest[e].ptr = c}}]
  /\ size' = Resized(num_events)
  /\ running' = After(\A fd \in Registered :
                       report[fd] # {} => interest[fd].ptr \in exists)
  /\ UNCHANGED <<fd_, registration, current, stale>>

(* One test of handleEventWithGuard(): the callback of kind k, if it is set *)
(* and its events triggered.                                                *)
Called(c, k, triggered) ==
  IF triggered /\ (c \in ReadOnly => k = "read") THEN <<k>> ELSE <<>>

(* What handleEventWithGuard() calls, in this order.  Line 124 of           *)
(* channel.cc reads (revents_ & EPOLLIN) | EPOLLPRI, which is never zero.   *)
Callbacks(c, revents) ==
  Called(c, "close", "HUP" \in revents /\ "IN" \notin revents)
    \o Called(c, "error", "ERR" \in revents)
    \o Called(c, "read", TRUE)
    \o Called(c, "write", "OUT" \in revents)

(* handleEvent() of the next active channel, through the pointer poll()     *)
(* left: another object may be at its address by now.  The tie_ of a        *)
(* connection's channel can be locked: the connection owns the channel.     *)
HandleEvent(c) ==
  /\ running = "dispatch"
  /\ current = Idle
  /\ active[c] # {}
  /\ current' = [channel |-> c, input |-> active[c] \cap {"IN", "PRI"} # {},
                 left |-> Callbacks(c, active[c])]
  /\ active' = [active EXCEPT ![c] = {}]
  /\ running' = After(c \in exists \ stale)
  /\ UNCHANGED <<fd_, registration, size, stale>>

(* The next callback is called; it does what user code does and returns.    *)
Call ==
  /\ running = "dispatch"
  /\ current.left # <<>>
  /\ running' = "callback"
  /\ UNCHANGED <<fd_, registration, size, active, current, stale>>

(* It returns, and handleEventWithGuard() goes on to test revents_.         *)
Return ==
  /\ running = "callback"
  /\ ~fatal
  /\ current' = IF Len(current.left) <= 1 THEN Idle
                ELSE [current EXCEPT !.left = Tail(@)]
  /\ running' = After(current.channel \in exists \ stale)
  /\ UNCHANGED <<fd_, registration, size, active, stale>>

(* It returns, it was the last one, and handleEvent() gives up the only     *)
(* reference left to the connection, which destroys the channel.            *)
Release ==
  /\ running = "callback"
  /\ ~fatal
  /\ current.channel \notin ReadOnly
  /\ Len(current.left) <= 1
  /\ Gone(current.channel)
  /\ current' = Idle
  /\ running' = "dispatch"
  /\ UNCHANGED stale

EndRound ==
  /\ running = "dispatch"
  /\ current = Idle
  /\ \A c \in Channels : active[c] = {}
  /\ running' = "user"
  /\ UNCHANGED <<fd_, registration, size, active, current, stale>>

-----------------------------------------------------------------------------
(* Only connections ask for room to write.                                 *)
Change(c) ==
  \/ enableReadEvent(c)
  \/ disableReadEvent(c)
  \/ c \notin ReadOnly /\ enableWriteEvent(c)
  \/ c \notin ReadOnly /\ disableWriteEvent(c)
  \/ disableAllEvent(c)
  \/ Remove(c)

Next ==
  \/ \E c \in Channels : \/ \E fd \in Fds : Create(c, fd)
                         \/ Destroy(c)
                         \/ Change(c)
                         \/ HandleEvent(c)
  \/ \E report \in [Registered -> SUBSET Flags] : Poll(report)
  \/ Call
  \/ Return
  \/ Release
  \/ EndRound

Spec == Init /\ [][Next]_vars

-----------------------------------------------------------------------------
(* Properties.                                                              *)

(* The kernel's interest list mirrors the channels: a channel is there, with *)
(* its own address and its own events, exactly while its state says added,  *)
(* and nothing else is there.  Hence triggerChannels() only ever follows    *)
(* pointers to channels that exist.                                         *)
InterestMirrorsChannels ==
  /\ \A c \in exists : interest[fd_[c]] = IF state_[c] = "added"
                                          THEN [ptr |-> c, mask |-> events_[c]]
                                          ELSE NoEntry
  /\ \A fd \in Fds : interest[fd] # NoEntry =>
       interest[fd].ptr \in exists /\ fd_[interest[fd].ptr] = fd

(* isChannelExist() tells whether the poller knows the channel, and no map  *)
(* entry outlives its channel, also when a descriptor is used again.        *)
MapAgreesWithState ==
  /\ \A c \in exists : isChannelExist(c) <=> state_[c] # "initialized"
  /\ \A fd \in Fds : channels_[fd] # NULL =>
       channels_[fd] \in exists /\ fd_[channels_[fd]] = fd

(* epoll_ctl() never refuses an ADD or a MOD, so update() never ends the    *)
(* process, whatever the order of the operations.                           *)
CtlNeverFatal == ~fatal

(* A callback may destroy any channel, its own connection's included, and   *)
(* descriptors and addresses may be used again at once: the loop uses a     *)
(* channel that was destroyed only if a callback destroyed one whose event  *)
(* the round has still to handle (eventloop.cc:70), or an acceptor's inside *)
(* its own callback.  The kernel's pointers and the channel under           *)
(* handleEvent() are never a third way.                                     *)
RoundIsLive == running = "undefined" => stale # {}

(* The array for epoll_wait stays within twice the number of descriptors.   *)
ArrayBounded ==
  size <= kDefaultChannelListSize \/ size <= 2 * Cardinality(Fds)

(* A read callback runs for "The events actually happened" (channel.h:80),  *)
(* that is after an input event.                                            *)
ReadMeansInput ==
  running = "callback" /\ Head(current.left) = "read"
    => current.input
=============================================================================
