---------------------------- MODULE TcpConnection ----------------------------
(****************************************************************************)
(* One TcpConnection (src/src/tcp_connection.cc) from newConnection() to    *)
(* its destruction, with the part of TcpServer (tcp_server.cc) that owns    *)
(* it.  Four parties take steps: the loop of the connection, a thread of    *)
(* the user's that calls send() and shutdown(), the base loop of the server *)
(* and the peer with the kernel (external).                                 *)
(*                                                                          *)
(* The loop is the one of module EventLoop with one batch of functors per   *)
(* round; that functors run once and in order is shown there.  The channel  *)
(* is reduced to events_ and its state: module EpollPoller shows that the   *)
(* kernel then watches exactly events_ while the state is added.  The       *)
(* output buffer is a queue of bytes; module Buffer tells how far it is.    *)
(* All user callbacks are set; what they are called for is left out.        *)
(****************************************************************************)
EXTENDS Naturals, Sequences, Functions

CONSTANTS
  MaxBytes,           \* bound: bytes given to send() in the loop's thread
  MaxCalls,           \* bound: calls by the user's thread, of a byte each
  MaxNotified,        \* bound: calls of conn_callback_
  high_water_mark_

ASSUME BoundsAssumption ==
  {MaxBytes, MaxCalls, MaxNotified, high_water_mark_} \subseteq Nat

VARIABLES
  state_,
  events_,       \* of the channel
  chan,          \* the state of the channel
  output_buffer_,
  wire,          \* bytes the socket has taken
  shut,          \* shutdownWrite() was called
  peer,          \* "open", "fin" or "reset"
  received,      \* there are bytes to read
  err,           \* SO_ERROR is pending
  phase,         \* of the loop: "poll", "events" or "functors"
  revents_,      \* reported for the channel and not handled yet
  todo,          \* what is left of the handler or functor being run
  functors,      \* the batch of the round
  done,          \* how many of them have been called
  pending,       \* pushed for the next round
  in_map,        \* connections_ of the server holds the connection
  removals,      \* removeConnectionInLoop() pushed to the base loop
  server,        \* "up" or "gone"
  held,          \* user code keeps a TcpConnectionPtr
  call, calls,   \* what the user's thread is in the middle of, and how many
  given,         \* history: bytes sendInLoop() took
  lost,          \* history: sendInLoop() met a broken socket
  notified,      \* history: what conn_callback_ was told
  closed,        \* history: handleClose() or connDestory() took it down
  undefined      \* a destroyed object was used

conn == <<state_, events_, chan, output_buffer_>>
socket == <<wire, shut, peer, received, err>>
round == <<phase, revents_, functors, done>>
owners == <<in_map, removals, server, held>>
user == <<call, calls>>
history == <<given, lost, notified, closed, undefined>>
vars == <<conn, socket, round, todo, pending, owners, user, history>>

(* Functors that hold a TcpConnectionPtr, and those bound to a raw this.    *)
Owning == {"establish", "destroy", "callback"}
Raw == {"send", "shutdown"}

(* Every variable stays in its type.                                        *)
TypeOK ==
  /\ state_ \in {"connecting", "connected", "disconnecting", "disconnected"}
  /\ events_ \in SUBSET {"read", "write"}
  /\ chan \in {"initialized", "added", "removed"}
  /\ {output_buffer_, wire} \subseteq Seq(Nat)
  /\ peer \in {"open", "fin", "reset"}
  /\ phase \in {"poll", "events", "functors"}
  /\ revents_ \in SUBSET {"IN", "OUT", "HUP", "ERR"}
  /\ todo \in Seq({"close", "error", "read", "write", "user", "close_callback",
                   "disconnect", "remove"})
  /\ {functors, pending} \subseteq Seq(Owning \cup Raw)
  /\ done \in 0 .. Len(functors)
  /\ server \in {"up", "gone"}
  /\ call \in {"none", "send", "shutdown", "push"}
  /\ {removals, calls, given} \subseteq Nat
  /\ notified \in Seq({"up", "down"})
  /\ {shut, received, err, in_map, held, lost, closed, undefined} \subseteq BOOLEAN

(* newConnection() has put the connection into the map and pushed           *)
(* connEstablish().                                                         *)
Init ==
  /\ state_ = "connecting" /\ events_ = {} /\ chan = "initialized"
  /\ output_buffer_ = <<>> /\ wire = <<>>
  /\ shut = FALSE /\ peer = "open" /\ received = FALSE /\ err = FALSE
  /\ phase = "poll" /\ revents_ = {} /\ todo = <<>>
  /\ functors = <<>> /\ done = 0 /\ pending = <<"establish">>
  /\ in_map = TRUE /\ removals = 0 /\ server = "up" /\ held = FALSE
  /\ call = "none" /\ calls = 0
  /\ given = 0 /\ lost = FALSE /\ notified = <<>>
  /\ closed = FALSE /\ undefined = FALSE

-----------------------------------------------------------------------------
(* The object lives while a TcpConnectionPtr does: in the map, in a functor *)
(* of either loop (a batch keeps its functors to the end of the round), in  *)
(* user code, or as the guard of handleEvent().                             *)
alive ==
  \/ in_map \/ removals > 0 \/ held
  \/ (Range(functors) \cup Range(pending)) \cap Owning # {}
  \/ phase = "events" /\ todo # <<>>

(* Channel::update() as EpollPoller::updateChannel() answers it.            *)
UpdateChannel(ev) ==
  /\ events_' = ev
  /\ chan' = IF chan = "added" /\ ev = {} THEN "removed" ELSE "added"

(* A write fails with EPIPE or ECONNRESET, and takes the pending error.     *)
Broken == shut \/ peer = "reset"

(* Bound: at most MaxNotified calls.                                        *)
Notify(k) == Len(notified) < MaxNotified /\ notified' = Append(notified, k)

(* The user's callback for a completed write or the high water mark.        *)
PushIf(condition) ==
  pending' = IF condition THEN Append(pending, "callback") ELSE pending

(* The next len bytes to send.                                              *)
Bytes(len) == [i \in 1 .. len |-> given + i]

(* Mutant: a direct write may overtake what is buffered.                    *)
sendInLoop_Overtakes(len, k) ==
  /\ k > 0 => ~Broken
  /\ state_' = "disconnected"
  /\ given' = given + len
  /\ wire' = wire \o SubSeq(Bytes(len), 1, k)
  /\ output_buffer_' = output_buffer_ \o SubSeq(Bytes(len), k + 1, len)
  /\ PushIf(k = len)
  /\ UpdateChannel(events_ \cup {"write"})
  /\ UNCHANGED <<lost, err>>

(* Mutant: what the socket did not take is buffered and nobody watches.     *)
sendInLoop_NoWatch(len, k) ==
  /\ k > 0 => output_buffer_ = <<>> /\ ~Broken
  /\ state_' = "disconnected"
  /\ given' = given + len
  /\ wire' = wire \o SubSeq(Bytes(len), 1, k)
  /\ output_buffer_' = output_buffer_ \o SubSeq(Bytes(len), k + 1, len)
  /\ PushIf(k = len)
  /\ UNCHANGED <<lost, err, events_, chan>>

(* sendInLoop() of len bytes, k of which a direct write takes.  Line 75     *)
(* assigns kDisconnected, which is zero, so the test fails and the function *)
(* goes on.                                                                 *)
sendInLoop(len, k) ==
  LET direct == "write" \notin events_ /\ output_buffer_ = <<>>
      faultError == direct /\ Broken
      remained == IF faultError THEN <<>> ELSE SubSeq(Bytes(len), k + 1, len)
      buffered == Len(output_buffer_)
  IN
  /\ k > 0 => direct /\ ~Broken
  /\ state_' = "disconnected"
  /\ given' = given + len
  /\ lost' = (lost \/ faultError)
  /\ err' = (err /\ ~faultError)
  /\ wire' = wire \o SubSeq(Bytes(len), 1, k)
  /\ output_buffer_' = output_buffer_ \o remained
  /\ PushIf(\/ k = len
            \/ /\ remained # <<>>
               /\ buffered + Len(remained) >= high_water_mark_
               /\ buffered < high_water_mark_)
  /\ IF remained # <<>> /\ "write" \notin events_
     THEN UpdateChannel(events_ \cup {"write"}) ELSE UNCHANGED <<events_, chan>>

(* Mutant: the write end is shut whatever is waiting.                       *)
shutdownInLoop_AtOnce(ev) == shut' = TRUE

(* shutdownInLoop(), for a channel with the events ev.                      *)
shutdownInLoop(ev) == shut' = (shut \/ "write" \notin ev)

-----------------------------------------------------------------------------
(* User code in the loop's thread: in a callback of the connection, or in   *)
(* another one while it keeps a reference.  In any other state_ than        *)
(* connected, send() and shutdown() return at once.                         *)
MayUse == IF todo = <<>> THEN held /\ phase # "poll" ELSE Head(todo) = "user"

Send(len, k) ==
  /\ MayUse /\ state_ = "connected"
  /\ given + len <= MaxBytes
  /\ sendInLoop(len, k)
  /\ UNCHANGED <<shut, peer, received, round, todo, owners, user, notified,
                 closed, undefined>>

Shutdown ==
  /\ MayUse /\ state_ = "connected"
  /\ state_' = "disconnecting"
  /\ shutdownInLoop(events_)
  /\ UNCHANGED <<events_, chan, output_buffer_, wire, peer, received, err,
                 round, todo, pending, owners, user, history>>

(* User code keeps the TcpConnectionPtr of a callback.  It drops it once    *)
(* its calls have run, for send() and shutdown() bind a raw this.           *)
KeepOrDrop ==
  /\ \/ todo # <<>> /\ Head(todo) = "user" /\ held' = TRUE
     \/ /\ call = "none" /\ (Range(functors) \cup Range(pending)) \cap Raw = {}
        /\ held' = FALSE
  /\ UNCHANGED <<conn, socket, round, todo, pending, in_map, removals, server,
                 user, history>>

(* The user's thread: send() and shutdown() test state_, and what follows   *)
(* are steps of their own.                                                  *)
ForeignCall(k) ==
  /\ held /\ call = "none" /\ state_ = "connected"
  /\ calls < MaxCalls
  /\ calls' = calls + 1
  /\ call' = k
  /\ UNCHANGED <<conn, socket, round, todo, pending, owners, history>>

SetDisconnecting ==
  /\ call = "shutdown"
  /\ call' = "push"
  /\ state_' = "disconnecting"
  /\ UNCHANGED <<events_, chan, output_buffer_, socket, round, todo, pending,
                 owners, calls, history>>

PushCall ==
  /\ call \in {"send", "push"}
  /\ pending' = Append(pending, IF call = "send" THEN "send" ELSE "shutdown")
  /\ call' = "none"
  /\ UNCHANGED <<conn, socket, round, todo, owners, calls, history>>

-----------------------------------------------------------------------------
(* A round of the loop.                                                     *)

(* What epoll reports for the channel, level triggered.                     *)
Level ==
  (IF "read" \in events_ /\ (received \/ peer # "open") THEN {"IN"} ELSE {})
    \cup (IF peer = "reset" \/ (peer = "fin" /\ shut) THEN {"HUP"} ELSE {})
    \cup (IF err THEN {"ERR"} ELSE {})
    \cup (IF "write" \in events_ /\ Broken THEN {"OUT"} ELSE {})

(* The socket has room again.                                               *)
Writable == IF "write" \in events_ THEN {"OUT"} ELSE {}

(* Nothing is reported for a closed socket, or when others fill the array.  *)
Poll(report) ==
  /\ phase = "poll"
  /\ report # {} => alive /\ chan = "added"
  /\ report \in {{}, Level, Level \cup Writable}
  /\ revents_' = report
  /\ phase' = "events"
  /\ UNCHANGED <<conn, socket, functors, done, todo, pending, owners, user,
                 history>>

(* handleEventWithGuard(), as in module EpollPoller.  A channel that was    *)
(* destroyed since the poll is undefined behaviour.                         *)
HandleEvent ==
  /\ phase = "events" /\ todo = <<>> /\ revents_ # {}
  /\ revents_' = {}
  /\ undefined' = ~alive
  /\ todo' = (IF "HUP" \in revents_ /\ "IN" \notin revents_ THEN <<"close">> ELSE <<>>)
               \o (IF "ERR" \in revents_ THEN <<"error">> ELSE <<>>)
               \o <<"read">>
               \o (IF "OUT" \in revents_ THEN <<"write">> ELSE <<>>)
  /\ UNCHANGED <<conn, socket, phase, functors, done, pending, owners, user,
                 given, lost, notified, closed>>

SwapFunctors ==
  /\ phase = "events" /\ todo = <<>> /\ revents_ = {}
  /\ phase' = "functors"
  /\ functors' = pending
  /\ pending' = <<>>
  /\ UNCHANGED <<conn, socket, revents_, done, todo, owners, user, history>>

(* Mutant: the next batch is entered where this one ended.                  *)
EndRound_KeepsPlace ==
  /\ phase = "functors" /\ todo = <<>> /\ done = Len(functors)
  /\ phase' = "poll"
  /\ functors' = <<>>
  /\ UNCHANGED <<conn, socket, revents_, done, todo, pending, owners, user,
                 history>>

EndRound ==
  /\ phase = "functors" /\ todo = <<>> /\ done = Len(functors)
  /\ phase' = "poll"
  /\ functors' = <<>>
  /\ done' = 0
  /\ UNCHANGED <<conn, socket, revents_, todo, pending, owners, user, history>>

-----------------------------------------------------------------------------
(* Functors.  Turn(k): the next one of the batch is of kind k.              *)
Turn(k) ==
  /\ phase = "functors" /\ todo = <<>> /\ done < Len(functors)
  /\ functors[done + 1] = k
  /\ done' = done + 1
  /\ UNCHANGED <<phase, revents_, functors, owners, user, undefined>>

connEstablish ==
  /\ Turn("establish")
  /\ state_' = "connected"
  /\ UpdateChannel(events_ \cup {"read"})
  /\ Notify("up")
  /\ todo' = <<"user">>
  /\ UNCHANGED <<output_buffer_, socket, pending, given, lost, closed>>

(* connDestory(): the test of state_, and then the rest step by step.       *)
connDestory ==
  /\ Turn("destroy")
  /\ todo' = IF state_ = "connected" THEN <<"disconnect", "user", "remove">>
                                     ELSE <<"remove">>
  /\ UNCHANGED <<conn, socket, pending, given, lost, notified, closed>>

UserCallback ==
  /\ Turn("callback")
  /\ todo' = <<"user">>
  /\ UNCHANGED <<conn, socket, pending, given, lost, notified, closed>>

RunSend(k) ==
  /\ Turn("send")
  /\ sendInLoop(1, k)
  /\ UNCHANGED <<shut, peer, received, todo, notified, closed>>

RunShutdown ==
  /\ Turn("shutdown")
  /\ shutdownInLoop(events_)
  /\ UNCHANGED <<conn, wire, peer, received, err, todo, pending, given, lost,
                 notified, closed>>

-----------------------------------------------------------------------------
(* Handlers.  Op(k): what is next to do is k.                               *)
Op(k) == todo # <<>> /\ Head(todo) = k /\ UNCHANGED <<round, user>>

(* readv() returns 0: no data, no error, and the peer is gone.              *)
AtEnd == ~received /\ ~err /\ peer # "open"

(* Mutant: the channel goes on watching a closed connection.                *)
handleClose_StaysWatched ==
  /\ Op("close") \/ (Op("read") /\ AtEnd)
  /\ state_' = "disconnected"
  /\ Notify("down")
  /\ closed' = TRUE
  /\ todo' = <<"user", "close_callback">> \o Tail(todo)
  /\ UNCHANGED <<events_, chan, output_buffer_, socket, pending, owners, given,
                 lost, undefined>>

(* Mutant: the server is not told.                                          *)
handleClose_NotTold ==
  /\ Op("close") \/ (Op("read") /\ AtEnd)
  /\ state_' = "disconnected"
  /\ UpdateChannel({})
  /\ Notify("down")
  /\ closed' = TRUE
  /\ todo' = <<"user">> \o Tail(todo)
  /\ UNCHANGED <<output_buffer_, socket, pending, owners, given, lost,
                 undefined>>

(* handleClose(), for a hangup or called by handleRead().                   *)
handleClose ==
  /\ Op("close") \/ (Op("read") /\ AtEnd)
  /\ state_' = "disconnected"
  /\ UpdateChannel({})
  /\ Notify("down")
  /\ closed' = TRUE
  /\ todo' = <<"user", "close_callback">> \o Tail(todo)
  /\ UNCHANGED <<output_buffer_, socket, pending, owners, given, lost,
                 undefined>>

(* handleError() reads and clears SO_ERROR; handleRead() calls it when      *)
(* readv() fails, if only because there is nothing to read.                 *)
handleError ==
  /\ Op("error") \/ (Op("read") /\ ~received /\ ~AtEnd)
  /\ err' = FALSE
  /\ todo' = Tail(todo)
  /\ UNCHANGED <<conn, wire, shut, peer, received, pending, owners, history>>

(* handleRead() of data calls msg_callback_.                                *)
handleRead ==
  /\ Op("read") /\ received
  /\ received' = FALSE
  /\ todo' = <<"user">> \o Tail(todo)
  /\ UNCHANGED <<conn, wire, shut, peer, err, pending, owners, history>>

(* Mutant: the channel goes on watching for room when all is written.       *)
handleWrite_StaysWatched(n) ==
  /\ Op("write") /\ "write" \in events_ /\ ~Broken
  /\ n <= Len(output_buffer_)
  /\ wire' = wire \o SubSeq(output_buffer_, 1, n)
  /\ output_buffer_' = SubSeq(output_buffer_, n + 1, Len(output_buffer_))
  /\ PushIf(n = Len(output_buffer_))
  /\ todo' = Tail(todo)
  /\ UNCHANGED <<state_, events_, chan, shut, peer, received, err, owners,
                 history>>

(* handleWrite() of n bytes: EPOLLOUT means that there is room for some.    *)
handleWrite(n) ==
  /\ Op("write") /\ "write" \in events_ /\ ~Broken
  /\ n <= Len(output_buffer_)
  /\ wire' = wire \o SubSeq(output_buffer_, 1, n)
  /\ output_buffer_' = SubSeq(output_buffer_, n + 1, Len(output_buffer_))
  /\ PushIf(n = Len(output_buffer_))
  /\ IF n = Len(output_buffer_)
     THEN /\ UpdateChannel(events_ \ {"write"})
          /\ IF state_ = "disconnecting" THEN shutdownInLoop(events_')
                                         ELSE UNCHANGED shut
     ELSE UNCHANGED <<events_, chan, shut>>
  /\ todo' = Tail(todo)
  /\ UNCHANGED <<state_, peer, received, err, owners, history>>

(* handleWrite() with no interest in writing, or with a failing write.      *)
WriteNothing ==
  /\ Op("write") /\ ("write" \notin events_ \/ Broken)
  /\ err' = (err /\ "write" \notin events_)
  /\ todo' = Tail(todo)
  /\ UNCHANGED <<conn, wire, shut, peer, received, pending, owners, history>>

CallbackReturns ==
  /\ Op("user")
  /\ todo' = Tail(todo)
  /\ UNCHANGED <<conn, socket, pending, owners, history>>

(* close_callback_ is removeConnection() of the server, by its raw this.    *)
removeConnection ==
  /\ Op("close_callback")
  /\ todo' = Tail(todo)
  /\ undefined' = (server = "gone")
  /\ removals' = removals + 1
  /\ UNCHANGED <<conn, socket, pending, in_map, server, held, given, lost,
                 notified, closed>>

(* The rest of connDestory(): first the branch of a connected one.          *)
Disconnect ==
  /\ Op("disconnect")
  /\ state_' = "disconnected"
  /\ UpdateChannel({})
  /\ Notify("down")
  /\ closed' = TRUE
  /\ todo' = Tail(todo)
  /\ UNCHANGED <<output_buffer_, socket, pending, owners, given, lost,
                 undefined>>

(* Mutant: the channel is not removed.                                      *)
Remove_Skipped ==
  /\ Op("remove")
  /\ todo' = Tail(todo)
  /\ UNCHANGED <<conn, socket, pending, owners, history>>

Remove ==
  /\ Op("remove")
  /\ chan' = "initialized"
  /\ todo' = Tail(todo)
  /\ UNCHANGED <<state_, events_, output_buffer_, socket, pending, owners,
                 history>>

-----------------------------------------------------------------------------
(* The server, in the thread of the base loop.                              *)

removeConnectionInLoop ==
  /\ removals > 0
  /\ removals' = removals - 1
  /\ in_map' = FALSE
  /\ undefined' = (server = "gone")
  /\ pending' = Append(pending, "destroy")
  /\ UNCHANGED <<conn, socket, round, todo, server, held, user, given, lost,
                 notified, closed>>

(* The body of ~TcpServer().  That the pool is destroyed next, and stops    *)
(* the loop with what is pending, is not part of this module.               *)
DestroyServer ==
  /\ server = "up"
  /\ server' = "gone"
  /\ in_map' = FALSE
  /\ pending' = IF in_map THEN Append(pending, "destroy") ELSE pending
  /\ UNCHANGED <<conn, socket, round, todo, removals, held, user, history>>

(* The peer sends, closes or resets.                                        *)
PeerStep ==
  /\ \/ peer = "open" /\ received' = TRUE /\ UNCHANGED <<peer, err>>
     \/ peer = "open" /\ peer' = "fin" /\ UNCHANGED <<received, err>>
     \/ peer # "reset" /\ peer' = "reset" /\ err' = TRUE /\ UNCHANGED received
  /\ UNCHANGED <<conn, wire, shut, round, todo, pending, owners, user, history>>

-----------------------------------------------------------------------------
(* What the loop's thread does by itself.                                   *)
LoopStep ==
  \/ HandleEvent \/ SwapFunctors \/ EndRound
  \/ connEstablish \/ connDestory \/ UserCallback \/ RunShutdown
  \/ \E k \in 0 .. 1 : RunSend(k)
  \/ handleClose \/ handleError \/ handleRead \/ WriteNothing
  \/ \E n \in 1 .. Len(output_buffer_) : handleWrite(n)
  \/ CallbackReturns \/ removeConnection \/ Disconnect \/ Remove

FinishCall == SetDisconnecting \/ PushCall

UserStep ==
  \/ \E len \in 1 .. MaxBytes : \E k \in 0 .. len : Send(len, k)
  \/ Shutdown
  \/ KeepOrDrop
  \/ \E k \in {"send", "shutdown"} : ForeignCall(k)

Next ==
  /\ ~undefined
  /\ \/ LoopStep
     \/ \E report \in {{}, Level, Level \cup Writable} : Poll(report)
     \/ UserStep
     \/ FinishCall
     \/ removeConnectionInLoop
     \/ DestroyServer
     \/ PeerStep

Spec == Init /\ [][Next]_vars

(* The loop, the base loop and the user's thread are scheduled; a loop that *)
(* polls again and again is told of a ready descriptor; a socket that is    *)
(* not broken has room again and again.                                     *)
Fairness ==
  /\ WF_vars(~undefined /\ LoopStep)
  /\ WF_vars(~undefined /\ FinishCall)
  /\ WF_vars(~undefined /\ removeConnectionInLoop)
  /\ WF_vars(~undefined /\ Poll({}))
  /\ SF_vars(~undefined /\ Level # {} /\ Poll(Level))
  /\ SF_vars(~undefined /\ Writable # {} /\ Poll(Level \cup Writable))

FairSpec == Spec /\ Fairness

-----------------------------------------------------------------------------
(* Properties.                                                              *)

(* Bytes reach the socket in the order sendInLoop() took them and none is   *)
(* lost on the way, whether written at once, buffered or both, until the    *)
(* socket breaks.                                                           *)
BytesInOrder == ~lost => wire \o output_buffer_ = [i \in 1 .. given |-> i]

(* The channel asks for room in the socket exactly while bytes are waiting: *)
(* no busy loop, and no byte left without interest until the end of the     *)
(* connection.  It speaks of events_: connDestory() of a connection that is *)
(* not connected removes the channel and leaves events_ as it was.          *)
WriteInterest ==
  /\ "write" \in events_ => output_buffer_ # <<>>
  /\ output_buffer_ # <<>> /\ ~closed => "write" \in events_

(* To its peer the connection is a stream of bytes with one end: whichever  *)
(* thread sends or shuts down, the peer sees a prefix of what sendInLoop()  *)
(* took, also once the socket is broken, shutdownWrite() cuts off no byte   *)
(* that is waiting, and nothing is written after it.                        *)
Stream == INSTANCE ByteStream WITH
            Lengths <- (1 .. MaxBytes) \cup {1}, taken <- given, delivered <- wire,
            failed <- closed \/ lost, finished <- shut

ImplementsStream == Stream!StreamSpec

(* As long as no other thread has called send() or shutdown() (the loop's   *)
(* own may), conn_callback_ is told of the connection once and of its end   *)
(* at most once.                                                            *)
NotifiedOnce == calls = 0 => notified \in {<<>>, <<"up">>, <<"up", "down">>}

(* Then, too, no channel is destroyed while epoll holds a pointer to it,    *)
(* whoever drops the last reference and whenever the server goes.  A call   *)
(* of another thread that comes after connDestory() breaks this.            *)
WatchedIsAlive == calls = 0 /\ chan = "added" => alive

(* What is buffered is written while the connection and the server last.    *)
BufferedIsWritten ==
  (output_buffer_ # <<>>)
    ~> (output_buffer_ = <<>> \/ closed \/ server = "gone" \/ undefined)

(* A connection whose peer has closed or reset it is freed, once user code  *)
(* has dropped its references.                                              *)
ClosedIsFreed == (peer # "open") ~> (~alive \/ held \/ calls > 0 \/ undefined)

(* What example/test_server.cc:28-38 says of the connection callback, that  *)
(* it is called when a connection is set up and when it is taken down: a    *)
(* connection that is gone was reported both ways.                          *)
EndIsReported == ~alive => notified = <<"up", "down">>
=============================================================================
