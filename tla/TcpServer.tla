------------------------------ MODULE TcpServer ------------------------------
(****************************************************************************)
(* TcpServer, Acceptor and EventLoopThreadPool (src/src/tcp_server.cc,      *)
(* acceptor.cc, eventloop_threadpool.cc): connections are accepted in the   *)
(* thread of the base loop, served by the loops of the pool in turn, closed *)
(* there, erased by the base loop and destroyed in their own loop again;    *)
(* and the server may be destroyed at any moment of this.                   *)
(*                                                                          *)
(* Loop 0 is the base loop.  Without a pool it serves the connections, too, *)
(* and runLoopCallback() of its own thread calls at once.  A loop is the    *)
(* one of module EventLoop: that it wakes up for a functor is shown there.  *)
(* A connection is reduced to what module TcpConnection shows of it.  User  *)
(* code keeps no connection, and calls the server from the base thread,     *)
(* also inside conn_callback_: there handleClose() and the acceptor's       *)
(* handleRead() are suspended and may return to a server that is gone.      *)
(* Only start() may also be called by another thread.                       *)
(****************************************************************************)
EXTENDS Naturals, Sequences, FiniteSets, Functions

CONSTANTS
  MaxThreads,     \* bound: what setThreadPoolSize() is given
  MaxConns,       \* bound: clients that connect
  MaxFds          \* bound: descriptors the process has for connections

ASSUME BoundsAssumption == {MaxThreads, MaxConns, MaxFds} \subseteq Nat

VARIABLES
  (* the server, its acceptor and its pool *)
  server,         \* "none", "up", "body" and "pool" of ~TcpServer(), "gone"
  joining,        \* the thread the destructor of the pool is at
  quitting,       \* quit() has been called for it
  started_,
  thread_num_,
  pool,           \* loops_.size()
  next_,
  next_conn_id_,
  connections_,
  listenning_,
  backlog,        \* clients the kernel has connected
  (* the loops *)
  phase,
  quit_,
  pending,        \* functors pushed
  functors,       \* the batch of the round
  done,           \* how many of the batch have been called
  active,         \* channels reported in the round and not handled yet
  inside,         \* the one whose handler is in the user's conn_callback_
  (* the connections *)
  io_loop,
  state_,
  watched,        \* the channel is registered
  fin,            \* the peer has closed
  limit,          \* descriptors that are left for connections
  (* history *)
  told,           \* what conn_callback_ was told of each connection
  dropped,        \* connections whose connDestory() was dropped
  exposed,        \* the base loop may have known the server it outlived
  undefined       \* a destroyed object was used

setup == <<started_, thread_num_, pool>>
teardown == <<joining, quitting>>
turns == <<next_, next_conn_id_>>
serverVars == <<server, setup, teardown, turns, connections_, listenning_>>
events == <<active, inside>>
loopVars == <<phase, quit_, pending, functors, done, events>>
connVars == <<io_loop, state_, watched, told>>
history == <<dropped, exposed, undefined>>
env == <<fin, limit>>
vars == <<serverVars, backlog, loopVars, connVars, env, history>>

Loops == 0 .. MaxThreads
Conns == 1 .. MaxConns

(* Channel 0 of the base loop is the acceptor's.                            *)
Accept == 0

Functor == [op : {"listen", "establish", "remove", "destroy"},
            conn : Conns \cup {Accept}]

(* Every variable stays in its type.                                        *)
TypeOK ==
  /\ server \in {"none", "up", "body", "pool", "gone", "fatal"}
  /\ joining \in 1 .. MaxThreads + 1
  /\ {thread_num_, pool} \subseteq Loops
  /\ next_ \in Loops /\ (next_ > 0 => next_ < pool)
  /\ next_conn_id_ \in 1 .. MaxConns + 1
  /\ connections_ \subseteq Conns
  /\ backlog \in 0 .. MaxConns
  /\ phase \in [Loops -> {"none", "new", "poll", "events", "functors", "left"}]
  /\ quit_ \in [Loops -> BOOLEAN]
  /\ {pending[l] : l \in Loops} \cup {functors[l] : l \in Loops} \subseteq Seq(Functor)
  /\ \A l \in Loops : done[l] \in 0 .. Len(functors[l])
  /\ {active, inside} \subseteq [Loops -> SUBSET (Conns \cup {Accept})]
  /\ io_loop \in [Conns -> Loops]
  /\ state_ \in [Conns -> {"connecting", "connected", "disconnecting", "disconnected"}]
  /\ {watched, fin} \subseteq [Conns -> BOOLEAN] /\ limit \in 1 .. MaxFds
  /\ told \in [Conns -> Seq({"up", "down"})]
  /\ dropped \subseteq Conns
  /\ {quitting, started_, listenning_, exposed, undefined} \subseteq BOOLEAN

Init ==
  /\ server = "none" /\ joining = 1 /\ quitting = FALSE
  /\ started_ = FALSE /\ thread_num_ = 0 /\ pool = 0 /\ next_ = 0
  /\ next_conn_id_ = 1 /\ connections_ = {}
  /\ listenning_ = FALSE /\ backlog = 0
  /\ phase = [l \in Loops |-> IF l = 0 THEN "new" ELSE "none"]
  /\ quit_ = [l \in Loops |-> FALSE]
  /\ pending = [l \in Loops |-> <<>>]
  /\ functors = [l \in Loops |-> <<>>]
  /\ done = [l \in Loops |-> 0]
  /\ active = [l \in Loops |-> {}]
  /\ inside = [l \in Loops |-> {}]
  /\ io_loop = [c \in Conns |-> 0]
  /\ state_ = [c \in Conns |-> "connecting"]
  /\ watched = [c \in Conns |-> FALSE]
  /\ fin = [c \in Conns |-> FALSE] /\ limit \in 1 .. MaxFds
  /\ told = [c \in Conns |-> <<>>]
  /\ dropped = {} /\ exposed = FALSE /\ undefined = FALSE

-----------------------------------------------------------------------------
(* The TcpConnectionPtr's: the map and every functor holds one, a batch     *)
(* until the end of its round, and so does a handleClose().                 *)
Held(l) == {f.conn : f \in Range(pending[l]) \cup Range(functors[l])} \cup inside[l]

alive == connections_ \cup UNION {Held(l) : l \in Loops}

(* Sockets are closed with their connections.                               *)
FdFree == Cardinality(alive \ {Accept}) < limit

(* The base thread executes user code or loop(), and not the destructor.    *)
BaseFree == server \notin {"body", "pool"}

(* The base thread is in user code, outside loop() or in a callback: of the *)
(* handler it is inside, for a message, or in a functor.                    *)
InUserCode == BaseFree /\ phase[0] \in {"new", "events", "functors", "left"}

Push(l, op, c) ==
  pending' = [pending EXCEPT ![l] = Append(@, [op |-> op, conn |-> c])]

connEstablish(c) ==
  /\ state_' = [state_ EXCEPT ![c] = "connected"]
  /\ watched' = [watched EXCEPT ![c] = TRUE]
  /\ told' = [told EXCEPT ![c] = Append(@, "up")]

(* Mutant: the user is told without regard to state_.                       *)
connDestory_Untested(c) ==
  /\ state_' = [state_ EXCEPT ![c] = "disconnected"]
  /\ told' = [told EXCEPT ![c] = Append(@, "down")]
  /\ watched' = [watched EXCEPT ![c] = FALSE]

connDestory(c) ==
  /\ IF state_[c] = "connected"
     THEN /\ state_' = [state_ EXCEPT ![c] = "disconnected"]
          /\ told' = [told EXCEPT ![c] = Append(@, "down")]
     ELSE UNCHANGED <<state_, told>>
  /\ watched' = [watched EXCEPT ![c] = FALSE]

-----------------------------------------------------------------------------
(* Set-up.                                                                  *)

(* bindAddress() or listen() of the socket: failing, it ends the process.   *)
SocketCall == server' \in {"up", "fatal"}

(* The acceptor has its socket, bound and not yet listening.                *)
CreateAcceptor == SocketCall /\ UNCHANGED listenning_

Construct ==
  /\ server = "none"
  /\ CreateAcceptor
  /\ UNCHANGED <<teardown, setup, turns, connections_, backlog, loopVars,
                 connVars, env, history>>

(* Only start() reads thread_num_: calls after it are left out.             *)
setThreadPoolSize(n) ==
  /\ server = "up" /\ ~started_ /\ InUserCode
  /\ thread_num_' = n
  /\ UNCHANGED <<server, teardown, started_, pool, turns, connections_,
                 listenning_, backlog, loopVars, connVars, env, history>>

(* EventLoopThreadPool::start(): when startLoop() has returned, the loop is *)
(* there and its thread need not have entered loop().                       *)
StartThreads ==
  /\ pool' = thread_num_
  /\ phase' = [l \in Loops |-> IF l \in 1 .. thread_num_ THEN "new" ELSE phase[l]]

listen == listenning_' = TRUE /\ SocketCall

(* start(), for the first time: later calls do nothing.                     *)
Start ==
  /\ server = "up" /\ ~started_
  /\ started_' = TRUE
  /\ StartThreads
  /\ \/ InUserCode /\ listen /\ UNCHANGED pending
     \/ Push(0, "listen", Accept) /\ UNCHANGED <<server, listenning_>>
  /\ UNCHANGED <<teardown, thread_num_, turns, connections_, backlog, quit_,
                 functors, done, events, connVars, env, history>>

-----------------------------------------------------------------------------
(* A round of loop l.                                                       *)

Runs(l) == l = 0 => BaseFree

(* loop() begins with quit_ = false.                                        *)
EnterLoop(l) ==
  /\ phase[l] = "new" /\ Runs(l)
  /\ phase' = [phase EXCEPT ![l] = "poll"]
  /\ quit_' = [quit_ EXCEPT ![l] = FALSE]
  /\ UNCHANGED <<serverVars, backlog, pending, functors, done, events,
                 connVars, env, history>>

(* What epoll reports, level triggered; input is left out.  The array has   *)
(* room for all of it, or grows until it has: see module EpollPoller.       *)
Ready(l) ==
  {c \in Conns : io_loop[c] = l /\ watched[c] /\ fin[c]}
    \cup (IF l = 0 /\ listenning_ /\ backlog > 0 THEN {Accept} ELSE {})

Poll(l) ==
  /\ phase[l] = "poll" /\ Runs(l)
  /\ phase' = [phase EXCEPT ![l] = "events"]
  /\ active' = [active EXCEPT ![l] = Ready(l)]
  /\ UNCHANGED <<serverVars, backlog, quit_, pending, functors, done, inside,
                 connVars, env, history>>

SwapFunctors(l) ==
  /\ phase[l] = "events" /\ Runs(l) /\ active[l] = {} /\ inside[l] = {}
  /\ phase' = [phase EXCEPT ![l] = "functors"]
  /\ functors' = [functors EXCEPT ![l] = pending[l]]
  /\ pending' = [pending EXCEPT ![l] = <<>>]
  /\ UNCHANGED <<serverVars, backlog, quit_, done, events, connVars, env,
                 history>>

(* while (!quit_).  The loop of a pool thread is destroyed when it returns, *)
(* with what was pushed since the swap.                                     *)
EndRound(l) ==
  /\ phase[l] = "functors" /\ Runs(l) /\ done[l] = Len(functors[l])
  /\ functors' = [functors EXCEPT ![l] = <<>>]
  /\ done' = [done EXCEPT ![l] = 0]
  /\ phase' = [phase EXCEPT ![l] = IF quit_[l] THEN "left" ELSE "poll"]
  /\ IF quit_[l] /\ l # 0
     THEN /\ pending' = [pending EXCEPT ![l] = <<>>]
          /\ dropped' = dropped \cup
                          {f.conn : f \in {g \in Range(pending[l]) : g.op = "destroy"}}
     ELSE UNCHANGED <<pending, dropped>>
  /\ UNCHANGED <<serverVars, backlog, quit_, events, connVars, env,
                 exposed, undefined>>

-----------------------------------------------------------------------------
(* Accepting.                                                               *)

(* Mutant: the next thread is not taken modulo their number.                *)
getNextLoop_NoWrap(l) ==
  /\ l = IF pool = 0 THEN 0 ELSE next_ + 1
  /\ next_' = IF pool = 0 THEN next_ ELSE next_ + 1

(* Mutant: the next thread is never moved on.                               *)
getNextLoop_Stays(l) ==
  /\ l = IF pool = 0 THEN 0 ELSE next_ + 1
  /\ next_' = next_

(* l is the next loop, in turn; loops_[i] is loop i + 1.                    *)
getNextLoop(l) ==
  /\ l = IF pool = 0 THEN 0 ELSE next_ + 1
  /\ next_' = IF pool = 0 THEN next_ ELSE (next_ + 1) % pool

(* The connection is named after next_conn_id_.                             *)
newConnection(l) ==
  LET c == next_conn_id_ IN
  /\ getNextLoop(l)
  /\ next_conn_id_' = next_conn_id_ + 1
  /\ connections_' = connections_ \cup {c}
  /\ io_loop' = [io_loop EXCEPT ![c] = l]
  /\ IF l = 0 THEN connEstablish(c) /\ UNCHANGED pending
     ELSE Push(l, "establish", c) /\ UNCHANGED <<state_, watched, told>>

(* The user's conn_callback_ has returned to the handler of channel x.      *)
Returns(l, x) ==
  /\ Runs(l) /\ x \in inside[l]
  /\ inside' = [inside EXCEPT ![l] = {}]
  /\ UNCHANGED <<phase, quit_, functors, done, active, env, dropped, exposed>>

(* Loop l handles channel x of its round.  A channel that was destroyed     *)
(* since the poll is undefined behaviour.                                   *)
Handle(l, x) ==
  /\ phase[l] = "events" /\ Runs(l) /\ inside[l] = {} /\ x \in active[l]
  /\ active' = [active EXCEPT ![l] = @ \ {x}]
  /\ UNCHANGED <<phase, quit_, functors, done, env, dropped, exposed>>

(* accept() and newConnection().  Without a pool the user's callback runs   *)
(* in connEstablish() (line 148), inside handleRead().                      *)
Accepted ==
  /\ \E l \in Loops : newConnection(l)
  /\ backlog' = backlog - 1
  /\ inside' = IF pool = 0 THEN [inside EXCEPT ![0] = {Accept}] ELSE inside

(* Mutant: the acceptor gives up at the limit of descriptors.               *)
handleRead_GivesUp ==
  /\ Handle(0, Accept)
  /\ server = "up"
  /\ IF FdFree THEN Accepted /\ UNCHANGED listenning_
     ELSE listenning_' = FALSE
          /\ UNCHANGED <<turns, connections_, pending, inside, connVars, backlog>>
  /\ UNCHANGED <<server, teardown, setup, undefined>>

(* Acceptor::handleRead().  At the limit of descriptors accept() fails, and *)
(* the client stays in the backlog.                                         *)
handleRead ==
  /\ Handle(0, Accept)
  /\ server = "up"
  /\ IF FdFree THEN Accepted
     ELSE UNCHANGED <<turns, connections_, pending, inside, connVars, backlog>>
  /\ UNCHANGED <<server, teardown, setup, listenning_, undefined>>

(* handleRead() returns to handleEventWithGuard() of the acceptor's channel,*)
(* which goes on to test revents_.                                          *)
AcceptReturns ==
  /\ Returns(0, Accept)
  /\ undefined' = (server = "gone")
  /\ UNCHANGED <<serverVars, backlog, pending, connVars>>

(* A channel of the round is gone.                                          *)
HandleDestroyed(l, x) ==
  /\ Handle(l, x)
  /\ IF x = Accept THEN server = "gone" ELSE x \notin alive
  /\ undefined' = TRUE
  /\ UNCHANGED <<serverVars, backlog, pending, inside, connVars>>

-----------------------------------------------------------------------------
(* Closing.                                                                 *)

(* Mutant: the connection stays in the map.                                 *)
removeConnectionInLoop_Keeps(c) ==
  /\ Push(io_loop[c], "destroy", c)
  /\ UNCHANGED connections_

(* removeConnectionInLoop(), in the base thread.                            *)
removeConnectionInLoop(c) ==
  /\ connections_' = connections_ \ {c}
  /\ Push(io_loop[c], "destroy", c)

(* handleClose() up to the user's callback, which it keeps the connection   *)
(* for.                                                                     *)
handleClose(l, c) ==
  /\ Handle(l, c)
  /\ c \in alive
  /\ inside' = [inside EXCEPT ![l] = {c}]
  /\ state_' = [state_ EXCEPT ![c] = "disconnected"]
  /\ watched' = [watched EXCEPT ![c] = FALSE]
  /\ told' = [told EXCEPT ![c] = Append(@, "down")]
  /\ UNCHANGED <<serverVars, backlog, pending, io_loop, undefined>>

(* close_callback_, which is removeConnection() of the server, by its raw   *)
(* this.  Until its destructor has returned the server is there to be asked *)
(* for loop_.                                                               *)
removeConnection(l, c) ==
  /\ Returns(l, c)
  /\ undefined' = (server = "gone")
  /\ IF l = 0 THEN removeConnectionInLoop(c)
     ELSE Push(0, "remove", c) /\ UNCHANGED connections_
  /\ UNCHANGED <<server, teardown, setup, turns, listenning_, backlog, connVars>>

(* A callback in the thread of its loop sends or shuts down.  As module     *)
(* TcpConnection shows, send() leaves kDisconnected (line 75) and           *)
(* shutdown() kDisconnecting; here all that counts is that the connection   *)
(* is no longer connected, and "disconnecting" stands for both.             *)
SendOrShutdown(c) ==
  /\ phase[io_loop[c]] \in {"events", "functors"} /\ Runs(io_loop[c])
  /\ c \in alive /\ state_[c] = "connected"
  /\ state_' = [state_ EXCEPT ![c] = "disconnecting"]
  /\ UNCHANGED <<serverVars, backlog, loopVars, io_loop, watched, told, env,
                 dropped, exposed, undefined>>

-----------------------------------------------------------------------------
(* Functors.  Turn(l, op, c): it is the turn of that functor in loop l.     *)
Turn(l, op, c) ==
  /\ phase[l] = "functors" /\ Runs(l) /\ done[l] < Len(functors[l])
  /\ functors[l][done[l] + 1] = [op |-> op, conn |-> c]
  /\ done' = [done EXCEPT ![l] = @ + 1]
  /\ UNCHANGED <<teardown, setup, turns, backlog, phase, quit_, functors,
                 events, io_loop, env, dropped, exposed>>

(* listen() and removeConnectionInLoop() hold a raw pointer to the acceptor *)
(* or the server.                                                           *)
RunListen ==
  /\ Turn(0, "listen", Accept)
  /\ undefined' = (server = "gone")
  /\ IF server = "gone" THEN UNCHANGED <<server, listenning_>> ELSE listen
  /\ UNCHANGED <<connections_, pending, state_, watched, told>>

RunRemove(c) ==
  /\ Turn(0, "remove", c)
  /\ undefined' = (server = "gone")
  /\ removeConnectionInLoop(c)
  /\ UNCHANGED <<server, listenning_, state_, watched, told>>

RunEstablish(l, c) ==
  /\ Turn(l, "establish", c)
  /\ connEstablish(c)
  /\ UNCHANGED <<server, listenning_, connections_, pending, undefined>>

RunDestroy(l, c) ==
  /\ Turn(l, "destroy", c)
  /\ connDestory(c)
  /\ UNCHANGED <<server, listenning_, connections_, pending, undefined>>

-----------------------------------------------------------------------------
(* The base loop is going on and may be left with a raw pointer: there are  *)
(* threads that push removals, channels of the round to be handled or       *)
(* returned to, or a listen().                                              *)
KnownToBase ==
  /\ phase[0] # "left"
  /\ \/ pool > 0
     \/ active[0] \cup inside[0] # {}
     \/ \E f \in Range(pending[0]) \cup Range(functors[0]) : f.op = "listen"

(* ~TcpServer(), by the base thread: the connections, then the threads of   *)
(* the pool one by one, then the acceptor.                                  *)
StartDtor ==
  /\ server = "up" /\ InUserCode
  /\ server' = "body"
  /\ exposed' = KnownToBase
  /\ UNCHANGED <<teardown, setup, turns, connections_, listenning_, backlog,
                 loopVars, connVars, env, dropped, undefined>>

DestroyConnection(c) ==
  /\ server = "body" /\ c \in connections_
  /\ connections_' = connections_ \ {c}
  /\ IF io_loop[c] = 0 THEN connDestory(c) /\ UNCHANGED pending
     ELSE Push(io_loop[c], "destroy", c) /\ UNCHANGED <<state_, watched, told>>
  /\ UNCHANGED <<server, teardown, setup, turns, listenning_, backlog, phase,
                 quit_, functors, done, events, io_loop, env, history>>

EndBody ==
  /\ server = "body" /\ connections_ = {}
  /\ server' = "pool"
  /\ UNCHANGED <<teardown, setup, turns, connections_, listenning_, backlog,
                 loopVars, connVars, env, history>>

(* Mutant: a thread is joined without being told to stop.                   *)
QuitThread_Unsaid ==
  /\ server = "pool" /\ joining <= pool /\ ~quitting
  /\ quitting' = TRUE
  /\ UNCHANGED <<server, joining, setup, turns, connections_, listenning_,
                 backlog, loopVars, connVars, env, history>>

(* ~EventLoopThread() of thread joining: quit() and join().                 *)
QuitThread ==
  /\ server = "pool" /\ joining <= pool /\ ~quitting
  /\ quitting' = TRUE
  /\ quit_' = [quit_ EXCEPT ![joining] = TRUE]
  /\ UNCHANGED <<server, joining, setup, turns, connections_, listenning_,
                 backlog, phase, pending, functors, done, events, connVars, env,
                 history>>

(* Mutant: the thread is not waited for.                                    *)
JoinThread_Detaches ==
  /\ quitting
  /\ quitting' = FALSE
  /\ joining' = joining + 1
  /\ UNCHANGED <<server, setup, turns, connections_, listenning_, backlog,
                 loopVars, connVars, env, history>>

JoinThread ==
  /\ quitting /\ phase[joining] = "left"
  /\ quitting' = FALSE
  /\ joining' = joining + 1
  /\ UNCHANGED <<server, setup, turns, connections_, listenning_, backlog,
                 loopVars, connVars, env, history>>

(* ~Acceptor() removes its channel and closes the socket.                   *)
DestroyAcceptor ==
  /\ server = "pool" /\ joining > pool
  /\ server' = "gone"
  /\ listenning_' = FALSE
  /\ backlog' = 0
  /\ UNCHANGED <<teardown, setup, turns, connections_, loopVars, connVars, env,
                 history>>

-----------------------------------------------------------------------------
(* User code stops the base loop; it is entered once.                       *)
QuitBase ==
  /\ BaseFree /\ phase[0] \in {"events", "functors"}
  /\ quit_' = [quit_ EXCEPT ![0] = TRUE]
  /\ UNCHANGED <<serverVars, backlog, phase, pending, functors, done, events,
                 connVars, env, history>>

(* Clients connect and close.                                               *)
Connect ==
  /\ listenning_ /\ next_conn_id_ + backlog <= MaxConns
  /\ backlog' = backlog + 1
  /\ UNCHANGED <<serverVars, loopVars, connVars, env, history>>

PeerClose(c) ==
  /\ c \in alive /\ ~fin[c]
  /\ fin' = [fin EXCEPT ![c] = TRUE]
  /\ UNCHANGED <<serverVars, backlog, loopVars, connVars, limit, history>>

-----------------------------------------------------------------------------
(* What the thread of loop l does by itself.                                *)
LoopStep(l) ==
  \/ Poll(l)
  \/ SwapFunctors(l)
  \/ EndRound(l)
  \/ l = 0 /\ \/ handleRead \/ AcceptReturns \/ RunListen
              \/ \E c \in Conns : RunRemove(c)
  \/ l # 0 /\ EnterLoop(l)
  \/ \E x \in Conns \cup {Accept} : HandleDestroyed(l, x)
  \/ \E c \in Conns : \/ handleClose(l, c) \/ removeConnection(l, c)
                      \/ RunEstablish(l, c) \/ RunDestroy(l, c)

DtorStep ==
  \/ \E c \in Conns : DestroyConnection(c)
  \/ EndBody \/ QuitThread \/ JoinThread \/ DestroyAcceptor

UserStep ==
  \/ Construct \/ Start \/ StartDtor \/ QuitBase \/ EnterLoop(0)
  \/ \E n \in Loops : setThreadPoolSize(n)
  \/ \E c \in Conns : SendOrShutdown(c)

Environment == Connect \/ \E c \in Conns : PeerClose(c)

Ends == undefined \/ server = "fatal"

Next ==
  /\ ~Ends
  /\ \/ \E l \in Loops : LoopStep(l)
     \/ DtorStep
     \/ UserStep
     \/ Environment

Spec == Init /\ [][Next]_vars

(* Threads are scheduled and callbacks return; epoll_wait returns for what  *)
(* is ready, for a wakeup or after its timeout.                             *)
Fairness ==
  /\ WF_vars(~Ends /\ (LoopStep(0) \/ DtorStep))
  /\ \A l \in 1 .. MaxThreads : WF_vars(~Ends /\ LoopStep(l))

FairSpec == Spec /\ Fairness

-----------------------------------------------------------------------------
(* Properties.                                                              *)

(* A server leaves nothing dangling when it is destroyed after the base     *)
(* loop has left loop(), whatever the pool is doing meanwhile, or without a *)
(* pool when the base loop has no channel of its round to handle or to      *)
(* return to, as it has inside conn_callback_, and no listen() to call: no  *)
(* loop follows a pointer to a server, acceptor or connection that is gone  *)
(* (tcp_server.cc:38-44, tcp_connection.cc:224, channel.cc:116-139).        *)
NoUseAfterFree == undefined => exposed

(* However a close by the peer races the removal and the destructor, the    *)
(* user is told once that a connection is up and at most once that it is    *)
(* down; and when the server is gone, of every end, but for connections     *)
(* that sent or were shut down (line 75 of tcp_connection.cc) and those     *)
(* whose connDestory() was dropped by a loop that stopped.                  *)
ReportedOnce ==
  \A c \in Conns :
    /\ told[c] \in {<<>>, <<"up">>, <<"up", "down">>}
    /\ server = "gone" /\ c \notin dropped /\ state_[c] # "disconnecting"
         => told[c] # <<"up">>

(* getNextLoop() deals the connections out evenly over the threads of the   *)
(* pool, counting all they were ever given: whichever have ended since.     *)
Served(l) == Cardinality({c \in 1 .. next_conn_id_ - 1 : io_loop[c] = l})

Balanced == \A l, m \in 1 .. pool : Served(l) <= Served(m) + 1

(* A connection whose peer has closed is erased and freed, through its own  *)
(* loop, the base loop and its own loop again, while server and base loop   *)
(* go on, even when the acceptor is at the limit of descriptors.  A freed   *)
(* connection never comes back, so this is one of each of them.             *)
Serving == server = "up" /\ phase[0] \notin {"new", "left"} /\ ~Ends

ClosedIsErased == []<>(Serving => \A c \in alive \ {Accept} : ~fin[c])

(* A client in the backlog is accepted once a descriptor is free and stays  *)
(* free, also when accept() has failed for it before.                       *)
WaitingIsAccepted == []<>(Serving => backlog = 0 \/ ~FdFree)

(* The destructor of the server returns, having stopped and joined every    *)
(* thread of the pool, if all of them had entered loop() before.            *)
ServerDtorReturns ==
  (server = "body" /\ \A l \in 1 .. pool : phase[l] # "new")
    ~> (server = "gone" \/ Ends)
=============================================================================
