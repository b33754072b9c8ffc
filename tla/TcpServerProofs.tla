-------------------------- MODULE TcpServerProofs ----------------------------
(****************************************************************************)
(* Proofs about TcpServer, for every number of threads, connections and     *)
(* descriptors: the types, and the spreading of connections over the pool.  *)
(****************************************************************************)
EXTENDS TcpServer, SequenceTheorems, FiniteSetTheorems, TLAPS

USE DEF setup, teardown, turns, serverVars, events, loopVars, connVars, history, env

LEMMA Bounds ==
  /\ MaxThreads \in Nat /\ MaxConns \in Nat /\ MaxFds \in Nat
  /\ 0 \in Loops /\ Loops \subseteq Nat /\ Conns \subseteq Nat /\ Accept \notin Conns
  BY BoundsAssumption DEF Loops, Conns, Accept

-----------------------------------------------------------------------------
(* The types in parts.  Beyond TypeOK, a batch is only there to be called   *)
(* while the functors of its round are, and every functor but listen() is   *)
(* of a connection.                                                         *)
ServerTyped ==
  /\ server \in {"none", "up", "body", "pool", "gone", "fatal"}
  /\ joining \in 1 .. MaxThreads + 1
  /\ thread_num_ \in Loops /\ pool \in Loops
  /\ next_ \in Loops /\ (next_ > 0 => next_ < pool)
  /\ next_conn_id_ \in 1 .. MaxConns + 1
  /\ connections_ \subseteq Conns
  /\ backlog \in 0 .. MaxConns
  /\ limit \in 1 .. MaxFds
  /\ dropped \subseteq Conns

Flags ==
  /\ quitting \in BOOLEAN /\ started_ \in BOOLEAN /\ listenning_ \in BOOLEAN
  /\ exposed \in BOOLEAN /\ undefined \in BOOLEAN

Phases == {"none", "new", "poll", "events", "functors", "left"}

Rounds ==
  /\ phase \in [Loops -> Phases]
  /\ quit_ \in [Loops -> BOOLEAN]
  /\ active \in [Loops -> SUBSET (Conns \cup {Accept})]
  /\ inside \in [Loops -> SUBSET (Conns \cup {Accept})]

Calls == {f \in Functor : f.op = "listen" \/ f.conn \in Conns}

Queues ==
  /\ pending \in [Loops -> Seq(Calls)]
  /\ functors \in [Loops -> Seq(Calls)]
  /\ done \in [Loops -> Nat]
  /\ \A l \in Loops : /\ done[l] <= Len(functors[l])
                      /\ phase[l] # "functors" => done[l] = 0

States == {"connecting", "connected", "disconnecting", "disconnected"}

ConnsTyped ==
  /\ io_loop \in [Conns -> Loops]
  /\ state_ \in [Conns -> States]
  /\ watched \in [Conns -> BOOLEAN]
  /\ fin \in [Conns -> BOOLEAN]
  /\ told \in [Conns -> Seq({"up", "down"})]

(* There is a connection for each client the kernel has connected, and one  *)
(* of them waits when the acceptor's channel is reported.                   *)
Clients ==
  /\ next_conn_id_ + backlog <= MaxConns + 1
  /\ Accept \in active[0] /\ server = "up" => backlog > 0

(* Before start() there is no pool, no connection and nothing to do.        *)
Unstarted ==
  /\ server = "none" => ~started_
  /\ ~started_ =>
       /\ pool = 0 /\ next_conn_id_ = 1 /\ ~listenning_ /\ connections_ = {}
       /\ \A l \in Loops : /\ pending[l] = <<>> /\ functors[l] = <<>>
                           /\ active[l] = {} /\ inside[l] = {}
       /\ \A c \in Conns : ~watched[c]

(* The destructor joins a thread of the pool.                               *)
Joining == quitting => server = "pool" /\ joining <= pool

Typed ==
  /\ ServerTyped /\ Flags /\ Rounds /\ Queues /\ ConnsTyped
  /\ Clients /\ Unstarted /\ Joining

LEMMA TypedIsType == Typed => TypeOK
<1> SUFFICES ASSUME Typed PROVE TypeOK
  OBVIOUS
<1>1. {quitting, started_, listenning_, exposed, undefined} \subseteq BOOLEAN
  BY DEF Typed, Flags
<1>2. /\ {pending[l] : l \in Loops} \cup {functors[l] : l \in Loops} \subseteq Seq(Functor)
      /\ \A l \in Loops : done[l] \in 0 .. Len(functors[l])
  <2>1. ASSUME NEW l \in Loops
        PROVE  pending[l] \in Seq(Functor) /\ functors[l] \in Seq(Functor)
    <3>1. pending[l] \in Seq(Calls) /\ functors[l] \in Seq(Calls)
      BY DEF Typed, Queues
    <3>2. Calls \subseteq Functor
      BY DEF Calls
    <3> QED
      BY <3>1, <3>2
  <2>2. ASSUME NEW l \in Loops
        PROVE  done[l] \in 0 .. Len(functors[l])
    <3>1. Len(functors[l]) \in Nat /\ done[l] \in Nat /\ done[l] <= Len(functors[l])
      BY <2>1, LenProperties DEF Typed, Queues
    <3> QED
      BY <3>1
  <2> QED
    BY <2>1, <2>2
<1>3. {watched, fin} \subseteq [Conns -> BOOLEAN]
  BY DEF Typed, ConnsTyped
<1>4. /\ server \in {"none", "up", "body", "pool", "gone", "fatal"}
      /\ joining \in 1 .. MaxThreads + 1
      /\ {thread_num_, pool} \subseteq Loops
      /\ next_ \in Loops /\ (next_ > 0 => next_ < pool)
      /\ next_conn_id_ \in 1 .. MaxConns + 1
      /\ connections_ \subseteq Conns
      /\ backlog \in 0 .. MaxConns /\ limit \in 1 .. MaxFds
      /\ dropped \subseteq Conns
  BY DEF Typed, ServerTyped
<1>5. /\ phase \in [Loops -> {"none", "new", "poll", "events", "functors", "left"}]
      /\ quit_ \in [Loops -> BOOLEAN]
      /\ {active, inside} \subseteq [Loops -> SUBSET (Conns \cup {Accept})]
  BY DEF Typed, Rounds, Phases
<1>6. /\ io_loop \in [Conns -> Loops]
      /\ state_ \in [Conns -> {"connecting", "connected", "disconnecting", "disconnected"}]
      /\ told \in [Conns -> Seq({"up", "down"})]
  BY DEF Typed, ConnsTyped, States
<1> QED
  BY <1>1, <1>2, <1>3, <1>4, <1>5, <1>6 DEF TypeOK

LEMMA InitTyped == Init => Typed
<1> SUFFICES ASSUME Init PROVE Typed
  OBVIOUS
<1>1. ServerTyped
  BY Bounds DEF Init, ServerTyped
<1>2. Flags
  BY DEF Init, Flags
<1>3. Rounds
  BY Bounds DEF Init, Rounds, Phases
<1>4. Queues
  BY EmptySeq DEF Init, Queues
<1>5. ConnsTyped
  BY Bounds, EmptySeq DEF Init, ConnsTyped, States
<1>6. Clients /\ Unstarted /\ Joining
  BY Bounds DEF Init, Clients, Unstarted, Joining
<1> QED
  BY <1>1, <1>2, <1>3, <1>4, <1>5, <1>6 DEF Typed

(* The actions, one by one.                                                 *)
LEMMA Steps ==
  ASSUME Next
  PROVE  /\ ~Ends
         /\ \/ \E l \in Loops : EnterLoop(l) \/ Poll(l) \/ SwapFunctors(l) \/ EndRound(l)
            \/ \E l \in Loops, x \in Conns \cup {Accept} : HandleDestroyed(l, x)
            \/ \E l \in Loops, c \in Conns :
                 \/ handleClose(l, c) \/ removeConnection(l, c)
                 \/ RunEstablish(l, c) \/ RunDestroy(l, c)
            \/ \E c \in Conns : \/ RunRemove(c) \/ DestroyConnection(c)
                                \/ SendOrShutdown(c) \/ PeerClose(c)
            \/ handleRead \/ AcceptReturns \/ RunListen
            \/ EndBody \/ QuitThread \/ JoinThread \/ DestroyAcceptor
            \/ Construct \/ Start \/ StartDtor \/ QuitBase \/ Connect
            \/ \E n \in Loops : setThreadPoolSize(n)
<1>1. CASE \E l \in Loops : LoopStep(l)
  BY <1>1, Zenon DEF Next, LoopStep
<1>2. CASE DtorStep
  BY <1>2, Zenon DEF Next, DtorStep
<1>3. CASE UserStep
  BY <1>3, Bounds, Zenon DEF Next, UserStep
<1>4. CASE Environment
  BY <1>4, Zenon DEF Next, Environment
<1> QED
  BY <1>1, <1>2, <1>3, <1>4 DEF Next

LEMMA NextFlags ==
  ASSUME Typed, Next
  PROVE  Flags'
<1>0. Flags
  BY DEF Typed
<1>1. CASE \E l \in Loops : EnterLoop(l) \/ Poll(l) \/ SwapFunctors(l) \/ EndRound(l)
  BY <1>0, <1>1 DEF Flags, EnterLoop, Poll, SwapFunctors, EndRound
<1>2. CASE \E l \in Loops, x \in Conns \cup {Accept} : HandleDestroyed(l, x)
  BY <1>0, <1>2 DEF Flags, HandleDestroyed, Handle
<1>3. CASE \E l \in Loops, c \in Conns : handleClose(l, c)
  BY <1>0, <1>3 DEF Flags, handleClose, Handle
<1>13. CASE AcceptReturns \/ \E l \in Loops, c \in Conns : removeConnection(l, c)
  BY <1>0, <1>13 DEF Flags, AcceptReturns, removeConnection, Returns
<1>4. CASE \E l \in Loops, c \in Conns : RunEstablish(l, c) \/ RunDestroy(l, c)
  BY <1>0, <1>4 DEF Flags, RunEstablish, RunDestroy, Turn
<1>5. CASE \E c \in Conns : RunRemove(c)
  BY <1>0, <1>5 DEF Flags, RunRemove, Turn
<1>6. CASE \E c \in Conns : DestroyConnection(c) \/ SendOrShutdown(c) \/ PeerClose(c)
  BY <1>0, <1>6 DEF Flags, DestroyConnection, SendOrShutdown, PeerClose
<1>7. CASE handleRead
  BY <1>0, <1>7 DEF Flags, handleRead, Handle
<1>8. CASE RunListen
  <2>1. undefined' = (server = "gone") /\ listenning_' \in {listenning_, TRUE}
    BY <1>8 DEF RunListen, listen
  <2> QED
    BY <1>0, <1>8, <2>1 DEF Flags, RunListen, Turn
<1>9. CASE EndBody \/ QuitThread \/ JoinThread \/ DestroyAcceptor
  BY <1>0, <1>9 DEF Flags, EndBody, QuitThread, JoinThread, DestroyAcceptor
<1>10. CASE Construct \/ QuitBase \/ Connect \/ \E n \in Loops : setThreadPoolSize(n)
  BY <1>0, <1>10 DEF Flags, Construct, CreateAcceptor, QuitBase, Connect, setThreadPoolSize
<1>11. CASE Start
  <2>1. listenning_' \in {listenning_, TRUE}
    BY <1>11 DEF Start, listen
  <2> QED
    BY <1>0, <1>11, <2>1 DEF Flags, Start
<1>12. CASE StartDtor
  <2>1. exposed' = KnownToBase /\ KnownToBase \in BOOLEAN
    BY <1>12 DEF StartDtor, KnownToBase
  <2> HIDE DEF KnownToBase
  <2> QED
    BY <1>0, <1>12, <2>1 DEF Flags, StartDtor
<1> QED
  BY <1>1, <1>2, <1>3, <1>4, <1>5, <1>6, <1>7, <1>8, <1>9, <1>10, <1>11, <1>12,
     <1>13, Steps

(* getNextLoop() returns a loop of the pool, or the base loop without one,  *)
(* and next_ stays below the size of the pool.                              *)
LEMMA NextLoop ==
  ASSUME Typed, NEW l, getNextLoop(l)
  PROVE  /\ l \in Loops /\ (l = 0 <=> pool = 0)
         /\ next_' \in Loops /\ (next_' > 0 => next_' < pool)
         /\ pool > 0 => /\ l = next_ + 1 /\ l <= pool
                        /\ next_' = IF next_ + 1 = pool THEN 0 ELSE next_ + 1
<1>1. /\ pool \in Nat /\ next_ \in Nat /\ pool <= MaxThreads /\ next_ <= MaxThreads
      /\ (next_ > 0 => next_ < pool) /\ MaxThreads \in Nat
  BY Bounds DEF Typed, ServerTyped, Loops
<1>2. CASE pool = 0
  BY <1>1, <1>2 DEF getNextLoop, Loops
<1>3. CASE pool # 0
  <2>1. l = next_ + 1 /\ next_' = (next_ + 1) % pool
    BY <1>3 DEF getNextLoop
  <2>2. next_ + 1 \in 1 .. pool
    BY <1>1, <1>3
  <2>3. (next_ + 1) % pool = IF next_ + 1 = pool THEN 0 ELSE next_ + 1
    <3>1. CASE next_ + 1 = pool
      BY <1>1, <1>3, <3>1
    <3>2. CASE next_ + 1 # pool
      <4>1. next_ + 1 < pool
        BY <1>1, <2>2, <3>2
      <4> QED
        BY <1>1, <3>2, <4>1
    <3> QED
      BY <3>1, <3>2
  <2> QED
    BY <1>1, <1>3, <2>1, <2>2, <2>3 DEF Loops
<1> QED
  BY <1>2, <1>3

(* When the acceptor is called there is a client, so its connection has a   *)
(* number of its own.                                                       *)
LEMMA AcceptHasClient ==
  ASSUME Typed, handleRead
  PROVE  /\ backlog \in Nat /\ backlog > 0 /\ next_conn_id_ \in Conns
         /\ next_conn_id_ + backlog <= MaxConns + 1 /\ started_ /\ server = "up"
<1>1. Accept \in active[0] /\ server = "up"
  BY DEF handleRead, Handle
<1>2. started_
  BY <1>1, Bounds DEF Typed, Unstarted
<1> QED
  BY <1>1, <1>2, Bounds DEF Typed, Clients, ServerTyped, Conns

LEMMA NextServer ==
  ASSUME Typed, Next
  PROVE  ServerTyped' /\ Joining'
<1>0. ServerTyped /\ Joining /\ ~Ends
  BY Steps DEF Typed
<1>1. CASE \E l \in Loops : EnterLoop(l) \/ Poll(l) \/ SwapFunctors(l)
  BY <1>0, <1>1 DEF ServerTyped, Joining, EnterLoop, Poll, SwapFunctors
<1>2. CASE \E l \in Loops : EndRound(l)
  <2>1. PICK l \in Loops : EndRound(l)
    BY <1>2
  <2>2. dropped' \subseteq Conns
    <3>1. CASE ~(quit_[l] /\ l # 0)
      BY <1>0, <2>1, <3>1 DEF EndRound, ServerTyped
    <3>2. CASE quit_[l] /\ l # 0
      <4>1. pending[l] \in Seq(Calls)
        BY DEF Typed, Queues
      <4>2. ASSUME NEW g \in Range(pending[l]), g.op = "destroy" PROVE g.conn \in Conns
        <5>1. g \in Calls
          BY <4>1 DEF Range
        <5> QED
          BY <4>2, <5>1 DEF Calls
      <4>3. dropped' = dropped \cup
                        {f.conn : f \in {g \in Range(pending[l]) : g.op = "destroy"}}
        BY <2>1, <3>2 DEF EndRound
      <4> QED
        BY <1>0, <4>2, <4>3 DEF ServerTyped
    <3> QED
      BY <3>1, <3>2
  <2> QED
    BY <1>0, <2>1, <2>2 DEF ServerTyped, Joining, EndRound
<1>3. CASE \E l \in Loops, x \in Conns \cup {Accept} : HandleDestroyed(l, x)
  BY <1>0, <1>3 DEF ServerTyped, Joining, HandleDestroyed, Handle
<1>4. CASE \E l \in Loops, c \in Conns : handleClose(l, c)
  BY <1>0, <1>4 DEF ServerTyped, Joining, handleClose, Handle
<1>17. CASE AcceptReturns
  BY <1>0, <1>17 DEF ServerTyped, Joining, AcceptReturns, Returns
<1>18. CASE \E l \in Loops, c \in Conns : removeConnection(l, c)
  <2>1. PICK l \in Loops, c \in Conns : removeConnection(l, c)
    BY <1>18
  <2>2. connections_' \subseteq Conns
    BY <1>0, <2>1 DEF removeConnection, removeConnectionInLoop, ServerTyped
  <2> QED
    BY <1>0, <2>1, <2>2 DEF ServerTyped, Joining, removeConnection, Returns
<1>5. CASE \E l \in Loops, c \in Conns : RunEstablish(l, c) \/ RunDestroy(l, c)
  BY <1>0, <1>5 DEF ServerTyped, Joining, RunEstablish, RunDestroy, Turn
<1>6. CASE \E c \in Conns : RunRemove(c)
  BY <1>0, <1>6 DEF ServerTyped, Joining, RunRemove, removeConnectionInLoop, Turn
<1>7. CASE \E c \in Conns : DestroyConnection(c) \/ SendOrShutdown(c) \/ PeerClose(c)
  BY <1>0, <1>7 DEF ServerTyped, Joining, DestroyConnection, SendOrShutdown, PeerClose
<1>8. CASE handleRead
  <2>1. CASE FdFree
    <3>1. PICK l \in Loops : newConnection(l)
      BY <1>8, <2>1 DEF handleRead, Accepted
    <3>2. next_' \in Loops /\ (next_' > 0 => next_' < pool)
      BY <3>1, NextLoop DEF newConnection
    <3>3. connections_' \subseteq Conns /\ next_conn_id_' \in 1 .. MaxConns + 1
      BY <1>0, <1>8, <3>1, AcceptHasClient, Bounds DEF newConnection, ServerTyped, Conns
    <3>4. backlog' \in 0 .. MaxConns
      BY <1>0, <1>8, <2>1, AcceptHasClient, Bounds DEF handleRead, Accepted, ServerTyped
    <3> QED
      BY <1>0, <1>8, <3>2, <3>3, <3>4 DEF ServerTyped, Joining, handleRead, Handle
  <2>2. CASE ~FdFree
    BY <1>0, <1>8, <2>2 DEF ServerTyped, Joining, handleRead, Handle
  <2> QED
    BY <2>1, <2>2
<1>9. CASE RunListen
  <2>1. server' \in {"none", "up", "body", "pool", "gone", "fatal"} /\ server # "pool"
    BY <1>0, <1>9 DEF RunListen, listen, SocketCall, Turn, Runs, BaseFree, ServerTyped
  <2> QED
    BY <1>0, <1>9, <2>1 DEF ServerTyped, Joining, RunListen, Turn
<1>10. CASE EndBody \/ StartDtor
  BY <1>0, <1>10 DEF ServerTyped, Joining, EndBody, StartDtor
<1>16. CASE DestroyAcceptor
  <2>1. ~quitting
    BY <1>0, <1>16, Bounds DEF Joining, DestroyAcceptor, ServerTyped, Loops
  <2> QED
    BY <1>0, <1>16, <2>1, Bounds DEF ServerTyped, Joining, DestroyAcceptor
<1>11. CASE QuitThread \/ QuitBase
  BY <1>0, <1>11 DEF ServerTyped, Joining, QuitThread, QuitBase
<1>12. CASE JoinThread
  <2>1. joining + 1 \in 1 .. MaxThreads + 1
    BY <1>0, <1>12, Bounds DEF ServerTyped, Joining, JoinThread, Loops
  <2> QED
    BY <1>0, <1>12, <2>1 DEF ServerTyped, Joining, JoinThread
<1>13. CASE Construct \/ \E n \in Loops : setThreadPoolSize(n)
  BY <1>0, <1>13 DEF ServerTyped, Joining, Construct, CreateAcceptor, SocketCall, setThreadPoolSize
<1>14. CASE Start
  <2>1. server = "up" /\ ~started_
    BY <1>14 DEF Start
  <2>2. ~quitting /\ next_ = 0
    BY <1>0, <2>1, Bounds DEF Joining, ServerTyped, Typed, Unstarted, Loops
  <2>3. server' \in {"up", "fatal"} /\ pool' = thread_num_
    BY <1>14, <2>1 DEF Start, listen, SocketCall, StartThreads
  <2> QED
    BY <1>0, <1>14, <2>2, <2>3 DEF ServerTyped, Joining, Start
<1>15. CASE Connect
  BY <1>0, <1>15, Bounds DEF ServerTyped, Joining, Connect
<1> QED
  BY <1>1, <1>2, <1>3, <1>4, <1>5, <1>6, <1>7, <1>8, <1>9, <1>10, <1>11, <1>12,
     <1>13, <1>14, <1>15, <1>16, <1>17, <1>18, Steps

LEMMA NextRounds ==
  ASSUME Typed, Next
  PROVE  Rounds'
<1>0. Rounds
  BY DEF Typed
<1>1. CASE \E l \in Loops : EnterLoop(l) \/ SwapFunctors(l) \/ EndRound(l)
  BY <1>0, <1>1 DEF Rounds, Phases, EnterLoop, SwapFunctors, EndRound
<1>2. CASE \E l \in Loops : Poll(l)
  <2>1. PICK l \in Loops : Poll(l)
    BY <1>2
  <2>2. Ready(l) \subseteq Conns \cup {Accept}
    BY DEF Ready
  <2> HIDE DEF Ready
  <2> QED
    BY <1>0, <2>1, <2>2 DEF Rounds, Phases, Poll
<1>3. CASE \/ handleRead
           \/ \E l \in Loops, x \in Conns \cup {Accept} : HandleDestroyed(l, x)
           \/ \E l \in Loops, c \in Conns : handleClose(l, c)
  <2>1. PICK l, x : Handle(l, x)
    BY <1>3 DEF handleRead, HandleDestroyed, handleClose
  <2>2. inside' \in [Loops -> SUBSET (Conns \cup {Accept})]
    <3>1. CASE handleRead
      BY <1>0, <3>1 DEF Rounds, handleRead, Accepted
    <3>2. CASE \E k \in Loops, y \in Conns \cup {Accept} : HandleDestroyed(k, y)
      BY <1>0, <3>2 DEF Rounds, HandleDestroyed
    <3>3. CASE \E k \in Loops, c \in Conns : handleClose(k, c)
      BY <1>0, <3>3 DEF Rounds, handleClose
    <3> QED
      BY <1>3, <3>1, <3>2, <3>3
  <2> QED
    BY <1>0, <2>1, <2>2 DEF Rounds, Handle
<1>9. CASE AcceptReturns \/ \E l \in Loops, c \in Conns : removeConnection(l, c)
  <2>1. PICK l, x : Returns(l, x)
    BY <1>9 DEF AcceptReturns, removeConnection
  <2> QED
    BY <1>0, <2>1 DEF Rounds, Returns
<1>4. CASE \/ RunListen \/ \E c \in Conns : RunRemove(c)
           \/ \E l \in Loops, c \in Conns : RunEstablish(l, c) \/ RunDestroy(l, c)
  <2>1. PICK l, op, c : Turn(l, op, c)
    BY <1>4 DEF RunListen, RunRemove, RunEstablish, RunDestroy
  <2> QED
    BY <1>0, <2>1 DEF Rounds, Turn
<1>5. CASE \E c \in Conns : DestroyConnection(c) \/ SendOrShutdown(c) \/ PeerClose(c)
  BY <1>0, <1>5 DEF Rounds, DestroyConnection, SendOrShutdown, PeerClose
<1>6. CASE EndBody \/ JoinThread \/ DestroyAcceptor \/ Construct \/ StartDtor \/ Connect
  BY <1>0, <1>6
  DEF Rounds, EndBody, JoinThread, DestroyAcceptor, Construct, StartDtor, Connect
<1>7. CASE QuitThread \/ QuitBase \/ \E n \in Loops : setThreadPoolSize(n)
  BY <1>0, <1>7 DEF Rounds, QuitThread, QuitBase, setThreadPoolSize
<1>8. CASE Start
  BY <1>0, <1>8 DEF Rounds, Phases, Start, StartThreads
<1> QED
  BY <1>1, <1>2, <1>3, <1>4, <1>5, <1>6, <1>7, <1>8, <1>9, Steps

LEMMA PushTyped ==
  ASSUME Queues, NEW l \in Loops, NEW op \in {"establish", "remove", "destroy"},
         NEW c \in Conns, Push(l, op, c)
  PROVE  pending' \in [Loops -> Seq(Calls)]
<1>1. [op |-> op, conn |-> c] \in Calls
  BY DEF Calls, Functor
<1> QED
  BY <1>1, AppendProperties DEF Push, Queues

LEMMA PushListenTyped ==
  ASSUME Queues, Push(0, "listen", Accept)
  PROVE  pending' \in [Loops -> Seq(Calls)]
<1>1. [op |-> "listen", conn |-> Accept] \in Calls
  BY DEF Calls, Functor
<1> QED
  BY <1>1, Bounds, AppendProperties DEF Push, Queues

LEMMA NextQueues ==
  ASSUME Typed, Next
  PROVE  Queues'
<1>0. /\ Queues /\ phase \in [Loops -> Phases] /\ io_loop \in [Conns -> Loops]
      /\ \A l \in Loops : Len(functors[l]) \in Nat
  BY LenProperties DEF Typed, Rounds, Queues, ConnsTyped
<1>1. CASE \E l \in Loops : EnterLoop(l) \/ Poll(l)
  BY <1>0, <1>1 DEF Queues, EnterLoop, Poll
<1>2. CASE \E l \in Loops : SwapFunctors(l)
  <2>1. PICK l \in Loops : SwapFunctors(l)
    BY <1>2
  <2>2. done[l] = 0 /\ Len(pending[l]) \in Nat
    BY <1>0, <2>1, LenProperties DEF SwapFunctors, Queues
  <2>3. pending' \in [Loops -> Seq(Calls)] /\ functors' \in [Loops -> Seq(Calls)]
    BY <1>0, <2>1, EmptySeq DEF SwapFunctors, Queues
  <2>4. ASSUME NEW k \in Loops
        PROVE  done'[k] <= Len(functors'[k]) /\ (phase'[k] # "functors" => done'[k] = 0)
    BY <1>0, <2>1, <2>2 DEF SwapFunctors, Queues
  <2> QED
    BY <1>0, <2>1, <2>3, <2>4 DEF SwapFunctors, Queues
<1>3. CASE \E l \in Loops : EndRound(l)
  <2>1. PICK l \in Loops : EndRound(l)
    BY <1>3
  <2>2. /\ pending' \in [Loops -> Seq(Calls)] /\ functors' \in [Loops -> Seq(Calls)]
        /\ done' \in [Loops -> Nat]
    <3>1. pending' = pending \/ pending' = [pending EXCEPT ![l] = <<>>]
      BY <2>1 DEF EndRound
    <3>2. <<>> \in Seq(Calls)
      BY EmptySeq
    <3>3. pending' \in [Loops -> Seq(Calls)]
      BY <1>0, <3>1, <3>2 DEF Queues
    <3>4. functors' \in [Loops -> Seq(Calls)]
      BY <1>0, <2>1, <3>2 DEF EndRound, Queues
    <3>5. done' \in [Loops -> Nat]
      BY <1>0, <2>1 DEF EndRound, Queues
    <3> QED
      BY <3>3, <3>4, <3>5
  <2>3. ASSUME NEW k \in Loops
        PROVE  done'[k] <= Len(functors'[k]) /\ (phase'[k] # "functors" => done'[k] = 0)
    <3>1. CASE k = l
      BY <1>0, <2>1, <3>1 DEF EndRound, Queues
    <3>2. CASE k # l
      BY <1>0, <2>1, <3>2 DEF EndRound, Queues
    <3> QED
      BY <3>1, <3>2
  <2> QED
    BY <2>2, <2>3 DEF Queues
<1>4. CASE \E l \in Loops, x \in Conns \cup {Accept} : HandleDestroyed(l, x)
  BY <1>0, <1>4 DEF Queues, HandleDestroyed, Handle
<1>5. CASE \E l \in Loops, c \in Conns : handleClose(l, c)
  BY <1>0, <1>5 DEF Queues, handleClose, Handle
<1>13. CASE AcceptReturns
  BY <1>0, <1>13 DEF Queues, AcceptReturns, Returns
<1>14. CASE \E l \in Loops, c \in Conns : removeConnection(l, c)
  <2>1. PICK l \in Loops, c \in Conns : removeConnection(l, c)
    BY <1>14
  <2>2. pending' \in [Loops -> Seq(Calls)]
    <3>1. \E k \in Loops, op \in {"remove", "destroy"} : Push(k, op, c)
      BY <1>0, <2>1, Bounds DEF removeConnection, removeConnectionInLoop
    <3> QED
      BY <1>0, <3>1, PushTyped
  <2> QED
    BY <1>0, <2>1, <2>2 DEF Queues, removeConnection, Returns
<1>6. CASE handleRead
  <2>1. pending' \in [Loops -> Seq(Calls)]
    <3>1. CASE pending' = pending
      BY <1>0, <3>1 DEF Queues
    <3>2. CASE pending' # pending
      <4>1. PICK l \in Loops : Push(l, "establish", next_conn_id_)
        BY <1>6, <3>2 DEF handleRead, Accepted, newConnection
      <4> QED
        BY <1>0, <1>6, <4>1, AcceptHasClient, PushTyped
    <3> QED
      BY <3>1, <3>2
  <2> QED
    BY <1>0, <1>6, <2>1 DEF Queues, handleRead, Handle
<1>7. CASE \/ RunListen \/ \E c \in Conns : RunRemove(c)
           \/ \E l \in Loops, c \in Conns : RunEstablish(l, c) \/ RunDestroy(l, c)
  <2>1. PICK l \in Loops : \E op, c : Turn(l, op, c)
    BY <1>7, Bounds DEF RunListen, RunRemove, RunEstablish, RunDestroy
  <2>2. pending' \in [Loops -> Seq(Calls)]
    <3>1. CASE \E d \in Conns : RunRemove(d)
      <4>1. PICK d \in Conns : Push(io_loop[d], "destroy", d)
        BY <3>1 DEF RunRemove, removeConnectionInLoop
      <4> QED
        BY <1>0, <4>1, PushTyped
    <3>2. CASE ~\E d \in Conns : RunRemove(d)
      BY <1>0, <1>7, <3>2 DEF Queues, RunListen, RunEstablish, RunDestroy
    <3> QED
      BY <3>1, <3>2
  <2>3. /\ done' = [done EXCEPT ![l] = done[l] + 1] /\ done[l] < Len(functors[l])
        /\ phase' = phase /\ functors' = functors /\ phase[l] = "functors"
    BY <2>1 DEF Turn
  <2>4. done' \in [Loops -> Nat]
    BY <1>0, <2>3 DEF Queues
  <2>5. ASSUME NEW k \in Loops
        PROVE  done'[k] <= Len(functors'[k]) /\ (phase'[k] # "functors" => done'[k] = 0)
    BY <1>0, <2>3 DEF Queues
  <2> QED
    BY <1>0, <2>2, <2>3, <2>4, <2>5 DEF Queues
<1>8. CASE \E c \in Conns : DestroyConnection(c)
  <2>1. PICK c \in Conns : DestroyConnection(c)
    BY <1>8
  <2>2. pending' \in [Loops -> Seq(Calls)]
    <3>1. CASE io_loop[c] = 0
      BY <1>0, <2>1, <3>1 DEF Queues, DestroyConnection
    <3>2. CASE io_loop[c] # 0
      <4>1. Push(io_loop[c], "destroy", c)
        BY <2>1, <3>2 DEF DestroyConnection
      <4> QED
        BY <1>0, <4>1, PushTyped
    <3> QED
      BY <3>1, <3>2
  <2> QED
    BY <1>0, <2>1, <2>2 DEF Queues, DestroyConnection
<1>9. CASE \E c \in Conns : SendOrShutdown(c) \/ PeerClose(c)
  BY <1>0, <1>9 DEF Queues, SendOrShutdown, PeerClose
<1>10. CASE EndBody \/ JoinThread \/ DestroyAcceptor \/ Construct \/ StartDtor \/ Connect
  BY <1>0, <1>10
  DEF Queues, EndBody, JoinThread, DestroyAcceptor, Construct, StartDtor, Connect
<1>11. CASE QuitThread \/ QuitBase \/ \E n \in Loops : setThreadPoolSize(n)
  BY <1>0, <1>11 DEF Queues, QuitThread, QuitBase, setThreadPoolSize
<1>12. CASE Start
  <2>1. pending' \in [Loops -> Seq(Calls)]
    <3>1. CASE pending' = pending
      BY <1>0, <3>1 DEF Queues
    <3>2. CASE pending' # pending
      BY <1>0, <1>12, <3>2, PushListenTyped DEF Start
    <3> QED
      BY <3>1, <3>2
  <2>2. ASSUME NEW k \in Loops PROVE done[k] = 0 /\ functors[k] = <<>>
    BY <1>0, <1>12 DEF Start, Typed, Unstarted, Queues
  <2> QED
    BY <1>0, <1>12, <2>1, <2>2 DEF Queues, Start
<1> QED
  BY <1>1, <1>2, <1>3, <1>4, <1>5, <1>6, <1>7, <1>8, <1>9, <1>10, <1>11, <1>12,
     <1>13, <1>14, Steps

LEMMA NextConns ==
  ASSUME Typed, Next
  PROVE  ConnsTyped'
<1>0. ConnsTyped
  BY DEF Typed
<1>1. CASE \E l \in Loops : EnterLoop(l) \/ Poll(l) \/ SwapFunctors(l) \/ EndRound(l)
  BY <1>0, <1>1 DEF ConnsTyped, EnterLoop, Poll, SwapFunctors, EndRound
<1>2. CASE \E l \in Loops, x \in Conns \cup {Accept} : HandleDestroyed(l, x)
  BY <1>0, <1>2 DEF ConnsTyped, HandleDestroyed, Handle
<1>a. \A c \in Conns, w \in {"up", "down"} : Append(told[c], w) \in Seq({"up", "down"})
  BY <1>0, AppendProperties DEF ConnsTyped
<1>3. CASE \E l \in Loops, c \in Conns : handleClose(l, c)
  BY <1>0, <1>a, <1>3 DEF ConnsTyped, States, handleClose, Handle
<1>14. CASE AcceptReturns \/ \E l \in Loops, c \in Conns : removeConnection(l, c)
  BY <1>0, <1>14 DEF ConnsTyped, AcceptReturns, removeConnection, Returns
<1>4. ASSUME NEW c \in Conns, connEstablish(c)
      PROVE  /\ state_' \in [Conns -> States] /\ watched' \in [Conns -> BOOLEAN]
             /\ told' \in [Conns -> Seq({"up", "down"})]
  BY <1>0, <1>a, <1>4 DEF ConnsTyped, States, connEstablish
<1>5. ASSUME NEW c \in Conns, connDestory(c)
      PROVE  /\ state_' \in [Conns -> States] /\ watched' \in [Conns -> BOOLEAN]
             /\ told' \in [Conns -> Seq({"up", "down"})]
  BY <1>0, <1>a, <1>5 DEF ConnsTyped, States, connDestory
<1>6. CASE \E l \in Loops, c \in Conns : RunEstablish(l, c)
  BY <1>0, <1>4, <1>6 DEF ConnsTyped, RunEstablish, Turn
<1>7. CASE \E l \in Loops, c \in Conns : RunDestroy(l, c)
  BY <1>0, <1>5, <1>7 DEF ConnsTyped, RunDestroy, Turn
<1>8. CASE RunListen \/ \E c \in Conns : RunRemove(c)
  BY <1>0, <1>8 DEF ConnsTyped, RunListen, RunRemove, Turn
<1>9. CASE \E c \in Conns : DestroyConnection(c)
  <2>1. PICK c \in Conns : DestroyConnection(c)
    BY <1>9
  <2>2. \/ connDestory(c)
        \/ UNCHANGED <<state_, watched, told>>
    BY <2>1 DEF DestroyConnection
  <2> QED
    BY <1>0, <1>5, <2>1, <2>2 DEF ConnsTyped, DestroyConnection
<1>10. CASE \E c \in Conns : SendOrShutdown(c) \/ PeerClose(c)
  BY <1>0, <1>10 DEF ConnsTyped, States, SendOrShutdown, PeerClose
<1>11. CASE handleRead
  <2>1. CASE FdFree
    <3>1. PICK l \in Loops : newConnection(l)
      BY <1>11, <2>1 DEF handleRead, Accepted
    <3>2. next_conn_id_ \in Conns
      BY <1>11, AcceptHasClient
    <3>3. \/ connEstablish(next_conn_id_)
          \/ UNCHANGED <<state_, watched, told>>
      BY <3>1 DEF newConnection
    <3>4. io_loop' \in [Conns -> Loops]
      BY <1>0, <3>1, <3>2 DEF newConnection, ConnsTyped
    <3> QED
      BY <1>0, <1>4, <1>11, <3>2, <3>3, <3>4 DEF ConnsTyped, handleRead, Handle
  <2>2. CASE ~FdFree
    BY <1>0, <1>11, <2>2 DEF ConnsTyped, handleRead, Handle
  <2> QED
    BY <2>1, <2>2
<1>12. CASE EndBody \/ JoinThread \/ DestroyAcceptor \/ Construct \/ StartDtor \/ Connect
  BY <1>0, <1>12
  DEF ConnsTyped, EndBody, JoinThread, DestroyAcceptor, Construct, StartDtor, Connect
<1>13. CASE Start \/ QuitThread \/ QuitBase \/ \E n \in Loops : setThreadPoolSize(n)
  BY <1>0, <1>13 DEF ConnsTyped, Start, QuitThread, QuitBase, setThreadPoolSize
<1> QED
  BY <1>1, <1>2, <1>3, <1>6, <1>7, <1>8, <1>9, <1>10, <1>11, <1>12, <1>13,
     <1>14, Steps

LEMMA NextClients ==
  ASSUME Typed, Next
  PROVE  Clients'
<1>0. /\ Clients /\ active \in [Loops -> SUBSET (Conns \cup {Accept})]
      /\ 0 \in Loops /\ backlog \in Nat /\ next_conn_id_ \in Nat /\ MaxConns \in Nat
  BY Bounds DEF Typed, Rounds, ServerTyped
<1>1. CASE \E l \in Loops : EnterLoop(l) \/ SwapFunctors(l) \/ EndRound(l)
  BY <1>0, <1>1 DEF Clients, EnterLoop, SwapFunctors, EndRound
<1>2. CASE \E l \in Loops : Poll(l)
  <2>1. PICK l \in Loops : Poll(l)
    BY <1>2
  <2>2. Accept \in Ready(l) => backlog > 0
    BY Bounds DEF Ready
  <2>3. active'[0] = IF l = 0 THEN Ready(l) ELSE active[0]
    BY <1>0, <2>1 DEF Poll
  <2> HIDE DEF Ready
  <2> QED
    BY <1>0, <2>1, <2>2, <2>3 DEF Clients, Poll
<1>3. CASE \/ \E l \in Loops, x \in Conns \cup {Accept} : HandleDestroyed(l, x)
           \/ \E l \in Loops, c \in Conns : handleClose(l, c)
  <2>1. PICK l \in Loops : /\ \E x : Handle(l, x)
                           /\ UNCHANGED <<server, next_conn_id_, backlog>>
    BY <1>3 DEF HandleDestroyed, handleClose
  <2>2. active'[0] \subseteq active[0]
    BY <1>0, <2>1 DEF Handle
  <2> QED
    BY <1>0, <2>1, <2>2 DEF Clients
<1>4. CASE handleRead
  <2>1. Accept \notin active'[0]
    BY <1>0, <1>4 DEF handleRead, Handle
  <2>2. next_conn_id_' + backlog' <= MaxConns + 1
    BY <1>0, <1>4 DEF Clients, handleRead, Accepted, newConnection
  <2> QED
    BY <2>1, <2>2 DEF Clients
<1>5. CASE \/ \E c \in Conns : RunRemove(c)
           \/ \E l \in Loops, c \in Conns : RunEstablish(l, c) \/ RunDestroy(l, c)
  BY <1>0, <1>5 DEF Clients, RunRemove, RunEstablish, RunDestroy, Turn
<1>6. CASE RunListen
  <2>1. server \in {"none", "up", "gone"} /\ started_ /\ (server = "gone" => server' = "gone")
    <3>1. server # "fatal" /\ server \notin {"body", "pool"}
      BY <1>6, Steps DEF Ends, RunListen, Turn, Runs, BaseFree
    <3>2. functors[0] # <<>>
      <4>1. done[0] < Len(functors[0]) /\ done[0] \in Nat
        BY <1>0, <1>6 DEF RunListen, Turn, Typed, Queues
      <4> QED
        BY <4>1
    <3> QED
      BY <1>0, <1>6, <3>1, <3>2 DEF RunListen, Typed, Unstarted, ServerTyped
  <2>2. server' = "up" => server = "up"
    BY <2>1 DEF Typed, Unstarted
  <2> QED
    BY <1>0, <1>6, <2>2 DEF Clients, RunListen, Turn
<1>7. CASE \E c \in Conns : DestroyConnection(c) \/ SendOrShutdown(c) \/ PeerClose(c)
  BY <1>0, <1>7 DEF Clients, DestroyConnection, SendOrShutdown, PeerClose
<1>8. CASE EndBody \/ QuitThread \/ JoinThread \/ DestroyAcceptor \/ StartDtor \/ QuitBase
  BY <1>0, <1>8
  DEF Clients, EndBody, QuitThread, JoinThread, DestroyAcceptor, StartDtor, QuitBase
<1>9. CASE Construct
  <2>1. Accept \notin active[0]
    BY <1>0, <1>9 DEF Construct, Typed, Unstarted
  <2> QED
    BY <1>0, <1>9, <2>1 DEF Clients, Construct
<1>10. CASE Start
  BY <1>0, <1>10 DEF Clients, Start
<1>11. CASE \E n \in Loops : setThreadPoolSize(n)
  BY <1>0, <1>11 DEF Clients, setThreadPoolSize
<1>12. CASE Connect
  BY <1>0, <1>12 DEF Clients, Connect
<1>13. CASE AcceptReturns \/ \E l \in Loops, c \in Conns : removeConnection(l, c)
  BY <1>0, <1>13 DEF Clients, AcceptReturns, removeConnection, Returns
<1> QED
  BY <1>1, <1>2, <1>3, <1>4, <1>5, <1>6, <1>7, <1>8, <1>9, <1>10, <1>11, <1>12,
     <1>13, Steps

LEMMA NextUnstarted ==
  ASSUME Typed, Next
  PROVE  Unstarted'
<1>0. /\ Unstarted /\ 0 \in Loops /\ Accept \notin Conns
      /\ active \in [Loops -> SUBSET (Conns \cup {Accept})]
      /\ pending \in [Loops -> Seq(Calls)] /\ functors \in [Loops -> Seq(Calls)]
  BY Bounds DEF Typed, Rounds, Queues
<1>1. CASE \E l \in Loops : EnterLoop(l)
  BY <1>0, <1>1 DEF Unstarted, EnterLoop
<1>2. CASE \E l \in Loops : Poll(l)
  <2>1. PICK l \in Loops : Poll(l)
    BY <1>2
  <2>2. ~started_ => Ready(l) = {}
    BY <1>0 DEF Ready, Unstarted
  <2> HIDE DEF Ready
  <2> QED
    BY <1>0, <2>1, <2>2 DEF Unstarted, Poll
<1>3. CASE \E l \in Loops : SwapFunctors(l)
  BY <1>0, <1>3 DEF Unstarted, SwapFunctors
<1>4. CASE \E l \in Loops : EndRound(l)
  <2>1. PICK l \in Loops : EndRound(l)
    BY <1>4
  <2>2. pending' = pending \/ pending' = [pending EXCEPT ![l] = <<>>]
    BY <2>1 DEF EndRound
  <2>3. ~started_ => \A k \in Loops : pending'[k] = <<>> /\ functors'[k] = <<>>
    BY <1>0, <2>1, <2>2 DEF Unstarted, EndRound
  <2> QED
    BY <1>0, <2>1, <2>3 DEF Unstarted, EndRound
<1>5. CASE \/ handleRead
           \/ \E l \in Loops, x \in Conns \cup {Accept} : HandleDestroyed(l, x)
           \/ \E l \in Loops, c \in Conns : handleClose(l, c)
  <2>1. PICK l \in Loops : \E x : /\ Handle(l, x) /\ UNCHANGED <<server, started_>>
    BY <1>0, <1>5 DEF handleRead, HandleDestroyed, handleClose
  <2>2. started_
    BY <1>0, <2>1 DEF Unstarted, Handle
  <2> QED
    BY <1>0, <2>1, <2>2 DEF Unstarted
<1>6. CASE \/ RunListen \/ \E c \in Conns : RunRemove(c)
           \/ \E l \in Loops, c \in Conns : RunEstablish(l, c) \/ RunDestroy(l, c)
  <2>1. PICK l \in Loops : \E op, c : Turn(l, op, c)
    BY <1>0, <1>6 DEF RunListen, RunRemove, RunEstablish, RunDestroy
  <2>2. started_
    <3>1. done[l] < Len(functors[l]) /\ done[l] \in Nat
      BY <2>1 DEF Turn, Typed, Queues
    <3>2. functors[l] # <<>>
      BY <3>1
    <3> QED
      BY <1>0, <3>2 DEF Unstarted
  <2>3. server' # "none" /\ started_' = started_
    BY <1>0, <1>6, <2>1, <2>2
    DEF Unstarted, RunListen, RunRemove, RunEstablish, RunDestroy, listen, SocketCall, Turn
  <2> QED
    BY <2>2, <2>3 DEF Unstarted
<1>7. CASE \E c \in Conns : DestroyConnection(c)
  <2>1. started_
    BY <1>0, <1>7 DEF DestroyConnection, Unstarted
  <2> QED
    BY <1>0, <1>7, <2>1 DEF Unstarted, DestroyConnection
<1>8. CASE \E c \in Conns : SendOrShutdown(c) \/ PeerClose(c)
  BY <1>0, <1>8 DEF Unstarted, SendOrShutdown, PeerClose
<1>9. CASE EndBody \/ QuitThread \/ JoinThread \/ DestroyAcceptor \/ StartDtor
  BY <1>0, <1>9 DEF Unstarted, EndBody, QuitThread, JoinThread, DestroyAcceptor, StartDtor
<1>10. CASE Construct \/ QuitBase \/ \E n \in Loops : setThreadPoolSize(n)
  BY <1>0, <1>10
  DEF Unstarted, Construct, CreateAcceptor, SocketCall, QuitBase, setThreadPoolSize
<1>11. CASE Start
  <2>1. started_' = TRUE /\ server' \in {"up", "fatal"}
    BY <1>11 DEF Start, listen, SocketCall
  <2> QED
    BY <2>1 DEF Unstarted
<1>12. CASE Connect
  BY <1>0, <1>12 DEF Unstarted, Connect
<1>13. CASE AcceptReturns \/ \E l \in Loops, c \in Conns : removeConnection(l, c)
  <2>1. PICK l \in Loops : \E x : Returns(l, x) /\ UNCHANGED <<server, started_>>
    BY <1>0, <1>13 DEF AcceptReturns, removeConnection
  <2>2. started_
    BY <1>0, <2>1 DEF Unstarted, Returns
  <2> QED
    BY <1>0, <2>1, <2>2 DEF Unstarted
<1> QED
  BY <1>1, <1>2, <1>3, <1>4, <1>5, <1>6, <1>7, <1>8, <1>9, <1>10, <1>11, <1>12,
     <1>13, Steps

LEMMA NextTyped == Typed /\ [Next]_vars => Typed'
<1> SUFFICES ASSUME Typed, [Next]_vars PROVE Typed'
  OBVIOUS
<1>1. CASE Next
  BY <1>1, NextFlags, NextServer, NextRounds, NextQueues, NextConns, NextClients,
     NextUnstarted DEF Typed
<1>2. CASE UNCHANGED vars
  <2>1. ServerTyped' /\ Joining' /\ Clients'
    BY <1>2 DEF Typed, ServerTyped, Joining, Clients, vars
  <2>2. Flags' /\ Rounds'
    BY <1>2 DEF Typed, Flags, Rounds, vars
  <2>3. Queues'
    BY <1>2 DEF Typed, Queues, vars
  <2>4. ConnsTyped' /\ Unstarted'
    BY <1>2 DEF Typed, ConnsTyped, Unstarted, vars
  <2> QED
    BY <2>1, <2>2, <2>3, <2>4 DEF Typed
<1> QED
  BY <1>1, <1>2

LEMMA TypedInvariant == Spec => []Typed
  BY InitTyped, NextTyped, PTL DEF Spec

(* Whatever the numbers of threads, clients and descriptors, every member   *)
(* of server, acceptor, pool, loops and connections keeps its type: in      *)
(* particular the acceptor never takes a client that is not there, next_ is *)
(* an index of the pool, and no functor is called beyond its batch.         *)
THEOREM TypeCorrect == Spec => []TypeOK
  BY TypedInvariant, TypedIsType, PTL

-----------------------------------------------------------------------------
(* The connections are dealt out in turn: in round q + 1 the loops up to    *)
(* next_ have had theirs.  Balanced does not say which, and is not          *)
(* inductive without it.                                                    *)
InTurn ==
  \E q \in Nat : \A l \in 1 .. pool : Served(l) = IF l <= next_ THEN q + 1 ELSE q

(* One more connection, for loop k.                                         *)
LEMMA ServeOne ==
  ASSUME Typed, NEW k, next_conn_id_ \in Conns,
         next_conn_id_' = next_conn_id_ + 1,
         io_loop' = [io_loop EXCEPT ![next_conn_id_] = k], NEW l
  PROVE  Served(l) \in Nat /\ Served(l)' = IF l = k THEN Served(l) + 1 ELSE Served(l)
<1> DEFINE n == next_conn_id_
           S == {c \in 1 .. n - 1 : io_loop[c] = l}
           T == {c \in 1 .. n : io_loop'[c] = l}
<1>1. n \in Nat /\ n > 0 /\ 1 .. n \subseteq Conns /\ io_loop \in [Conns -> Loops]
  BY Bounds DEF Conns, Typed, ConnsTyped
<1>2. IsFiniteSet(S)
  <2>1. IsFiniteSet(1 .. n - 1)
    BY <1>1, FS_Interval
  <2> QED
    BY <2>1, FS_Subset
<1>3. Served(l) = Cardinality(S) /\ Served(l)' = Cardinality(T)
  <2>1. next_conn_id_' - 1 = n
    BY <1>1
  <2> QED
    BY <2>1 DEF Served
<1>4. n \notin S /\ Cardinality(S) \in Nat
  BY <1>1, <1>2, FS_CardinalityType
<1>5. ASSUME NEW c \in 1 .. n
      PROVE  c \in 1 .. n - 1 \/ c = n
  BY <1>1
<1>6. ASSUME NEW c \in 1 .. n - 1 PROVE c \in 1 .. n /\ c # n /\ io_loop'[c] = io_loop[c]
  BY <1>1
<1>7. n \in 1 .. n /\ io_loop'[n] = k
  BY <1>1
<1>8. CASE l = k
  <2>1. T = S \cup {n}
    BY <1>5, <1>6, <1>7, <1>8
  <2> QED
    BY <1>2, <1>3, <1>4, <1>8, <2>1, FS_AddElement
<1>9. CASE l # k
  <2>1. T = S
    BY <1>5, <1>6, <1>7, <1>9
  <2> QED
    BY <1>3, <1>4, <1>9, <2>1
<1> QED
  BY <1>8, <1>9

LEMMA InitInTurn == Init => InTurn
<1> SUFFICES ASSUME Init PROVE InTurn
  OBVIOUS
<1>1. 1 .. pool = {}
  BY DEF Init
<1> QED
  BY <1>1 DEF InTurn

LEMMA NextInTurn == Typed /\ InTurn /\ [Next]_vars => InTurn'
<1> SUFFICES ASSUME Typed, InTurn, [Next]_vars PROVE InTurn'
  OBVIOUS
<1>0. PICK q \in Nat : \A l \in 1 .. pool : Served(l) = IF l <= next_ THEN q + 1 ELSE q
  BY DEF InTurn
<1>1. CASE UNCHANGED <<pool, next_, next_conn_id_, io_loop>>
  BY <1>1 DEF InTurn, Served
<1>2. CASE handleRead /\ FdFree
  <2>1. PICK k \in Loops : newConnection(k)
    BY <1>2 DEF handleRead, Accepted
  <2>2. next_conn_id_ \in Conns /\ pool' = pool /\ pool \in Nat /\ next_ \in Nat
    BY <1>2, AcceptHasClient, Bounds DEF handleRead, Typed, ServerTyped
  <2>3. /\ pool > 0 => /\ k = next_ + 1 /\ k <= pool
                       /\ next_' = IF next_ + 1 = pool THEN 0 ELSE next_ + 1
    BY <2>1, NextLoop DEF newConnection
  <2>4. ASSUME NEW l
        PROVE  Served(l) \in Nat /\ Served(l)' = IF l = k THEN Served(l) + 1 ELSE Served(l)
    BY <2>1, <2>2, ServeOne DEF newConnection
  <2> HIDE DEF Served
  <2>5. CASE pool = 0
    BY <2>2, <2>5 DEF InTurn
  <2>6. CASE pool > 0 /\ next_ + 1 = pool
    <3>1. ASSUME NEW l \in 1 .. pool
          PROVE  Served(l)' = IF l <= next_' THEN (q + 1) + 1 ELSE q + 1
      BY <1>0, <2>2, <2>3, <2>4, <2>6
    <3> QED
      BY <2>2, <3>1 DEF InTurn
  <2>7. CASE pool > 0 /\ next_ + 1 # pool
    <3>1. ASSUME NEW l \in 1 .. pool
          PROVE  Served(l)' = IF l <= next_' THEN q + 1 ELSE q
      BY <1>0, <2>2, <2>3, <2>4, <2>7
    <3> QED
      BY <2>2, <3>1 DEF InTurn
  <2> QED
    BY <2>2, <2>5, <2>6, <2>7
<1>3. CASE handleRead /\ ~FdFree
  BY <1>1, <1>3 DEF handleRead
<1>4. CASE Start
  <2>1. next_ = 0 /\ next_' = 0 /\ next_conn_id_' = 1
    BY <1>4, Bounds DEF Start, Typed, Unstarted, ServerTyped, Loops
  <2>2. ASSUME NEW l \in 1 .. pool' PROVE Served(l)' = 0
    <3>1. {c \in 1 .. next_conn_id_' - 1 : io_loop'[c] = l} = {}
      BY <2>1
    <3> QED
      BY <3>1, FS_EmptySet DEF Served
  <2>3. ASSUME NEW l \in 1 .. pool' PROVE Served(l)' = IF l <= next_' THEN 0 + 1 ELSE 0
    BY <2>1, <2>2
  <2> QED
    BY <2>3 DEF InTurn
<1>5. CASE Next /\ ~handleRead /\ ~Start
  <2>1. CASE \E l \in Loops : EnterLoop(l) \/ Poll(l) \/ SwapFunctors(l) \/ EndRound(l)
    BY <1>1, <2>1 DEF EnterLoop, Poll, SwapFunctors, EndRound
  <2>2. CASE \/ \E l \in Loops, x \in Conns \cup {Accept} : HandleDestroyed(l, x)
             \/ \E l \in Loops, c \in Conns : handleClose(l, c)
    BY <1>1, <2>2 DEF HandleDestroyed, handleClose
  <2>7. CASE AcceptReturns \/ \E l \in Loops, c \in Conns : removeConnection(l, c)
    BY <1>1, <2>7 DEF AcceptReturns, removeConnection, Returns
  <2>3. CASE \/ RunListen \/ \E c \in Conns : RunRemove(c)
             \/ \E l \in Loops, c \in Conns : RunEstablish(l, c) \/ RunDestroy(l, c)
    BY <1>1, <2>3 DEF RunListen, RunRemove, RunEstablish, RunDestroy, Turn
  <2>4. CASE \E c \in Conns : DestroyConnection(c) \/ SendOrShutdown(c) \/ PeerClose(c)
    BY <1>1, <2>4 DEF DestroyConnection, SendOrShutdown, PeerClose
  <2>5. CASE EndBody \/ QuitThread \/ JoinThread \/ DestroyAcceptor \/ StartDtor
    BY <1>1, <2>5 DEF EndBody, QuitThread, JoinThread, DestroyAcceptor, StartDtor
  <2>6. CASE Construct \/ QuitBase \/ Connect \/ \E n \in Loops : setThreadPoolSize(n)
    BY <1>1, <2>6 DEF Construct, QuitBase, Connect, setThreadPoolSize
  <2> QED
    BY <1>5, <2>1, <2>2, <2>3, <2>4, <2>5, <2>6, <2>7, Steps
<1>6. CASE UNCHANGED vars
  BY <1>1, <1>6 DEF vars
<1> QED
  BY <1>2, <1>3, <1>4, <1>5, <1>6

(* getNextLoop() deals the connections out evenly, however many threads the *)
(* pool has and however often accept() fails.  It counts what each was ever *)
(* given and says nothing of how many are still open.                       *)
THEOREM EvenlyServed == Spec => []Balanced
<1>1. Typed /\ InTurn => Balanced
  <2> SUFFICES ASSUME Typed, InTurn, NEW l \in 1 .. pool, NEW m \in 1 .. pool
               PROVE  Served(l) <= Served(m) + 1
    BY DEF Balanced
  <2>1. PICK q \in Nat : \A k \in 1 .. pool : Served(k) = IF k <= next_ THEN q + 1 ELSE q
    BY DEF InTurn
  <2> HIDE DEF Served
  <2> QED
    BY <2>1
<1> QED
  BY <1>1, InitInTurn, NextInTurn, TypedInvariant, PTL DEF Spec
=============================================================================
