------------------------ MODULE TcpServerLifeProofs --------------------------
(****************************************************************************)
(* Proofs about TcpServer, for every number of threads, connections and     *)
(* descriptors: which pointers are still good, and what the user is told.   *)
(****************************************************************************)
EXTENDS TcpServerProofs

USE DEF setup, teardown, turns, serverVars, events, loopVars, connVars, history, env

Call(op, c) == [op |-> op, conn |-> c]

(* What loop l has still to call, in order.                                 *)
Todo(l) == SubSeq(functors[l], done[l] + 1, Len(functors[l])) \o pending[l]

Due(l, op, c) == \E i \in 1 .. Len(Todo(l)) : Todo(l)[i] = Call(op, c)

(* The functors that keep their connection, the ones called included.       *)
Queued(l) == Range(pending[l]) \cup Range(functors[l])

(* Nothing holds connection c.                                              *)
Freed(c) ==
  /\ c \notin connections_
  /\ \A l \in Loops : c \notin inside[l] /\ \A f \in Queued(l) : f.conn # c

-----------------------------------------------------------------------------
(* The inductive invariant: the loops.                                      *)

Ending == server \in {"pool", "gone"}

(* The threads of the pool leave their loops one by one, and only for the   *)
(* destructor of the pool.                                                  *)
Threads ==
  /\ \A l \in Loops : l > pool => phase[l] = "none"
  /\ \A l \in 1 .. MaxThreads : quit_[l] \/ phase[l] = "left" => Ending
  /\ \A l \in 1 .. pool : l < joining => phase[l] = "left"
  /\ server \in {"none", "up", "body"} => joining = 1
  /\ server = "gone" => joining > pool

InRound ==
  \A l \in Loops : /\ active[l] # {} \/ inside[l] # {} => phase[l] = "events"
                   /\ Accept \in active[l] => l = 0
                   /\ phase[l] # "functors" => functors[l] = <<>>

Emptied ==
  /\ Ending => connections_ = {}
  /\ server = "gone" => ~listenning_

LoopInv == Threads /\ InRound /\ Emptied

(* The connections.  Those numbered below next_conn_id_ are known, and      *)
(* served by the pool or, without one, by the base loop.                    *)
Known ==
  \A c \in Conns :
    /\ c \in connections_ \/ watched[c] => c < next_conn_id_
    /\ c >= next_conn_id_ => told[c] = <<>> /\ state_[c] = "connecting"
    /\ c < next_conn_id_ => io_loop[c] <= pool /\ (io_loop[c] = 0 <=> pool = 0)

(* Every functor is in the queue of the loop that may call it.              *)
Placed ==
  \A l \in Loops : \A f \in Queued(l) :
    /\ f.op = "listen" => l = 0 /\ f.conn = Accept
    /\ f.op # "listen" => f.conn < next_conn_id_
    /\ f.op \in {"establish", "destroy"} => io_loop[f.conn] = l
    /\ f.op = "establish" => l # 0
    /\ f.op = "remove" => l = 0 /\ pool > 0

(* What the user was told agrees with the channel and with state_.          *)
Status ==
  \A c \in Conns :
    /\ told[c] \in {<<>>, <<"up">>, <<"up", "down">>}
    /\ watched[c] => told[c] = <<"up">>
    /\ state_[c] = "connected" => watched[c]
    /\ told[c] = <<"up">> => state_[c] \in {"connected", "disconnecting"}

(* A connection of the base loop is in the map as long as it is registered, *)
(* and held by the map alone.                                               *)
Based ==
  \A c \in Conns : io_loop[c] = 0 =>
    /\ watched[c] => c \in connections_
    /\ c \in connections_ => \A f \in Queued(0) : f.conn # c

(* A channel of the round is registered, or was destroyed with its          *)
(* connection.                                                              *)
Reported ==
  \A l \in Loops, c \in Conns : c \in active[l] =>
    c < next_conn_id_ /\ io_loop[c] = l /\ (watched[c] \/ Freed(c))

(* In sequence s connEstablish() is due at most once to a connection, and   *)
(* before connDestory().                                                    *)
InOrder(s) ==
  \A c \in Conns : \A i \in 1 .. Len(s) : s[i] = Call("establish", c) =>
    \A j \in 1 .. i - 1 : s[j] # Call("destroy", c) /\ s[j] # Call("establish", c)

Ordered == \A l \in Loops : InOrder(Todo(l))

(* A connection that is to be established is in the map or will be          *)
(* destroyed, and the user knows nothing of it.                             *)
Awaited ==
  \A l \in Loops, c \in Conns : Due(l, "establish", c) =>
    /\ told[c] = <<>> /\ state_[c] = "connecting"
    /\ c \in connections_ \/ Due(l, "destroy", c)

(* A registered connection is in the map, or connDestory() is due, or was   *)
(* dropped by a loop that has stopped.                                      *)
Registered ==
  \A c \in Conns : watched[c] =>
    \/ c \in connections_
    \/ Due(io_loop[c], "destroy", c)
    \/ c \in dropped /\ phase[io_loop[c]] = "left"

(* A connection whose removal is due is closed; so is one that is destroyed *)
(* when its loop has stopped.                                               *)
Closed ==
  /\ \A c \in Conns : Due(0, "remove", c) => state_[c] = "disconnected"
  /\ \A l \in 1 .. MaxThreads, c \in Conns :
       phase[l] = "left" /\ Due(l, "destroy", c) => state_[c] # "connected"

(* A connection whose close the user is being told of is still the loop's   *)
(* own, and closed.                                                         *)
Closing ==
  \A l \in Loops, c \in Conns : c \in inside[l] =>
    c < next_conn_id_ /\ io_loop[c] = l /\ state_[c] = "disconnected"

ConnInv ==
  /\ Known /\ Placed /\ Status /\ Based /\ Reported
  /\ Ordered /\ Awaited /\ Registered /\ Closed

(* The pointers.  The base loop that outlives the server without being      *)
(* exposed to it has no pool, no channel to handle or to return to, and no  *)
(* listen() left.                                                           *)
Unknown ==
  /\ pool = 0 /\ active[0] = {} /\ inside[0] = {}
  /\ \A f \in Queued(0) : f.op # "listen"

Hidden ==
  /\ server \in {"none", "up"} => ~exposed
  /\ ~exposed /\ server \in {"body", "pool", "gone"} /\ phase[0] # "left" => Unknown
  /\ ~exposed => \A l \in Loops, c \in Conns : c \in active[l] => watched[c]
  /\ undefined => exposed

Life == Typed /\ LoopInv /\ Closing /\ ConnInv /\ Hidden

-----------------------------------------------------------------------------
(* Queues.                                                                  *)

(* What is to do, by position.                                              *)
LEMMA TodoElements ==
  ASSUME NEW fs \in Seq(Calls), NEW ps \in Seq(Calls), NEW d \in Nat, d <= Len(fs)
  PROVE  LET t == SubSeq(fs, d + 1, Len(fs)) \o ps IN
         /\ t \in Seq(Calls) /\ Len(t) = (Len(fs) - d) + Len(ps)
         /\ \A i \in 1 .. Len(t) :
              t[i] = IF i <= Len(fs) - d THEN fs[d + i] ELSE ps[i - (Len(fs) - d)]
<1> DEFINE s == SubSeq(fs, d + 1, Len(fs))
<1>0. Len(fs) \in Nat /\ Len(ps) \in Nat
  BY LenProperties
<1>1. /\ s \in Seq(Calls) /\ Len(s) = Len(fs) - d
      /\ \A i \in 1 .. Len(fs) - d : s[i] = fs[d + i]
  <2>1. CASE d = Len(fs)
    <3>1. s = <<>>
      BY <1>0, <2>1
    <3> QED
      BY <1>0, <2>1, <3>1, EmptySeq
  <2>2. CASE d < Len(fs)
    <3>1. d + 1 \in 1 .. Len(fs) + 1 /\ Len(fs) \in (d + 1) - 1 .. Len(fs)
      BY <1>0, <2>2
    <3>2. s \in Seq(Calls) /\ Len(s) = Len(fs) - d
      BY <1>0, <2>2, <3>1, SubSeqProperties
    <3>3. ASSUME NEW i \in 1 .. Len(fs) - d PROVE s[i] = fs[d + i]
      BY <1>0, <2>2, <3>1, SubSeqProperties
    <3> QED
      BY <3>2, <3>3
  <2> QED
    BY <1>0, <2>1, <2>2
<1> HIDE DEF s
<1>2. s \o ps \in Seq(Calls) /\ Len(s \o ps) = Len(s) + Len(ps)
  BY <1>1, ConcatProperties
<1>3. ASSUME NEW i \in 1 .. Len(s \o ps)
      PROVE  (s \o ps)[i] = IF i <= Len(s) THEN s[i] ELSE ps[i - Len(s)]
  BY <1>1, <1>2, ConcatProperties
<1>4. ASSUME NEW i \in 1 .. Len(s \o ps)
      PROVE  (s \o ps)[i] = IF i <= Len(fs) - d THEN fs[d + i] ELSE ps[i - (Len(fs) - d)]
  BY <1>0, <1>1, <1>3
<1> QED
  BY <1>1, <1>2, <1>4 DEF s

LEMMA TodoType ==
  ASSUME Typed, NEW l \in Loops
  PROVE  Todo(l) \in Seq(Calls) /\ Len(Todo(l)) \in Nat
<1>1. /\ functors[l] \in Seq(Calls) /\ pending[l] \in Seq(Calls)
      /\ done[l] \in Nat /\ done[l] <= Len(functors[l])
  BY DEF Typed, Queues
<1>2. Todo(l) \in Seq(Calls)
  BY <1>1, TodoElements DEF Todo
<1> QED
  BY <1>2, LenProperties

LEMMA TodoSame ==
  ASSUME NEW l, pending'[l] = pending[l], functors'[l] = functors[l], done'[l] = done[l]
  PROVE  Todo(l)' = Todo(l) /\ Queued(l)' = Queued(l)
  BY DEF Todo, Queued

LEMMA RangeAppended ==
  ASSUME NEW p \in Seq(Calls), NEW f \in Calls
  PROVE  Range(Append(p, f)) = Range(p) \cup {f}
<1> DEFINE q == Append(p, f)
<1>1. /\ Len(p) \in Nat /\ DOMAIN p = 1 .. Len(p) /\ DOMAIN q = 1 .. Len(p) + 1
      /\ q[Len(p) + 1] = f /\ \A i \in 1 .. Len(p) : q[i] = p[i]
  BY AppendProperties, LenProperties
<1>2. 1 .. Len(p) + 1 = 1 .. Len(p) \cup {Len(p) + 1}
  BY <1>1
<1> HIDE DEF q
<1>3. Range(q) = Range(p) \cup {f}
  BY <1>1, <1>2 DEF Range
<1> QED
  BY <1>3 DEF q

(* A functor is pushed.                                                     *)
LEMMA TodoPushed ==
  ASSUME Typed, NEW l \in Loops, NEW f \in Calls,
         pending'[l] = Append(pending[l], f), functors'[l] = functors[l], done'[l] = done[l]
  PROVE  /\ Todo(l)' = Append(Todo(l), f)
         /\ Len(Todo(l)') = Len(Todo(l)) + 1
         /\ \A i \in 1 .. Len(Todo(l)) : Todo(l)'[i] = Todo(l)[i]
         /\ Todo(l)'[Len(Todo(l)) + 1] = f
         /\ Queued(l)' = Queued(l) \cup {f}
<1>1. /\ functors[l] \in Seq(Calls) /\ pending[l] \in Seq(Calls)
      /\ done[l] \in Nat /\ done[l] <= Len(functors[l])
  BY DEF Typed, Queues
<1> DEFINE s == SubSeq(functors[l], done[l] + 1, Len(functors[l]))
<1>2. s \in Seq(Calls)
  BY <1>1, SubSeqProperties
<1>3. Todo(l) = s \o pending[l] /\ Todo(l)' = s \o Append(pending[l], f)
  BY DEF Todo
<1> HIDE DEF s
<1>4. s \o Append(pending[l], f) = Append(s \o pending[l], f)
  <2> DEFINE p == pending[l]
  <2>1. p \in Seq(Calls)
    BY <1>1
  <2> HIDE DEF p
  <2>2. s \o Append(p, f) = Append(s \o p, f)
    BY <1>2, <2>1
  <2> QED
    BY <2>2 DEF p
<1>5. Todo(l)' = Append(Todo(l), f)
  BY <1>3, <1>4
<1>6. Todo(l) \in Seq(Calls)
  BY TodoType
<1>7. Range(Append(pending[l], f)) = Range(pending[l]) \cup {f}
  BY <1>1, RangeAppended
<1> HIDE DEF Todo
<1> QED
  BY <1>5, <1>6, <1>7, AppendProperties DEF Queued

(* The functor whose turn it is was the first to do.                        *)
LEMMA TodoCalled ==
  ASSUME Typed, NEW l \in Loops, done[l] < Len(functors[l]),
         pending'[l] = pending[l], functors'[l] = functors[l], done'[l] = done[l] + 1
  PROVE  /\ Len(Todo(l)) \in Nat /\ Len(Todo(l)) > 0
         /\ Todo(l)[1] = functors[l][done[l] + 1]
         /\ Len(Todo(l)') = Len(Todo(l)) - 1
         /\ \A i \in 1 .. Len(Todo(l)) - 1 : Todo(l)'[i] = Todo(l)[i + 1]
         /\ Queued(l)' = Queued(l)
<1> DEFINE fs == functors[l]
           ps == pending[l]
           d == done[l]
           n == Len(fs) - d
<1>1. /\ fs \in Seq(Calls) /\ ps \in Seq(Calls) /\ d \in Nat /\ d <= Len(fs)
      /\ Len(fs) \in Nat /\ Len(ps) \in Nat
  BY LenProperties DEF Typed, Queues
<1>2. /\ Len(Todo(l)) = n + Len(ps)
      /\ \A i \in 1 .. Len(Todo(l)) : Todo(l)[i] = IF i <= n THEN fs[d + i] ELSE ps[i - n]
  BY <1>1, TodoElements DEF Todo
<1>3. Todo(l)' = SubSeq(fs, (d + 1) + 1, Len(fs)) \o ps
  BY DEF Todo
<1>4. d + 1 \in Nat /\ d + 1 <= Len(fs)
  BY <1>1
<1>5. /\ Len(Todo(l)') = (Len(fs) - (d + 1)) + Len(ps)
      /\ \A i \in 1 .. Len(Todo(l)') :
           Todo(l)'[i] = IF i <= Len(fs) - (d + 1) THEN fs[(d + 1) + i]
                         ELSE ps[i - (Len(fs) - (d + 1))]
  <2> DEFINE e == d + 1
             u == SubSeq(fs, e + 1, Len(fs)) \o ps
  <2>1. e \in Nat /\ e <= Len(fs)
    BY <1>4
  <2> HIDE DEF e
  <2>2. /\ Len(u) = (Len(fs) - e) + Len(ps)
        /\ \A i \in 1 .. Len(u) :
             u[i] = IF i <= Len(fs) - e THEN fs[e + i] ELSE ps[i - (Len(fs) - e)]
    BY <1>1, <2>1, TodoElements
  <2>3. Todo(l)' = u
    BY <1>3 DEF e
  <2> HIDE DEF u
  <2> QED
    BY <2>2, <2>3 DEF e
<1>6. Queued(l)' = Queued(l)
  BY DEF Queued
<1> HIDE DEF fs, ps, d, Todo
<1>7. Len(fs) - (d + 1) = n - 1 /\ n \in Nat /\ n > 0
  BY <1>1, <1>4
<1>8. Len(Todo(l)) \in Nat /\ Len(Todo(l)) > 0 /\ Len(Todo(l)') = Len(Todo(l)) - 1
  BY <1>1, <1>2, <1>5, <1>7
<1>9. Todo(l)[1] = fs[d + 1]
  BY <1>2, <1>7, <1>8
<1>10. ASSUME NEW i \in 1 .. Len(Todo(l)) - 1 PROVE Todo(l)'[i] = Todo(l)[i + 1]
  <2>1. i \in 1 .. Len(Todo(l)') /\ i + 1 \in 1 .. Len(Todo(l)) /\ i \in Nat
    BY <1>8
  <2>2. (i <= n - 1 <=> i + 1 <= n) /\ (d + 1) + i = d + (i + 1) /\ i - (n - 1) = (i + 1) - n
    BY <1>1, <1>7, <2>1
  <2>3. Todo(l)'[i] = IF i <= n - 1 THEN fs[(d + 1) + i] ELSE ps[i - (n - 1)]
    BY <1>5, <1>7, <2>1
  <2>4. Todo(l)[i + 1] = IF i + 1 <= n THEN fs[d + (i + 1)] ELSE ps[(i + 1) - n]
    BY <1>2, <2>1
  <2> HIDE DEF n
  <2> QED
    BY <2>2, <2>3, <2>4
<1> QED
  BY <1>6, <1>8, <1>9, <1>10 DEF fs, d

(* doPendingFunctors() swaps the vectors.                                   *)
LEMMA TodoSwapped ==
  ASSUME Typed, NEW l \in Loops, functors[l] = <<>>, done[l] = 0, done'[l] = 0,
         functors'[l] = pending[l], pending'[l] = <<>>
  PROVE  Todo(l)' = Todo(l) /\ Queued(l)' = Queued(l)
<1>1. pending[l] \in Seq(Calls)
  BY DEF Typed, Queues
<1>2. Todo(l) = pending[l]
  BY <1>1 DEF Todo
<1>3. Todo(l)' = pending[l]
  BY <1>1 DEF Todo
<1>4. Queued(l)' = Queued(l)
  BY DEF Queued, Range
<1> QED
  BY <1>2, <1>3, <1>4

(* A batch is over.                                                         *)
LEMMA TodoEnded ==
  ASSUME Typed, NEW l \in Loops, done[l] = Len(functors[l]), done'[l] = 0,
         functors'[l] = <<>>, pending'[l] = pending[l] \/ pending'[l] = <<>>
  PROVE  /\ Todo(l) = pending[l] /\ Todo(l)' = pending'[l]
         /\ Queued(l)' \subseteq Queued(l)
<1>1. pending[l] \in Seq(Calls) /\ functors[l] \in Seq(Calls) /\ pending'[l] \in Seq(Calls)
  BY EmptySeq DEF Typed, Queues
<1>2. Todo(l) = pending[l]
  <2>1. SubSeq(functors[l], Len(functors[l]) + 1, Len(functors[l])) = <<>>
    BY <1>1
  <2> QED
    BY <1>1, <2>1 DEF Todo
<1>3. Todo(l)' = pending'[l]
  <2>1. SubSeq(<<>>, 0 + 1, Len(<<>>)) = <<>>
    OBVIOUS
  <2> QED
    BY <1>1, <2>1 DEF Todo
<1>4. Queued(l)' \subseteq Queued(l)
  <2>1. Range(<<>>) = {}
    BY DEF Range
  <2> QED
    BY <2>1 DEF Queued
<1> QED
  BY <1>2, <1>3, <1>4

(* What is to do is queued.                                                 *)
LEMMA TodoQueued ==
  ASSUME Typed, NEW l \in Loops, NEW i \in 1 .. Len(Todo(l))
  PROVE  Todo(l)[i] \in Queued(l)
<1> DEFINE fs == functors[l]
           ps == pending[l]
           d == done[l]
           n == Len(fs) - d
<1>1. /\ fs \in Seq(Calls) /\ ps \in Seq(Calls) /\ d \in Nat /\ d <= Len(fs)
      /\ Len(fs) \in Nat /\ Len(ps) \in Nat
      /\ DOMAIN fs = 1 .. Len(fs) /\ DOMAIN ps = 1 .. Len(ps)
  BY LenProperties DEF Typed, Queues
<1>2. /\ Len(Todo(l)) = n + Len(ps)
      /\ Todo(l)[i] = IF i <= n THEN fs[d + i] ELSE ps[i - n]
  BY <1>1, TodoElements, ZenonT(40) DEF Todo
<1> HIDE DEF fs, ps, d, Todo
<1>3. CASE i <= n
  <2>1. d + i \in DOMAIN fs
    BY <1>1, <1>2, <1>3
  <2> QED
    BY <1>2, <1>3, <2>1 DEF Queued, Range, fs
<1>4. CASE ~(i <= n)
  <2>1. i - n \in DOMAIN ps
    BY <1>1, <1>2, <1>4
  <2> QED
    BY <1>2, <1>4, <2>1 DEF Queued, Range, ps
<1> QED
  BY <1>3, <1>4

LEMMA DueIsQueued ==
  ASSUME Typed, NEW l \in Loops, NEW op, NEW c, Due(l, op, c)
  PROVE  \E f \in Queued(l) : f.op = op /\ f.conn = c
<1>1. PICK i \in 1 .. Len(Todo(l)) : Todo(l)[i] = Call(op, c)
  BY DEF Due
<1>2. Call(op, c) \in Queued(l)
  BY <1>1, TodoQueued
<1>3. Call(op, c).op = op /\ Call(op, c).conn = c
  BY DEF Call
<1> QED
  BY <1>2, <1>3

(* A connection is alive unless it is freed.                                *)
LEMMA AliveNotFreed ==
  ASSUME NEW c
  PROVE  c \in alive <=> ~Freed(c)
  BY DEF alive, Held, Freed, Queued

-----------------------------------------------------------------------------
(* The loops.                                                               *)

LEMMA LifeTypes ==
  ASSUME Typed
  PROVE  /\ phase \in [Loops -> Phases] /\ quit_ \in [Loops -> BOOLEAN]
         /\ active \in [Loops -> SUBSET (Conns \cup {Accept})]
         /\ inside \in [Loops -> SUBSET (Conns \cup {Accept})]
         /\ pending \in [Loops -> Seq(Calls)] /\ functors \in [Loops -> Seq(Calls)]
         /\ done \in [Loops -> Nat]
         /\ io_loop \in [Conns -> Loops] /\ state_ \in [Conns -> States]
         /\ watched \in [Conns -> BOOLEAN] /\ told \in [Conns -> Seq({"up", "down"})]
         /\ pool \in Nat /\ joining \in Nat /\ next_conn_id_ \in Nat
         /\ pool \in Loops /\ thread_num_ \in Loops /\ connections_ \subseteq Conns
         /\ 0 \in Loops /\ Loops = 0 .. MaxThreads /\ MaxThreads \in Nat
         /\ Conns \subseteq Nat /\ Accept \notin Conns /\ Accept = 0
<1>1. ServerTyped /\ Rounds /\ Queues /\ ConnsTyped
  BY DEF Typed
<1>2. /\ phase \in [Loops -> Phases] /\ quit_ \in [Loops -> BOOLEAN]
      /\ active \in [Loops -> SUBSET (Conns \cup {Accept})]
      /\ inside \in [Loops -> SUBSET (Conns \cup {Accept})]
  BY <1>1 DEF Rounds
<1>3. /\ pending \in [Loops -> Seq(Calls)] /\ functors \in [Loops -> Seq(Calls)]
      /\ done \in [Loops -> Nat]
  BY <1>1 DEF Queues
<1>4. /\ io_loop \in [Conns -> Loops] /\ state_ \in [Conns -> States]
      /\ watched \in [Conns -> BOOLEAN] /\ told \in [Conns -> Seq({"up", "down"})]
  BY <1>1 DEF ConnsTyped
<1>5. /\ pool \in Loops /\ thread_num_ \in Loops /\ connections_ \subseteq Conns
      /\ pool \in Nat /\ joining \in Nat /\ next_conn_id_ \in Nat
  BY <1>1, Bounds DEF ServerTyped
<1>6. /\ 0 \in Loops /\ Loops = 0 .. MaxThreads /\ MaxThreads \in Nat
      /\ Conns \subseteq Nat /\ Accept \notin Conns /\ Accept = 0
  BY Bounds DEF Loops, Accept
<1> QED
  BY <1>2, <1>3, <1>4, <1>5, <1>6

LEMMA LoopNumbers ==
  ASSUME Typed
  PROVE  /\ 1 .. MaxThreads \subseteq Loops \ {0} /\ 0 \in Loops
         /\ \A d \in Conns : io_loop[d] \in Loops
         /\ pool \in Nat /\ Loops \subseteq Nat
         /\ 1 .. MaxThreads \subseteq Loops /\ 1 .. pool \subseteq Loops
<1>1. 1 .. MaxThreads \subseteq Loops \ {0} /\ Loops \subseteq Nat
  BY Bounds DEF Loops
<1>2. 0 \in Loops /\ pool \in Nat /\ \A d \in Conns : io_loop[d] \in Loops
  BY LifeTypes
<1>3. 1 .. pool \subseteq Loops
  <2>1. pool \in Nat /\ pool <= MaxThreads /\ MaxThreads \in Nat
    BY Bounds DEF Typed, ServerTyped, Loops
  <2> QED
    BY <2>1 DEF Loops
<1> QED
  BY <1>1, <1>2, <1>3

(* Where listen() is called by the base loop, the server is up or gone.     *)
LEMMA ListenServer ==
  ASSUME Typed, ~Ends, RunListen
  PROVE  \/ server = "up" /\ server' \in {"up", "fatal"}
         \/ server = "gone" /\ UNCHANGED <<server, listenning_>>
<1>1. server \notin {"body", "pool", "fatal"}
  BY DEF Ends, RunListen, Turn, Runs, BaseFree
<1>2. functors[0] # <<>>
  <2>1. done[0] < Len(functors[0]) /\ done[0] \in Nat
    BY LifeTypes DEF RunListen, Turn
  <2> QED
    BY <2>1
<1>3. server # "none"
  BY <1>2, LifeTypes DEF Typed, Unstarted
<1> QED
  BY <1>1, <1>3 DEF Typed, ServerTyped, RunListen, listen, SocketCall

LEMMA NextThreads ==
  ASSUME Typed, LoopInv, Next
  PROVE  Threads'
<1>0. Threads /\ ~Ends
  BY Steps DEF LoopInv
<1>1. CASE \E l \in Loops : EnterLoop(l) \/ Poll(l) \/ SwapFunctors(l)
  <2>1. PICK l \in Loops : EnterLoop(l) \/ Poll(l) \/ SwapFunctors(l)
    BY <1>1
  <2>2. /\ phase[l] \in {"new", "poll", "events"} /\ UNCHANGED <<server, pool, joining>>
        /\ \E p \in {"poll", "events", "functors"} : phase' = [phase EXCEPT ![l] = p]
        /\ \A k \in Loops : quit_'[k] => quit_[k]
    BY <2>1, LifeTypes DEF EnterLoop, Poll, SwapFunctors
  <2>3. \A k \in Loops : /\ phase'[k] = "left" <=> phase[k] = "left"
                         /\ phase[k] = "none" => phase'[k] = "none"
    BY <2>2, LifeTypes
  <2>4. 1 .. pool \subseteq Loops /\ 1 .. MaxThreads \subseteq Loops
    BY LoopNumbers
  <2>5. Ending' = Ending
    BY <2>2 DEF Ending
  <2>6. /\ \A k \in Loops : k > pool' => phase'[k] = "none"
        /\ \A k \in 1 .. MaxThreads : quit_'[k] \/ phase'[k] = "left" => Ending'
    BY <1>0, <2>2, <2>3, <2>4, <2>5 DEF Threads
  <2>7. /\ \A k \in 1 .. pool' : k < joining' => phase'[k] = "left"
        /\ server' \in {"none", "up", "body"} => joining' = 1
        /\ server' = "gone" => joining' > pool'
    BY <1>0, <2>2, <2>3, <2>4 DEF Threads
  <2> QED
    BY <2>6, <2>7 DEF Threads
<1>2. CASE \E l \in Loops : EndRound(l)
  <2>1. PICK l \in Loops : EndRound(l)
    BY <1>2
  <2>2. /\ UNCHANGED <<server, pool, joining, quit_>> /\ phase[l] = "functors"
        /\ phase' = [phase EXCEPT ![l] = IF quit_[l] THEN "left" ELSE "poll"]
    BY <2>1 DEF EndRound
  <2>3. \A k \in Loops : /\ phase[k] = "left" => phase'[k] = "left"
                         /\ phase'[k] = "left" => phase[k] = "left" \/ quit_[k]
                         /\ phase[k] = "none" => phase'[k] = "none"
    BY <2>2, LifeTypes
  <2>4. 1 .. pool \subseteq Loops /\ 1 .. MaxThreads \subseteq Loops
    BY LoopNumbers
  <2> QED
    BY <1>0, <2>2, <2>3, <2>4 DEF Threads, Ending
<1>3. CASE \/ handleRead
           \/ \E l \in Loops, x \in Conns \cup {Accept} : HandleDestroyed(l, x)
           \/ \E l \in Loops, c \in Conns : handleClose(l, c)
  <2>1. UNCHANGED <<phase, quit_, server, pool, joining>>
    BY <1>3 DEF handleRead, HandleDestroyed, handleClose, Handle
  <2> QED
    BY <1>0, <2>1 DEF Threads, Ending
<1>14. CASE AcceptReturns \/ \E l \in Loops, c \in Conns : removeConnection(l, c)
  <2>1. UNCHANGED <<phase, quit_, server, pool, joining>>
    BY <1>14 DEF AcceptReturns, removeConnection, Returns
  <2> QED
    BY <1>0, <2>1 DEF Threads, Ending
<1>4. CASE \/ \E c \in Conns : RunRemove(c)
           \/ \E l \in Loops, c \in Conns : RunEstablish(l, c) \/ RunDestroy(l, c)
  <2>1. UNCHANGED <<phase, quit_, server, pool, joining>>
    BY <1>4 DEF RunRemove, RunEstablish, RunDestroy, Turn
  <2> QED
    BY <1>0, <2>1 DEF Threads, Ending
<1>5. CASE RunListen
  <2>1. UNCHANGED <<phase, quit_, pool, joining>>
    BY <1>5 DEF RunListen, Turn
  <2> QED
    BY <1>0, <1>5, <2>1, ListenServer DEF Threads, Ending
<1>6. CASE \E c \in Conns : DestroyConnection(c) \/ SendOrShutdown(c) \/ PeerClose(c)
  <2>1. UNCHANGED <<phase, quit_, server, pool, joining>>
    BY <1>6 DEF DestroyConnection, SendOrShutdown, PeerClose
  <2> QED
    BY <1>0, <2>1 DEF Threads, Ending
<1>7. CASE EndBody \/ StartDtor \/ DestroyAcceptor
  <2>1. UNCHANGED <<phase, quit_, pool, joining>>
    BY <1>7 DEF EndBody, StartDtor, DestroyAcceptor
  <2> QED
    BY <1>0, <1>7, <2>1 DEF Threads, Ending, EndBody, StartDtor, DestroyAcceptor
<1>8. CASE QuitThread
  BY <1>0, <1>8, LifeTypes DEF Threads, Ending, QuitThread
<1>9. CASE JoinThread
  <2>1. server = "pool" /\ joining <= pool
    BY <1>9 DEF JoinThread, Typed, Joining
  <2> QED
    BY <1>0, <1>9, <2>1, LifeTypes DEF Threads, Ending, JoinThread
<1>10. CASE QuitBase
  BY <1>0, <1>10, LifeTypes DEF Threads, Ending, QuitBase
<1>11. CASE Construct
  BY <1>0, <1>11 DEF Threads, Ending, Construct, CreateAcceptor, SocketCall
<1>12. CASE Connect \/ \E n \in Loops : setThreadPoolSize(n)
  BY <1>0, <1>12 DEF Threads, Ending, Connect, setThreadPoolSize
<1>13. CASE Start
  <2>1. /\ server = "up" /\ server' \in {"up", "fatal"} /\ pool' = thread_num_ /\ pool = 0
        /\ UNCHANGED <<quit_, joining>>
        /\ phase' = [l \in Loops |-> IF l \in 1 .. thread_num_ THEN "new" ELSE phase[l]]
    BY <1>13 DEF Start, StartThreads, listen, SocketCall, Typed, Unstarted
  <2> QED
    BY <1>0, <2>1, LifeTypes DEF Threads, Ending
<1> QED
  BY <1>1, <1>2, <1>3, <1>4, <1>5, <1>6, <1>7, <1>8, <1>9, <1>10, <1>11, <1>12, <1>13,
     <1>14, Steps

LEMMA NextInRound ==
  ASSUME Typed, LoopInv, Next
  PROVE  InRound'
<1>0. InRound
  BY DEF LoopInv
<1>1. CASE \E l \in Loops : EnterLoop(l)
  BY <1>0, <1>1, LifeTypes DEF InRound, EnterLoop
<1>2. CASE \E l \in Loops : Poll(l)
  <2>1. PICK l \in Loops : Poll(l)
    BY <1>2
  <2>2. Accept \in Ready(l) => l = 0
    BY LifeTypes DEF Ready
  <2> HIDE DEF Ready
  <2> QED
    BY <1>0, <2>1, <2>2, LifeTypes DEF InRound, Poll
<1>3. CASE \E l \in Loops : SwapFunctors(l)
  <2>1. PICK l \in Loops : SwapFunctors(l)
    BY <1>3
  <2>2. /\ active' = active /\ active[l] = {} /\ inside' = inside /\ inside[l] = {}
        /\ phase' = [phase EXCEPT ![l] = "functors"]
        /\ functors' = [functors EXCEPT ![l] = pending[l]]
    BY <2>1 DEF SwapFunctors
  <2> SUFFICES ASSUME NEW k \in Loops
               PROVE  /\ active'[k] # {} \/ inside'[k] # {} => phase'[k] = "events"
                      /\ Accept \in active'[k] => k = 0
                      /\ phase'[k] # "functors" => functors'[k] = <<>>
    BY DEF InRound
  <2>3. CASE k = l
    BY <2>2, <2>3, LifeTypes
  <2>4. CASE k # l
    BY <1>0, <2>2, <2>4, LifeTypes DEF InRound
  <2> QED
    BY <2>3, <2>4
<1>4. CASE \E l \in Loops : EndRound(l)
  <2>1. PICK l \in Loops : EndRound(l)
    BY <1>4
  <2> SUFFICES ASSUME NEW k \in Loops
               PROVE  /\ active'[k] # {} \/ inside'[k] # {} => phase'[k] = "events"
                      /\ Accept \in active'[k] => k = 0
                      /\ phase'[k] # "functors" => functors'[k] = <<>>
    BY DEF InRound
  <2>2. CASE k = l
    BY <1>0, <2>1, <2>2, LifeTypes DEF InRound, EndRound
  <2>3. CASE k # l
    BY <1>0, <2>1, <2>3, LifeTypes DEF InRound, EndRound
  <2> QED
    BY <2>2, <2>3
<1>5. CASE \/ handleRead
           \/ \E l \in Loops, x \in Conns \cup {Accept} : HandleDestroyed(l, x)
           \/ \E l \in Loops, c \in Conns : handleClose(l, c)
  <2>1. PICK l \in Loops :
          /\ \E x : Handle(l, x)
          /\ \A k \in Loops : k = l \/ inside'[k] = inside[k]
    BY <1>5, LifeTypes DEF handleRead, Accepted, HandleDestroyed, handleClose
  <2>2. /\ UNCHANGED <<phase, functors>> /\ phase[l] = "events"
        /\ \A k \in Loops : active'[k] \subseteq active[k]
    BY <2>1, LifeTypes DEF Handle
  <2> QED
    BY <1>0, <2>1, <2>2 DEF InRound
<1>11. CASE AcceptReturns \/ \E l \in Loops, c \in Conns : removeConnection(l, c)
  <2>1. PICK l \in Loops : \E x : Returns(l, x)
    BY <1>11, LifeTypes DEF AcceptReturns, removeConnection
  <2>2. /\ UNCHANGED <<phase, functors, active>>
        /\ \A k \in Loops : inside'[k] \subseteq inside[k]
    BY <2>1, LifeTypes DEF Returns
  <2> QED
    BY <1>0, <2>2 DEF InRound
<1>6. CASE \/ RunListen \/ \E c \in Conns : RunRemove(c)
           \/ \E l \in Loops, c \in Conns : RunEstablish(l, c) \/ RunDestroy(l, c)
  <2>1. UNCHANGED <<phase, functors, active, inside>>
    BY <1>6 DEF RunListen, RunRemove, RunEstablish, RunDestroy, Turn
  <2> QED
    BY <1>0, <2>1 DEF InRound
<1>7. CASE \E c \in Conns : DestroyConnection(c) \/ SendOrShutdown(c) \/ PeerClose(c)
  <2>1. UNCHANGED <<phase, functors, active, inside>>
    BY <1>7 DEF DestroyConnection, SendOrShutdown, PeerClose
  <2> QED
    BY <1>0, <2>1 DEF InRound
<1>8. CASE EndBody \/ QuitThread \/ JoinThread \/ DestroyAcceptor \/ StartDtor
  BY <1>0, <1>8 DEF InRound, EndBody, QuitThread, JoinThread, DestroyAcceptor, StartDtor
<1>9. CASE Construct \/ QuitBase \/ Connect \/ \E n \in Loops : setThreadPoolSize(n)
  BY <1>0, <1>9 DEF InRound, Construct, QuitBase, Connect, setThreadPoolSize
<1>10. CASE Start
  <2>1. \A l \in Loops : active'[l] = {} /\ inside'[l] = {} /\ functors'[l] = <<>>
    BY <1>10 DEF Start, Typed, Unstarted
  <2> QED
    BY <2>1 DEF InRound
<1> QED
  BY <1>1, <1>2, <1>3, <1>4, <1>5, <1>6, <1>7, <1>8, <1>9, <1>10, <1>11, Steps

LEMMA NextEmptied ==
  ASSUME Typed, LoopInv, Next
  PROVE  Emptied'
<1>0. Emptied /\ ~Ends
  BY Steps DEF LoopInv
<1>1. CASE \E l \in Loops : EnterLoop(l) \/ Poll(l) \/ SwapFunctors(l) \/ EndRound(l)
  BY <1>0, <1>1 DEF Emptied, Ending, EnterLoop, Poll, SwapFunctors, EndRound
<1>2. CASE \E l \in Loops, x \in Conns \cup {Accept} : HandleDestroyed(l, x)
  BY <1>0, <1>2 DEF Emptied, Ending, HandleDestroyed
<1>3. CASE \/ \E l \in Loops, c \in Conns : handleClose(l, c) \/ removeConnection(l, c)
           \/ AcceptReturns
  <2>1. connections_' \subseteq connections_ /\ UNCHANGED <<server, listenning_>>
    BY <1>3 DEF handleClose, AcceptReturns, removeConnection, removeConnectionInLoop
  <2> QED
    BY <1>0, <2>1 DEF Emptied, Ending
<1>4. CASE handleRead
  BY <1>0, <1>4 DEF Emptied, Ending, handleRead
<1>5. CASE \/ \E c \in Conns : RunRemove(c)
           \/ \E l \in Loops, c \in Conns : RunEstablish(l, c) \/ RunDestroy(l, c)
  <2>1. connections_' \subseteq connections_ /\ UNCHANGED <<server, listenning_>>
    BY <1>5 DEF RunRemove, RunEstablish, RunDestroy, removeConnectionInLoop
  <2> QED
    BY <1>0, <2>1 DEF Emptied, Ending
<1>6. CASE RunListen
  <2>1. connections_' = connections_
    BY <1>6 DEF RunListen
  <2> QED
    BY <1>0, <1>6, <2>1, ListenServer DEF Emptied, Ending
<1>7. CASE \E c \in Conns : DestroyConnection(c) \/ SendOrShutdown(c) \/ PeerClose(c)
  <2>1. connections_' \subseteq connections_ /\ UNCHANGED <<server, listenning_>>
    BY <1>7 DEF DestroyConnection, SendOrShutdown, PeerClose
  <2> QED
    BY <1>0, <2>1 DEF Emptied, Ending
<1>8. CASE EndBody \/ QuitThread \/ JoinThread \/ DestroyAcceptor \/ StartDtor \/ QuitBase
  BY <1>0, <1>8
  DEF Emptied, Ending, EndBody, QuitThread, JoinThread, DestroyAcceptor, StartDtor, QuitBase
<1>9. CASE Construct \/ Connect \/ Start \/ \E n \in Loops : setThreadPoolSize(n)
  BY <1>0, <1>9
  DEF Emptied, Ending, Construct, CreateAcceptor, SocketCall, Connect, Start, listen,
      setThreadPoolSize
<1> QED
  BY <1>1, <1>2, <1>3, <1>4, <1>5, <1>6, <1>7, <1>8, <1>9, Steps

-----------------------------------------------------------------------------
(* What the steps do to the queues.                                         *)

Kept(l) ==
  /\ \A op : \A c \in Conns : Due(l, op, c)' <=> Due(l, op, c)
  /\ Queued(l)' \subseteq Queued(l)

Pushed(l, o, d) ==
  /\ \A op, c : Due(l, op, c)' <=> Due(l, op, c) \/ (op = o /\ c = d)
  /\ Queued(l)' = Queued(l) \cup {Call(o, d)}

Called(l, o, d) ==
  /\ Due(l, o, d)
  /\ \A op, c : Due(l, op, c)' => Due(l, op, c)
  /\ \A op, c : Due(l, op, c) /\ ~(op = o /\ c = d) => Due(l, op, c)'
  /\ Queued(l)' = Queued(l)

LEMMA CallEqual ==
  ASSUME NEW op, NEW c, NEW o, NEW d
  PROVE  /\ Call(op, c) = Call(o, d) <=> op = o /\ c = d
         /\ Call(op, c).op = op /\ Call(op, c).conn = c
  BY DEF Call

LEMMA SameKept ==
  ASSUME NEW l, Todo(l)' = Todo(l), Queued(l)' \subseteq Queued(l), InOrder(Todo(l))
  PROVE  Kept(l) /\ InOrder(Todo(l))'
<1> DEFINE s == Todo(l)
<1>1. InOrder(Todo(l))' <=> InOrder(Todo(l))
  BY DEF InOrder
<1>2. ASSUME NEW op, NEW c PROVE Due(l, op, c)' <=> Due(l, op, c)
  BY DEF Due
<1> QED
  BY <1>1, <1>2 DEF Kept

(* A push of loop l, of something that may follow what is there.            *)
LEMMA PushEffect ==
  ASSUME Typed, NEW l \in Loops, NEW o, NEW d, Call(o, d) \in Calls,
         pending'[l] = Append(pending[l], Call(o, d)),
         functors'[l] = functors[l], done'[l] = done[l], InOrder(Todo(l)),
         o = "establish" => ~Due(l, "establish", d) /\ ~Due(l, "destroy", d)
  PROVE  Pushed(l, o, d) /\ InOrder(Todo(l))'
<1> DEFINE n == Len(Todo(l))
<1>1. /\ Len(Todo(l)') = n + 1 /\ Todo(l)'[n + 1] = Call(o, d) /\ n \in Nat
      /\ \A i \in 1 .. n : Todo(l)'[i] = Todo(l)[i]
      /\ Queued(l)' = Queued(l) \cup {Call(o, d)}
  BY TodoPushed, TodoType
<1>2. 1 .. Len(Todo(l)') = 1 .. n \cup {n + 1}
  BY <1>1
<1>3. ASSUME NEW op, NEW c
      PROVE  Due(l, op, c)' <=> Due(l, op, c) \/ (op = o /\ c = d)
  <2>1. ASSUME Due(l, op, c)' PROVE Due(l, op, c) \/ (op = o /\ c = d)
    <3>1. PICK i \in 1 .. Len(Todo(l)') : Todo(l)'[i] = Call(op, c)
      BY <2>1 DEF Due
    <3>2. CASE i \in 1 .. n
      <4>1. Todo(l)[i] = Call(op, c)
        BY <1>1, <3>1, <3>2
      <4> QED
        BY <3>2, <4>1 DEF Due
    <3>3. CASE i = n + 1
      BY <1>1, <3>1, <3>3, CallEqual
    <3> QED
      BY <1>2, <3>2, <3>3
  <2>2. ASSUME Due(l, op, c) PROVE Due(l, op, c)'
    <3>1. PICK i \in 1 .. n : Todo(l)[i] = Call(op, c)
      BY <2>2 DEF Due
    <3>2. i \in 1 .. Len(Todo(l)') /\ Todo(l)'[i] = Call(op, c)
      BY <1>1, <1>2, <3>1
    <3> QED
      BY <3>2 DEF Due
  <2>3. ASSUME op = o, c = d PROVE Due(l, op, c)'
    <3>1. n + 1 \in 1 .. Len(Todo(l)') /\ Todo(l)'[n + 1] = Call(op, c)
      BY <1>1, <1>2, <2>3
    <3> QED
      BY <3>1 DEF Due
  <2> QED
    BY <2>1, <2>2, <2>3
<1>4. ASSUME NEW c \in Conns, NEW i \in 1 .. Len(Todo(l)'),
             Todo(l)'[i] = Call("establish", c), NEW j \in 1 .. i - 1
      PROVE  Todo(l)'[j] # Call("destroy", c) /\ Todo(l)'[j] # Call("establish", c)
  <2>1. j \in 1 .. n /\ Todo(l)'[j] = Todo(l)[j]
    BY <1>1
  <2>2. CASE i \in 1 .. n
    BY <1>1, <1>4, <2>1, <2>2 DEF InOrder
  <2>3. CASE i = n + 1
    <3>1. o = "establish" /\ d = c
      BY <1>1, <1>4, <2>3, CallEqual
    <3>2. ~Due(l, "establish", c) /\ ~Due(l, "destroy", c)
      BY <3>1
    <3> QED
      BY <2>1, <3>2 DEF Due
  <2> QED
    BY <1>2, <2>2, <2>3
<1>5. InOrder(Todo(l))'
  BY <1>4 DEF InOrder
<1> QED
  BY <1>1, <1>3, <1>5 DEF Pushed

(* The call of a functor.  When connDestory() or connEstablish() is called, *)
(* no connEstablish() of the connection is left.                            *)
LEMMA CallEffect ==
  ASSUME Typed, NEW l \in Loops, NEW o, NEW d, done[l] < Len(functors[l]),
         functors[l][done[l] + 1] = Call(o, d), pending'[l] = pending[l],
         functors'[l] = functors[l], done'[l] = done[l] + 1, InOrder(Todo(l))
  PROVE  /\ Called(l, o, d) /\ InOrder(Todo(l))'
         /\ d \in Conns /\ o \in {"establish", "destroy"} => ~Due(l, "establish", d)'
<1> DEFINE n == Len(Todo(l))
<1>1. /\ n \in Nat /\ n > 0 /\ Todo(l)[1] = Call(o, d)
      /\ Len(Todo(l)') = n - 1 /\ Queued(l)' = Queued(l)
      /\ \A i \in 1 .. n - 1 : Todo(l)'[i] = Todo(l)[i + 1]
  BY TodoCalled
<1>2. Due(l, o, d)
  BY <1>1 DEF Due
<1>3. ASSUME NEW op, NEW c, Due(l, op, c)' PROVE Due(l, op, c)
  <2>1. PICK i \in 1 .. n - 1 : Todo(l)'[i] = Call(op, c)
    BY <1>1, <1>3 DEF Due
  <2>2. i + 1 \in 1 .. n /\ Todo(l)[i + 1] = Call(op, c)
    BY <1>1, <2>1
  <2> QED
    BY <2>2 DEF Due
<1>4. ASSUME NEW op, NEW c, Due(l, op, c), ~(op = o /\ c = d) PROVE Due(l, op, c)'
  <2>1. PICK i \in 1 .. n : Todo(l)[i] = Call(op, c)
    BY <1>4 DEF Due
  <2>2. i # 1
    BY <1>1, <1>4, <2>1, CallEqual
  <2>3. i - 1 \in 1 .. n - 1 /\ (i - 1) + 1 = i
    BY <1>1, <2>2
  <2>4. Todo(l)'[i - 1] = Call(op, c)
    BY <1>1, <2>1, <2>3
  <2> QED
    BY <1>1, <2>3, <2>4 DEF Due
<1>5. ASSUME NEW c \in Conns, NEW i \in 1 .. Len(Todo(l)'),
             Todo(l)'[i] = Call("establish", c), NEW j \in 1 .. i - 1
      PROVE  Todo(l)'[j] # Call("destroy", c) /\ Todo(l)'[j] # Call("establish", c)
  <2>1. /\ i + 1 \in 1 .. n /\ j + 1 \in 1 .. (i + 1) - 1
        /\ i \in 1 .. n - 1 /\ j \in 1 .. n - 1
    BY <1>1
  <2>2. Todo(l)[i + 1] = Call("establish", c) /\ Todo(l)'[j] = Todo(l)[j + 1]
    BY <1>1, <1>5, <2>1
  <2> QED
    BY <2>1, <2>2 DEF InOrder
<1>6. InOrder(Todo(l))'
  BY <1>5 DEF InOrder
<1>7. ASSUME d \in Conns, o \in {"establish", "destroy"}, Due(l, "establish", d)'
      PROVE  FALSE
  <2>1. PICK i \in 1 .. n - 1 : Todo(l)'[i] = Call("establish", d)
    BY <1>1, <1>7 DEF Due
  <2>2. i + 1 \in 1 .. n /\ 1 \in 1 .. (i + 1) - 1 /\ Todo(l)[i + 1] = Call("establish", d)
    BY <1>1, <2>1
  <2>3. Todo(l)[1] # Call("destroy", d) /\ Todo(l)[1] # Call("establish", d)
    BY <1>7, <2>2 DEF InOrder
  <2> QED
    BY <1>1, <1>7, <2>3
<1> QED
  BY <1>1, <1>2, <1>3, <1>4, <1>6, <1>7 DEF Called

-----------------------------------------------------------------------------
(* The connections.                                                         *)

(* Nothing more to handle or to return to, but the acceptor.                *)
Fewer(l) ==
  /\ active'[l] \subseteq active[l]
  /\ \A c \in Conns : c \in inside'[l] => c \in inside[l]

LEMMA FreedKept ==
  ASSUME NEW c \in Conns, Freed(c), c \in connections_' => c \in connections_,
         \A l \in Loops : /\ c \in inside'[l] => c \in inside[l]
                          /\ \A f \in Queued(l)' : f.conn = c => f \in Queued(l)
  PROVE  Freed(c)'
  BY DEF Freed

(* A step that leaves the connections and what is to do alone.              *)
LEMMA Unmoved ==
  ASSUME Typed, ConnInv,
         UNCHANGED <<connections_, io_loop, state_, watched, told, next_conn_id_, pool,
                     dropped>>,
         \A l \in Loops : /\ Kept(l) /\ InOrder(Todo(l))' /\ Fewer(l)
                          /\ phase'[l] = "left" <=> phase[l] = "left"
  PROVE  ConnInv'
<1>0. 1 .. MaxThreads \subseteq Loops /\ 0 \in Loops /\ \A c \in Conns : io_loop[c] \in Loops
  BY LoopNumbers
<1>1. Known' /\ Status'
  BY DEF ConnInv, Known, Status
<1>2. Placed'
  BY DEF ConnInv, Placed, Kept
<1>3. Based'
  BY <1>0 DEF ConnInv, Based, Kept
<1>4. Reported'
  <2> SUFFICES ASSUME NEW l \in Loops, NEW c \in Conns, c \in active'[l]
               PROVE  /\ c < next_conn_id_' /\ io_loop'[c] = l
                      /\ watched'[c] \/ Freed(c)'
    BY DEF Reported
  <2>1. Freed(c) => Freed(c)'
    BY FreedKept DEF Kept, Fewer
  <2> QED
    BY <2>1 DEF ConnInv, Reported, Fewer
<1>5. Ordered'
  BY DEF Ordered
<1>6. Awaited'
  BY DEF ConnInv, Awaited, Kept
<1>7. Registered'
  BY <1>0 DEF ConnInv, Registered, Kept
<1>8. Closed'
  BY <1>0 DEF ConnInv, Closed, Kept
<1> QED
  BY <1>1, <1>2, <1>3, <1>4, <1>5, <1>6, <1>7, <1>8 DEF ConnInv

(* All queues stay as they are.                                             *)
LEMMA AllKept ==
  ASSUME ConnInv, UNCHANGED <<pending, functors, done>>
  PROVE  \A l \in Loops : Kept(l) /\ InOrder(Todo(l))' /\ Queued(l)' = Queued(l)
<1> SUFFICES ASSUME NEW l \in Loops
             PROVE  Kept(l) /\ InOrder(Todo(l))' /\ Queued(l)' = Queued(l)
  OBVIOUS
<1>1. Todo(l)' = Todo(l) /\ Queued(l)' = Queued(l)
  BY TodoSame
<1> QED
  BY <1>1, SameKept DEF ConnInv, Ordered

LEMMA QuietConns ==
  ASSUME Typed, ConnInv,
         UNCHANGED <<connections_, io_loop, state_, watched, told, next_conn_id_, pool,
                     dropped, pending, functors, done>>,
         \A l \in Loops : Fewer(l) /\ (phase'[l] = "left" <=> phase[l] = "left")
  PROVE  ConnInv'
  BY AllKept, Unmoved

LEMMA PollConns ==
  ASSUME Typed, ConnInv, NEW l \in Loops, Poll(l)
  PROVE  ConnInv'
<1>0. /\ UNCHANGED <<connections_, io_loop, state_, watched, told, next_conn_id_, pool,
                     dropped, pending, functors, done, inside>>
      /\ phase[l] = "poll" /\ phase' = [phase EXCEPT ![l] = "events"]
      /\ active' = [active EXCEPT ![l] = Ready(l)]
  BY DEF Poll
<1>1. \A k \in Loops : phase'[k] = "left" <=> phase[k] = "left"
  BY <1>0, LifeTypes
<1>2. \A k \in Loops : Kept(k) /\ InOrder(Todo(k))' /\ Queued(k)' = Queued(k)
  BY <1>0, AllKept
<1>3. 1 .. MaxThreads \subseteq Loops /\ 0 \in Loops /\ \A c \in Conns : io_loop[c] \in Loops
  BY LoopNumbers
<1>4. Known' /\ Status' /\ Placed'
  BY <1>0, <1>2 DEF ConnInv, Known, Status, Placed
<1>5. Based' /\ Ordered'
  BY <1>0, <1>2, <1>3 DEF ConnInv, Based, Ordered
<1>6. Awaited'
  BY <1>0, <1>2 DEF ConnInv, Awaited, Kept
<1>7. Registered' /\ Closed'
  BY <1>0, <1>1, <1>2, <1>3 DEF ConnInv, Registered, Closed, Kept
<1>8. Reported'
  <2> SUFFICES ASSUME NEW k \in Loops, NEW c \in Conns, c \in active'[k]
               PROVE  /\ c < next_conn_id_' /\ io_loop'[c] = k
                      /\ watched'[c] \/ Freed(c)'
    BY DEF Reported
  <2>1. CASE k = l
    <3>1. c \in Ready(l) /\ c # Accept
      BY <1>0, <2>1, LifeTypes
    <3>2. io_loop[c] = l /\ watched[c]
      BY <3>1 DEF Ready
    <3> QED
      BY <1>0, <2>1, <3>2 DEF ConnInv, Known
  <2>2. CASE k # l
    <3>1. c \in active[k]
      BY <1>0, <2>2, LifeTypes
    <3>2. Freed(c) => Freed(c)'
      BY <1>0, <1>2 DEF Freed
    <3> QED
      BY <1>0, <3>1, <3>2 DEF ConnInv, Reported
  <2> QED
    BY <2>1, <2>2
<1> QED
  BY <1>4, <1>5, <1>6, <1>7, <1>8 DEF ConnInv

LEMMA SwapConns ==
  ASSUME Typed, LoopInv, ConnInv, NEW l \in Loops, SwapFunctors(l)
  PROVE  ConnInv'
<1>1. /\ functors[l] = <<>> /\ done[l] = 0 /\ done' = done
      /\ functors' = [functors EXCEPT ![l] = pending[l]]
      /\ pending' = [pending EXCEPT ![l] = <<>>]
  BY DEF SwapFunctors, LoopInv, InRound, Typed, Queues
<1>2. ASSUME NEW k \in Loops PROVE Kept(k) /\ InOrder(Todo(k))'
  <2>1. CASE k = l
    BY <1>1, <2>1, LifeTypes, TodoSwapped, SameKept DEF ConnInv, Ordered
  <2>2. CASE k # l
    BY <1>1, <2>2, LifeTypes, TodoSame, SameKept DEF ConnInv, Ordered
  <2> QED
    BY <2>1, <2>2
<1>3. /\ UNCHANGED <<connections_, io_loop, state_, watched, told, next_conn_id_, pool,
                     dropped>>
      /\ \A k \in Loops : Fewer(k) /\ (phase'[k] = "left" <=> phase[k] = "left")
  BY LifeTypes DEF SwapFunctors, Fewer
<1> QED
  BY <1>2, <1>3, Unmoved

(* The end of a round.  Where a thread leaves its loop, the connections it  *)
(* was still to destroy are recorded as dropped.                            *)
LEMMA EndConns ==
  ASSUME Typed, LoopInv, ConnInv, NEW l \in Loops, EndRound(l)
  PROVE  ConnInv'
<1>0. /\ UNCHANGED <<connections_, io_loop, state_, watched, told, next_conn_id_, pool,
                     active, inside>>
      /\ phase[l] = "functors" /\ done[l] = Len(functors[l])
      /\ functors' = [functors EXCEPT ![l] = <<>>] /\ done' = [done EXCEPT ![l] = 0]
      /\ phase' = [phase EXCEPT ![l] = IF quit_[l] THEN "left" ELSE "poll"]
  BY DEF EndRound
<1>1. /\ 1 .. MaxThreads \subseteq Loops /\ 0 \in Loops
      /\ \A c \in Conns : io_loop[c] \in Loops
  BY LoopNumbers
<1>2. ASSUME NEW k \in Loops, k # l, pending'[k] = pending[k]
      PROVE  Kept(k) /\ InOrder(Todo(k))' /\ Queued(k)' = Queued(k)
  <2>1. functors'[k] = functors[k] /\ done'[k] = done[k]
    BY <1>0, <1>2, LifeTypes
  <2> QED
    BY <1>2, <2>1, TodoSame, SameKept DEF ConnInv, Ordered
<1>3. functors'[l] = <<>> /\ done'[l] = 0
  BY <1>0, LifeTypes
<1>4. CASE ~(quit_[l] /\ l # 0)
  <2>1. UNCHANGED <<pending, dropped>>
    BY <1>4 DEF EndRound
  <2>2. Kept(l) /\ InOrder(Todo(l))'
    BY <1>0, <1>3, <2>1, TodoEnded, SameKept DEF ConnInv, Ordered
  <2>3. \A k \in Loops : Kept(k) /\ InOrder(Todo(k))'
    BY <1>2, <2>1, <2>2
  <2>4. \A k \in Loops \ {0} : phase'[k] = "left" <=> phase[k] = "left"
    BY <1>0, <1>4, LifeTypes
  <2>5. Known' /\ Status'
    BY <1>0 DEF ConnInv, Known, Status
  <2>6. Placed'
    BY <1>0, <2>3 DEF ConnInv, Placed, Kept
  <2>7. Based'
    BY <1>0, <1>1, <2>3 DEF ConnInv, Based, Kept
  <2>8. Reported'
    <3> SUFFICES ASSUME NEW k \in Loops, NEW c \in Conns, c \in active'[k]
                 PROVE  /\ c < next_conn_id_' /\ io_loop'[c] = k
                        /\ watched'[c] \/ Freed(c)'
      BY DEF Reported
    <3>1. Freed(c) => Freed(c)'
      BY <1>0, <2>3, FreedKept DEF Kept
    <3> QED
      BY <1>0, <3>1 DEF ConnInv, Reported
  <2>9. Ordered' /\ Awaited'
    BY <1>0, <2>3 DEF ConnInv, Ordered, Awaited, Kept
  <2>10. Registered'
    <3>1. \A k \in Loops : phase[k] = "left" => phase'[k] = "left"
      BY <1>0, LifeTypes
    <3> QED
      BY <1>0, <1>1, <2>1, <2>3, <3>1 DEF ConnInv, Registered, Kept
  <2>11. Closed'
    <3>a. 1 .. MaxThreads \subseteq Loops \ {0}
      BY <1>1
    <3>1. \A k \in 1 .. MaxThreads : phase'[k] = "left" <=> phase[k] = "left"
      BY <2>4, <3>a
    <3> QED
      BY <1>0, <1>1, <2>3, <3>1 DEF ConnInv, Closed, Kept
  <2> QED
    BY <2>5, <2>6, <2>7, <2>8, <2>9, <2>10, <2>11 DEF ConnInv
<1>5. CASE quit_[l] /\ l # 0
  <2>1. /\ pending' = [pending EXCEPT ![l] = <<>>]
        /\ dropped' = dropped \cup
                        {f.conn : f \in {g \in Range(pending[l]) : g.op = "destroy"}}
    BY <1>5 DEF EndRound
  <2>2. \A k \in Loops : k # l => Kept(k) /\ InOrder(Todo(k))' /\ Queued(k)' = Queued(k)
    BY <1>2, <2>1, LifeTypes
  <2>3. pending'[l] = <<>>
    BY <2>1, LifeTypes
  <2>4. Todo(l) = pending[l] /\ Todo(l)' = <<>> /\ Queued(l)' \subseteq Queued(l)
    BY <1>0, <1>3, <2>3, TodoEnded
  <2>5. InOrder(Todo(l))' /\ \A op, c : ~Due(l, op, c)'
    BY <2>4 DEF InOrder, Due
  <2>6. ASSUME NEW c \in Conns, Due(l, "destroy", c) PROVE c \in dropped'
    <3>1. PICK i \in 1 .. Len(pending[l]) : pending[l][i] = Call("destroy", c)
      BY <2>4, <2>6 DEF Due
    <3>2. Call("destroy", c) \in Range(pending[l])
      <4>1. pending[l] \in Seq(Calls)
        BY LifeTypes
      <4>2. DOMAIN pending[l] = 1 .. Len(pending[l])
        BY <4>1, LenProperties
      <4> QED
        BY <3>1, <4>2 DEF Range
    <3> QED
      BY <2>1, <3>2, CallEqual
  <2>7. /\ phase'[l] = "left"
        /\ \A k \in Loops : k # l => phase'[k] = phase[k]
    BY <1>0, <1>5, LifeTypes
  <2>8. Known' /\ Status'
    BY <1>0 DEF ConnInv, Known, Status
  <2>9. \A k \in Loops : Queued(k)' \subseteq Queued(k)
    BY <2>2, <2>4
  <2>10. Placed' /\ Based'
    BY <1>0, <1>1, <2>9 DEF ConnInv, Placed, Based
  <2>11. Reported'
    <3> SUFFICES ASSUME NEW k \in Loops, NEW c \in Conns, c \in active'[k]
                 PROVE  /\ c < next_conn_id_' /\ io_loop'[c] = k
                        /\ watched'[c] \/ Freed(c)'
      BY DEF Reported
    <3>1. Freed(c) => Freed(c)'
      BY <1>0, <2>9, FreedKept
    <3> QED
      BY <1>0, <3>1 DEF ConnInv, Reported
  <2>12. Ordered'
    BY <2>2, <2>5 DEF Ordered
  <2>13. Awaited'
    BY <1>0, <2>2, <2>5 DEF ConnInv, Awaited, Kept
  <2>14. Registered'
    <3> SUFFICES ASSUME NEW c \in Conns, watched[c], NEW k \in Loops, k = io_loop[c]
                 PROVE  \/ c \in connections_ \/ Due(k, "destroy", c)'
                        \/ c \in dropped' /\ phase'[k] = "left"
      BY <1>0, <1>1 DEF Registered, Due
    <3>0. \/ c \in connections_ \/ Due(k, "destroy", c)
          \/ c \in dropped /\ phase[k] = "left"
      BY DEF ConnInv, Registered
    <3>1. CASE k = l
      BY <2>6, <2>7, <3>0, <3>1, <2>1
    <3>2. CASE k # l
      BY <2>1, <2>2, <2>7, <3>0, <3>2 DEF Kept
    <3> QED
      BY <3>1, <3>2
  <2>15. Closed'
    <3>1. \A c \in Conns : Due(0, "remove", c)' => state_'[c] = "disconnected"
      BY <1>0, <1>1, <1>5, <2>2 DEF ConnInv, Closed, Kept
    <3>2. ASSUME NEW k \in 1 .. MaxThreads, NEW c \in Conns, phase'[k] = "left",
                 Due(k, "destroy", c)'
          PROVE  state_'[c] # "connected"
      BY <1>0, <1>1, <2>2, <2>5, <2>7, <3>2 DEF ConnInv, Closed, Kept
    <3> QED
      BY <3>1, <3>2 DEF Closed
  <2> QED
    BY <2>8, <2>10, <2>11, <2>12, <2>13, <2>14, <2>15 DEF ConnInv
<1> QED
  BY <1>4, <1>5

(* Where a functor that is due may be.                                      *)
LEMMA DuePlaced ==
  ASSUME Typed, Placed, NEW l \in Loops, NEW op, NEW c, Due(l, op, c)
  PROVE  /\ op = "listen" => l = 0 /\ c = Accept
         /\ op # "listen" => c < next_conn_id_
         /\ op \in {"establish", "destroy"} => io_loop[c] = l
         /\ op = "establish" => l # 0
         /\ op = "remove" => l = 0 /\ pool > 0
  BY DueIsQueued DEF Placed

(* A callback has sent or shut down.                                        *)
LEMMA SendConns ==
  ASSUME Typed, ConnInv, NEW c \in Conns, SendOrShutdown(c)
  PROVE  ConnInv'
<1>0. /\ UNCHANGED <<connections_, io_loop, watched, told, next_conn_id_, pool, dropped,
                     pending, functors, done, active, inside, phase>>
      /\ state_[c] = "connected"
      /\ \A d \in Conns : state_'[d] = IF d = c THEN "disconnecting" ELSE state_[d]
  BY LifeTypes DEF SendOrShutdown
<1>1. \A l \in Loops : Kept(l) /\ InOrder(Todo(l))' /\ Queued(l)' = Queued(l)
  BY <1>0, AllKept
<1>2. /\ 1 .. MaxThreads \subseteq Loops /\ 0 \in Loops
      /\ \A d \in Conns : io_loop[d] \in Loops
  BY LoopNumbers
<1>3. watched[c] /\ told[c] = <<"up">> /\ told[c] # <<>>
  BY <1>0 DEF ConnInv, Status
<1>4. Known'
  BY <1>0, <1>3 DEF ConnInv, Known
<1>5. Status'
  BY <1>0, <1>3 DEF ConnInv, Status
<1>6. Placed' /\ Based'
  BY <1>0, <1>1, <1>2 DEF ConnInv, Placed, Based
<1>7. Reported'
  <2>1. \A d \in Conns : Freed(d) => Freed(d)'
    BY <1>0, <1>1 DEF Freed
  <2> QED
    BY <1>0, <2>1 DEF ConnInv, Reported
<1>8. Ordered' /\ Awaited'
  BY <1>0, <1>1, <1>3 DEF ConnInv, Ordered, Awaited, Kept
<1>9. Registered'
  BY <1>0, <1>1, <1>2 DEF ConnInv, Registered, Kept
<1>10. Closed'
  BY <1>0, <1>1, <1>2 DEF ConnInv, Closed, Kept
<1> QED
  BY <1>4, <1>5, <1>6, <1>7, <1>8, <1>9, <1>10 DEF ConnInv

LEMMA QueuedCalls ==
  ASSUME Typed, NEW l \in Loops, NEW f \in Queued(l)
  PROVE  f \in Calls
<1>1. pending[l] \in Seq(Calls) /\ functors[l] \in Seq(Calls)
  BY LifeTypes
<1>2. ASSUME NEW s \in Seq(Calls) PROVE Range(s) \subseteq Calls
  BY DEF Range
<1> QED
  BY <1>1, <1>2 DEF Queued

(* No queue knows of a connection that is not there yet.                    *)
LEMMA Fresh ==
  ASSUME Typed, ConnInv, next_conn_id_ \in Conns
  PROVE  /\ \A l \in Loops : \A op : ~Due(l, op, next_conn_id_)
         /\ \A l \in Loops : \A f \in Queued(l) :
              f.conn # next_conn_id_ /\ (f.op # "listen" => f.conn \in Conns)
<1> DEFINE c == next_conn_id_
<1>1. c \in Nat /\ c # Accept /\ Conns \subseteq Nat
  BY LifeTypes
<1>2. ~(c < c)
  BY <1>1
<1>3. \A l \in Loops : \A op : ~Due(l, op, c)
  BY <1>1, <1>2, DuePlaced DEF ConnInv
<1>4. ASSUME NEW l \in Loops, NEW f \in Queued(l)
      PROVE  f.conn # c /\ (f.op # "listen" => f.conn \in Conns)
  <2>1. f \in Calls
    BY QueuedCalls
  <2>2. f.op # "listen" => f.conn \in Conns /\ f.conn < c
    BY <2>1 DEF ConnInv, Placed, Calls
  <2>3. f.op = "listen" => f.conn = Accept
    BY DEF ConnInv, Placed
  <2> HIDE DEF c
  <2> QED
    BY <1>1, <1>2, <2>2, <2>3
<1> QED
  BY <1>3, <1>4

(* The acceptor's channel was handled; the user's callback that may run     *)
(* inside it is not one of a close.                                         *)
LEMMA AcceptFewer ==
  ASSUME Typed, handleRead
  PROVE  \A l \in Loops : Fewer(l)
<1>1. inside' = inside \/ inside' = [inside EXCEPT ![0] = {Accept}]
  BY DEF handleRead, Accepted
<1>2. active' = [active EXCEPT ![0] = @ \ {Accept}]
  BY DEF handleRead, Handle
<1>3. ASSUME NEW l \in Loops, NEW c \in Conns, c \in inside'[l] PROVE c \in inside[l]
  <2>1. inside'[l] = inside[l] \/ inside'[l] = {Accept}
    BY <1>1, LifeTypes
  <2>2. c # Accept
    BY Bounds
  <2> QED
    BY <1>3, <2>1, <2>2
<1>4. \A l \in Loops : active'[l] \subseteq active[l]
  BY <1>2, LifeTypes
<1> QED
  BY <1>3, <1>4 DEF Fewer

(* A client is accepted for the base loop.                                  *)
LEMMA AcceptBaseConns ==
  ASSUME Typed, ConnInv, handleRead, FdFree, newConnection(0), \A l \in Loops : Fewer(l)
  PROVE  ConnInv'
<1> DEFINE c == next_conn_id_
<1>0. c \in Conns /\ pool' = pool /\ pool = 0 /\ UNCHANGED <<dropped, functors, done, phase>>
  BY AcceptHasClient, NextLoop DEF handleRead, newConnection, Handle
<1>1. told[c] = <<>> /\ state_[c] = "connecting" /\ c \in Nat
  BY <1>0, LifeTypes DEF ConnInv, Known
<1>2. /\ next_conn_id_' = c + 1 /\ connections_' = connections_ \cup {c} /\ pending' = pending
      /\ io_loop'[c] = 0 /\ \A d \in Conns \ {c} : io_loop'[d] = io_loop[d]
      /\ state_'[c] = "connected" /\ \A d \in Conns \ {c} : state_'[d] = state_[d]
      /\ watched'[c] = TRUE /\ \A d \in Conns \ {c} : watched'[d] = watched[d]
      /\ told'[c] = <<"up">> /\ \A d \in Conns \ {c} : told'[d] = told[d]
  <2>1. Append(<<>>, "up") = <<"up">>
    OBVIOUS
  <2> QED
    BY <1>0, <1>1, <2>1, LifeTypes DEF newConnection, connEstablish
<1>3. \A l \in Loops : /\ active'[l] \subseteq active[l]
                       /\ \A d \in Conns : d \in inside'[l] => d \in inside[l]
  BY DEF Fewer
<1>4. \A l \in Loops : Kept(l) /\ InOrder(Todo(l))' /\ Queued(l)' = Queued(l)
  BY <1>0, <1>2, AllKept
<1>5. /\ 1 .. MaxThreads \subseteq Loops /\ 0 \in Loops
      /\ \A d \in Conns : io_loop[d] \in Loops
      /\ Conns \subseteq Nat
  BY LoopNumbers, LifeTypes
<1> HIDE DEF c
<1>6. \A l \in Loops : \A op : ~Due(l, op, c)
  BY <1>0, Fresh DEF c
<1>7. ASSUME NEW l \in Loops, NEW f \in Queued(l)
      PROVE  f.conn # c /\ (f.op # "listen" => f.conn \in Conns)
  BY <1>0, Fresh DEF c
<1>8. Known'
  <2> SUFFICES ASSUME NEW d \in Conns
               PROVE  /\ d \in connections_' \/ watched'[d] => d < c + 1
                      /\ d >= c + 1 => told'[d] = <<>> /\ state_'[d] = "connecting"
                      /\ d < c + 1 => io_loop'[d] <= pool /\ (io_loop'[d] = 0 <=> pool = 0)
    BY <1>0, <1>2 DEF Known
  <2>1. CASE d = c
    BY <1>0, <1>2, <1>5, <2>1
  <2>2. CASE d # c
    <3>1. (d < c + 1 <=> d < c) /\ (d >= c + 1 <=> d >= c)
      BY <1>1, <1>5, <2>2
    <3> QED
      BY <1>2, <2>2, <3>1 DEF ConnInv, Known, c
  <2> QED
    BY <2>1, <2>2
<1>9. Status'
  BY <1>2 DEF ConnInv, Status
<1>10. Placed'
  <2> SUFFICES ASSUME NEW l \in Loops, NEW f \in Queued(l)
               PROVE  /\ f.op = "listen" => l = 0 /\ f.conn = Accept
                      /\ f.op # "listen" => f.conn < c + 1
                      /\ f.op \in {"establish", "destroy"} => io_loop'[f.conn] = l
                      /\ f.op = "establish" => l # 0
                      /\ f.op = "remove" => l = 0 /\ pool > 0
    BY <1>0, <1>2, <1>4 DEF Placed
  <2>1. f.op # "listen" => f.conn < c + 1
    <3>1. f.op # "listen" => f.conn < c
      BY DEF ConnInv, Placed, c
    <3> QED
      <4> DEFINE e == f.conn
      <4>1. c \in Nat
        BY <1>1
      <4>2. f.op # "listen" => e \in Nat /\ e < c
        BY <1>5, <1>7, <3>1
      <4> HIDE DEF e
      <4>3. f.op # "listen" => e < c + 1
        BY <4>1, <4>2
      <4> QED
        BY <4>3 DEF e
  <2>2. f.op \in {"establish", "destroy"} => io_loop'[f.conn] = l
    BY <1>2, <1>7 DEF ConnInv, Placed
  <2> QED
    BY <2>1, <2>2 DEF ConnInv, Placed
<1>11. Based'
  <2> SUFFICES ASSUME NEW d \in Conns, io_loop'[d] = 0
               PROVE  /\ watched'[d] => d \in connections_'
                      /\ d \in connections_' => \A f \in Queued(0) : f.conn # d
    BY <1>4, <1>5 DEF Based
  <2>1. CASE d = c
    BY <1>2, <1>5, <1>7, <2>1
  <2>2. CASE d # c
    BY <1>2, <2>2 DEF ConnInv, Based
  <2> QED
    BY <2>1, <2>2
<1>12. Reported'
  <2> SUFFICES ASSUME NEW l \in Loops, NEW d \in Conns, d \in active'[l]
               PROVE  d < c + 1 /\ io_loop'[d] = l /\ (watched'[d] \/ Freed(d)')
    BY <1>2 DEF Reported
  <2>1. d \in active[l] /\ d < c /\ io_loop[d] = l /\ (watched[d] \/ Freed(d))
    BY <1>3 DEF ConnInv, Reported, c
  <2>2. d # c /\ d < c + 1
    BY <1>1, <1>5, <2>1
  <2>3. Freed(d) => Freed(d)'
    BY <1>2, <1>3, <1>4, <2>2 DEF Freed
  <2> QED
    BY <1>2, <2>1, <2>2, <2>3
<1>13. Ordered'
  BY <1>4 DEF Ordered
<1>14. Awaited'
  BY <1>2, <1>4, <1>6 DEF ConnInv, Awaited, Kept
<1>15. Registered'
  <2> SUFFICES ASSUME NEW d \in Conns, watched'[d], NEW l \in Loops, l = io_loop'[d]
               PROVE  \/ d \in connections_' \/ Due(l, "destroy", d)'
                      \/ d \in dropped' /\ phase'[l] = "left"
    <3>1. \A d \in Conns : io_loop'[d] \in Loops
      BY <1>2, <1>5
    <3> QED
      BY <3>1 DEF Registered, Due
  <2>1. CASE d = c
    BY <1>2, <2>1
  <2>2. CASE d # c
    <3>1. watched[d] /\ l = io_loop[d]
      BY <1>2, <2>2
    <3>2. d \in connections_ \/ Due(l, "destroy", d) \/ (d \in dropped /\ phase[l] = "left")
      BY <3>1 DEF ConnInv, Registered
    <3> QED
      BY <1>0, <1>2, <1>4, <3>2 DEF Kept
  <2> QED
    BY <2>1, <2>2
<1>16. Closed'
  BY <1>0, <1>2, <1>4, <1>5, <1>6 DEF ConnInv, Closed, Kept
<1> QED
  BY <1>8, <1>9, <1>10, <1>11, <1>12, <1>13, <1>14, <1>15, <1>16 DEF ConnInv

(* A client is accepted for loop k of the pool.                             *)
LEMMA AcceptPoolConns ==
  ASSUME Typed, ConnInv, handleRead, FdFree, NEW k \in Loops \ {0}, newConnection(k),
         \A l \in Loops : Fewer(l)
  PROVE  ConnInv'
<1> DEFINE c == next_conn_id_
<1>0. /\ c \in Conns /\ pool' = pool /\ pool # 0 /\ k <= pool
      /\ UNCHANGED <<dropped, functors, done, phase, state_, watched, told>>
  <2>1. c \in Conns
    BY AcceptHasClient
  <2>2. k # 0 /\ getNextLoop(k)
    BY DEF newConnection
  <2>3. pool # 0 /\ (pool > 0 => k <= pool)
    BY <2>2, NextLoop
  <2>4. pool > 0
    BY <2>3, LifeTypes
  <2>5. pool' = pool /\ UNCHANGED <<dropped, functors, done, phase, state_, watched, told>>
    BY <2>2 DEF handleRead, newConnection, Handle
  <2> QED
    BY <2>1, <2>3, <2>4, <2>5
<1>1. told[c] = <<>> /\ state_[c] = "connecting" /\ c \in Nat
  <2>1. c \in Nat /\ c >= c
    BY LifeTypes
  <2> QED
    BY <1>0, <2>1 DEF ConnInv, Known
<1>2. /\ next_conn_id_' = c + 1 /\ connections_' = connections_ \cup {c}
      /\ pending' = [pending EXCEPT ![k] = Append(pending[k], Call("establish", c))]
      /\ io_loop'[c] = k /\ \A d \in Conns \ {c} : io_loop'[d] = io_loop[d]
  BY <1>0, LifeTypes DEF newConnection, Push, Call
<1>3. \A l \in Loops : /\ active'[l] \subseteq active[l]
                       /\ \A d \in Conns : d \in inside'[l] => d \in inside[l]
  BY DEF Fewer
<1>5. /\ 1 .. MaxThreads \subseteq Loops /\ 0 \in Loops
      /\ \A d \in Conns : io_loop[d] \in Loops
      /\ Conns \subseteq Nat
  BY LoopNumbers, LifeTypes
<1> HIDE DEF c
<1>6. \A l \in Loops : \A op : ~Due(l, op, c)
  BY <1>0, Fresh DEF c
<1>7. ASSUME NEW l \in Loops, NEW f \in Queued(l)
      PROVE  f.conn # c /\ (f.op # "listen" => f.conn \in Conns)
  BY <1>0, Fresh DEF c
<1>4. /\ Pushed(k, "establish", c) /\ InOrder(Todo(k))'
      /\ \A l \in Loops \ {k} : Kept(l) /\ InOrder(Todo(l))' /\ Queued(l)' = Queued(l)
  <2>1. Call("establish", c) \in Calls
    BY <1>0 DEF Call, Calls, Functor
  <2>2. pending'[k] = Append(pending[k], Call("establish", c))
    BY <1>2, LifeTypes
  <2>3. Pushed(k, "establish", c) /\ InOrder(Todo(k))'
    BY <1>0, <1>6, <2>1, <2>2, PushEffect DEF ConnInv, Ordered
  <2>4. ASSUME NEW l \in Loops \ {k}
        PROVE  Kept(l) /\ InOrder(Todo(l))' /\ Queued(l)' = Queued(l)
    <3>1. pending'[l] = pending[l] /\ functors'[l] = functors[l] /\ done'[l] = done[l]
      BY <1>0, <1>2, LifeTypes
    <3> QED
      BY <3>1, TodoSame, SameKept DEF ConnInv, Ordered
  <2> QED
    BY <2>3, <2>4
<1>8. Known'
  <2> SUFFICES ASSUME NEW d \in Conns
               PROVE  /\ d \in connections_' \/ watched[d] => d < c + 1
                      /\ d >= c + 1 => told[d] = <<>> /\ state_[d] = "connecting"
                      /\ d < c + 1 => io_loop'[d] <= pool /\ (io_loop'[d] = 0 <=> pool = 0)
    BY <1>0, <1>2 DEF Known
  <2>1. CASE d = c
    <3>1. d < c + 1 /\ ~(d >= c + 1) /\ k # 0
      BY <1>1, <2>1
    <3> QED
      BY <1>0, <1>2, <2>1, <3>1
  <2>2. CASE d # c
    <3>1. (d < c + 1 <=> d < c) /\ (d >= c + 1 <=> d >= c)
      BY <1>1, <1>5, <2>2
    <3> QED
      BY <1>2, <2>2, <3>1 DEF ConnInv, Known, c
  <2> QED
    BY <2>1, <2>2
<1>9. Status'
  BY <1>0 DEF ConnInv, Status
<1>10. Placed'
  <2> SUFFICES ASSUME NEW l \in Loops, NEW f \in Queued(l)'
               PROVE  /\ f.op = "listen" => l = 0 /\ f.conn = Accept
                      /\ f.op # "listen" => f.conn < c + 1
                      /\ f.op \in {"establish", "destroy"} => io_loop'[f.conn] = l
                      /\ f.op = "establish" => l # 0
                      /\ f.op = "remove" => l = 0 /\ pool > 0
    BY <1>0, <1>2 DEF Placed
  <2>1. CASE f \in Queued(l)
    <3>1. f.op # "listen" => f.conn < c
      BY <2>1 DEF ConnInv, Placed, c
    <3>2. f.op # "listen" => f.conn < c + 1
      <4> DEFINE e == f.conn
      <4>1. c \in Nat
        BY <1>1
      <4>2. f.op # "listen" => e \in Nat /\ e < c
        BY <1>5, <1>7, <2>1, <3>1
      <4> HIDE DEF e
      <4>3. f.op # "listen" => e < c + 1
        BY <4>1, <4>2
      <4> QED
        BY <4>3 DEF e
    <3>3. f.op \in {"establish", "destroy"} => io_loop'[f.conn] = l
      BY <1>2, <1>7, <2>1 DEF ConnInv, Placed
    <3> QED
      BY <2>1, <3>2, <3>3 DEF ConnInv, Placed
  <2>2. CASE f \notin Queued(l)
    <3>1. l = k /\ f.op = "establish" /\ f.conn = c
      BY <1>4, <2>2, CallEqual DEF Pushed
    <3>2. c < c + 1
      BY <1>1
    <3> QED
      BY <1>2, <3>1, <3>2
  <2> QED
    BY <2>1, <2>2
<1>11. Based'
  <2> SUFFICES ASSUME NEW d \in Conns, io_loop'[d] = 0
               PROVE  /\ watched[d] => d \in connections_'
                      /\ d \in connections_' => \A f \in Queued(0) : f.conn # d
    BY <1>0, <1>4, <1>5 DEF Based
  <2>1. d # c
    BY <1>2
  <2> QED
    BY <1>2, <2>1 DEF ConnInv, Based
<1>12. Reported'
  <2> SUFFICES ASSUME NEW l \in Loops, NEW d \in Conns, d \in active'[l]
               PROVE  d < c + 1 /\ io_loop'[d] = l /\ (watched[d] \/ Freed(d)')
    BY <1>0, <1>2 DEF Reported
  <2>1. d \in active[l] /\ d < c /\ io_loop[d] = l /\ (watched[d] \/ Freed(d))
    BY <1>3 DEF ConnInv, Reported, c
  <2>2. d # c /\ d < c + 1
    BY <1>1, <1>5, <2>1
  <2>3. \A m \in Loops : \A f \in Queued(m)' : f.conn = d => f \in Queued(m)
    BY <1>4, <2>2, CallEqual DEF Pushed
  <2>4. Freed(d) => Freed(d)'
    BY <1>2, <1>3, <2>2, <2>3, FreedKept
  <2> QED
    BY <1>2, <2>1, <2>2, <2>4
<1>13. Ordered'
  BY <1>4 DEF Ordered
<1>14. Awaited'
  <2> SUFFICES ASSUME NEW l \in Loops, NEW d \in Conns, Due(l, "establish", d)'
               PROVE  /\ told[d] = <<>> /\ state_[d] = "connecting"
                      /\ d \in connections_' \/ Due(l, "destroy", d)'
    BY <1>0 DEF Awaited
  <2>1. CASE d = c
    BY <1>1, <1>2, <2>1
  <2>2. CASE d # c
    <3>1. Due(l, "establish", d)
      BY <1>4, <2>2 DEF Pushed, Kept
    <3>2. /\ told[d] = <<>> /\ state_[d] = "connecting"
          /\ d \in connections_ \/ Due(l, "destroy", d)
      BY <3>1 DEF ConnInv, Awaited
    <3> QED
      BY <1>2, <1>4, <3>2 DEF Pushed, Kept
  <2> QED
    BY <2>1, <2>2
<1>15. Registered'
  <2> SUFFICES ASSUME NEW d \in Conns, watched[d], NEW l \in Loops, l = io_loop'[d]
               PROVE  \/ d \in connections_' \/ Due(l, "destroy", d)'
                      \/ d \in dropped /\ phase[l] = "left"
    <3>1. \A d \in Conns : io_loop'[d] \in Loops
      BY <1>2, <1>5
    <3> QED
      BY <1>0, <3>1 DEF Registered, Due
  <2>1. d # c
    BY <1>1 DEF ConnInv, Known, c
  <2>2. d \in connections_ \/ Due(l, "destroy", d) \/ (d \in dropped /\ phase[l] = "left")
    BY <1>2, <2>1 DEF ConnInv, Registered
  <2> QED
    BY <1>2, <1>4, <2>2 DEF Kept, Pushed
<1>16. Closed'
  <2>1. \A l \in Loops, d \in Conns : Due(l, "destroy", d)' => Due(l, "destroy", d)
    BY <1>4 DEF Pushed, Kept
  <2>2. \A d \in Conns : Due(0, "remove", d)' => Due(0, "remove", d)
    BY <1>4, <1>5 DEF Pushed, Kept
  <2> QED
    BY <1>0, <1>5, <2>1, <2>2 DEF ConnInv, Closed
<1> QED
  BY <1>8, <1>9, <1>10, <1>11, <1>12, <1>13, <1>14, <1>15, <1>16 DEF ConnInv

(* A push of a call to connection c, which is known, in loop k, where the   *)
(* other members of the invariant stay as they are for the others.          *)
LEMMA PushQueues ==
  ASSUME Typed, ConnInv, NEW k \in Loops, NEW op \in {"remove", "destroy"}, NEW c \in Conns,
         Push(k, op, c), UNCHANGED <<functors, done>>
  PROVE  /\ Pushed(k, op, c) /\ InOrder(Todo(k))'
         /\ \A l \in Loops \ {k} : Kept(l) /\ InOrder(Todo(l))' /\ Queued(l)' = Queued(l)
<1>1. Call(op, c) \in Calls
  BY DEF Call, Calls, Functor
<1>2. pending' = [pending EXCEPT ![k] = Append(pending[k], Call(op, c))]
  BY DEF Push, Call
<1>3. pending'[k] = Append(pending[k], Call(op, c))
  BY <1>2, LifeTypes
<1>4. Pushed(k, op, c) /\ InOrder(Todo(k))'
  BY <1>1, <1>3, PushEffect DEF ConnInv, Ordered
<1>5. ASSUME NEW l \in Loops \ {k}
      PROVE  Kept(l) /\ InOrder(Todo(l))' /\ Queued(l)' = Queued(l)
  <2>1. pending'[l] = pending[l] /\ functors'[l] = functors[l] /\ done'[l] = done[l]
    BY <1>2, LifeTypes
  <2> QED
    BY <2>1, TodoSame, SameKept DEF ConnInv, Ordered
<1> QED
  BY <1>4, <1>5

(* What the user was told before and after the end.                         *)
LEMMA TwoTold == Append(<<"up">>, "down") = <<"up", "down">>
<1> DEFINE s == <<"up">>
           t == <<"up", "down">>
           u == Append(s, "down")
<1>1. ASSUME NEW S, NEW r \in Seq(S), NEW e \in S
      PROVE  /\ Append(r, e) \in Seq(S) /\ Len(Append(r, e)) = Len(r) + 1
             /\ Append(r, e)[Len(r) + 1] = e
             /\ \A i \in 1 .. Len(r) : Append(r, e)[i] = r[i]
  BY AppendProperties
<1>2. /\ s \in Seq({"up", "down"}) /\ t \in Seq({"up", "down"})
      /\ "down" \in {"up", "down"} /\ Len(s) = 1 /\ Len(t) = 2
      /\ s[1] = "up" /\ t[1] = "up" /\ t[2] = "down"
  OBVIOUS
<1> HIDE DEF s
<1>3. /\ u \in Seq({"up", "down"}) /\ Len(u) = Len(s) + 1 /\ u[Len(s) + 1] = "down"
      /\ \A i \in 1 .. Len(s) : u[i] = s[i]
  BY <1>1, <1>2, ZenonT(40)
<1> HIDE DEF t, u
<1>4. Len(u) = 2 /\ u[1] = "up" /\ u[2] = "down"
  BY <1>2, <1>3
<1>5. \A i \in 1 .. 2 : i = 1 \/ i = 2
  OBVIOUS
<1>6. u = t
  BY <1>2, <1>3, <1>4, <1>5, SeqEqual
<1> QED
  BY <1>6 DEF s, t, u

(* handleClose(): the peer has closed.  The connection was registered and   *)
(* in use, and is kept until the user's callback returns.                   *)
LEMMA CloseConns ==
  ASSUME Typed, ConnInv, NEW l \in Loops, NEW c \in Conns, handleClose(l, c)
  PROVE  ConnInv'
<1>0. /\ UNCHANGED <<connections_, next_conn_id_, pool, dropped, pending, functors, done,
                     phase, io_loop>>
      /\ c \in active[l] /\ ~Freed(c)
      /\ active' = [active EXCEPT ![l] = @ \ {c}]
      /\ inside' = [inside EXCEPT ![l] = {c}]
  BY AliveNotFreed DEF handleClose, Handle
<1>1. c < next_conn_id_ /\ io_loop[c] = l /\ watched[c] /\ told[c] = <<"up">>
  BY <1>0 DEF ConnInv, Reported, Status
<1>2. /\ state_'[c] = "disconnected" /\ \A d \in Conns \ {c} : state_'[d] = state_[d]
      /\ watched'[c] = FALSE /\ \A d \in Conns \ {c} : watched'[d] = watched[d]
      /\ told'[c] = <<"up", "down">> /\ \A d \in Conns \ {c} : told'[d] = told[d]
  <2>1. Append(<<"up">>, "down") = <<"up", "down">>
    BY TwoTold
  <2>2. /\ state_' = [state_ EXCEPT ![c] = "disconnected"]
        /\ watched' = [watched EXCEPT ![c] = FALSE]
        /\ told' = [told EXCEPT ![c] = <<"up", "down">>]
    BY <1>1, <2>1 DEF handleClose
  <2> QED
    BY <2>2, LifeTypes
<1>3. \A k \in Loops : Kept(k) /\ InOrder(Todo(k))' /\ Queued(k)' = Queued(k)
  BY <1>0, AllKept
<1>4. /\ 1 .. MaxThreads \subseteq Loops /\ 0 \in Loops
      /\ \A d \in Conns : io_loop[d] \in Loops
  BY LoopNumbers
<1>5. Known'
  BY <1>0, <1>1, <1>2 DEF ConnInv, Known
<1>6. Status'
  <2> SUFFICES ASSUME NEW d \in Conns
               PROVE  /\ told'[d] \in {<<>>, <<"up">>, <<"up", "down">>}
                      /\ watched'[d] => told'[d] = <<"up">>
                      /\ state_'[d] = "connected" => watched'[d]
                      /\ told'[d] = <<"up">> => state_'[d] \in {"connected", "disconnecting"}
    BY DEF Status
  <2>1. CASE d = c
    <3>1. <<"up", "down">> # <<"up">>
      OBVIOUS
    <3> QED
      BY <1>2, <2>1, <3>1
  <2>2. CASE d # c
    BY <1>2, <2>2 DEF ConnInv, Status
  <2> QED
    BY <2>1, <2>2
<1>7. Placed'
  BY <1>0, <1>3 DEF ConnInv, Placed
<1>8. Based'
  BY <1>0, <1>2, <1>3, <1>4 DEF ConnInv, Based
<1>9. Reported'
  <2> SUFFICES ASSUME NEW k \in Loops, NEW d \in Conns, d \in active'[k]
               PROVE  d < next_conn_id_ /\ io_loop[d] = k /\ (watched'[d] \/ Freed(d)')
    BY <1>0 DEF Reported
  <2>1. d \in active[k] /\ (k = l => d # c)
    BY <1>0, LifeTypes
  <2>2. d < next_conn_id_ /\ io_loop[d] = k /\ (watched[d] \/ Freed(d))
    BY <2>1 DEF ConnInv, Reported
  <2>3. d # c
    BY <1>1, <2>1, <2>2
  <2>4. \A m \in Loops : d \in inside'[m] => d \in inside[m]
    BY <1>0, <2>3, LifeTypes
  <2>5. Freed(d) => Freed(d)'
    BY <1>0, <1>3, <2>4, FreedKept
  <2> QED
    BY <1>2, <2>2, <2>3, <2>5
<1>10. Ordered'
  BY <1>3 DEF Ordered
<1>11. Awaited'
  <2> SUFFICES ASSUME NEW k \in Loops, NEW d \in Conns, Due(k, "establish", d)'
               PROVE  /\ told'[d] = <<>> /\ state_'[d] = "connecting"
                      /\ d \in connections_' \/ Due(k, "destroy", d)'
    BY DEF Awaited
  <2>1. /\ told[d] = <<>> /\ state_[d] = "connecting"
        /\ d \in connections_ \/ Due(k, "destroy", d)
    BY <1>3 DEF ConnInv, Awaited, Kept
  <2>2. d # c
    BY <1>1, <2>1
  <2> QED
    BY <1>0, <1>2, <1>3, <2>1, <2>2 DEF Kept
<1>12. Registered'
  <2> SUFFICES ASSUME NEW d \in Conns, watched'[d], NEW k \in Loops, k = io_loop[d]
               PROVE  \/ d \in connections_ \/ Due(k, "destroy", d)'
                      \/ d \in dropped /\ phase[k] = "left"
    BY <1>0, <1>4 DEF Registered, Due
  <2>1. d # c
    BY <1>2
  <2>2. d \in connections_ \/ Due(k, "destroy", d) \/ (d \in dropped /\ phase[k] = "left")
    BY <1>2, <2>1 DEF ConnInv, Registered
  <2> QED
    BY <1>3, <2>2 DEF Kept
<1>13. Closed'
  <2>1. ASSUME NEW d \in Conns, Due(0, "remove", d)' PROVE state_'[d] = "disconnected"
    <3>1. Due(0, "remove", d)
      BY <1>3, <1>4, <2>1 DEF Kept
    <3> QED
      BY <1>2, <3>1 DEF ConnInv, Closed
  <2>2. ASSUME NEW k \in 1 .. MaxThreads, NEW d \in Conns, phase[k] = "left",
               Due(k, "destroy", d)'
        PROVE  state_'[d] # "connected"
    <3>1. Due(k, "destroy", d)
      BY <1>3, <1>4, <2>2 DEF Kept
    <3> QED
      BY <1>2, <2>2, <3>1 DEF ConnInv, Closed
  <2> QED
    BY <1>0, <2>1, <2>2 DEF Closed
<1> QED
  BY <1>5, <1>6, <1>7, <1>8, <1>9, <1>10, <1>11, <1>12, <1>13 DEF ConnInv

(* The user's callback has returned to handleClose(), which calls           *)
(* removeConnection().                                                      *)
LEMMA ReturnConns ==
  ASSUME Typed, Closing, ConnInv, NEW l \in Loops, NEW c \in Conns, removeConnection(l, c)
  PROVE  ConnInv'
<1> DEFINE op == IF l = 0 THEN "destroy" ELSE "remove"
<1>0. /\ UNCHANGED <<next_conn_id_, pool, dropped, functors, done, phase, io_loop, active,
                     state_, watched, told>>
      /\ c \in inside[l] /\ inside' = [inside EXCEPT ![l] = {}]
  BY DEF removeConnection, Returns
<1>1. c < next_conn_id_ /\ io_loop[c] = l /\ state_[c] = "disconnected" /\ ~watched[c]
  BY <1>0 DEF Closing, ConnInv, Status
<1>2. ~Freed(c)
  BY <1>0 DEF Freed
<1>3. /\ Push(0, op, c) /\ connections_' \subseteq connections_
      /\ \A d \in Conns \ {c} : d \in connections_ => d \in connections_'
      /\ l = 0 => c \notin connections_'
  BY <1>1 DEF removeConnection, removeConnectionInLoop
<1>4. /\ 1 .. MaxThreads \subseteq Loops \ {0} /\ 0 \in Loops
      /\ \A d \in Conns : io_loop[d] \in Loops
      /\ pool \in Nat /\ Loops \subseteq Nat
  BY LoopNumbers
<1>5. /\ Pushed(0, op, c) /\ InOrder(Todo(0))'
      /\ \A k \in Loops \ {0} : Kept(k) /\ InOrder(Todo(k))' /\ Queued(k)' = Queued(k)
  <2>1. op \in {"remove", "destroy"}
    OBVIOUS
  <2> HIDE DEF op
  <2> QED
    BY <1>0, <1>3, <1>4, <2>1, PushQueues
<1>6. l # 0 => pool > 0
  BY <1>1, <1>4 DEF ConnInv, Known
<1>7. /\ op \in {"remove", "destroy"} /\ (op = "destroy" <=> l = 0) /\ op # "establish"
  OBVIOUS
<1> HIDE DEF op
<1>8. Known'
  BY <1>0, <1>3 DEF ConnInv, Known
<1>9. Status'
  BY <1>0 DEF ConnInv, Status
<1>10. Placed'
  <2> SUFFICES ASSUME NEW k \in Loops, NEW f \in Queued(k)'
               PROVE  /\ f.op = "listen" => k = 0 /\ f.conn = Accept
                      /\ f.op # "listen" => f.conn < next_conn_id_
                      /\ f.op \in {"establish", "destroy"} => io_loop[f.conn] = k
                      /\ f.op = "establish" => k # 0
                      /\ f.op = "remove" => k = 0 /\ pool > 0
    BY <1>0 DEF Placed
  <2>1. CASE f \in Queued(k)
    BY <2>1 DEF ConnInv, Placed
  <2>2. CASE f \notin Queued(k)
    <3>1. k = 0 /\ f.op = op /\ f.conn = c
      BY <1>5, <2>2, CallEqual DEF Pushed
    <3> QED
      BY <1>1, <1>6, <1>7, <3>1
  <2> QED
    BY <2>1, <2>2
<1>11. Based'
  <2> SUFFICES ASSUME NEW d \in Conns, io_loop[d] = 0
               PROVE  /\ watched[d] => d \in connections_'
                      /\ d \in connections_' => \A f \in Queued(0)' : f.conn # d
    BY <1>0 DEF Based
  <2>1. CASE d = c
    BY <1>1, <1>3, <2>1
  <2>2. CASE d # c
    <3>1. \A f \in Queued(0)' : f \in Queued(0) \/ f.conn = c
      BY <1>5, CallEqual DEF Pushed
    <3> QED
      BY <1>3, <2>2, <3>1 DEF ConnInv, Based
  <2> QED
    BY <2>1, <2>2
<1>12. Reported'
  <2> SUFFICES ASSUME NEW k \in Loops, NEW d \in Conns, d \in active[k]
               PROVE  d < next_conn_id_ /\ io_loop[d] = k /\ (watched[d] \/ Freed(d)')
    BY <1>0 DEF Reported
  <2>1. d < next_conn_id_ /\ io_loop[d] = k /\ (watched[d] \/ Freed(d))
    BY DEF ConnInv, Reported
  <2>2. d # c
    BY <1>1, <1>2, <2>1
  <2>3. \A m \in Loops : \A f \in Queued(m)' : f.conn = d => f \in Queued(m)
    BY <1>5, <2>2, CallEqual DEF Pushed
  <2>4. \A m \in Loops : d \in inside'[m] => d \in inside[m]
    BY <1>0, LifeTypes
  <2>5. Freed(d) => Freed(d)'
    BY <1>3, <2>3, <2>4, FreedKept
  <2> QED
    BY <2>1, <2>5
<1>13. Ordered'
  BY <1>5 DEF Ordered
<1>14. Awaited'
  <2> SUFFICES ASSUME NEW k \in Loops, NEW d \in Conns, Due(k, "establish", d)'
               PROVE  /\ told[d] = <<>> /\ state_[d] = "connecting"
                      /\ d \in connections_' \/ Due(k, "destroy", d)'
    BY <1>0 DEF Awaited
  <2>1. Due(k, "establish", d)
    BY <1>5, <1>7 DEF Pushed, Kept
  <2>2. /\ told[d] = <<>> /\ state_[d] = "connecting"
        /\ d \in connections_ \/ Due(k, "destroy", d)
    BY <2>1 DEF ConnInv, Awaited
  <2>3. d # c
    BY <1>1, <2>2
  <2> QED
    BY <1>3, <1>5, <2>2, <2>3 DEF Pushed, Kept
<1>15. Registered'
  <2> SUFFICES ASSUME NEW d \in Conns, watched[d], NEW k \in Loops, k = io_loop[d]
               PROVE  \/ d \in connections_' \/ Due(k, "destroy", d)'
                      \/ d \in dropped /\ phase[k] = "left"
    BY <1>0, <1>4 DEF Registered, Due
  <2>1. d # c
    BY <1>1
  <2>2. d \in connections_ \/ Due(k, "destroy", d) \/ (d \in dropped /\ phase[k] = "left")
    BY DEF ConnInv, Registered
  <2> QED
    BY <1>3, <1>5, <2>1, <2>2 DEF Kept, Pushed
<1>16. Closed'
  <2>1. ASSUME NEW d \in Conns, Due(0, "remove", d)' PROVE state_[d] = "disconnected"
    <3>1. d = c \/ Due(0, "remove", d)
      BY <1>5, <2>1 DEF Pushed
    <3> QED
      BY <1>1, <3>1 DEF ConnInv, Closed
  <2>2. ASSUME NEW k \in 1 .. MaxThreads, NEW d \in Conns, phase[k] = "left",
               Due(k, "destroy", d)'
        PROVE  state_[d] # "connected"
    <3>1. Due(k, "destroy", d)
      BY <1>4, <1>5, <2>2 DEF Kept
    <3> QED
      BY <2>2, <3>1 DEF ConnInv, Closed
  <2> QED
    BY <1>0, <2>1, <2>2 DEF Closed
<1> QED
  BY <1>8, <1>9, <1>10, <1>11, <1>12, <1>13, <1>14, <1>15, <1>16 DEF ConnInv

(* A functor whose turn it is is queued.                                    *)
LEMMA TurnQueued ==
  ASSUME Typed, NEW l \in Loops, NEW op, NEW c, Turn(l, op, c)
  PROVE  Call(op, c) \in Queued(l)
<1>1. /\ done[l] < Len(functors[l]) /\ functors[l][done[l] + 1] = Call(op, c)
      /\ done[l] \in Nat /\ functors[l] \in Seq(Calls)
  BY LifeTypes DEF Turn, Call
<1>2. Len(functors[l]) \in Nat /\ DOMAIN functors[l] = 1 .. Len(functors[l])
  BY <1>1, LenProperties
<1>3. done[l] + 1 \in DOMAIN functors[l]
  BY <1>1, <1>2
<1> QED
  BY <1>1, <1>3 DEF Queued, Range

(* What a functor's turn does to the queue of its loop.                     *)
LEMMA TurnEffect ==
  ASSUME Typed, ConnInv, NEW l \in Loops, NEW op, NEW c, Turn(l, op, c),
         pending'[l] = pending[l]
  PROVE  /\ Called(l, op, c) /\ InOrder(Todo(l))'
         /\ c \in Conns /\ op \in {"establish", "destroy"} => ~Due(l, "establish", c)'
<1>1. /\ done[l] < Len(functors[l]) /\ functors[l][done[l] + 1] = Call(op, c)
      /\ functors' = functors /\ done' = [done EXCEPT ![l] = done[l] + 1]
  BY DEF Turn, Call
<1>2. functors'[l] = functors[l] /\ done'[l] = done[l] + 1 /\ InOrder(Todo(l))
  BY <1>1, LifeTypes DEF ConnInv, Ordered
<1> QED
  BY <1>1, <1>2, CallEffect

LEMMA TurnQueues ==
  ASSUME Typed, ConnInv, NEW l \in Loops, NEW op, NEW c, Turn(l, op, c), pending' = pending
  PROVE  /\ Called(l, op, c) /\ InOrder(Todo(l))'
         /\ c \in Conns /\ op \in {"establish", "destroy"} => ~Due(l, "establish", c)'
         /\ \A k \in Loops \ {l} : Kept(k) /\ InOrder(Todo(k))' /\ Queued(k)' = Queued(k)
<1>1. ASSUME NEW k \in Loops \ {l}
      PROVE  Kept(k) /\ InOrder(Todo(k))' /\ Queued(k)' = Queued(k)
  <2>1. pending'[k] = pending[k] /\ functors'[k] = functors[k] /\ done'[k] = done[k]
    BY LifeTypes DEF Turn
  <2> QED
    BY <2>1, TodoSame, SameKept DEF ConnInv, Ordered
<1> QED
  BY <1>1, TurnEffect

(* The base loop calls listen().                                            *)
LEMMA ListenConns ==
  ASSUME Typed, ConnInv, RunListen
  PROVE  ConnInv'
<1>1. Turn(0, "listen", Accept) /\ pending' = pending /\ 0 \in Loops
  BY LifeTypes DEF RunListen
<1>2. /\ Called(0, "listen", Accept) /\ InOrder(Todo(0))'
      /\ \A k \in Loops \ {0} : Kept(k) /\ InOrder(Todo(k))' /\ Queued(k)' = Queued(k)
  BY <1>1, TurnQueues
<1>3. Kept(0)
  <2>1. \A op : \A c \in Conns : c # Accept
    BY LifeTypes
  <2> QED
    BY <1>2, <2>1 DEF Kept, Called
<1>4. /\ UNCHANGED <<connections_, io_loop, state_, watched, told, next_conn_id_, pool,
                     dropped, phase>>
      /\ \A l \in Loops : Fewer(l)
  BY DEF RunListen, Turn, Fewer
<1> QED
  BY <1>2, <1>3, <1>4, Unmoved

(* A connection of loop k of the pool is erased, and its connDestory()      *)
(* pushed; another queue may have called one of its functors.               *)
LEMMA ErasedConns ==
  ASSUME Typed, ConnInv, NEW c \in Conns, NEW k \in Loops \ {0}, k = io_loop[c],
         c < next_conn_id_, ~Freed(c), phase[k] = "left" => state_[c] # "connected",
         UNCHANGED <<io_loop, state_, watched, told, next_conn_id_, pool, dropped, active,
                     inside, phase>>,
         connections_' = connections_ \ {c},
         Pushed(k, "destroy", c), InOrder(Todo(k))',
         \A l \in Loops \ {k} :
           /\ InOrder(Todo(l))' /\ Queued(l)' = Queued(l)
           /\ \A op : \A d \in Conns : Due(l, op, d)' => Due(l, op, d)
           /\ \A d \in Conns : Due(l, "destroy", d) => Due(l, "destroy", d)'
  PROVE  ConnInv'
<1>1. /\ 1 .. MaxThreads \subseteq Loops \ {0} /\ 0 \in Loops
      /\ \A d \in Conns : io_loop[d] \in Loops
  BY LoopNumbers
<1>2. ASSUME NEW l \in Loops, NEW f \in Queued(l)', f \notin Queued(l)
      PROVE  l = k /\ f.op = "destroy" /\ f.conn = c
  BY <1>2, CallEqual DEF Pushed
<1>3. ASSUME NEW l \in Loops, NEW op, NEW d \in Conns, Due(l, op, d)'
      PROVE  Due(l, op, d) \/ (l = k /\ op = "destroy" /\ d = c)
  BY <1>3 DEF Pushed
<1>4. \A l \in Loops, d \in Conns : Due(l, "destroy", d) => Due(l, "destroy", d)'
  BY DEF Pushed
<1>5. Due(k, "destroy", c)'
  BY DEF Pushed
<1>6. Known' /\ Status'
  BY DEF ConnInv, Known, Status
<1>7. Placed'
  <2> SUFFICES ASSUME NEW l \in Loops, NEW f \in Queued(l)'
               PROVE  /\ f.op = "listen" => l = 0 /\ f.conn = Accept
                      /\ f.op # "listen" => f.conn < next_conn_id_
                      /\ f.op \in {"establish", "destroy"} => io_loop[f.conn] = l
                      /\ f.op = "establish" => l # 0
                      /\ f.op = "remove" => l = 0 /\ pool > 0
    BY DEF Placed
  <2>1. CASE f \in Queued(l)
    BY <2>1 DEF ConnInv, Placed
  <2>2. CASE f \notin Queued(l)
    BY <1>2, <2>2
  <2> QED
    BY <2>1, <2>2
<1>8. Based'
  <2>1. Queued(0)' = Queued(0)
    BY <1>1
  <2> QED
    BY <2>1 DEF ConnInv, Based
<1>9. Reported'
  <2> SUFFICES ASSUME NEW l \in Loops, NEW d \in Conns, d \in active[l]
               PROVE  d < next_conn_id_ /\ io_loop[d] = l /\ (watched[d] \/ Freed(d)')
    BY DEF Reported
  <2>1. d < next_conn_id_ /\ io_loop[d] = l /\ (watched[d] \/ Freed(d))
    BY DEF ConnInv, Reported
  <2>2. Freed(d) => Freed(d)'
    <3> SUFFICES ASSUME Freed(d), d # c PROVE Freed(d)'
      OBVIOUS
    <3>1. \A m \in Loops : \A f \in Queued(m)' : f.conn = d => f \in Queued(m)
      BY <1>2
    <3> QED
      BY <3>1, FreedKept
  <2> QED
    BY <2>1, <2>2
<1>10. Ordered'
  BY DEF Ordered
<1>11. Awaited'
  <2> SUFFICES ASSUME NEW l \in Loops, NEW d \in Conns, Due(l, "establish", d)'
               PROVE  /\ told[d] = <<>> /\ state_[d] = "connecting"
                      /\ d \in connections_' \/ Due(l, "destroy", d)'
    BY DEF Awaited
  <2>1. Due(l, "establish", d)
    BY <1>3
  <2>2. /\ told[d] = <<>> /\ state_[d] = "connecting"
        /\ d \in connections_ \/ Due(l, "destroy", d)
    BY <2>1 DEF ConnInv, Awaited
  <2>3. io_loop[d] = l
    BY <2>1, DuePlaced DEF ConnInv
  <2> QED
    BY <1>4, <1>5, <2>2, <2>3
<1>12. Registered'
  <2> SUFFICES ASSUME NEW d \in Conns, watched[d], NEW l \in Loops, l = io_loop[d]
               PROVE  \/ d \in connections_' \/ Due(l, "destroy", d)'
                      \/ d \in dropped /\ phase[l] = "left"
    BY <1>1 DEF Registered, Due
  <2>1. d \in connections_ \/ Due(l, "destroy", d) \/ (d \in dropped /\ phase[l] = "left")
    BY DEF ConnInv, Registered
  <2> QED
    BY <1>4, <1>5, <2>1
<1>13. Closed'
  <2>1. ASSUME NEW d \in Conns, Due(0, "remove", d)' PROVE state_[d] = "disconnected"
    BY <1>1, <1>3, <2>1 DEF ConnInv, Closed
  <2>2. ASSUME NEW l \in 1 .. MaxThreads, NEW d \in Conns, phase[l] = "left",
               Due(l, "destroy", d)'
        PROVE  state_[d] # "connected"
    BY <1>1, <1>3, <2>2 DEF ConnInv, Closed
  <2> QED
    BY <2>1, <2>2 DEF Closed
<1> QED
  BY <1>6, <1>7, <1>8, <1>9, <1>10, <1>11, <1>12, <1>13 DEF ConnInv

(* removeConnectionInLoop(), pushed by a loop of the pool.                  *)
LEMMA RemoveConns ==
  ASSUME Typed, ConnInv, NEW c \in Conns, RunRemove(c)
  PROVE  ConnInv'
<1>k. PICK k \in Loops : k = io_loop[c]
  BY LoopNumbers
<1>0. /\ 0 \in Loops /\ k \in Loops /\ Turn(0, "remove", c) /\ Push(k, "destroy", c)
      /\ connections_' = connections_ \ {c}
      /\ UNCHANGED <<io_loop, state_, watched, told, next_conn_id_, pool, dropped, active,
                     inside, phase>>
  BY <1>k, LifeTypes DEF RunRemove, removeConnectionInLoop, Turn
<1>1. Call("remove", c) \in Queued(0)
  BY <1>0, TurnQueued
<1>2. c < next_conn_id_ /\ pool > 0
  BY <1>0, <1>1, CallEqual DEF ConnInv, Placed
<1>3. k # 0
  BY <1>k, <1>2, LoopNumbers DEF ConnInv, Known
<1>4. ~Freed(c)
  BY <1>0, <1>1, CallEqual DEF Freed
<1>5. /\ pending' = [pending EXCEPT ![k] = Append(pending[k], Call("destroy", c))]
      /\ functors' = functors /\ done' = [done EXCEPT ![0] = done[0] + 1]
  BY <1>0 DEF Push, Call, Turn
<1>6. /\ Called(0, "remove", c) /\ InOrder(Todo(0))'
  <2>1. pending'[0] = pending[0]
    BY <1>0, <1>3, <1>5, LifeTypes
  <2> QED
    BY <1>0, <2>1, TurnEffect
<1>7. Pushed(k, "destroy", c) /\ InOrder(Todo(k))'
  <2>1. /\ pending'[k] = Append(pending[k], Call("destroy", c))
        /\ functors'[k] = functors[k] /\ done'[k] = done[k]
    BY <1>0, <1>3, <1>5, LifeTypes
  <2>2. Call("destroy", c) \in Calls
    BY DEF Call, Calls, Functor
  <2>3. InOrder(Todo(k)) /\ k \in Loops
    BY <1>0 DEF ConnInv, Ordered
  <2> QED
    BY <2>1, <2>2, <2>3, PushEffect
<1>8. ASSUME NEW l \in Loops \ {k}
      PROVE  /\ InOrder(Todo(l))' /\ Queued(l)' = Queued(l)
             /\ \A op : \A d \in Conns : Due(l, op, d)' => Due(l, op, d)
             /\ \A d \in Conns : Due(l, "destroy", d) => Due(l, "destroy", d)'
  <2>1. CASE l = 0
    BY <1>6, <2>1 DEF Called
  <2>2. CASE l # 0
    <3>1. pending'[l] = pending[l] /\ functors'[l] = functors[l] /\ done'[l] = done[l]
      BY <1>0, <1>5, <2>2, LifeTypes
    <3>2. Kept(l) /\ InOrder(Todo(l))' /\ Queued(l)' = Queued(l)
      BY <3>1, TodoSame, SameKept DEF ConnInv, Ordered
    <3> QED
      BY <3>2 DEF Kept
  <2> QED
    BY <2>1, <2>2
<1>9. k \in Loops \ {0} /\ k = io_loop[c] /\ state_[c] # "connected"
  <2>1. state_[c] = "disconnected"
    BY <1>6 DEF Called, ConnInv, Closed
  <2> QED
    BY <1>0, <1>3, <1>k, <2>1
<1>10. UNCHANGED <<io_loop, state_, watched, told, next_conn_id_, pool, dropped, active,
                   inside, phase>> /\ connections_' = connections_ \ {c}
  BY <1>0
<1> QED
  BY <1>2, <1>4, <1>7, <1>8, <1>9, <1>10, ErasedConns

(* connEstablish(), pushed by the acceptor.                                 *)
LEMMA EstablishConns ==
  ASSUME Typed, ConnInv, NEW l \in Loops, NEW c \in Conns, RunEstablish(l, c)
  PROVE  ConnInv'
<1>0. /\ Turn(l, "establish", c) /\ pending' = pending /\ phase[l] = "functors"
      /\ UNCHANGED <<connections_, io_loop, next_conn_id_, pool, dropped, active, inside,
                     phase>>
  BY DEF RunEstablish, Turn
<1>1. /\ Called(l, "establish", c) /\ InOrder(Todo(l))' /\ ~Due(l, "establish", c)'
      /\ \A k \in Loops \ {l} : Kept(k) /\ InOrder(Todo(k))' /\ Queued(k)' = Queued(k)
  BY <1>0, TurnQueues
<1>2. /\ \A k \in Loops : \A op : \A d \in Conns : Due(k, op, d)' => Due(k, op, d)
      /\ \A k \in Loops, d \in Conns : Due(k, "destroy", d) => Due(k, "destroy", d)'
      /\ \A k \in Loops : InOrder(Todo(k))' /\ Queued(k)' = Queued(k)
  BY <1>1 DEF Called, Kept
<1>3. /\ Due(l, "establish", c) /\ told[c] = <<>> /\ state_[c] = "connecting"
      /\ c \in connections_ \/ Due(l, "destroy", c)
  BY <1>1 DEF Called, ConnInv, Awaited
<1>4. c < next_conn_id_ /\ io_loop[c] = l /\ l # 0
  BY <1>3, DuePlaced DEF ConnInv
<1>5. /\ state_'[c] = "connected" /\ \A d \in Conns \ {c} : state_'[d] = state_[d]
      /\ watched'[c] = TRUE /\ \A d \in Conns \ {c} : watched'[d] = watched[d]
      /\ told'[c] = <<"up">> /\ \A d \in Conns \ {c} : told'[d] = told[d]
  <2>1. Append(<<>>, "up") = <<"up">>
    OBVIOUS
  <2> QED
    BY <1>3, <2>1, LifeTypes DEF RunEstablish, connEstablish
<1>6. /\ 1 .. MaxThreads \subseteq Loops \ {0} /\ 0 \in Loops
      /\ \A d \in Conns : io_loop[d] \in Loops
      /\ c \in Nat /\ next_conn_id_ \in Nat
  BY LoopNumbers, LifeTypes
<1>7. ASSUME NEW k \in Loops, NEW op \in {"establish", "destroy"}, Due(k, op, c)'
      PROVE  k = l /\ op = "destroy"
  <2>1. Due(k, op, c)
    BY <1>2, <1>7
  <2>2. k = l
    BY <1>4, <2>1, DuePlaced DEF ConnInv
  <2> QED
    BY <1>1, <1>7, <2>2
<1>8. Known'
  <2> SUFFICES ASSUME NEW d \in Conns
               PROVE  /\ d \in connections_ \/ watched'[d] => d < next_conn_id_
                      /\ d >= next_conn_id_ => told'[d] = <<>> /\ state_'[d] = "connecting"
                      /\ d < next_conn_id_ => io_loop[d] <= pool /\ (io_loop[d] = 0 <=> pool = 0)
    BY <1>0 DEF Known
  <2>1. CASE d = c
    <3>1. ~(d >= next_conn_id_)
      BY <1>4, <1>6, <2>1
    <3> QED
      BY <1>4, <2>1, <3>1 DEF ConnInv, Known
  <2>2. CASE d # c
    BY <1>5, <2>2 DEF ConnInv, Known
  <2> QED
    BY <2>1, <2>2
<1>9. Status'
  BY <1>5 DEF ConnInv, Status
<1>10. Placed'
  BY <1>0, <1>2 DEF ConnInv, Placed
<1>11. Based'
  <2>1. \A d \in Conns : io_loop[d] = 0 => d # c
    BY <1>4
  <2> QED
    BY <1>0, <1>2, <1>5, <1>6, <2>1 DEF ConnInv, Based
<1>12. Reported'
  <2>1. \A d \in Conns : Freed(d) => Freed(d)'
    BY <1>0, <1>2 DEF Freed
  <2> QED
    BY <1>0, <1>5, <2>1 DEF ConnInv, Reported
<1>13. Ordered'
  BY <1>2 DEF Ordered
<1>14. Awaited'
  <2> SUFFICES ASSUME NEW k \in Loops, NEW d \in Conns, Due(k, "establish", d)'
               PROVE  /\ told'[d] = <<>> /\ state_'[d] = "connecting"
                      /\ d \in connections_ \/ Due(k, "destroy", d)'
    BY <1>0 DEF Awaited
  <2>1. d # c
    BY <1>7
  <2>2. /\ told[d] = <<>> /\ state_[d] = "connecting"
        /\ d \in connections_ \/ Due(k, "destroy", d)
    BY <1>2 DEF ConnInv, Awaited
  <2> QED
    BY <1>2, <1>5, <2>1, <2>2
<1>15. Registered'
  <2> SUFFICES ASSUME NEW d \in Conns, watched'[d], NEW k \in Loops, k = io_loop[d]
               PROVE  \/ d \in connections_ \/ Due(k, "destroy", d)'
                      \/ d \in dropped /\ phase[k] = "left"
    BY <1>0, <1>6 DEF Registered, Due
  <2>1. CASE d = c
    BY <1>2, <1>3, <1>4, <2>1
  <2>2. CASE d # c
    <3>1. d \in connections_ \/ Due(k, "destroy", d) \/ (d \in dropped /\ phase[k] = "left")
      BY <1>5, <2>2 DEF ConnInv, Registered
    <3> QED
      BY <1>2, <3>1
  <2> QED
    BY <2>1, <2>2
<1>16. Closed'
  <2>1. ASSUME NEW d \in Conns, Due(0, "remove", d)' PROVE state_'[d] = "disconnected"
    <3>1. state_[d] = "disconnected"
      BY <1>2, <1>6, <2>1 DEF ConnInv, Closed
    <3> QED
      BY <1>3, <1>5, <3>1
  <2>2. ASSUME NEW k \in 1 .. MaxThreads, NEW d \in Conns, phase[k] = "left",
               Due(k, "destroy", d)'
        PROVE  state_'[d] # "connected"
    <3>1. k \in Loops /\ Due(k, "destroy", d)
      BY <1>2, <1>6, <2>2
    <3>2. d # c
      BY <1>0, <1>4, <2>2, <3>1, DuePlaced DEF ConnInv
    <3> QED
      BY <1>5, <2>2, <3>1, <3>2 DEF ConnInv, Closed
  <2> QED
    BY <1>0, <2>1, <2>2 DEF Closed
<1> QED
  BY <1>8, <1>9, <1>10, <1>11, <1>12, <1>13, <1>14, <1>15, <1>16 DEF ConnInv

(* connDestory(): the user is told unless the connection is not connected.  *)
LEMMA DestoryEffect ==
  ASSUME Typed, Status, NEW c \in Conns, connDestory(c)
  PROVE  /\ state_'[c] # "connected"
         /\ state_[c] = "disconnected" => state_'[c] = "disconnected"
         /\ state_[c] = "connecting" => state_'[c] = "connecting" /\ told'[c] = told[c]
         /\ watched'[c] = FALSE
         /\ \A d \in Conns \ {c} : /\ state_'[d] = state_[d] /\ watched'[d] = watched[d]
                                   /\ told'[d] = told[d]
         /\ Status'
<1>1. /\ watched'[c] = FALSE
      /\ \A d \in Conns \ {c} : /\ state_'[d] = state_[d] /\ watched'[d] = watched[d]
                                /\ told'[d] = told[d]
  BY LifeTypes DEF connDestory
<1>2. CASE state_[c] = "connected"
  <2>1. told[c] = <<"up">>
    BY <1>2 DEF Status
  <2>2. state_'[c] = "disconnected" /\ told'[c] = <<"up", "down">>
    <3>1. /\ state_' = [state_ EXCEPT ![c] = "disconnected"]
          /\ told' = [told EXCEPT ![c] = <<"up", "down">>]
      BY <1>2, <2>1, TwoTold DEF connDestory
    <3> QED
      BY <3>1, LifeTypes
  <2>3. <<"up", "down">> # <<"up">>
    OBVIOUS
  <2>4. ASSUME NEW d \in Conns
        PROVE  /\ told'[d] \in {<<>>, <<"up">>, <<"up", "down">>}
               /\ watched'[d] => told'[d] = <<"up">>
               /\ state_'[d] = "connected" => watched'[d]
               /\ told'[d] = <<"up">> => state_'[d] \in {"connected", "disconnecting"}
    <3>1. CASE d = c
      BY <1>1, <2>2, <2>3, <3>1
    <3>2. CASE d # c
      BY <1>1, <3>2 DEF Status
    <3> QED
      BY <3>1, <3>2
  <2>5. Status'
    BY <2>4 DEF Status
  <2> QED
    BY <1>1, <1>2, <2>2, <2>5
<1>3. CASE state_[c] # "connected"
  <2>1. UNCHANGED <<state_, told>>
    BY <1>3 DEF connDestory
  <2>2. Status'
    BY <1>1, <1>3, <2>1 DEF Status
  <2> QED
    BY <1>1, <1>3, <2>1, <2>2
<1> QED
  BY <1>2, <1>3

(* connDestory() of connection c, by its loop or by the destructor of the   *)
(* server: it is not registered any more, and its channel is not in the     *)
(* round or is gone with it.                                                *)
LEMMA DestroyedConns ==
  ASSUME Typed, ConnInv, NEW c \in Conns, connDestory(c), c < next_conn_id_,
         UNCHANGED <<io_loop, next_conn_id_, pool, dropped, active, inside,
                     phase>>,
         connections_' = connections_ \/ connections_' = connections_ \ {c},
         \A l \in Loops :
           /\ InOrder(Todo(l))' /\ Queued(l)' = Queued(l)
           /\ \A op : \A d \in Conns : Due(l, op, d)' => Due(l, op, d)
           /\ \A d \in Conns \ {c} : Due(l, "destroy", d) => Due(l, "destroy", d)'
           /\ ~Due(l, "establish", c)'
           /\ c \in active[l] => Freed(c)'
  PROVE  ConnInv'
<1>1. /\ state_'[c] # "connected"
      /\ state_[c] = "disconnected" => state_'[c] = "disconnected"
      /\ watched'[c] = FALSE
      /\ \A d \in Conns \ {c} : /\ state_'[d] = state_[d] /\ watched'[d] = watched[d]
                                /\ told'[d] = told[d]
      /\ Status'
  BY DestoryEffect DEF ConnInv
<1>2. /\ 1 .. MaxThreads \subseteq Loops \ {0} /\ 0 \in Loops
      /\ \A d \in Conns : io_loop[d] \in Loops
      /\ c \in Nat /\ next_conn_id_ \in Nat
  BY LoopNumbers, LifeTypes
<1>3. /\ connections_' \subseteq connections_
      /\ \A d \in Conns \ {c} : d \in connections_ => d \in connections_'
  OBVIOUS
<1>4. Known'
  <2> SUFFICES ASSUME NEW d \in Conns
               PROVE  /\ d \in connections_' \/ watched'[d] => d < next_conn_id_
                      /\ d >= next_conn_id_ => told'[d] = <<>> /\ state_'[d] = "connecting"
                      /\ d < next_conn_id_ => io_loop[d] <= pool /\ (io_loop[d] = 0 <=> pool = 0)
    BY DEF Known
  <2>1. CASE d = c
    <3>1. ~(d >= next_conn_id_)
      BY <1>2, <2>1
    <3> QED
      BY <2>1, <3>1 DEF ConnInv, Known
  <2>2. CASE d # c
    BY <1>1, <1>3, <2>2 DEF ConnInv, Known
  <2> QED
    BY <2>1, <2>2
<1>5. Placed'
  BY DEF ConnInv, Placed
<1>6. Based'
  BY <1>1, <1>2, <1>3 DEF ConnInv, Based
<1>7. Reported'
  <2> SUFFICES ASSUME NEW l \in Loops, NEW d \in Conns, d \in active[l]
               PROVE  d < next_conn_id_ /\ io_loop[d] = l /\ (watched'[d] \/ Freed(d)')
    BY DEF Reported
  <2>1. d < next_conn_id_ /\ io_loop[d] = l /\ (watched[d] \/ Freed(d))
    BY DEF ConnInv, Reported
  <2>2. Freed(d) => Freed(d)'
    BY <1>3 DEF Freed
  <2> QED
    BY <1>1, <2>1, <2>2
<1>8. Ordered'
  BY DEF Ordered
<1>9. Awaited'
  <2> SUFFICES ASSUME NEW l \in Loops, NEW d \in Conns, Due(l, "establish", d)'
               PROVE  /\ told'[d] = <<>> /\ state_'[d] = "connecting"
                      /\ d \in connections_' \/ Due(l, "destroy", d)'
    BY DEF Awaited
  <2>1. d # c
    OBVIOUS
  <2>2. /\ told[d] = <<>> /\ state_[d] = "connecting"
        /\ d \in connections_ \/ Due(l, "destroy", d)
    BY DEF ConnInv, Awaited
  <2> QED
    BY <1>1, <1>3, <2>1, <2>2
<1>10. Registered'
  <2> SUFFICES ASSUME NEW d \in Conns, watched'[d], NEW l \in Loops, l = io_loop[d]
               PROVE  \/ d \in connections_' \/ Due(l, "destroy", d)'
                      \/ d \in dropped /\ phase[l] = "left"
    BY <1>2 DEF Registered, Due
  <2>1. d # c
    BY <1>1
  <2>2. d \in connections_ \/ Due(l, "destroy", d) \/ (d \in dropped /\ phase[l] = "left")
    BY <1>1, <2>1 DEF ConnInv, Registered
  <2> QED
    BY <1>3, <2>1, <2>2
<1>11. Closed'
  <2>1. ASSUME NEW d \in Conns, Due(0, "remove", d)' PROVE state_'[d] = "disconnected"
    <3>1. state_[d] = "disconnected"
      BY <1>2, <2>1 DEF ConnInv, Closed
    <3> QED
      BY <1>1, <3>1
  <2>2. ASSUME NEW l \in 1 .. MaxThreads, NEW d \in Conns, phase[l] = "left",
               Due(l, "destroy", d)'
        PROVE  state_'[d] # "connected"
    <3>1. state_[d] # "connected"
      BY <1>2, <2>2 DEF ConnInv, Closed
    <3> QED
      BY <1>1, <3>1
  <2> QED
    BY <2>1, <2>2 DEF Closed
<1> QED
  BY <1>1, <1>4, <1>5, <1>6, <1>7, <1>8, <1>9, <1>10, <1>11 DEF ConnInv

LEMMA DestroyConns ==
  ASSUME Typed, LoopInv, ConnInv, NEW l \in Loops, NEW c \in Conns, RunDestroy(l, c)
  PROVE  ConnInv'
<1>0. /\ Turn(l, "destroy", c) /\ pending' = pending /\ phase[l] = "functors"
      /\ UNCHANGED <<connections_, io_loop, next_conn_id_, pool, dropped, active, inside,
                     phase>>
      /\ connDestory(c)
  BY DEF RunDestroy, Turn
<1>1. /\ Called(l, "destroy", c) /\ InOrder(Todo(l))' /\ ~Due(l, "establish", c)'
      /\ \A k \in Loops \ {l} : Kept(k) /\ InOrder(Todo(k))' /\ Queued(k)' = Queued(k)
  BY <1>0, TurnQueues
<1>2. c < next_conn_id_ /\ io_loop[c] = l
  BY <1>1, DuePlaced DEF Called, ConnInv
<1>3. active[l] = {}
  BY <1>0 DEF LoopInv, InRound
<1>4. ASSUME NEW k \in Loops
      PROVE  /\ InOrder(Todo(k))' /\ Queued(k)' = Queued(k)
             /\ \A op : \A d \in Conns : Due(k, op, d)' => Due(k, op, d)
             /\ \A d \in Conns \ {c} : Due(k, "destroy", d) => Due(k, "destroy", d)'
             /\ ~Due(k, "establish", c)'
             /\ c \in active[k] => Freed(c)'
  <2>1. CASE k = l
    BY <1>1, <1>3, <2>1 DEF Called
  <2>2. CASE k # l
    <3>1. ~Due(k, "establish", c)
      BY <1>2, <2>2, DuePlaced DEF ConnInv
    <3>2. c \notin active[k]
      BY <1>2, <2>2 DEF ConnInv, Reported
    <3> QED
      BY <1>1, <2>2, <3>1, <3>2 DEF Kept
  <2> QED
    BY <2>1, <2>2
<1> QED
  BY <1>0, <1>2, <1>4, DestroyedConns

(* The destructor of the server and a connection of the base loop, which    *)
(* is freed unless its own handler is to return to it.                      *)
LEMMA DestroyBaseConns ==
  ASSUME Typed, Closing, ConnInv, NEW c \in Conns, DestroyConnection(c), io_loop[c] = 0
  PROVE  ConnInv'
<1>0. /\ connDestory(c) /\ c \in connections_ /\ connections_' = connections_ \ {c}
      /\ UNCHANGED <<io_loop, next_conn_id_, pool, dropped, active, inside,
                     phase>>
      /\ UNCHANGED <<pending, functors, done>>
  BY DEF DestroyConnection
<1>1. \A l \in Loops : Kept(l) /\ InOrder(Todo(l))' /\ Queued(l)' = Queued(l)
  BY <1>0, AllKept
<1>2. c < next_conn_id_
  BY <1>0 DEF ConnInv, Known
<1>3. ASSUME NEW l \in Loops, NEW f \in Queued(l) PROVE f.conn # c
  <2>1. CASE l = 0
    BY <1>0, <2>1 DEF ConnInv, Based
  <2>2. CASE l # 0
    <3>1. f \in Calls
      BY QueuedCalls
    <3>2. f.op \in {"listen", "establish", "remove", "destroy"}
      BY <3>1 DEF Calls, Functor
    <3> QED
      BY <2>2, <3>2 DEF ConnInv, Placed
  <2> QED
    BY <2>1, <2>2
<1>4. ASSUME NEW l \in Loops, c \in active[l] PROVE Freed(c)'
  <2>1. watched[c]
    BY <1>0, <1>4 DEF ConnInv, Reported, Freed
  <2>2. \A k \in Loops : c \notin inside[k]
    BY <2>1 DEF Closing, ConnInv, Status
  <2> QED
    BY <1>0, <1>1, <1>3, <2>2 DEF Freed
<1>5. \A l \in Loops : ~Due(l, "establish", c)
  BY <1>3, DueIsQueued
<1> QED
  BY <1>0, <1>1, <1>2, <1>4, <1>5, DestroyedConns DEF Kept

(* ... and one of a loop of the pool, which is still running.               *)
LEMMA DestroyPoolConns ==
  ASSUME Typed, LoopInv, ConnInv, NEW c \in Conns, DestroyConnection(c), io_loop[c] # 0
  PROVE  ConnInv'
<1>k. PICK k \in Loops : k = io_loop[c]
  BY LoopNumbers
<1>0. /\ c \in connections_ /\ connections_' = connections_ \ {c} /\ server = "body"
      /\ Push(k, "destroy", c) /\ UNCHANGED <<functors, done>>
      /\ UNCHANGED <<io_loop, state_, watched, told, next_conn_id_, pool, dropped, active,
                     inside, phase>>
  BY <1>k DEF DestroyConnection
<1>1. /\ Pushed(k, "destroy", c) /\ InOrder(Todo(k))'
      /\ \A l \in Loops \ {k} : Kept(l) /\ InOrder(Todo(l))' /\ Queued(l)' = Queued(l)
  BY <1>0, PushQueues
<1>2. c < next_conn_id_ /\ ~Freed(c)
  BY <1>0 DEF ConnInv, Known, Freed
<1>3. phase[k] # "left"
  <2>1. k \in 1 .. MaxThreads
    BY <1>k, Bounds DEF Loops
  <2> QED
    BY <1>0, <2>1 DEF LoopInv, Threads, Ending
<1>4. \A l \in Loops \ {k} :
        /\ InOrder(Todo(l))' /\ Queued(l)' = Queued(l)
        /\ \A op : \A d \in Conns : Due(l, op, d)' => Due(l, op, d)
        /\ \A d \in Conns : Due(l, "destroy", d) => Due(l, "destroy", d)'
  BY <1>1 DEF Kept
<1>5. k \in Loops \ {0} /\ k = io_loop[c]
  BY <1>k
<1>6. UNCHANGED <<io_loop, state_, watched, told, next_conn_id_, pool, dropped, active,
                  inside, phase>> /\ connections_' = connections_ \ {c}
  BY <1>0
<1> QED
  BY <1>1, <1>2, <1>3, <1>4, <1>5, <1>6, ErasedConns

(* start(): there is no connection yet.                                     *)
LEMMA StartConns ==
  ASSUME Typed, ConnInv, Start
  PROVE  ConnInv'
<1>0. /\ next_conn_id_ = 1 /\ connections_ = {} /\ \A c \in Conns : ~watched[c]
      /\ \A l \in Loops : pending[l] = <<>> /\ functors[l] = <<>> /\ active[l] = {}
      /\ UNCHANGED <<connections_, io_loop, state_, watched, told, next_conn_id_, dropped,
                     functors, done, active>>
  BY DEF Start, Typed, Unstarted
<1>1. 0 \in Loops /\ Conns \subseteq Nat /\ \A c \in Conns : c >= 1 /\ ~(c < 1)
  BY Bounds DEF Conns
<1>2. \A l \in Loops : Queued(l) = {}
  <2>1. Range(<<>>) = {}
    BY DEF Range
  <2> QED
    BY <1>0, <2>1 DEF Queued
<1>3. \A l \in Loops, c \in Conns : \A op : ~Due(l, op, c)
  BY <1>2, DueIsQueued
<1>4. ASSUME NEW l \in Loops
      PROVE  /\ InOrder(Todo(l))' /\ \A c \in Conns : \A op : ~Due(l, op, c)'
             /\ \A f \in Queued(l)' : f.op = "listen" /\ l = 0 /\ f.conn = Accept
  <2>1. functors'[l] = functors[l] /\ done'[l] = done[l] /\ InOrder(Todo(l))
    BY <1>0 DEF ConnInv, Ordered
  <2>2. CASE pending'[l] = pending[l]
    <3>1. Todo(l)' = Todo(l) /\ Queued(l)' = Queued(l)
      BY <2>1, <2>2, TodoSame
    <3>2. Kept(l) /\ InOrder(Todo(l))'
      BY <2>1, <3>1, SameKept
    <3> QED
      BY <1>2, <1>3, <3>1, <3>2 DEF Kept
  <2>3. CASE pending'[l] # pending[l]
    <3>1. l = 0 /\ pending'[l] = Append(pending[l], Call("listen", Accept))
      <4>1. \/ pending' = pending
            \/ pending' = [pending EXCEPT ![0] = Append(pending[0], Call("listen", Accept))]
        BY DEF Start, Push, Call
      <4> QED
        BY <1>1, <2>3, <4>1, LifeTypes
    <3>2. Call("listen", Accept) \in Calls
      BY DEF Call, Calls, Functor
    <3>3. Pushed(l, "listen", Accept) /\ InOrder(Todo(l))'
      BY <2>1, <3>1, <3>2, PushEffect
    <3>4. \A c \in Conns : c # Accept
      BY LifeTypes
    <3> QED
      BY <1>2, <1>3, <3>1, <3>3, <3>4, CallEqual DEF Pushed
  <2> QED
    BY <2>2, <2>3
<1>5. Known'
  BY <1>0, <1>1 DEF ConnInv, Known
<1>6. Status' /\ Reported'
  BY <1>0 DEF ConnInv, Status, Reported
<1>7. Placed'
  <2>1. \A l \in Loops : \A f \in Queued(l)' : f.op = "listen" /\ l = 0 /\ f.conn = Accept
    BY <1>4
  <2> QED
    BY <2>1 DEF Placed
<1>8. Based' /\ Registered'
  BY <1>0 DEF Based, Registered
<1>9. Ordered' /\ Awaited' /\ Closed'
  <2>1. 1 .. MaxThreads \subseteq Loops
    BY LoopNumbers
  <2> QED
    BY <1>1, <1>4, <2>1 DEF Ordered, Awaited, Closed
<1> QED
  BY <1>5, <1>6, <1>7, <1>8, <1>9 DEF ConnInv

LEMMA NextConnInv ==
  ASSUME Typed, LoopInv, Closing, ConnInv, Next
  PROVE  ConnInv'
<1>1. CASE \E l \in Loops : EnterLoop(l)
  <2>1. /\ UNCHANGED <<connections_, io_loop, state_, watched, told, next_conn_id_, pool,
                       dropped, pending, functors, done>>
        /\ \A l \in Loops : Fewer(l) /\ (phase'[l] = "left" <=> phase[l] = "left")
    BY <1>1, LifeTypes DEF EnterLoop, Fewer
  <2> QED
    BY <2>1, QuietConns
<1>2. CASE \E l \in Loops : Poll(l) \/ SwapFunctors(l) \/ EndRound(l)
  BY <1>2, PollConns, SwapConns, EndConns
<1>3. CASE \E l \in Loops, x \in Conns \cup {Accept} : HandleDestroyed(l, x)
  <2>1. /\ UNCHANGED <<connections_, io_loop, state_, watched, told, next_conn_id_, pool,
                       dropped, pending, functors, done, phase>>
        /\ \A l \in Loops : Fewer(l)
    BY <1>3, LifeTypes DEF HandleDestroyed, Handle, Fewer
  <2> QED
    BY <2>1, QuietConns
<1>4. CASE \E l \in Loops, c \in Conns : \/ handleClose(l, c) \/ removeConnection(l, c)
                                         \/ RunEstablish(l, c) \/ RunDestroy(l, c)
  BY <1>4, CloseConns, ReturnConns, EstablishConns, DestroyConns
<1>5. CASE \E c \in Conns : RunRemove(c) \/ DestroyConnection(c) \/ SendOrShutdown(c)
  BY <1>5, RemoveConns, DestroyBaseConns, DestroyPoolConns, SendConns
<1>6. CASE handleRead
  <2>0. \A l \in Loops : Fewer(l)
    BY <1>6, AcceptFewer
  <2>1. CASE FdFree
    <3>1. PICK k \in Loops : newConnection(k)
      BY <1>6, <2>1 DEF handleRead, Accepted
    <3> QED
      BY <1>6, <2>0, <2>1, <3>1, AcceptBaseConns, AcceptPoolConns
  <2>2. CASE ~FdFree
    <3>1. UNCHANGED <<connections_, io_loop, state_, watched, told, next_conn_id_, pool,
                      dropped, pending, functors, done, phase>>
      BY <1>6, <2>2 DEF handleRead, Handle
    <3> QED
      BY <2>0, <3>1, QuietConns
  <2> QED
    BY <2>1, <2>2
<1>7. CASE RunListen \/ Start
  BY <1>7, ListenConns, StartConns
<1>8. CASE EndBody \/ QuitThread \/ JoinThread \/ DestroyAcceptor \/ StartDtor
  <2>1. UNCHANGED <<connections_, io_loop, state_, watched, told, next_conn_id_, pool,
                    dropped, pending, functors, done, active, inside, phase>>
    BY <1>8 DEF EndBody, QuitThread, JoinThread, DestroyAcceptor, StartDtor
  <2> QED
    BY <2>1, QuietConns DEF Fewer
<1>9. CASE \/ Construct \/ QuitBase \/ Connect \/ \E n \in Loops : setThreadPoolSize(n)
           \/ \E c \in Conns : PeerClose(c)
  <2>1. UNCHANGED <<connections_, io_loop, state_, watched, told, next_conn_id_, pool,
                    dropped, pending, functors, done, active, inside, phase>>
    BY <1>9 DEF Construct, QuitBase, Connect, setThreadPoolSize, PeerClose
  <2> QED
    BY <2>1, QuietConns DEF Fewer
<1>10. CASE AcceptReturns
  <2>1. /\ UNCHANGED <<connections_, io_loop, state_, watched, told, next_conn_id_, pool,
                       dropped, pending, functors, done, phase>>
        /\ \A l \in Loops : Fewer(l)
    BY <1>10, LifeTypes DEF AcceptReturns, Returns, Fewer
  <2> QED
    BY <2>1, QuietConns
<1> QED
  BY <1>1, <1>2, <1>3, <1>4, <1>5, <1>6, <1>7, <1>8, <1>9, <1>10, Steps

(* While the user is told of the close of a connection, nobody else changes *)
(* its state or its loop.                                                   *)
LEMMA NextClosing ==
  ASSUME Typed, LoopInv, Closing, ConnInv, Next
  PROVE  Closing'
<1> SUFFICES ASSUME NEW l \in Loops, NEW c \in Conns, c \in inside'[l]
             PROVE  c < next_conn_id_' /\ io_loop'[c] = l /\ state_'[c] = "disconnected"
  BY DEF Closing
<1>0. c \in inside[l] => /\ c < next_conn_id_ /\ io_loop[c] = l
                         /\ state_[c] = "disconnected" /\ phase[l] = "events"
  BY DEF Closing, LoopInv, InRound
<1>1. CASE c \in inside[l] /\ UNCHANGED <<next_conn_id_, io_loop, state_>>
  BY <1>0, <1>1
<1>2. CASE \E k \in Loops : EnterLoop(k) \/ Poll(k) \/ SwapFunctors(k) \/ EndRound(k)
  BY <1>1, <1>2 DEF EnterLoop, Poll, SwapFunctors, EndRound
<1>3. CASE \E k \in Loops, x \in Conns \cup {Accept} : HandleDestroyed(k, x)
  BY <1>1, <1>3 DEF HandleDestroyed
<1>4. CASE \E k \in Loops, d \in Conns : handleClose(k, d)
  <2>1. PICK k \in Loops, d \in Conns : handleClose(k, d)
    BY <1>4
  <2>2. /\ d \in active[k] /\ inside' = [inside EXCEPT ![k] = {d}]
        /\ state_' = [state_ EXCEPT ![d] = "disconnected"]
        /\ UNCHANGED <<next_conn_id_, io_loop>>
    BY <2>1 DEF handleClose, Handle
  <2>3. d < next_conn_id_ /\ io_loop[d] = k
    BY <2>2 DEF ConnInv, Reported
  <2>4. CASE c = d /\ k = l
    BY <2>2, <2>3, <2>4, LifeTypes
  <2>5. CASE ~(c = d /\ k = l)
    <3>1. c \in inside[l]
      BY <2>2, <2>5, LifeTypes
    <3> QED
      BY <1>0, <2>2, <3>1, LifeTypes
  <2> QED
    BY <2>4, <2>5
<1>5. CASE AcceptReturns \/ \E k \in Loops, d \in Conns : removeConnection(k, d)
  <2>1. PICK k \in Loops : \E x : Returns(k, x) /\ UNCHANGED <<next_conn_id_, io_loop, state_>>
    BY <1>5, LifeTypes DEF AcceptReturns, removeConnection
  <2>2. c \in inside[l]
    BY <2>1, LifeTypes DEF Returns
  <2> QED
    BY <1>1, <2>1, <2>2
<1>6. CASE handleRead
  <2>1. c \in inside[l]
    BY <1>6, AcceptFewer DEF Fewer
  <2>2. CASE FdFree
    <3>1. PICK k \in Loops : newConnection(k)
      BY <1>6, <2>2 DEF handleRead, Accepted
    <3>2. next_conn_id_ \in Nat /\ c \in Nat
      BY LifeTypes
    <3>3. c # next_conn_id_ /\ c < next_conn_id_ + 1
      BY <1>0, <2>1, <3>2
    <3>4. /\ next_conn_id_' = next_conn_id_ + 1
          /\ io_loop' = [io_loop EXCEPT ![next_conn_id_] = k]
          /\ state_' = state_ \/ state_' = [state_ EXCEPT ![next_conn_id_] = "connected"]
      BY <3>1 DEF newConnection, connEstablish
    <3> QED
      BY <1>0, <2>1, <3>3, <3>4, LifeTypes
  <2>3. CASE ~FdFree
    BY <1>1, <1>6, <2>1, <2>3 DEF handleRead
  <2> QED
    BY <2>2, <2>3
<1>7. CASE \E k \in Loops, d \in Conns : RunEstablish(k, d)
  <2>1. PICK k \in Loops, d \in Conns : RunEstablish(k, d)
    BY <1>7
  <2>2. /\ Turn(k, "establish", d) /\ phase[k] = "functors" /\ inside' = inside
        /\ UNCHANGED <<next_conn_id_, io_loop>>
        /\ state_' = [state_ EXCEPT ![d] = "connected"]
    BY <2>1 DEF RunEstablish, Turn, connEstablish
  <2>3. io_loop[d] = k
    BY <2>2, TurnQueued, CallEqual DEF ConnInv, Placed
  <2>4. c # d
    BY <1>0, <2>2, <2>3
  <2> QED
    BY <1>0, <2>2, <2>4, LifeTypes
<1>8. CASE \E d \in Conns : DestroyConnection(d) \/ \E k \in Loops : RunDestroy(k, d)
  <2>1. PICK d \in Conns : /\ inside' = inside /\ UNCHANGED <<next_conn_id_, io_loop>>
                           /\ connDestory(d) \/ state_' = state_
    BY <1>8 DEF DestroyConnection, RunDestroy, Turn
  <2>2. state_[d] # "connected" => state_' = state_
    BY <2>1 DEF connDestory
  <2>3. state_' = state_ \/ state_' = [state_ EXCEPT ![d] = "disconnected"]
    BY <2>1 DEF connDestory
  <2> QED
    BY <1>0, <2>1, <2>3, LifeTypes
<1>9. CASE \E d \in Conns : SendOrShutdown(d)
  <2>1. PICK d \in Conns : SendOrShutdown(d)
    BY <1>9
  <2>2. /\ state_[d] = "connected" /\ state_' = [state_ EXCEPT ![d] = "disconnecting"]
        /\ UNCHANGED <<inside, next_conn_id_, io_loop>>
    BY <2>1 DEF SendOrShutdown
  <2> QED
    BY <1>0, <2>2, LifeTypes
<1>10. CASE RunListen \/ \E d \in Conns : RunRemove(d) \/ PeerClose(d)
  BY <1>1, <1>10 DEF RunListen, RunRemove, PeerClose, Turn
<1>11. CASE EndBody \/ QuitThread \/ JoinThread \/ DestroyAcceptor \/ StartDtor
  BY <1>1, <1>11 DEF EndBody, QuitThread, JoinThread, DestroyAcceptor, StartDtor
<1>12. CASE Construct \/ QuitBase \/ Connect \/ Start \/ \E n \in Loops : setThreadPoolSize(n)
  BY <1>1, <1>12 DEF Construct, QuitBase, Connect, Start, setThreadPoolSize
<1> QED
  BY <1>2, <1>3, <1>4, <1>5, <1>6, <1>7, <1>8, <1>9, <1>10, <1>11, <1>12, Steps

-----------------------------------------------------------------------------
(* The pointers.                                                            *)

(* The steps of the server, and of the base loop, go one way.               *)
LEMMA OneWay ==
  ASSUME Typed, Next, ~StartDtor
  PROVE  /\ exposed' = exposed
         /\ server' \in {"none", "up"} => server \in {"none", "up"}
         /\ server' \in {"body", "pool", "gone"} => server \in {"body", "pool", "gone"}
         /\ phase[0] = "left" => phase'[0] = "left"
         /\ server # "up" => pool' = pool
<1>1. CASE \E l \in Loops : EnterLoop(l) \/ Poll(l) \/ SwapFunctors(l)
  <2>1. /\ UNCHANGED <<exposed, server, pool>>
        /\ \E l \in Loops, p \in Phases : phase[l] # "left" /\ phase' = [phase EXCEPT ![l] = p]
    BY <1>1 DEF EnterLoop, Poll, SwapFunctors, Phases
  <2> QED
    BY <2>1, LifeTypes
<1>2. CASE \E l \in Loops : EndRound(l)
  <2>1. /\ UNCHANGED <<exposed, server, pool>>
        /\ \E l \in Loops : \E p : phase[l] # "left" /\ phase' = [phase EXCEPT ![l] = p]
    BY <1>2 DEF EndRound
  <2> QED
    BY <2>1, LifeTypes
<1>3. CASE \/ \E l \in Loops, x \in Conns \cup {Accept} : HandleDestroyed(l, x)
           \/ \E l \in Loops, c \in Conns : handleClose(l, c)
           \/ handleRead
  BY <1>3 DEF HandleDestroyed, handleClose, handleRead, Handle
<1>10. CASE AcceptReturns \/ \E l \in Loops, c \in Conns : removeConnection(l, c)
  BY <1>10 DEF AcceptReturns, removeConnection, Returns
<1>4. CASE \/ \E l \in Loops, c \in Conns : RunEstablish(l, c) \/ RunDestroy(l, c)
           \/ \E c \in Conns : RunRemove(c)
  BY <1>4 DEF RunEstablish, RunDestroy, RunRemove, Turn
<1>5. CASE RunListen
  <2>1. UNCHANGED <<exposed, phase, pool>>
    BY <1>5 DEF RunListen, Turn
  <2> QED
    BY <1>5, <2>1, ListenServer, Steps
<1>6. CASE \E c \in Conns : DestroyConnection(c) \/ SendOrShutdown(c) \/ PeerClose(c)
  BY <1>6 DEF DestroyConnection, SendOrShutdown, PeerClose
<1>7. CASE EndBody \/ QuitThread \/ JoinThread \/ DestroyAcceptor
  BY <1>7 DEF EndBody, QuitThread, JoinThread, DestroyAcceptor
<1>8. CASE Construct \/ QuitBase \/ Connect \/ \E n \in Loops : setThreadPoolSize(n)
  BY <1>8 DEF Construct, CreateAcceptor, SocketCall, QuitBase, Connect, setThreadPoolSize
<1>9. CASE Start
  <2>1. 0 \notin 1 .. thread_num_ /\ 0 \in Loops
    BY LifeTypes
  <2> QED
    BY <1>9, <2>1 DEF Start, StartThreads, listen, SocketCall
<1> QED
  BY <1>1, <1>2, <1>3, <1>4, <1>5, <1>6, <1>7, <1>8, <1>9, <1>10, Steps

LEMMA NextUnexposed ==
  ASSUME Typed, Hidden, Next
  PROVE  server' \in {"none", "up"} => ~exposed'
<1>1. CASE StartDtor
  BY <1>1 DEF StartDtor
<1>2. CASE ~StartDtor
  BY <1>2, OneWay DEF Hidden
<1> QED
  BY <1>1, <1>2

(* A destructor that begins with nothing known to the base loop.            *)
LEMMA DtorHidden ==
  ASSUME Typed, Hidden, StartDtor
  PROVE  /\ ~exposed' /\ phase'[0] # "left" => Unknown'
         /\ ~exposed' => \A l \in Loops, c \in Conns : c \in active'[l] => watched'[c]
<1>1. /\ UNCHANGED <<phase, pool, active, inside, pending, functors, watched>>
      /\ exposed' = KnownToBase /\ server = "up"
  BY DEF StartDtor
<1>2. ~exposed
  BY <1>1 DEF Hidden
<1>3. \A l \in Loops, c \in Conns : c \in active'[l] => watched'[c]
  BY <1>1, <1>2 DEF Hidden
<1>4. pool \in Nat
  BY LifeTypes
<1>5. ASSUME ~KnownToBase, phase[0] # "left"
      PROVE  Unknown
  <2>1. /\ ~(pool > 0) /\ active[0] = {} /\ inside[0] = {}
        /\ \A f \in Queued(0) : f.op # "listen"
    BY <1>5 DEF KnownToBase, Queued
  <2> QED
    BY <1>4, <2>1 DEF Unknown
<1>6. Queued(0)' = Queued(0)
  BY <1>1 DEF Queued
<1>7. ASSUME Unknown PROVE Unknown'
  BY <1>1, <1>6, <1>7 DEF Unknown
<1> QED
  BY <1>1, <1>3, <1>5, <1>7

(* While the base loop goes on with a server it need not know, it knows     *)
(* nothing of it.                                                           *)
LEMMA NextClean ==
  ASSUME Typed, LoopInv, ConnInv, Hidden, Next, ~StartDtor,
         ~exposed', server' \in {"body", "pool", "gone"}, phase'[0] # "left"
  PROVE  Unknown'
<1>0. /\ ~exposed /\ server \in {"body", "pool", "gone"} /\ phase[0] # "left"
      /\ pool' = pool /\ 0 \in Loops
  <2>1. ~exposed /\ server \in {"body", "pool", "gone"} /\ phase[0] # "left"
    BY OneWay
  <2>2. pool' = pool
    BY <2>1, OneWay
  <2> QED
    BY <2>1, <2>2, LifeTypes
<1>1. /\ pool = 0 /\ active[0] = {} /\ inside[0] = {}
      /\ \A f \in Queued(0) : f.op # "listen"
  BY <1>0 DEF Hidden, Unknown
<1>2. pool' = 0
  BY <1>0, <1>1
<1>3. active'[0] = {} /\ inside'[0] = {}
  <2>1. CASE \E l \in Loops : Poll(l)
    <3>1. PICK l \in Loops : Poll(l)
      BY <2>1
    <3>2. CASE l = 0
      <4>1. server = "gone" /\ active'[0] = Ready(0)
        BY <1>0, <3>1, <3>2, LifeTypes DEF Poll, Runs, BaseFree
      <4>2. connections_ = {} /\ ~listenning_
        BY <4>1 DEF LoopInv, Emptied, Ending
      <4>3. \A c \in Conns : ~(io_loop[c] = 0 /\ watched[c])
        BY <4>2 DEF ConnInv, Based
      <4>4. Ready(0) = {}
        BY <4>2, <4>3 DEF Ready
      <4> QED
        BY <1>1, <3>1, <4>1, <4>4 DEF Poll
    <3>3. CASE l # 0
      BY <1>1, <3>1, <3>3, LifeTypes DEF Poll
    <3> QED
      BY <3>2, <3>3
  <2>2. CASE \E l \in Loops : EnterLoop(l) \/ SwapFunctors(l) \/ EndRound(l)
    BY <1>1, <2>2 DEF EnterLoop, SwapFunctors, EndRound
  <2>3. CASE \/ \E l \in Loops, x \in Conns \cup {Accept} : HandleDestroyed(l, x)
             \/ \E l \in Loops, c \in Conns : handleClose(l, c)
             \/ handleRead
    <3>1. PICK l \in Loops :
            /\ \E x : Handle(l, x)
            /\ \A k \in Loops : k = l \/ inside'[k] = inside[k]
      BY <1>0, <2>3, LifeTypes DEF HandleDestroyed, handleClose, handleRead, Accepted
    <3>2. active'[0] \subseteq active[0] /\ active[l] # {}
      BY <1>0, <3>1, LifeTypes DEF Handle
    <3>3. inside'[0] = inside[0]
      BY <1>0, <1>1, <3>1, <3>2
    <3> QED
      BY <1>1, <3>2, <3>3
  <2>8. CASE AcceptReturns \/ \E l \in Loops, c \in Conns : removeConnection(l, c)
    <3>1. PICK l \in Loops : \E x : Returns(l, x)
      BY <1>0, <2>8 DEF AcceptReturns, removeConnection
    <3> QED
      BY <1>0, <1>1, <3>1, LifeTypes DEF Returns
  <2>4. CASE \/ \E l \in Loops, c \in Conns : RunEstablish(l, c) \/ RunDestroy(l, c)
             \/ RunListen \/ \E c \in Conns : RunRemove(c)
    BY <1>1, <2>4 DEF RunEstablish, RunDestroy, RunListen, RunRemove, Turn
  <2>5. CASE \E c \in Conns : DestroyConnection(c) \/ SendOrShutdown(c) \/ PeerClose(c)
    BY <1>1, <2>5 DEF DestroyConnection, SendOrShutdown, PeerClose
  <2>6. CASE EndBody \/ QuitThread \/ JoinThread \/ DestroyAcceptor
    BY <1>1, <2>6 DEF EndBody, QuitThread, JoinThread, DestroyAcceptor
  <2>7. CASE Construct \/ QuitBase \/ Connect \/ Start \/ \E n \in Loops : setThreadPoolSize(n)
    BY <1>1, <2>7 DEF Construct, QuitBase, Connect, Start, setThreadPoolSize
  <2> QED
    BY <2>1, <2>2, <2>3, <2>4, <2>5, <2>6, <2>7, <2>8, Steps
<1>4. ASSUME NEW f \in Queued(0)', f.op = "listen" PROVE FALSE
  <2>1. CASE UNCHANGED <<pending, functors>>
    <3>1. Queued(0)' = Queued(0)
      BY <2>1 DEF Queued
    <3> QED
      BY <1>1, <1>4, <3>1
  <2>2. ASSUME NEW l \in Loops, NEW op \in {"remove", "destroy"}, NEW c \in Conns,
               Push(l, op, c), functors' = functors
        PROVE  FALSE
    <3>1. pending' = [pending EXCEPT ![l] = Append(pending[l], Call(op, c))]
      BY <2>2 DEF Push, Call
    <3>2. CASE l = 0
      <4>1. Range(Append(pending[0], Call(op, c))) \subseteq Range(pending[0]) \cup {Call(op, c)}
        <5>1. pending[0] \in Seq(Calls) /\ Call(op, c) \in Calls
          BY <1>0, LifeTypes DEF Call, Calls, Functor
        <5> QED
          BY <5>1, RangeAppended
      <4>2. pending'[0] = Append(pending[0], Call(op, c))
        BY <1>0, <3>1, <3>2, LifeTypes
      <4>3. f \in Queued(0) \/ f = Call(op, c)
        BY <1>4, <2>2, <4>1, <4>2 DEF Queued
      <4> QED
        BY <1>1, <1>4, <4>3, CallEqual
    <3>3. CASE l # 0
      <4>1. pending'[0] = pending[0]
        BY <1>0, <3>1, <3>3, LifeTypes
      <4>2. Queued(0)' = Queued(0)
        BY <2>2, <4>1 DEF Queued
      <4> QED
        BY <1>1, <1>4, <4>2
    <3> QED
      BY <3>2, <3>3
  <2>3. CASE \E l \in Loops : EnterLoop(l) \/ Poll(l)
    BY <2>1, <2>3 DEF EnterLoop, Poll
  <2>4. CASE \E l \in Loops : SwapFunctors(l) \/ EndRound(l)
    <3>1. PICK l \in Loops : SwapFunctors(l) \/ EndRound(l)
      BY <2>4
    <3>2. Queued(0)' \subseteq Queued(0)
      <4>1. CASE SwapFunctors(l)
        <5>1. /\ functors' = [functors EXCEPT ![l] = pending[l]]
              /\ pending' = [pending EXCEPT ![l] = <<>>] /\ Range(<<>>) = {}
          BY <4>1 DEF SwapFunctors, Range
        <5> QED
          BY <1>0, <5>1, LifeTypes DEF Queued
      <4>2. CASE EndRound(l)
        <5>1. /\ functors' = [functors EXCEPT ![l] = <<>>] /\ Range(<<>>) = {}
              /\ pending' = pending \/ pending' = [pending EXCEPT ![l] = <<>>]
          BY <4>2 DEF EndRound, Range
        <5> QED
          BY <1>0, <5>1, LifeTypes DEF Queued
      <4> QED
        BY <3>1, <4>1, <4>2
    <3> QED
      BY <1>1, <1>4, <3>2
  <2>5. CASE \E l \in Loops, x \in Conns \cup {Accept} : HandleDestroyed(l, x)
    BY <2>1, <2>5 DEF HandleDestroyed, Handle
  <2>6. CASE \E l \in Loops, c \in Conns : handleClose(l, c)
    BY <2>1, <2>6 DEF handleClose, Handle
  <2>14. CASE AcceptReturns
    BY <2>1, <2>14 DEF AcceptReturns, Returns
  <2>15. CASE \E l \in Loops, c \in Conns : removeConnection(l, c)
    <3>1. PICK l \in Loops, c \in Conns : removeConnection(l, c)
      BY <2>15
    <3>2. /\ functors' = functors /\ io_loop[c] \in Loops
          /\ Push(io_loop[c], "destroy", c) \/ Push(0, "remove", c)
      BY <3>1, LoopNumbers DEF removeConnection, Returns, removeConnectionInLoop
    <3> QED
      BY <1>0, <2>2, <3>2
  <2>7. CASE handleRead
    BY <1>0, <2>7, AcceptHasClient
  <2>8. CASE \/ \E l \in Loops, c \in Conns : RunEstablish(l, c) \/ RunDestroy(l, c)
             \/ RunListen
    BY <2>1, <2>8 DEF RunEstablish, RunDestroy, RunListen, Turn
  <2>9. CASE \E c \in Conns : RunRemove(c) \/ DestroyConnection(c)
    <3>1. PICK c \in Conns : RunRemove(c) \/ DestroyConnection(c)
      BY <2>9
    <3>2. /\ functors' = functors /\ io_loop[c] \in Loops
          /\ Push(io_loop[c], "destroy", c) \/ pending' = pending
      BY <3>1, LoopNumbers DEF RunRemove, DestroyConnection, Turn, removeConnectionInLoop
    <3> QED
      BY <2>1, <2>2, <3>2
  <2>10. CASE \E c \in Conns : SendOrShutdown(c) \/ PeerClose(c)
    BY <2>1, <2>10 DEF SendOrShutdown, PeerClose
  <2>11. CASE EndBody \/ QuitThread \/ JoinThread \/ DestroyAcceptor
    BY <2>1, <2>11 DEF EndBody, QuitThread, JoinThread, DestroyAcceptor
  <2>12. CASE Construct \/ QuitBase \/ Connect \/ \E n \in Loops : setThreadPoolSize(n)
    BY <2>1, <2>12 DEF Construct, QuitBase, Connect, setThreadPoolSize
  <2>13. CASE Start
    BY <1>0, <2>13 DEF Start
  <2> QED
    BY <2>3, <2>4, <2>5, <2>6, <2>7, <2>8, <2>9, <2>10, <2>11, <2>12, <2>13, <2>14,
       <2>15, Steps
<1> QED
  BY <1>2, <1>3, <1>4 DEF Unknown

(* A channel of the round is registered, unless the server is destroyed     *)
(* under the base loop.                                                     *)
LEMMA NextLive ==
  ASSUME Typed, LoopInv, ConnInv, Hidden, Next, ~StartDtor, ~exposed',
         NEW l \in Loops, NEW c \in Conns, c \in active'[l]
  PROVE  watched'[c]
<1>0. ~exposed
  BY OneWay
<1>1. c \in active[l] => watched[c] /\ io_loop[c] = l
  BY <1>0 DEF Hidden, ConnInv, Reported
<1>2. CASE c \in active[l] /\ watched'[c] = watched[c]
  BY <1>1, <1>2
<1>3. CASE \E k \in Loops : Poll(k)
  <2>1. PICK k \in Loops : Poll(k)
    BY <1>3
  <2>2. watched' = watched /\ active' = [active EXCEPT ![k] = Ready(k)]
    BY <2>1 DEF Poll
  <2>3. CASE k = l
    <3>1. c \in Ready(l) /\ c # Accept
      BY <2>2, <2>3, LifeTypes
    <3> QED
      BY <2>2, <3>1 DEF Ready
  <2>4. CASE k # l
    BY <1>1, <2>2, <2>4, LifeTypes
  <2> QED
    BY <2>3, <2>4
<1>4. CASE \E k \in Loops : EnterLoop(k) \/ SwapFunctors(k) \/ EndRound(k)
  BY <1>2, <1>4 DEF EnterLoop, SwapFunctors, EndRound
<1>5. ASSUME NEW k \in Loops, NEW x, Handle(k, x)
      PROVE  c \in active[l] /\ (k = l => c # x)
  BY <1>5, LifeTypes DEF Handle
<1>6. CASE \E k \in Loops, x \in Conns \cup {Accept} : HandleDestroyed(k, x)
  BY <1>2, <1>5, <1>6 DEF HandleDestroyed
<1>16. CASE AcceptReturns \/ \E k \in Loops, d \in Conns : removeConnection(k, d)
  BY <1>2, <1>16 DEF AcceptReturns, removeConnection, Returns
<1>7. CASE \E k \in Loops, d \in Conns : handleClose(k, d)
  <2>1. PICK k \in Loops, d \in Conns : handleClose(k, d)
    BY <1>7
  <2>2. Handle(k, d) /\ d \in active[k] /\ watched' = [watched EXCEPT ![d] = FALSE]
    BY <2>1 DEF handleClose, Handle
  <2>3. c \in active[l] /\ (k = l => c # d)
    BY <1>5, <2>2
  <2>4. io_loop[d] = k
    BY <2>2 DEF ConnInv, Reported
  <2>5. c # d
    BY <1>1, <2>3, <2>4
  <2> QED
    BY <1>2, <2>2, <2>3, <2>5, LifeTypes
<1>8. CASE handleRead
  <2>1. c \in active[l]
    BY <1>5, <1>8, LifeTypes DEF handleRead
  <2>2. CASE watched' = watched
    BY <1>2, <2>1, <2>2
  <2>3. CASE \E d : watched' = [watched EXCEPT ![d] = TRUE]
    BY <1>1, <2>1, <2>3, LifeTypes
  <2> QED
    BY <1>8, <2>2, <2>3 DEF handleRead, Accepted, newConnection, connEstablish
<1>9. CASE \E k \in Loops, d \in Conns : RunEstablish(k, d)
  <2>1. active' = active /\ \E d \in Conns : watched' = [watched EXCEPT ![d] = TRUE]
    BY <1>9 DEF RunEstablish, Turn, connEstablish
  <2> QED
    BY <1>1, <2>1, LifeTypes
<1>10. CASE \E k \in Loops, d \in Conns : RunDestroy(k, d)
  <2>1. PICK k \in Loops, d \in Conns : RunDestroy(k, d)
    BY <1>10
  <2>2. /\ Turn(k, "destroy", d) /\ active' = active /\ phase[k] = "functors"
        /\ watched' = [watched EXCEPT ![d] = FALSE]
    BY <2>1 DEF RunDestroy, Turn, connDestory
  <2>3. active[k] = {}
    BY <2>2 DEF LoopInv, InRound
  <2>4. io_loop[d] = k
    BY <2>2, TurnQueued, CallEqual DEF ConnInv, Placed
  <2>5. c # d
    BY <1>1, <2>2, <2>3, <2>4
  <2> QED
    BY <1>2, <2>2, <2>5, LifeTypes
<1>11. CASE RunListen \/ \E d \in Conns : RunRemove(d)
  BY <1>2, <1>11 DEF RunListen, RunRemove, Turn
<1>12. CASE \E d \in Conns : DestroyConnection(d)
  <2>1. PICK d \in Conns : DestroyConnection(d)
    BY <1>12
  <2>2. active' = active /\ server = "body"
    BY <2>1 DEF DestroyConnection
  <2>3. CASE io_loop[d] = 0
    <3>1. watched' = [watched EXCEPT ![d] = FALSE]
      BY <2>1, <2>3 DEF DestroyConnection, connDestory
    <3>2. active[0] = {}
      BY <1>0, <2>2, LifeTypes DEF Hidden, Unknown, LoopInv, InRound
    <3>3. c # d
      BY <1>1, <2>2, <2>3, <3>2
    <3> QED
      BY <1>2, <2>2, <3>1, <3>3, LifeTypes
  <2>4. CASE io_loop[d] # 0
    BY <1>2, <2>1, <2>2, <2>4 DEF DestroyConnection
  <2> QED
    BY <2>3, <2>4
<1>13. CASE \E d \in Conns : SendOrShutdown(d) \/ PeerClose(d)
  BY <1>2, <1>13 DEF SendOrShutdown, PeerClose
<1>14. CASE EndBody \/ QuitThread \/ JoinThread \/ DestroyAcceptor
  BY <1>2, <1>14 DEF EndBody, QuitThread, JoinThread, DestroyAcceptor
<1>15. CASE Construct \/ QuitBase \/ Connect \/ Start \/ \E n \in Loops : setThreadPoolSize(n)
  BY <1>2, <1>15 DEF Construct, QuitBase, Connect, Start, setThreadPoolSize
<1> QED
  BY <1>3, <1>4, <1>6, <1>7, <1>8, <1>9, <1>10, <1>11, <1>12, <1>13, <1>14, <1>15,
     <1>16, Steps

(* Where the server is gone, no loop of the pool is in a round.             *)
LEMMA PoolStopped ==
  ASSUME Typed, LoopInv, server = "gone", NEW l \in Loops \ {0}
  PROVE  phase[l] \in {"none", "left"}
<1>1. joining > pool /\ joining \in Nat /\ pool \in Nat /\ l \in Nat \ {0}
  BY LifeTypes, LoopNumbers DEF LoopInv, Threads
<1>2. CASE l > pool
  BY <1>2 DEF LoopInv, Threads
<1>3. CASE ~(l > pool)
  <2>1. l \in 1 .. pool /\ l < joining
    BY <1>1, <1>3
  <2> QED
    BY <2>1 DEF LoopInv, Threads
<1> QED
  BY <1>2, <1>3

(* No step follows a pointer that is not good any more.                     *)
LEMMA NextDefined ==
  ASSUME Typed, LoopInv, ConnInv, Hidden, Next, ~exposed'
  PROVE  ~undefined'
<1>0. ~undefined /\ 0 \in Loops
  BY Steps, LifeTypes DEF Ends
<1>1. CASE \E l \in Loops, x \in Conns \cup {Accept} : HandleDestroyed(l, x)
  <2>1. PICK l \in Loops, x \in Conns \cup {Accept} : HandleDestroyed(l, x)
    BY <1>1
  <2>2. ~exposed /\ phase[l] = "events" /\ x \in active[l]
    BY <2>1 DEF HandleDestroyed, Handle
  <2>3. CASE x = Accept
    <3>1. server = "gone" /\ l = 0
      BY <2>1, <2>2, <2>3 DEF HandleDestroyed, LoopInv, InRound
    <3> QED
      BY <2>2, <3>1 DEF Hidden, Unknown
  <2>4. CASE x # Accept
    <3>1. x \in Conns /\ Freed(x)
      BY <2>1, <2>4, AliveNotFreed DEF HandleDestroyed
    <3>2. watched[x] /\ io_loop[x] = l
      BY <2>2, <3>1 DEF Hidden, ConnInv, Reported
    <3>3. Due(l, "destroy", x)
      BY <2>2, <3>1, <3>2 DEF ConnInv, Registered, Freed
    <3> QED
      BY <3>1, <3>3, DueIsQueued DEF Freed
  <2> QED
    BY <2>3, <2>4
<1>2. CASE AcceptReturns \/ \E l \in Loops, c \in Conns : removeConnection(l, c)
  <2>1. PICK l \in Loops : /\ \E x : Returns(l, x)
                           /\ ~exposed /\ undefined' = (server = "gone")
    BY <1>0, <1>2 DEF AcceptReturns, removeConnection, Returns
  <2>2. inside[l] # {} /\ phase[l] = "events"
    BY <2>1 DEF Returns, LoopInv, InRound
  <2>3. server # "gone"
    BY <2>1, <2>2, PoolStopped DEF Hidden, Unknown
  <2> QED
    BY <2>1, <2>3
<1>3. CASE RunListen
  <2>1. /\ Turn(0, "listen", Accept) /\ ~exposed /\ phase[0] = "functors"
        /\ undefined' = (server = "gone")
    BY <1>3 DEF RunListen, Turn
  <2>2. Call("listen", Accept) \in Queued(0)
    BY <1>0, <2>1, TurnQueued
  <2>3. server # "gone"
    BY <2>1, <2>2, CallEqual DEF Hidden, Unknown
  <2> QED
    BY <2>1, <2>3
<1>4. CASE \E c \in Conns : RunRemove(c)
  <2>1. PICK c \in Conns : RunRemove(c)
    BY <1>4
  <2>2. /\ Turn(0, "remove", c) /\ ~exposed /\ phase[0] = "functors"
        /\ undefined' = (server = "gone")
    BY <2>1 DEF RunRemove, Turn
  <2>3. Call("remove", c) \in Queued(0)
    BY <1>0, <2>2, TurnQueued
  <2>4. pool > 0
    BY <1>0, <2>3, CallEqual DEF ConnInv, Placed
  <2>5. server # "gone"
    BY <2>2, <2>4, LifeTypes DEF Hidden, Unknown
  <2> QED
    BY <2>2, <2>5
<1>5. CASE \E l \in Loops : EnterLoop(l) \/ Poll(l) \/ SwapFunctors(l) \/ EndRound(l)
  BY <1>0, <1>5 DEF EnterLoop, Poll, SwapFunctors, EndRound
<1>6. CASE \/ handleRead
           \/ \E l \in Loops, c \in Conns : \/ handleClose(l, c) \/ RunEstablish(l, c)
                                            \/ RunDestroy(l, c)
  BY <1>0, <1>6 DEF handleRead, handleClose, RunEstablish, RunDestroy
<1>7. CASE \E c \in Conns : DestroyConnection(c) \/ SendOrShutdown(c) \/ PeerClose(c)
  BY <1>0, <1>7 DEF DestroyConnection, SendOrShutdown, PeerClose
<1>8. CASE EndBody \/ QuitThread \/ JoinThread \/ DestroyAcceptor \/ StartDtor
  BY <1>0, <1>8 DEF EndBody, QuitThread, JoinThread, DestroyAcceptor, StartDtor
<1>9. CASE Construct \/ QuitBase \/ Connect \/ Start \/ \E n \in Loops : setThreadPoolSize(n)
  BY <1>0, <1>9 DEF Construct, QuitBase, Connect, Start, setThreadPoolSize
<1> QED
  BY <1>1, <1>2, <1>3, <1>4, <1>5, <1>6, <1>7, <1>8, <1>9, Steps

LEMMA NextHidden ==
  ASSUME Typed, LoopInv, ConnInv, Hidden, Next
  PROVE  Hidden'
<1>1. ASSUME ~exposed', server' \in {"body", "pool", "gone"}, phase'[0] # "left"
      PROVE  Unknown'
  BY <1>1, DtorHidden, NextClean
<1>2. ASSUME ~exposed', NEW l \in Loops, NEW c \in Conns, c \in active'[l]
      PROVE  watched'[c]
  BY <1>2, DtorHidden, NextLive
<1>3. server' \in {"none", "up"} => ~exposed'
  BY NextUnexposed
<1>4. undefined' => exposed'
  BY NextDefined
<1> QED
  BY <1>1, <1>2, <1>3, <1>4 DEF Hidden

-----------------------------------------------------------------------------
LEMMA InitLife == Init => Life
<1> SUFFICES ASSUME Init PROVE Life
  OBVIOUS
<1>1. Typed
  BY InitTyped
<1>2. /\ 0 \in Loops /\ Conns \subseteq Nat /\ (\A c \in Conns : c >= 1 /\ ~(c < 1))
      /\ 1 .. MaxThreads \subseteq Loops \ {0} /\ Loops \subseteq Nat
  BY <1>1, LoopNumbers, Bounds DEF Conns
<1>3. \A l \in Loops : /\ pending[l] = <<>> /\ functors[l] = <<>>
                       /\ active[l] = {} /\ inside[l] = {}
  BY DEF Init
<1>4. \A l \in Loops : Queued(l) = {}
  <2>1. Range(<<>>) = {}
    BY DEF Range
  <2> QED
    BY <1>3, <2>1 DEF Queued
<1>5. \A l \in Loops : \A op, c : ~Due(l, op, c)
  BY <1>1, <1>4, DueIsQueued
<1>6. LoopInv
  <2>1. Threads
    <3>1. /\ \A l \in Loops : l > 0 => l # 0
          /\ 1 .. 0 = {}
      BY <1>2
    <3> QED
      BY <1>2, <3>1 DEF Init, Threads
  <2>2. InRound /\ Emptied
    BY <1>3 DEF Init, InRound, Emptied, Ending
  <2> QED
    BY <2>1, <2>2 DEF LoopInv
<1>7. Known /\ Status
  BY <1>2 DEF Init, Known, Status
<1>8. Placed /\ Based /\ Reported
  BY <1>2, <1>3, <1>4 DEF Init, Placed, Based, Reported
<1>9. Ordered
  <2>1. ASSUME NEW l \in Loops PROVE InOrder(Todo(l))
    BY <1>5 DEF InOrder, Due
  <2> QED
    BY <2>1 DEF Ordered
<1>10. Awaited /\ Registered /\ Closed
  BY <1>2, <1>5 DEF Init, Awaited, Registered, Closed
<1>11. Closing /\ Hidden
  BY <1>3 DEF Init, Closing, Hidden
<1> QED
  BY <1>1, <1>6, <1>7, <1>8, <1>9, <1>10, <1>11 DEF Life, ConnInv

LEMMA NextLife == Life /\ [Next]_vars => Life'
<1> SUFFICES ASSUME Life, [Next]_vars PROVE Life'
  OBVIOUS
<1>0. Typed /\ LoopInv /\ Closing /\ ConnInv /\ Hidden /\ Typed'
  BY NextTyped DEF Life
<1>1. CASE Next
  <2>1. LoopInv'
    BY <1>0, <1>1, NextThreads, NextInRound, NextEmptied DEF LoopInv
  <2>2. Closing' /\ ConnInv' /\ Hidden'
    BY <1>0, <1>1, NextClosing, NextConnInv, NextHidden
  <2> QED
    BY <1>0, <2>1, <2>2 DEF Life
<1>2. CASE UNCHANGED vars
  <2>1. LoopInv'
    BY <1>0, <1>2 DEF vars, LoopInv, Threads, InRound, Emptied, Ending
  <2>2. ConnInv' /\ Closing'
    <3>1. \A l \in Loops : Fewer(l)
      BY <1>2 DEF vars, Fewer
    <3>2. Closing'
      BY <1>0, <1>2 DEF vars, Closing
    <3> QED
      BY <1>0, <1>2, <3>1, <3>2, QuietConns DEF vars
  <2>3. Hidden'
    BY <1>0, <1>2 DEF vars, Hidden, Unknown, Queued
  <2> QED
    BY <1>0, <2>1, <2>2, <2>3 DEF Life
<1> QED
  BY <1>1, <1>2

LEMMA LifeInvariant == Spec => []Life
<1>1. Init => Life
  BY InitLife
<1>2. Life /\ [Next]_vars => Life'
  BY NextLife
<1> QED
  BY <1>1, <1>2, PTL DEF Spec

(* A server that is destroyed when the base loop has left loop(), or        *)
(* without a pool when the base loop has no channel of its round to handle  *)
(* or to return to and no listen() to call, leaves nothing dangling: for    *)
(* every pool and every number of clients, no loop follows a pointer to a   *)
(* server, acceptor or connection that is gone (handleClose() of            *)
(* tcp_connection.cc:224, removeConnectionInLoop() of tcp_server.cc,        *)
(* handleEventWithGuard() of channel.cc).  Destroyed inside the user's      *)
(* conn_callback_ of either handler, it does dangle: exposed says so.       *)
THEOREM NothingDangles == Spec => []NoUseAfterFree
<1>1. Life => NoUseAfterFree
  BY DEF Life, Hidden, NoUseAfterFree
<1> QED
  BY <1>1, LifeInvariant, PTL

(* However closes race removals and the destructor, conn_callback_ is told  *)
(* once that a connection is up and at most once that it is down; and when  *)
(* the server is gone, of every end but those the loops of the pool dropped *)
(* and those of connections that had sent or were shut down (handleClose()  *)
(* and connDestory() of tcp_connection.cc).                                 *)
THEOREM EndIsReported == Spec => []ReportedOnce
<1>1. Life => ReportedOnce
  <2> SUFFICES ASSUME Life, NEW c \in Conns
               PROVE  /\ told[c] \in {<<>>, <<"up">>, <<"up", "down">>}
                      /\ server = "gone" /\ c \notin dropped /\ state_[c] # "disconnecting"
                           => told[c] # <<"up">>
    BY DEF ReportedOnce
  <2>0. Typed /\ LoopInv /\ ConnInv
    BY DEF Life
  <2>1. told[c] \in {<<>>, <<"up">>, <<"up", "down">>}
    BY <2>0 DEF ConnInv, Status
  <2>2. ASSUME server = "gone", c \notin dropped, state_[c] # "disconnecting",
               told[c] = <<"up">>
        PROVE  FALSE
    <3>1. state_[c] = "connected" /\ watched[c]
      BY <2>0, <2>2 DEF ConnInv, Status
    <3>2. connections_ = {}
      BY <2>0, <2>2 DEF LoopInv, Emptied, Ending
    <3>3. PICK l \in Loops : l = io_loop[c]
      BY <2>0, LoopNumbers
    <3>4. l # 0 /\ c < next_conn_id_
      BY <2>0, <3>1, <3>2, <3>3 DEF ConnInv, Based, Known
    <3>5. Due(l, "destroy", c)
      BY <2>0, <2>2, <3>1, <3>2, <3>3 DEF ConnInv, Registered
    <3>6. phase[l] # "none"
      <4>1. l <= pool /\ joining > pool /\ l \in Nat /\ pool \in Nat /\ joining \in Nat
        BY <2>0, <2>2, <3>3, <3>4, LifeTypes, LoopNumbers
        DEF ConnInv, Known, LoopInv, Threads
      <4>2. l \in 1 .. pool /\ l < joining
        BY <3>4, <4>1
      <4> QED
        BY <2>0, <4>2 DEF LoopInv, Threads
    <3>7. phase[l] = "left" /\ l \in 1 .. MaxThreads
      BY <2>0, <2>2, <3>4, <3>6, PoolStopped, Bounds DEF Loops
    <3> QED
      BY <2>0, <3>1, <3>5, <3>7 DEF ConnInv, Closed
  <2> QED
    BY <2>1, <2>2
<1> QED
  BY <1>1, LifeInvariant, PTL
=============================================================================
