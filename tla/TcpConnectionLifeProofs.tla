----------------------- MODULE TcpConnectionLifeProofs -----------------------
(****************************************************************************)
(* Proofs about the life of a TcpConnection that only its loop's thread     *)
(* uses: what conn_callback_ is told, and that the channel outlives its     *)
(* registration with epoll.                                                 *)
(****************************************************************************)
EXTENDS TcpConnectionProofs

USE DEF conn, socket, round, owners, user, history, Owning, Raw

-----------------------------------------------------------------------------
(* The inductive invariant.                                                 *)

(* What may be left to do: the handlers of an event up to handleRead(),     *)
(* those after it, and connDestory().                                       *)
Reading ==
  {<<"error", "read">>, <<"error", "read", "write">>, <<"read">>,
   <<"read", "write">>}

AfterRead ==
  {<<>>, <<"write">>, <<"user">>, <<"user", "write">>,
   <<"user", "close_callback">>, <<"user", "close_callback", "write">>,
   <<"close_callback">>, <<"close_callback", "write">>}

Removing == {<<"user", "remove">>, <<"remove">>}

Destroying == Removing \cup {<<"disconnect", "user", "remove">>}

(* No call of another thread is under way or has left a functor.            *)
Quiet == call = "none" /\ functors \in Seq(Owning) /\ pending \in Seq(Owning)

(* connEstablish() is the first functor of all and runs once; before it the *)
(* connection does nothing.                                                 *)
Establishing ==
  /\ notified = <<>> =>
       /\ state_ = "connecting" /\ chan = "initialized" /\ events_ = {}
       /\ todo = <<>>
       /\ IF phase = "functors"
          THEN functors # <<>> /\ functors[1] = "establish" /\ done = 0
          ELSE pending # <<>> /\ pending[1] = "establish"
  /\ \A i \in 1 .. Len(pending) :
       pending[i] = "establish" => i = 1 /\ notified = <<>> /\ phase # "functors"
  /\ \A i \in 1 .. Len(functors) :
       functors[i] = "establish" => i = 1 /\ (done = 0 => notified = <<>>)

(* A watched channel is one of a connection that is up, and watched for     *)
(* reading.                                                                 *)
Watching ==
  /\ notified \in {<<>>, <<"up">>, <<"up", "down">>}
  /\ chan = "added" => "read" \in events_ /\ notified = <<"up">>
  /\ state_ = "connected" => chan = "added"

(* Events are reported for a watched channel, a hangup with something to    *)
(* read, and handleRead() finds the channel as it was reported; what is     *)
(* left of connDestory() agrees with the test it made.                      *)
Handling ==
  /\ revents_ # {} => /\ phase = "events" /\ todo = <<>> /\ chan = "added"
                      /\ "HUP" \in revents_ => "IN" \in revents_
  /\ phase = "poll" => todo = <<>>
  /\ phase = "events" => /\ todo \in Reading \cup AfterRead
                         /\ todo \in Reading => chan = "added"
                         /\ todo # <<>> => chan = "added" \/ events_ = {}
  /\ phase = "functors" =>
       /\ todo \in {<<>>, <<"user">>} \cup Destroying
       /\ todo \in Destroying => done > 0 /\ functors[done] = "destroy"
       /\ todo \in Removing => state_ # "connected"
       /\ todo \in Destroying \ Removing => state_ = "connected"

(* Before a connection is up, and while its channel is watched, the map     *)
(* holds it or connDestory() is still to come or under way.                 *)
Keeping ==
  notified = <<>> \/ chan = "added" =>
    \/ in_map
    \/ \E i \in 1 .. Len(pending) : pending[i] = "destroy"
    \/ \E i \in done + 1 .. Len(functors) : functors[i] = "destroy"
    \/ todo \in Destroying

Life == Quiet /\ Establishing /\ Watching /\ Handling /\ Keeping

-----------------------------------------------------------------------------
(* Facts about what is left to do and about the functors.                   *)

LEMMA TodoKinds ==
  /\ <<>> \notin Reading /\ <<>> \notin Destroying /\ <<>> \in AfterRead
  /\ Reading \cap AfterRead = {} /\ Reading \cap Destroying = {}
  /\ AfterRead \cap Destroying = {}
  /\ <<"user">> \in AfterRead /\ <<"write">> \in AfterRead
  /\ <<"remove">> \in Removing /\ <<"user", "remove">> \in Removing
  /\ <<"disconnect", "user", "remove">> \in Destroying \ Removing
  /\ Removing \subseteq Destroying
  BY DEF Reading, AfterRead, Removing, Destroying

Todos == Reading \cup AfterRead \cup Destroying

LEMMA TodoSteps ==
  ASSUME NEW t \in Todos, t # <<>>
  PROVE  /\ Head(t) # "close"
         /\ Head(t) = "error" => t \in Reading /\ Tail(t) \in Reading
         /\ Head(t) = "read" => t \in Reading /\ Tail(t) \in {<<>>, <<"write">>}
         /\ Head(t) = "write" => t \in AfterRead /\ Tail(t) = <<>>
         /\ Head(t) = "close_callback" =>
              t \in AfterRead /\ Tail(t) \in {<<>>, <<"write">>}
         /\ Head(t) = "user" =>
              \/ t \in AfterRead /\ Tail(t) \in AfterRead
              \/ t = <<"user", "remove">> /\ Tail(t) = <<"remove">>
         /\ Head(t) = "disconnect" =>
              t \in Destroying \ Removing /\ Tail(t) = <<"user", "remove">>
         /\ Head(t) = "remove" => t = <<"remove">> /\ Tail(t) = <<>>
<1>1. CASE t \in Reading
  <2>1. CASE t = <<"error", "read">>
    BY <2>1 DEF Reading
  <2>2. CASE t = <<"error", "read", "write">>
    BY <2>2 DEF Reading
  <2>3. CASE t = <<"read">>
    BY <2>3 DEF Reading
  <2>4. CASE t = <<"read", "write">>
    BY <2>4 DEF Reading
  <2> QED
    BY <1>1, <2>1, <2>2, <2>3, <2>4 DEF Reading
<1>2. CASE t \in AfterRead
  <2>1. CASE t = <<"write">>
    BY <2>1 DEF AfterRead
  <2>2. CASE t = <<"user">>
    BY <2>2 DEF AfterRead
  <2>3. CASE t = <<"user", "write">>
    BY <2>3 DEF AfterRead
  <2>4. CASE t = <<"user", "close_callback">>
    BY <2>4 DEF AfterRead
  <2>5. CASE t = <<"user", "close_callback", "write">>
    BY <2>5 DEF AfterRead
  <2>6. CASE t = <<"close_callback">>
    BY <2>6 DEF AfterRead
  <2>7. CASE t = <<"close_callback", "write">>
    BY <2>7 DEF AfterRead
  <2> QED
    BY <1>2, <2>1, <2>2, <2>3, <2>4, <2>5, <2>6, <2>7 DEF AfterRead
<1>3. CASE t \in Destroying
  <2>1. CASE t = <<"remove">>
    BY <2>1
  <2>2. CASE t = <<"user", "remove">>
    BY <2>2
  <2>3. CASE t = <<"disconnect", "user", "remove">>
    BY <2>3, TodoKinds
  <2> QED
    BY <1>3, <2>1, <2>2, <2>3 DEF Destroying, Removing
<1> QED
  BY <1>1, <1>2, <1>3 DEF Todos

(* What conn_callback_ is told, step by step.                               *)
LEMMA Told ==
  /\ <<>> # <<"up">> /\ <<>> # <<"up", "down">> /\ <<"up">> # <<"up", "down">>
  /\ Append(<<>>, "up") = <<"up">>
  /\ Append(<<"up">>, "down") = <<"up", "down">>
<1>1. <<>> # <<"up">> /\ <<>> # <<"up", "down">> /\ <<"up">> # <<"up", "down">>
  OBVIOUS
<1>2. Append(<<>>, "up") = <<"up">>
  OBVIOUS
<1>3. Append(<<"up">>, "down") = <<"up", "down">>
  <2> DEFINE S == {"up", "down"}
             s == Append(<<"up">>, "down")
  <2>1. <<"up">> \in Seq(S) /\ Len(<<"up">>) = 1 /\ <<"up">>[1] = "up"
    OBVIOUS
  <2>2. s \in Seq(S) /\ Len(s) = 2 /\ s[1] = "up" /\ s[2] = "down"
    BY <2>1, AppendProperties
  <2>3. <<"up", "down">> \in Seq(S) /\ Len(<<"up", "down">>) = 2
    OBVIOUS
  <2> HIDE DEF s
  <2>4. \A i \in 1 .. Len(s) : s[i] = <<"up", "down">>[i]
    BY <2>2
  <2>5. s = <<"up", "down">>
    BY <2>2, <2>3, <2>4, SeqEqual
  <2> QED
    BY <2>5 DEF s
<1> QED
  BY <1>1, <1>2, <1>3

(* A step pushes at most a functor that is not connEstablish().             *)
Pushed ==
  \/ pending' = pending
  \/ pending' = Append(pending, "callback")
  \/ pending' = Append(pending, "destroy")

LEMMA PushedFunctors ==
  ASSUME Quiet, Pushed
  PROVE  /\ pending' \in Seq(Owning)
         /\ pending # <<>> => pending' # <<>> /\ pending'[1] = pending[1]
         /\ \A i \in 1 .. Len(pending) :
              i \in 1 .. Len(pending') /\ pending'[i] = pending[i]
         /\ \A i \in 1 .. Len(pending') :
              pending'[i] = "establish" =>
                i \in 1 .. Len(pending) /\ pending[i] = "establish"
<1>1. pending \in Seq(Owning)
  BY DEF Quiet
<1>2. ASSUME NEW f \in Owning, f # "establish", pending' = Append(pending, f)
      PROVE  /\ pending' \in Seq(Owning)
             /\ pending # <<>> => pending' # <<>> /\ pending'[1] = pending[1]
             /\ \A i \in 1 .. Len(pending) :
                  i \in 1 .. Len(pending') /\ pending'[i] = pending[i]
             /\ \A i \in 1 .. Len(pending') :
                  pending'[i] = "establish" =>
                    i \in 1 .. Len(pending) /\ pending[i] = "establish"
  <2>1. /\ pending' \in Seq(Owning) /\ Len(pending') = Len(pending) + 1
        /\ Len(pending) \in Nat
        /\ \A i \in 1 .. Len(pending) : pending'[i] = pending[i]
        /\ pending'[Len(pending) + 1] = f
    BY <1>1, <1>2, AppendProperties
  <2>2. pending # <<>> => Len(pending) # 0
    BY <1>1, EmptyOrNot
  <2>3. pending' # <<>>
    BY <2>1, EmptyOrNot
  <2> QED
    BY <1>2, <2>1, <2>2, <2>3
<1>3. CASE pending' = pending
  BY <1>1, <1>3
<1> QED
  BY <1>2, <1>3 DEF Pushed

(* How what is left to do is put together.                                  *)
LEMMA Pair ==
  ASSUME NEW a, NEW b
  PROVE  <<a>> \o <<b>> = <<a, b>>
<1> DEFINE S == {a, b}
           s == <<a>> \o <<b>>
           t == <<a, b>>
<1>1. /\ <<a>> \in Seq(S) /\ <<b>> \in Seq(S) /\ Len(<<a>>) = 1 /\ Len(<<b>>) = 1
      /\ <<a>>[1] = a /\ <<b>>[1] = b
  OBVIOUS
<1>2. /\ s \in Seq(S) /\ Len(s) = 2
      /\ \A i \in 1 .. 2 : s[i] = IF i <= 1 THEN <<a>>[i] ELSE <<b>>[i - 1]
  BY <1>1, ConcatProperties
<1>3. t \in Seq(S) /\ Len(t) = 2 /\ t[1] = a /\ t[2] = b
  OBVIOUS
<1> HIDE DEF s, t
<1>4. s[1] = a /\ s[2] = b
  BY <1>1, <1>2
<1>5. \A i \in 1 .. Len(s) : s[i] = t[i]
  BY <1>2, <1>3, <1>4
<1>6. s = t
  BY <1>2, <1>3, <1>5, SeqEqual
<1> QED
  BY <1>6 DEF s, t

LEMMA Triple ==
  ASSUME NEW a, NEW b, NEW c
  PROVE  <<a, b>> \o <<c>> = <<a, b, c>>
<1> DEFINE S == {a, b, c}
           s == <<a, b>> \o <<c>>
           t == <<a, b, c>>
<1>1. /\ <<a, b>> \in Seq(S) /\ <<c>> \in Seq(S) /\ Len(<<a, b>>) = 2
      /\ Len(<<c>>) = 1 /\ <<a, b>>[1] = a /\ <<a, b>>[2] = b /\ <<c>>[1] = c
  OBVIOUS
<1>2. /\ s \in Seq(S) /\ Len(s) = 3
      /\ \A i \in 1 .. 3 : s[i] = IF i <= 2 THEN <<a, b>>[i] ELSE <<c>>[i - 2]
  BY <1>1, ConcatProperties
<1>3. t \in Seq(S) /\ Len(t) = 3 /\ t[1] = a /\ t[2] = b /\ t[3] = c
  OBVIOUS
<1> HIDE DEF s, t
<1>4. s[1] = a /\ s[2] = b /\ s[3] = c
  BY <1>1, <1>2
<1>5. \A i \in 1 .. Len(s) : s[i] = t[i]
  BY <1>2, <1>3, <1>4
<1>6. s = t
  BY <1>2, <1>3, <1>5, SeqEqual
<1> QED
  BY <1>6 DEF s, t

LEMMA TodoConcats ==
  /\ <<"user">> \o <<>> = <<"user">>
  /\ <<"user">> \o <<"write">> = <<"user", "write">>
  /\ <<"user", "close_callback">> \o <<>> = <<"user", "close_callback">>
  /\ <<"user", "close_callback">> \o <<"write">> = <<"user", "close_callback", "write">>
<1>1. <<"user">> \o <<>> = <<"user">>
  OBVIOUS
<1>2. <<"user">> \o <<"write">> = <<"user", "write">>
  BY Pair, Zenon
<1>3. <<"user", "close_callback">> \o <<>> = <<"user", "close_callback">>
  OBVIOUS
<1>4. <<"user", "close_callback">> \o <<"write">> = <<"user", "close_callback", "write">>
  BY Triple, Zenon
<1> QED
  BY <1>1, <1>2, <1>3, <1>4

LEMMA EventConcats ==
  ASSUME NEW e \in {<<>>, <<"error">>}, NEW w \in {<<>>, <<"write">>}
  PROVE  <<>> \o e \o <<"read">> \o w \in Reading
<1>1. /\ <<>> \o <<>> \o <<"read">> = <<"read">>
      /\ <<"read">> \o <<>> = <<"read">>
      /\ <<"error", "read">> \o <<>> = <<"error", "read">>
      /\ <<>> \o <<"error">> = <<"error">>
  OBVIOUS
<1>2. /\ <<"read">> \o <<"write">> = <<"read", "write">>
      /\ <<"error">> \o <<"read">> = <<"error", "read">>
  BY Pair, Zenon
<1>3. <<"error", "read">> \o <<"write">> = <<"error", "read", "write">>
  BY Triple, Zenon
<1>4. CASE e = <<>>
  <2>1. <<>> \o e \o <<"read">> = <<"read">>
    BY <1>1, <1>4
  <2> QED
    BY <1>1, <1>2, <2>1 DEF Reading
<1>5. CASE e = <<"error">>
  <2>1. <<>> \o e \o <<"read">> = <<"error", "read">>
    BY <1>1, <1>2, <1>5
  <2> QED
    BY <1>1, <1>3, <2>1 DEF Reading
<1> QED
  BY <1>4, <1>5

-----------------------------------------------------------------------------
(* When a part of the invariant is left alone.                              *)

LEMMA StillQuiet ==
  ASSUME Quiet, Pushed, UNCHANGED <<call, functors>>
  PROVE  Quiet'
  BY PushedFunctors DEF Quiet

LEMMA StillEstablishing ==
  ASSUME Quiet, Establishing, Pushed, UNCHANGED <<functors, done>>,
         (phase = "functors") <=> (phase' = "functors"),
         \/ notified' = notified
         \/ notified # <<>> /\ notified' # <<>>,
         notified = <<>> => UNCHANGED <<state_, chan, events_, todo>>
  PROVE  Establishing'
<1>1. /\ pending # <<>> => pending' # <<>> /\ pending'[1] = pending[1]
      /\ \A i \in 1 .. Len(pending') :
           pending'[i] = "establish" =>
             i \in 1 .. Len(pending) /\ pending[i] = "establish"
  BY PushedFunctors
<1>2. notified' = <<>> =>
        /\ state_' = "connecting" /\ chan' = "initialized" /\ events_' = {}
        /\ todo' = <<>>
        /\ IF phase' = "functors"
           THEN functors' # <<>> /\ functors'[1] = "establish" /\ done' = 0
           ELSE pending' # <<>> /\ pending'[1] = "establish"
  BY <1>1 DEF Establishing
<1>3. \A i \in 1 .. Len(pending') :
        pending'[i] = "establish" => i = 1 /\ notified' = <<>> /\ phase' # "functors"
  BY <1>1 DEF Establishing
<1>4. \A i \in 1 .. Len(functors') :
        functors'[i] = "establish" => i = 1 /\ (done' = 0 => notified' = <<>>)
  BY DEF Establishing
<1> QED
  BY <1>2, <1>3, <1>4 DEF Establishing

LEMMA StillKeeping ==
  ASSUME Quiet, Keeping, Pushed, UNCHANGED <<functors, done, in_map>>,
         notified' = <<>> \/ chan' = "added" =>
           /\ notified = <<>> \/ chan = "added"
           /\ todo \in Destroying => todo' \in Destroying
  PROVE  Keeping'
<1>1. \A i \in 1 .. Len(pending) :
        i \in 1 .. Len(pending') /\ pending'[i] = pending[i]
  BY PushedFunctors
<1> QED
  BY <1>1 DEF Keeping

LEMMA AfterReading ==
  ASSUME phase' = "events", revents_' = {}, todo' \in AfterRead,
         todo' # <<>> => chan' = "added" \/ events_' = {}
  PROVE  Handling'
  BY TodoKinds DEF Handling

(* The loop is in the middle of something.                                  *)
LEMMA InTheMiddle ==
  ASSUME TypeOK, Establishing, Handling, NEW k, Op(k)
  PROVE  /\ todo \in Todos /\ todo # <<>> /\ Head(todo) = k
         /\ notified # <<>> /\ revents_ = {} /\ revents_' = {}
         /\ UNCHANGED <<phase, functors, done, call>>
         /\ phase = "events" => /\ todo \in Reading \cup AfterRead
                                /\ chan = "added" \/ events_ = {}
         /\ phase # "events" => phase = "functors" /\ todo \in {<<"user">>} \cup Destroying
<1>1. todo # <<>> /\ Head(todo) = k /\ UNCHANGED <<phase, revents_, functors, done, call>>
  BY DEF Op
<1>2. phase \in {"poll", "events", "functors"}
  BY DEF TypeOK
<1>3. notified # <<>> /\ revents_ = {} /\ phase # "poll"
  BY <1>1 DEF Establishing, Handling
<1>4. phase = "events" => /\ todo \in Reading \cup AfterRead
                          /\ chan = "added" \/ events_ = {}
  BY <1>1 DEF Handling
<1>5. phase = "functors" => todo \in {<<"user">>} \cup Destroying
  BY <1>1 DEF Handling
<1>6. todo \in Todos
  BY <1>2, <1>3, <1>4, <1>5, TodoKinds DEF Todos
<1> QED
  BY <1>1, <1>2, <1>3, <1>4, <1>5, <1>6

(* The handlers of events run for an event.                                 *)
LEMMA InEvents ==
  ASSUME TypeOK, Establishing, Handling,
         NEW k \in {"error", "read", "write", "close_callback"}, Op(k)
  PROVE  phase = "events" /\ phase' = "events" /\ todo \notin Destroying
<1>1. todo \in Reading \cup AfterRead /\ Head(todo) = k
  BY InTheMiddle, TodoSteps
<1>2. Head(<<"user">>) = "user"
  OBVIOUS
<1>3. todo \notin Destroying /\ todo # <<"user">>
  BY <1>1, <1>2, TodoKinds
<1> QED
  BY <1>3, InTheMiddle

-----------------------------------------------------------------------------
(* The steps that keep the invariant: first user code.                      *)

LEMMA LifeSend ==
  ASSUME TypeOK, Life, NEW len, NEW k, Send(len, k)
  PROVE  Life'
<1>1. /\ state_ = "connected" /\ chan = "added" /\ "read" \in events_
      /\ notified = <<"up">> /\ notified # <<>>
  BY Told DEF Send, Life, Watching
<1>2. /\ state_' = "disconnected" /\ Pushed
      /\ UNCHANGED <<phase, revents_, functors, done, todo, in_map, call, notified>>
  BY DEF Send, sendInLoop, PushIf, Pushed
<1>3. chan' = "added" /\ "read" \in events_'
  BY <1>1 DEF Send, sendInLoop, UpdateChannel
<1>4. Quiet'
  BY <1>2, StillQuiet DEF Life
<1>5. Establishing'
  BY <1>1, <1>2, StillEstablishing DEF Life
<1>6. Watching'
  BY <1>1, <1>2, <1>3 DEF Watching, Life
<1>7. Handling'
  <2>1. todo \notin Destroying \ Removing
    <3>1. MayUse
      BY DEF Send
    <3>2. Head(<<"disconnect", "user", "remove">>) = "disconnect"
      OBVIOUS
    <3>3. \A t \in Destroying \ Removing : t = <<"disconnect", "user", "remove">>
      BY DEF Destroying
    <3> QED
      BY <3>1, <3>2, <3>3, TodoKinds DEF MayUse
  <2> QED
    BY <1>1, <1>2, <1>3, <2>1 DEF Handling, Life
<1>8. Keeping'
  BY <1>1, <1>2, StillKeeping DEF Life
<1> QED
  BY <1>4, <1>5, <1>6, <1>7, <1>8 DEF Life

LEMMA LifeShutdown ==
  ASSUME TypeOK, Life, Shutdown
  PROVE  Life'
<1>1. /\ state_ = "connected" /\ notified # <<>>
  BY Told DEF Shutdown, Life, Watching
<1>2. /\ state_' = "disconnecting" /\ Pushed
      /\ UNCHANGED <<events_, chan, phase, revents_, functors, done, todo, in_map,
                     call, notified>>
  BY DEF Shutdown, Pushed
<1>3. Quiet'
  BY <1>2, StillQuiet DEF Life
<1>4. Establishing'
  BY <1>1, <1>2, StillEstablishing DEF Life
<1>5. Watching'
  BY <1>2 DEF Watching, Life
<1>6. Handling'
  <2>1. todo \notin Destroying \ Removing
    <3>1. MayUse
      BY DEF Shutdown
    <3>2. Head(<<"disconnect", "user", "remove">>) = "disconnect"
      OBVIOUS
    <3>3. \A t \in Destroying \ Removing : t = <<"disconnect", "user", "remove">>
      BY DEF Destroying
    <3> QED
      BY <3>1, <3>2, <3>3, TodoKinds DEF MayUse
  <2> QED
    BY <1>2, <2>1 DEF Handling, Life
<1>7. Keeping'
  BY <1>2, StillKeeping DEF Life
<1> QED
  BY <1>3, <1>4, <1>5, <1>6, <1>7 DEF Life

(* Steps that touch none of this.                                           *)
LEMMA LifeUnchanged ==
  ASSUME Life,
         UNCHANGED <<state_, events_, chan, phase, revents_, functors, done, todo,
                     pending, in_map, call, notified>>
  PROVE  Life'
<1>1. Pushed
  BY DEF Pushed
<1>2. Quiet' /\ Establishing' /\ Keeping'
  BY <1>1, StillQuiet, StillEstablishing, StillKeeping DEF Life
<1>3. Watching'
  BY DEF Watching, Life
<1>4. Handling'
  BY DEF Handling, Life
<1> QED
  BY <1>2, <1>3, <1>4 DEF Life

(* The server drops the connection and pushes connDestory().                *)
LEMMA LifeServer ==
  ASSUME TypeOK, Life, removeConnectionInLoop \/ DestroyServer
  PROVE  Life'
<1>1. /\ UNCHANGED <<state_, events_, chan, phase, revents_, functors, done, todo,
                     call, notified>>
      /\ Pushed
      /\ pending' = Append(pending, "destroy") \/ (~in_map /\ pending' = pending)
  BY DEF removeConnectionInLoop, DestroyServer, Pushed
<1>2. Quiet'
  BY <1>1, StillQuiet DEF Life
<1>3. Establishing'
  BY <1>1, StillEstablishing DEF Life
<1>4. Watching'
  BY <1>1 DEF Watching, Life
<1>5. Handling'
  BY <1>1 DEF Handling, Life
<1>6. Keeping'
  <2>1. CASE pending' = Append(pending, "destroy")
    <3>1. pending \in Seq(Owning)
      BY DEF Life, Quiet
    <3>2. /\ Len(pending') = Len(pending) + 1 /\ Len(pending) \in Nat
          /\ pending'[Len(pending) + 1] = "destroy"
      BY <2>1, <3>1, AppendProperties
    <3>3. \E i \in 1 .. Len(pending') : pending'[i] = "destroy"
      BY <3>2
    <3> QED
      BY <3>3 DEF Keeping
  <2>2. CASE ~in_map /\ pending' = pending
    BY <1>1, <2>2 DEF Keeping, Life
  <2> QED
    BY <1>1, <2>1, <2>2
<1> QED
  BY <1>2, <1>3, <1>4, <1>5, <1>6 DEF Life

-----------------------------------------------------------------------------
(* A round of the loop.                                                     *)

LEMMA LifePoll ==
  ASSUME TypeOK, Life, NEW report, Poll(report)
  PROVE  Life'
<1>1. /\ UNCHANGED <<state_, events_, chan, functors, done, todo, pending, in_map,
                     call, notified>>
      /\ Pushed /\ phase = "poll" /\ phase' = "events" /\ revents_' = report
      /\ report # {} => chan = "added"
      /\ report \in {{}, Level, Level \cup Writable}
  BY DEF Poll, Pushed
<1>2. Quiet' /\ Keeping'
  BY <1>1, StillQuiet, StillKeeping DEF Life
<1>3. Establishing'
  BY <1>1, StillEstablishing DEF Life
<1>4. Watching'
  BY <1>1 DEF Watching, Life
<1>5. "HUP" \in report => "IN" \in report
  <2> SUFFICES ASSUME "HUP" \in report PROVE "IN" \in report
    OBVIOUS
  <2>1. "read" \in events_
    BY <1>1 DEF Life, Watching
  <2>2. "HUP" \in Level => "IN" \in Level
    BY <2>1 DEF Level
  <2>3. "HUP" \notin Writable
    BY DEF Writable
  <2> QED
    BY <1>1, <2>2, <2>3
<1>6. todo = <<>>
  BY <1>1 DEF Life, Handling
<1>7. Handling'
  BY <1>1, <1>5, <1>6, TodoKinds DEF Handling
<1> QED
  BY <1>2, <1>3, <1>4, <1>7 DEF Life

LEMMA LifeHandleEvent ==
  ASSUME TypeOK, Life, HandleEvent
  PROVE  Life'
<1>1. /\ UNCHANGED <<state_, events_, chan, phase, functors, done, pending, in_map,
                     call, notified>>
      /\ Pushed /\ phase = "events" /\ revents_' = {} /\ revents_ # {} /\ todo = <<>>
  BY DEF HandleEvent, Pushed
<1>2. chan = "added" /\ notified # <<>>
  BY <1>1, Told DEF Life, Handling, Watching
<1>3. todo' \in Reading
  <2>1. ~("HUP" \in revents_ /\ "IN" \notin revents_)
    BY <1>1 DEF Life, Handling
  <2> DEFINE e == IF "ERR" \in revents_ THEN <<"error">> ELSE <<>>
             w == IF "OUT" \in revents_ THEN <<"write">> ELSE <<>>
  <2>2. todo' = <<>> \o e \o <<"read">> \o w
    BY <2>1 DEF HandleEvent
  <2>3. e \in {<<>>, <<"error">>} /\ w \in {<<>>, <<"write">>}
    OBVIOUS
  <2> HIDE DEF e, w
  <2> QED
    BY <2>2, <2>3, EventConcats
<1>4. Quiet'
  BY <1>1, StillQuiet DEF Life
<1>5. Establishing'
  BY <1>1, <1>2, StillEstablishing DEF Life
<1>6. Watching'
  BY <1>1 DEF Watching, Life
<1>7. Handling'
  BY <1>1, <1>2, <1>3 DEF Handling
<1>8. Keeping'
  BY <1>1, <1>2, TodoKinds, StillKeeping DEF Life
<1> QED
  BY <1>4, <1>5, <1>6, <1>7, <1>8 DEF Life

LEMMA LifeSwapFunctors ==
  ASSUME TypeOK, BatchInRound, Life, SwapFunctors
  PROVE  Life'
<1>1. /\ UNCHANGED <<state_, events_, chan, revents_, done, todo, in_map, call, notified>>
      /\ phase = "events" /\ phase' = "functors" /\ revents_ = {} /\ todo = <<>>
      /\ functors' = pending /\ pending' = <<>>
  BY DEF SwapFunctors
<1>2. functors = <<>> /\ done = 0
  <2>1. functors = <<>>
    BY <1>1 DEF BatchInRound
  <2>2. done \in 0 .. Len(functors)
    BY DEF TypeOK
  <2> QED
    BY <2>1, <2>2
<1>3. Quiet' /\ Len(pending') = 0
  BY <1>1, EmptySeq DEF Life, Quiet
<1>4. Establishing'
  BY <1>1, <1>2, <1>3 DEF Life, Establishing
<1>5. Watching'
  BY <1>1 DEF Watching, Life
<1>6. Handling'
  BY <1>1, TodoKinds DEF Handling
<1>7. Keeping'
  <2>1. \A i \in done + 1 .. Len(functors) : FALSE
    BY <1>2
  <2> QED
    BY <1>1, <1>2, <2>1, TodoKinds DEF Keeping, Life
<1> QED
  BY <1>3, <1>4, <1>5, <1>6, <1>7 DEF Life

LEMMA LifeEndRound ==
  ASSUME TypeOK, Life, EndRound
  PROVE  Life'
<1>1. /\ UNCHANGED <<state_, events_, chan, revents_, todo, pending, in_map, call, notified>>
      /\ phase = "functors" /\ phase' = "poll" /\ todo = <<>>
      /\ done = Len(functors) /\ functors' = <<>> /\ done' = 0
  BY DEF EndRound
<1>2. Quiet' /\ Len(functors') = 0
  BY <1>1, EmptySeq DEF Life, Quiet
<1>3. notified # <<>>
  <2>1. functors # <<>> => Len(functors) # 0
    BY EmptyOrNot DEF Life, Quiet
  <2> QED
    BY <1>1, <2>1 DEF Life, Establishing
<1>4. Establishing'
  BY <1>1, <1>2, <1>3 DEF Life, Establishing
<1>5. Watching'
  BY <1>1 DEF Watching, Life
<1>6. Handling'
  BY <1>1 DEF Handling, Life
<1>7. Keeping'
  <2>1. Len(functors) \in Nat
    BY DEF Life, Quiet
  <2>2. \A i \in done + 1 .. Len(functors) : FALSE
    BY <1>1, <2>1
  <2> QED
    BY <1>1, <2>2, TodoKinds DEF Keeping, Life
<1> QED
  BY <1>2, <1>4, <1>5, <1>6, <1>7 DEF Life

-----------------------------------------------------------------------------
(* Functors.                                                                *)

(* A functor's turn: it is one of the batch, and the first is               *)
(* connEstablish() as long as that has not run.                             *)
LEMMA LifeTurn ==
  ASSUME TypeOK, Life, NEW k, Turn(k)
  PROVE  /\ UNCHANGED <<phase, revents_, functors, in_map, call>>
         /\ phase = "functors" /\ revents_ = {} /\ todo = <<>>
         /\ done \in Nat /\ done' = done + 1 /\ done + 1 \in 1 .. Len(functors)
         /\ functors[done + 1] = k
         /\ k = "establish" <=> notified = <<>>
<1>1. /\ UNCHANGED <<phase, revents_, functors, in_map, call>>
      /\ phase = "functors" /\ todo = <<>> /\ done' = done + 1
      /\ done < Len(functors) /\ functors[done + 1] = k
  BY DEF Turn
<1>2. done \in Nat /\ functors \in Seq(Owning \cup Raw)
  BY DEF TypeOK
<1>3. done + 1 \in 1 .. Len(functors)
  BY <1>1, <1>2
<1>4. revents_ = {}
  BY <1>1 DEF Life, Handling
<1>5. notified = <<>> => k = "establish"
  BY <1>1 DEF Life, Establishing
<1>6. k = "establish" => notified = <<>>
  BY <1>1, <1>2, <1>3 DEF Life, Establishing
<1> QED
  BY <1>1, <1>2, <1>3, <1>4, <1>5, <1>6

(* What is left of the batch after a functor that is not connDestory().     *)
LEMMA TurnKeeps ==
  ASSUME TypeOK, Life, NEW k, Turn(k), k # "destroy", pending' = pending,
         notified = <<>> \/ chan = "added"
  PROVE  Keeping'
<1>1. /\ UNCHANGED <<functors, in_map>> /\ todo = <<>> /\ done \in Nat
      /\ done' = done + 1 /\ functors[done + 1] = k
      /\ done + 1 \in 1 .. Len(functors)
  BY LifeTurn
<1>2. functors \in Seq(Owning)
  BY DEF Life, Quiet
<1>3. \A i \in done + 1 .. Len(functors) :
        functors[i] = "destroy" => i \in done + 2 .. Len(functors)
  BY <1>1, <1>2
<1>4. \/ in_map
      \/ \E i \in 1 .. Len(pending) : pending[i] = "destroy"
      \/ \E i \in done + 1 .. Len(functors) : functors[i] = "destroy"
  BY <1>1, TodoKinds DEF Life, Keeping
<1>5. CASE \E i \in done + 1 .. Len(functors) : functors[i] = "destroy"
  <2>1. \E i \in done + 2 .. Len(functors) : functors[i] = "destroy"
    BY <1>3, <1>5
  <2>2. done' + 1 = done + 2
    BY <1>1
  <2> QED
    BY <1>1, <2>1, <2>2 DEF Keeping
<1> QED
  BY <1>1, <1>4, <1>5 DEF Keeping

LEMMA LifeEstablish ==
  ASSUME TypeOK, Life, connEstablish
  PROVE  Life'
<1>1. Turn("establish")
  BY DEF connEstablish
<1>2. /\ UNCHANGED <<phase, revents_, functors, in_map, call>>
      /\ phase = "functors" /\ revents_ = {} /\ todo = <<>>
      /\ done \in Nat /\ done' = done + 1 /\ notified = <<>>
  BY <1>1, LifeTurn
<1>3. chan = "initialized" /\ done = 0
  BY <1>2 DEF Life, Establishing
<1>4. /\ state_' = "connected" /\ chan' = "added" /\ "read" \in events_'
      /\ todo' = <<"user">> /\ pending' = pending
  BY <1>3 DEF connEstablish, UpdateChannel
<1>5. notified' = <<"up">> /\ notified' # <<>>
  BY <1>2, Told DEF connEstablish, Notify
<1>6. Quiet'
  BY <1>2, <1>4 DEF Life, Quiet
<1>7. Establishing'
  BY <1>2, <1>3, <1>4, <1>5 DEF Life, Establishing
<1>8. Watching'
  BY <1>4, <1>5 DEF Watching
<1>9. Handling'
  BY <1>2, <1>4, TodoKinds DEF Handling
<1>10. Keeping'
  BY <1>1, <1>2, <1>4, TurnKeeps
<1> QED
  BY <1>6, <1>7, <1>8, <1>9, <1>10 DEF Life

LEMMA LifeDestory ==
  ASSUME TypeOK, Life, connDestory
  PROVE  Life'
<1>1. Turn("destroy")
  BY DEF connDestory
<1>2. /\ UNCHANGED <<phase, revents_, functors, in_map, call>>
      /\ phase = "functors" /\ revents_ = {} /\ todo = <<>>
      /\ done \in Nat /\ done' = done + 1 /\ functors[done + 1] = "destroy"
      /\ notified # <<>>
  BY <1>1, LifeTurn
<1>3. /\ UNCHANGED <<state_, events_, chan, pending, notified>>
      /\ todo' = IF state_ = "connected" THEN <<"disconnect", "user", "remove">>
                                         ELSE <<"remove">>
  BY DEF connDestory
<1>4. /\ todo' \in Destroying
      /\ todo' \in Removing => state_ # "connected"
      /\ todo' \in Destroying \ Removing => state_ = "connected"
  BY <1>3, TodoKinds
<1>5. Quiet'
  BY <1>2, <1>3 DEF Life, Quiet
<1>6. Establishing'
  BY <1>2, <1>3 DEF Life, Establishing
<1>7. Watching'
  BY <1>3 DEF Watching, Life
<1>8. Handling'
  BY <1>2, <1>3, <1>4 DEF Handling
<1>9. Keeping'
  BY <1>4 DEF Keeping
<1> QED
  BY <1>5, <1>6, <1>7, <1>8, <1>9 DEF Life

LEMMA LifeUserCallback ==
  ASSUME TypeOK, Life, UserCallback
  PROVE  Life'
<1>1. Turn("callback")
  BY DEF UserCallback
<1>2. /\ UNCHANGED <<phase, revents_, functors, in_map, call>>
      /\ phase = "functors" /\ revents_ = {} /\ todo = <<>>
      /\ done \in Nat /\ done' = done + 1 /\ notified # <<>>
  BY <1>1, LifeTurn
<1>3. UNCHANGED <<state_, events_, chan, pending, notified>> /\ todo' = <<"user">>
  BY DEF UserCallback
<1>4. Quiet'
  BY <1>2, <1>3 DEF Life, Quiet
<1>5. Establishing'
  BY <1>2, <1>3 DEF Life, Establishing
<1>6. Watching'
  BY <1>3 DEF Watching, Life
<1>7. Handling'
  BY <1>2, <1>3, TodoKinds DEF Handling
<1>8. Keeping'
  <2>1. CASE chan = "added"
    BY <1>1, <1>3, <2>1, TurnKeeps
  <2>2. CASE chan # "added"
    BY <1>2, <1>3, <2>2 DEF Keeping
  <2> QED
    BY <2>1, <2>2
<1> QED
  BY <1>4, <1>5, <1>6, <1>7, <1>8 DEF Life

-----------------------------------------------------------------------------
(* Handlers.                                                                *)

LEMMA LifeClose ==
  ASSUME TypeOK, Life, handleClose
  PROVE  Life'
<1>1. Op("read")
  <2>1. ASSUME Op("close") PROVE FALSE
    BY <2>1, InTheMiddle, TodoSteps DEF Life
  <2> QED
    BY <2>1 DEF handleClose
<1>2. phase = "events" /\ phase' = "events" /\ todo \notin Destroying
  BY <1>1, InEvents DEF Life
<1>3. /\ todo \in Reading /\ Tail(todo) \in {<<>>, <<"write">>}
      /\ revents_' = {} /\ UNCHANGED <<phase, functors, done, call>>
  BY <1>1, InTheMiddle, TodoSteps DEF Life
<1>4. chan = "added" /\ notified = <<"up">> /\ notified # <<>>
  BY <1>2, <1>3, Told DEF Life, Handling, Watching
<1>5. /\ state_' = "disconnected" /\ events_' = {} /\ chan' = "removed"
      /\ Pushed /\ in_map' = in_map
  BY <1>4 DEF handleClose, UpdateChannel, Pushed
<1>6. notified' = <<"up", "down">> /\ notified' # <<>>
  BY <1>4, Told DEF handleClose, Notify
<1>7. todo' \in AfterRead
  BY <1>3, TodoConcats DEF handleClose, AfterRead
<1>8. Quiet'
  BY <1>3, <1>5, StillQuiet DEF Life
<1>9. Establishing'
  BY <1>3, <1>4, <1>5, <1>6, StillEstablishing DEF Life
<1>10. Watching'
  BY <1>5, <1>6 DEF Watching
<1>11. Handling'
  BY <1>2, <1>3, <1>5, <1>7, AfterReading
<1>12. Keeping'
  BY <1>5, <1>6 DEF Keeping
<1> QED
  BY <1>8, <1>9, <1>10, <1>11, <1>12 DEF Life

LEMMA LifeError ==
  ASSUME TypeOK, Life, handleError
  PROVE  Life'
<1>1. PICK k \in {"error", "read"} : Op(k)
  BY DEF handleError
<1>2. phase = "events" /\ phase' = "events" /\ todo \notin Destroying
  BY <1>1, InEvents DEF Life
<1>3. /\ todo \in Reading /\ Tail(todo) \in Reading \cup {<<>>, <<"write">>}
      /\ revents_' = {} /\ UNCHANGED <<phase, functors, done, call>>
      /\ notified # <<>>
  BY <1>1, InTheMiddle, TodoSteps DEF Life
<1>4. /\ UNCHANGED <<state_, events_, chan, pending, in_map, notified>>
      /\ Pushed /\ todo' = Tail(todo)
  BY DEF handleError, Pushed
<1>5. chan = "added"
  BY <1>2, <1>3 DEF Life, Handling
<1>6. Quiet'
  BY <1>3, <1>4, StillQuiet DEF Life
<1>7. Establishing'
  BY <1>3, <1>4, StillEstablishing DEF Life
<1>8. Watching'
  BY <1>4 DEF Watching, Life
<1>9. Handling'
  BY <1>2, <1>3, <1>4, <1>5, TodoKinds DEF Handling
<1>10. Keeping'
  BY <1>2, <1>3, <1>4, StillKeeping DEF Life
<1> QED
  BY <1>6, <1>7, <1>8, <1>9, <1>10 DEF Life

LEMMA LifeRead ==
  ASSUME TypeOK, Life, handleRead
  PROVE  Life'
<1>1. Op("read")
  BY DEF handleRead
<1>2. phase = "events" /\ phase' = "events" /\ todo \notin Destroying
  BY <1>1, InEvents DEF Life
<1>3. /\ todo \in Reading /\ Tail(todo) \in {<<>>, <<"write">>}
      /\ revents_' = {} /\ UNCHANGED <<phase, functors, done, call>>
      /\ notified # <<>>
  BY <1>1, InTheMiddle, TodoSteps DEF Life
<1>4. /\ UNCHANGED <<state_, events_, chan, pending, in_map, notified>> /\ Pushed
  BY DEF handleRead, Pushed
<1>5. todo' \in AfterRead
  BY <1>3, TodoConcats DEF handleRead, AfterRead
<1>6. chan = "added"
  BY <1>2, <1>3 DEF Life, Handling
<1>7. Quiet'
  BY <1>3, <1>4, StillQuiet DEF Life
<1>8. Establishing'
  BY <1>3, <1>4, StillEstablishing DEF Life
<1>9. Watching'
  BY <1>4 DEF Watching, Life
<1>10. Handling'
  BY <1>2, <1>3, <1>4, <1>5, <1>6, AfterReading
<1>11. Keeping'
  BY <1>2, <1>3, <1>4, StillKeeping DEF Life
<1> QED
  BY <1>7, <1>8, <1>9, <1>10, <1>11 DEF Life

LEMMA LifeWrite ==
  ASSUME TypeOK, Life, NEW n, handleWrite(n)
  PROVE  Life'
<1>1. Op("write")
  BY DEF handleWrite
<1>2. phase = "events" /\ phase' = "events" /\ todo \notin Destroying
  BY <1>1, InEvents DEF Life
<1>3. /\ Tail(todo) = <<>> /\ notified # <<>>
      /\ revents_' = {} /\ UNCHANGED <<phase, functors, done, call>>
      /\ chan = "added" \/ events_ = {}
  BY <1>1, <1>2, InTheMiddle, TodoSteps DEF Life
<1>4. /\ UNCHANGED <<state_, in_map, notified>> /\ todo' = Tail(todo)
      /\ Pushed
  BY DEF handleWrite, PushIf, Pushed
<1>5. chan = "added" /\ "read" \in events_
  <2>1. "write" \in events_
    BY DEF handleWrite
  <2> QED
    BY <1>3, <2>1 DEF Life, Watching
<1>6. chan' = "added" /\ "read" \in events_'
  BY <1>5 DEF handleWrite, UpdateChannel
<1>7. Quiet'
  BY <1>3, <1>4, StillQuiet DEF Life
<1>8. Establishing'
  BY <1>3, <1>4, StillEstablishing DEF Life
<1>9. Watching'
  BY <1>4, <1>5, <1>6 DEF Watching, Life
<1>10. Handling'
  BY <1>2, <1>3, <1>4, <1>6, TodoKinds, AfterReading
<1>11. Keeping'
  BY <1>2, <1>3, <1>4, <1>5, StillKeeping DEF Life
<1> QED
  BY <1>7, <1>8, <1>9, <1>10, <1>11 DEF Life

LEMMA LifeAfterRead ==
  ASSUME TypeOK, Life, WriteNothing \/ removeConnection
  PROVE  Life'
<1>1. PICK k \in {"write", "close_callback"} : Op(k)
  BY DEF WriteNothing, removeConnection
<1>2. phase = "events" /\ phase' = "events" /\ todo \notin Destroying
  BY <1>1, InEvents DEF Life
<1>3. /\ Tail(todo) \in {<<>>, <<"write">>} /\ notified # <<>>
      /\ revents_' = {} /\ UNCHANGED <<phase, functors, done, call>>
      /\ chan = "added" \/ events_ = {}
  BY <1>1, <1>2, InTheMiddle, TodoSteps DEF Life
<1>4. /\ UNCHANGED <<state_, events_, chan, pending, in_map, notified>>
      /\ Pushed /\ todo' = Tail(todo)
  BY DEF WriteNothing, removeConnection, Pushed
<1>5. Quiet'
  BY <1>3, <1>4, StillQuiet DEF Life
<1>6. Establishing'
  BY <1>3, <1>4, StillEstablishing DEF Life
<1>7. Watching'
  BY <1>4 DEF Watching, Life
<1>8. Handling'
  BY <1>2, <1>3, <1>4, TodoKinds, AfterReading
<1>9. Keeping'
  BY <1>2, <1>3, <1>4, StillKeeping DEF Life
<1> QED
  BY <1>5, <1>6, <1>7, <1>8, <1>9 DEF Life

LEMMA LifeCallbackReturns ==
  ASSUME TypeOK, Life, CallbackReturns
  PROVE  Life'
<1>1. Op("user")
  BY DEF CallbackReturns
<1>2. /\ revents_' = {} /\ UNCHANGED <<phase, functors, done, call>> /\ notified # <<>>
      /\ \/ todo \in AfterRead /\ Tail(todo) \in AfterRead
         \/ todo = <<"user", "remove">> /\ Tail(todo) = <<"remove">>
  BY <1>1, InTheMiddle, TodoSteps DEF Life
<1>3. /\ UNCHANGED <<state_, events_, chan, pending, in_map, notified>>
      /\ Pushed /\ todo' = Tail(todo)
  BY DEF CallbackReturns, Pushed
<1>4. Quiet'
  BY <1>2, <1>3, StillQuiet DEF Life
<1>5. Establishing'
  BY <1>2, <1>3, StillEstablishing DEF Life
<1>6. Watching'
  BY <1>3 DEF Watching, Life
<1>7. Handling'
  <2>1. CASE phase = "events"
    <3>1. /\ todo \in Reading \cup AfterRead
          /\ chan = "added" \/ events_ = {}
      BY <1>1, <2>1, InTheMiddle DEF Life
    <3>2. todo' \in AfterRead
      BY <1>2, <1>3, <3>1, TodoKinds
    <3> QED
      BY <1>2, <1>3, <2>1, <3>1, <3>2, AfterReading
  <2>2. CASE phase # "events"
    <3>1. phase = "functors" /\ todo \in {<<"user">>} \cup Destroying
      BY <1>1, <2>2, InTheMiddle DEF Life
    <3>2. Tail(<<"user">>) = <<>>
      OBVIOUS
    <3>3. \/ todo' = <<>>
          \/ todo = <<"user", "remove">> /\ todo' = <<"remove">>
      BY <1>2, <1>3, <3>1, <3>2, TodoKinds
    <3> QED
      BY <1>2, <1>3, <3>1, <3>3, TodoKinds DEF Life, Handling
  <2> QED
    BY <2>1, <2>2
<1>8. Keeping'
  <2>1. todo \in Destroying => todo' \in Destroying
    BY <1>2, <1>3, TodoKinds
  <2> QED
    BY <1>2, <1>3, <2>1, StillKeeping DEF Life
<1> QED
  BY <1>4, <1>5, <1>6, <1>7, <1>8 DEF Life

LEMMA LifeDisconnect ==
  ASSUME TypeOK, Life, Disconnect
  PROVE  Life'
<1>1. Op("disconnect")
  BY DEF Disconnect
<1>2. /\ todo \in Destroying \ Removing /\ Tail(todo) = <<"user", "remove">>
      /\ revents_' = {} /\ UNCHANGED <<phase, functors, done, call>>
      /\ phase = "functors"
  <2>1. todo \in Destroying \ Removing /\ Tail(todo) = <<"user", "remove">>
    BY <1>1, InTheMiddle, TodoSteps DEF Life
  <2> QED
    BY <1>1, <2>1, InTheMiddle, TodoKinds DEF Life
<1>3. chan = "added" /\ notified = <<"up">> /\ notified # <<>>
  BY <1>2, Told DEF Life, Handling, Watching
<1>4. /\ state_' = "disconnected" /\ events_' = {} /\ chan' = "removed"
      /\ Pushed /\ in_map' = in_map /\ todo' = <<"user", "remove">>
  BY <1>2, <1>3 DEF Disconnect, UpdateChannel, Pushed
<1>5. notified' = <<"up", "down">> /\ notified' # <<>>
  BY <1>3, Told DEF Disconnect, Notify
<1>6. Quiet'
  BY <1>2, <1>4, StillQuiet DEF Life
<1>7. Establishing'
  BY <1>2, <1>3, <1>4, <1>5, StillEstablishing DEF Life
<1>8. Watching'
  BY <1>4, <1>5 DEF Watching
<1>9. Handling'
  BY <1>2, <1>4, TodoKinds DEF Life, Handling
<1>10. Keeping'
  BY <1>4, <1>5 DEF Keeping
<1> QED
  BY <1>6, <1>7, <1>8, <1>9, <1>10 DEF Life

LEMMA LifeRemove ==
  ASSUME TypeOK, Life, Remove
  PROVE  Life'
<1>1. Op("remove")
  BY DEF Remove
<1>2. /\ todo = <<"remove">> /\ Tail(todo) = <<>> /\ notified # <<>>
      /\ revents_' = {} /\ UNCHANGED <<phase, functors, done, call>>
      /\ phase = "functors"
  <2>1. todo = <<"remove">> /\ Tail(todo) = <<>>
    BY <1>1, InTheMiddle, TodoSteps DEF Life
  <2> QED
    BY <1>1, <2>1, InTheMiddle, TodoKinds DEF Life
<1>3. state_ # "connected"
  BY <1>2, TodoKinds DEF Life, Handling
<1>4. /\ UNCHANGED <<state_, events_, pending, in_map, notified>>
      /\ Pushed /\ chan' = "initialized" /\ todo' = <<>>
  BY <1>2 DEF Remove, Pushed
<1>5. Quiet'
  BY <1>2, <1>4, StillQuiet DEF Life
<1>6. Establishing'
  BY <1>2, <1>4, StillEstablishing DEF Life
<1>7. Watching'
  BY <1>3, <1>4 DEF Watching, Life
<1>8. Handling'
  BY <1>2, <1>4, TodoKinds DEF Handling
<1>9. Keeping'
  BY <1>2, <1>4 DEF Keeping
<1> QED
  BY <1>5, <1>6, <1>7, <1>8, <1>9 DEF Life

-----------------------------------------------------------------------------
(* The theorems.                                                            *)

LEMMA InitLife == Init => Life
<1> SUFFICES ASSUME Init PROVE Life
  OBVIOUS
<1>1. /\ <<"establish">> \in Seq(Owning) /\ Len(<<"establish">>) = 1
      /\ <<"establish">>[1] = "establish" /\ <<"establish">> # <<>>
  OBVIOUS
<1>2. Quiet
  BY <1>1, EmptySeq DEF Init, Quiet
<1>3. Establishing
  BY <1>1, EmptySeq DEF Init, Establishing
<1>4. Watching /\ Handling /\ Keeping
  BY DEF Init, Watching, Handling, Keeping
<1> QED
  BY <1>2, <1>3, <1>4 DEF Life

LEMMA NextLife ==
  ASSUME TypeOK, BatchInRound, calls = 0 => Life, [Next]_vars, calls' = 0
  PROVE  Life'
<1>1. calls = 0 /\ ~\E k \in {"send", "shutdown"} : ForeignCall(k)
  <2>1. calls \in Nat
    BY DEF TypeOK
  <2>2. calls' = calls \/ calls' = calls + 1
    BY DEF Next, LoopStep, UserStep, FinishCall, Send, Shutdown, KeepOrDrop,
           ForeignCall, SetDisconnecting, PushCall, HandleEvent, SwapFunctors,
           EndRound, Poll, Turn, Op, connEstablish, connDestory, UserCallback,
           RunSend, RunShutdown, handleClose, handleError, handleRead,
           handleWrite, WriteNothing, CallbackReturns, removeConnection,
           Disconnect, Remove, removeConnectionInLoop, DestroyServer, PeerStep,
           vars
  <2> QED
    BY <2>1, <2>2 DEF ForeignCall
<1>2. Life
  BY <1>1
<1>3. ~FinishCall
  BY <1>2 DEF FinishCall, SetDisconnecting, PushCall, Life, Quiet
<1>4. ~RunShutdown /\ ~\E k : RunSend(k)
  <2>1. ASSUME NEW f \in Raw, Turn(f) PROVE FALSE
    <3>1. done + 1 \in 1 .. Len(functors) /\ functors[done + 1] = f
      BY <1>2, <2>1, LifeTurn
    <3>2. functors[done + 1] \in Owning
      BY <1>2, <3>1, ElementOfSeq DEF Life, Quiet
    <3> QED
      BY <3>1, <3>2
  <2> QED
    BY <2>1 DEF RunShutdown, RunSend
<1>5. CASE \E len \in 1 .. MaxBytes : \E k \in 0 .. len : Send(len, k)
  BY <1>2, <1>5, LifeSend
<1>6. CASE Shutdown
  BY <1>2, <1>6, LifeShutdown
<1>7. CASE KeepOrDrop \/ PeerStep \/ UNCHANGED vars
  <2>1. UNCHANGED <<state_, events_, chan, phase, revents_, functors, done, todo,
                    pending, in_map, call, notified>>
    BY <1>7 DEF KeepOrDrop, PeerStep, vars
  <2> QED
    BY <1>2, <2>1, LifeUnchanged
<1>8. CASE removeConnectionInLoop \/ DestroyServer
  BY <1>2, <1>8, LifeServer
<1>9. CASE \E report : Poll(report)
  BY <1>2, <1>9, LifePoll
<1>10. CASE HandleEvent \/ SwapFunctors \/ EndRound
  BY <1>2, <1>10, LifeHandleEvent, LifeSwapFunctors, LifeEndRound
<1>11. CASE connEstablish \/ connDestory \/ UserCallback
  BY <1>2, <1>11, LifeEstablish, LifeDestory, LifeUserCallback
<1>12. CASE handleClose \/ handleError \/ handleRead
  BY <1>2, <1>12, LifeClose, LifeError, LifeRead
<1>13. CASE \E n : handleWrite(n)
  BY <1>2, <1>13, LifeWrite
<1>14. CASE WriteNothing \/ removeConnection \/ CallbackReturns
  BY <1>2, <1>14, LifeAfterRead, LifeCallbackReturns
<1>15. CASE Disconnect \/ Remove
  BY <1>2, <1>15, LifeDisconnect, LifeRemove
<1> QED
  BY <1>1, <1>3, <1>4, <1>5, <1>6, <1>7, <1>8, <1>9, <1>10, <1>11, <1>12,
     <1>13, <1>14, <1>15
  DEF Next, LoopStep, UserStep

LEMMA LifeInvariant == Spec => [](TypeOK /\ (calls = 0 => Life))
<1>1. Init => (calls = 0 => Life)
  BY InitLife
<1>2. TypeOK /\ BatchInRound /\ (calls = 0 => Life) /\ [Next]_vars
        => (calls = 0 => Life)'
  BY NextLife
<1> QED
  BY <1>1, <1>2, TypeInvariant, PTL DEF Spec

(* conn_callback_ is told of the connection once, and of its end at most    *)
(* once and after that, whether handleClose() or connDestory() comes first, *)
(* as long as no other thread calls send() or shutdown().                   *)
THEOREM ToldOnce == Spec => []NotifiedOnce
<1>1. (calls = 0 => Life) => NotifiedOnce
  BY DEF NotifiedOnce, Life, Watching
<1> QED
  BY <1>1, LifeInvariant, PTL

(* As long as no other thread has called send() or shutdown(), no channel   *)
(* is destroyed while epoll holds a pointer to it: until connDestory() has  *)
(* removed it, the map of the server or a functor with a TcpConnectionPtr   *)
(* keeps the connection.  Nothing is claimed once another thread has called *)
(* (calls > 0): a functor with a raw this that runs after connDestory() may *)
(* register the channel again (tcp_connection.cc:64, 75).                   *)
THEOREM RegisteredIsAlive == Spec => []WatchedIsAlive
<1>1. TypeOK /\ (calls = 0 => Life) => WatchedIsAlive
  <2> SUFFICES ASSUME TypeOK, Life, chan = "added" PROVE alive
    BY DEF WatchedIsAlive
  <2>1. /\ functors \in Seq(Owning) /\ pending \in Seq(Owning) /\ done \in 0 .. Len(functors)
    BY DEF Life, Quiet, TypeOK
  <2>2. ASSUME NEW i \in 1 .. Len(pending), pending[i] = "destroy"
        PROVE  alive
    <3>1. "destroy" \in Range(pending)
      BY <2>1, <2>2, LenProperties DEF Range
    <3> QED
      BY <3>1 DEF alive
  <2>3. ASSUME NEW i \in 1 .. Len(functors), functors[i] = "destroy"
        PROVE  alive
    <3>1. "destroy" \in Range(functors)
      BY <2>1, <2>3, LenProperties DEF Range
    <3> QED
      BY <3>1 DEF alive
  <2>4. ASSUME todo \in Destroying
        PROVE  \E i \in 1 .. Len(functors) : functors[i] = "destroy"
    <3>1. phase \in {"poll", "events", "functors"}
      BY DEF TypeOK
    <3>2. phase = "functors"
      BY <2>4, <3>1, TodoKinds DEF Life, Handling
    <3>3. done > 0 /\ functors[done] = "destroy"
      BY <2>4, <3>2 DEF Life, Handling
    <3> QED
      BY <2>1, <3>3
  <2>5. CASE in_map
    BY <2>5 DEF alive
  <2>6. ASSUME NEW i \in done + 1 .. Len(functors), functors[i] = "destroy"
        PROVE  alive
    <3>1. i \in 1 .. Len(functors)
      BY <2>1
    <3> QED
      BY <2>3, <2>6, <3>1
  <2> QED
    BY <2>2, <2>3, <2>4, <2>5, <2>6 DEF Life, Keeping
<1> QED
  BY <1>1, LifeInvariant, PTL
=============================================================================
