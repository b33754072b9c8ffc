------------------------- MODULE TcpConnectionProofs -------------------------
(****************************************************************************)
(* Proofs about TcpConnection, for every value of its bounds.               *)
(****************************************************************************)
EXTENDS TcpConnection, SequenceTheorems, TLAPS

USE DEF conn, socket, round, owners, user, history, Owning, Raw

-----------------------------------------------------------------------------
(* Type correctness.                                                        *)

LEMMA InitType == Init => TypeOK
<1> SUFFICES ASSUME Init PROVE TypeOK
  OBVIOUS
<1>1. <<"establish">> \in Seq(Owning \cup Raw)
  OBVIOUS
<1>2. {functors, pending} \subseteq Seq(Owning \cup Raw) /\ done \in 0 .. Len(functors)
  BY <1>1, EmptySeq DEF Init
<1>3. /\ {output_buffer_, wire} \subseteq Seq(Nat)
      /\ notified \in Seq({"up", "down"})
      /\ todo \in Seq({"close", "error", "read", "write", "user",
                       "close_callback", "disconnect", "remove"})
  BY EmptySeq DEF Init
<1>4. {shut, received, err, in_map, held, lost, closed, undefined} \subseteq BOOLEAN
  BY DEF Init
<1> QED
  BY <1>2, <1>3, <1>4 DEF Init, TypeOK

(* The bytes of a send, and any part of them, are a sequence of numbers.    *)
LEMMA BytesType ==
  ASSUME given \in Nat, NEW len \in Nat, NEW i \in Nat \ {0}, NEW j \in 0 .. len
  PROVE  /\ Bytes(len) \in Seq(Nat) /\ Len(Bytes(len)) = len
         /\ SubSeq(Bytes(len), i, j) \in Seq(Nat)
<1>2. Bytes(len) \in [1 .. len -> Nat]
  BY DEF Bytes
<1>3. Bytes(len) \in Seq(Nat) /\ Len(Bytes(len)) = len
  BY <1>2
<1>4. SubSeq(Bytes(len), i, j) \in Seq(Nat)
  BY <1>3, SubSeqProperties
<1> QED
  BY <1>3, <1>4

(* sendInLoop() keeps the types.                                            *)
LEMMA SendType ==
  ASSUME TypeOK, NEW len \in Nat, NEW k \in 0 .. len, sendInLoop(len, k)
  PROVE  /\ state_' = "disconnected"
         /\ events_' \in SUBSET {"read", "write"}
         /\ chan' \in {"initialized", "added", "removed"}
         /\ output_buffer_' \in Seq(Nat) /\ wire' \in Seq(Nat)
         /\ pending' \in Seq(Owning \cup Raw)
         /\ given' \in Nat /\ lost' \in BOOLEAN /\ err' \in BOOLEAN
<1>1. /\ SubSeq(Bytes(len), 1, k) \in Seq(Nat)
      /\ SubSeq(Bytes(len), k + 1, len) \in Seq(Nat)
  <2>1. given \in Nat /\ 1 \in Nat \ {0} /\ k + 1 \in Nat \ {0} /\ len \in 0 .. len
    BY DEF TypeOK
  <2> QED
    BY <2>1, BytesType
<1>2. output_buffer_' \in Seq(Nat) /\ wire' \in Seq(Nat)
  BY <1>1, EmptySeq, ConcatProperties DEF sendInLoop, TypeOK
<1>3. pending' \in Seq(Owning \cup Raw)
  BY DEF sendInLoop, PushIf, TypeOK
<1>4. /\ events_' \in SUBSET {"read", "write"}
      /\ chan' \in {"initialized", "added", "removed"}
  BY DEF sendInLoop, UpdateChannel, TypeOK
<1>5. state_' = "disconnected" /\ given' \in Nat
  BY DEF sendInLoop, TypeOK
<1>6. lost' \in BOOLEAN /\ err' \in BOOLEAN
  BY DEF sendInLoop
<1> QED
  BY <1>2, <1>3, <1>4, <1>5, <1>6

(* The types in three parts, for the provers.                               *)
Flags ==
  /\ shut \in BOOLEAN /\ received \in BOOLEAN /\ err \in BOOLEAN
  /\ in_map \in BOOLEAN /\ held \in BOOLEAN /\ lost \in BOOLEAN
  /\ closed \in BOOLEAN /\ undefined \in BOOLEAN

Operations == {"close", "error", "read", "write", "user", "close_callback",
               "disconnect", "remove"}

Sequences ==
  /\ output_buffer_ \in Seq(Nat) /\ wire \in Seq(Nat)
  /\ todo \in Seq(Operations)
  /\ functors \in Seq(Owning \cup Raw) /\ pending \in Seq(Owning \cup Raw)
  /\ done \in 0 .. Len(functors)
  /\ notified \in Seq({"up", "down"})

Scalars ==
  /\ state_ \in {"connecting", "connected", "disconnecting", "disconnected"}
  /\ events_ \in SUBSET {"read", "write"}
  /\ chan \in {"initialized", "added", "removed"}
  /\ peer \in {"open", "fin", "reset"}
  /\ phase \in {"poll", "events", "functors"}
  /\ revents_ \in SUBSET {"IN", "OUT", "HUP", "ERR"}
  /\ server \in {"up", "gone"}
  /\ call \in {"none", "send", "shutdown", "push"}
  /\ removals \in Nat /\ calls \in Nat /\ given \in Nat

LEMMA TypeParts == TypeOK <=> Flags /\ Sequences /\ Scalars
<1>1. TypeOK => Flags
  BY DEF TypeOK, Flags
<1>2. TypeOK => Sequences
  BY DEF TypeOK, Sequences, Operations
<1>3. TypeOK => Scalars
  BY DEF TypeOK, Scalars
<1>4. Flags /\ Sequences /\ Scalars => TypeOK
  <2>1. Flags =>
          {shut, received, err, in_map, held, lost, closed, undefined} \subseteq BOOLEAN
    BY DEF Flags
  <2> QED
    BY <2>1 DEF Sequences, Scalars, TypeOK, Operations
<1> QED
  BY <1>1, <1>2, <1>3, <1>4

(* The rest of a sequence of things to do.                                  *)
LEMMA TailType ==
  ASSUME NEW S, NEW s \in Seq(S), s # <<>>
  PROVE  Tail(s) \in Seq(S) /\ Head(s) \in S
  BY HeadTailProperties

(* Why done is an index of the batch: there is a batch only while functors  *)
(* are called.                                                              *)
BatchInRound == phase # "functors" => functors = <<>>

LEMMA NextBatch == BatchInRound /\ [Next]_vars => BatchInRound'
<1> SUFFICES ASSUME BatchInRound, [Next]_vars PROVE BatchInRound'
  OBVIOUS
<1> USE DEF BatchInRound
<1>1. CASE UserStep
  BY <1>1
  DEF UserStep, Send, Shutdown, KeepOrDrop, ForeignCall
<1>2. CASE HandleEvent \/ SwapFunctors \/ EndRound \/ \E report : Poll(report)
  BY <1>2 DEF HandleEvent, SwapFunctors, EndRound, Poll
<1>3. CASE \E k : Turn(k)
  BY <1>3 DEF Turn
<1>4. CASE \E k : Op(k)
  BY <1>4 DEF Op
<1>5. CASE FinishCall \/ removeConnectionInLoop \/ DestroyServer \/ PeerStep
  BY <1>5
  DEF FinishCall, SetDisconnecting, PushCall, removeConnectionInLoop,
      DestroyServer, PeerStep
<1>6. CASE UNCHANGED vars
  BY <1>6 DEF vars
<1>7. LoopStep => \/ HandleEvent \/ SwapFunctors \/ EndRound
                  \/ (\E k : Turn(k)) \/ (\E k : Op(k))
  BY DEF LoopStep, connEstablish, connDestory, UserCallback, RunSend, RunShutdown,
         handleClose, handleError, handleRead, handleWrite, WriteNothing,
         CallbackReturns, removeConnection, Disconnect, Remove
<1> QED
  BY <1>1, <1>2, <1>3, <1>4, <1>5, <1>6, <1>7 DEF Next

LEMMA NextFlags == Flags /\ [Next]_vars => Flags'
<1> SUFFICES ASSUME Flags, [Next]_vars PROVE Flags'
  OBVIOUS
<1> USE DEF Flags
<1>1. ASSUME NEW len, NEW k, Send(len, k)
      PROVE  Flags'
  BY <1>1 DEF Send, sendInLoop
<1>2. CASE \/ Shutdown \/ KeepOrDrop \/ SetDisconnecting \/ PushCall
           \/ \E k \in {"send", "shutdown"} : ForeignCall(k)
  <2>1. CASE Shutdown
    BY <2>1 DEF Shutdown, shutdownInLoop
  <2>2. CASE KeepOrDrop
    BY <2>2 DEF KeepOrDrop
  <2>3. CASE SetDisconnecting
    BY <2>3 DEF SetDisconnecting
  <2>4. CASE PushCall
    BY <2>4 DEF PushCall
  <2>5. CASE \E k \in {"send", "shutdown"} : ForeignCall(k)
    BY <2>5 DEF ForeignCall
  <2> QED
    BY <1>2, <2>1, <2>2, <2>3, <2>4, <2>5
<1>3. CASE HandleEvent \/ SwapFunctors \/ EndRound \/ \E report : Poll(report)
  <2>1. CASE HandleEvent
    BY <2>1 DEF HandleEvent
  <2>2. CASE SwapFunctors
    BY <2>2 DEF SwapFunctors
  <2>3. CASE EndRound
    BY <2>3 DEF EndRound
  <2>4. CASE \E report : Poll(report)
    BY <2>4 DEF Poll
  <2> QED
    BY <1>3, <2>1, <2>2, <2>3, <2>4
<1>4. CASE connEstablish \/ connDestory \/ UserCallback \/ RunShutdown
  <2>1. CASE connEstablish
    BY <2>1 DEF connEstablish, Turn
  <2>2. CASE connDestory
    BY <2>2 DEF connDestory, Turn
  <2>3. CASE UserCallback
    BY <2>3 DEF UserCallback, Turn
  <2>4. CASE RunShutdown
    BY <2>4 DEF RunShutdown, shutdownInLoop, Turn
  <2> QED
    BY <1>4, <2>1, <2>2, <2>3, <2>4
<1>5. ASSUME NEW k, RunSend(k)
      PROVE  Flags'
  BY <1>5 DEF RunSend, sendInLoop, Turn
<1>6. CASE handleClose \/ handleError \/ handleRead \/ Disconnect
  <2>1. CASE handleClose
    BY <2>1 DEF handleClose, Op
  <2>2. CASE handleError
    BY <2>2 DEF handleError, Op
  <2>3. CASE handleRead
    BY <2>3 DEF handleRead, Op
  <2>4. CASE Disconnect
    BY <2>4 DEF Disconnect, Op
  <2> QED
    BY <1>6, <2>1, <2>2, <2>3, <2>4
<1>7. ASSUME NEW n, handleWrite(n)
      PROVE  Flags'
  BY <1>7 DEF handleWrite, Op, shutdownInLoop
<1>8. CASE WriteNothing \/ CallbackReturns \/ removeConnection \/ Remove
  <2>1. CASE WriteNothing
    BY <2>1 DEF WriteNothing, Op
  <2>2. CASE CallbackReturns
    BY <2>2 DEF CallbackReturns, Op
  <2>3. CASE removeConnection
    BY <2>3 DEF removeConnection, Op
  <2>4. CASE Remove
    BY <2>4 DEF Remove, Op
  <2> QED
    BY <1>8, <2>1, <2>2, <2>3, <2>4
<1>9. CASE removeConnectionInLoop \/ DestroyServer \/ PeerStep
  <2>1. CASE removeConnectionInLoop
    BY <2>1 DEF removeConnectionInLoop
  <2>2. CASE DestroyServer
    BY <2>2 DEF DestroyServer
  <2>3. CASE PeerStep
    BY <2>3 DEF PeerStep
  <2> QED
    BY <1>9, <2>1, <2>2, <2>3
<1>10. CASE UNCHANGED vars
  BY <1>10 DEF vars
<1> QED
  BY <1>1, <1>2, <1>3, <1>4, <1>5, <1>6, <1>7, <1>8, <1>9, <1>10
  DEF Next, LoopStep, UserStep, FinishCall

LEMMA NextScalars == Scalars /\ [Next]_vars => Scalars'
<1> SUFFICES ASSUME Scalars, [Next]_vars PROVE Scalars'
  OBVIOUS
<1> USE DEF Scalars
<1>1. ASSUME NEW len \in Nat, NEW k, sendInLoop(len, k),
             UNCHANGED <<peer, phase, revents_, server, call, removals, calls>>
      PROVE  Scalars'
  <2>1. state_' = "disconnected" /\ given' \in Nat
    BY <1>1 DEF sendInLoop
  <2>2. /\ events_' \in SUBSET {"read", "write"}
        /\ chan' \in {"initialized", "added", "removed"}
    BY <1>1 DEF sendInLoop, UpdateChannel
  <2> QED
    BY <1>1, <2>1, <2>2
<1>2. ASSUME NEW len \in 1 .. MaxBytes, NEW k, Send(len, k)
      PROVE  Scalars'
  BY <1>1, <1>2, BoundsAssumption DEF Send
<1>3. ASSUME NEW k, RunSend(k)
      PROVE  Scalars'
  BY <1>1, <1>3 DEF RunSend, Turn
<1>4. ASSUME NEW k \in {"send", "shutdown"}, ForeignCall(k)
      PROVE  Scalars'
  BY <1>4 DEF ForeignCall
<1>5. ASSUME NEW report \in {{}, Level, Level \cup Writable}, Poll(report)
      PROVE  Scalars'
  BY <1>5 DEF Poll, Level, Writable
<1>6. ASSUME NEW n, handleWrite(n)
      PROVE  Scalars'
  BY <1>6 DEF handleWrite, UpdateChannel, Op
<1>7. CASE UNCHANGED vars
  BY <1>7 DEF vars
<1>8. CASE Shutdown
  BY <1>8 DEF Shutdown
<1>9. CASE KeepOrDrop
  BY <1>9 DEF KeepOrDrop
<1>10. CASE SetDisconnecting
  BY <1>10 DEF SetDisconnecting
<1>11. CASE PushCall
  BY <1>11 DEF PushCall
<1>12. CASE HandleEvent
  BY <1>12 DEF HandleEvent
<1>13. CASE SwapFunctors \/ EndRound
  <2>1. CASE SwapFunctors
    BY <2>1 DEF SwapFunctors
  <2>2. CASE EndRound
    BY <2>2 DEF EndRound
  <2> QED
    BY <1>13, <2>1, <2>2
<1>14. CASE connEstablish
  BY <1>14 DEF connEstablish, UpdateChannel, Turn
<1>15. CASE connDestory \/ UserCallback
  <2>1. CASE connDestory
    BY <2>1 DEF connDestory, Turn
  <2>2. CASE UserCallback
    BY <2>2 DEF UserCallback, Turn
  <2> QED
    BY <1>15, <2>1, <2>2
<1>16. CASE RunShutdown
  BY <1>16 DEF RunShutdown, Turn
<1>17. CASE handleClose
  BY <1>17 DEF handleClose, UpdateChannel, Op
<1>18. CASE handleError
  BY <1>18, ZenonT(40) DEF handleError, Op
<1>26. CASE handleRead
  BY <1>26 DEF handleRead, Op
<1>19. CASE Disconnect
  BY <1>19 DEF Disconnect, UpdateChannel, Op
<1>20. CASE WriteNothing \/ CallbackReturns
  <2>1. CASE WriteNothing
    BY <2>1 DEF WriteNothing, Op
  <2>2. CASE CallbackReturns
    BY <2>2 DEF CallbackReturns, Op
  <2> QED
    BY <1>20, <2>1, <2>2
<1>21. CASE removeConnection
  BY <1>21 DEF removeConnection, Op
<1>22. CASE Remove
  BY <1>22 DEF Remove, Op
<1>23. CASE removeConnectionInLoop
  BY <1>23 DEF removeConnectionInLoop
<1>24. CASE DestroyServer
  BY <1>24 DEF DestroyServer
<1>25. CASE PeerStep
  BY <1>25 DEF PeerStep
<1> QED
  BY <1>2, <1>3, <1>4, <1>5, <1>6, <1>7, <1>8, <1>9, <1>10, <1>11, <1>12,
     <1>13, <1>14, <1>15, <1>16, <1>17, <1>18, <1>19, <1>20, <1>21, <1>22,
     <1>23, <1>24, <1>25, <1>26
  DEF Next, LoopStep, UserStep, FinishCall

LEMMA NextSequences == TypeOK /\ BatchInRound /\ [Next]_vars => Sequences'
<1> SUFFICES ASSUME TypeOK, BatchInRound, [Next]_vars PROVE Sequences'
  OBVIOUS
<1>0. Sequences
  BY TypeParts
<1> USE DEF Sequences, Operations
<1>1. ASSUME NEW len \in 1 .. MaxBytes, NEW k \in 0 .. len, Send(len, k)
      PROVE  Sequences'
  <2>1. len \in Nat
    BY BoundsAssumption
  <2>2. sendInLoop(len, k) /\ UNCHANGED <<todo, round, notified>>
    BY <1>1 DEF Send
  <2> QED
    BY <1>0, <2>1, <2>2, SendType
<1>2. CASE \/ Shutdown \/ KeepOrDrop \/ SetDisconnecting
           \/ \E k \in {"send", "shutdown"} : ForeignCall(k)
  BY <1>0, <1>2 DEF Shutdown, KeepOrDrop, SetDisconnecting, ForeignCall
<1>3. CASE PushCall
  BY <1>0, <1>3 DEF PushCall
<1>4. CASE HandleEvent
  <2>1. /\ <<>> \in Seq(Operations) /\ <<"close">> \in Seq(Operations)
        /\ <<"error">> \in Seq(Operations) /\ <<"read">> \in Seq(Operations)
        /\ <<"write">> \in Seq(Operations)
    OBVIOUS
  <2>2. todo' \in Seq(Operations)
    BY <1>4, <2>1, ConcatProperties DEF HandleEvent
  <2> QED
    BY <1>0, <1>4, <2>2 DEF HandleEvent
<1>5. CASE SwapFunctors
  BY <1>0, <1>5, EmptySeq DEF SwapFunctors, BatchInRound
<1>19. CASE EndRound
  BY <1>0, <1>19, EmptySeq DEF EndRound
<1>6. ASSUME NEW report, Poll(report)
      PROVE  Sequences'
  BY <1>0, <1>6 DEF Poll
<1>7. CASE connEstablish
  BY <1>0, <1>7 DEF connEstablish, Turn, Notify
<1>8. CASE connDestory
  <2>1. /\ <<"disconnect", "user", "remove">> \in Seq(Operations)
        /\ <<"remove">> \in Seq(Operations)
    OBVIOUS
  <2>2. todo' \in Seq(Operations)
    BY <1>8, <2>1 DEF connDestory
  <2> QED
    BY <1>0, <1>8, <2>2 DEF connDestory, Turn
<1>9. CASE UserCallback
  BY <1>0, <1>9 DEF UserCallback, Turn
<1>20. CASE RunShutdown
  BY <1>0, <1>20 DEF RunShutdown, Turn
<1>10. ASSUME NEW k \in 0 .. 1, RunSend(k)
       PROVE  Sequences'
  <2>1. sendInLoop(1, k) /\ UNCHANGED <<todo, functors, notified>>
    BY <1>10 DEF RunSend, Turn
  <2>2. done' \in 0 .. Len(functors')
    BY <1>0, <1>10 DEF RunSend, Turn
  <2> QED
    BY <1>0, <2>1, <2>2, SendType
<1>11. CASE handleClose
  <2>1. Tail(todo) \in Seq(Operations)
    BY <1>0, <1>11, TailType DEF handleClose, Op
  <2>2. todo' \in Seq(Operations)
    BY <1>11, <2>1 DEF handleClose
  <2> QED
    BY <1>0, <1>11, <2>2 DEF handleClose, Op, Notify
<1>12. CASE handleRead
  <2>1. Tail(todo) \in Seq(Operations)
    BY <1>0, <1>12, TailType DEF handleRead, Op
  <2>2. todo' \in Seq(Operations)
    BY <1>12, <2>1 DEF handleRead
  <2> QED
    BY <1>0, <1>12, <2>2 DEF handleRead, Op
<1>13. ASSUME NEW n \in 1 .. Len(output_buffer_), handleWrite(n)
       PROVE  Sequences'
  <2>1. todo' \in Seq(Operations)
    BY <1>0, <1>13, TailType DEF handleWrite, Op
  <2>2. output_buffer_' \in Seq(Nat) /\ wire' \in Seq(Nat)
    <3>1. /\ SubSeq(output_buffer_, 1, n) \in Seq(Nat)
          /\ SubSeq(output_buffer_, n + 1, Len(output_buffer_)) \in Seq(Nat)
      BY <1>0, SubSeqProperties, SMTT(30)
    <3> QED
      BY <1>0, <1>13, <3>1, ConcatProperties DEF handleWrite
  <2>3. pending' \in Seq(Owning \cup Raw)
    BY <1>0, <1>13 DEF handleWrite, PushIf
  <2> QED
    BY <1>0, <1>13, <2>1, <2>2, <2>3 DEF handleWrite, Op
<1>14. CASE handleError \/ WriteNothing \/ CallbackReturns \/ Remove
  <2>1. todo' \in Seq(Operations)
    BY <1>0, <1>14, TailType
    DEF handleError, WriteNothing, CallbackReturns, Remove, Op
  <2> QED
    BY <1>0, <1>14, <2>1
    DEF handleError, WriteNothing, CallbackReturns, Remove, Op
<1>15. CASE removeConnection
  <2>1. todo' \in Seq(Operations)
    BY <1>0, <1>15, TailType DEF removeConnection, Op
  <2> QED
    BY <1>0, <1>15, <2>1 DEF removeConnection, Op
<1>22. CASE Disconnect
  <2>1. todo' \in Seq(Operations)
    BY <1>0, <1>22, TailType DEF Disconnect, Op
  <2> QED
    BY <1>0, <1>22, <2>1 DEF Disconnect, Op, Notify
<1>16. CASE removeConnectionInLoop
  BY <1>0, <1>16 DEF removeConnectionInLoop
<1>21. CASE DestroyServer
  BY <1>0, <1>21 DEF DestroyServer
<1>17. CASE PeerStep
  BY <1>0, <1>17 DEF PeerStep
<1>18. CASE UNCHANGED vars
  BY <1>0, <1>18 DEF vars
<1> QED
  BY <1>1, <1>2, <1>3, <1>4, <1>5, <1>6, <1>7, <1>8, <1>9, <1>10, <1>11,
     <1>12, <1>13, <1>14, <1>15, <1>16, <1>17, <1>18, <1>19, <1>20, <1>21,
     <1>22
  DEF Next, LoopStep, UserStep, FinishCall

(* Every step keeps the types.                                              *)
LEMMA NextType ==
  TypeOK /\ BatchInRound /\ [Next]_vars => TypeOK' /\ BatchInRound'
<1> SUFFICES ASSUME TypeOK, BatchInRound, [Next]_vars PROVE TypeOK' /\ BatchInRound'
  OBVIOUS
<1>1. Flags' /\ Sequences' /\ Scalars'
  BY TypeParts, NextFlags, NextSequences, NextScalars
<1>2. (Flags /\ Sequences /\ Scalars => TypeOK)'
  BY TypeParts, PTL
<1> QED
  BY <1>1, <1>2, NextBatch

LEMMA TypeInvariant == Spec => [](TypeOK /\ BatchInRound)
<1>1. Init => BatchInRound
  BY DEF Init, BatchInRound
<1> QED
  BY <1>1, InitType, NextType, PTL DEF Spec

(* The variables of the connection keep their types in every behaviour.     *)
THEOREM TypeCorrect == Spec => []TypeOK
  BY TypeInvariant, PTL

-----------------------------------------------------------------------------
(* The stream of bytes.                                                     *)

(* Bytes are numbered on through wire and output_buffer_.                   *)
Numbered ==
  /\ \A i \in 1 .. Len(wire) : wire[i] = i
  /\ \A i \in 1 .. Len(output_buffer_) : output_buffer_[i] = Len(wire) + i

(* Those two hold all that was taken, until the socket is found broken: it  *)
(* stays broken, and nothing is waiting then.  After shutdownWrite() bytes  *)
(* wait only in a closed connection.                                        *)
Accounted ==
  /\ Len(wire) + Len(output_buffer_) <= given
  /\ ~lost => Len(wire) + Len(output_buffer_) = given
  /\ lost => Broken /\ output_buffer_ = <<>>
  /\ shut => output_buffer_ = <<>> \/ closed

StreamInv == Numbered /\ Accounted /\ WriteInterest

(* The two parts of the bytes of a send.                                    *)
LEMMA BytesSplit ==
  ASSUME given \in Nat, NEW len \in Nat, NEW k \in 0 .. len
  PROVE  LET front == SubSeq(Bytes(len), 1, k)
             rest == SubSeq(Bytes(len), k + 1, len)
         IN  /\ front \in Seq(Nat) /\ rest \in Seq(Nat)
             /\ Len(front) = k /\ Len(rest) = len - k
             /\ \A i \in 1 .. k : front[i] = given + i
             /\ \A i \in 1 .. len - k : rest[i] = given + k + i
<1>1. \A i \in 1 .. len : Bytes(len)[i] = given + i /\ Bytes(len)[i] \in Nat
  BY DEF Bytes
<1>2. /\ \A i \in 1 .. k : Bytes(len)[i] \in Nat
      /\ \A i \in k + 1 .. len : Bytes(len)[i] \in Nat
  BY <1>1
<1>3. /\ SubSeq(Bytes(len), 1, k) \in Seq(Nat)
      /\ Len(SubSeq(Bytes(len), 1, k)) = k
      /\ \A i \in 1 .. k : SubSeq(Bytes(len), 1, k)[i] = Bytes(len)[i]
  BY <1>2, SubSeqProperties
<1>4. /\ SubSeq(Bytes(len), k + 1, len) \in Seq(Nat)
      /\ Len(SubSeq(Bytes(len), k + 1, len)) = len - k
      /\ \A i \in 1 .. len - k :
           SubSeq(Bytes(len), k + 1, len)[i] = Bytes(len)[k + i]
  BY <1>2, SubSeqProperties
<1> QED
  BY <1>1, <1>3, <1>4

(* A concatenation keeps the numbering when the second part goes on where   *)
(* the first one ends.                                                      *)
LEMMA ConcatNumbered ==
  ASSUME NEW s \in Seq(Nat), NEW t \in Seq(Nat), NEW n \in Nat,
         \A i \in 1 .. Len(s) : s[i] = n + i,
         \A i \in 1 .. Len(t) : t[i] = n + Len(s) + i
  PROVE  /\ s \o t \in Seq(Nat) /\ Len(s \o t) = Len(s) + Len(t)
         /\ \A i \in 1 .. Len(s \o t) : (s \o t)[i] = n + i
  BY ConcatProperties

LEMMA EmptyOrNot ==
  ASSUME NEW S, NEW s \in Seq(S)
  PROVE  s # <<>> <=> Len(s) # 0
  BY EmptySeq

(* What sendInLoop() does, by its three ways: a direct write that fails, a  *)
(* direct write of k bytes, or all the bytes to the end of the buffer.      *)
LEMMA SendWays ==
  ASSUME TypeOK, StreamInv, NEW len \in Nat \ {0}, NEW k \in 0 .. len,
         sendInLoop(len, k)
  PROVE  \/ /\ Broken /\ output_buffer_ = <<>> /\ "write" \notin events_
            /\ wire' = wire /\ output_buffer_' = <<>> /\ lost' = TRUE
            /\ "write" \notin events_'
         \/ /\ ~Broken /\ output_buffer_ = <<>> /\ ~lost /\ lost' = lost
            /\ wire' = wire \o SubSeq(Bytes(len), 1, k)
            /\ output_buffer_' = SubSeq(Bytes(len), k + 1, len)
            /\ "write" \in events_' <=> k < len
         \/ /\ output_buffer_ # <<>> /\ ~lost /\ lost' = lost
            /\ wire' = wire
            /\ output_buffer_' = output_buffer_ \o SubSeq(Bytes(len), 1, len)
            /\ "write" \in events_'
<1> DEFINE front == SubSeq(Bytes(len), 1, k)
           rest == SubSeq(Bytes(len), k + 1, len)
           direct == "write" \notin events_ /\ output_buffer_ = <<>>
<1>1. /\ given \in Nat /\ lost \in BOOLEAN
      /\ output_buffer_ \in Seq(Nat) /\ wire \in Seq(Nat)
  BY DEF TypeOK
<1>2. /\ front \in Seq(Nat) /\ rest \in Seq(Nat)
      /\ Len(front) = k /\ Len(rest) = len - k
  BY <1>1, BytesSplit
<1>3. /\ k > 0 => direct /\ ~Broken
      /\ lost' = (lost \/ (direct /\ Broken))
      /\ wire' = wire \o front
      /\ output_buffer_' = output_buffer_ \o (IF direct /\ Broken THEN <<>> ELSE rest)
      /\ IF (IF direct /\ Broken THEN <<>> ELSE rest) # <<>> /\ "write" \notin events_
         THEN UpdateChannel(events_ \cup {"write"}) ELSE UNCHANGED <<events_, chan>>
  BY DEF sendInLoop
<1>4. /\ "write" \in events_ => output_buffer_ # <<>>
      /\ lost => Broken /\ output_buffer_ = <<>>
  BY DEF StreamInv, WriteInterest, Accounted
<1>5. rest # <<>> <=> k < len
  <2> HIDE DEF rest
  <2>1. rest # <<>> <=> Len(rest) # 0
    BY <1>2, EmptyOrNot
  <2> QED
    BY <1>2, <2>1
<1>6. k = 0 => front = <<>> /\ wire \o front = wire
  <2>1. k = 0 => front = <<>>
    BY <1>2, EmptySeq
  <2> QED
    BY <1>1, <2>1, ConcatEmptySeq
<1>7. CASE direct /\ Broken
  <2>1. output_buffer_ \o <<>> = output_buffer_
    BY <1>1, ConcatEmptySeq
  <2>2. k = 0 /\ UNCHANGED events_
    BY <1>3, <1>7
  <2> QED
    BY <1>3, <1>6, <1>7, <2>1, <2>2
<1>8. CASE direct /\ ~Broken
  <2>1. output_buffer_ \o rest = rest
    BY <1>2, <1>8, ConcatEmptySeq
  <2>2. output_buffer_' = rest /\ wire' = wire \o front /\ lost' = lost /\ ~lost
    BY <1>1, <1>3, <1>4, <1>8, <2>1
  <2>3. "write" \in events_' <=> k < len
    BY <1>3, <1>5, <1>8 DEF UpdateChannel
  <2> QED
    BY <1>8, <2>2, <2>3
<1>9. CASE ~direct
  <2>1. k = 0
    BY <1>3, <1>9
  <2>4. rest = SubSeq(Bytes(len), 1, len)
    BY <2>1
  <2>2. output_buffer_ # <<>>
    BY <1>4, <1>9
  <2>3. "write" \in events_'
    <3>1. rest # <<>>
      BY <1>5, <2>1
    <3> QED
      BY <1>3, <1>9, <3>1 DEF UpdateChannel
  <2> QED
    BY <1>1, <1>3, <1>4, <1>6, <1>9, <2>1, <2>2, <2>3, <2>4
<1> QED
  BY <1>7, <1>8, <1>9

(* The steps by what they do to the stream.                                 *)
SendStep(len, k) == sendInLoop(len, k) /\ UNCHANGED <<shut, peer, closed>>

ShutStep ==
  /\ shutdownInLoop(events_)
  /\ UNCHANGED <<events_, output_buffer_, wire, peer, given, lost, closed>>

CloseStep ==
  /\ events_' = {} /\ closed' = TRUE
  /\ UNCHANGED <<output_buffer_, wire, shut, peer, given, lost>>

OtherStep ==
  /\ events_' \in {events_, events_ \cup {"read"}}
  /\ peer' # peer => peer # "reset"
  /\ UNCHANGED <<output_buffer_, wire, shut, given, lost, closed>>

LEMMA StreamSteps ==
  ASSUME Next
  PROVE  \/ \E len \in (1 .. MaxBytes) \cup {1} : \E k \in 0 .. len : SendStep(len, k)
         \/ \E n \in 1 .. Len(output_buffer_) : handleWrite(n)
         \/ ShutStep \/ CloseStep \/ OtherStep
<1>1. CASE \E len \in 1 .. MaxBytes : \E k \in 0 .. len : Send(len, k)
  BY <1>1 DEF Send, SendStep
<1>2. CASE \E k \in 0 .. 1 : RunSend(k)
  BY <1>2 DEF RunSend, Turn, SendStep
<1>3. CASE Shutdown \/ RunShutdown
  BY <1>3 DEF Shutdown, RunShutdown, ShutStep
<1>4. CASE handleClose \/ Disconnect
  BY <1>4 DEF handleClose, Disconnect, UpdateChannel, CloseStep
<1>5. CASE connEstablish
  BY <1>5 DEF connEstablish, UpdateChannel, OtherStep
<1>6. CASE PeerStep
  BY <1>6 DEF PeerStep, OtherStep
<1>7. CASE \/ KeepOrDrop \/ SetDisconnecting \/ PushCall
           \/ \E k \in {"send", "shutdown"} : ForeignCall(k)
  BY <1>7 DEF KeepOrDrop, SetDisconnecting, PushCall, ForeignCall, OtherStep
<1>8. CASE HandleEvent \/ SwapFunctors \/ EndRound \/ \E report : Poll(report)
  BY <1>8 DEF HandleEvent, SwapFunctors, EndRound, Poll, OtherStep
<1>9. CASE connDestory \/ UserCallback
  BY <1>9 DEF connDestory, UserCallback, OtherStep
<1>10. CASE handleError \/ handleRead \/ WriteNothing \/ CallbackReturns
  BY <1>10 DEF handleError, handleRead, WriteNothing, CallbackReturns, OtherStep
<1>11. CASE removeConnection \/ Remove \/ removeConnectionInLoop \/ DestroyServer
  BY <1>11
  DEF removeConnection, Remove, removeConnectionInLoop, DestroyServer, OtherStep
<1> QED
  BY <1>1, <1>2, <1>3, <1>4, <1>5, <1>6, <1>7, <1>8, <1>9, <1>10, <1>11
  DEF Next, LoopStep, UserStep, FinishCall

(* A send extends the numbering, on the wire or in the buffer.              *)
LEMMA SendKeepsStream ==
  ASSUME TypeOK, TypeOK', StreamInv,
         NEW len \in Nat \ {0}, NEW k \in 0 .. len, SendStep(len, k)
  PROVE  StreamInv' /\ Len(wire) <= Len(wire') /\ (Broken => wire' = wire)
<1> DEFINE front == SubSeq(Bytes(len), 1, k)
           rest == SubSeq(Bytes(len), k + 1, len)
           all == SubSeq(Bytes(len), 1, len)
<1>1. /\ given \in Nat /\ given' = given + len
      /\ output_buffer_ \in Seq(Nat) /\ wire \in Seq(Nat)
      /\ output_buffer_' \in Seq(Nat) /\ wire' \in Seq(Nat)
      /\ UNCHANGED <<shut, peer, closed>>
  BY DEF TypeOK, SendStep, sendInLoop
<1>2. /\ front \in Seq(Nat) /\ rest \in Seq(Nat)
      /\ Len(front) = k /\ Len(rest) = len - k
      /\ \A i \in 1 .. k : front[i] = given + i
      /\ \A i \in 1 .. len - k : rest[i] = given + k + i
  BY <1>1, BytesSplit
<1>3. /\ all \in Seq(Nat) /\ Len(all) = len
      /\ \A i \in 1 .. len : all[i] = given + i
  <2>1. len \in Nat /\ len \in 0 .. len
    OBVIOUS
  <2> HIDE DEF front, rest
  <2> QED
    BY <1>1, <2>1, BytesSplit
<1>4. Broken' = Broken
  BY <1>1 DEF Broken
<1> HIDE DEF front, rest, all
<1>5. CASE /\ Broken /\ output_buffer_ = <<>> /\ "write" \notin events_
           /\ wire' = wire /\ output_buffer_' = <<>> /\ lost' = TRUE
           /\ "write" \notin events_'
  BY <1>1, <1>4, <1>5 DEF StreamInv, Numbered, Accounted, WriteInterest
<1>6. CASE /\ ~Broken /\ output_buffer_ = <<>> /\ ~lost /\ lost' = lost
           /\ wire' = wire \o front
           /\ output_buffer_' = rest
           /\ "write" \in events_' <=> k < len
  <2>1. given = Len(wire)
    BY <1>1, <1>6 DEF StreamInv, Accounted
  <2>2. /\ Len(wire') = given + k
        /\ \A i \in 1 .. Len(wire') : wire'[i] = i
    <3>1. /\ \A i \in 1 .. Len(wire) : wire[i] = 0 + i
          /\ \A i \in 1 .. Len(front) : front[i] = 0 + Len(wire) + i
      BY <1>1, <1>2, <2>1 DEF StreamInv, Numbered
    <3>2. /\ Len(wire \o front) = Len(wire) + Len(front)
          /\ \A i \in 1 .. Len(wire \o front) : (wire \o front)[i] = 0 + i
      <4>1. wire \in Seq(Nat) /\ front \in Seq(Nat) /\ 0 \in Nat
        BY <1>1, <1>2
      <4> QED
        BY <3>1, <4>1, ConcatNumbered, Zenon
    <3> QED
      BY <1>1, <1>2, <1>6, <2>1, <3>2, SMTT(30)
  <2>3. Numbered'
    BY <1>1, <1>2, <1>6, <2>2 DEF Numbered
  <2>4. output_buffer_' # <<>> <=> k < len
    BY <1>1, <1>2, <1>6, EmptyOrNot
  <2>5. ~shut'
    BY <1>1, <1>6 DEF Broken
  <2>6. Accounted'
    <3>1. Len(wire') + Len(output_buffer_') = given'
      <4>1. Len(output_buffer_') = len - k /\ given' = given + len
        BY <1>1, <1>2, <1>6
      <4> QED
        BY <1>1, <2>2, <4>1
    <3>2. Len(wire') \in Nat /\ Len(output_buffer_') \in Nat /\ given' \in Nat
      BY <1>1
    <3> QED
      BY <1>6, <2>5, <3>1, <3>2 DEF Accounted
  <2>7. WriteInterest'
    BY <1>6, <2>4 DEF WriteInterest
  <2> QED
    BY <1>1, <1>6, <2>1, <2>2, <2>3, <2>6, <2>7 DEF StreamInv
<1>7. CASE /\ output_buffer_ # <<>> /\ ~lost /\ lost' = lost
           /\ wire' = wire
           /\ output_buffer_' = output_buffer_ \o all
           /\ "write" \in events_'
  <2>1. given = Len(wire) + Len(output_buffer_)
    BY <1>1, <1>7 DEF StreamInv, Accounted
  <2>2. /\ Len(output_buffer_') = Len(output_buffer_) + len
        /\ \A i \in 1 .. Len(output_buffer_') : output_buffer_'[i] = Len(wire) + i
    <3>1. /\ \A i \in 1 .. Len(output_buffer_) : output_buffer_[i] = Len(wire) + i
          /\ \A i \in 1 .. Len(all) : all[i] = Len(wire) + Len(output_buffer_) + i
      BY <1>1, <1>3, <2>1 DEF StreamInv, Numbered
    <3>2. /\ Len(output_buffer_ \o all) = Len(output_buffer_) + Len(all)
          /\ \A i \in 1 .. Len(output_buffer_ \o all) :
               (output_buffer_ \o all)[i] = Len(wire) + i
      <4>1. output_buffer_ \in Seq(Nat) /\ all \in Seq(Nat) /\ Len(wire) \in Nat
        BY <1>1, <1>3
      <4> QED
        BY <3>1, <4>1, ConcatNumbered, Zenon
    <3> QED
      BY <1>1, <1>3, <1>7, <3>2
  <2>3. Numbered'
    BY <1>7, <2>2 DEF StreamInv, Numbered
  <2>4. output_buffer_' # <<>>
    BY <1>1, <2>2, EmptyOrNot
  <2>5. Accounted'
    BY <1>1, <1>7, <2>1, <2>2 DEF StreamInv, Accounted
  <2>6. WriteInterest'
    BY <1>7, <2>4 DEF WriteInterest
  <2> QED
    BY <1>1, <1>7, <2>3, <2>5, <2>6 DEF StreamInv
<1> QED
  <2>1. sendInLoop(len, k)
    BY DEF SendStep
  <2> QED
    BY <1>5, <1>6, <1>7, <2>1, SendWays DEF front, rest, all

(* handleWrite() moves bytes from the front of the buffer to the wire.      *)
LEMMA WriteKeepsStream ==
  ASSUME TypeOK, TypeOK', StreamInv,
         NEW n \in 1 .. Len(output_buffer_), handleWrite(n)
  PROVE  StreamInv' /\ Len(wire') = Len(wire) + n
<1> DEFINE front == SubSeq(output_buffer_, 1, n)
           rest == SubSeq(output_buffer_, n + 1, Len(output_buffer_))
<1>1. /\ given \in Nat /\ given' = given /\ lost' = lost /\ closed' = closed
      /\ output_buffer_ \in Seq(Nat) /\ wire \in Seq(Nat) /\ peer' = peer
      /\ output_buffer_' \in Seq(Nat) /\ wire' \in Seq(Nat)
      /\ wire' = wire \o front /\ output_buffer_' = rest
  BY DEF TypeOK, handleWrite
<1>2. \A i \in 1 .. Len(output_buffer_) : output_buffer_[i] \in Nat
  BY <1>1
<1>3. /\ front \in Seq(Nat) /\ Len(front) = n
      /\ \A i \in 1 .. n : front[i] = output_buffer_[i]
  BY <1>2, SubSeqProperties
<1>4. /\ rest \in Seq(Nat) /\ Len(rest) = Len(output_buffer_) - n
      /\ \A i \in 1 .. Len(output_buffer_) - n : rest[i] = output_buffer_[n + i]
  BY <1>2, SubSeqProperties
<1> HIDE DEF front, rest
<1>5. /\ Len(wire') = Len(wire) + n
      /\ \A i \in 1 .. Len(wire') : wire'[i] = i
  <2>1. /\ \A i \in 1 .. Len(wire) : wire[i] = 0 + i
        /\ \A i \in 1 .. Len(front) : front[i] = 0 + Len(wire) + i
    <3>1. /\ \A i \in 1 .. Len(wire) : wire[i] = i
          /\ \A i \in 1 .. Len(output_buffer_) : output_buffer_[i] = Len(wire) + i
      BY DEF StreamInv, Numbered
    <3>2. Len(wire) \in Nat /\ Len(output_buffer_) \in Nat
      BY <1>1
    <3> QED
      BY <1>3, <3>1, <3>2
  <2>2. /\ Len(wire \o front) = Len(wire) + Len(front)
        /\ \A i \in 1 .. Len(wire \o front) : (wire \o front)[i] = 0 + i
    <3>1. wire \in Seq(Nat) /\ front \in Seq(Nat) /\ 0 \in Nat
      BY <1>1, <1>3
    <3> QED
      BY <2>1, <3>1, ConcatNumbered, Zenon
  <2> QED
    BY <1>1, <1>3, <2>2
<1>6. Numbered'
  <2>1. \A i \in 1 .. Len(output_buffer_) : output_buffer_[i] = Len(wire) + i
    BY DEF StreamInv, Numbered
  <2>2. Len(wire) \in Nat /\ Len(output_buffer_) \in Nat
    BY <1>1
  <2>3. \A i \in 1 .. Len(output_buffer_) - n : rest[i] = Len(wire) + n + i
    BY <1>4, <2>1, <2>2
  <2> QED
    BY <1>1, <1>4, <1>5, <2>3 DEF Numbered
<1>7. ~Broken /\ ~lost
  BY DEF handleWrite, StreamInv, Accounted
<1>8. n < Len(output_buffer_) => shut' = shut
  BY DEF handleWrite
<1>9. n = Len(output_buffer_) => output_buffer_' = <<>>
  BY <1>1, <1>4, EmptyOrNot
<1>10. Accounted'
  <2>1. Len(wire) \in Nat /\ Len(output_buffer_) \in Nat
    BY <1>1
  <2>2. Len(wire') + Len(output_buffer_') = Len(wire) + Len(output_buffer_)
    BY <1>1, <1>4, <1>5, <2>1
  <2>3. ~shut /\ (shut' => output_buffer_' = <<>>)
    BY <1>7, <1>8, <1>9 DEF Broken
  <2> QED
    BY <1>1, <1>7, <2>1, <2>2, <2>3 DEF StreamInv, Accounted
<1>11. n < Len(output_buffer_) => output_buffer_' # <<>> /\ "write" \in events_'
  <2>1. Len(output_buffer_) \in Nat
    BY <1>1
  <2>2. n < Len(output_buffer_) => output_buffer_' # <<>>
    BY <1>1, <1>4, <2>1, EmptyOrNot
  <2>3. n < Len(output_buffer_) => "write" \in events_'
    BY <2>1 DEF handleWrite
  <2> QED
    BY <2>2, <2>3
<1>12. n = Len(output_buffer_) => "write" \notin events_'
  BY DEF handleWrite, UpdateChannel
<1>13. WriteInterest'
  BY <1>9, <1>11, <1>12 DEF WriteInterest
<1> QED
  BY <1>5, <1>6, <1>10, <1>13 DEF StreamInv

LEMMA NextStream == TypeOK /\ TypeOK' /\ StreamInv /\ [Next]_vars => StreamInv'
<1> SUFFICES ASSUME TypeOK, TypeOK', StreamInv, [Next]_vars PROVE StreamInv'
  OBVIOUS
<1>1. ASSUME NEW len \in (1 .. MaxBytes) \cup {1}, NEW k \in 0 .. len,
             SendStep(len, k)
      PROVE  StreamInv'
  <2>1. len \in Nat \ {0}
    BY BoundsAssumption
  <2> QED
    BY <1>1, <2>1, SendKeepsStream
<1>2. CASE \E n \in 1 .. Len(output_buffer_) : handleWrite(n)
  BY <1>2, WriteKeepsStream
<1>3. CASE ShutStep
  <2>1. Numbered'
    BY <1>3 DEF ShutStep, StreamInv, Numbered
  <2>2. Accounted' /\ WriteInterest'
    BY <1>3
    DEF ShutStep, shutdownInLoop, StreamInv, Accounted, WriteInterest, Broken
  <2> QED
    BY <2>1, <2>2 DEF StreamInv
<1>4. CASE CloseStep
  BY <1>4 DEF CloseStep, StreamInv, Numbered, Accounted, WriteInterest, Broken
<1>5. CASE OtherStep
  <2>1. Numbered' /\ WriteInterest'
    BY <1>5 DEF OtherStep, StreamInv, Numbered, WriteInterest
  <2>2. Accounted'
    BY <1>5 DEF OtherStep, StreamInv, Accounted, Broken
  <2> QED
    BY <2>1, <2>2 DEF StreamInv
<1>6. CASE UNCHANGED vars
  BY <1>6 DEF vars, StreamInv, Numbered, Accounted, WriteInterest, Broken
<1> QED
  BY <1>1, <1>2, <1>3, <1>4, <1>5, <1>6, StreamSteps

(* A sequence numbered from 1 is the numbers up to its length.              *)
LEMMA NumberedIsPrefix ==
  ASSUME NEW s \in Seq(Nat), \A i \in 1 .. Len(s) : s[i] = i
  PROVE  s = [i \in 1 .. Len(s) |-> i]
<1>1. s = [i \in 1 .. Len(s) |-> s[i]] /\ Len(s) \in Nat
  OBVIOUS
<1> QED
  BY <1>1

LEMMA InitStream == Init => StreamInv
<1> SUFFICES ASSUME Init PROVE StreamInv
  OBVIOUS
<1>1. Len(wire) = 0 /\ Len(output_buffer_) = 0
  BY EmptySeq DEF Init
<1> QED
  BY <1>1 DEF Init, StreamInv, Numbered, Accounted, WriteInterest

LEMMA StreamInvariant == Spec => [](TypeOK /\ BatchInRound /\ StreamInv)
<1>1. TypeOK /\ BatchInRound /\ StreamInv /\ [Next]_vars => StreamInv'
  BY NextType, NextStream
<1> QED
  BY <1>1, InitStream, TypeInvariant, PTL DEF Spec

(* Bytes reach the socket in the order sendInLoop() took them, whichever    *)
(* way they go and whichever thread sends, until the socket breaks.         *)
THEOREM SentInOrder == Spec => []BytesInOrder
<1>1. TypeOK /\ StreamInv => BytesInOrder
  <2> SUFFICES ASSUME TypeOK, StreamInv, ~lost
               PROVE  wire \o output_buffer_ = [i \in 1 .. given |-> i]
    BY DEF BytesInOrder
  <2>1. wire \in Seq(Nat) /\ output_buffer_ \in Seq(Nat) /\ given \in Nat
    BY DEF TypeOK
  <2>2. /\ \A i \in 1 .. Len(wire) : wire[i] = 0 + i
        /\ \A i \in 1 .. Len(output_buffer_) : output_buffer_[i] = 0 + Len(wire) + i
    <3>1. Len(wire) \in Nat
      BY <2>1
    <3> QED
      BY <3>1 DEF StreamInv, Numbered
  <2>3. /\ wire \o output_buffer_ \in Seq(Nat)
        /\ Len(wire \o output_buffer_) = Len(wire) + Len(output_buffer_)
        /\ \A i \in 1 .. Len(wire \o output_buffer_) : (wire \o output_buffer_)[i] = 0 + i
    <3>1. 0 \in Nat
      OBVIOUS
    <3> QED
      BY <2>1, <2>2, <3>1, ConcatNumbered, Zenon
  <2>4. Len(wire) + Len(output_buffer_) = given
    BY DEF StreamInv, Accounted
  <2>5. \A i \in 1 .. Len(wire \o output_buffer_) : (wire \o output_buffer_)[i] = i
    BY <2>1, <2>3
  <2>6. wire \o output_buffer_ = [i \in 1 .. Len(wire \o output_buffer_) |-> i]
    BY <2>3, <2>5, NumberedIsPrefix
  <2>7. Len(wire \o output_buffer_) = given
    BY <2>3, <2>4
  <2> QED
    BY <2>6, <2>7
<1> QED
  BY <1>1, StreamInvariant, PTL

(* The channel asks for EPOLLOUT exactly while bytes wait, until the        *)
(* connection is closed: no busy loop, and no byte without interest.        *)
THEOREM WatchedWhileWaiting == Spec => []WriteInterest
<1>1. StreamInv => WriteInterest
  BY ZenonT(40) DEF StreamInv
<1> QED
  BY <1>1, StreamInvariant, PTL

-----------------------------------------------------------------------------
(* The connection implements ByteStream.                                    *)

(* A step that only lengthens wire is a delivery.                           *)
LEMMA IsDelivery ==
  ASSUME TypeOK, TypeOK', StreamInv', Len(wire) <= Len(wire'),
         shut => wire' = wire
  PROVE  Stream!Delivery
<1>1. wire \in Seq(Nat) /\ wire' \in Seq(Nat) /\ output_buffer_' \in Seq(Nat)
      /\ given' \in Nat
  BY DEF TypeOK
<1>2. wire' = [i \in 1 .. Len(wire') |-> i]
  <2>1. \A i \in 1 .. Len(wire') : wire'[i] = i
    BY DEF StreamInv, Numbered
  <2> QED
    BY <1>1, <2>1, NumberedIsPrefix
<1>3. Len(wire') <= given' /\ Len(wire) \in Nat /\ Len(wire') \in Nat
  BY <1>1 DEF StreamInv, Accounted
<1>4. Len(wire') \in Len(wire) .. given'
  BY <1>1, <1>3
<1> QED
  BY <1>2, <1>4 DEF Stream!Delivery

LEMMA StreamStep ==
  TypeOK /\ TypeOK' /\ StreamInv /\ StreamInv' /\ [Next]_vars
    => [Stream!StreamNext]_(Stream!streamVars)
<1> SUFFICES ASSUME TypeOK, TypeOK', StreamInv, StreamInv', [Next]_vars
             PROVE  [Stream!StreamNext]_(Stream!streamVars)
  OBVIOUS
<1>0. /\ wire \in Seq(Nat) /\ given \in Nat
      /\ Len(wire) \in Nat
  <2>1. wire \in Seq(Nat) /\ given \in Nat
    BY DEF TypeOK
  <2> QED
    BY <2>1
<1>6. shut \in BOOLEAN /\ lost \in BOOLEAN /\ closed \in BOOLEAN
  BY TypeParts DEF Flags
<1>1. ASSUME NEW len \in (1 .. MaxBytes) \cup {1}, NEW k \in 0 .. len,
             SendStep(len, k)
      PROVE  Stream!Take
  <2>1. len \in Nat \ {0}
    BY BoundsAssumption
  <2>2. Len(wire) <= Len(wire') /\ (shut => wire' = wire)
    BY <1>1, <2>1, SendKeepsStream DEF Broken
  <2>3. Stream!Delivery
    BY <2>2, IsDelivery
  <2>4. given' = given + len /\ shut' = shut /\ closed' = closed
    BY <1>1 DEF SendStep, sendInLoop
  <2>5. lost' \in {lost, TRUE}
    BY <1>1, <1>6 DEF SendStep, sendInLoop
  <2>6. (closed' \/ lost') \in {closed \/ lost, TRUE}
    BY <1>6, <2>4, <2>5
  <2> QED
    BY <2>3, <2>4, <2>6 DEF Stream!Take
<1>2. ASSUME NEW n \in 1 .. Len(output_buffer_), handleWrite(n)
      PROVE  Stream!Deliver
  <2>1. Len(wire') = Len(wire) + n /\ Len(wire) <= Len(wire')
    BY <1>0, <1>2, WriteKeepsStream
  <2>2. ~Broken /\ ~lost /\ ~shut
    BY <1>2 DEF handleWrite, StreamInv, Accounted, Broken
  <2>3. Stream!Delivery
    BY <2>1, <2>2, IsDelivery
  <2>4. UNCHANGED <<given, closed, lost>>
    BY <1>2 DEF handleWrite
  <2>5. shut' \in {shut, TRUE} /\ (closed' \/ lost') = (closed \/ lost)
    <3>1. shut' \in BOOLEAN
      BY DEF TypeOK
    <3> QED
      BY <1>6, <2>2, <2>4, <3>1
  <2>6. shut' # shut => Len(wire') = given
    <3>1. Len(wire) + Len(output_buffer_) = given
      BY <2>2 DEF StreamInv, Accounted
    <3>2. shut' # shut => n = Len(output_buffer_)
      BY <1>2 DEF handleWrite
    <3> QED
      BY <2>1, <3>1, <3>2
  <2> QED
    BY <2>3, <2>4, <2>5, <2>6 DEF Stream!Deliver
<1>3. CASE ShutStep
  <2>1. UNCHANGED <<wire, given, closed, lost>>
    BY <1>3 DEF ShutStep
  <2>2. Stream!Delivery
    BY <1>0, <2>1, IsDelivery
  <2>3. shut' # shut => closed \/ lost \/ Len(wire') = given
    <3>1. shut' # shut => "write" \notin events_
      BY <1>3, <1>6 DEF ShutStep, shutdownInLoop
    <3>2. "write" \notin events_ => closed \/ output_buffer_ = <<>>
      BY DEF StreamInv, WriteInterest
    <3>3. output_buffer_ = <<>> /\ ~lost => Len(wire) = given
      BY <1>0, EmptySeq DEF StreamInv, Accounted
    <3> QED
      BY <2>1, <3>1, <3>2, <3>3
  <2>4. shut' \in {shut, TRUE}
    BY <1>3, <1>6 DEF ShutStep, shutdownInLoop
  <2>5. (closed' \/ lost') = (closed \/ lost)
    BY <2>1
  <2>6. shut' # shut => (closed \/ lost) \/ Len(wire') = given
    BY <2>3
  <2>7. Stream!Deliver
    BY <2>1, <2>2, <2>4, <2>5, <2>6 DEF Stream!Deliver
  <2> QED
    BY <2>7 DEF Stream!StreamNext
<1>4. CASE CloseStep
  <2>1. (closed' \/ lost') = TRUE
    BY <1>4 DEF CloseStep
  <2>2. Stream!Fail
    BY <1>4, <2>1 DEF CloseStep, Stream!Fail
  <2> QED
    BY <2>2 DEF Stream!StreamNext
<1>5. CASE OtherStep \/ UNCHANGED vars
  BY <1>5 DEF OtherStep, vars, Stream!streamVars
<1> QED
  BY <1>1, <1>2, <1>3, <1>4, <1>5, StreamSteps DEF Stream!StreamNext

(* Whatever the threads do, the peer sees the stream that ByteStream        *)
(* describes: sendInLoop(), handleWrite() and shutdownInLoop() implement    *)
(* Take and Deliver, the ways to close a connection Fail.                   *)
THEOREM RefinesStream == Spec => ImplementsStream
<1>1. Init => Stream!StreamInit
  BY DEF Init, Stream!StreamInit
<1> QED
  BY <1>1, StreamStep, StreamInvariant, PTL
  DEF Spec, ImplementsStream, Stream!StreamSpec
=============================================================================
