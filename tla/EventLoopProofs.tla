--------------------------- MODULE EventLoopProofs ---------------------------
(****************************************************************************)
(* Proofs about EventLoop, for every set of threads and functors.           *)
(****************************************************************************)
EXTENDS EventLoop, SequenceTheorems, TLAPS

USE DEF object, queue, history

-----------------------------------------------------------------------------
(* Type correctness.                                                        *)

LEMMA InitType == Init => TypeOK
  BY EmptySeq DEF Init, TypeOK, Places, Sources

(* Every step of the loop and of its callers keeps the types.               *)
LEMMA NextType == TypeOK /\ [Next]_vars => TypeOK'
<1> SUFFICES ASSUME TypeOK, [Next]_vars PROVE TypeOK'
  OBVIOUS
<1> USE DEF TypeOK, Places, Sources
<1>1. CASE Construct \/ ConstructFatal
  BY <1>1 DEF Construct, ConstructFatal
<1>2. CASE Destruct
  BY <1>2, EmptySeq DEF Destruct, Release
<1>3. CASE StartLoop
  BY <1>3 DEF StartLoop
<1>4. ASSUME NEW t \in Threads, NEW f \in Functors, PushLoopCallback(t, f)
      PROVE  TypeOK'
  BY <1>4 DEF PushLoopCallback
<1>5. ASSUME NEW t \in Threads, NEW f \in Functors, RunLoopCallback(t, f)
      PROVE  TypeOK'
  <2>1. CASE isInLoopThread(t)
    BY <1>5, <2>1 DEF RunLoopCallback
  <2>2. CASE ~isInLoopThread(t)
    BY <1>4, <1>5, <2>2 DEF RunLoopCallback
  <2> QED
    BY <2>1, <2>2
<1>6. ASSUME NEW t \in Threads, Quit(t) \/ Wakeup(t)
      PROVE  TypeOK'
  BY <1>6 DEF Quit, Wakeup
<1>7. ASSUME NEW ready \in SUBSET Sources, Poll(ready)
      PROVE  TypeOK'
  BY <1>7 DEF Poll
<1>8. CASE CheckQuit \/ Awake \/ HandleEvent \/ CallbackReturns
  BY <1>8 DEF CheckQuit, Awake, HandleEvent, CallbackReturns
<1>9. CASE StartPendingFunctors \/ EndPendingFunctors
  BY <1>9 DEF StartPendingFunctors, EndPendingFunctors
<1>10. CASE SwapFunctors
  BY <1>10, EmptySeq DEF SwapFunctors
<1>11. CASE CallFunctor
  BY <1>11, HeadTailProperties, AppendProperties DEF CallFunctor
<1>12. CASE UNCHANGED vars
  BY <1>12 DEF vars
<1> QED
  BY <1>1, <1>2, <1>3, <1>4, <1>5, <1>6, <1>7, <1>8, <1>9, <1>10, <1>11, <1>12
  DEF Next, Use, Hand, LoopStep

(* The event loop's variables keep their types in every behaviour.          *)
THEOREM TypeCorrect == Spec => []TypeOK
  BY InitType, NextType, PTL DEF Spec
-----------------------------------------------------------------------------
(* No lost wakeup.                                                          *)

(* Appending to a sequence adds one element to its range.                   *)
LEMMA RangeAppend ==
  ASSUME NEW S, NEW s \in Seq(S), NEW e \in S
  PROVE  Range(Append(s, e)) = Range(s) \cup {e}
<1>1. <<e>> \in Seq(S) /\ Range(<<e>>) = {e}
  BY DEF Range
<1>2. Append(s, e) = s \o <<e>>
  BY AppendIsConcat
<1>3. Range(s \o <<e>>) = Range(s) \cup Range(<<e>>)
  BY <1>1, RangeConcatenation, ZenonT(30)
<1> QED
  BY <1>1, <1>2, <1>3

LEMMA RangeEmpty == Range(<<>>) = {}
  BY DEF Range

LEMMA InitWakeup == Init => WakeupProtocol
  BY RangeEmpty DEF Init, WakeupProtocol

(* Every step keeps the wakeup protocol.                                    *)
LEMMA NextWakeup == TypeOK /\ WakeupProtocol /\ [Next]_vars => WakeupProtocol'
<1> SUFFICES ASSUME TypeOK, WakeupProtocol, [Next]_vars PROVE WakeupProtocol'
  OBVIOUS
<1> USE DEF WakeupProtocol, WakeupUnderWay
<1>1. CASE Construct \/ ConstructFatal
  BY <1>1, RangeEmpty DEF Construct, ConstructFatal
<1>2. CASE Destruct
  BY <1>2 DEF Destruct, Release
<1>3. CASE StartLoop
  BY <1>3 DEF StartLoop
<1>4. ASSUME NEW t \in Threads, NEW f \in Functors, PushLoopCallback(t, f)
      PROVE  WakeupProtocol'
  <2>1. /\ pc' = pc /\ alive' = alive /\ alive
        /\ calling_pending_functors_' = calling_pending_functors_
        /\ wakeup_fd_' = wakeup_fd_
    BY <1>4 DEF PushLoopCallback, MayCall
  <2>2. Range(pending_functors_') = Range(pending_functors_) \cup {f}
    BY <1>4, RangeAppend DEF PushLoopCallback, TypeOK
  <2>3. CASE NeedsWakeup(t)
    <3>1. call'[t] = "wakeup"
      BY <1>4, <2>3 DEF PushLoopCallback, TypeOK
    <3> QED
      BY <2>1, <3>1
  <2>4. CASE ~NeedsWakeup(t)
    <3>1. isInLoopThread(t) /\ ~calling_pending_functors_
      BY <2>4 DEF NeedsWakeup
    <3>2. pc \in {"idle", "handler"}
      BY <1>4, <3>1 DEF PushLoopCallback, MayCall
    <3>3. call' = call
      BY <1>4, <2>4 DEF PushLoopCallback, TypeOK, MayCall
    <3>4. pc = "idle" => early' = early \cup {f}
      BY <1>4, <3>1 DEF PushLoopCallback
    <3> QED
      BY <2>1, <2>2, <3>2, <3>3, <3>4
  <2> QED
    BY <2>3, <2>4
<1>5. ASSUME NEW t \in Threads, NEW f \in Functors, RunLoopCallback(t, f)
      PROVE  WakeupProtocol'
  <2>1. CASE isInLoopThread(t)
    BY <1>5, <2>1 DEF RunLoopCallback
  <2>2. CASE ~isInLoopThread(t)
    BY <1>4, <1>5, <2>2 DEF RunLoopCallback
  <2> QED
    BY <2>1, <2>2
<1>6. ASSUME NEW t \in Threads, Quit(t)
      PROVE  WakeupProtocol'
  <2>1. \A u \in Threads : call[u] = "wakeup" => call'[u] = "wakeup"
    BY <1>6 DEF Quit, MayCall, TypeOK
  <2> QED
    BY <1>6, <2>1 DEF Quit
<1>7. ASSUME NEW t \in Threads, Wakeup(t)
      PROVE  WakeupProtocol'
  BY <1>7 DEF Wakeup
<1>8. ASSUME NEW ready \in SUBSET Sources, Poll(ready)
      PROVE  WakeupProtocol'
  BY <1>8 DEF Poll
<1>9. CASE CheckQuit
  BY <1>9 DEF CheckQuit
<1>10. CASE Awake \/ HandleEvent \/ CallbackReturns
  BY <1>10 DEF Awake, HandleEvent, CallbackReturns
<1>11. CASE StartPendingFunctors \/ CallFunctor \/ EndPendingFunctors
  BY <1>11 DEF StartPendingFunctors, CallFunctor, EndPendingFunctors
<1>12. CASE SwapFunctors
  BY <1>12, RangeEmpty DEF SwapFunctors
<1>13. CASE UNCHANGED vars
  BY <1>13 DEF vars
<1> QED
  BY <1>1, <1>2, <1>3, <1>4, <1>5, <1>6, <1>7, <1>8, <1>9, <1>10, <1>11,
     <1>12, <1>13
  DEF Next, Use, Hand, LoopStep

(* In every behaviour of the loop the wakeup protocol holds.                *)
THEOREM WakeupProtocolHolds == Spec => []WakeupProtocol
  BY InitType, NextType, InitWakeup, NextWakeup, PTL DEF Spec

(* The loop never sleeps in epoll_wait while a functor waits that no wakeup *)
(* will announce, whatever the number of threads and functors.              *)
THEOREM NoWakeupIsLost == Spec => []NoLostWakeup
<1>1. WakeupProtocol => NoLostWakeup
  BY DEF WakeupProtocol, NoLostWakeup
<1> QED
  BY <1>1, WakeupProtocolHolds, PTL
-----------------------------------------------------------------------------
(* Functors are called once and in order, and the loop implements           *)
(* SerialExecutor.                                                          *)

(* The strengthening both proofs need: where the local vector may hold      *)
(* functors, when functors have been dropped, and where the loop is alive.  *)
FunctorFlow ==
  /\ ExactlyOnceInOrder
  /\ functors # <<>> => pc \in {"run", "functor"}
  /\ alive \/ dropped # <<>> => t_loop_in_this_thread
  /\ dropped # <<>> => ~alive
  /\ pc = "none" => ~alive
  /\ InLoop \/ pc = "idle" => alive

(* Appending to the last part of a concatenation appends to the whole.      *)
LEMMA ConcatAppend ==
  ASSUME NEW S, NEW s \in Seq(S), NEW u \in Seq(S), NEW e \in S
  PROVE  s \o Append(u, e) = Append(s \o u, e)
  OBVIOUS

(* Moving the head of the second part to the end of the first part changes  *)
(* nothing.                                                                 *)
LEMMA ConcatMoveHead ==
  ASSUME NEW S, NEW s \in Seq(S), NEW u \in Seq(S), u # <<>>
  PROVE  Append(s, Head(u)) \o Tail(u) = s \o u
  OBVIOUS

(* The head and the tail of a concatenation are those of its first part.    *)
LEMMA ConcatHeadTail ==
  ASSUME NEW S, NEW s \in Seq(S), NEW u \in Seq(S), s # <<>>
  PROVE  /\ Head(s \o u) = Head(s)
         /\ Tail(s \o u) = Tail(s) \o u
         /\ s \o u # <<>>
  OBVIOUS

LEMMA InitFlow == Init => FunctorFlow
  BY EmptySeq DEF Init, FunctorFlow, ExactlyOnceInOrder, InLoop

(* Every step keeps the flow of the functors.                               *)
LEMMA NextFlow == TypeOK /\ FunctorFlow /\ [Next]_vars => FunctorFlow'
<1> SUFFICES ASSUME TypeOK, FunctorFlow, [Next]_vars PROVE FunctorFlow'
  OBVIOUS
<1> USE DEF FunctorFlow, InLoop
<1>a. /\ pushed \in Seq(Functors) /\ ran \in Seq(Functors)
      /\ functors \in Seq(Functors) /\ pending_functors_ \in Seq(Functors)
      /\ dropped \in Seq(Functors) /\ ran \o functors \in Seq(Functors)
      /\ ran \o functors \o pending_functors_ \in Seq(Functors)
  BY ConcatProperties DEF TypeOK
<1>1. CASE Construct \/ ConstructFatal
  <2>1. CASE Construct
    BY <2>1 DEF Construct, ExactlyOnceInOrder
  <2>2. CASE ConstructFatal
    BY <2>2 DEF ConstructFatal, ExactlyOnceInOrder
  <2> QED
    BY <1>1, <2>1, <2>2
<1>2. CASE Destruct
  <2>1. functors = <<>> /\ dropped = <<>> /\ t_loop_in_this_thread
    BY <1>2 DEF Destruct, Release
  <2> QED
    BY <1>2, <1>a, <2>1 DEF Destruct, Release, ExactlyOnceInOrder
<1>3. CASE StartLoop
  BY <1>3 DEF StartLoop, ExactlyOnceInOrder
<1>4. ASSUME NEW t \in Threads, NEW f \in Functors, PushLoopCallback(t, f)
      PROVE  FunctorFlow'
  <2>1. dropped = <<>> /\ dropped' = <<>>
    BY <1>4 DEF PushLoopCallback, MayCall
  <2>2. ran \o functors \o Append(pending_functors_, f)
          = Append(ran \o functors \o pending_functors_, f)
    BY <1>a, ConcatAppend, SMTT(30)
  <2>3. ExactlyOnceInOrder'
    BY <1>4, <1>a, <2>1, <2>2 DEF PushLoopCallback, ExactlyOnceInOrder
  <2> QED
    BY <1>4, <2>1, <2>3 DEF PushLoopCallback
<1>5. ASSUME NEW t \in Threads, NEW f \in Functors, RunLoopCallback(t, f)
      PROVE  FunctorFlow'
  <2>1. CASE isInLoopThread(t)
    BY <1>5, <2>1 DEF RunLoopCallback, ExactlyOnceInOrder
  <2>2. CASE ~isInLoopThread(t)
    BY <1>4, <1>5, <2>2 DEF RunLoopCallback
  <2> QED
    BY <2>1, <2>2
<1>6. ASSUME NEW t \in Threads, Quit(t)
      PROVE  FunctorFlow'
  BY <1>6 DEF Quit, ExactlyOnceInOrder
<1>7. ASSUME NEW t \in Threads, Wakeup(t)
      PROVE  FunctorFlow'
  BY <1>7 DEF Wakeup, ExactlyOnceInOrder
<1>8. ASSUME NEW ready \in SUBSET Sources, Poll(ready)
      PROVE  FunctorFlow'
  BY <1>8 DEF Poll, ExactlyOnceInOrder
<1>9. CASE CheckQuit
  BY <1>9 DEF CheckQuit, ExactlyOnceInOrder
<1>10. CASE Awake \/ HandleEvent
  BY <1>10 DEF Awake, HandleEvent, ExactlyOnceInOrder
<1>11. CASE CallbackReturns
  BY <1>11 DEF CallbackReturns, ExactlyOnceInOrder
<1>12. CASE StartPendingFunctors \/ EndPendingFunctors
  BY <1>12 DEF StartPendingFunctors, EndPendingFunctors, ExactlyOnceInOrder
<1>13. CASE SwapFunctors
  <2>1. functors = <<>>
    BY <1>13 DEF SwapFunctors
  <2>2. ran \o pending_functors_ \o <<>> = ran \o <<>> \o pending_functors_
    BY <1>a
  <2> QED
    BY <1>13, <2>1, <2>2 DEF SwapFunctors, ExactlyOnceInOrder
<1>14. CASE CallFunctor
  <2>1. Append(ran, Head(functors)) \o Tail(functors) = ran \o functors
    BY <1>14, <1>a, ConcatMoveHead DEF CallFunctor
  <2> QED
    BY <1>14, <2>1 DEF CallFunctor, ExactlyOnceInOrder
<1>15. CASE UNCHANGED vars
  BY <1>15 DEF vars, ExactlyOnceInOrder
<1> QED
  BY <1>1, <1>2, <1>3, <1>4, <1>5, <1>6, <1>7, <1>8, <1>9, <1>10, <1>11,
     <1>12, <1>13, <1>14, <1>15
  DEF Next, Use, Hand, LoopStep

(* No functor is lost, duplicated or overtaken by another, whatever threads *)
(* push them and whenever.                                                  *)
THEOREM FunctorsInOrder == Spec => []ExactlyOnceInOrder
<1>1. FunctorFlow => ExactlyOnceInOrder
  BY DEF FunctorFlow
<1> QED
  BY <1>1, InitType, NextType, InitFlow, NextFlow, PTL DEF Spec

(* A step that leaves alive, the functors, ran and "a functor is being      *)
(* called" alone is a stuttering step of the executor.                      *)
LEMMA Stutter ==
  ASSUME alive' = alive, functors' = functors, ran' = ran,
         pending_functors_' = pending_functors_,
         pc' = "functor" <=> pc = "functor"
  PROVE  UNCHANGED Executor!svars
  BY DEF Executor!svars

(* Every step of the loop is a step of the executor or changes nothing that *)
(* the executor shows.                                                      *)
LEMMA NextExecutor ==
  TypeOK /\ FunctorFlow /\ [Next]_vars => [Executor!Next]_(Executor!svars)
<1> SUFFICES ASSUME TypeOK, FunctorFlow, [Next]_vars
             PROVE  Executor!Next \/ UNCHANGED Executor!svars
  OBVIOUS
<1>a. /\ ran \in Seq(Functors) /\ functors \in Seq(Functors)
      /\ pending_functors_ \in Seq(Functors)
  BY DEF TypeOK
<1>1. CASE Construct
  <2>1. Executor!Open
    BY <1>1, Zenon DEF Construct, Executor!Open, FunctorFlow
  <2> QED
    BY <2>1 DEF Executor!Next
<1>2. CASE ConstructFatal
  BY <1>2, Stutter DEF ConstructFatal
<1>3. CASE Destruct
  <2>1. alive /\ functors = <<>> /\ pc # "functor"
    BY <1>3 DEF Destruct, Release, FunctorFlow
  <2>2. Executor!Close
    BY <1>3, <2>1 DEF Destruct, Release, Executor!Close
  <2> QED
    BY <2>2 DEF Executor!Next
<1>4. CASE StartLoop
  BY <1>4, Stutter DEF StartLoop
<1>5. ASSUME NEW t \in Threads, NEW f \in Functors, PushLoopCallback(t, f)
      PROVE  Executor!Next
  <2>1. functors \o Append(pending_functors_, f)
          = Append(functors \o pending_functors_, f)
    BY <1>a, ConcatAppend
  <2>2. Executor!Submit(f)
    BY <1>5, <2>1 DEF PushLoopCallback, MayCall, Executor!Submit
  <2> QED
    BY <2>2 DEF Executor!Next
<1>6. ASSUME NEW t \in Threads, NEW f \in Functors, RunLoopCallback(t, f)
      PROVE  Executor!Next \/ UNCHANGED Executor!svars
  <2>1. CASE isInLoopThread(t)
    BY <1>6, <2>1, Stutter DEF RunLoopCallback
  <2>2. CASE ~isInLoopThread(t)
    BY <1>5, <1>6, <2>2 DEF RunLoopCallback
  <2> QED
    BY <2>1, <2>2
<1>7. ASSUME NEW t \in Threads, Quit(t) \/ Wakeup(t)
      PROVE  UNCHANGED Executor!svars
  BY <1>7, Stutter DEF Quit, Wakeup
<1>8. ASSUME NEW ready \in SUBSET Sources, Poll(ready)
      PROVE  UNCHANGED Executor!svars
  BY <1>8, Stutter DEF Poll
<1>9. CASE CheckQuit \/ Awake \/ HandleEvent
  BY <1>9, Stutter DEF CheckQuit, Awake, HandleEvent
<1>10. CASE CallbackReturns
  <2>1. CASE pc = "handler"
    BY <1>10, <2>1, Stutter DEF CallbackReturns
  <2>2. CASE pc = "functor"
    <3>1. Executor!End
      BY <1>10, <2>2 DEF CallbackReturns, Executor!End
    <3> QED
      BY <3>1 DEF Executor!Next
  <2> QED
    BY <1>10, <2>1, <2>2 DEF CallbackReturns
<1>11. CASE StartPendingFunctors \/ EndPendingFunctors
  BY <1>11, Stutter DEF StartPendingFunctors, EndPendingFunctors
<1>12. CASE SwapFunctors
  <2>1. functors = <<>>
    BY <1>12 DEF SwapFunctors, FunctorFlow
  <2>2. functors' \o pending_functors_' = functors \o pending_functors_
    BY <1>12, <1>a, <2>1 DEF SwapFunctors
  <2> QED
    BY <1>12, <2>2 DEF SwapFunctors, Executor!svars
<1>13. CASE CallFunctor
  <2>1. alive /\ functors # <<>> /\ pc = "run"
    BY <1>13 DEF CallFunctor, FunctorFlow, InLoop
  <2>2. /\ Head(functors \o pending_functors_) = Head(functors)
        /\ Tail(functors \o pending_functors_)
             = Tail(functors) \o pending_functors_
        /\ functors \o pending_functors_ # <<>>
    BY <1>a, <2>1, ConcatHeadTail
  <2>3. Executor!Begin
    BY <1>13, <2>1, <2>2 DEF CallFunctor, Executor!Begin
  <2> QED
    BY <2>3 DEF Executor!Next
<1>14. CASE UNCHANGED vars
  BY <1>14, Stutter DEF vars
<1> QED
  BY <1>1, <1>2, <1>3, <1>4, <1>5, <1>6, <1>7, <1>8, <1>9, <1>10, <1>11,
     <1>12, <1>13, <1>14
  DEF Next, Use, Hand, LoopStep

(* The event loop implements the serial executor for every number of        *)
(* threads and functors.                                                    *)
THEOREM Refinement == Spec => ImplementsExecutor
<1>1. Init => Executor!Init
  BY DEF Init, Executor!Init
<1> QED
  BY <1>1, InitType, NextType, InitFlow, NextFlow, NextExecutor, PTL
  DEF Spec, ImplementsExecutor, Executor!Spec

=============================================================================
