------------------------ MODULE EventLoopThreadProofs ------------------------
(****************************************************************************)
(* Proofs about EventLoopThread, for any two threads and any functors.      *)
(****************************************************************************)
EXTENDS EventLoopThread, SequenceTheorems, TLAPS

USE DEF eventloop, wrapper

-----------------------------------------------------------------------------
(* Type correctness.                                                        *)

LEMMA InitType == Init => TypeOK
  BY EmptySeq
  DEF Init, TypeOK, Loop!Init, Loop!TypeOK, Loop!Places, Loop!Sources

(* What threadFunc() and user code do with the loop keeps its types.        *)
LEMMA LoopType ==
  ASSUME Loop!TypeOK,
         \/ Loop!Construct \/ Loop!Release \/ Loop!StartLoop \/ Loop!LoopStep
         \/ \E t \in {Base, Io} : Loop!Use(t) \/ Loop!Wakeup(t)
         \/ \E ready \in SUBSET Loop!Sources : Loop!Poll(ready)
  PROVE  Loop!TypeOK'
<1> USE DEF Loop!TypeOK, Loop!Places, Loop!Sources, Loop!object, Loop!queue,
            Loop!history
<1>1. CASE Loop!Construct \/ Loop!StartLoop
  BY <1>1 DEF Loop!Construct, Loop!StartLoop
<1>2. CASE Loop!Release
  BY <1>2, EmptySeq DEF Loop!Release
<1>3. ASSUME NEW t \in {Base, Io}, NEW f \in Functors,
             Loop!PushLoopCallback(t, f)
      PROVE  Loop!TypeOK'
  BY <1>3 DEF Loop!PushLoopCallback
<1>4. ASSUME NEW t \in {Base, Io}, NEW f \in Functors,
             Loop!RunLoopCallback(t, f)
      PROVE  Loop!TypeOK'
  <2>1. CASE Loop!isInLoopThread(t)
    BY <1>4, <2>1 DEF Loop!RunLoopCallback
  <2>2. CASE ~Loop!isInLoopThread(t)
    BY <1>3, <1>4, <2>2 DEF Loop!RunLoopCallback
  <2> QED
    BY <2>1, <2>2
<1>5. ASSUME NEW t \in {Base, Io}, Loop!Quit(t) \/ Loop!Wakeup(t)
      PROVE  Loop!TypeOK'
  <2>1. CASE Loop!Quit(t)
    BY <2>1 DEF Loop!Quit
  <2>2. CASE Loop!Wakeup(t)
    BY <2>2 DEF Loop!Wakeup
  <2> QED
    BY <1>5, <2>1, <2>2
<1>6. ASSUME NEW ready \in SUBSET Loop!Sources, Loop!Poll(ready)
      PROVE  Loop!TypeOK'
  BY <1>6 DEF Loop!Poll
<1>7. CASE \/ Loop!CheckQuit \/ Loop!Awake \/ Loop!HandleEvent
           \/ Loop!CallbackReturns \/ Loop!StartPendingFunctors
           \/ Loop!EndPendingFunctors
  BY <1>7
  DEF Loop!CheckQuit, Loop!Awake, Loop!HandleEvent, Loop!CallbackReturns,
      Loop!StartPendingFunctors, Loop!EndPendingFunctors
<1>8. CASE Loop!SwapFunctors
  BY <1>8, EmptySeq DEF Loop!SwapFunctors
<1>9. CASE Loop!CallFunctor
  BY <1>9, HeadTailProperties, AppendProperties DEF Loop!CallFunctor
<1> QED
  BY <1>1, <1>2, <1>3, <1>4, <1>5, <1>6, <1>7, <1>8, <1>9
  DEF Loop!Use, Loop!Hand, Loop!LoopStep

(* Every step of both threads keeps the types.                              *)
LEMMA NextType == TypeOK /\ [Next]_vars => TypeOK'
<1> SUFFICES ASSUME TypeOK, [Next]_vars PROVE TypeOK'
  OBVIOUS
<1> USE DEF TypeOK
<1>1. UNCHANGED eventloop => Loop!TypeOK'
  BY DEF Loop!TypeOK, Loop!Places, Loop!Sources
<1>2. CASE Start \/ SpuriousWakeup \/ StartDtor
  <2>1. CASE Start
    BY <1>1, <2>1 DEF Start
  <2>2. CASE SpuriousWakeup
    BY <1>1, <2>2 DEF SpuriousWakeup
  <2>3. CASE StartDtor
    BY <1>1, <2>3 DEF StartDtor
  <2> QED
    BY <1>2, <2>1, <2>2, <2>3
<1>3. CASE SemWait \/ CheckLoop \/ ReadLoop
  BY <1>1, <1>3 DEF SemWait, CheckLoop, ReadLoop
<1>10. CASE UseDestroyedLoop \/ StartJoin \/ Join
  <2>1. CASE UseDestroyedLoop
    BY <1>1, <2>1 DEF UseDestroyedLoop
  <2>2. CASE StartJoin
    BY <1>1, <2>2 DEF StartJoin
  <2>3. CASE Join
    BY <1>1, <2>3 DEF Join
  <2> QED
    BY <1>10, <2>1, <2>2, <2>3
<1>4. CASE QuitLoop \/ WakeupLoop
  BY <1>4, LoopType DEF QuitLoop, WakeupLoop, Loop!Use
<1>5. CASE SemPost \/ EndInit \/ Publish \/ ClearLoop
  BY <1>1, <1>5 DEF SemPost, EndInit, Publish, ClearLoop
<1>6. CASE ConstructLoop \/ EnterLoop \/ RunLoop \/ DestroyLoop
  BY <1>6, LoopType DEF ConstructLoop, EnterLoop, RunLoop, DestroyLoop
<1>7. ASSUME NEW t \in {Base, Io}, UserCode(t) \/ FinishCall(t)
      PROVE  TypeOK'
  <2>1. Loop!Use(t) \/ Loop!Wakeup(t)
    BY <1>7 DEF UserCode, FinishCall, Loop!Use
  <2>2. Loop!TypeOK'
    BY <2>1, LoopType
  <2>3. UNCHANGED <<wrapper, caller, thread>> /\ stopped' \in BOOLEAN
    BY <1>7 DEF UserCode, FinishCall
  <2> QED
    BY <2>2, <2>3
<1>8. ASSUME NEW ready \in SUBSET Loop!Sources, PollLoop(ready)
      PROVE  TypeOK'
  BY <1>8, LoopType DEF PollLoop
<1>9. CASE UNCHANGED vars
  BY <1>1, <1>9 DEF vars
<1> QED
  BY <1>2, <1>3, <1>4, <1>5, <1>6, <1>7, <1>8, <1>9, <1>10
  DEF Next, CallerStep, ThreadStep

(* The variables of both threads and of the loop keep their types in every  *)
(* behaviour of startLoop(), threadFunc() and the destructor.               *)
THEOREM TypeCorrect == Spec => []TypeOK
  BY InitType, NextType, PTL DEF Spec
-----------------------------------------------------------------------------
(* The life of the loop.                                                    *)

(* Base is past the quit() of the destructor.                               *)
Quitted == {"wakeup", "join", "joining", "end", "undefined"}

(* The inductive invariant.  Its first half follows threadFunc(): when the  *)
(* slot is taken, the loop exists and the pointer is set, and where loop()  *)
(* then is.  The second half relates it to Base: the loop is asked to stop, *)
(* leaves loop() and drops functors only after user code or the destructor  *)
(* has called quit(); until then Base finds the loop startLoop() gave it.   *)
Lifetime ==
  /\ started_ <=> thread # "none"
  /\ caller = "new" => thread = "none"
  /\ t_loop_in_this_thread <=> thread \notin {"none", "born", "construct"}
  /\ alive <=> thread \notin {"none", "born", "construct", "exited"}
  /\ loop_ <=> thread \in {"loop", "looping", "clear"}
  /\ ~alive => pc = "none"
  /\ alive /\ thread # "looping" => pc = "idle"
  /\ thread = "looping" => Loop!InLoop
  /\ dropped # <<>> => thread = "exited"
  /\ quit_ /\ ~stopped => caller \in Quitted
  /\ thread \in {"clear", "destroy", "exited"} /\ ~stopped => caller \in Quitted
  /\ StartedLoopIsLive
  /\ NoThreadOutlivesObject

LEMMA InitLifetime == Init => Lifetime
  BY DEF Init, Loop!Init, Lifetime, StartedLoopIsLive, NoThreadOutlivesObject

(* A call to the loop leaves its life alone; only quit() sets the flag.     *)
LEMMA CallFrame ==
  ASSUME NEW t, Loop!Use(t) \/ Loop!Wakeup(t)
  PROVE  /\ UNCHANGED <<t_loop_in_this_thread, alive, pc, dropped>>
         /\ Loop!Hand(t) \/ Loop!Wakeup(t) => quit_' = quit_
<1> USE DEF Loop!object, Loop!queue, Loop!history
<1>1. CASE Loop!Quit(t) \/ Loop!Wakeup(t)
  BY <1>1
  DEF Loop!Quit, Loop!Wakeup, Loop!Hand, Loop!PushLoopCallback,
      Loop!RunLoopCallback
<1>2. CASE Loop!Hand(t)
  BY <1>2 DEF Loop!Hand, Loop!PushLoopCallback, Loop!RunLoopCallback
<1> QED
  BY <1>1, <1>2 DEF Loop!Use

(* loop() stays in its places until it finds quit_ set.                     *)
LEMMA LoopFrame ==
  ASSUME Loop!InLoop,
         Loop!LoopStep \/ \E ready \in SUBSET Loop!Sources : Loop!Poll(ready)
  PROVE  /\ UNCHANGED <<t_loop_in_this_thread, alive, quit_, dropped>>
         /\ \/ pc' \notin {"none", "idle", "fatal"}
            \/ pc' = "idle" /\ quit_ /\ Loop!LoopStep
<1> USE DEF Loop!InLoop, Loop!object, Loop!queue, Loop!history
<1>1. CASE Loop!CheckQuit
  BY <1>1 DEF Loop!CheckQuit, Loop!LoopStep
<1>2. CASE \E ready \in SUBSET Loop!Sources : Loop!Poll(ready)
  BY <1>2 DEF Loop!Poll
<1>3. CASE Loop!Awake \/ Loop!HandleEvent \/ Loop!CallbackReturns
  BY <1>3 DEF Loop!Awake, Loop!HandleEvent, Loop!CallbackReturns
<1>4. CASE \/ Loop!StartPendingFunctors \/ Loop!SwapFunctors
           \/ Loop!CallFunctor \/ Loop!EndPendingFunctors
  BY <1>4
  DEF Loop!StartPendingFunctors, Loop!SwapFunctors, Loop!CallFunctor,
      Loop!EndPendingFunctors
<1> QED
  BY <1>1, <1>2, <1>3, <1>4 DEF Loop!LoopStep

(* Every step of both threads keeps the invariant.                          *)
LEMMA NextLifetime == TypeOK /\ Lifetime /\ [Next]_vars => Lifetime'
<1> SUFFICES ASSUME TypeOK, Lifetime, [Next]_vars PROVE Lifetime'
  OBVIOUS
<1> USE DEF Lifetime, Quitted, StartedLoopIsLive, NoThreadOutlivesObject,
            Loop!InLoop
<1>1. CASE Start \/ SpuriousWakeup \/ StartDtor
  BY <1>1 DEF Start, SpuriousWakeup, StartDtor
<1>2. CASE SemWait \/ CheckLoop \/ ReadLoop
  BY <1>2 DEF SemWait, CheckLoop, ReadLoop
<1>3. CASE QuitLoop
  <2>1. /\ UNCHANGED <<t_loop_in_this_thread, alive, pc, dropped>>
        /\ caller = "quit" /\ caller' = "wakeup"
        /\ UNCHANGED <<wrapper, thread, stopped>>
    BY <1>3, CallFrame DEF QuitLoop, Loop!Use
  <2> QED
    BY <2>1
<1>4. CASE WakeupLoop
  <2>1. /\ UNCHANGED <<t_loop_in_this_thread, alive, pc, dropped, quit_>>
        /\ caller = "wakeup" /\ caller' = "join"
        /\ UNCHANGED <<wrapper, thread, stopped>>
    BY <1>4, CallFrame DEF WakeupLoop
  <2> QED
    BY <2>1
<1>5. CASE UseDestroyedLoop \/ StartJoin \/ Join
  BY <1>5 DEF UseDestroyedLoop, StartJoin, Join
<1>6. CASE SemPost \/ EndInit
  BY <1>6 DEF SemPost, EndInit
<1>7. CASE Publish \/ ClearLoop
  BY <1>7 DEF Publish, ClearLoop
<1>8. CASE ConstructLoop \/ EnterLoop
  BY <1>8
  DEF ConstructLoop, EnterLoop, Loop!Construct, Loop!StartLoop, Loop!object,
      Loop!queue, Loop!history
<1>9. CASE DestroyLoop
  BY <1>9 DEF DestroyLoop, Loop!Release, TypeOK, Loop!TypeOK
<1>10. CASE RunLoop
  <2>1. /\ UNCHANGED <<t_loop_in_this_thread, alive, quit_, dropped>>
        /\ \/ pc' \notin {"none", "idle", "fatal"}
           \/ pc' = "idle" /\ quit_
    BY <1>10, LoopFrame DEF RunLoop
  <2>2. /\ thread = "looping"
        /\ thread' = IF pc' = "idle" THEN "clear" ELSE "looping"
        /\ UNCHANGED <<wrapper, caller, stopped>>
    BY <1>10 DEF RunLoop
  <2> QED
    BY <2>1, <2>2
<1>11. ASSUME NEW t \in {Base, Io}, UserCode(t)
       PROVE  Lifetime'
  <2>1. /\ UNCHANGED <<t_loop_in_this_thread, alive, pc, dropped>>
        /\ (quit_' = quit_ /\ stopped' = stopped) \/ stopped' = TRUE
        /\ UNCHANGED <<wrapper, caller, thread>>
    BY <1>11, CallFrame DEF UserCode, Loop!Use
  <2> QED
    BY <2>1
<1>12. ASSUME NEW t \in {Base, Io}, FinishCall(t)
       PROVE  Lifetime'
  <2>1. /\ UNCHANGED <<t_loop_in_this_thread, alive, pc, dropped, quit_>>
        /\ UNCHANGED <<wrapper, caller, thread, stopped>>
    BY <1>12, CallFrame DEF FinishCall
  <2> QED
    BY <2>1
<1>13. ASSUME NEW ready \in SUBSET Loop!Sources, PollLoop(ready)
       PROVE  Lifetime'
  <2>1. /\ UNCHANGED <<t_loop_in_this_thread, alive, quit_, dropped>>
        /\ pc' \notin {"none", "idle", "fatal"}
    BY <1>13
    DEF PollLoop, Loop!Poll, Loop!object, Loop!queue, Loop!history
  <2>2. thread = "looping" /\ UNCHANGED <<wrapper, caller, thread, stopped>>
    BY <1>13 DEF PollLoop
  <2> QED
    BY <2>1, <2>2
<1>14. CASE UNCHANGED vars
  BY <1>14 DEF vars
<1> QED
  BY <1>1, <1>2, <1>3, <1>4, <1>5, <1>6, <1>7, <1>8, <1>9, <1>10, <1>11,
     <1>12, <1>13, <1>14
  DEF Next, CallerStep, ThreadStep

LEMMA LifetimeHolds == Spec => []Lifetime
  BY InitType, NextType, InitLifetime, NextLifetime, PTL DEF Spec

(* startLoop() returns a loop that exists, and Base finds it as long as no  *)
(* user code stops it, however the two threads interleave.                  *)
THEOREM LoopIsLive == Spec => []StartedLoopIsLive
<1>1. Lifetime => StartedLoopIsLive
  BY DEF Lifetime
<1> QED
  BY <1>1, LifetimeHolds, PTL

(* When ~EventLoopThread() has returned, the thread it started has ended,   *)
(* unless user code has stopped the loop.                                   *)
THEOREM ThreadIsJoined == Spec => []NoThreadOutlivesObject
<1>1. Lifetime => NoThreadOutlivesObject
  BY DEF Lifetime
<1> QED
  BY <1>1, LifetimeHolds, PTL

(* No functor is dropped before the destructor or user code has called      *)
(* quit().                                                                  *)
THEOREM NothingDroppedBefore == Spec => []DroppedOnlyByDtor
<1>1. Lifetime => DroppedOnlyByDtor
  BY DEF Lifetime, DroppedOnlyByDtor, Quitted
<1> QED
  BY <1>1, LifetimeHolds, PTL

(* The pointer that threadFunc() publishes is never left dangling.          *)
THEOREM PointerNeverDangles == Spec => []PublishedIsLive
<1>1. TypeOK /\ Lifetime => PublishedIsLive
  BY DEF Lifetime, PublishedIsLive
<1> QED
  BY <1>1, TypeCorrect, LifetimeHolds, PTL
=============================================================================
