------------------------------ MODULE EventLoop ------------------------------
(****************************************************************************)
(* EventLoop (src/src/eventloop.cc, eventloop.h): one thread, the owner,    *)
(* constructs the loop and runs loop(); every thread may hand it functors   *)
(* with runLoopCallback() and pushLoopCallback() and stop it with quit().   *)
(*                                                                          *)
(* A step is what one thread does between two points where another thread   *)
(* can see the difference.  pending_functors_ is only touched inside mutex_ *)
(* by a single statement, so each critical section is one step and the      *)
(* mutex needs no variable of its own; what follows it in the same call     *)
(* (the write to the eventfd) is a step of its own.                         *)
(*                                                                          *)
(* wakeup_fd_ is an eventfd: every write adds one to its counter, awake()   *)
(* resets it to zero and ignores the value.  Only "is it readable" is ever  *)
(* observed, so it is a Boolean here.  looping_ is written by loop() and    *)
(* read by nobody: it is left out, pc tells as much.                        *)
(****************************************************************************)
EXTENDS Naturals, Sequences, Functions

CONSTANTS
  Threads,    \* every thread that calls the loop
  Owner,      \* the thread that constructed it: thread_id_
  Functors    \* the callbacks; each one is handed to the loop at most once

ASSUME OwnerAssumption == Owner \in Threads

VARIABLES
  t_loop_in_this_thread,      \* the owner's thread-local slot is not null
  alive,                      \* the EventLoop object exists
  quit_,
  calling_pending_functors_,
  pending_functors_,
  wakeup_fd_,                 \* the eventfd is readable
  active_channels_,           \* what poll() returned and loop() has not handled
  functors,                   \* the local vector of executePendingFunctors()
  pc,                         \* where the owner is
  call,                       \* what is left of the call each thread is making
  fresh,                      \* functors nobody has handed over yet
  pushed,                     \* history: functors in the order they were pushed
  ran,                        \* history: functors in the order they were called
  early,                      \* history: pushed by the owner outside loop()
  dropped                     \* history: pending when the loop was destroyed

object == <<t_loop_in_this_thread, alive>>
queue == <<pending_functors_, functors>>
history == <<fresh, pushed, ran, early, dropped>>

vars == <<object, quit_, calling_pending_functors_, queue, wakeup_fd_,
          active_channels_, pc, call, history>>

(* The two kinds of channels a loop serves: its own eventfd and the rest.   *)
Sources == {"wakeup", "io"}

(* "none": no EventLoop object.  "idle": user code of the owner, outside    *)
(* loop().  "handler" and "functor": user code called by loop().            *)
Places == {"none", "idle", "check", "poll", "dispatch", "handler", "swap",
           "run", "functor", "fatal"}

(* Every variable stays in its type.                                        *)
TypeOK ==
  /\ t_loop_in_this_thread \in BOOLEAN
  /\ alive \in BOOLEAN
  /\ quit_ \in BOOLEAN
  /\ calling_pending_functors_ \in BOOLEAN
  /\ wakeup_fd_ \in BOOLEAN
  /\ active_channels_ \in SUBSET Sources
  /\ pc \in Places
  /\ call \in [Threads -> {"none", "wakeup"}]
  /\ fresh \in SUBSET Functors
  /\ early \in SUBSET Functors
  /\ pending_functors_ \in Seq(Functors)
  /\ functors \in Seq(Functors)
  /\ pushed \in Seq(Functors)
  /\ ran \in Seq(Functors)
  /\ dropped \in Seq(Functors)

Init ==
  /\ t_loop_in_this_thread = FALSE
  /\ alive = FALSE
  /\ quit_ = FALSE
  /\ calling_pending_functors_ = FALSE
  /\ pending_functors_ = <<>>
  /\ wakeup_fd_ = FALSE
  /\ active_channels_ = {}
  /\ functors = <<>>
  /\ pc = "none"
  /\ call = [t \in Threads |-> "none"]
  /\ fresh = Functors
  /\ pushed = <<>>
  /\ ran = <<>>
  /\ early = {}
  /\ dropped = <<>>

isInLoopThread(t) == t = Owner

-----------------------------------------------------------------------------
(* Construction and destruction, by the owner.                              *)

(* EventLoop::EventLoop() in a thread whose slot is empty.                  *)
Construct ==
  /\ pc = "none"
  /\ ~t_loop_in_this_thread
  /\ t_loop_in_this_thread' = TRUE
  /\ alive' = TRUE
  /\ pc' = "idle"
  /\ UNCHANGED <<quit_, calling_pending_functors_, queue, wakeup_fd_,
                 active_channels_, call, history>>

(* EventLoop::EventLoop() in a thread whose slot is taken: LOG_FATAL ends   *)
(* the process.                                                             *)
ConstructFatal ==
  /\ pc \in {"none", "idle"}
  /\ t_loop_in_this_thread
  /\ pc' = "fatal"
  /\ UNCHANGED <<object, quit_, calling_pending_functors_, queue, wakeup_fd_,
                 active_channels_, call, history>>

(* EventLoop::~EventLoop().  Line 56 compares the slot with nullptr and     *)
(* assigns nothing, so the slot stays taken.  The vector of pending         *)
(* functors dies with the object.                                           *)
Release ==
  /\ pc = "idle"
  /\ alive' = FALSE
  /\ pc' = "none"
  /\ dropped' = pending_functors_
  /\ pending_functors_' = <<>>
  /\ wakeup_fd_' = FALSE
  /\ UNCHANGED <<t_loop_in_this_thread, quit_, calling_pending_functors_,
                 functors, active_channels_, call, fresh, pushed, ran, early>>

(* Whoever destroys the loop must know that no call to it is still running. *)
Destruct ==
  /\ \A t \in Threads : call[t] = "none"
  /\ Release

-----------------------------------------------------------------------------
(* The interface, callable by every thread while the loop exists.           *)

(* The owner calls only from user code: outside loop() or in a callback.    *)
MayCall(t) ==
  /\ alive
  /\ pc # "fatal"
  /\ call[t] = "none"
  /\ isInLoopThread(t) => pc \in {"idle", "handler", "functor"}

(* Mutant: only other threads write the eventfd.                            *)
NeedsWakeup_OnlyForeign(t) == ~isInLoopThread(t)

(* pushLoopCallback() writes the eventfd unless the loop will look at       *)
(* pending_functors_ anyway before it polls again.                          *)
NeedsWakeup(t) == ~isInLoopThread(t) \/ calling_pending_functors_

PushLoopCallback(t, f) ==
  /\ MayCall(t)
  /\ f \in fresh
  /\ fresh' = fresh \ {f}
  /\ pending_functors_' = Append(pending_functors_, f)
  /\ pushed' = Append(pushed, f)
  /\ early' = IF isInLoopThread(t) /\ pc = "idle" THEN early \cup {f} ELSE early
  /\ call' = [call EXCEPT ![t] = IF NeedsWakeup(t) THEN "wakeup" ELSE "none"]
  /\ UNCHANGED <<object, quit_, calling_pending_functors_, functors,
                 wakeup_fd_, active_channels_, pc, ran, dropped>>

(* runLoopCallback(): the owner calls f on the spot, and what f does are    *)
(* the owner's next calls; any other thread pushes it.                      *)
RunLoopCallback(t, f) ==
  \/ /\ isInLoopThread(t)
     /\ MayCall(t)
     /\ f \in fresh
     /\ fresh' = fresh \ {f}
     /\ UNCHANGED <<object, quit_, calling_pending_functors_, queue,
                    wakeup_fd_, active_channels_, pc, call, pushed, ran,
                    early, dropped>>
  \/ /\ ~isInLoopThread(t)
     /\ PushLoopCallback(t, f)

(* Mutant: quit() sets the flag and leaves the loop asleep.                 *)
Quit_NoWakeup(t) ==
  /\ MayCall(t)
  /\ quit_' = TRUE
  /\ UNCHANGED <<object, calling_pending_functors_, queue, wakeup_fd_,
                 active_channels_, pc, call, history>>

Quit(t) ==
  /\ MayCall(t)
  /\ quit_' = TRUE
  /\ call' = [call EXCEPT ![t] = IF isInLoopThread(t) THEN "none" ELSE "wakeup"]
  /\ UNCHANGED <<object, calling_pending_functors_, queue, wakeup_fd_,
                 active_channels_, pc, history>>

(* Mutant: wakeup() writes the value zero, which an eventfd ignores.        *)
Wakeup_WritesZero(t) ==
  /\ call[t] = "wakeup"
  /\ call' = [call EXCEPT ![t] = "none"]
  /\ UNCHANGED <<object, quit_, calling_pending_functors_, queue, wakeup_fd_,
                 active_channels_, pc, history>>

(* wakeup(), the last thing a call does.                                    *)
Wakeup(t) ==
  /\ call[t] = "wakeup"
  /\ pc # "fatal"
  /\ wakeup_fd_' = TRUE
  /\ call' = [call EXCEPT ![t] = "none"]
  /\ UNCHANGED <<object, quit_, calling_pending_functors_, queue,
                 active_channels_, pc, history>>

-----------------------------------------------------------------------------
(* loop(), by the owner.                                                    *)

StartLoop ==
  /\ pc = "idle"
  /\ quit_' = FALSE
  /\ pc' = "check"
  /\ UNCHANGED <<object, calling_pending_functors_, queue, wakeup_fd_,
                 active_channels_, call, history>>

(* while (!quit_)                                                           *)
CheckQuit ==
  /\ pc = "check"
  /\ pc' = IF quit_ THEN "idle" ELSE "poll"
  /\ active_channels_' = {}
  /\ UNCHANGED <<object, quit_, calling_pending_functors_, queue, wakeup_fd_,
                 call, history>>

(* Mutant: one entry too many of the events array is handed out.            *)
Poll_StaleEntry(ready) ==
  /\ pc = "poll"
  /\ active_channels_' = ready \cup {"stale"}
  /\ pc' = "dispatch"
  /\ UNCHANGED <<object, quit_, calling_pending_functors_, queue, wakeup_fd_,
                 call, history>>

(* Mutant: loop() goes back to the top when poll() returned nothing.        *)
Poll_ContinueOnTimeout(ready) ==
  /\ pc = "poll"
  /\ "wakeup" \in ready => wakeup_fd_
  /\ active_channels_' = ready
  /\ pc' = IF ready = {} THEN "check" ELSE "dispatch"
  /\ UNCHANGED <<object, quit_, calling_pending_functors_, queue, wakeup_fd_,
                 call, history>>

(* poll() returns channels that are ready.  None: the kPollWaitTime of ten  *)
(* seconds has passed or a signal interrupted epoll_wait.  A readable       *)
(* eventfd can be left out only when other channels fill the events array.  *)
Poll(ready) ==
  /\ pc = "poll"
  /\ "wakeup" \in ready => wakeup_fd_
  /\ wakeup_fd_ => ready # {}
  /\ active_channels_' = ready
  /\ pc' = "dispatch"
  /\ UNCHANGED <<object, quit_, calling_pending_functors_, queue, wakeup_fd_,
                 call, history>>

(* handleEvent() of the wakeup channel calls awake().                       *)
Awake ==
  /\ pc = "dispatch"
  /\ "wakeup" \in active_channels_
  /\ active_channels_' = active_channels_ \ {"wakeup"}
  /\ wakeup_fd_' = FALSE
  /\ UNCHANGED <<object, quit_, calling_pending_functors_, queue, pc, call,
                 history>>

(* handleEvent() of another channel runs user code.                         *)
HandleEvent ==
  /\ pc = "dispatch"
  /\ "io" \in active_channels_
  /\ active_channels_' = active_channels_ \ {"io"}
  /\ pc' = "handler"
  /\ UNCHANGED <<object, quit_, calling_pending_functors_, queue, wakeup_fd_,
                 call, history>>

(* A callback of loop() returns to it.                                      *)
CallbackReturns ==
  /\ call[Owner] = "none"
  /\ \/ pc = "handler" /\ pc' = "dispatch"
     \/ pc = "functor" /\ pc' = "run"
  /\ UNCHANGED <<object, quit_, calling_pending_functors_, queue, wakeup_fd_,
                 active_channels_, call, history>>

(* Mutant: the flag is raised only around each functor's call.              *)
StartPendingFunctors_FlagLate ==
  /\ pc = "dispatch"
  /\ active_channels_ = {}
  /\ pc' = "swap"
  /\ UNCHANGED <<object, quit_, calling_pending_functors_, queue, wakeup_fd_,
                 active_channels_, call, history>>

(* executePendingFunctors(): raise the flag, take the vector under the      *)
(* mutex, call what was taken, lower the flag.                              *)
StartPendingFunctors ==
  /\ pc = "dispatch"
  /\ active_channels_ = {}
  /\ calling_pending_functors_' = TRUE
  /\ pc' = "swap"
  /\ UNCHANGED <<object, quit_, queue, wakeup_fd_, active_channels_, call,
                 history>>

(* Mutant: the vector is copied and not emptied.                            *)
SwapFunctors_Copy ==
  /\ pc = "swap"
  /\ functors' = pending_functors_
  /\ pc' = "run"
  /\ UNCHANGED <<object, quit_, calling_pending_functors_, pending_functors_,
                 wakeup_fd_, active_channels_, call, history>>

SwapFunctors ==
  /\ pc = "swap"
  /\ functors' = pending_functors_
  /\ pending_functors_' = <<>>
  /\ pc' = "run"
  /\ UNCHANGED <<object, quit_, calling_pending_functors_, wakeup_fd_,
                 active_channels_, call, history>>

(* Mutant: the functors taken are called from the back of the vector.       *)
CallFunctor_Backwards ==
  /\ pc = "run"
  /\ functors # <<>>
  /\ ran' = Append(ran, functors[Len(functors)])
  /\ functors' = SubSeq(functors, 1, Len(functors) - 1)
  /\ pc' = "functor"
  /\ UNCHANGED <<object, quit_, calling_pending_functors_, pending_functors_,
                 wakeup_fd_, active_channels_, call, fresh, pushed, early,
                 dropped>>

CallFunctor ==
  /\ pc = "run"
  /\ functors # <<>>
  /\ ran' = Append(ran, Head(functors))
  /\ functors' = Tail(functors)
  /\ pc' = "functor"
  /\ UNCHANGED <<object, quit_, calling_pending_functors_, pending_functors_,
                 wakeup_fd_, active_channels_, call, fresh, pushed, early,
                 dropped>>

EndPendingFunctors ==
  /\ pc = "run"
  /\ functors = <<>>
  /\ calling_pending_functors_' = FALSE
  /\ pc' = "check"
  /\ UNCHANGED <<object, quit_, queue, wakeup_fd_, active_channels_, call,
                 history>>

-----------------------------------------------------------------------------
(* What a thread may decide to do, and what loop() does by itself.          *)
Hand(t) == \E f \in Functors : PushLoopCallback(t, f) \/ RunLoopCallback(t, f)

Use(t) == Hand(t) \/ Quit(t)

LoopStep ==
  \/ CheckQuit
  \/ Awake
  \/ HandleEvent
  \/ CallbackReturns
  \/ StartPendingFunctors
  \/ SwapFunctors
  \/ CallFunctor
  \/ EndPendingFunctors

Next ==
  \/ Construct
  \/ ConstructFatal
  \/ Destruct
  \/ StartLoop
  \/ \E t \in Threads : Use(t) \/ Wakeup(t)
  \/ \E ready \in SUBSET Sources : Poll(ready)
  \/ LoopStep

Spec == Init /\ [][Next]_vars

(* The threads are scheduled: the owner keeps executing loop(), callbacks   *)
(* return, a call once begun is finished, and epoll_wait returns when the   *)
(* eventfd is readable.  Nothing else is assumed: no descriptor ever        *)
(* becomes ready, the poll timeout never fires, nobody calls anything.      *)
Fairness ==
  /\ WF_vars(LoopStep)
  /\ WF_vars(\E ready \in SUBSET Sources : wakeup_fd_ /\ Poll(ready))
  /\ \A t \in Threads : WF_vars(Wakeup(t))

FairSpec == Spec /\ Fairness

-----------------------------------------------------------------------------
(* Properties.                                                              *)

InLoop == pc \notin {"none", "idle", "fatal"}

WakeupUnderWay == wakeup_fd_ \/ \E t \in Threads : call[t] = "wakeup"

(* No lost wakeup: while the owner sleeps in epoll_wait with a functor      *)
(* pending, the eventfd is readable or some thread is about to write it.    *)
(* The exceptions are the functors the owner pushed outside loop(), for     *)
(* which pushLoopCallback() writes nothing.                                 *)
NoLostWakeup ==
  pc = "poll" /\ (\E f \in Range(pending_functors_) : f \notin early)
    => WakeupUnderWay

(* Why there is no lost wakeup, as an inductive invariant: the flag that    *)
(* pushLoopCallback() reads is up exactly from the swap to the last         *)
(* functor, a destroyed loop holds no functor, and from the swap until the  *)
(* loop has polled again every functor that waits has a wakeup on its way.  *)
WakeupProtocol ==
  /\ calling_pending_functors_ <=> pc \in {"swap", "run", "functor"}
  /\ pc = "none" => ~alive /\ pending_functors_ = <<>>
  /\ pc \in {"idle", "check", "poll", "run", "functor"} =>
       \/ \A f \in Range(pending_functors_) : f \in early
       \/ WakeupUnderWay

(* executePendingFunctors() calls every functor once, in the order of the   *)
(* pushes of all threads together; none disappears while the loop exists.   *)
ExactlyOnceInOrder ==
  pushed = ran \o functors \o pending_functors_ \o dropped

(* Every behaviour of the loop is one of the abstract executor: waiting are *)
(* the functors already taken from the vector and then the vector itself.   *)
Executor == INSTANCE SerialExecutor WITH
  open <- alive,
  waiting <- functors \o pending_functors_,
  busy <- pc = "functor",
  executed <- ran

(* The loop implements SerialExecutor: whatever the interleaving of pushes, *)
(* swaps and calls, functors run one at a time, in order, each once.        *)
ImplementsExecutor == Executor!Spec

(* What the constructor reports before it ends the process: "Another        *)
(* EventLoop %p exists in this thread %d" (eventloop.cc:41).                *)
FatalMeansAnotherLoop == pc = "fatal" => alive

(* A functor that was pushed to a running loop is called, or the loop       *)
(* leaves loop() first; this does not depend on the poll timeout.           *)
PushedIsRun ==
  \A f \in Functors :
    (InLoop /\ f \in Range(pending_functors_) \ early)
      ~> (f \in Range(ran) \/ ~InLoop)

(* If the poll timeout of kPollWaitTime fires, so are the functors the      *)
(* owner pushed outside loop().                                             *)
EarlyIsRun ==
  WF_vars(Poll({})) =>
    \A f \in Functors :
      (InLoop /\ f \in Range(pending_functors_)) ~> (f \in Range(ran) \/ ~InLoop)

(* quit() on a loop that is inside loop() makes loop() return, also when    *)
(* the loop sleeps in epoll_wait and no descriptor is ready.                *)
QuitStopsLoop == (InLoop /\ quit_) ~> ~InLoop
=============================================================================
