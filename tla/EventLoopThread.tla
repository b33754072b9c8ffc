--------------------------- MODULE EventLoopThread ---------------------------
(****************************************************************************)
(* EventLoopThread and Thread (src/src/eventloop_thread.cc, thread.cc): the *)
(* thread Base starts a thread Io that constructs an EventLoop, publishes   *)
(* it and runs it; startLoop() waits for the loop and ~EventLoopThread()    *)
(* stops it and joins the thread.  The loop is the one of module EventLoop, *)
(* with Io as its owner.                                                    *)
(*                                                                          *)
(* Every critical section of mutex_ is a single statement, so each is one   *)
(* step.  exiting_ is written by the destructor and read by nobody.         *)
(****************************************************************************)
EXTENDS Naturals, Sequences

CONSTANTS
  Base, Io,     \* the two threads
  Functors

ASSUME ThreadsAssumption == Base # Io

VARIABLES
  t_loop_in_this_thread, alive, quit_, calling_pending_functors_,
  pending_functors_, wakeup_fd_, active_channels_, functors, pc, call, fresh,
  pushed, ran, early, dropped,
  loop_,       \* the pointer to the loop is not null
  started_,    \* Thread::started_
  joined_,     \* Thread::joined_
  sem,         \* the semaphore of Thread::start() has been posted
  caller,      \* where Base is
  thread,      \* where the function of the new thread is
  stopped      \* history: user code has called quit()

Loop == INSTANCE EventLoop WITH Threads <- {Base, Io}, Owner <- Io

eventloop == <<t_loop_in_this_thread, alive, quit_, calling_pending_functors_,
               pending_functors_, wakeup_fd_, active_channels_, functors, pc,
               call, fresh, pushed, ran, early, dropped>>
wrapper == <<loop_, started_, joined_, sem>>
vars == <<eventloop, wrapper, caller, thread, stopped>>

(* Every variable stays in its type.                                        *)
TypeOK ==
  /\ Loop!TypeOK
  /\ loop_ \in BOOLEAN
  /\ started_ \in BOOLEAN
  /\ joined_ \in BOOLEAN
  /\ sem \in BOOLEAN
  /\ caller \in {"new", "sem_wait", "check", "wait", "using", "dtor", "quit",
                 "wakeup", "join", "joining", "end", "undefined"}
  /\ thread \in {"none", "born", "construct", "init", "publish", "loop",
                 "looping", "clear", "destroy", "exited"}
  /\ stopped \in BOOLEAN

Init ==
  /\ Loop!Init
  /\ loop_ = FALSE
  /\ started_ = FALSE
  /\ joined_ = FALSE
  /\ sem = FALSE
  /\ caller = "new"
  /\ thread = "none"
  /\ stopped = FALSE

-----------------------------------------------------------------------------
(* startLoop(), by Base.                                                    *)

(* Thread::start(): create the thread, then wait for its semaphore.         *)
Start ==
  /\ caller = "new"
  /\ started_' = TRUE
  /\ thread' = "born"
  /\ caller' = "sem_wait"
  /\ UNCHANGED <<eventloop, loop_, joined_, sem, stopped>>

SemWait ==
  /\ caller = "sem_wait"
  /\ sem
  /\ caller' = "check"
  /\ UNCHANGED <<eventloop, wrapper, thread, stopped>>

(* Mutant: startLoop() does not wait for the pointer.                       *)
CheckLoop_NoWait ==
  /\ caller = "check"
  /\ caller' = "using"
  /\ UNCHANGED <<eventloop, wrapper, thread, stopped>>

(* while (loop_ == nullptr) cond_.wait(lock)                                *)
CheckLoop ==
  /\ caller = "check"
  /\ caller' = IF loop_ THEN "using" ELSE "wait"
  /\ UNCHANGED <<eventloop, wrapper, thread, stopped>>

(* cond_.wait() may also return for no reason.                              *)
SpuriousWakeup ==
  /\ caller = "wait"
  /\ caller' = "check"
  /\ UNCHANGED <<eventloop, wrapper, thread, stopped>>

-----------------------------------------------------------------------------
(* threadFunc(), by Io.                                                     *)

SemPost ==
  /\ thread = "born"
  /\ sem' = TRUE
  /\ thread' = "construct"
  /\ UNCHANGED <<eventloop, loop_, started_, joined_, caller, stopped>>

ConstructLoop ==
  /\ thread = "construct"
  /\ Loop!Construct
  /\ thread' = "init"
  /\ UNCHANGED <<wrapper, caller, stopped>>

(* init_callback_ has returned, or is not set.                              *)
EndInit ==
  /\ thread = "init"
  /\ thread' = "publish"
  /\ UNCHANGED <<eventloop, wrapper, caller, stopped>>

(* Mutant: the pointer is published without notify_one().                   *)
Publish_NoNotify ==
  /\ thread = "publish"
  /\ loop_' = TRUE
  /\ thread' = "loop"
  /\ UNCHANGED <<eventloop, started_, joined_, sem, caller, stopped>>

Publish ==
  /\ thread = "publish"
  /\ loop_' = TRUE
  /\ caller' = IF caller = "wait" THEN "check" ELSE caller
  /\ thread' = "loop"
  /\ UNCHANGED <<eventloop, started_, joined_, sem, stopped>>

(* Mutant: threadFunc() does not run the loop.                              *)
EnterLoop_Skipped ==
  /\ thread = "loop"
  /\ thread' = "clear"
  /\ UNCHANGED <<eventloop, wrapper, caller, stopped>>

EnterLoop ==
  /\ thread = "loop"
  /\ Loop!StartLoop
  /\ thread' = "looping"
  /\ UNCHANGED <<wrapper, caller, stopped>>

(* A step of loop(); the one that leaves it goes on in threadFunc().        *)
RunLoop ==
  /\ thread = "looping"
  /\ Loop!LoopStep
  /\ thread' = IF pc' = "idle" THEN "clear" ELSE "looping"
  /\ UNCHANGED <<wrapper, caller, stopped>>

PollLoop(ready) ==
  /\ thread = "looping"
  /\ Loop!Poll(ready)
  /\ UNCHANGED <<wrapper, caller, thread, stopped>>

(* Mutant: the pointer is left behind.                                      *)
ClearLoop_Skipped ==
  /\ thread = "clear"
  /\ thread' = "destroy"
  /\ UNCHANGED <<eventloop, wrapper, caller, stopped>>

ClearLoop ==
  /\ thread = "clear"
  /\ loop_' = FALSE
  /\ thread' = "destroy"
  /\ UNCHANGED <<eventloop, started_, joined_, sem, caller, stopped>>

(* ev_loop goes out of scope; nothing makes it wait for calls to it.        *)
DestroyLoop ==
  /\ thread = "destroy"
  /\ Loop!Release
  /\ thread' = "exited"
  /\ UNCHANGED <<wrapper, caller, stopped>>

-----------------------------------------------------------------------------
(* User code: init_callback_ and the callbacks of the loop in Io, whatever  *)
(* Base does with the loop startLoop() returned.                            *)
MayUse(t) == IF t = Io THEN thread \in {"init", "looping"} ELSE caller = "using"

UserCode(t) ==
  /\ MayUse(t)
  /\ \/ Loop!Hand(t) /\ UNCHANGED stopped
     \/ Loop!Quit(t) /\ stopped' = TRUE
  /\ UNCHANGED <<wrapper, caller, thread>>

(* The write to the eventfd that ends a call of user code.                  *)
FinishCall(t) ==
  /\ t = Base => caller = "using" /\ alive
  /\ Loop!Wakeup(t)
  /\ UNCHANGED <<wrapper, caller, thread, stopped>>

-----------------------------------------------------------------------------
(* ~EventLoopThread(), by Base.                                             *)

StartDtor ==
  /\ caller \in {"new", "using"}
  /\ call[Base] = "none"
  /\ caller' = "dtor"
  /\ UNCHANGED <<eventloop, wrapper, thread, stopped>>

(* Mutant: a thread is detached without asking whether it was started.      *)
ReadLoop_AlwaysDetaches ==
  /\ caller = "dtor"
  /\ caller' = IF loop_ THEN "quit" ELSE "end"
  /\ thread' = IF loop_ THEN thread ELSE "detached"
  /\ UNCHANGED <<eventloop, wrapper, stopped>>

(* if (loop_ != nullptr), read without mutex_.  Otherwise nothing is        *)
(* stopped, and ~Thread() detaches a thread that was started.               *)
ReadLoop ==
  /\ caller = "dtor"
  /\ caller' = IF loop_ THEN "quit" ELSE "end"
  /\ UNCHANGED <<eventloop, wrapper, thread, stopped>>

QuitLoop ==
  /\ caller = "quit"
  /\ Loop!Quit(Base)
  /\ caller' = "wakeup"
  /\ UNCHANGED <<wrapper, thread, stopped>>

(* Base is in the middle of a call to a loop that the thread has destroyed  *)
(* meanwhile: undefined behaviour.  A quit() by user code may have stopped  *)
(* the loop after ReadLoop, or the very quit() of which only the wakeup is  *)
(* left may have: the loop need not wait for it.                            *)
UseDestroyedLoop ==
  /\ ~alive
  /\ \/ caller \in {"quit", "wakeup"}
     \/ caller = "using" /\ call[Base] = "wakeup"
  /\ caller' = "undefined"
  /\ UNCHANGED <<eventloop, wrapper, thread, stopped>>

(* Mutant: the destructor sets the flag and leaves the loop asleep.         *)
WakeupLoop_Skipped ==
  /\ caller = "wakeup"
  /\ caller' = "join"
  /\ UNCHANGED <<eventloop, wrapper, thread, stopped>>

WakeupLoop ==
  /\ caller = "wakeup"
  /\ alive
  /\ Loop!Wakeup(Base)
  /\ caller' = "join"
  /\ UNCHANGED <<wrapper, thread, stopped>>

(* Thread::join() marks the thread and then waits for it.                   *)
StartJoin ==
  /\ caller = "join"
  /\ joined_' = TRUE
  /\ caller' = "joining"
  /\ UNCHANGED <<eventloop, loop_, started_, sem, thread, stopped>>

(* Mutant: join() marks the thread and does not wait for it.                *)
Join_Skipped ==
  /\ caller = "joining"
  /\ caller' = "end"
  /\ UNCHANGED <<eventloop, wrapper, thread, stopped>>

Join ==
  /\ caller = "joining"
  /\ thread = "exited"
  /\ caller' = "end"
  /\ UNCHANGED <<eventloop, wrapper, thread, stopped>>

-----------------------------------------------------------------------------
CallerStep ==
  \/ SemWait \/ CheckLoop
  \/ ReadLoop \/ QuitLoop \/ UseDestroyedLoop \/ WakeupLoop
  \/ StartJoin \/ Join

ThreadStep ==
  \/ SemPost \/ ConstructLoop \/ EndInit \/ Publish \/ EnterLoop \/ RunLoop
  \/ ClearLoop \/ DestroyLoop

Next ==
  \/ Start
  \/ SpuriousWakeup
  \/ StartDtor
  \/ CallerStep
  \/ ThreadStep
  \/ \E t \in {Base, Io} : UserCode(t) \/ FinishCall(t)
  \/ \E ready \in SUBSET Loop!Sources : PollLoop(ready)

Spec == Init /\ [][Next]_vars

(* Both threads are scheduled, callbacks return, calls once begun are       *)
(* finished, and epoll_wait returns when the eventfd is readable.           *)
Fairness ==
  /\ WF_vars(CallerStep)
  /\ WF_vars(ThreadStep)
  /\ \A t \in {Base, Io} : WF_vars(FinishCall(t))
  /\ WF_vars(\E ready \in SUBSET Loop!Sources : wakeup_fd_ /\ PollLoop(ready))

FairSpec == Spec /\ Fairness

(* As FairSpec, with the poll timeout of kPollWaitTime.                     *)
TimeoutSpec == FairSpec /\ WF_vars(PollLoop({}))

-----------------------------------------------------------------------------
(* Properties.                                                              *)

(* startLoop() returns a loop that exists, and it exists as long as user    *)
(* code does not stop it.                                                   *)
StartedLoopIsLive ==
  caller \in {"using", "dtor", "quit"} /\ started_ /\ ~stopped => alive /\ loop_

(* When the destructor has returned, the thread it started is gone, so      *)
(* nothing uses the members of the destroyed object, unless user code has   *)
(* stopped the loop: then the thread may have cleared the pointer and still *)
(* be destroying the loop when the destructor returns.                      *)
NoThreadOutlivesObject ==
  caller = "end" /\ started_ /\ ~stopped => thread = "exited" /\ ~alive

(* A functor handed over with the loop of startLoop() is not lost before    *)
(* the destructor or user code stops the loop.                              *)
DroppedOnlyByDtor ==
  dropped # <<>> =>
    stopped \/ caller \in {"wakeup", "join", "joining", "end", "undefined"}

(* Whoever reads a pointer that is not null finds a loop behind it, also    *)
(* when others stop the loop: threadFunc() clears the pointer first.        *)
PublishedIsLive == loop_ => alive

(* startLoop() returns: the notification cannot be missed.  The exception   *)
(* is a loop that its own callbacks stop first: loop_ is null again.        *)
StartReturns == (caller = "sem_wait") ~> (caller = "using" \/ stopped)

(* Once loop() is entered, the destructor stops it and returns, or touches  *)
(* the loop once more after the thread has destroyed it.                    *)
DtorReturnsOnceLooping ==
  (caller = "dtor" /\ thread = "looping") ~> (caller \in {"end", "undefined"})

(* What eventloop_thread.h:21 says: "The destructor will set exiting_ to    *)
(* true and call thread_'s quit() to stop the loop thread."                 *)
DtorReturns ==
  (caller = "dtor") ~> (caller \in {"end", "undefined"} \/ stopped)

(* What eventloop.h:30 says of quit(): "if the current thread is not a      *)
(* event loop thread, wake the event loop thread up"; there is a loop to    *)
(* wake up when nobody else stops it.                                       *)
QuitFindsLoop == caller = "undefined" => stopped
=============================================================================
