---------------------------- MODULE SerialExecutor ---------------------------
(****************************************************************************)
(* What an event loop promises the threads that hand it functors, without   *)
(* the vectors, the eventfd and the flags: submitted functors are executed  *)
(* one at a time, in the order of submission, each once.  Closing the       *)
(* executor drops what has not been executed.                               *)
(****************************************************************************)
EXTENDS Sequences

CONSTANT Functors

VARIABLES
  open,       \* functors may be submitted
  waiting,    \* submitted, not executed yet
  busy,       \* a functor is being executed
  executed    \* in the order of execution, the current one included

svars == <<open, waiting, busy, executed>>

Init == open = FALSE /\ waiting = <<>> /\ busy = FALSE /\ executed = <<>>

Open ==
  /\ ~open
  /\ open' = TRUE
  /\ UNCHANGED <<waiting, busy, executed>>

Submit(f) ==
  /\ open
  /\ waiting' = Append(waiting, f)
  /\ UNCHANGED <<open, busy, executed>>

Begin ==
  /\ open
  /\ ~busy
  /\ waiting # <<>>
  /\ executed' = Append(executed, Head(waiting))
  /\ waiting' = Tail(waiting)
  /\ busy' = TRUE
  /\ UNCHANGED open

End ==
  /\ busy
  /\ busy' = FALSE
  /\ UNCHANGED <<open, waiting, executed>>

Close ==
  /\ open
  /\ ~busy
  /\ open' = FALSE
  /\ waiting' = <<>>
  /\ UNCHANGED <<busy, executed>>

Next == Open \/ (\E f \in Functors : Submit(f)) \/ Begin \/ End \/ Close

Spec == Init /\ [][Next]_svars
=============================================================================
