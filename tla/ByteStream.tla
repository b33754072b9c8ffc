------------------------------ MODULE ByteStream ------------------------------
(****************************************************************************)
(* What the sending side of a connection promises: a stream of bytes,       *)
(* numbered as they are taken.  They are delivered in that order, without   *)
(* gaps or repetitions; the end of the stream comes after all that was      *)
(* taken before it, unless the connection was closed or a byte failed to be *)
(* sent; and nothing follows the end.                                       *)
(****************************************************************************)
EXTENDS Naturals, Sequences

CONSTANT Lengths      \* how many bytes are taken at a time

VARIABLES
  taken,              \* number of bytes
  delivered,
  failed,             \* the connection was closed or a byte was lost
  finished

streamVars == <<taken, delivered, failed, finished>>

StreamInit ==
  /\ taken = 0 /\ delivered = <<>>
  /\ failed = FALSE /\ finished = FALSE

(* Some of what has been taken is delivered.                                *)
Delivery ==
  /\ \E n \in Len(delivered) .. taken' : delivered' = [i \in 1 .. n |-> i]
  /\ finished => delivered' = delivered

Take ==
  /\ \E len \in Lengths : taken' = taken + len
  /\ Delivery
  /\ failed' \in {failed, TRUE}
  /\ UNCHANGED finished

(* The last byte may be delivered along with the end.                       *)
Deliver ==
  /\ UNCHANGED <<taken, failed>>
  /\ Delivery
  /\ finished' \in {finished, TRUE}
  /\ finished' # finished => failed \/ Len(delivered') = taken

Fail ==
  /\ failed' = TRUE
  /\ UNCHANGED <<taken, delivered, finished>>

StreamNext == Take \/ Deliver \/ Fail

StreamSpec == StreamInit /\ [][StreamNext]_streamVars
=============================================================================
