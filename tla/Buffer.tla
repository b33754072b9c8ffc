------------------------------- MODULE Buffer --------------------------------
(****************************************************************************)
(* Buffer (src/src/buffer.cc, buffer.h): the bytes of a connection on their *)
(* way in (read() from the socket, get() by the user) or out (put() by      *)
(* send(), write() to the socket and pushState()).                          *)
(*                                                                          *)
(* The bytes of the stream are numbered 1, 2, 3, ... in the order they      *)
(* enter the buffer; 0 stands for a byte that is not of the stream.  Two    *)
(* things of the C++ library are external: std::vector<char>, whose         *)
(* resize() beyond the capacity allocates size + max(size, growth) bytes    *)
(* and copies the first size ones, and readv().                             *)
(****************************************************************************)
EXTENDS Integers

CONSTANTS
  kInitialSize,    \* 1024 in the code
  ExtraSize,       \* sizeof extrabuf, 65536 in the code
  MaxBytes         \* bound: how many bytes enter the buffer

ASSUME SizesAssumption ==
  kInitialSize \in Nat /\ ExtraSize \in Nat /\ MaxBytes \in Nat

VARIABLES
  use,            \* "input" or "output", for good
  mem,            \* the memory of buffer_, up to its capacity
  size,           \* buffer_.size()
  capacity,       \* buffer_.capacity()
  read_index_,
  write_index_,
  in,             \* history: number of bytes that entered
  out,            \* history: number of bytes that left
  overflows       \* history: operations that met a full buffer, up to 2

state == <<mem, size, capacity, read_index_, write_index_>>
vars == <<use, state, in, out, overflows>>

(* Every variable stays in its type.                                        *)
TypeOK ==
  /\ use \in {"input", "output"}
  /\ size \in Nat
  /\ capacity \in Nat
  /\ mem \in [0 .. capacity - 1 -> 0 .. MaxBytes]
  /\ read_index_ \in Nat
  /\ write_index_ \in Nat
  /\ in \in 0 .. MaxBytes
  /\ out \in 0 .. MaxBytes
  /\ overflows \in 0 .. 2

KCheapPrepend == 0

Init ==
  /\ use \in {"input", "output"}
  /\ size = KCheapPrepend + kInitialSize
  /\ capacity = size
  /\ mem = [i \in 0 .. size - 1 |-> 0]
  /\ read_index_ = KCheapPrepend
  /\ write_index_ = KCheapPrepend
  /\ in = 0
  /\ out = 0
  /\ overflows = 0

readableBytes == write_index_ - read_index_
writableBytes == capacity - write_index_
prependableBytes == read_index_

Larger(a, b) == IF a < b THEN b ELSE a

-----------------------------------------------------------------------------
(* A buffer is a record of the five members; the operations below are       *)
(* functions on it, so that read() can call put().                          *)
this == [mem |-> mem, size |-> size, capacity |-> capacity,
         r |-> read_index_, w |-> write_index_]

(* n bytes of the stream, first + 1 and on, are copied to position w.       *)
Filled(m, w, n, first) ==
  [i \in DOMAIN m |-> IF w <= i /\ i < w + n THEN first + 1 + (i - w) ELSE m[i]]

(* buffer_.resize(n) for n > capacity.                                      *)
Resized(b, n) ==
  LET new == b.size + Larger(b.size, n - b.size) IN
  [b EXCEPT !.mem = [i \in 0 .. new - 1 |-> IF i < b.size THEN b.mem[i] ELSE 0],
            !.size = n,
            !.capacity = new]

(* Mutant: the indices move and the bytes do not.                           *)
Moved_NoCopy(b) ==
  [b EXCEPT !.r = KCheapPrepend, !.w = KCheapPrepend + (b.w - b.r)]

(* The readable bytes are moved to the front.                               *)
Moved(b) ==
  LET readable == b.w - b.r IN
  [b EXCEPT !.mem = [i \in DOMAIN b.mem |->
                       IF KCheapPrepend <= i /\ i < KCheapPrepend + readable
                       THEN b.mem[b.r + (i - KCheapPrepend)] ELSE b.mem[i]],
            !.r = KCheapPrepend,
            !.w = KCheapPrepend + readable]

makeSpace(b, len) ==
  IF (b.capacity - b.w) + b.r < len + KCheapPrepend
  THEN Resized(b, b.w + len) ELSE Moved(b)

(* Mutant: off by one.                                                      *)
checkBuffer_OffByOne(b, len) ==
  IF b.capacity - b.w + 1 < len THEN makeSpace(b, len) ELSE b

checkBuffer(b, len) == IF b.capacity - b.w < len THEN makeSpace(b, len) ELSE b

(* put() of the len bytes that follow first.                                *)
put(b, len, first) ==
  LET c == checkBuffer(b, len) IN
  [c EXCEPT !.mem = Filled(c.mem, c.w, len, first), !.w = c.w + len]

(* Mutant: an emptied buffer keeps its write index.                         *)
pushState_NoReset(b, len) ==
  [b EXCEPT !.r = IF len < b.w - b.r THEN b.r + len ELSE KCheapPrepend]

(* Mutant: the read index moves the wrong way.                              *)
pushState_Backwards(b, len) == [b EXCEPT !.r = b.r - len]

pushState(b, len) ==
  IF len < b.w - b.r THEN [b EXCEPT !.r = b.r + len]
  ELSE [b EXCEPT !.r = KCheapPrepend, !.w = KCheapPrepend]

(* read() of n bytes: readv() fills what is writable and then extrabuf.     *)
read(b, n, first) ==
  LET writable == b.capacity - b.w
      length == IF n < writable THEN n ELSE writable
      direct == [b EXCEPT !.mem = Filled(b.mem, b.w, length, first)]
  IN IF n <= writable THEN [direct EXCEPT !.w = b.w + n]
     ELSE put([direct EXCEPT !.w = b.size], n - writable, first + writable)

Becomes(b) ==
  /\ mem' = b.mem
  /\ size' = b.size
  /\ capacity' = b.capacity
  /\ read_index_' = b.r
  /\ write_index_' = b.w

Overflow(full) ==
  overflows' = IF full /\ overflows < 2 THEN overflows + 1 ELSE overflows

-----------------------------------------------------------------------------
(* send() puts what the socket did not take.                                *)
Put(len) ==
  /\ use = "output"
  /\ in + len <= MaxBytes
  /\ Becomes(put(this, len, in))
  /\ in' = in + len
  /\ Overflow(writableBytes + prependableBytes < len + KCheapPrepend)
  /\ UNCHANGED <<use, out>>

(* handleWrite(): write() hands n bytes to the socket, pushState(n).        *)
Write(n) ==
  /\ use = "output"
  /\ n <= readableBytes
  /\ Becomes(pushState(this, n))
  /\ out' = out + n
  /\ UNCHANGED <<use, in, overflows>>

(* read() from the socket.                                                  *)
Read(n) ==
  /\ use = "input"
  /\ in + n <= MaxBytes
  /\ n <= writableBytes + (IF writableBytes < ExtraSize THEN ExtraSize ELSE 0)
  /\ Becomes(read(this, n, in))
  /\ in' = in + n
  /\ Overflow(n > writableBytes)
  /\ UNCHANGED <<use, out>>

(* get() and getAll() by the user, for at most the readable bytes.          *)
Get(n) ==
  /\ use = "input"
  /\ n <= readableBytes
  /\ Becomes(pushState(this, n))
  /\ out' = out + n
  /\ UNCHANGED <<use, in, overflows>>

(* Bound: behaviours end where write_index_ - read_index_ would wrap; the   *)
(* length is wrong before that.                                             *)
Next ==
  /\ read_index_ <= write_index_
  /\ \E n \in 1 .. MaxBytes : Put(n) \/ Write(n) \/ Read(n) \/ Get(n)

Spec == Init /\ [][Next]_vars

-----------------------------------------------------------------------------
(* Properties.                                                              *)

(* No operation on an output buffer leaves the indices outside the memory   *)
(* or crossed.                                                              *)
IndicesInOrder ==
  use = "output" =>
    read_index_ <= write_index_ /\ write_index_ <= capacity /\ size <= capacity

Length == readableBytes = in - out

(* What is readable in an output buffer is as long as what was put and not  *)
(* yet written.                                                             *)
LengthExact == use = "output" => Length

(* What is readable is what entered and has not left, in order.             *)
ContentIntact ==
  /\ Length
  /\ \A i \in 0 .. readableBytes - 1 : mem[read_index_ + i] = out + 1 + i

(* The content is right, whether put() or read() brought it in, as long as  *)
(* the buffer has been full at most once.                                   *)
IntactUntilRegrown == overflows <= 1 => ContentIntact

(* What buffer.h:49 and 52 say, "Put data into the buffer." and "Get data   *)
(* from buffer.": what was put is what comes out.                           *)
PutKeepsContent == use = "output" => ContentIntact
=============================================================================
