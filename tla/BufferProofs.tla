---------------------------- MODULE BufferProofs -----------------------------
(****************************************************************************)
(* Proofs about Buffer, for every initial size and every amount of data:    *)
(* first the bounds of an output buffer, then the content of both kinds.    *)
(****************************************************************************)
EXTENDS Buffer, TLAPS

(* The inductive invariant of an output buffer: the indices are naturals in *)
(* order within the capacity and their distance counts the bytes.           *)
Bounds ==
  /\ size \in Nat /\ capacity \in Nat
  /\ read_index_ \in Nat /\ write_index_ \in Nat
  /\ in \in Nat /\ out \in Nat
  /\ read_index_ <= write_index_ /\ write_index_ <= capacity /\ size <= capacity
  /\ Length

LEMMA InitBounds == Init => Bounds
  BY SizesAssumption
  DEF Init, Bounds, Length, readableBytes, KCheapPrepend

(* put() leaves the read index below the write index, the write index       *)
(* within the capacity, and len more bytes to read; so it never writes      *)
(* outside the memory of the vector.                                        *)
LEMMA PutFits ==
  ASSUME Bounds, NEW len \in Nat
  PROVE  LET b == put(this, len, in)
         IN  /\ b.size \in Nat /\ b.capacity \in Nat /\ b.r \in Nat /\ b.w \in Nat
             /\ b.size <= b.capacity /\ b.w <= b.capacity
             /\ b.w - b.r = (write_index_ - read_index_) + len
<1> DEFINE s == size
           c == capacity
           r == read_index_
           w == write_index_
           b == put(this, len, in)
           d == checkBuffer(this, len)
<1>0. /\ s \in Nat /\ c \in Nat /\ r \in Nat /\ w \in Nat
      /\ s <= c /\ r <= w /\ w <= c
  BY DEF Bounds
<1>1. /\ b.size = d.size /\ b.capacity = d.capacity
      /\ b.r = d.r /\ b.w = d.w + len
  BY DEF put
<1>2. /\ d.size \in Nat /\ d.capacity \in Nat /\ d.r \in Nat /\ d.w \in Nat
      /\ d.size <= d.capacity /\ d.w + len <= d.capacity
      /\ d.w - d.r = w - r
  <2>1. CASE ~(c - w < len)
    BY <1>0, <2>1 DEF checkBuffer, this
  <2>2. CASE c - w < len /\ (c - w) + r < len + KCheapPrepend
    <3>1. d = Resized(this, w + len)
      BY <2>2 DEF checkBuffer, makeSpace, this
    <3>2. /\ d.size = w + len /\ d.r = r /\ d.w = w
          /\ d.capacity = s + Larger(s, (w + len) - s)
      BY <3>1 DEF Resized, this
    <3> HIDE DEF d
    <3> QED
      BY <1>0, <2>2, <3>2 DEF Larger
  <2>3. CASE c - w < len /\ ~((c - w) + r < len + KCheapPrepend)
    <3>1. d = Moved(this)
      BY <2>3 DEF checkBuffer, makeSpace, this
    <3>2. /\ d.size = s /\ d.capacity = c /\ d.r = KCheapPrepend
          /\ d.w = KCheapPrepend + (w - r)
      BY <3>1 DEF Moved, this
    <3> HIDE DEF d
    <3> QED
      BY <1>0, <2>3, <3>2 DEF KCheapPrepend
  <2> QED
    BY <2>1, <2>2, <2>3
<1> HIDE DEF d, b
<1>3. /\ b.size \in Nat /\ b.capacity \in Nat /\ b.r \in Nat /\ b.w \in Nat
      /\ b.size <= b.capacity /\ b.w <= b.capacity
      /\ b.w - b.r = (w - r) + len
  BY <1>0, <1>1, <1>2
<1> QED
  BY <1>3 DEF b

(* Every step of an output buffer keeps the bounds.                         *)
LEMMA NextBounds == use = "output" /\ Bounds /\ [Next]_vars => Bounds'
<1> SUFFICES ASSUME use = "output", Bounds, [Next]_vars PROVE Bounds'
  OBVIOUS
<1> USE DEF Bounds, Length, readableBytes
<1>1. ASSUME NEW n \in 1 .. MaxBytes, Put(n)
      PROVE  Bounds'
  <2> DEFINE b == put(this, n, in)
  <2>1. /\ b.size \in Nat /\ b.capacity \in Nat /\ b.r \in Nat /\ b.w \in Nat
        /\ b.size <= b.capacity /\ b.w <= b.capacity
        /\ b.w - b.r = (write_index_ - read_index_) + n
    <3>1. n \in Nat
      BY SizesAssumption
    <3> QED
      BY <3>1, PutFits, Zenon
  <2>2. /\ size' = b.size /\ capacity' = b.capacity
        /\ read_index_' = b.r /\ write_index_' = b.w
        /\ in' = in + n /\ out' = out
    BY <1>1 DEF Put, Becomes
  <2> HIDE DEF b
  <2> QED
    BY <2>1, <2>2
<1>2. ASSUME NEW n \in 1 .. MaxBytes, Write(n)
      PROVE  Bounds'
  <2> DEFINE b == pushState(this, n)
  <2>1. /\ size' = b.size /\ capacity' = b.capacity
        /\ read_index_' = b.r /\ write_index_' = b.w
        /\ in' = in /\ out' = out + n
        /\ n <= write_index_ - read_index_
    BY <1>2 DEF Write, Becomes
  <2>2. /\ b.size = size /\ b.capacity = capacity
        /\ b.r = IF n < write_index_ - read_index_ THEN read_index_ + n ELSE 0
        /\ b.w = IF n < write_index_ - read_index_ THEN write_index_ ELSE 0
    BY DEF pushState, this, KCheapPrepend
  <2> HIDE DEF b
  <2> QED
    BY <2>1, <2>2, SizesAssumption
<1>3. CASE UNCHANGED vars
  BY <1>3 DEF vars, state
<1> QED
  BY <1>1, <1>2, <1>3 DEF Next, Read, Get

(* A buffer is used one way for good, so the bounds are an invariant.       *)
LEMMA BoundsInvariant == Spec => [](use = "output" => Bounds)
<1>1. use' = use \/ ~[Next]_vars
  BY DEF Next, Put, Write, Read, Get, vars
<1>2. (use = "output" => Bounds) /\ [Next]_vars => (use = "output" => Bounds)'
  BY <1>1, NextBounds
<1> QED
  BY <1>2, InitBounds, PTL DEF Spec

(* Whatever its initial size and whatever is put and written, an output     *)
(* buffer never writes outside its memory nor crosses its indices.          *)
THEOREM OutputInBounds == Spec => []IndicesInOrder
<1>1. (use = "output" => Bounds) => IndicesInOrder
  BY DEF Bounds, IndicesInOrder
<1> QED
  BY <1>1, BoundsInvariant, PTL

(* An output buffer always holds as many bytes as were put and not yet      *)
(* written.                                                                 *)
THEOREM OutputLength == Spec => []LengthExact
<1>1. (use = "output" => Bounds) => LengthExact
  BY DEF Bounds, LengthExact
<1> QED
  BY <1>1, BoundsInvariant, PTL

-----------------------------------------------------------------------------
(* Content.  The operations on a buffer given by its five members.          *)

Buf(m, s, c, r, w) == [mem |-> m, size |-> s, capacity |-> c, r |-> r, w |-> w]

LEMMA BufMembers ==
  ASSUME NEW m, NEW s, NEW c, NEW r, NEW w
  PROVE  LET b == Buf(m, s, c, r, w) IN
         b.mem = m /\ b.size = s /\ b.capacity = c /\ b.r = r /\ b.w = w
  BY DEF Buf

(* Updates of several members.                                              *)
SetStorage(b, m, s, c) == [b EXCEPT !.mem = m, !.size = s, !.capacity = c]

LEMMA UpdateStorage ==
  ASSUME NEW m, NEW s, NEW c, NEW r, NEW w, NEW m2, NEW s2, NEW c2
  PROVE  SetStorage(Buf(m, s, c, r, w), m2, s2, c2)
           = Buf(m2, s2, c2, r, w)
<1>1. [Buf(m, s, c, r, w) EXCEPT !.mem = m2] = Buf(m2, s, c, r, w)
  BY DEF Buf
<1>2. [Buf(m2, s, c, r, w) EXCEPT !.size = s2] = Buf(m2, s2, c, r, w)
  BY DEF Buf
<1>3. [Buf(m2, s2, c, r, w) EXCEPT !.capacity = c2] = Buf(m2, s2, c2, r, w)
  BY DEF Buf
<1>4. [Buf(m, s, c, r, w) EXCEPT !.mem = m2, !.size = s2, !.capacity = c2]
      = [[[Buf(m, s, c, r, w) EXCEPT !.mem = m2] EXCEPT !.size = s2] EXCEPT !.capacity = c2]
  OBVIOUS
<1>5. [[Buf(m, s, c, r, w) EXCEPT !.mem = m2] EXCEPT !.size = s2]
      = [Buf(m2, s, c, r, w) EXCEPT !.size = s2]
  BY <1>1, Zenon
<1>6. [[Buf(m, s, c, r, w) EXCEPT !.mem = m2] EXCEPT !.size = s2] = Buf(m2, s2, c, r, w)
  BY <1>2, <1>5, Zenon
<1>7. [[[Buf(m, s, c, r, w) EXCEPT !.mem = m2] EXCEPT !.size = s2] EXCEPT !.capacity = c2]
      = [Buf(m2, s2, c, r, w) EXCEPT !.capacity = c2]
  BY <1>6, Zenon
<1> QED
  BY <1>3, <1>4, <1>7, Zenon DEF SetStorage

SetBytes(b, m, r, w) == [b EXCEPT !.mem = m, !.r = r, !.w = w]

LEMMA UpdateBytes ==
  ASSUME NEW m, NEW s, NEW c, NEW r, NEW w, NEW m2, NEW r2, NEW w2
  PROVE  SetBytes(Buf(m, s, c, r, w), m2, r2, w2)
           = Buf(m2, s, c, r2, w2)
<1>1. [Buf(m, s, c, r, w) EXCEPT !.mem = m2] = Buf(m2, s, c, r, w)
  BY DEF Buf
<1>2. [Buf(m2, s, c, r, w) EXCEPT !.r = r2] = Buf(m2, s, c, r2, w)
  BY DEF Buf
<1>3. [Buf(m2, s, c, r2, w) EXCEPT !.w = w2] = Buf(m2, s, c, r2, w2)
  BY DEF Buf
<1>4. [Buf(m, s, c, r, w) EXCEPT !.mem = m2, !.r = r2, !.w = w2]
      = [[[Buf(m, s, c, r, w) EXCEPT !.mem = m2] EXCEPT !.r = r2] EXCEPT !.w = w2]
  OBVIOUS
<1>5. [[Buf(m, s, c, r, w) EXCEPT !.mem = m2] EXCEPT !.r = r2]
      = [Buf(m2, s, c, r, w) EXCEPT !.r = r2]
  BY <1>1, Zenon
<1>6. [[Buf(m, s, c, r, w) EXCEPT !.mem = m2] EXCEPT !.r = r2] = Buf(m2, s, c, r2, w)
  BY <1>2, <1>5, Zenon
<1>7. [[[Buf(m, s, c, r, w) EXCEPT !.mem = m2] EXCEPT !.r = r2] EXCEPT !.w = w2]
      = [Buf(m2, s, c, r2, w) EXCEPT !.w = w2]
  BY <1>6, Zenon
<1> QED
  BY <1>3, <1>4, <1>7, Zenon DEF SetBytes

SetEnd(b, m, w) == [b EXCEPT !.mem = m, !.w = w]

LEMMA UpdateEnd ==
  ASSUME NEW m, NEW s, NEW c, NEW r, NEW w, NEW m2, NEW w2
  PROVE  SetEnd(Buf(m, s, c, r, w), m2, w2)
           = Buf(m2, s, c, r, w2)
<1>1. [Buf(m, s, c, r, w) EXCEPT !.mem = m2] = Buf(m2, s, c, r, w)
  BY DEF Buf
<1>2. [Buf(m2, s, c, r, w) EXCEPT !.w = w2] = Buf(m2, s, c, r, w2)
  BY DEF Buf
<1>3. [Buf(m, s, c, r, w) EXCEPT !.mem = m2, !.w = w2]
      = [[Buf(m, s, c, r, w) EXCEPT !.mem = m2] EXCEPT !.w = w2]
  OBVIOUS
<1>4. [[Buf(m, s, c, r, w) EXCEPT !.mem = m2] EXCEPT !.w = w2]
      = [Buf(m2, s, c, r, w) EXCEPT !.w = w2]
  BY <1>1, Zenon
<1> QED
  BY <1>2, <1>3, <1>4, Zenon DEF SetEnd

Memory(c) == [0 .. c - 1 -> 0 .. MaxBytes]

(* The indices lie in the memory; they may be crossed.                      *)
Inside(s, c, r, w) ==
  s \in Nat /\ c \in Nat /\ r \in Nat /\ w \in Int /\ s <= c /\ r <= c /\ w <= c

(* checkBuffer() makes room for len bytes.  It keeps the readable bytes     *)
(* unless it allocates while the vector counts fewer bytes than are in use. *)
LEMMA CheckKeeps ==
  ASSUME NEW s, NEW c, NEW r, NEW w \in Nat, Inside(s, c, r, w),
         NEW m \in Memory(c), NEW len \in Nat
  PROVE  \E m2, s2, c2, r2, w2 :
           /\ checkBuffer(Buf(m, s, c, r, w), len) = Buf(m2, s2, c2, r2, w2)
           /\ Inside(s2, c2, r2, w2) /\ m2 \in Memory(c2)
           /\ w2 - r2 = w - r /\ 0 <= w2 + len /\ w2 + len <= c2
           /\ ~((c - w) + r < len) => s2 = s /\ c2 = c
           /\ r <= w /\ ((c - w) + r < len => s = c) =>
                \A i \in 0 .. (w - r) - 1 : m2[r2 + i] = m[r + i]
<1> DEFINE b == Buf(m, s, c, r, w)
<1>0. /\ b.mem = m /\ b.size = s /\ b.capacity = c /\ b.r = r /\ b.w = w
  BY DEF Buf
<1>1. CASE ~(c - w < len)
  <2>1. checkBuffer(b, len) = Buf(m, s, c, r, w)
    BY <1>0, <1>1 DEF checkBuffer
  <2> QED
    BY <1>1, <2>1 DEF Inside
<1>2. CASE c - w < len /\ (c - w) + r < len
  <2> DEFINE n == w + len
             new == s + Larger(s, n - s)
             m2 == [i \in 0 .. new - 1 |-> IF i < s THEN m[i] ELSE 0]
  <2>1. checkBuffer(b, len) = Resized(b, n)
    BY <1>0, <1>2 DEF checkBuffer, makeSpace, KCheapPrepend, Inside
  <2>2. Resized(b, n) = Buf(m2, n, new, r, w)
    <3>1. Resized(b, n) = SetStorage(b, m2, n, new)
      BY <1>0 DEF Resized, SetStorage
    <3> HIDE DEF m2, n, new
    <3> QED
      BY <3>1, UpdateStorage
  <2>3. new \in Nat /\ n \in Nat /\ n <= new /\ c < n
    BY <1>2 DEF Inside, Larger
  <2>4. m2 \in Memory(new)
    BY <2>3, SizesAssumption DEF Memory, Inside
  <2>5. r <= w /\ s = c => \A i \in 0 .. (w - r) - 1 : m2[r + i] = m[r + i]
    BY <2>3 DEF Inside
  <2>6. Inside(n, new, r, w)
    BY <2>3 DEF Inside
  <2> HIDE DEF new, n, m2
  <2>7. /\ w - r = w - r /\ 0 <= w + len /\ w + len <= new
    BY <2>3 DEF n
  <2> QED
    BY <1>2, <2>1, <2>2, <2>4, <2>5, <2>6, <2>7
<1>3. CASE c - w < len /\ ~((c - w) + r < len)
  <2> DEFINE m2 == [i \in DOMAIN m |-> IF 0 <= i /\ i < w - r THEN m[r + i] ELSE m[i]]
  <2>1. checkBuffer(b, len) = Moved(b)
    BY <1>0, <1>3 DEF checkBuffer, makeSpace, KCheapPrepend, Inside
  <2>2. Moved(b) = Buf(m2, s, c, 0, w - r)
    <3>1. Moved(b) = SetBytes(b, m2, 0, w - r)
      <4>1. 0 + (w - r) = w - r /\ \A i \in DOMAIN m : i - 0 = i /\ (i < 0 + (w - r) <=> i < w - r)
        BY DEF Memory, Inside
      <4>2. [i \in DOMAIN b.mem |-> IF 0 <= i /\ i < 0 + (b.w - b.r)
                                   THEN b.mem[b.r + (i - 0)] ELSE b.mem[i]] = m2
        BY <1>0, <4>1
      <4> HIDE DEF m2, b
      <4> QED
        BY <1>0, <4>1, <4>2 DEF Moved, KCheapPrepend, SetBytes
    <3> HIDE DEF m2
    <3> QED
      BY <3>1, UpdateBytes
  <2>3. m2 \in Memory(c)
    BY DEF Memory, Inside
  <2>4. \A i \in 0 .. (w - r) - 1 : m2[0 + i] = m[r + i]
    BY DEF Memory, Inside
  <2>5. /\ Inside(s, c, 0, w - r) /\ (w - r) - 0 = w - r
        /\ 0 <= (w - r) + len /\ (w - r) + len <= c
    BY <1>3 DEF Inside
  <2> HIDE DEF m2
  <2> QED
    BY <1>3, <2>1, <2>2, <2>3, <2>4, <2>5
<1> QED
  BY <1>1, <1>2, <1>3

(* The readable bytes are those of the stream that follow lo.               *)
Stored(m, r, w, lo) == \A i \in 0 .. (w - r) - 1 : m[r + i] = lo + 1 + i

(* What put() makes of a buffer: len bytes longer, and what was stored      *)
(* stays so unless put() allocates while size() is below the capacity.      *)
Appended(m, s, c, r, w, len, first) ==
  \E m2, s2, c2, r2, w2 :
    /\ put(Buf(m, s, c, r, w), len, first) = Buf(m2, s2, c2, r2, w2)
    /\ Inside(s2, c2, r2, w2) /\ m2 \in Memory(c2) /\ w2 \in Nat
    /\ w2 - r2 = (w - r) + len
    /\ ~((c - w) + r < len) => s2 = s /\ c2 = c
    /\ r <= w /\ ((c - w) + r < len => s = c) =>
         \A lo \in Nat : Stored(m, r, w, lo) /\ first = lo + (w - r) =>
                           Stored(m2, r2, w2, lo)

LEMMA PutKeeps ==
  ASSUME NEW s, NEW c, NEW r, NEW w \in Nat, Inside(s, c, r, w),
         NEW m \in Memory(c), NEW len \in Nat, NEW first \in Nat,
         first + len <= MaxBytes
  PROVE  Appended(m, s, c, r, w, len, first)
<1>1. PICK m1, s1, c1, r1, w1 :
           /\ checkBuffer(Buf(m, s, c, r, w), len) = Buf(m1, s1, c1, r1, w1)
           /\ Inside(s1, c1, r1, w1) /\ m1 \in Memory(c1)
           /\ w1 - r1 = w - r /\ 0 <= w1 + len /\ w1 + len <= c1
           /\ ~((c - w) + r < len) => s1 = s /\ c1 = c
           /\ r <= w /\ ((c - w) + r < len => s = c) =>
                \A i \in 0 .. (w - r) - 1 : m1[r1 + i] = m[r + i]
  BY CheckKeeps
<1> DEFINE m2 == [i \in 0 .. c1 - 1 |->
                    IF w1 <= i /\ i < w1 + len THEN first + 1 + (i - w1) ELSE m1[i]]
<1>2. put(Buf(m, s, c, r, w), len, first) = Buf(m2, s1, c1, r1, w1 + len)
  <2>1. DOMAIN m1 = 0 .. c1 - 1
    BY <1>1 DEF Memory
  <2>2. Filled(m1, w1, len, first) = m2
    BY <2>1 DEF Filled
  <2> HIDE DEF m2
  <2> QED
    <3> DEFINE d == Buf(m1, s1, c1, r1, w1)
    <3>1. put(Buf(m, s, c, r, w), len, first) = SetEnd(d, m2, w1 + len)
      <4>1. d.mem = m1 /\ d.w = w1
        BY BufMembers
      <4> HIDE DEF d
      <4>2. checkBuffer(Buf(m, s, c, r, w), len) = d
        BY <1>1 DEF d
      <4> QED
        BY <2>2, <4>1, <4>2 DEF put, SetEnd
    <3> QED
      BY <3>1, UpdateEnd
<1>3. /\ s1 \in Nat /\ c1 \in Nat /\ r1 \in Nat /\ w1 \in Int
      /\ s1 <= c1 /\ r1 <= c1 /\ w1 <= c1 /\ r \in Nat
  BY <1>1 DEF Inside
<1>4. m2 \in Memory(c1)
  <2> SUFFICES ASSUME NEW i \in 0 .. c1 - 1 PROVE m2[i] \in 0 .. MaxBytes
    BY DEF Memory
  <2>1. m1[i] \in 0 .. MaxBytes
    BY <1>1 DEF Memory
  <2> QED
    BY <1>3, <2>1, SizesAssumption
<1>5. /\ Inside(s1, c1, r1, w1 + len) /\ w1 + len \in Nat
      /\ (w1 + len) - r1 = (w - r) + len
  BY <1>1, <1>3 DEF Inside
<1>6. ASSUME r <= w, (c - w) + r < len => s = c, NEW lo \in Nat,
             Stored(m, r, w, lo), first = lo + (w - r)
      PROVE  Stored(m2, r1, w1 + len, lo)
  <2> SUFFICES ASSUME NEW i \in 0 .. ((w1 + len) - r1) - 1
               PROVE  m2[r1 + i] = lo + 1 + i
    BY DEF Stored
  <2>1. r1 + i \in 0 .. c1 - 1 /\ w1 = r1 + (w - r)
    BY <1>1, <1>3
  <2>2. CASE i < w - r
    <3>1. i \in 0 .. (w - r) - 1
      BY <1>3, <2>2
    <3>2. m1[r1 + i] = lo + 1 + i
      BY <1>1, <1>6, <3>1 DEF Stored
    <3>3. ~(w1 <= r1 + i)
      BY <1>3, <2>1, <2>2
    <3> QED
      BY <2>1, <3>2, <3>3
  <2>3. CASE ~(i < w - r)
    <3>1. w1 <= r1 + i /\ r1 + i < w1 + len
      BY <1>3, <2>1, <2>3
    <3>2. first + 1 + ((r1 + i) - w1) = lo + 1 + i
      BY <1>3, <1>6, <2>1
    <3> QED
      BY <2>1, <3>1, <3>2
  <2> QED
    BY <2>2, <2>3
<1> HIDE DEF m2
<1> QED
  BY <1>1, <1>2, <1>4, <1>5, <1>6 DEF Appended

(* Bytes written straight into the writable part by readv().                *)
LEMMA FillKeeps ==
  ASSUME NEW c \in Nat, NEW r \in Nat, NEW w \in Nat, r <= w, w <= c,
         NEW m \in Memory(c), NEW first \in Nat, first + (c - w) <= MaxBytes
  PROVE  /\ Filled(m, w, c - w, first) \in Memory(c)
         /\ \A lo \in Nat : Stored(m, r, w, lo) /\ first = lo + (w - r) =>
                              Stored(Filled(m, w, c - w, first), r, c, lo)
<1> DEFINE m2 == Filled(m, w, c - w, first)
<1>1. \A i \in 0 .. c - 1 : m2[i] = IF w <= i THEN first + 1 + (i - w) ELSE m[i]
  BY DEF Filled, Memory
<1>2. m2 \in Memory(c)
  <2>1. m2 = [i \in 0 .. c - 1 |-> m2[i]]
    BY DEF Filled, Memory
  <2>2. ASSUME NEW i \in 0 .. c - 1 PROVE m2[i] \in 0 .. MaxBytes
    <3>1. m[i] \in 0 .. MaxBytes
      BY DEF Memory
    <3> HIDE DEF m2
    <3> QED
      BY <1>1, <3>1, SizesAssumption
  <2> HIDE DEF m2
  <2> QED
    BY <2>1, <2>2 DEF Memory
<1> HIDE DEF m2
<1>3. ASSUME NEW lo \in Nat, Stored(m, r, w, lo), first = lo + (w - r)
      PROVE  Stored(m2, r, c, lo)
  <2> SUFFICES ASSUME NEW i \in 0 .. (c - r) - 1 PROVE m2[r + i] = lo + 1 + i
    BY DEF Stored
  <2>1. r + i \in 0 .. c - 1
    OBVIOUS
  <2>2. CASE w <= r + i
    BY <1>1, <1>3, <2>1, <2>2
  <2>3. CASE ~(w <= r + i)
    <3>1. i \in 0 .. (w - r) - 1
      BY <2>3
    <3>2. m[r + i] = lo + 1 + i
      BY <1>3, <3>1 DEF Stored
    <3> QED
      BY <1>1, <2>1, <2>3, <3>2
  <2> QED
    BY <2>2, <2>3
<1> QED
  BY <1>2, <1>3 DEF m2

(* The inductive invariant of both kinds of buffer.  The indices stay in    *)
(* the memory and the buffer never counts more bytes than there are.  Until *)
(* it grows, size() and capacity() agree, so the first growth copies all;   *)
(* afterwards they do not, and the content is only known until the next.    *)
Content ==
  /\ TypeOK
  /\ size <= capacity /\ write_index_ <= capacity /\ read_index_ <= capacity
  /\ readableBytes <= in - out
  /\ overflows = 0 => size = capacity
  /\ overflows <= 1 => /\ read_index_ <= write_index_ /\ Length
                       /\ Stored(mem, read_index_, write_index_, out)

LEMMA InitContent == Init => Content
<1> SUFFICES ASSUME Init PROVE Content
  OBVIOUS
<1>1. size \in Nat /\ capacity = size /\ mem = [i \in 0 .. size - 1 |-> 0]
  BY SizesAssumption DEF Init, KCheapPrepend
<1>2. mem \in [0 .. capacity - 1 -> 0 .. MaxBytes]
  BY <1>1, SizesAssumption
<1>3. TypeOK
  BY <1>1, <1>2, SizesAssumption DEF Init, TypeOK, KCheapPrepend
<1> QED
  BY <1>1, <1>3
  DEF Init, Content, Length, Stored, readableBytes, KCheapPrepend

(* What the members are before a step.                                      *)
LEMMA ContentMembers ==
  ASSUME Content
  PROVE  /\ this = Buf(mem, size, capacity, read_index_, write_index_)
         /\ Inside(size, capacity, read_index_, write_index_)
         /\ mem \in Memory(capacity) /\ size \in Nat /\ capacity \in Nat
         /\ read_index_ \in Nat /\ write_index_ \in Nat
         /\ in \in Nat /\ out \in Nat /\ overflows \in 0 .. 2
         /\ use \in {"input", "output"} /\ out <= MaxBytes
  BY SizesAssumption DEF Content, TypeOK, this, Buf, Inside, Memory

(* A step that adds n bytes by put() with or without growth: put(), and     *)
(* read() of what is writable.                                              *)
LEMMA AddKeeps ==
  ASSUME Content, read_index_ <= write_index_, NEW n \in 1 .. MaxBytes,
         in + n <= MaxBytes, Becomes(put(this, n, in)), in' = in + n,
         Overflow((capacity - write_index_) + read_index_ < n), UNCHANGED <<use, out>>
  PROVE  Content'
<1> DEFINE s == size
           c == capacity
           r == read_index_
           w == write_index_
<1>0. /\ this = Buf(mem, s, c, r, w) /\ Inside(s, c, r, w)
      /\ mem \in Memory(c) /\ s \in Nat /\ c \in Nat /\ r \in Nat /\ w \in Nat
      /\ in \in Nat /\ out \in Nat /\ overflows \in 0 .. 2
      /\ use \in {"input", "output"} /\ out <= MaxBytes /\ n \in Nat
  BY ContentMembers, SizesAssumption
<1>a. Appended(mem, s, c, r, w, n, in)
  BY <1>0, PutKeeps
<1>1. PICK m2, s2, c2, r2, w2 :
           /\ put(Buf(mem, s, c, r, w), n, in) = Buf(m2, s2, c2, r2, w2)
           /\ Inside(s2, c2, r2, w2) /\ m2 \in Memory(c2) /\ w2 \in Nat
           /\ w2 - r2 = (w - r) + n
           /\ ~((c - w) + r < n) => s2 = s /\ c2 = c
           /\ r <= w /\ ((c - w) + r < n => s = c) =>
                \A lo \in Nat : Stored(mem, r, w, lo) /\ in = lo + (w - r) =>
                                  Stored(m2, r2, w2, lo)
  BY <1>a DEF Appended
<1>2. mem' = m2 /\ size' = s2 /\ capacity' = c2 /\ read_index_' = r2 /\ write_index_' = w2
  <2> DEFINE b == Buf(m2, s2, c2, r2, w2)
  <2>1. b.mem = m2 /\ b.size = s2 /\ b.capacity = c2 /\ b.r = r2 /\ b.w = w2
    BY BufMembers
  <2>2. put(this, n, in) = b
    BY <1>0, <1>1
  <2> HIDE DEF b
  <2> QED
    BY <2>1, <2>2 DEF Becomes
<1>3. /\ s2 \in Nat /\ c2 \in Nat /\ r2 \in Nat /\ w2 \in Nat
      /\ s2 <= c2 /\ r2 <= c2 /\ w2 <= c2 /\ w2 - r2 = (w - r) + n
  BY <1>1 DEF Inside
<1>4. /\ overflows' \in 0 .. 2
      /\ overflows' = 0 => overflows = 0 /\ ~((c - w) + r < n)
      /\ overflows' <= 1 => overflows <= 1 /\ ((c - w) + r < n => overflows = 0)
  BY <1>0 DEF Overflow
<1>5. TypeOK'
  <2>1. mem' \in [0 .. capacity' - 1 -> 0 .. MaxBytes]
    BY <1>1, <1>2 DEF Memory
  <2> QED
    BY <1>0, <1>2, <1>3, <1>4, <2>1 DEF TypeOK
<1>6. (readableBytes <= in - out)'
  BY <1>0, <1>2, <1>3 DEF Content, readableBytes
<1>7. overflows' = 0 => size' = capacity'
  BY <1>1, <1>2, <1>4 DEF Content
<1>8. ASSUME overflows' <= 1
      PROVE  /\ r2 <= w2 /\ w2 - r2 = (in + n) - out
             /\ Stored(m2, r2, w2, out)
  <2>1. w - r = in - out /\ Stored(mem, r, w, out) /\ ((c - w) + r < n => s = c)
    BY <1>4, <1>8 DEF Content, Length, readableBytes
  <2>2. in = out + (w - r)
    BY <1>0, <2>1
  <2>3. Stored(m2, r2, w2, out)
    BY <1>0, <1>1, <2>1, <2>2
  <2> QED
    BY <1>0, <1>3, <2>1, <2>3
<1> QED
  BY <1>2, <1>3, <1>5, <1>6, <1>7, <1>8 DEF Content, Length, readableBytes

(* pushState() drops n bytes from the front.                                *)
LEMMA DropKeeps ==
  ASSUME Content, read_index_ <= write_index_, NEW n \in 1 .. MaxBytes,
         n <= readableBytes, Becomes(pushState(this, n)), out' = out + n,
         UNCHANGED <<use, in, overflows>>
  PROVE  Content'
<1> DEFINE r == read_index_
           w == write_index_
<1>0. /\ mem \in Memory(capacity) /\ size \in Nat /\ capacity \in Nat
      /\ r \in Nat /\ w \in Nat /\ in \in Nat /\ out \in Nat
      /\ overflows \in 0 .. 2 /\ n \in Nat /\ in <= MaxBytes
  BY ContentMembers, SizesAssumption DEF Content, TypeOK
<1>1. /\ mem' = mem /\ size' = size /\ capacity' = capacity
      /\ read_index_' = IF n < w - r THEN r + n ELSE 0
      /\ write_index_' = IF n < w - r THEN w ELSE 0
  BY DEF Becomes, pushState, this, KCheapPrepend
<1>2. n <= w - r /\ w - r <= in - out
  BY DEF readableBytes, Content
<1>a. w <= capacity /\ in' = in /\ use' = use /\ overflows' = overflows /\ out' = out + n
  BY DEF Content
<1>b. out' \in 0 .. MaxBytes
  BY <1>0, <1>2, <1>a, SizesAssumption
<1>3. /\ read_index_' \in Nat /\ write_index_' \in Nat
      /\ write_index_' <= capacity /\ read_index_' <= write_index_'
      /\ write_index_' - read_index_' = (w - r) - n
  <2>1. CASE n < w - r
    <3>1. read_index_' = r + n /\ write_index_' = w
      BY <1>1, <2>1
    <3> QED
      BY <1>0, <1>a, <2>1, <3>1
  <2>2. CASE ~(n < w - r)
    <3>1. read_index_' = 0 /\ write_index_' = 0
      BY <1>1, <2>2
    <3> QED
      BY <1>0, <1>2, <2>2, <3>1
  <2> QED
    BY <2>1, <2>2
<1>4. TypeOK'
  <2>1. mem' \in [0 .. capacity' - 1 -> 0 .. MaxBytes]
    BY <1>0, <1>1 DEF Memory
  <2>2. TypeOK
    BY DEF Content
  <2> QED
    BY <1>0, <1>1, <1>3, <1>a, <1>b, <2>1, <2>2 DEF TypeOK
<1>5. (readableBytes <= in - out)'
  <2>1. (w - r) - n <= in - (out + n)
    BY <1>0, <1>2
  <2> QED
    BY <1>3, <1>a, <2>1 DEF readableBytes
<1>6. ASSUME overflows' <= 1
      PROVE  Length' /\ Stored(mem', read_index_', write_index_', out')
  <2>1. w - r = in - out /\ Stored(mem, r, w, out)
    BY <1>6 DEF Content, Length, readableBytes
  <2>2. Length'
    <3>1. (w - r) - n = in - (out + n)
      BY <1>0, <2>1
    <3> QED
      BY <1>3, <1>a, <3>1 DEF Length, readableBytes
  <2>3. CASE n < w - r
    <3> SUFFICES ASSUME NEW i \in 0 .. (w - (r + n)) - 1
                 PROVE  mem[(r + n) + i] = (out + n) + 1 + i
      BY <1>1, <2>2, <2>3 DEF Stored
    <3>1. n + i \in 0 .. (w - r) - 1 /\ r + (n + i) = (r + n) + i
      BY <1>0
    <3>2. mem[r + (n + i)] = out + 1 + (n + i)
      BY <2>1, <3>1 DEF Stored
    <3> QED
      BY <1>0, <3>1, <3>2
  <2>4. CASE ~(n < w - r)
    BY <1>1, <2>2, <2>4 DEF Stored
  <2> QED
    BY <2>3, <2>4
<1> QED
  BY <1>0, <1>1, <1>3, <1>4, <1>5, <1>6 DEF Content

(* read() of more than is writable: the rest comes by way of extrabuf.      *)
LEMMA ReadBeyondKeeps ==
  ASSUME Content, read_index_ <= write_index_, NEW n \in 1 .. MaxBytes, Read(n),
         n > writableBytes
  PROVE  Content'
<1> DEFINE s == size
           c == capacity
           r == read_index_
           w == write_index_
           m1 == Filled(mem, w, c - w, in)
           len == n - (c - w)
           first == in + (c - w)
<1>0. /\ this = Buf(mem, s, c, r, w) /\ Inside(s, c, r, w)
      /\ mem \in Memory(c) /\ s \in Nat /\ c \in Nat /\ r \in Nat /\ w \in Nat
      /\ in \in Nat /\ out \in Nat /\ overflows \in 0 .. 2
      /\ use \in {"input", "output"} /\ out <= MaxBytes /\ n \in Nat
  BY ContentMembers, SizesAssumption
<1>1. /\ in' = in + n /\ out' = out /\ use' = use /\ in + n <= MaxBytes
      /\ Overflow(TRUE) /\ Becomes(read(this, n, in)) /\ n > c - w
  BY DEF Read, writableBytes, Overflow
<1>2. w <= c /\ s <= c /\ r <= c /\ r <= w
  BY <1>0 DEF Inside
<1>3. /\ len \in Nat /\ first \in Nat /\ first + len = in + n /\ c - w \in Nat
      /\ first <= MaxBytes
  <2>1. c \in Nat /\ w \in Nat /\ in \in Nat /\ n \in Nat /\ w <= c /\ n > c - w
    BY <1>0, <1>1, <1>2
  <2>2. c - w \in Nat /\ n - (c - w) \in Nat /\ in + (c - w) \in Nat
    BY <2>1
  <2>3. (in + (c - w)) + (n - (c - w)) = in + n /\ in + (c - w) <= in + n
    BY <2>1
  <2>4. in + (c - w) <= MaxBytes
    BY <1>1, <2>1, <2>2, <2>3, SizesAssumption
  <2> QED
    BY <2>2, <2>3, <2>4
<1>4. /\ m1 \in Memory(c)
      /\ \A lo \in Nat : Stored(mem, r, w, lo) /\ in = lo + (w - r) => Stored(m1, r, c, lo)
  BY <1>0, <1>2, <1>3, FillKeeps
<1>5. read(this, n, in) = put(Buf(m1, s, c, r, s), len, first)
  <2> DEFINE b == Buf(mem, s, c, r, w)
  <2>1. b.mem = mem /\ b.size = s /\ b.capacity = c /\ b.w = w
    BY BufMembers
  <2>2. ~(n < c - w) /\ ~(n <= c - w)
    BY <1>0, <1>1
  <2>3. [[b EXCEPT !.mem = m1] EXCEPT !.w = s] = Buf(m1, s, c, r, s)
    <3> HIDE DEF m1
    <3>1. SetEnd(b, m1, s) = Buf(m1, s, c, r, s)
      BY UpdateEnd
    <3>2. SetEnd(b, m1, s) = [[b EXCEPT !.mem = m1] EXCEPT !.w = s]
      BY DEF SetEnd
    <3> QED
      BY <3>1, <3>2, Zenon
  <2>4. read(b, n, in) = put([[b EXCEPT !.mem = m1] EXCEPT !.w = s], len, first)
    <3> HIDE DEF b
    <3> QED
      BY <2>1, <2>2 DEF read
  <2> HIDE DEF m1, len, first
  <2> QED
    BY <1>0, <2>3, <2>4, Zenon
<1> HIDE DEF m1, len, first
<1>a. Appended(m1, s, c, r, s, len, first)
  <2>1. Inside(s, c, r, s) /\ first + len <= MaxBytes
    BY <1>0, <1>1, <1>2, <1>3 DEF Inside
  <2> QED
    BY <1>0, <1>3, <1>4, <2>1, PutKeeps
<1>6. PICK m2, s2, c2, r2, w2 :
           /\ put(Buf(m1, s, c, r, s), len, first) = Buf(m2, s2, c2, r2, w2)
           /\ Inside(s2, c2, r2, w2) /\ m2 \in Memory(c2) /\ w2 \in Nat
           /\ w2 - r2 = (s - r) + len
           /\ ~((c - s) + r < len) => s2 = s /\ c2 = c
           /\ r <= s /\ ((c - s) + r < len => s = c) =>
                \A lo \in Nat : Stored(m1, r, s, lo) /\ first = lo + (s - r) =>
                                  Stored(m2, r2, w2, lo)
  BY <1>a DEF Appended
<1>7. mem' = m2 /\ size' = s2 /\ capacity' = c2 /\ read_index_' = r2 /\ write_index_' = w2
  <2> DEFINE b == Buf(m2, s2, c2, r2, w2)
  <2>1. b.mem = m2 /\ b.size = s2 /\ b.capacity = c2 /\ b.r = r2 /\ b.w = w2
    BY BufMembers
  <2>2. read(this, n, in) = b
    BY <1>5, <1>6
  <2> HIDE DEF b
  <2> QED
    BY <1>1, <2>1, <2>2 DEF Becomes
<1>8. /\ s2 \in Nat /\ c2 \in Nat /\ r2 \in Nat /\ w2 \in Nat
      /\ s2 <= c2 /\ r2 <= c2 /\ w2 <= c2 /\ w2 - r2 = (s - r) + len
  BY <1>6 DEF Inside
<1>9. /\ overflows' \in 0 .. 2 /\ overflows' # 0
      /\ overflows' <= 1 => overflows = 0
  BY <1>0, <1>1 DEF Overflow
<1>10. TypeOK'
  <2>1. mem' \in [0 .. capacity' - 1 -> 0 .. MaxBytes]
    BY <1>6, <1>7 DEF Memory
  <2> QED
    BY <1>0, <1>1, <1>7, <1>8, <1>9, <2>1 DEF TypeOK
<1>11. (readableBytes <= in - out)'
  <2>1. w - r <= in - out
    BY DEF Content, readableBytes
  <2>2. w2 - r2 <= (w - r) + n
    BY <1>0, <1>2, <1>8 DEF len
  <2> QED
    BY <1>0, <1>1, <1>7, <1>8, <2>1, <2>2 DEF readableBytes
<1>12. ASSUME overflows' <= 1
       PROVE  /\ r2 <= w2 /\ w2 - r2 = (in + n) - out
              /\ Stored(m2, r2, w2, out)
  <2>1. w - r = in - out /\ Stored(mem, r, w, out) /\ s = c
    BY <1>9, <1>12 DEF Content, Length, readableBytes
  <2>2. in = out + (w - r) /\ first = out + (s - r)
    BY <1>0, <2>1 DEF first
  <2>3. Stored(m1, r, s, out)
    BY <1>0, <1>4, <2>1, <2>2
  <2>4. Stored(m2, r2, w2, out)
    BY <1>0, <1>2, <1>6, <2>1, <2>2, <2>3
  <2>5. w2 - r2 = (in + n) - out
    BY <1>0, <1>8, <2>1 DEF len
  <2> QED
    BY <1>0, <1>2, <1>3, <1>8, <2>1, <2>4, <2>5
<1> QED
  BY <1>1, <1>7, <1>8, <1>9, <1>10, <1>11, <1>12 DEF Content, Length, readableBytes

(* read() of no more than is writable does what put() does.                 *)
LEMMA ReadIsPut ==
  ASSUME Content, NEW n \in 1 .. MaxBytes, n <= writableBytes
  PROVE  read(this, n, in) = put(this, n, in)
<1> DEFINE b == Buf(mem, size, capacity, read_index_, write_index_)
           m2 == Filled(mem, write_index_, n, in)
<1>1. /\ this = b /\ capacity \in Nat /\ write_index_ \in Nat /\ n \in Nat
      /\ b.mem = mem /\ b.capacity = capacity /\ b.w = write_index_
  BY ContentMembers, BufMembers, SizesAssumption
<1>2. n <= capacity - write_index_
  BY DEF writableBytes
<1>3. (IF n < capacity - write_index_ THEN n ELSE capacity - write_index_) = n
  BY <1>1, <1>2
<1>4. ~(capacity - write_index_ < n)
  BY <1>1, <1>2
<1> HIDE DEF b
<1>5. put(b, n, in) = SetEnd(b, m2, write_index_ + n)
  <2>1. checkBuffer(b, n) = b
    BY <1>1, <1>4 DEF checkBuffer
  <2> QED
    BY <1>1, <2>1 DEF put, SetEnd
<1>6. read(b, n, in) = [[b EXCEPT !.mem = m2] EXCEPT !.w = write_index_ + n]
  BY <1>1, <1>2, <1>3 DEF read
<1>7. SetEnd(b, m2, write_index_ + n) = [[b EXCEPT !.mem = m2] EXCEPT !.w = write_index_ + n]
  <2> HIDE DEF m2
  <2> QED
    BY DEF SetEnd
<1> QED
  BY <1>1, <1>5, <1>6, <1>7, Zenon

LEMMA NextContent == Content /\ [Next]_vars => Content'
<1> SUFFICES ASSUME Content, [Next]_vars PROVE Content'
  OBVIOUS
<1>0. read_index_ \in Nat /\ write_index_ \in Nat /\ capacity \in Nat
  BY ContentMembers
<1>1. CASE UNCHANGED vars
  BY <1>1 DEF Content, TypeOK, Length, readableBytes, Stored, vars, state
<1>2. ASSUME read_index_ <= write_index_, NEW n \in 1 .. MaxBytes, Put(n)
      PROVE  Content'
  <2>1. (writableBytes + prependableBytes < n + KCheapPrepend)
          <=> ((capacity - write_index_) + read_index_ < n)
    BY <1>0, SizesAssumption DEF writableBytes, prependableBytes, KCheapPrepend
  <2>2. Overflow((capacity - write_index_) + read_index_ < n)
    BY <1>2, <2>1 DEF Put, Overflow
  <2> QED
    BY <1>2, <2>2, AddKeeps DEF Put
<1>3. ASSUME read_index_ <= write_index_, NEW n \in 1 .. MaxBytes, Write(n)
      PROVE  Content'
  BY <1>3, DropKeeps DEF Write
<1>4. ASSUME read_index_ <= write_index_, NEW n \in 1 .. MaxBytes, Get(n)
      PROVE  Content'
  BY <1>4, DropKeeps DEF Get
<1>5. ASSUME read_index_ <= write_index_, NEW n \in 1 .. MaxBytes, Read(n)
      PROVE  Content'
  <2>1. CASE n > writableBytes
    BY <1>5, <2>1, ReadBeyondKeeps
  <2>2. CASE ~(n > writableBytes)
    <3>1. n <= writableBytes /\ ~((capacity - write_index_) + read_index_ < n)
      BY <1>0, <2>2, SizesAssumption DEF writableBytes
    <3>2. Becomes(put(this, n, in))
      <4>1. read(this, n, in) = put(this, n, in)
        BY <3>1, ReadIsPut
      <4> QED
        BY <1>5, <4>1 DEF Read
    <3>3. Overflow((capacity - write_index_) + read_index_ < n)
      BY <1>5, <2>2, <3>1 DEF Read, Overflow
    <3> QED
      BY <1>5, <3>2, <3>3, AddKeeps DEF Read
  <2> QED
    BY <2>1, <2>2
<1> QED
  BY <1>1, <1>2, <1>3, <1>4, <1>5 DEF Next

LEMMA ContentInvariant == Spec => []Content
  BY InitContent, NextContent, PTL DEF Spec

(* Every member and counter of a buffer of either kind keeps its type.      *)
THEOREM TypeCorrect == Spec => []TypeOK
<1>1. Content => TypeOK
  BY DEF Content
<1> QED
  BY <1>1, ContentInvariant, PTL

(* Whatever the initial size, the size of extrabuf and the order of the     *)
(* operations, put(), read(), write() and get() neither lose, repeat nor    *)
(* reorder a byte until the buffer has been full for the second time.       *)
THEOREM ContentUntilRegrown == Spec => []IntactUntilRegrown
<1>1. Content => IntactUntilRegrown
  BY DEF Content, IntactUntilRegrown, ContentIntact, Stored, readableBytes
<1> QED
  BY <1>1, ContentInvariant, PTL
=============================================================================
