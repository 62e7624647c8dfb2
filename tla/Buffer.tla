-------------------------------- MODULE Buffer --------------------------------
(***************************************************************************)
(* Buffer (src/net/Buffer.h, Buffer.cc): a vector of bytes of which those  *)
(* between readerIndex_ and writerIndex_ are the content, with a few bytes *)
(* kept free in front for prepend.  Space that was read is used again by   *)
(* moving the content to the front, before the vector is made longer.      *)
(*                                                                         *)
(* The vector is a sequence, so the byte at index i of the code is the     *)
(* element i+1.  The operations work on a Buffer as a record.              *)
(***************************************************************************)
EXTENDS Naturals, Sequences

CONSTANTS
  Byte,
  Zero,          \* what resize and the constructor fill the vector with
  kCheapPrepend,
  kInitialSize,
  ExtraBuf,      \* size of readFd's extrabuf
  MaxLen,        \* bound on the bytes moved by one call
  MaxSize        \* bound on the length of the vector

ASSUME ByteAssumption == Zero \in Byte
ASSUME SizeAssumption ==
  /\ kCheapPrepend \in Nat /\ kInitialSize \in Nat /\ ExtraBuf \in Nat
  /\ MaxLen \in Nat /\ MaxSize \in Nat

VARIABLES buffer_, readerIndex_, writerIndex_

vars == <<buffer_, readerIndex_, writerIndex_>>

this == [buf |-> buffer_, r |-> readerIndex_, w |-> writerIndex_]

Zeros(n) == [i \in 1..n |-> Zero]

(* Buffer()                                                                *)
NewBuffer ==
  [buf |-> Zeros(kCheapPrepend + kInitialSize), r |-> kCheapPrepend, w |-> kCheapPrepend]

ReadableBytes(b)    == b.w - b.r
WritableBytes(b)    == Len(b.buf) - b.w
PrependableBytes(b) == b.r

(* The bytes peek() .. beginWrite().                                       *)
Content(b) == [i \in 1..ReadableBytes(b) |-> b.buf[b.r + i]]

(* std::copy of data to index at.                                          *)
Copy(buf, at, data) ==
  [i \in 1..Len(buf) |-> IF at < i /\ i <= at + Len(data) THEN data[i - at] ELSE buf[i]]

Resize(buf, n) == [i \in 1..n |-> IF i <= Len(buf) THEN buf[i] ELSE Zero]

-----------------------------------------------------------------------------
MustGrow(b, len) == WritableBytes(b) + PrependableBytes(b) < len + kCheapPrepend

MakeSpace(b, len) ==
  IF MustGrow(b, len)
  THEN [b EXCEPT !.buf = Resize(b.buf, b.w + len)]
  ELSE [buf |-> Copy(b.buf, kCheapPrepend, Content(b)),
        r |-> kCheapPrepend, w |-> kCheapPrepend + ReadableBytes(b)]

EnsureWritableBytes(b, len) == IF WritableBytes(b) < len THEN MakeSpace(b, len) ELSE b

(* Copy data to beginWrite() and hasWritten.                               *)
Write(b, data) == [b EXCEPT !.buf = Copy(b.buf, b.w, data), !.w = b.w + Len(data)]

AppendData(b, data) == Write(EnsureWritableBytes(b, Len(data)), data)

RetrieveAllBytes(b) == [b EXCEPT !.r = kCheapPrepend, !.w = kCheapPrepend]

RetrieveBytes(b, len) ==
  IF len < ReadableBytes(b) THEN [b EXCEPT !.r = b.r + len] ELSE RetrieveAllBytes(b)

PrependData(b, data) ==
  [b EXCEPT !.buf = Copy(b.buf, b.r - Len(data), data), !.r = b.r - Len(data)]

(* Mutant of Spilled: extrabuf is appended with the total length.          *)
SpilledAll(data, writable) == data

(* What readv put into extrabuf.                                           *)
Spilled(data, writable) == SubSeq(data, writable + 1, Len(data))

(* readv into the writable space and extrabuf, then append of the latter.  *)
ReadData(b, data) ==
  LET writable == WritableBytes(b)
  IN IF Len(data) <= writable
     THEN Write(b, data)
     ELSE AppendData(Write(b, SubSeq(data, 1, writable)), Spilled(data, writable))

(* shrink: copy into another buffer and swap, as swap is written: it takes *)
(* other's vector and readerIndex_, then exchanges writerIndex_ with the   *)
(* readerIndex_ that other has been given.                                 *)
ShrinkTo(b, reserve) ==
  LET spacious == EnsureWritableBytes(NewBuffer, ReadableBytes(b) + reserve)
      other == AppendData(spacious, Content(b))
  IN [buf |-> other.buf, r |-> other.r, w |-> b.r]

-----------------------------------------------------------------------------
Become(b) ==
  /\ buffer_' = b.buf
  /\ readerIndex_' = b.r
  /\ writerIndex_' = b.w

Data == UNION {[1..n -> Byte] : n \in 0..MaxLen}

Init == buffer_ = NewBuffer.buf /\ readerIndex_ = NewBuffer.r /\ writerIndex_ = NewBuffer.w

Append_(data) ==
  /\ Len(AppendData(this, data).buf) <= MaxSize
  /\ Become(AppendData(this, data))

Retrieve(len) == len <= ReadableBytes(this) /\ Become(RetrieveBytes(this, len))

RetrieveAll == Become(RetrieveAllBytes(this))

Prepend(data) == Len(data) <= PrependableBytes(this) /\ Become(PrependData(this, data))

(* readFd: extrabuf is used only if it is larger than what is writable.    *)
ReadFd(data) ==
  /\ Len(data) <= WritableBytes(this) + (IF WritableBytes(this) < ExtraBuf THEN ExtraBuf ELSE 0)
  /\ Len(ReadData(this, data).buf) <= MaxSize
  /\ Become(ReadData(this, data))

Shrink(reserve) ==
  /\ Len(ShrinkTo(this, reserve).buf) <= MaxSize
  /\ Become(ShrinkTo(this, reserve))

Next ==
  \/ \E data \in Data : Append_(data) \/ Prepend(data) \/ ReadFd(data)
  \/ \E len \in 0..MaxLen : Retrieve(len)
  \/ RetrieveAll

Spec == Init /\ [][Next]_vars

(* With the calls of shrink, which nothing in the repository makes.        *)
ShrinkSpec == Init /\ [][Next \/ \E reserve \in 0..MaxLen : Shrink(reserve)]_vars

-----------------------------------------------------------------------------
TypeOK ==
  /\ buffer_ \in Seq(Byte)
  /\ readerIndex_ \in Nat /\ writerIndex_ \in Nat
  /\ readerIndex_ <= writerIndex_ /\ writerIndex_ <= Len(buffer_)
  /\ kCheapPrepend <= Len(buffer_)

(* A Buffer is a queue of bytes: through every move of its content, growth *)
(* of its vector and use of extrabuf, each call does to the content what   *)
(* the queue's operation does with the same argument.                      *)
Queue == INSTANCE ByteQueue WITH content <- Content(this)

QueueStep ==
  /\ \A data \in Data : Append_(data) \/ ReadFd(data) => Queue!Put(data)
  /\ \A data \in Data : Prepend(data) => Queue!PutFront(data)
  /\ \A len \in 0..MaxLen : Retrieve(len) => Queue!Take(len)
  /\ RetrieveAll => Queue!Take(ReadableBytes(this))

IsByteQueue == [][QueueStep]_vars

(* shrink is there to change the size of the vector (its comment, 151-152) *)
(* and keeps the content.                                                  *)
ShrinkKeepsContent ==
  \A reserve \in 0..MaxLen : Content(ShrinkTo(this, reserve)) = Content(this)
=============================================================================
