---------------------------- MODULE BufferProofs ----------------------------
(***************************************************************************)
(* A Buffer is a queue of bytes, for every size of its vector, of the      *)
(* space kept for prepend and of readFd's extrabuf: the moves of the       *)
(* content and the growth of the vector are invisible in the content.      *)
(***************************************************************************)
EXTENDS Buffer, SequenceTheorems, TLAPS

(* What every operation finds and leaves: TypeOK, of a Buffer as a record. *)
IsBuffer(b) ==
  /\ b \in [buf : Seq(Byte), r : Nat, w : Nat]
  /\ b.r <= b.w /\ b.w <= Len(b.buf) /\ kCheapPrepend <= Len(b.buf)

(* A function on 1..n is a sequence of length n.                           *)
LEMMA FunctionIsSeq ==
  ASSUME NEW S, NEW n \in Nat, NEW f \in [1..n -> S]
  PROVE  f \in Seq(S) /\ Len(f) = n /\ DOMAIN f = 1..n
OBVIOUS

(* What the calls append is a sequence of bytes.                           *)
LEMMA DataFacts == ASSUME NEW data \in Data PROVE data \in Seq(Byte)
<1>1. PICK n \in 0..MaxLen : data \in [1..n -> Byte] BY Zenon DEF Data
<1>2. n \in Nat BY SizeAssumption, SMTT(40)
<1>3. QED BY <1>1, <1>2, FunctionIsSeq, Zenon

(* Content(b) is what lies between readerIndex_ and writerIndex_.          *)
LEMMA ContentFacts ==
  ASSUME NEW b, IsBuffer(b)
  PROVE  /\ Content(b) \in Seq(Byte) /\ Len(Content(b)) = b.w - b.r
         /\ \A i \in 1..(b.w - b.r) : Content(b)[i] = b.buf[b.r + i]
<1>1. b.buf \in Seq(Byte) /\ b.r \in Nat /\ b.w \in Nat /\ b.r <= b.w /\ b.w <= Len(b.buf)
  BY Zenon DEF IsBuffer
<1>2. b.w - b.r \in Nat BY <1>1, SMTT(40)
<1>3. \A i \in 1..(b.w - b.r) : b.buf[b.r + i] \in Byte
  <2> SUFFICES ASSUME NEW i \in 1..(b.w - b.r) PROVE b.buf[b.r + i] \in Byte BY Zenon
  <2>1. b.r + i \in 1..Len(b.buf) BY <1>1, SMTT(40)
  <2>2. QED BY <1>1, <2>1, ElementOfSeq, Zenon
<1>4. Content(b) \in [1..(b.w - b.r) -> Byte] BY <1>3, Zenon DEF Content, ReadableBytes
<1>5. QED BY <1>2, <1>4, FunctionIsSeq, SMTT(40) DEF Content, ReadableBytes

(* std::copy into the vector.                                              *)
LEMMA CopyFacts ==
  ASSUME NEW buf \in Seq(Byte), NEW at \in Nat, NEW data \in Seq(Byte), at + Len(data) <= Len(buf)
  PROVE  /\ Copy(buf, at, data) \in Seq(Byte) /\ Len(Copy(buf, at, data)) = Len(buf)
         /\ \A i \in 1..Len(buf) :
              Copy(buf, at, data)[i] =
                IF at < i /\ i <= at + Len(data) THEN data[i - at] ELSE buf[i]
<1>1. Len(buf) \in Nat /\ Len(data) \in Nat OBVIOUS
<1>2. \A i \in 1..Len(buf) :
        (IF at < i /\ i <= at + Len(data) THEN data[i - at] ELSE buf[i]) \in Byte
  <2> SUFFICES ASSUME NEW i \in 1..Len(buf)
               PROVE  (IF at < i /\ i <= at + Len(data) THEN data[i - at] ELSE buf[i]) \in Byte
    BY Zenon
  <2>1. CASE at < i /\ i <= at + Len(data)
    <3>1. i - at \in 1..Len(data) BY <1>1, <2>1, SMTT(40)
    <3>2. data[i - at] \in Byte BY <3>1, ElementOfSeq, Zenon
    <3>3. QED BY <2>1, <3>2, Zenon
  <2>2. CASE ~ (at < i /\ i <= at + Len(data))
    <3>1. buf[i] \in Byte BY ElementOfSeq, Zenon
    <3>2. QED BY <2>2, <3>1, Zenon
  <2>3. QED BY <2>1, <2>2, Zenon
<1>3. Copy(buf, at, data) \in [1..Len(buf) -> Byte] BY <1>2, Zenon DEF Copy
<1>4. QED BY <1>1, <1>3, FunctionIsSeq, SMTT(40) DEF Copy

(* vector::resize keeps the bytes that stay.                               *)
LEMMA ResizeFacts ==
  ASSUME NEW buf \in Seq(Byte), NEW n \in Nat
  PROVE  /\ Resize(buf, n) \in Seq(Byte) /\ Len(Resize(buf, n)) = n
         /\ \A i \in 1..n : i <= Len(buf) => Resize(buf, n)[i] = buf[i]
<1>1. Len(buf) \in Nat OBVIOUS
<1>2. \A i \in 1..n : (IF i <= Len(buf) THEN buf[i] ELSE Zero) \in Byte
  <2> SUFFICES ASSUME NEW i \in 1..n PROVE (IF i <= Len(buf) THEN buf[i] ELSE Zero) \in Byte
    BY Zenon
  <2>1. CASE i <= Len(buf)
    <3>1. i \in 1..Len(buf) BY <1>1, <2>1, SMTT(40)
    <3>2. QED BY <2>1, <3>1, ElementOfSeq, Zenon
  <2>2. CASE ~ (i <= Len(buf)) BY <2>2, ByteAssumption, Zenon
  <2>3. QED BY <2>1, <2>2, Zenon
<1>3. Resize(buf, n) \in [1..n -> Byte] BY <1>2, Zenon DEF Resize
<1>4. QED BY <1>3, FunctionIsSeq, Zenon DEF Resize

(* Two Buffers with the same readable bytes have the same content.         *)
LEMMA SameContent ==
  ASSUME NEW a, IsBuffer(a), NEW b, IsBuffer(b), a.w - a.r = b.w - b.r,
         \A i \in 1..(b.w - b.r) : a.buf[a.r + i] = b.buf[b.r + i]
  PROVE  Content(a) = Content(b)
BY Zenon DEF Content, ReadableBytes

(* makeSpace keeps the content, and makes the space.                       *)
LEMMA MakeSpaceFacts ==
  ASSUME NEW b, IsBuffer(b), NEW len \in Nat, WritableBytes(b) < len
  PROVE  /\ IsBuffer(MakeSpace(b, len)) /\ Content(MakeSpace(b, len)) = Content(b)
         /\ WritableBytes(MakeSpace(b, len)) >= len
<1> DEFINE new == MakeSpace(b, len)
<1>1. /\ b.buf \in Seq(Byte) /\ b.r \in Nat /\ b.w \in Nat /\ Len(b.buf) \in Nat
      /\ b.r <= b.w /\ b.w <= Len(b.buf) /\ kCheapPrepend <= Len(b.buf) /\ kCheapPrepend \in Nat
      /\ Len(b.buf) - b.w < len
  BY SizeAssumption, SMTT(40) DEF IsBuffer, WritableBytes
<1>2. CASE MustGrow(b, len)
  <2> DEFINE buf == Resize(b.buf, b.w + len)
  <2>1. new = [b EXCEPT !.buf = buf] BY <1>2, Zenon DEF MakeSpace
  <2>2. new = [buf |-> buf, r |-> b.r, w |-> b.w] BY <2>1, Zenon DEF IsBuffer
  <2>3. /\ buf \in Seq(Byte) /\ Len(buf) = b.w + len
        /\ \A i \in 1..(b.w + len) : i <= Len(b.buf) => buf[i] = b.buf[i]
    <3>1. b.w + len \in Nat BY <1>1, SMTT(40)
    <3>2. QED BY <1>1, <3>1, ResizeFacts, Zenon
  <2> HIDE DEF buf, new
  <2>4. new.buf = buf /\ new.r = b.r /\ new.w = b.w BY <2>2, Zenon
  <2>5. IsBuffer(new) BY <1>1, <2>2, <2>3, SMTT(40) DEF IsBuffer
  <2>6. \A i \in 1..(b.w - b.r) : new.buf[new.r + i] = b.buf[b.r + i]
    <3> SUFFICES ASSUME NEW i \in 1..(b.w - b.r) PROVE buf[b.r + i] = b.buf[b.r + i]
      BY <2>4, SMTT(40)
    <3>1. b.r + i \in 1..(b.w + len) /\ b.r + i <= Len(b.buf) BY <1>1, SMTT(40)
    <3>2. QED BY <2>3, <3>1, Zenon
  <2>7. Content(new) = Content(b) BY <2>4, <2>5, <2>6, SameContent, Zenon
  <2>8. WritableBytes(new) >= len BY <1>1, <2>3, <2>4, SMTT(40) DEF WritableBytes
  <2>9. QED BY <2>5, <2>7, <2>8, Zenon DEF new
<1>3. CASE ~ MustGrow(b, len)
  <2> DEFINE n == b.w - b.r
             buf == Copy(b.buf, kCheapPrepend, Content(b))
  <2>1. new = [buf |-> buf, r |-> kCheapPrepend, w |-> kCheapPrepend + n]
    BY <1>3, Zenon DEF MakeSpace, ReadableBytes
  <2>2. n \in Nat /\ kCheapPrepend + n + len <= Len(b.buf)
    BY <1>1, <1>3, SMTT(40) DEF MustGrow, WritableBytes, PrependableBytes
  <2>3. /\ Content(b) \in Seq(Byte) /\ Len(Content(b)) = n
        /\ \A i \in 1..n : Content(b)[i] = b.buf[b.r + i]
    BY ContentFacts, Zenon
  <2> HIDE DEF n
  <2>4. kCheapPrepend + Len(Content(b)) <= Len(b.buf) BY <1>1, <2>2, <2>3, SMTT(40)
  <2>5. /\ buf \in Seq(Byte) /\ Len(buf) = Len(b.buf)
        /\ \A i \in 1..Len(b.buf) :
             buf[i] = IF kCheapPrepend < i /\ i <= kCheapPrepend + Len(Content(b))
                      THEN Content(b)[i - kCheapPrepend] ELSE b.buf[i]
    BY <1>1, <2>3, <2>4, CopyFacts, SMTT(40)
  <2> HIDE DEF buf, new
  <2>6. new.buf = buf /\ new.r = kCheapPrepend /\ new.w = kCheapPrepend + n BY <2>1, Zenon
  <2>7. IsBuffer(new) BY <1>1, <2>1, <2>2, <2>5, SMTT(40) DEF IsBuffer
  <2>8. \A i \in 1..n : new.buf[new.r + i] = b.buf[b.r + i]
    <3> SUFFICES ASSUME NEW i \in 1..n PROVE buf[kCheapPrepend + i] = b.buf[b.r + i]
      BY <2>6, Zenon
    <3>1. /\ kCheapPrepend + i \in 1..Len(b.buf) /\ kCheapPrepend < kCheapPrepend + i
          /\ kCheapPrepend + i <= kCheapPrepend + Len(Content(b))
          /\ (kCheapPrepend + i) - kCheapPrepend = i
      BY <1>1, <2>2, <2>3, SMTT(40)
    <3>2. buf[kCheapPrepend + i] = Content(b)[i] BY <2>5, <3>1, Zenon
    <3>3. QED BY <2>3, <3>2, Zenon
  <2>9. new.w - new.r = n BY <1>1, <2>2, <2>6, SMTT(40)
  <2>10. Content(new) = Content(b) BY <2>7, <2>8, <2>9, SameContent, Zenon DEF n
  <2>11. WritableBytes(new) >= len BY <1>1, <2>2, <2>5, <2>6, SMTT(40) DEF WritableBytes
  <2>12. QED BY <2>7, <2>10, <2>11, Zenon DEF new
<1>4. QED BY <1>2, <1>3, Zenon

(* ensureWritableBytes makes room for len bytes, by moving the content     *)
(* to the front or by growing, and changes nothing of what can be read.    *)
LEMMA EnsureFacts ==
  ASSUME NEW b, IsBuffer(b), NEW len \in Nat
  PROVE  /\ IsBuffer(EnsureWritableBytes(b, len))
         /\ Content(EnsureWritableBytes(b, len)) = Content(b)
         /\ WritableBytes(EnsureWritableBytes(b, len)) >= len
<1>1. CASE WritableBytes(b) < len BY <1>1, MakeSpaceFacts, Zenon DEF EnsureWritableBytes
<1>2. CASE ~ (WritableBytes(b) < len)
  <2>1. WritableBytes(b) \in Int BY SMTT(40) DEF IsBuffer, WritableBytes
  <2>2. WritableBytes(b) >= len BY <1>2, <2>1, SMTT(40)
  <2>3. EnsureWritableBytes(b, len) = b BY <1>2, Zenon DEF EnsureWritableBytes
  <2>4. QED BY <2>2, <2>3, Zenon
<1>3. QED BY <1>1, <1>2, Zenon

(* Bytes copied to beginWrite() are at the end of the content.             *)
LEMMA WriteFacts ==
  ASSUME NEW b, IsBuffer(b), NEW data \in Seq(Byte), Len(data) <= WritableBytes(b)
  PROVE  IsBuffer(Write(b, data)) /\ Content(Write(b, data)) = Content(b) \o data
<1> DEFINE new == Write(b, data)
           buf == Copy(b.buf, b.w, data)
           n == b.w - b.r
           both == Content(b) \o data
<1>1. /\ b.buf \in Seq(Byte) /\ b.r \in Nat /\ b.w \in Nat /\ Len(b.buf) \in Nat
      /\ b.r <= b.w /\ b.w <= Len(b.buf) /\ kCheapPrepend <= Len(b.buf) /\ kCheapPrepend \in Nat
      /\ Len(data) \in Nat /\ b.w + Len(data) <= Len(b.buf)
  BY SizeAssumption, SMTT(40) DEF IsBuffer, WritableBytes
<1>2. new = [buf |-> buf, r |-> b.r, w |-> b.w + Len(data)]
  <2>1. b \in [buf : Seq(Byte), r : Nat, w : Nat] BY Zenon DEF IsBuffer
  <2>2. new = [b EXCEPT !.buf = buf, !.w = b.w + Len(data)] BY Zenon DEF Write
  <2> HIDE DEF new, buf
  <2>3. QED BY <2>1, <2>2, Zenon
<1>3. /\ buf \in Seq(Byte) /\ Len(buf) = Len(b.buf)
      /\ \A i \in 1..Len(b.buf) :
           buf[i] = IF b.w < i /\ i <= b.w + Len(data) THEN data[i - b.w] ELSE b.buf[i]
  BY <1>1, CopyFacts, ZenonT(40)
<1>4. /\ Content(b) \in Seq(Byte) /\ Len(Content(b)) = n
      /\ \A i \in 1..n : Content(b)[i] = b.buf[b.r + i]
  BY ContentFacts, Zenon
<1>5. n \in Nat /\ b.w = b.r + n BY <1>1, SMTT(40)
<1> HIDE DEF new, buf, n
<1>6. new.buf = buf /\ new.r = b.r /\ new.w = b.w + Len(data) BY <1>2, Zenon
<1>7. IsBuffer(new) BY <1>1, <1>2, <1>3, SMTT(40) DEF IsBuffer
<1>8. /\ Content(new) \in Seq(Byte) /\ Len(Content(new)) = new.w - new.r
      /\ \A i \in 1..(new.w - new.r) : Content(new)[i] = new.buf[new.r + i]
  BY <1>7, ContentFacts, Zenon
<1>9. new.w - new.r = n + Len(data) BY <1>1, <1>5, <1>6, SMTT(40)
<1>10. /\ both \in Seq(Byte) /\ Len(both) = n + Len(data)
       /\ \A i \in 1..(n + Len(data)) : both[i] = IF i <= n THEN Content(b)[i] ELSE data[i - n]
  <2>1. /\ both \in Seq(Byte) /\ Len(both) = Len(Content(b)) + Len(data)
        /\ \A i \in 1..(Len(Content(b)) + Len(data)) :
             both[i] = IF i <= Len(Content(b)) THEN Content(b)[i] ELSE data[i - Len(Content(b))]
    BY <1>4, ConcatProperties, Zenon
  <2> HIDE DEF both
  <2>2. QED BY <1>4, <2>1, Zenon
<1> HIDE DEF both
<1>11. \A i \in 1..(n + Len(data)) : Content(new)[i] = both[i]
  <2> SUFFICES ASSUME NEW i \in 1..(n + Len(data)) PROVE Content(new)[i] = both[i] BY Zenon
  <2>1. Content(new)[i] = buf[b.r + i] BY <1>6, <1>8, <1>9, Zenon
  <2>2. b.r + i \in 1..Len(b.buf) BY <1>1, <1>5, SMTT(40)
  <2>3. CASE i <= n
    <3>1. ~ (b.w < b.r + i) /\ i \in 1..n BY <1>1, <1>5, <2>3, SMTT(40)
    <3>2. buf[b.r + i] = b.buf[b.r + i] BY <1>3, <2>2, <3>1, Zenon
    <3>3. both[i] = Content(b)[i] BY <1>10, <2>3, Zenon
    <3>4. Content(b)[i] = b.buf[b.r + i] BY <1>4, <3>1, Zenon
    <3>5. QED BY <2>1, <3>2, <3>3, <3>4, Zenon
  <2>4. CASE ~ (i <= n)
    <3>1. b.w < b.r + i /\ b.r + i <= b.w + Len(data) /\ (b.r + i) - b.w = i - n
      BY <1>1, <1>5, <2>4, SMTT(40)
    <3>2. buf[b.r + i] = data[i - n] BY <1>3, <2>2, <3>1, Zenon
    <3>3. both[i] = data[i - n] BY <1>10, <2>4, Zenon
    <3>4. QED BY <2>1, <3>2, <3>3, Zenon
  <2>5. QED BY <2>3, <2>4, Zenon
<1>12. Content(new) = both BY <1>8, <1>9, <1>10, <1>11, SeqEqual, Zenon
<1>13. QED BY <1>7, <1>12, Zenon DEF new, both

(* append adds its bytes at the end of the content.                        *)
LEMMA AppendFacts ==
  ASSUME NEW b, IsBuffer(b), NEW data \in Seq(Byte)
  PROVE  IsBuffer(AppendData(b, data)) /\ Content(AppendData(b, data)) = Content(b) \o data
<1> DEFINE spacious == EnsureWritableBytes(b, Len(data))
<1>1. Len(data) \in Nat OBVIOUS
<1>2. IsBuffer(spacious) /\ Content(spacious) = Content(b) /\ WritableBytes(spacious) >= Len(data)
  BY <1>1, EnsureFacts, Zenon
<1> HIDE DEF spacious
<1>3. Len(data) <= WritableBytes(spacious)
  <2>1. WritableBytes(spacious) \in Int BY <1>2, SMTT(40) DEF IsBuffer, WritableBytes
  <2>2. QED BY <1>1, <1>2, <2>1, Zenon
<1>4. IsBuffer(Write(spacious, data)) /\ Content(Write(spacious, data)) = Content(spacious) \o data
  BY <1>2, <1>3, WriteFacts, Zenon
<1>5. QED BY <1>2, <1>4, Zenon DEF AppendData, spacious

(* readFd: what fits goes to the writable space, the rest through extrabuf.*)
LEMMA ReadFacts ==
  ASSUME NEW b, IsBuffer(b), NEW data \in Seq(Byte)
  PROVE  IsBuffer(ReadData(b, data)) /\ Content(ReadData(b, data)) = Content(b) \o data
<1> DEFINE room == WritableBytes(b)
           first == SubSeq(data, 1, room)
           rest == SubSeq(data, room + 1, Len(data))
<1>1. room \in Nat /\ Len(data) \in Nat BY SMTT(40) DEF IsBuffer, WritableBytes
<1> HIDE DEF room
<1>2. CASE Len(data) <= room
  <2>1. ReadData(b, data) = Write(b, data) BY <1>2, Zenon DEF ReadData, room
  <2>2. IsBuffer(Write(b, data)) /\ Content(Write(b, data)) = Content(b) \o data
    BY <1>2, WriteFacts, Zenon DEF room
  <2>3. QED BY <2>1, <2>2, Zenon
<1>3. CASE ~ (Len(data) <= room)
  <2>1. ReadData(b, data) = AppendData(Write(b, first), rest)
    BY <1>3, Zenon DEF ReadData, Spilled, room
  <2>2. \A i \in 1..Len(data) : data[i] \in Byte BY ElementOfSeq, Zenon
  <2>3. first \in Seq(Byte) /\ Len(first) = room
    <3>1. \A i \in 1..room : data[i] \in Byte BY <1>1, <1>3, <2>2, SMTT(40)
    <3>2. first \in Seq(Byte) /\ Len(first) = IF 1 <= room THEN room - 1 + 1 ELSE 0
      BY <1>1, <3>1, SubSeqProperties, SMTT(40)
    <3> HIDE DEF first
    <3>3. QED BY <1>1, <3>2, SMTT(40)
  <2>4. rest \in Seq(Byte)
    <3>1. \A i \in (room + 1)..Len(data) : data[i] \in Byte BY <1>1, <1>3, <2>2, SMTT(40)
    <3>2. room + 1 \in Int /\ Len(data) \in Int BY <1>1, SMTT(40)
    <3>3. QED BY <3>1, <3>2, SubSeqProperties, Zenon
  <2>5. first \o rest = data
    <3>1. 1 \in 1..(Len(data) + 1) /\ room \in (1 - 1)..Len(data) /\ Len(data) \in room..Len(data)
      BY <1>1, <1>3, SMTT(40)
    <3>2. first \o rest = SubSeq(data, 1, Len(data)) BY <3>1, ConcatAdjacentSubSeq, Zenon
    <3>3. SubSeq(data, 1, Len(data)) = data BY SubSeqFull, Zenon
    <3>4. QED BY <3>2, <3>3, Zenon
  <2> HIDE DEF first, rest
  <2>6. Len(first) <= WritableBytes(b) BY <1>1, <2>3, SMTT(40) DEF room
  <2>7. IsBuffer(Write(b, first)) /\ Content(Write(b, first)) = Content(b) \o first
    BY <2>3, <2>6, WriteFacts, Zenon
  <2>8. /\ IsBuffer(AppendData(Write(b, first), rest))
        /\ Content(AppendData(Write(b, first), rest)) = Content(Write(b, first)) \o rest
    BY <2>4, <2>7, AppendFacts, Zenon
  <2>9. Content(b) \in Seq(Byte) BY ContentFacts, Zenon
  <2>10. (Content(b) \o first) \o rest = Content(b) \o (first \o rest)
    <3> DEFINE c == Content(b)
    <3>1. c \in Seq(Byte) /\ first \in Seq(Byte) /\ rest \in Seq(Byte)
      BY <2>3, <2>4, <2>9, Zenon
    <3> HIDE DEF c
    <3>2. \A x, y, z \in Seq(Byte) : (x \o y) \o z = x \o (y \o z) BY ConcatAssociative, SMTT(40)
    <3>3. (c \o first) \o rest = c \o (first \o rest) BY <3>1, <3>2, SMTT(40)
    <3>4. QED BY <3>3, Zenon DEF c
  <2>11. QED BY <2>1, <2>5, <2>7, <2>8, <2>10, Zenon
<1>4. QED BY <1>2, <1>3, Zenon

(* retrieveAll leaves an empty buffer.                                     *)
LEMMA RetrieveAllFacts ==
  ASSUME NEW b, IsBuffer(b)
  PROVE  /\ IsBuffer(RetrieveAllBytes(b))
         /\ Content(RetrieveAllBytes(b)) = <<>>
<1> DEFINE new == RetrieveAllBytes(b)
<1>1. new = [buf |-> b.buf, r |-> kCheapPrepend, w |-> kCheapPrepend]
  <2>1. b \in [buf : Seq(Byte), r : Nat, w : Nat] BY Zenon DEF IsBuffer
  <2>2. new = [b EXCEPT !.r = kCheapPrepend, !.w = kCheapPrepend] BY Zenon DEF RetrieveAllBytes
  <2> HIDE DEF new
  <2>3. QED BY <2>1, <2>2, Zenon
<1> HIDE DEF new
<1>2. IsBuffer(new) BY <1>1, SizeAssumption, SMTT(40) DEF IsBuffer
<1>3. Content(new) \in Seq(Byte) /\ Len(Content(new)) = new.w - new.r
  BY <1>2, ContentFacts, Zenon
<1>4. new.w - new.r = 0 BY <1>1, SizeAssumption, SMTT(40)
<1>5. Content(new) = <<>> BY <1>3, <1>4, EmptySeq, Zenon
<1>6. QED BY <1>2, <1>5, Zenon DEF new

(* retrieve drops the first len bytes of the content and no others.        *)
LEMMA RetrieveFacts ==
  ASSUME NEW b, IsBuffer(b), NEW len \in Nat, len <= ReadableBytes(b)
  PROVE  /\ IsBuffer(RetrieveBytes(b, len)) /\ len <= Len(Content(b))
         /\ Content(RetrieveBytes(b, len)) = SubSeq(Content(b), len + 1, Len(Content(b)))
<1> DEFINE n == b.w - b.r
           rest == SubSeq(Content(b), len + 1, n)
           new == RetrieveBytes(b, len)
<1>1. /\ b.buf \in Seq(Byte) /\ b.r \in Nat /\ b.w \in Nat /\ Len(b.buf) \in Nat
      /\ b.r <= b.w /\ b.w <= Len(b.buf) /\ kCheapPrepend <= Len(b.buf) /\ kCheapPrepend \in Nat
      /\ b \in [buf : Seq(Byte), r : Nat, w : Nat]
  BY SizeAssumption, SMTT(40) DEF IsBuffer
<1>2. /\ Content(b) \in Seq(Byte) /\ Len(Content(b)) = n
      /\ \A i \in 1..n : Content(b)[i] = b.buf[b.r + i]
  BY ContentFacts, Zenon
<1>3. n \in Nat /\ b.w = b.r + n /\ len <= n BY <1>1, SMTT(40) DEF ReadableBytes
<1>4. ReadableBytes(b) = n BY Zenon DEF ReadableBytes
<1> HIDE DEF n
<1>5. /\ rest \in Seq(Byte) /\ Len(rest) = n - len
      /\ \A i \in 1..(n - len) : rest[i] = Content(b)[len + i]
  <2>1. \A i \in (len + 1)..n : Content(b)[i] \in Byte
    <3> SUFFICES ASSUME NEW i \in (len + 1)..n PROVE Content(b)[i] \in Byte BY Zenon
    <3>1. i \in 1..Len(Content(b)) BY <1>2, <1>3, SMTT(40)
    <3>2. QED BY <1>2, <3>1, ElementOfSeq, Zenon
  <2>2. len + 1 \in Int /\ n \in Int BY <1>3, SMTT(40)
  <2>3. /\ rest \in Seq(Byte)
        /\ Len(rest) = IF len + 1 <= n THEN n - (len + 1) + 1 ELSE 0
        /\ \A i \in 1..(n - (len + 1) + 1) : rest[i] = Content(b)[len + 1 + i - 1]
    BY <2>1, <2>2, SubSeqProperties, SMTT(40)
  <2> HIDE DEF rest
  <2>4. Len(rest) = n - len BY <1>3, <2>3, SMTT(40)
  <2>5. ASSUME NEW i \in 1..(n - len) PROVE rest[i] = Content(b)[len + i]
    <3>1. i \in 1..(n - (len + 1) + 1) /\ len + 1 + i - 1 = len + i BY <1>3, SMTT(40)
    <3>2. QED BY <2>3, <3>1, Zenon
  <2>6. QED BY <2>3, <2>4, <2>5, Zenon
<1> HIDE DEF rest
<1>6. CASE len < n
  <2>1. new = [b EXCEPT !.r = b.r + len] BY <1>4, <1>6, Zenon DEF RetrieveBytes
  <2> HIDE DEF new
  <2>2. new = [buf |-> b.buf, r |-> b.r + len, w |-> b.w] BY <1>1, <2>1, Zenon
  <2>3. new.buf = b.buf /\ new.r = b.r + len /\ new.w = b.w BY <2>2, Zenon
  <2>4. IsBuffer(new) BY <1>1, <1>3, <1>6, <2>2, SMTT(40) DEF IsBuffer
  <2>5. /\ Content(new) \in Seq(Byte) /\ Len(Content(new)) = new.w - new.r
        /\ \A i \in 1..(new.w - new.r) : Content(new)[i] = new.buf[new.r + i]
    BY <2>4, ContentFacts, Zenon
  <2>6. new.w - new.r = n - len BY <1>1, <1>3, <2>3, SMTT(40)
  <2>7. ASSUME NEW i \in 1..(n - len) PROVE Content(new)[i] = rest[i]
    <3>1. Content(new)[i] = b.buf[b.r + len + i] BY <2>3, <2>5, <2>6, Zenon
    <3>2. len + i \in 1..n /\ b.r + (len + i) = b.r + len + i BY <1>1, <1>3, SMTT(40)
    <3>3. Content(b)[len + i] = b.buf[b.r + len + i] BY <1>2, <3>2, Zenon
    <3>4. QED BY <1>5, <3>1, <3>3, Zenon
  <2>8. Content(new) = rest BY <1>5, <2>5, <2>6, <2>7, SeqEqual, Zenon
  <2>9. QED BY <1>2, <1>3, <2>4, <2>8, Zenon DEF new, rest
<1>7. CASE ~ (len < n)
  <2>1. new = RetrieveAllBytes(b) BY <1>4, <1>7, Zenon DEF RetrieveBytes
  <2>2. IsBuffer(new) /\ Content(new) = <<>> BY <2>1, RetrieveAllFacts, Zenon
  <2>3. Len(rest) = 0 BY <1>3, <1>5, <1>7, SMTT(40)
  <2>4. rest = <<>> BY <1>5, <2>3, EmptySeq, Zenon
  <2>5. QED BY <1>2, <1>3, <2>2, <2>4, Zenon DEF new, rest
<1>8. QED BY <1>6, <1>7, Zenon

(* prepend: the bytes before readerIndex_ become the head of the content.  *)
LEMMA PrependFacts ==
  ASSUME NEW b, IsBuffer(b), NEW data \in Seq(Byte), Len(data) <= PrependableBytes(b)
  PROVE  IsBuffer(PrependData(b, data)) /\ Content(PrependData(b, data)) = data \o Content(b)
<1> DEFINE new == PrependData(b, data)
           at == b.r - Len(data)
           buf == Copy(b.buf, at, data)
           n == b.w - b.r
           both == data \o Content(b)
<1>1. /\ b.buf \in Seq(Byte) /\ b.r \in Nat /\ b.w \in Nat /\ Len(b.buf) \in Nat
      /\ b.r <= b.w /\ b.w <= Len(b.buf) /\ kCheapPrepend <= Len(b.buf) /\ kCheapPrepend \in Nat
      /\ Len(data) \in Nat /\ Len(data) <= b.r /\ b \in [buf : Seq(Byte), r : Nat, w : Nat]
  BY SizeAssumption, SMTT(40) DEF IsBuffer, PrependableBytes
<1>2. at \in Nat /\ at + Len(data) = b.r /\ n \in Nat /\ b.w = b.r + n
  <2>1. at \in Nat /\ at + Len(data) = b.r BY <1>1, SMTT(40)
  <2>2. n \in Nat /\ b.w = b.r + n BY <1>1, SMTT(40)
  <2>3. QED BY <2>1, <2>2, Zenon
<1>3. new = [buf |-> buf, r |-> at, w |-> b.w]
  <2>1. new = [b EXCEPT !.buf = buf, !.r = at] BY Zenon DEF PrependData
  <2> HIDE DEF new, buf, at
  <2>2. QED BY <1>1, <2>1, Zenon
<1>4. /\ Content(b) \in Seq(Byte) /\ Len(Content(b)) = n
      /\ \A i \in 1..n : Content(b)[i] = b.buf[b.r + i]
  BY ContentFacts, Zenon
<1> HIDE DEF new, at, n
<1>5. /\ buf \in Seq(Byte) /\ Len(buf) = Len(b.buf)
      /\ \A i \in 1..Len(b.buf) :
           buf[i] = IF at < i /\ i <= at + Len(data) THEN data[i - at] ELSE b.buf[i]
  <2>1. at + Len(data) <= Len(b.buf) BY <1>1, <1>2, SMTT(40)
  <2>2. QED BY <1>1, <1>2, <2>1, CopyFacts, SMTT(40)
<1> HIDE DEF buf
<1>6. new.buf = buf /\ new.r = at /\ new.w = b.w BY <1>3, Zenon
<1>7. IsBuffer(new) BY <1>1, <1>2, <1>3, <1>5, SMTT(40) DEF IsBuffer
<1>8. /\ Content(new) \in Seq(Byte) /\ Len(Content(new)) = new.w - new.r
      /\ \A i \in 1..(new.w - new.r) : Content(new)[i] = new.buf[new.r + i]
  BY <1>7, ContentFacts, Zenon
<1>9. new.w - new.r = Len(data) + n BY <1>1, <1>2, <1>6, SMTT(40)
<1>10. /\ both \in Seq(Byte) /\ Len(both) = Len(data) + n
       /\ \A i \in 1..(Len(data) + n) :
            both[i] = IF i <= Len(data) THEN data[i] ELSE Content(b)[i - Len(data)]
  <2>1. /\ both \in Seq(Byte) /\ Len(both) = Len(data) + Len(Content(b))
        /\ \A i \in 1..(Len(data) + Len(Content(b))) :
             both[i] = IF i <= Len(data) THEN data[i] ELSE Content(b)[i - Len(data)]
    BY <1>4, ConcatProperties, Zenon
  <2> HIDE DEF both
  <2>2. QED BY <1>4, <2>1, Zenon
<1> HIDE DEF both
<1>11. \A i \in 1..(Len(data) + n) : Content(new)[i] = both[i]
  <2> SUFFICES ASSUME NEW i \in 1..(Len(data) + n) PROVE Content(new)[i] = both[i] BY Zenon
  <2>1. Content(new)[i] = buf[at + i] BY <1>6, <1>8, <1>9, Zenon
  <2>2. at + i \in 1..Len(b.buf) BY <1>1, <1>2, SMTT(40)
  <2>3. CASE i <= Len(data)
    <3>1. at < at + i /\ at + i <= at + Len(data) /\ (at + i) - at = i BY <1>1, <1>2, <2>3, SMTT(40)
    <3>2. buf[at + i] = data[i] BY <1>5, <2>2, <3>1, Zenon
    <3>3. both[i] = data[i] BY <1>10, <2>3, Zenon
    <3>4. QED BY <2>1, <3>2, <3>3, Zenon
  <2>4. CASE ~ (i <= Len(data))
    <3>1. /\ ~ (at + i <= at + Len(data)) /\ i - Len(data) \in 1..n
          /\ b.r + (i - Len(data)) = at + i
      BY <1>1, <1>2, <2>4, SMTT(40)
    <3>2. buf[at + i] = b.buf[at + i] BY <1>5, <2>2, <3>1, Zenon
    <3>3. Content(b)[i - Len(data)] = b.buf[at + i] BY <1>4, <3>1, Zenon
    <3>4. both[i] = Content(b)[i - Len(data)] BY <1>10, <2>4, Zenon
    <3>5. QED BY <2>1, <3>2, <3>3, <3>4, Zenon
  <2>5. QED BY <2>3, <2>4, Zenon
<1>12. Content(new) = both BY <1>8, <1>9, <1>10, <1>11, SeqEqual, Zenon
<1>13. QED BY <1>7, <1>12, Zenon DEF new, both

-----------------------------------------------------------------------------
(* The state of the specification is a buffer.                             *)
LEMMA ThisIsBuffer == ASSUME TypeOK PROVE IsBuffer(this)
BY Zenon DEF TypeOK, IsBuffer, this

(* An operation leaves the Buffer that its operator describes.             *)
LEMMA BecomeFacts ==
  ASSUME NEW b, IsBuffer(b), Become(b)
  PROVE  TypeOK' /\ Content(this)' = Content(b)
<1>1. b = [buf |-> b.buf, r |-> b.r, w |-> b.w] BY Zenon DEF IsBuffer
<1>2. buffer_' = b.buf /\ readerIndex_' = b.r /\ writerIndex_' = b.w BY Zenon DEF Become
<1>3. this' = b BY <1>1, <1>2, Zenon DEF this
<1>4. Content(this)' = Content(b) BY <1>3, Zenon DEF Content, ReadableBytes
<1>5. TypeOK' BY <1>2, Zenon DEF TypeOK, IsBuffer
<1>6. QED BY <1>4, <1>5, Zenon

(* append() is the queue's Put.                                            *)
LEMMA AppendStep ==
  ASSUME TypeOK, NEW data \in Data, Append_(data)
  PROVE  TypeOK' /\ Queue!Put(data)
<1>1. IsBuffer(this) /\ data \in Seq(Byte) BY ThisIsBuffer, DataFacts, Zenon
<1>2. /\ IsBuffer(AppendData(this, data))
      /\ Content(AppendData(this, data)) = Content(this) \o data
  BY <1>1, AppendFacts, Zenon
<1>3. Become(AppendData(this, data)) BY Zenon DEF Append_
<1>4. TypeOK' /\ Content(this)' = Content(AppendData(this, data))
  BY <1>2, <1>3, BecomeFacts, Zenon
<1>5. QED BY <1>2, <1>4, Zenon DEF Queue!Put

(* readFd(), with or without the overflow into extrabuf, is the queue's    *)
(* Put.                                                                    *)
LEMMA ReadFdStep ==
  ASSUME TypeOK, NEW data \in Data, ReadFd(data)
  PROVE  TypeOK' /\ Queue!Put(data)
<1>1. IsBuffer(this) /\ data \in Seq(Byte) BY ThisIsBuffer, DataFacts, Zenon
<1>2. IsBuffer(ReadData(this, data)) /\ Content(ReadData(this, data)) = Content(this) \o data
  BY <1>1, ReadFacts, Zenon
<1>3. Become(ReadData(this, data)) BY Zenon DEF ReadFd
<1>4. TypeOK' /\ Content(this)' = Content(ReadData(this, data))
  BY <1>2, <1>3, BecomeFacts, Zenon
<1>5. QED BY <1>2, <1>4, Zenon DEF Queue!Put

(* prepend() is the queue's PutFront.                                      *)
LEMMA PrependStep ==
  ASSUME TypeOK, NEW data \in Data, Prepend(data)
  PROVE  TypeOK' /\ Queue!PutFront(data)
<1>1. IsBuffer(this) /\ data \in Seq(Byte) BY ThisIsBuffer, DataFacts, Zenon
<1>2. Len(data) <= PrependableBytes(this) /\ Become(PrependData(this, data))
  BY Zenon DEF Prepend
<1>3. /\ IsBuffer(PrependData(this, data))
      /\ Content(PrependData(this, data)) = data \o Content(this)
  BY <1>1, <1>2, PrependFacts, Zenon
<1>4. TypeOK' /\ Content(this)' = Content(PrependData(this, data))
  BY <1>2, <1>3, BecomeFacts, Zenon
<1>5. QED BY <1>3, <1>4, Zenon DEF Queue!PutFront

(* retrieve(len) is the queue's Take.                                      *)
LEMMA RetrieveStep ==
  ASSUME TypeOK, NEW len \in 0..MaxLen, Retrieve(len)
  PROVE  TypeOK' /\ Queue!Take(len)
<1>1. IsBuffer(this) /\ len \in Nat BY ThisIsBuffer, SizeAssumption, SMTT(40)
<1>2. len <= ReadableBytes(this) /\ Become(RetrieveBytes(this, len)) BY Zenon DEF Retrieve
<1>3. /\ IsBuffer(RetrieveBytes(this, len)) /\ len <= Len(Content(this))
      /\ Content(RetrieveBytes(this, len)) = SubSeq(Content(this), len + 1, Len(Content(this)))
  BY <1>1, <1>2, RetrieveFacts, Zenon
<1>4. TypeOK' /\ Content(this)' = Content(RetrieveBytes(this, len))
  BY <1>2, <1>3, BecomeFacts, Zenon
<1>5. QED BY <1>3, <1>4, Zenon DEF Queue!Take

(* retrieveAll() is the queue's Take of everything.                        *)
LEMMA RetrieveAllStep ==
  ASSUME TypeOK, RetrieveAll
  PROVE  TypeOK' /\ ReadableBytes(this) \in Nat /\ Queue!Take(ReadableBytes(this))
<1> DEFINE n == ReadableBytes(this)
<1>1. IsBuffer(this) BY ThisIsBuffer, Zenon
<1>2. n \in Nat /\ Content(this) \in Seq(Byte) /\ Len(Content(this)) = n
  <2>1. n \in Nat BY SMTT(40) DEF TypeOK, ReadableBytes, this
  <2>2. QED BY <1>1, <2>1, ContentFacts, Zenon DEF ReadableBytes
<1>3. IsBuffer(RetrieveAllBytes(this)) /\ Content(RetrieveAllBytes(this)) = <<>>
  BY <1>1, RetrieveAllFacts, Zenon
<1>4. Become(RetrieveAllBytes(this)) BY Zenon DEF RetrieveAll
<1>5. TypeOK' /\ Content(this)' = <<>> BY <1>3, <1>4, BecomeFacts, Zenon
<1> HIDE DEF n
<1>6. SubSeq(Content(this), n + 1, n) = <<>>
  <2>1. n + 1 \in Int /\ n \in Int /\ n < n + 1 BY <1>2, SMTT(40)
  <2>2. QED BY <2>1, SubSeqEmpty, Zenon
<1>7. n <= Len(Content(this)) BY <1>2, SMTT(40)
<1>8. Content(this)' = SubSeq(Content(this), n + 1, Len(Content(this)))
  BY <1>2, <1>5, <1>6, Zenon
<1>9. Queue!Take(n) BY <1>7, <1>8, Zenon DEF Queue!Take
<1>10. QED BY <1>2, <1>5, <1>9, Zenon DEF n

(* A new buffer is well formed and is the empty queue.                     *)
LEMMA InitTypeOK == Init => TypeOK /\ Queue!QueueInit
<1> SUFFICES ASSUME Init PROVE TypeOK /\ Queue!QueueInit BY Zenon
<1> DEFINE n == kCheapPrepend + kInitialSize
<1>1. n \in Nat /\ kCheapPrepend \in Nat /\ kCheapPrepend <= n BY SizeAssumption, SMTT(40)
<1>2. buffer_ = Zeros(n) /\ readerIndex_ = kCheapPrepend /\ writerIndex_ = kCheapPrepend
  BY Zenon DEF Init, NewBuffer
<1> HIDE DEF n
<1>3. buffer_ \in [1..n -> Byte] BY <1>2, ByteAssumption, Zenon DEF Zeros
<1>4. buffer_ \in Seq(Byte) /\ Len(buffer_) = n BY <1>1, <1>3, FunctionIsSeq, Zenon
<1>5. TypeOK BY <1>1, <1>2, <1>4, SMTT(40) DEF TypeOK
<1>6. Content(this) \in Seq(Byte) /\ Len(Content(this)) = this.w - this.r
  BY <1>5, ThisIsBuffer, ContentFacts, Zenon
<1>7. this.w - this.r = 0 BY <1>1, <1>2, SMTT(40) DEF this
<1>8. Content(this) = <<>> BY <1>6, <1>7, EmptySeq, Zenon
<1>9. QED BY <1>5, <1>8, Zenon DEF Queue!QueueInit

(* Every step keeps the indices in order and is a step of the queue.       *)
LEMMA StepTypeOK == TypeOK /\ [Next]_vars => TypeOK' /\ [Queue!QueueNext]_(Content(this))
<1> SUFFICES ASSUME TypeOK, [Next]_vars
             PROVE  TypeOK' /\ [Queue!QueueNext]_(Content(this))
  BY Zenon
<1>1. ASSUME NEW data \in Data, Append_(data) PROVE TypeOK' /\ Queue!QueueNext
  BY <1>1, AppendStep, DataFacts, Zenon DEF Queue!QueueNext
<1>2. ASSUME NEW data \in Data, Prepend(data) PROVE TypeOK' /\ Queue!QueueNext
  BY <1>2, PrependStep, DataFacts, Zenon DEF Queue!QueueNext
<1>3. ASSUME NEW data \in Data, ReadFd(data) PROVE TypeOK' /\ Queue!QueueNext
  BY <1>3, ReadFdStep, DataFacts, Zenon DEF Queue!QueueNext
<1>4. ASSUME NEW len \in 0..MaxLen, Retrieve(len) PROVE TypeOK' /\ Queue!QueueNext
  <2>1. len \in Nat BY SizeAssumption, SMTT(40)
  <2>2. TypeOK' /\ Queue!Take(len) BY <1>4, RetrieveStep, Zenon
  <2>3. QED BY <2>1, <2>2, Zenon DEF Queue!QueueNext
<1>5. CASE RetrieveAll BY <1>5, RetrieveAllStep, Zenon DEF Queue!QueueNext
<1>6. CASE UNCHANGED vars
  <2>1. buffer_' = buffer_ /\ readerIndex_' = readerIndex_ /\ writerIndex_' = writerIndex_
    BY <1>6, Zenon DEF vars
  <2>2. this' = this BY <2>1, Zenon DEF this
  <2>3. Content(this)' = Content(this) BY <2>2, Zenon DEF Content, ReadableBytes
  <2>4. QED BY <2>1, <2>3, Zenon DEF TypeOK
<1>7. QED BY <1>1, <1>2, <1>3, <1>4, <1>5, <1>6, Zenon DEF Next

(* The indices of a Buffer stay in order and within the vector, and the    *)
(* vector never gets shorter than the space kept for prepend.              *)
THEOREM IndicesInOrder == Spec => []TypeOK
<1>1. Init => TypeOK BY InitTypeOK, Zenon
<1>2. TypeOK /\ [Next]_vars => TypeOK' BY StepTypeOK, Zenon
<1>3. QED BY <1>1, <1>2, PTL DEF Spec

(* append, readFd, prepend, retrieve and retrieveAll each do to the        *)
(* content what the queue's operation does with the same argument, through *)
(* every makeSpace (moving or growing) and every use of extrabuf.          *)
THEOREM BufferIsByteQueue == Spec => IsByteQueue
<1>1. TypeOK => QueueStep
  <2> SUFFICES ASSUME TypeOK PROVE QueueStep BY Zenon
  <2>1. \A data \in Data : Append_(data) \/ ReadFd(data) => Queue!Put(data)
    BY AppendStep, ReadFdStep, Zenon
  <2>2. \A data \in Data : Prepend(data) => Queue!PutFront(data) BY PrependStep, Zenon
  <2>3. \A len \in 0..MaxLen : Retrieve(len) => Queue!Take(len) BY RetrieveStep, Zenon
  <2>4. RetrieveAll => Queue!Take(ReadableBytes(this)) BY RetrieveAllStep, Zenon
  <2>5. QED BY <2>1, <2>2, <2>3, <2>4, Zenon DEF QueueStep
<1>2. TypeOK /\ [Next]_vars => [QueueStep]_vars BY <1>1, Zenon
<1>3. QED BY <1>2, IndicesInOrder, PTL DEF Spec, IsByteQueue

(* Buffer implements ByteQueue, with the bytes from readerIndex_ to        *)
(* writerIndex_ as the content.                                            *)
THEOREM BufferRefinesByteQueue == Spec => Queue!QueueSpec
<1>1. Init => Queue!QueueInit BY InitTypeOK, Zenon
<1>2. TypeOK /\ [Next]_vars => [Queue!QueueNext]_(Content(this)) BY StepTypeOK, Zenon
<1>3. QED BY <1>1, <1>2, IndicesInOrder, PTL DEF Spec, Queue!QueueSpec
==============================================================================
