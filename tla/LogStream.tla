------------------------------ MODULE LogStream ------------------------------
(***************************************************************************)
(* LogStream over FixedBuffer (src/base/LogStream.h, LogStream.cc): the    *)
(* buffer one log statement is put together in.  A buffer is the sequence  *)
(* of the pieces it took, with its length in bytes; what a text says does  *)
(* not matter, what a number is printed as does.                           *)
(***************************************************************************)
EXTENDS Integers, Sequences, SequencesExt

kSmallBuffer == 4000
kMaxNumericSize == 32

Piece(what, len) == [what |-> what, len |-> len]
NewBuffer == [pieces |-> <<>>, length |-> 0]

avail(b) == kSmallBuffer - b.length
add(b, p) == [pieces |-> Append(b.pieces, p), length |-> b.length + p.len]

(* FixedBuffer::append: a piece that does not fit is left out, a byte is   *)
(* always left.                                                            *)
append(b, p) == IF avail(b) > p.len THEN add(b, p) ELSE b

-----------------------------------------------------------------------------
(* Division as in C++: towards zero, the remainder takes i's sign.         *)
Quot(i, base) == IF i >= 0 THEN i \div base ELSE -((-i) \div base)
Rem(i, base)  == IF i >= 0 THEN i % base ELSE -((-i) % base)

(* zero[lsd]: the table of digits runs from 9 to 0 and up to 9 again.      *)
Digit(lsd) == IF lsd < 0 THEN -lsd ELSE lsd

RECURSIVE LeastFirst(_, _)
LeastFirst(i, base) ==
  <<Digit(Rem(i, base))>>
    \o (IF Quot(i, base) = 0 THEN <<>> ELSE LeastFirst(Quot(i, base), base))

Minus == -1        \* the sign, among digits

(* convert and convertHex: least digit first, the sign, then reversed.     *)
convert(value, base) ==
  Reverse(LeastFirst(value, base) \o (IF value < 0 THEN <<Minus>> ELSE <<>>))

(* What a reader takes digits for.                                         *)
RECURSIVE Value(_, _)
Value(ds, base) ==
  IF ds = <<>> THEN 0
  ELSE IF Head(ds) = Minus THEN -Value(Tail(ds), base)
  ELSE Value(Front(ds), base) * base + Last(ds)

(* Mutant of formatNumber: does not ask for room.                          *)
formatNumberAnyway(b, p) == add(b, p)

(* formatInteger, operator<<(const void* ) and (double): into the buffer   *)
(* directly, if the longest number would fit.                              *)
formatNumber(b, p) == IF avail(b) >= kMaxNumericSize THEN add(b, p) ELSE b

(* operator<< by what is inserted: <<"int", v>>, <<"pointer", v>>, or a     *)
(* text or a character as <<its name, its length>>.                        *)
Insert(b, item) ==
  CASE item[1] = "int" ->
         LET ds == convert(item[2], 10) IN formatNumber(b, Piece(<<"int", ds>>, Len(ds)))
    [] item[1] = "pointer" ->
         LET ds == convert(item[2], 16) IN formatNumber(b, Piece(<<"pointer", ds>>, Len(ds) + 2))
    [] OTHER -> append(b, Piece(item, item[2]))

(* What a piece says to a reader.                                          *)
Read(p) ==
  CASE p.what[1] = "int" -> <<"int", Value(p.what[2], 10)>>
    [] p.what[1] = "pointer" -> <<"pointer", Value(p.what[2], 16)>>
    [] OTHER -> p.what
=============================================================================
