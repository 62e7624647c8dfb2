------------------------------- MODULE ByteQueue -------------------------------
(***************************************************************************)
(* What Buffer promises its users: a queue of bytes.  Bytes come out in    *)
(* the order they went in, except that prepend puts some before the rest.  *)
(***************************************************************************)
EXTENDS Naturals, Sequences

CONSTANT Byte

VARIABLE content

QueueInit == content = <<>>

Put(data) == content' = content \o data

PutFront(data) == content' = data \o content

Take(n) == n <= Len(content) /\ content' = SubSeq(content, n + 1, Len(content))

QueueNext ==
  \/ \E data \in Seq(Byte) : Put(data) \/ PutFront(data)
  \/ \E n \in Nat : Take(n)

QueueSpec == QueueInit /\ [][QueueNext]_content
=============================================================================
