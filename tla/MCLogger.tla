------------------------------ MODULE MCLogger ------------------------------
(* Statements for Logger: numbers at the edges of their types, an errno,   *)
(* texts that fill the buffer to within a few bytes of every piece's end.  *)
EXTENDS Logger

Stmt(level, errno, body) == [level |-> level, errno |-> errno, body |-> body]

Numbers == <<<<"int", 0>>, <<"int", -32768>>, <<"int", 10>>, <<"pointer", 0>>, <<"pointer", 4080>>>>

MCStatements ==
  {Stmt(DEBUG, 0, Numbers), Stmt(INFO, 0, <<<<"text", 5>>>>),
   Stmt(ERROR, 24, <<<<"text", 5>>, <<"int", -7>>>>), Stmt(FATAL, 0, <<<<"text", 5>>>>)}
  \cup {Stmt(WARN, 0, <<<<"text", n>>, <<"int", -32768>>>>) : n \in {3880, 3930, 3960}}
=============================================================================
