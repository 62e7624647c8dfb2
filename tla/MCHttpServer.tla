---------------------------- MODULE MCHttpServer ----------------------------
(* Instances of HttpServer small enough for TLC.                           *)
EXTENDS HttpServer

(* Every kind of request line, Connection headers that are missing, single *)
(* and contradictory, and both kinds of body.                              *)
MCRequests ==
  [line : {"get 1.1", "get 1.0"},
   headers : {<<>>, <<"close">>, <<"Keep-Alive">>, <<"close", "other", "Keep-Alive">>},
   body : {<<>>}]
    \cup [line : {"get 2.0", "unknown method"}, headers : {<<"other">>}, body : {<<>>}]
    \cup [line : {"get 1.1"}, headers : {<<"other">>}, body : {<<Text>>, <<Part>>}]
=============================================================================
