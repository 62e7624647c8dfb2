----------------------------- MODULE HttpServer -----------------------------
(***************************************************************************)
(* HttpServer on one connection (src/net/http): HttpContext parses what    *)
(* has arrived line by line, keeping its state between the pieces the      *)
(* network delivers; a complete request is answered and the context reset. *)
(*                                                                         *)
(* A line is one of the values below, and is in the buffer once its CRLF   *)
(* has arrived.  A request may have a body, of which the parser knows      *)
(* nothing: a line of its own, or bytes that join the line behind them.    *)
(* Method names, paths and headers other than Connection do not matter to  *)
(* the exchange and are left out.  onMessage runs in the IO thread; its    *)
(* steps are the rounds of parseRequest's loop and its reply.              *)
(***************************************************************************)
EXTENDS Naturals, Sequences

CONSTANTS
  Requests,       \* what clients send: [line, headers, body]
  MaxRequests     \* bound on the requests sent on the connection

(* Lines processRequestLine accepts, rejects after setMethod succeeded (no *)
(* second space, or another version), and rejects before.                  *)
GoodLines == {"get 1.1", "get 1.0"}
LateBad   == {"get 2.0"}
EarlyBad  == {"unknown method"}
Headers   == {"close", "Keep-Alive", "other"}   \* with a colon
Blank     == "blank"
Text      == "text"      \* a line of a body, without a space
Part      == "part"      \* a body without CRLF
Lines     == GoodLines \cup LateBad \cup EarlyBad \cup Headers \cup {Blank, Text, Part}

ASSUME RequestsAssumption ==
  /\ \A r \in Requests : /\ r.line \in GoodLines \cup LateBad \cup EarlyBad
                         /\ r.headers \in Seq(Headers)
                         /\ r.body \in {<<>>, <<Text>>, <<Part>>}
  /\ MaxRequests \in Nat

VARIABLES
  connState,      \* the TcpConnection's state_, up to its closing
  inputBuffer_,   \* what was received and not retrieved
  state_, request_,   \* the HttpContext
  pc,             \* "idle", "parse", "reply", "aborted" by an assertion
  ok,             \* parseRequest's result
  answers,        \* what was sent back
  sent, wire,     \* the client: requests sent, lines under way
  piped           \* the client did not wait for an answer at some time

vars == <<connState, inputBuffer_, state_, request_, pc, ok, answers, sent, wire, piped>>

NewRequest == [method |-> "kInvalid", version |-> "kUnknown", connection |-> ""]

(* onConnection gives the new connection an HttpContext.                   *)
Init ==
  /\ connState = "kConnected" /\ inputBuffer_ = <<>>
  /\ state_ = "kExpectRequestLine" /\ request_ = NewRequest
  /\ pc = "idle" /\ ok = TRUE
  /\ answers = <<>>
  /\ sent = <<>> /\ wire = <<>> /\ piped = FALSE

-----------------------------------------------------------------------------
(* The client and the network.                                             *)

LinesOf(r) == <<r.line>> \o r.headers \o <<Blank>> \o r.body

ClientSend(r) ==
  /\ Len(sent) < MaxRequests
  /\ sent' = Append(sent, r)
  /\ wire' = wire \o LinesOf(r)
  /\ piped' = (piped \/ Len(answers) < Len(sent))
  /\ UNCHANGED <<connState, inputBuffer_, state_, request_, pc, ok, answers>>

(* Bytes arrive that complete n lines, and onMessage is called.            *)
OnMessage(n) ==
  /\ pc = "idle" /\ wire /= <<>>
  /\ inputBuffer_' = inputBuffer_ \o SubSeq(wire, 1, n)
  /\ wire' = SubSeq(wire, n + 1, Len(wire))
  /\ pc' = "parse"
  /\ UNCHANGED <<connState, state_, request_, ok, answers, sent, piped>>

-----------------------------------------------------------------------------
(* parseRequest.                                                           *)

(* findCRLF finds a line, which begins with what a body left behind.       *)
HasLine == inputBuffer_ /= <<>> /\ inputBuffer_ /= <<Part>>
Line == IF Head(inputBuffer_) = Part THEN "unknown method" ELSE Head(inputBuffer_)

(* retrieveUntil(crlf + 2); a line that begins with a body is never        *)
(* retrieved.                                                              *)
Retrieved == Tail(inputBuffer_)

At(state) == pc = "parse" /\ state_ = state /\ HasLine

(* setMethod is reached by every line with a space in it, and asserts that *)
(* no method has been set.                                                 *)
MethodTwice == request_.method /= "kInvalid" /\ Line \notin {Blank, Text}

ParseRequestLine ==
  /\ At("kExpectRequestLine") /\ ~ MethodTwice
  /\ Line \in GoodLines
  /\ request_' = [request_ EXCEPT !.method = "set",
                    !.version = IF Line = "get 1.1" THEN "kHttp11" ELSE "kHttp10"]
  /\ inputBuffer_' = Retrieved
  /\ state_' = "kExpectHeaders"
  /\ UNCHANGED <<connState, pc, ok, answers, sent, wire, piped>>

(* The line stays in the buffer, and a method that was set stays set.      *)
ParseBadLine ==
  /\ At("kExpectRequestLine") /\ ~ MethodTwice
  /\ Line \notin GoodLines
  /\ request_' = [request_ EXCEPT !.method = IF Line \in LateBad THEN "set" ELSE @]
  /\ ok' = FALSE
  /\ pc' = "reply"
  /\ UNCHANGED <<connState, inputBuffer_, state_, answers, sent, wire, piped>>

(* The assertion ends the process, this connection and all others.         *)
ParseAborts ==
  /\ At("kExpectRequestLine") /\ MethodTwice
  /\ pc' = "aborted"
  /\ UNCHANGED <<connState, inputBuffer_, state_, request_, ok, answers, sent, wire, piped>>

(* Mutant of AfterHeader: hasMore is reset.                                *)
AfterHeaderStops == "reply"

(* The loop goes on with the next line.                                    *)
AfterHeader == "parse"

(* addHeader: of several Connection headers the last counts.               *)
ParseHeader ==
  /\ At("kExpectHeaders") /\ Line \in Headers
  /\ request_' = [request_ EXCEPT !.connection = IF Line = "other" THEN @ ELSE Line]
  /\ inputBuffer_' = Retrieved
  /\ pc' = AfterHeader
  /\ UNCHANGED <<connState, state_, ok, answers, sent, wire, piped>>

(* A line without a colon, blank or not, ends the headers.                 *)
ParseEnd ==
  /\ At("kExpectHeaders") /\ Line \notin Headers
  /\ inputBuffer_' = Retrieved
  /\ state_' = "kGotAll"
  /\ pc' = "reply"
  /\ UNCHANGED <<connState, request_, ok, answers, sent, wire, piped>>

ParseNoLine ==
  /\ pc = "parse" /\ ~ HasLine
  /\ pc' = "reply"
  /\ UNCHANGED <<connState, inputBuffer_, state_, request_, ok, answers, sent, wire, piped>>

-----------------------------------------------------------------------------
(* The rest of onMessage.  send and shutdown do nothing on a connection    *)
(* that is not kConnected any more.                                        *)

Reply(answer) ==
  /\ answers' = IF connState = "kConnected" THEN Append(answers, answer) ELSE answers
  /\ connState' = IF answer.close THEN "kDisconnecting" ELSE connState
  /\ pc' = "idle"

BadRequest ==
  /\ pc = "reply" /\ ~ ok
  /\ Reply([status |-> 400, asked |-> TRUE, close |-> TRUE])
  /\ ok' = TRUE
  /\ UNCHANGED <<inputBuffer_, state_, request_, sent, wire, piped>>

(* Mutant of Closes: the default of HTTP/1.0 is forgotten.                 *)
ClosesOnDemand(req) == req.connection = "close"

Closes(req) ==
  req.connection = "close" \/ (req.version = "kHttp10" /\ req.connection /= "Keep-Alive")

(* onRequest; httpCallback_ may change what the request asked for, as      *)
(* defaultHttpCallback does.                                               *)
OnRequest ==
  /\ pc = "reply" /\ ok /\ state_ = "kGotAll"
  /\ \E close \in BOOLEAN :
       Reply([status |-> 200, asked |-> Closes(request_), close |-> close])
  /\ state_' = "kExpectRequestLine"   \* reset
  /\ request_' = NewRequest
  /\ UNCHANGED <<inputBuffer_, ok, sent, wire, piped>>

NotYet ==
  /\ pc = "reply" /\ ok /\ state_ /= "kGotAll"
  /\ pc' = "idle"
  /\ UNCHANGED <<connState, inputBuffer_, state_, request_, ok, answers, sent, wire, piped>>

-----------------------------------------------------------------------------
Next ==
  \/ \E r \in Requests : ClientSend(r)
  \/ \E n \in 0..Len(wire) : OnMessage(n)
  \/ ParseRequestLine \/ ParseBadLine \/ ParseAborts \/ ParseHeader
  \/ ParseEnd \/ ParseNoLine
  \/ BadRequest \/ OnRequest \/ NotYet

Spec == Init /\ [][Next]_vars

-----------------------------------------------------------------------------
TypeOK ==
  /\ connState \in {"kConnected", "kDisconnecting"}
  /\ state_ \in {"kExpectRequestLine", "kExpectHeaders", "kGotAll"}
  /\ request_ \in [method : {"kInvalid", "set"},
                   version : {"kUnknown", "kHttp10", "kHttp11"},
                   connection : {"", "close", "Keep-Alive"}]
  /\ pc \in {"idle", "parse", "reply", "aborted"} /\ ok \in BOOLEAN /\ piped \in BOOLEAN
  /\ inputBuffer_ \in Seq(Lines) /\ wire \in Seq(Lines)
  /\ sent \in Seq(Requests) /\ Len(sent) <= MaxRequests
  /\ answers \in Seq([status : {200, 400}, asked : BOOLEAN, close : BOOLEAN])

(* What the client's request asks for, seen as a whole: the last of its    *)
(* Connection headers, or else the default of its version.                 *)
WantsClose(r) ==
  LET conn == SelectSeq(r.headers, LAMBDA h : h /= "other")
  IN IF conn = <<>> THEN r.line = "get 1.0"
     ELSE conn[Len(conn)] = "close"

(* Wherever the network cuts the requests, answer i is the answer to       *)
(* request i: 400 for a bad one and for one that comes behind a body, and  *)
(* otherwise httpCallback_ is told to close exactly if that request asks   *)
(* for it (parseRequest 51-109, onRequest 75-89).  Nothing is sent after   *)
(* an answer that closes.  setMethod's assertion (HttpRequest.h:48) fails  *)
(* only on the first thing that is not a good request, and only if its     *)
(* method was good.                                                        *)
AnswersMatch ==
  /\ \A i \in DOMAIN answers :
       /\ answers[i].status = 200 <=> /\ i \in DOMAIN sent /\ sent[i].line \in GoodLines
                                      /\ i > 1 => sent[i - 1].body = <<>>
       /\ answers[i].status = 200 => answers[i].asked = WantsClose(sent[i])
       /\ answers[i].close => i = Len(answers)
  /\ pc = "aborted" => \E i \in DOMAIN sent :
                          /\ sent[i].line \in LateBad
                          /\ \A j \in 1..(i - 1) : sent[j].line \in GoodLines /\ sent[j].body = <<>>

(* A client that waits for each answer before it sends the next request    *)
(* has its answer as soon as the request has arrived.  For one that does   *)
(* not, onMessage (56-73) answers one request per piece received, and a    *)
(* request that came with the one before waits for more bytes.             *)
AnsweredAtOnce ==
  pc = "idle" /\ wire = <<>> /\ ~ piped /\ connState = "kConnected" =>
    Len(answers) = Len(sent)

(* What does not hold: a good request is never answered with 400, and      *)
(* setMethod's assertion never fails.                                      *)
GoodIsAccepted ==
  \A i \in DOMAIN answers :
    answers[i].status = 400 => i \in DOMAIN sent /\ sent[i].line \notin GoodLines
MethodSetOnce == pc /= "aborted"
=============================================================================
