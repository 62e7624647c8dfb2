---------------------------- MODULE MCFileServer ----------------------------
(* Instances of FileServer small enough for TLC.                           *)
EXTENDS FileServer, TLC

CONSTANTS c1, c2, n1, n2, bad, hidden, p1, p2, x, y

Up(n, p, d) == [op |-> "UPLOAD", name |-> n, password |-> p, data |-> d]
Down(n, p) == [op |-> "DOWNLOAD", name |-> n, password |-> p]
Junk == [op |-> "OTHER"]

(* Contents of different lengths, one of them with a NUL in it.            *)
D1 == <<x>>
D2 == <<y, y>>
D3 == <<x, Nul, x>>
MCContents == {D1, D2, D3}

(* Uploads met by downloads with the right and the wrong password, two     *)
(* uploads at once, names that cannot be opened, and an upload repeated    *)
(* with a shorter and a longer content.                                    *)
MCScripts ==
  {(c1 :> <<Up(n1, p1, D1), Down(n1, p1), Up(n2, p2, D3)>>)
     @@ (c2 :> <<Junk, Down(n1, p1), Down(n1, p2)>>),
   (c1 :> <<Up(n1, p1, D1), Up(n2, p2, D3)>>) @@ (c2 :> <<Down(n2, p2), Down(n1, p1)>>),
   (c1 :> <<Up(n1, p1, D1), Down(n2, p2)>>) @@ (c2 :> <<Up(n2, p2, D2), Down(n1, p1)>>),
   (c1 :> <<Up(n1, p1, D1), Up(bad, p1, D1), Junk>>) @@ (c2 :> <<Down(n1, p1), Down(bad, p1)>>),
   (c1 :> <<Up(hidden, p1, D1), Down(hidden, p1)>>) @@ (c2 :> <<Down(hidden, p1), Junk>>),
   (c1 :> <<Up(n1, p1, D1), Up(n1, p2, D2)>>) @@ (c2 :> <<Down(n1, p1), Down(n1, p2)>>),
   (c1 :> <<Up(n1, p1, D2), Up(n1, p1, D1)>>) @@ (c2 :> <<Down(n1, p1), Up(n2, p2, D3)>>)}
=============================================================================
