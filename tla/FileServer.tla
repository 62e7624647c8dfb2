----------------------------- MODULE FileServer -----------------------------
(***************************************************************************)
(* The file server (src/fileServer/fileServer.cc): onMessage, run by the   *)
(* IO threads of several connections at once over one directory and one    *)
(* passwordMap, which no lock protects.                                    *)
(*                                                                         *)
(* A frame on the wire is two units, its length and its content; an UPLOAD *)
(* is two frames, the request and the data.  The network cuts the stream   *)
(* anywhere between units.  A content is a sequence of bytes, one of which *)
(* may be NUL, and is short of the 1000 bytes whose length no longer fits  *)
(* the four characters of a download's header.                             *)
(***************************************************************************)
EXTENDS Naturals, Sequences, SequencesExt

CONSTANTS
  Conns,      \* connections, each on an IO thread of its own
  Names,      \* file names
  BadNames,   \* names that cannot be opened for writing
  Unreadable, \* names that cannot be opened for reading
  Passwords,
  Bytes, Nul, \* what files are made of
  Contents,   \* what is uploaded
  Scripts     \* what the clients may send: functions from Conns to requests

Request ==
  [op : {"UPLOAD"}, name : Names, password : Passwords, data : Contents]
    \cup [op : {"DOWNLOAD"}, name : Names, password : Passwords]
    \cup [op : {"OTHER"}]

ASSUME ContentsAssumption == Nul \in Bytes /\ Contents \subseteq Seq(Bytes)
ASSUME ScriptsAssumption == \A s \in Scripts : s \in [Conns -> Seq(Request)]

VARIABLES
  script,       \* what each client sends, fixed at the start
  together,     \* does data always arrive with its UPLOAD? fixed at the start
  wire,         \* per connection: units not yet received
  buf,          \* per connection: units in the input buffer
  pc,           \* per connection: "loop" (not in onMessage), "frame" (29),
                \*   "data" (63), "record" and "recording" (77), "lookup" and
                \*   "looking" (96), "open" (106), "read" (118)
  request,      \* per connection: the request in hand
  got,          \* per connection: what its ifstream has read
  file,         \* per name: the bytes on disk
  passwordMap,  \* per name
  replies,      \* per connection: what was sent
  begun, ended, \* per name: uploads that opened the file, that are through
  since         \* per connection: ended, when its download was granted

vars == <<script, together, wire, buf, pc, request, got, file, passwordMap, replies,
          begun, ended, since>>

None == "none"      \* no such key

LenOf(r)  == [unit |-> "len", of |-> r]
BodyOf(r) == [unit |-> "body", of |-> r]
DataLen   == [unit |-> "dataLen"]
DataOf(r) == [unit |-> "data", of |-> r.data]

Frames(r) ==
  <<LenOf(r), BodyOf(r)>> \o (IF r.op = "UPLOAD" THEN <<DataLen, DataOf(r)>> ELSE <<>>)

Init ==
  /\ script \in Scripts /\ together \in BOOLEAN
  /\ wire = [c \in Conns |-> FlattenSeq([i \in DOMAIN script[c] |-> Frames(script[c][i])])]
  /\ buf = [c \in Conns |-> <<>>]
  /\ pc = [c \in Conns |-> "loop"]
  /\ request = [c \in Conns |-> [op |-> "OTHER"]]
  /\ got = [c \in Conns |-> <<>>]
  /\ file = [n \in Names |-> <<>>]
  /\ passwordMap = [n \in Names |-> None]
  /\ replies = [c \in Conns |-> <<>>]
  /\ begun = [n \in Names |-> 0] /\ ended = [n \in Names |-> 0]
  /\ since = [c \in Conns |-> 0]

Retrieved(c) == [buf EXCEPT ![c] = SubSeq(@, 3, Len(@))]

At(c, p) == pc[c] = p /\ UNCHANGED <<script, together>>
Go(c, p) == pc' = [pc EXCEPT ![c] = p]
Reply(c, r) == replies' = [replies EXCEPT ![c] = Append(@, r)]

Whole(c) == Len(buf[c]) >= 2

(* What string(buffer) makes of s: it ends at the first NUL.               *)
CString(s) ==
  LET nuls == {i \in DOMAIN s : s[i] = Nul}
  IN IF nuls = {} THEN s ELSE SubSeq(s, 1, (CHOOSE i \in nuls : \A j \in nuls : i <= j) - 1)

(* A write of new at offset 0 of a file that holds old.                    *)
Overwrite(old, new) == new \o SubSeq(old, Len(new) + 1, Len(old))

histVars == <<begun, ended, since>>

-----------------------------------------------------------------------------
(* handleRead got k units; an UPLOAD is not cut off from its data when     *)
(* the network keeps them together.                                        *)
Receive(c, k) ==
  LET units == buf[c] \o SubSeq(wire[c], 1, k)
      last == units[Len(units)]
  IN /\ At(c, "loop")
     /\ together => last.unit /= "dataLen" /\ ~ (last.unit = "body" /\ last.of.op = "UPLOAD")
     /\ buf' = [buf EXCEPT ![c] = units]
     /\ wire' = [wire EXCEPT ![c] = SubSeq(@, k + 1, Len(@))]
     /\ Go(c, "frame")
     /\ UNCHANGED <<request, got, file, passwordMap, replies, histVars>>

(* No complete frame: onMessage returns.                                   *)
FrameShort(c) ==
  /\ At(c, "frame") /\ ~ Whole(c)
  /\ Go(c, "loop")
  /\ UNCHANGED <<wire, buf, request, got, file, passwordMap, replies, histVars>>

Message(c, op) ==
  /\ At(c, "frame") /\ Whole(c)
  /\ buf[c][2].unit = "body" /\ buf[c][2].of.op = op

(* Mutant of UploadOpen: records the password before there is a file.      *)
UploadOpenRecords(c) ==
  LET r == buf[c][2].of
  IN /\ Message(c, "UPLOAD") /\ r.name \notin BadNames
     /\ file' = [file EXCEPT ![r.name] = <<>>]
     /\ begun' = [begun EXCEPT ![r.name] = @ + 1]
     /\ passwordMap' = [passwordMap EXCEPT ![r.name] = r.password]
     /\ request' = [request EXCEPT ![c] = r]
     /\ buf' = Retrieved(c)
     /\ Go(c, "data")
     /\ UNCHANGED <<wire, got, replies, ended, since>>

(* Opening the file truncates it.                                          *)
UploadOpen(c) ==
  LET r == buf[c][2].of
  IN /\ Message(c, "UPLOAD") /\ r.name \notin BadNames
     /\ file' = [file EXCEPT ![r.name] = <<>>]
     /\ begun' = [begun EXCEPT ![r.name] = @ + 1]
     /\ request' = [request EXCEPT ![c] = r]
     /\ buf' = Retrieved(c)
     /\ Go(c, "data")
     /\ UNCHANGED <<wire, got, passwordMap, replies, ended, since>>

(* The file does not open: returns, and leaves the request in the buffer.  *)
UploadOpenFails(c) ==
  /\ Message(c, "UPLOAD") /\ buf[c][2].of.name \in BadNames
  /\ Go(c, "loop")
  /\ UNCHANGED <<wire, buf, request, got, file, passwordMap, replies, histVars>>

(* The two waits end when the data is there; nobody else can put it there. *)
(* close() writes it, over what another upload may have written meanwhile. *)
UploadWrite(c) ==
  /\ At(c, "data") /\ Whole(c)
  /\ file' = [file EXCEPT ![request[c].name] = Overwrite(@, buf[c][2].of)]
  /\ Go(c, "record")
  /\ UNCHANGED <<wire, buf, request, got, passwordMap, replies, histVars>>

(* An access to passwordMap begins; its effect is in the step after.       *)
EnterMap(c) ==
  /\ \/ At(c, "record") /\ Go(c, "recording")
     \/ At(c, "lookup") /\ Go(c, "looking")
  /\ UNCHANGED <<wire, buf, request, got, file, passwordMap, replies, histVars>>

(* Mutant of UploadRecord: retrieves its own frame and the next one.       *)
UploadRecordTwice(c) ==
  /\ At(c, "recording")
  /\ passwordMap' = [passwordMap EXCEPT ![request[c].name] = request[c].password]
  /\ ended' = [ended EXCEPT ![request[c].name] = @ + 1]
  /\ Reply(c, [kind |-> "finished"])
  /\ buf' = [buf EXCEPT ![c] = SubSeq(@, 5, Len(@))]
  /\ Go(c, "frame")
  /\ UNCHANGED <<wire, request, got, file, begun, since>>

UploadRecord(c) ==
  /\ At(c, "recording")
  /\ passwordMap' = [passwordMap EXCEPT ![request[c].name] = request[c].password]
  /\ ended' = [ended EXCEPT ![request[c].name] = @ + 1]
  /\ Reply(c, [kind |-> "finished"])
  /\ buf' = Retrieved(c)
  /\ Go(c, "frame")
  /\ UNCHANGED <<wire, request, got, file, begun, since>>

Download(c) ==
  /\ Message(c, "DOWNLOAD")
  /\ request' = [request EXCEPT ![c] = buf[c][2].of]
  /\ Go(c, "lookup")
  /\ UNCHANGED <<wire, buf, got, file, passwordMap, replies, histVars>>

Granted(c) == passwordMap[request[c].name] = request[c].password

DownloadRefused(c) ==
  /\ At(c, "looking") /\ ~ Granted(c)
  /\ Reply(c, [kind |-> "refused"])
  /\ buf' = Retrieved(c)
  /\ Go(c, "frame")
  /\ UNCHANGED <<wire, request, got, file, passwordMap, histVars>>

DownloadGranted(c) ==
  /\ At(c, "looking") /\ Granted(c)
  /\ since' = [since EXCEPT ![c] = ended[request[c].name]]
  /\ Go(c, "open")
  /\ UNCHANGED <<wire, buf, request, got, file, passwordMap, replies, begun, ended>>

DownloadOpen(c) ==
  /\ At(c, "open") /\ request[c].name \notin Unreadable
  /\ got' = [got EXCEPT ![c] = <<>>]
  /\ Go(c, "read")
  /\ UNCHANGED <<wire, buf, request, file, passwordMap, replies, histVars>>

(* The file does not open: returns, and leaves the request in the buffer.  *)
DownloadOpenFails(c) ==
  /\ At(c, "open") /\ request[c].name \in Unreadable
  /\ Go(c, "loop")
  /\ UNCHANGED <<wire, buf, request, got, file, passwordMap, replies, histVars>>

(* What the file holds behind the bytes read so far.                       *)
Unread(c) == SubSeq(file[request[c].name], Len(got[c]) + 1, Len(file[request[c].name]))

(* fin.read reads what is there, and again until it finds the end.         *)
DownloadRead(c) ==
  /\ At(c, "read") /\ Unread(c) /= <<>>
  /\ got' = [got EXCEPT ![c] = @ \o Unread(c)]
  /\ UNCHANGED <<wire, buf, pc, request, file, passwordMap, replies, histVars>>

(* The end of the file: the number of bytes read and the bytes are sent.   *)
DownloadEnd(c) ==
  /\ At(c, "read") /\ Unread(c) = <<>>
  /\ Reply(c, [kind |-> "data", count |-> Len(got[c]), data |-> CString(got[c]),
               for |-> request[c], from |-> since[c], upto |-> begun[request[c].name]])
  /\ buf' = Retrieved(c)
  /\ Go(c, "frame")
  /\ UNCHANGED <<wire, request, got, file, passwordMap, histVars>>

(* A message of any other kind is dropped.                                 *)
Other(c) ==
  /\ Message(c, "OTHER")
  /\ buf' = Retrieved(c)
  /\ UNCHANGED <<wire, pc, request, got, file, passwordMap, replies, histVars>>

-----------------------------------------------------------------------------
OnMessage(c) ==
  \/ FrameShort(c) \/ Other(c) \/ EnterMap(c)
  \/ UploadOpen(c) \/ UploadOpenFails(c) \/ UploadWrite(c) \/ UploadRecord(c)
  \/ Download(c) \/ DownloadRefused(c) \/ DownloadGranted(c)
  \/ DownloadOpen(c) \/ DownloadOpenFails(c) \/ DownloadRead(c) \/ DownloadEnd(c)

Arrival(c) == \E k \in 1..Len(wire[c]) : Receive(c, k)

Next == \E c \in Conns : Arrival(c) \/ OnMessage(c)

(* The IO threads run, and what a client sent arrives.                     *)
Spec ==
  /\ Init /\ [][Next]_vars
  /\ \A c \in Conns : WF_vars(Arrival(c)) /\ WF_vars(OnMessage(c))

-----------------------------------------------------------------------------
(* Properties.                                                             *)

Asked(c) == SelectSeq(script[c], LAMBDA r : r.op /= "OTHER")
UploadsTo(n, c) == SelectSeq(script[c], LAMBDA r : r.op = "UPLOAD" /\ r.name = n)

(* However the stream is cut, the replies on a connection answer its       *)
(* requests one by one and in order (onMessage 29-152).                    *)
RepliesMatch ==
  \A c \in Conns :
    /\ Len(replies[c]) <= Len(Asked(c))
    /\ \A i \in DOMAIN replies[c] :
         /\ replies[c][i].kind = "finished" <=> Asked(c)[i].op = "UPLOAD"
         /\ replies[c][i].kind = "data" => replies[c][i].for = Asked(c)[i]

(* P(a, us) for every download a of a name that one connection uploads, us *)
(* being its uploads, in the order it makes them.                          *)
OfEveryDownload(P(_, _)) ==
  \A c, w \in Conns : \A i \in DOMAIN replies[c] :
    LET a == replies[c][i]
    IN a.kind = "data" /\ (\A d \in Conns \ {w} : UploadsTo(a.for.name, d) = <<>>)
         => P(a, UploadsTo(a.for.name, w))

(* A download is granted on the password of the last upload that was       *)
(* through, never on that of a file still being written, though the two    *)
(* run in different threads: the password is recorded last (53-77).  If no *)
(* upload of the name began before it ended, it sends the size and, up to  *)
(* a NUL, the bytes of that upload (96-136).  Otherwise each byte is, in   *)
(* its place, that upload's or a later one's.                              *)
DownloadsMatch ==
  OfEveryDownload(LAMBDA a, us :
    /\ a.from > 0 /\ us[a.from].password = a.for.password
    /\ a.upto = a.from => /\ a.count = Len(us[a.from].data)
                          /\ a.data = CString(us[a.from].data)
    /\ \A k \in DOMAIN a.data : \E j \in a.from..a.upto :
         k \in DOMAIN us[j].data /\ us[j].data[k] = a.data[k])

(* Two threads access passwordMap at once and one of them writes:          *)
(* undefined.                                                              *)
MapRace ==
  \E c, d \in Conns :
    c /= d /\ pc[c] = "recording" /\ pc[d] \in {"recording", "looking"}

(* No two threads are at passwordMap when one of them writes (77, 96).     *)
NoMapRace == ~ MapRace

(* If data always arrives with its UPLOAD, and its files can be opened, a  *)
(* client gets an answer to every request (61-73, 108-112, 151).           *)
EveryRequestAnswered ==
  \A c \in Conns :
    together /\ (\A r \in ToSet(Asked(c)) :
                   r.name \notin IF r.op = "UPLOAD" THEN BadNames ELSE Unreadable)
      ~> Len(replies[c]) = Len(Asked(c))

(* What does not hold: a client gets an answer to every request, and all   *)
(* the bytes of a file; a download has the bytes of one upload.            *)
AnsweredAnyway == \A c \in Conns : <>(Len(replies[c]) = Len(Asked(c)))
DownloadsAreWhole ==
  OfEveryDownload(LAMBDA a, us : a.upto = a.from => a.data = us[a.from].data)
DownloadsAreOneUpload ==
  OfEveryDownload(LAMBDA a, us : \E j \in DOMAIN us : a.data = CString(us[j].data))
=============================================================================
