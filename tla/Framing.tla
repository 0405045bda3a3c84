------------------------------- MODULE Framing -------------------------------
(***************************************************************************)
(* One connection as two streams of bytes.  Requests and responses have    *)
(* fixed-size parts.  The client writes each part with one write_some, and *)
(* each end reads a part, or two, with one recv or read_some, whose result *)
(* it takes for the whole.                                                 *)
(*                                                                         *)
(* A byte knows the part it belongs to, so what an end takes for a header  *)
(* can be compared with what the other end sent as one.  Bytes that are no *)
(* header carry the id of no client and the code of no request.            *)
(***************************************************************************)
EXTENDS Integers, Sequences, FiniteSets

CONSTANTS
    Length,     \* how many bytes each part has
    CodeLength, \* how many bytes of a response's header end with its code
    Networks,   \* what a connection may do, see Network
    NUMBER_OF_FILE_SENDING

Requests == {"register", "key", "file", "ok", "err", "final"}   \* by header
Responses == {"registered", "refused", "keys", "cksum", "received"}
UpParts == Requests \cup {"payload", "item", "empty", "name", "badname", "content",
                          "filename", "otherfile"}
DownParts == Responses \cup {"id", "cipher", "size", "samename", "sum", "othersum"}
Parts == UpParts \cup DownParts

SessionReads == {"header", "payload", "item", "content", "filename"}
ClientReads == {"head", "id", "cipher", "size", "samename", "sum"}

Network ==
    [split : BOOLEAN,   \* may a request arrive one send after the other?
     short : SUBSET (SessionReads \cup ClientReads \cup
               {"write"}),    \* the reads that may return less than has arrived;
                              \* and may the content be written in part?
     faults : SUBSET
        {"name",        \* the name of the file to send is not UTF-8
         "reload",      \* the file cannot be loaded a second time
         "key",         \* another run replaces the AES key of this client
         "select"}]     \* client_exists_by_id fails

HeaderLength == Length["register"]
HeadLength == Length["registered"]
NameLength == Length["name"]

ASSUME LengthAssumption ==
    /\ Length \in [Parts -> Nat \ {0}]
    /\ \A r \in Requests : Length[r] = HeaderLength
    /\ \A r \in Responses : Length[r] = HeadLength
    /\ \A n \in {"badname", "filename", "otherfile", "samename"} : Length[n] = NameLength
    /\ Length["empty"] = Length["item"]
    /\ Length["othersum"] = Length["sum"]
    /\ CodeLength \in 1..(HeadLength - 1)

ASSUME DeliveryAssumption ==
    /\ Networks \subseteq Network
    /\ NUMBER_OF_FILE_SENDING \in Nat \ {0}

VARIABLES
    network, \* what this connection does
    up,      \* bytes sent and not yet received by the session
    down,    \* bytes sent and not yet received by the client
    out,     \* bytes of the client's request that are still to be sent
    cstate,  \* the request that the client made last, or "done"
    want,    \* the part of its response that the client reads next
    code,    \* the code of that response
    id,      \* the client id that the client has: none, its own or another
    trials,  \* numberOfTrialsTOSendFile
    name,    \* the file name that the client got with the checksum
    sstate,  \* what the session reads next
    req,     \* the request the session is handling
    whole,   \* did the session get all of the last payload or content?
    stored,  \* what the server has of the file
    marked   \* what it had when it marked it verified

client == <<out, cstate, want, code, id, trials, name>>
session == <<sstate, req, whole, stored, marked>>
vars == <<network, up, down, client, session>>

Bytes(part) == [k \in 1..Length[part] |-> <<part, k>>]
Byte == Parts \X (Nat \ {0})

\* Every variable has its type.
TypeOK ==
    /\ network \in Networks
    /\ up \in Seq(Byte) /\ down \in Seq(Byte) /\ out \in Seq(Byte)
    /\ cstate \in Requests \cup {"done"}
    /\ want \in {"head", "id", "cipher", "unknown", "size", "samename", "sum", "none"}
    /\ code \in Responses \cup {"none"}
    /\ id \in {"none", "own", "other"}
    /\ trials \in 1..NUMBER_OF_FILE_SENDING
    /\ name \in {"filename", "otherfile"}
    /\ sstate \in {"header", "payload", "handle", "content", "closed"}
    /\ req \in Requests \cup {"junk", "none"}
    /\ whole \in BOOLEAN
    /\ stored \in {"nothing", "file", "other"}
    /\ marked \in {"nothing", "file", "other"}

\* The client has connected and made its first request; with or without a
\* client id in its me.info.
Init ==
    /\ network \in Networks
    /\ up = <<>> /\ down = <<>>
    /\ out = Bytes("register") \o Bytes("payload")
    /\ cstate = "register"
    /\ want = "head"
    /\ code = "none"
    /\ id \in {"none", "own"}
    /\ trials = 1
    /\ name = "filename"
    /\ sstate = "header"
    /\ req = "none"
    /\ whole = TRUE
    /\ stored = "nothing"
    /\ marked = "nothing"

-----------------------------------------------------------------------------
(* The socket *)

Least(m, n) == IF m < n THEN m ELSE n
After(stream, n) == SubSeq(stream, n + 1, Len(stream))

\* What recv(n) may return, given what has arrived: nothing only at the end.
Received(stream, n, read) ==
    IF stream # <<>> /\ read \in network.short
    THEN {SubSeq(stream, 1, k) : k \in 1..Least(n, Len(stream))}
    ELSE {SubSeq(stream, 1, Least(n, Len(stream)))}

\* The session reads n bytes, unless it has to wait for them.
Recv(n, read, data) ==
    /\ up # <<>> \/ cstate = "done"
    /\ data \in Received(up, n, read)
    /\ up' = After(up, Len(data))

\* The client reads n bytes; when the session is gone, it gets none.
Read(n, read, data) ==
    /\ out = <<>>
    /\ want = read
    /\ down # <<>> \/ sstate = "closed"
    /\ data \in Received(down, n, read)
    /\ down' = After(down, Len(data))
    /\ UNCHANGED <<up, session>>

-----------------------------------------------------------------------------
(* What an end takes the bytes for that it got *)

\* The client reads into zeroed memory: if the bytes that are missing were
\* zeros, it has the whole part.  A part is never made of other bytes than its
\* own: so a checksum is told from whatever else is read for one.
MayBe(part, data) == data # <<>> /\ data = SubSeq(Bytes(part), 1, Len(data))

\* A name ends with zeros, and the session strips them at both ends: with the
\* first byte of the name the whole of it may have been read.
MayName(part, data) == data = Bytes(part) \/ \E k \in 1..Len(data) : data[k] = <<part, 1>>

\* A header in zeroed memory has its code once the bytes of that are there.  The
\* size after it, zero until then, is that of a payload in "keys" only.
HasCode(r, data) ==
    /\ Len(data) >= IF r = "keys" THEN CodeLength + 1 ELSE CodeLength
    /\ data = SubSeq(Bytes(r), 1, Len(data))

-----------------------------------------------------------------------------
(* The client *)

FileRequest(bad) ==
    Bytes("file") \o Bytes("item") \o Bytes(IF bad THEN "badname" ELSE "name")
      \o Bytes("content")

\* A FileItem of which nothing was set: the 255 bytes after its empty name
\* are whatever is in memory there.
EmptyFileRequest(bad) ==
    Bytes("file") \o Bytes("empty") \o Bytes(IF bad THEN "badname" ELSE "name")

Ask(request, bytes) ==
    /\ cstate' = request
    /\ out' = bytes
    /\ want' = "head"

\* main() returns.
Finish ==
    /\ cstate' = "done"
    /\ out' = <<>>
    /\ want' = "none"

\* The bytes up to the end of a write_some.
OneSend == CHOOSE n \in 1..Len(out) :
             /\ \A k \in 1..n : out[k][1] = out[1][1]
             /\ n < Len(out) => out[n + 1][1] # out[1][1]

\* sendRequestToServer.  What is sent to a closed session is lost.
SendPart ==
    /\ out # <<>>
    /\ LET n == IF network.split THEN OneSend ELSE Len(out)
       IN  /\ \E written \in IF "write" \in network.short /\ network.split /\ out[1][1] = "content"
                             THEN 1..n ELSE {n} :
                 up' = IF sstate = "closed" THEN up ELSE up \o SubSeq(out, 1, written)
           /\ out' = After(out, n)
    /\ UNCHANGED <<down, cstate, want, code, id, trials, name, session>>

\* handleResponse has returned: the next step of main(), for this client id.
Proceed(cid) ==
    IF cstate = "register" /\ cid # "none"
    THEN Ask("key", Bytes("key") \o Bytes("payload"))
    ELSE Finish

\* receiveResponseFromServer: the code and the size of the payload.  "none" is
\* the code of no response, and also that of "keys" if the size is not there ...
ReadHead ==
    /\ \E data \in Received(down, HeadLength, "head") :
          /\ Read(HeadLength, "head", data)
          /\ \/ code' \in {r \in Responses : HasCode(r, data)}
             \/ (\A r \in Responses : ~HasCode(r, data)) /\ code' = "none"
    /\ want' = "id"
    /\ UNCHANGED <<out, cstate, id, trials, name>>

\* ... the client id, which a client without one keeps ...
ReadId ==
    /\ \E data \in Received(down, Length["id"], "id") :
          /\ Read(Length["id"], "id", data)
          /\ IF cstate = "register" /\ code = "registered" /\ id = "none"
             THEN \/ MayBe("id", data) /\ id' = "own"
                  \/ data # Bytes("id") /\ id' = "other"
             ELSE UNCHANGED id
    /\ LET next == CASE code = "keys" -> "cipher"
                     [] code = "none" -> "unknown"
                     [] code = "cksum" -> "size"
                     [] OTHER -> "none"
       IN  IF next = "none" THEN Proceed(id')
           ELSE want' = next /\ UNCHANGED <<out, cstate>>
    /\ UNCHANGED <<code, trials, name>>

\* ... and the payload, of a size that is anything if the code was not one.
ReadUnknown ==
    /\ want = "unknown"
    /\ \E n \in 0..Len(down) : down' = After(down, n)
    /\ Proceed(id)
    /\ UNCHANGED <<up, code, id, trials, name, session>>

\* The name of a file, as it is sent: some are not UTF-8.
NameFaults == IF "name" \in network.faults THEN BOOLEAN ELSE {FALSE}

\* handleAESKeyFromServer; what is not the whole cipher cannot be decrypted.
\* Then sendFileToServer, unless there is no file.
ReadCipher ==
    /\ \E data \in Received(down, Length["cipher"], "cipher") :
          /\ Read(Length["cipher"], "cipher", data)
          /\ \/ /\ cstate = "key" /\ MayBe("cipher", data)
                /\ \E bad \in NameFaults : Ask("file", FileRequest(bad))
             \/ Proceed(id)
    /\ UNCHANGED <<code, id, trials, name>>

\* handleFileResponse: size, name ...
ReadSize ==
    /\ \E data \in Received(down, Length["size"], "size") : Read(Length["size"], "size", data)
    /\ want' = "samename"
    /\ UNCHANGED <<out, cstate, code, id, trials, name>>

ReadName ==
    /\ \E data \in Received(down, NameLength, "samename") :
          /\ Read(NameLength, "samename", data)
          /\ \/ MayName("samename", data) /\ name' = "filename"
             \/ data # Bytes("samename") /\ name' = "otherfile"
    /\ want' = "sum"
    /\ UNCHANGED <<out, cstate, code, id, trials>>

\* ... and checksum, with the request that follows from it.
CksumSucceededUnchecked(data) ==
    /\ Ask("ok", Bytes("ok") \o Bytes(name))
    /\ UNCHANGED trials

CksumSucceeded(data) ==
    /\ MayBe("sum", data)
    /\ Ask("ok", Bytes("ok") \o Bytes(name))
    /\ UNCHANGED trials

CksumFailedOffByOne(data) ==
    /\ data # Bytes("sum")
    /\ trials <= NUMBER_OF_FILE_SENDING
    /\ trials' = trials + 1
    /\ Ask("file", Bytes("err") \o Bytes(name) \o FileRequest(FALSE))

CksumFailed(data) ==
    /\ data # Bytes("sum")
    /\ trials < NUMBER_OF_FILE_SENDING
    /\ trials' = trials + 1
    /\ \E again \in {FileRequest(bad) : bad \in NameFaults}
                      \cup (IF "reload" \in network.faults
                           THEN {EmptyFileRequest(bad) : bad \in BOOLEAN} ELSE {}) :
          Ask("file", Bytes("err") \o Bytes(name) \o again)

CksumFailedFinally(data) ==
    /\ data # Bytes("sum")
    /\ trials >= NUMBER_OF_FILE_SENDING
    /\ trials' = 1
    /\ Ask("final", Bytes("final") \o Bytes(name))

ReadSum ==
    /\ \E data \in Received(down, Length["sum"], "sum") :
          /\ Read(Length["sum"], "sum", data)
          /\ CksumSucceeded(data) \/ CksumFailed(data) \/ CksumFailedFinally(data)
    /\ UNCHANGED <<code, id, name>>

ClientStep ==
    \/ SendPart
    \/ ReadHead \/ ReadId \/ ReadUnknown \/ ReadCipher
    \/ ReadSize \/ ReadName \/ ReadSum

-----------------------------------------------------------------------------
(* The session *)

Goto(l) == sstate' = l

\* conn.send, two of them for a checksum; the client reads no part across.
Reply(bytes) ==
    /\ down' = IF cstate = "done" THEN down ELSE down \o bytes
    /\ Goto("header")

Silent == Goto("header") /\ UNCHANGED down

ReadHeaderForEver ==
    /\ sstate = "header"
    /\ \E data \in Received(up, HeaderLength, "header") :
          /\ Recv(HeaderLength, "header", data)
          /\ \/ \E r \in Requests :
                   /\ data = Bytes(r)
                   /\ req' = r
                   /\ Goto(IF r \in {"register", "key"} THEN "payload" ELSE "handle")
             \/ /\ \A r \in Requests : data # Bytes(r)
                /\ UNCHANGED <<sstate, req>>
    /\ UNCHANGED <<down, client, whole, stored, marked>>

\* session: a header, or no bytes at the end, or too few for unpack, which
\* ends the session.
ReadHeader ==
    /\ sstate = "header"
    /\ \E data \in Received(up, HeaderLength, "header") :
          /\ Recv(HeaderLength, "header", data)
          /\ \/ \E r \in Requests :
                   /\ data = Bytes(r)
                   /\ req' = r
                   /\ Goto(IF r \in {"register", "key"} THEN "payload" ELSE "handle")
             \/ /\ Len(data) = HeaderLength
                /\ \A r \in Requests : data # Bytes(r)
                /\ req' = "junk"
                /\ Goto("payload")
             \/ /\ Len(data) < HeaderLength
                /\ Goto("closed")
                /\ UNCHANGED req
    /\ UNCHANGED <<down, client, whole, stored, marked>>

ReadPayloadButOne ==
    /\ sstate = "payload"
    /\ \E data \in Received(up, Length["payload"] - 1, "payload") :
          /\ Recv(Length["payload"] - 1, "payload", data)
          /\ whole' = (data = Bytes("payload"))
    /\ Goto("handle")
    /\ UNCHANGED <<down, client, req, stored, marked>>

\* The payload has the size in the header: anything if that was not one.
ReadPayload ==
    /\ sstate = "payload"
    /\ IF req = "junk"
       THEN /\ \E n \in 0..Len(up) : up' = After(up, n)
            /\ UNCHANGED whole
       ELSE \E data \in Received(up, Length["payload"], "payload") :
              /\ Recv(Length["payload"], "payload", data)
              /\ whole' = (data = Bytes("payload"))
    /\ Goto("handle")
    /\ UNCHANGED <<down, client, req, stored, marked>>

\* handle_client_doesnt_exit, which leaves the rest of the request unread;
\* also a registration of a name that exists.
Refuse ==
    /\ sstate = "handle"
    /\ req \in {"junk", "register"} \/ id # "own" \/ "select" \in network.faults
    /\ Reply(Bytes("refused") \o Bytes("id"))
    /\ UNCHANGED <<up, client, req, whole, stored, marked>>

Known(r) == sstate = "handle" /\ req = r /\ (id = "own" \/ r = "register")

\* handle_client_registration, of whatever name it got.
Register ==
    /\ Known("register")
    /\ Reply(Bytes("registered") \o Bytes("id"))
    /\ UNCHANGED <<up, client, req, whole, stored, marked>>

\* send_aes_key_to_client: unpacking a part of the payload fails.
SendKey ==
    /\ Known("key")
    /\ IF whole THEN Reply(Bytes("keys") \o Bytes("id") \o Bytes("cipher")) ELSE Silent
    /\ UNCHANGED <<up, client, req, whole, stored, marked>>

\* handle_file_request: one recv for two sends.  A part of it fails in unpack,
\* a bad name in decode, and no content in unpad.
ReadFileHeader ==
    /\ Known("file")
    /\ \E data \in Received(up, Length["item"] + NameLength, "item") :
          /\ Recv(Length["item"] + NameLength, "item", data)
          /\ Goto(IF data = Bytes("item") \o Bytes("name") THEN "content" ELSE "header")
    /\ UNCHANGED <<down, client, req, whole, stored, marked>>

\* process_file_content: decrypting a part, or with another key, fails or by
\* chance gives something.
ReadContent ==
    /\ sstate = "content"
    /\ \E data \in Received(up, Length["content"], "content") :
          /\ Recv(Length["content"], "content", data)
          /\ whole' = (data = Bytes("content"))
          /\ \/ /\ data = Bytes("content")
                /\ stored' = "file"
                /\ Reply(Bytes("cksum") \o Bytes("id") \o Bytes("size")
                            \o Bytes("samename") \o Bytes("sum"))
             \/ /\ data # Bytes("content") \/ "key" \in network.faults
                /\ stored' = "other"
                /\ Reply(Bytes("cksum") \o Bytes("id") \o Bytes("size")
                            \o Bytes("samename") \o Bytes("othersum"))
             \/ /\ data # Bytes("content") \/ "key" \in network.faults
                /\ Silent
                /\ UNCHANGED stored
    /\ UNCHANGED <<client, req, marked>>

\* handle_cksum_ok, handle_cksum_err and handle_cksum_err_final, for the file
\* whose name they get; what is not a name may fail in decode.
ReadFilename(r, answer, newStored, newMarked) ==
    /\ Known(r)
    /\ \E data \in Received(up, NameLength, "filename") :
          /\ Recv(NameLength, "filename", data)
          /\ \/ /\ MayName("filename", data)
                /\ stored' = newStored
                /\ marked' = newMarked
                /\ IF answer THEN Reply(Bytes("received") \o Bytes("id")) ELSE Silent
             \/ /\ data # Bytes("filename")
                /\ (answer /\ Reply(Bytes("received") \o Bytes("id"))) \/ Silent
                /\ UNCHANGED <<stored, marked>>
    /\ UNCHANGED <<client, req, whole>>

CksumOk == ReadFilename("ok", TRUE, stored, stored)
CksumErrUnread ==
    /\ Known("err")
    /\ Silent
    /\ UNCHANGED <<up, client, req, whole, stored, marked>>

CksumErrAnswered == ReadFilename("err", TRUE, stored, marked)

CksumErr == ReadFilename("err", FALSE, stored, marked)
CksumErrFinal == ReadFilename("final", TRUE, "nothing", "nothing")

SessionStep ==
    \/ ReadHeader \/ ReadPayload
    \/ Refuse \/ Register \/ SendKey
    \/ ReadFileHeader \/ ReadContent
    \/ CksumOk \/ CksumErr \/ CksumErrFinal

Next == (ClientStep \/ SessionStep) /\ UNCHANGED network

Spec == Init /\ [][Next]_vars

\* Neither end stops for good while it could go on.
FairSpec ==
    /\ Spec
    /\ WF_vars(ClientStep /\ UNCHANGED network)
    /\ WF_vars(SessionStep /\ UNCHANGED network)

-----------------------------------------------------------------------------
\* Requests arrive whole and are read whole, whatever happens to the responses.
RequestsWhole ==
    /\ ~network.split
    /\ network.short \cap (SessionReads \cup {"write"}) = {}

\* What the session takes for the header of a request was sent as one: every
\* handler that ends early, but for the two faults that stop handle_file_request
\* before the content (server.py:250, 504), has read all of its request.
InStep == RequestsWhole /\ network.faults \cap {"name", "select"} = {} => req # "junk"

\* The session gets each payload and each file whole, although it reads them
\* with one recv (server.py:190, 506).
ReadWhole == RequestsWhole => whole

\* What the client takes for a response answers the request it waits with, if
\* it gets the responses whole.
AnswerInStep ==
    /\ RequestsWhole /\ network.short = {} /\ network.faults \cap {"name", "select"} = {}
    /\ code # "none" /\ want # "head" /\ sstate # "closed"
    => code \in CASE cstate = "register" -> {"registered", "refused"}
                  [] cstate = "key" -> {"keys"}
                  [] cstate = "file" -> {"cksum"}
                  [] OTHER -> Responses

\* However the bytes arrive and whatever is lost of them, the server never
\* marks as verified what is not the client's file.
MarkedIsFile == marked # "other"

\* A session whose client is gone ends, whatever it was reading.
SessionEnds == cstate = "done" ~> sstate = "closed"
=============================================================================
