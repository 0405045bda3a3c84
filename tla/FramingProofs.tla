---------------------------- MODULE FramingProofs ----------------------------
(***************************************************************************)
(* Whatever the lengths of the parts, and however many tries: requests     *)
(* that arrive whole are read in step, answers find the client that waits  *)
(* for them, and nothing but the file of the client is marked verified.    *)
(***************************************************************************)
EXTENDS Framing, SequenceTheorems, WellFoundedInduction, TLAPS

-----------------------------------------------------------------------------
(* Sequences of bytes *)

\* The bytes of a part are numbered from 1 to its length.
LEMMA BytesOf ==
    ASSUME NEW part \in Parts
    PROVE  /\ Bytes(part) \in Seq(Byte)
           /\ Length[part] \in Nat \ {0} /\ Len(Bytes(part)) = Length[part]
           /\ \A k \in 1..Length[part] : Bytes(part)[k] = <<part, k>>
  BY LengthAssumption DEF Bytes, Byte

LEMMA LengthsOf ==
    /\ HeaderLength \in Nat \ {0} /\ HeadLength \in Nat \ {0} /\ NameLength \in Nat \ {0}
    /\ \A r \in Requests : Length[r] = HeaderLength
    /\ \A r \in Responses : Length[r] = HeadLength
    /\ \A n \in {"name", "badname", "filename", "otherfile", "samename"} : Length[n] = NameLength
    /\ Length["empty"] = Length["item"] /\ Length["othersum"] = Length["sum"]
    /\ \A p \in Parts : Length[p] \in Nat \ {0}
  BY LengthAssumption
     DEF HeaderLength, HeadLength, NameLength, Requests, Responses, Parts, UpParts, DownParts

LEMMA AllParts ==
    /\ Requests \subseteq Parts /\ Responses \subseteq Parts
    /\ {"payload", "item", "empty", "name", "badname", "content", "filename", "otherfile",
        "id", "cipher", "size", "samename", "sum", "othersum"} \subseteq Parts
  BY DEF Parts, UpParts, DownParts

\* What is left of a stream.
LEMMA AfterOf ==
    ASSUME NEW s \in Seq(Byte), NEW n \in 0..Len(s)
    PROVE  /\ After(s, n) \in Seq(Byte) /\ Len(After(s, n)) = Len(s) - n
           /\ \A i \in 1..(Len(s) - n) : After(s, n)[i] = s[n + i]
  BY DEF After

\* What is received is the beginning of the stream.
LEMMA ReceivedOf ==
    ASSUME NEW s \in Seq(Byte), NEW n \in Nat \ {0}, NEW read, NEW data \in Received(s, n, read)
    PROVE  /\ data \in Seq(Byte) /\ Len(data) \in 0..Len(s) /\ Len(data) <= n
           /\ \A k \in 1..Len(data) : data[k] = s[k]
           /\ s # <<>> => Len(data) > 0
           /\ read \notin network.short => Len(data) = Least(n, Len(s))
  <1>1. CASE s # <<>> /\ read \in network.short
    <2>1. PICK k \in 1..Least(n, Len(s)) : data = SubSeq(s, 1, k)
      BY <1>1 DEF Received
    <2>2. k \in 1..Len(s) /\ k <= n
      BY <2>1 DEF Least
    <2> QED
      BY <1>1, <2>1, <2>2
  <1>2. CASE ~(s # <<>> /\ read \in network.short)
    <2>1. data = SubSeq(s, 1, Least(n, Len(s)))
      BY <1>2 DEF Received
    <2>2. Least(n, Len(s)) \in 0..Len(s) /\ Least(n, Len(s)) <= n
      BY DEF Least
    <2>3. s # <<>> => Least(n, Len(s)) > 0
      BY DEF Least
    <2> QED
      BY <2>1, <2>2, <2>3
  <1> QED
    BY <1>1, <1>2

\* The beginning of a part is told by its first byte.
LEMMA PrefixOf ==
    ASSUME NEW part \in Parts, NEW n \in 1..Length[part]
    PROVE  SubSeq(Bytes(part), 1, n)[1] = <<part, 1>>
  BY BytesOf

\* A header with a code begins that of the response with it; whole, it has it.
LEMMA CodeOf ==
    /\ \A r \in Responses : \A data \in Seq(Byte) :
          HasCode(r, data) /\ Len(data) <= HeadLength =>
              Len(data) \in 1..HeadLength /\ data[1] = <<r, 1>>
    /\ \A r \in Responses : HasCode(r, Bytes(r))
  <1>1. ASSUME NEW r \in Responses
        PROVE  /\ r \in Parts /\ Length[r] = HeadLength /\ Bytes(r) \in Seq(Byte)
               /\ Len(Bytes(r)) = HeadLength /\ HeadLength \in Nat
               /\ CodeLength \in Nat \ {0} /\ CodeLength + 1 <= HeadLength
    <2>1. r \in Parts /\ Length[r] = HeadLength /\ HeadLength \in Nat \ {0}
      BY AllParts, LengthsOf
    <2>2. CodeLength \in Nat \ {0} /\ CodeLength + 1 <= HeadLength
      BY <2>1, LengthAssumption
    <2> QED
      BY <2>1, <2>2, BytesOf
  <1>2. ASSUME NEW r \in Responses, NEW data \in Seq(Byte), HasCode(r, data),
               Len(data) <= HeadLength
        PROVE  Len(data) \in 1..HeadLength /\ data[1] = <<r, 1>>
    <2>1. Len(data) \in 1..HeadLength
      BY <1>1, <1>2 DEF HasCode
    <2> QED
      BY <1>1, <1>2, <2>1, PrefixOf DEF HasCode
  <1>3. ASSUME NEW r \in Responses PROVE HasCode(r, Bytes(r))
    <2> DEFINE b == Bytes(r)
    <2>1. b \in Seq(Byte) /\ Len(b) = HeadLength
      BY <1>1
    <2>2. Len(b) >= CodeLength + 1 /\ Len(b) >= CodeLength
      BY <1>1, <2>1
    <2> HIDE DEF b
    <2>3. b = SubSeq(b, 1, Len(b))
      BY <2>1
    <2> QED
      BY <2>2, <2>3 DEF HasCode, b
  <1> QED
    BY <1>2, <1>3

\* The program always has a write to finish: the first byte of another part, or
\* the end, is at some first place.
LEMMA OneSendOf ==
    ASSUME out \in Seq(Byte), out # <<>>
    PROVE  OneSend \in 1..Len(out)
  <1> DEFINE Less == {ss \in Nat \X Nat : ss[1] < ss[2]}
             Ends == {n \in 1..Len(out) : n = Len(out) \/ out[n + 1][1] # out[1][1]}
  <1>1. IsWellFoundedOn(Less, Nat)
    BY NatLessThanWellFounded DEF OpToRel
  <1>2. Len(out) \in Ends /\ Ends \subseteq Nat /\ Len(out) \in Nat \ {0}
    OBVIOUS
  <1>3. \E n \in Ends : \A m \in Ends : <<m, n>> \notin Less
    <2> HIDE DEF Less, Ends
    <2> QED
      BY <1>1, <1>2, WFMin
  <1>4. PICK n \in Ends : \A m \in Ends : ~(m < n)
    BY <1>2, <1>3
  <1>5. ASSUME NEW k \in 1..n
        PROVE  out[k][1] = out[1][1]
    <2>1. CASE k = 1
      BY <2>1
    <2>2. CASE k # 1
      <3>1. k - 1 \in 1..Len(out) /\ k - 1 < n /\ k - 1 # Len(out)
        BY <1>2, <2>2
      <3>2. k - 1 \notin Ends
        BY <1>4, <3>1
      <3> QED
        BY <3>1, <3>2
    <2> QED
      BY <2>1, <2>2
  <1> QED
    BY <1>4, <1>5, Zenon DEF OneSend

-----------------------------------------------------------------------------
(* Types *)

LEMMA RequestTypes ==
    /\ \A bad \in BOOLEAN : FileRequest(bad) \in Seq(Byte) /\ EmptyFileRequest(bad) \in Seq(Byte)
    /\ \A p, q \in Parts : Bytes(p) \o Bytes(q) \in Seq(Byte)
  <1>1. \A p \in Parts : Bytes(p) \in Seq(Byte)
    BY BytesOf
  <1>2. \A s, t \in Seq(Byte) : s \o t \in Seq(Byte)
    OBVIOUS
  <1> QED
    BY <1>1, <1>2, AllParts DEF FileRequest, EmptyFileRequest, Requests

\* What one end reads from a stream leaves a stream.
LEMMA ReadTypes ==
    ASSUME TypeOK, NEW n \in Nat \ {0}, NEW read, NEW data \in Received(down, n, read),
           Read(n, read, data)
    PROVE  down' \in Seq(Byte)
  BY ReceivedOf, AfterOf DEF Read, TypeOK

LEMMA RecvTypes ==
    ASSUME TypeOK, NEW n \in Nat \ {0}, NEW read, NEW data \in Received(up, n, read),
           Recv(n, read, data)
    PROVE  up' \in Seq(Byte)
  BY ReceivedOf, AfterOf DEF Recv, TypeOK

LEMMA ProceedTypes ==
    ASSUME TypeOK, NEW cid, Proceed(cid)
    PROVE  cstate' \in Requests \cup {"done"} /\ out' \in Seq(Byte) /\ want' \in {"head", "none"}
  <1>1. Bytes("key") \o Bytes("payload") \in Seq(Byte) /\ <<>> \in Seq(Byte)
    BY RequestTypes, AllParts DEF Requests
  <1> QED
    BY <1>1 DEF Proceed, Ask, Finish, Requests

LEMMA SendTypes ==
    ASSUME TypeOK, SendPart
    PROVE  up' \in Seq(Byte) /\ out' \in Seq(Byte)
  <1>1. out \in Seq(Byte) /\ up \in Seq(Byte) /\ out # <<>> /\ Len(out) \in 1..Len(out)
    BY DEF TypeOK, SendPart
  <1>2. PICK n \in 1..Len(out) : \E written \in 1..n :
            /\ up' = IF sstate = "closed" THEN up ELSE up \o SubSeq(out, 1, written)
            /\ out' = After(out, n)
    BY <1>1, OneSendOf DEF SendPart
  <1>3. \A written \in 1..n : SubSeq(out, 1, written) \in Seq(Byte)
    BY <1>1
  <1> QED
    BY <1>1, <1>2, <1>3, AfterOf

LEMMA ClientTypes ==
    ASSUME TypeOK, ClientStep, UNCHANGED network
    PROVE  TypeOK'
  <1> USE LengthsOf
  <1>1. CASE SendPart
    BY <1>1, SendTypes DEF SendPart, TypeOK, session
  <1>2. CASE ReadHead
    <2>1. down' \in Seq(Byte)
      BY <1>2, ReadTypes DEF ReadHead
    <2> QED
      BY <1>2, <2>1 DEF ReadHead, Read, TypeOK, session
  <1>3. CASE ReadId
    <2>1. down' \in Seq(Byte) /\ id' \in {"none", "own", "other"}
      <3>1. Length["id"] \in Nat \ {0}
        BY AllParts
      <3> QED
        BY <1>3, <3>1, ReadTypes DEF ReadId, TypeOK
    <2>2. \/ Proceed(id')
          \/ want' \in {"cipher", "unknown", "size"} /\ UNCHANGED <<out, cstate>>
      BY <1>3 DEF ReadId
    <2>3. /\ cstate' \in Requests \cup {"done"} /\ out' \in Seq(Byte)
          /\ want' \in {"cipher", "unknown", "size", "head", "none"}
      BY <2>2, ProceedTypes DEF TypeOK
    <2>4. UNCHANGED <<up, session, code, trials, name>>
      BY <1>3 DEF ReadId, Read
    <2> QED
      BY <2>1, <2>3, <2>4 DEF TypeOK, session
  <1>4. CASE ReadUnknown
    <2>1. down' \in Seq(Byte)
      BY <1>4, AfterOf DEF ReadUnknown, TypeOK
    <2> QED
      BY <1>4, <2>1, ProceedTypes DEF ReadUnknown, TypeOK, session
  <1>5. CASE ReadCipher
    <2>1. down' \in Seq(Byte)
      <3>1. Length["cipher"] \in Nat \ {0}
        BY AllParts
      <3> QED
        BY <1>5, <3>1, ReadTypes DEF ReadCipher
    <2>2. /\ cstate' \in Requests \cup {"done"} /\ out' \in Seq(Byte)
          /\ want' \in {"head", "none"}
      BY <1>5, RequestTypes, ProceedTypes DEF ReadCipher, Ask, NameFaults, Requests
    <2> QED
      BY <1>5, <2>1, <2>2 DEF ReadCipher, Read, TypeOK, session
  <1>6. CASE ReadSize
    <2>1. down' \in Seq(Byte)
      <3>1. Length["size"] \in Nat \ {0}
        BY AllParts
      <3> QED
        BY <1>6, <3>1, ReadTypes DEF ReadSize
    <2> QED
      BY <1>6, <2>1 DEF ReadSize, Read, TypeOK, session
  <1>7. CASE ReadName
    <2>1. down' \in Seq(Byte)
      BY <1>7, ReadTypes DEF ReadName
    <2> QED
      BY <1>7, <2>1 DEF ReadName, Read, TypeOK, session
  <1>8. CASE ReadSum
    <2>1. PICK data : /\ data \in Received(down, Length["sum"], "sum")
                      /\ Read(Length["sum"], "sum", data)
                      /\ CksumSucceeded(data) \/ CksumFailed(data) \/ CksumFailedFinally(data)
      BY <1>8 DEF ReadSum
    <2>2. down' \in Seq(Byte)
      <3>1. Length["sum"] \in Nat \ {0}
        BY AllParts
      <3> QED
        BY <2>1, <3>1, ReadTypes
    <2>3. Bytes("err") \o Bytes(name) \in Seq(Byte) /\ Bytes("ok") \o Bytes(name) \in Seq(Byte)
            /\ Bytes("final") \o Bytes(name) \in Seq(Byte)
      BY RequestTypes, AllParts DEF TypeOK, Requests
    <2>4. /\ cstate' \in Requests /\ out' \in Seq(Byte) /\ want' = "head"
          /\ trials' \in 1..NUMBER_OF_FILE_SENDING
      <3>1. CASE CksumSucceeded(data)
        BY <2>3, <3>1 DEF CksumSucceeded, Ask, TypeOK, Requests
      <3>2. CASE CksumFailed(data)
        <4>1. PICK again \in {FileRequest(bad) : bad \in BOOLEAN}
                               \cup {EmptyFileRequest(bad) : bad \in BOOLEAN} :
                  Ask("file", Bytes("err") \o Bytes(name) \o again)
          BY <3>2 DEF CksumFailed, NameFaults
        <4>2. again \in Seq(Byte)
          BY RequestTypes
        <4>3. trials' \in 1..NUMBER_OF_FILE_SENDING
          BY <3>2, DeliveryAssumption DEF CksumFailed, TypeOK
        <4> QED
          BY <2>3, <4>1, <4>2, <4>3 DEF Ask, Requests
      <3>3. CASE CksumFailedFinally(data)
        BY <2>3, <3>3, DeliveryAssumption DEF CksumFailedFinally, Ask, TypeOK, Requests
      <3> QED
        BY <2>1, <3>1, <3>2, <3>3
    <2> QED
      BY <1>8, <2>1, <2>2, <2>4 DEF ReadSum, Read, TypeOK, session
  <1> QED
    BY <1>1, <1>2, <1>3, <1>4, <1>5, <1>6, <1>7, <1>8 DEF ClientStep

LEMMA ReplyTypes ==
    ASSUME TypeOK, NEW bytes \in Seq(Byte), Reply(bytes)
    PROVE  down' \in Seq(Byte)
  BY DEF Reply, TypeOK

LEMMA ResponseTypes ==
    /\ \A p, q \in Parts : Bytes(p) \o Bytes(q) \in Seq(Byte)
    /\ Bytes("keys") \o Bytes("id") \o Bytes("cipher") \in Seq(Byte)
    /\ \A sum \in {"sum", "othersum"} :
          Bytes("cksum") \o Bytes("id") \o Bytes("size") \o Bytes("samename") \o Bytes(sum)
              \in Seq(Byte)
  <1>1. \A p \in Parts : Bytes(p) \in Seq(Byte)
    BY BytesOf
  <1>2. \A s, t \in Seq(Byte) : s \o t \in Seq(Byte)
    OBVIOUS
  <1> QED
    BY <1>1, <1>2, AllParts DEF Responses

LEMMA SessionTypes ==
    ASSUME TypeOK, SessionStep, UNCHANGED network
    PROVE  TypeOK'
  <1> USE LengthsOf
  <1>1. CASE ReadHeader
    <2>1. up' \in Seq(Byte)
      BY <1>1, RecvTypes DEF ReadHeader
    <2> QED
      BY <1>1, <2>1 DEF ReadHeader, Goto, TypeOK, client
  <1>2. CASE ReadPayload
    <2>1. up' \in Seq(Byte)
      <3>1. Length["payload"] \in Nat \ {0}
        BY AllParts
      <3>2. CASE req = "junk"
        BY <1>2, <3>2, AfterOf DEF ReadPayload, TypeOK
      <3>3. CASE req # "junk"
        BY <1>2, <3>1, <3>3, RecvTypes DEF ReadPayload
      <3> QED
        BY <3>2, <3>3
    <2>2. whole' \in BOOLEAN
      BY <1>2 DEF ReadPayload, TypeOK
    <2> QED
      BY <1>2, <2>1, <2>2 DEF ReadPayload, Goto, TypeOK, client
  <1>3. CASE Refuse \/ Register \/ SendKey
    <2>1. down' \in Seq(Byte) /\ sstate' = "header"
      BY <1>3, ResponseTypes, ReplyTypes, AllParts
         DEF Refuse, Register, SendKey, Silent, Reply, Goto, TypeOK, Responses
    <2> QED
      BY <1>3, <2>1 DEF Refuse, Register, SendKey, TypeOK, client
  <1>4. CASE ReadFileHeader
    <2>1. up' \in Seq(Byte)
      <3>1. Length["item"] + NameLength \in Nat \ {0}
        BY AllParts
      <3> QED
        BY <1>4, <3>1, RecvTypes DEF ReadFileHeader
    <2> QED
      BY <1>4, <2>1 DEF ReadFileHeader, Goto, TypeOK, client
  <1>5. CASE ReadContent
    <2>1. up' \in Seq(Byte) /\ whole' \in BOOLEAN
      <3>1. Length["content"] \in Nat \ {0}
        BY AllParts
      <3> QED
        BY <1>5, <3>1, RecvTypes DEF ReadContent
    <2>2. /\ down' \in Seq(Byte) /\ sstate' = "header"
          /\ stored' \in {"nothing", "file", "other"}
      <3> DEFINE Answer(sum) == Bytes("cksum") \o Bytes("id") \o Bytes("size")
                                  \o Bytes("samename") \o Bytes(sum)
      <3>1. Answer("sum") \in Seq(Byte) /\ Answer("othersum") \in Seq(Byte)
        BY ResponseTypes
      <3>2. /\ Reply(Answer("sum")) \/ Reply(Answer("othersum")) \/ Silent
            /\ stored' \in {"file", "other", stored}
        BY <1>5 DEF ReadContent
      <3> HIDE DEF Answer
      <3> QED
        BY <3>1, <3>2, ReplyTypes DEF Reply, Silent, Goto, TypeOK
    <2> QED
      BY <1>5, <2>1, <2>2 DEF ReadContent, TypeOK, client
  <1>6. CASE CksumOk \/ CksumErr \/ CksumErrFinal
    <2>1. PICK r \in Requests, answer \in BOOLEAN, s, m \in {"nothing", "file", "other"} :
              ReadFilename(r, answer, s, m)
      BY <1>6 DEF CksumOk, CksumErr, CksumErrFinal, TypeOK, Requests
    <2>2. up' \in Seq(Byte)
      BY <2>1, RecvTypes DEF ReadFilename
    <2>3. stored' \in {"nothing", "file", "other"} /\ marked' \in {"nothing", "file", "other"}
      BY <2>1 DEF ReadFilename, TypeOK
    <2>4. down' \in Seq(Byte) /\ sstate' = "header"
      <3>1. Bytes("received") \o Bytes("id") \in Seq(Byte)
        BY ResponseTypes, AllParts DEF Responses
      <3> QED
        BY <2>1, <3>1, ReplyTypes DEF ReadFilename, Silent, Reply, Goto, TypeOK
    <2> QED
      BY <2>1, <2>2, <2>3, <2>4 DEF ReadFilename, TypeOK, client
  <1> QED
    BY <1>1, <1>2, <1>3, <1>4, <1>5, <1>6 DEF SessionStep

LEMMA InitTypes == Init => TypeOK
  <1>1. Init => whole \in BOOLEAN
    BY DEF Init
  <1> QED
    BY <1>1, RequestTypes, AllParts, DeliveryAssumption DEF Init, TypeOK, Requests

LEMMA NextTypes ==
    ASSUME TypeOK, [Next]_vars
    PROVE  TypeOK'
  BY ClientTypes, SessionTypes DEF Next, vars, client, session, TypeOK

\* Every variable has its type, however the bytes arrive.
THEOREM FramingTypes == Spec => []TypeOK
  BY InitTypes, NextTypes, PTL DEF Spec

-----------------------------------------------------------------------------
(* Where parts begin *)

Has(s, part) == \E i \in 1..Len(s) : s[i] = <<part, 1>>

Once(s, part) ==
    \A i, j \in 1..Len(s) : s[i] = <<part, 1>> /\ s[j] = <<part, 1>> => i = j

LEMMA HasBytes ==
    ASSUME NEW p \in Parts, NEW q
    PROVE  (Has(Bytes(p), q) <=> p = q) /\ Once(Bytes(p), q)
  BY BytesOf DEF Has, Once

LEMMA HasNothing ==
    ASSUME NEW q
    PROVE  ~Has(<<>>, q) /\ Once(<<>>, q)
  BY DEF Has, Once

LEMMA HasConcat ==
    ASSUME NEW s \in Seq(Byte), NEW t \in Seq(Byte), NEW q
    PROVE  /\ Has(s \o t, q) <=> Has(s, q) \/ Has(t, q)
           /\ ~Has(s, q) /\ Once(t, q) => Once(s \o t, q)
           /\ Once(s, q) /\ ~Has(t, q) => Once(s \o t, q)
  <1>1. /\ Len(s) \in Nat /\ Len(t) \in Nat /\ Len(s \o t) = Len(s) + Len(t)
        /\ \A i \in 1..Len(s) : (s \o t)[i] = s[i]
        /\ \A i \in 1..(Len(s) + Len(t)) : i > Len(s) => i - Len(s) \in 1..Len(t)
                                                 /\ (s \o t)[i] = t[i - Len(s)]
    OBVIOUS
  <1>2. \A i \in 1..Len(t) : Len(s) + i \in 1..Len(s \o t) /\ (s \o t)[Len(s) + i] = t[i]
    BY <1>1
  <1>3. ASSUME Has(s \o t, q) PROVE Has(s, q) \/ Has(t, q)
    <2>1. PICK i \in 1..(Len(s) + Len(t)) : (s \o t)[i] = <<q, 1>>
      BY <1>1, <1>3 DEF Has
    <2>2. CASE i <= Len(s)
      BY <1>1, <2>1, <2>2 DEF Has
    <2>3. CASE i > Len(s)
      <3>1. i - Len(s) \in 1..Len(t) /\ t[i - Len(s)] = <<q, 1>>
        BY <1>1, <2>1, <2>3
      <3> QED
        BY <3>1 DEF Has
    <2> QED
      BY <1>1, <2>2, <2>3
  <1>4. ASSUME Has(s, q) \/ Has(t, q) PROVE Has(s \o t, q)
    <2>1. CASE Has(s, q)
      <3>1. PICK i \in 1..Len(s) : s[i] = <<q, 1>>
        BY <2>1 DEF Has
      <3>2. i \in 1..Len(s \o t) /\ (s \o t)[i] = <<q, 1>>
        BY <1>1, <3>1
      <3> QED
        BY <3>2 DEF Has
    <2>2. CASE Has(t, q)
      BY <1>2, <2>2 DEF Has
    <2> QED
      BY <1>4, <2>1, <2>2
  <1>5. ASSUME ~Has(s, q), Once(t, q) PROVE Once(s \o t, q)
    <2>1. ASSUME NEW i \in 1..Len(s \o t), (s \o t)[i] = <<q, 1>>
          PROVE  i - Len(s) \in 1..Len(t) /\ t[i - Len(s)] = <<q, 1>>
      BY <1>1, <1>5, <2>1 DEF Has
    <2>2. ASSUME NEW i \in 1..Len(s \o t), NEW j \in 1..Len(s \o t),
                 (s \o t)[i] = <<q, 1>>, (s \o t)[j] = <<q, 1>>
          PROVE  i = j
      <3>1. i - Len(s) = j - Len(s)
        BY <1>5, <2>1, <2>2 DEF Once
      <3> QED
        BY <1>1, <2>2, <3>1
    <2> QED
      BY <2>2 DEF Once
  <1>6. ASSUME Once(s, q), ~Has(t, q) PROVE Once(s \o t, q)
    <2>1. ASSUME NEW i \in 1..Len(s \o t), (s \o t)[i] = <<q, 1>>
          PROVE  i \in 1..Len(s) /\ s[i] = <<q, 1>>
      BY <1>1, <1>6, <2>1 DEF Has
    <2> QED
      BY <1>1, <1>6, <2>1 DEF Once
  <1> QED
    BY <1>3, <1>4, <1>5, <1>6

LEMMA HasAfter ==
    ASSUME NEW s \in Seq(Byte), NEW n \in 0..Len(s), NEW q
    PROVE  /\ Has(After(s, n), q) => Has(s, q)
           /\ Once(s, q) => Once(After(s, n), q)
           /\ n > 0 /\ s[1] = <<q, 1>> /\ Once(s, q) => ~Has(After(s, n), q)
  <1>1. /\ Len(s) \in Nat /\ Len(After(s, n)) = Len(s) - n
        /\ \A i \in 1..(Len(s) - n) : n + i \in 1..Len(s) /\ After(s, n)[i] = s[n + i]
    BY AfterOf
  <1>2. Has(After(s, n), q) => Has(s, q)
    BY <1>1 DEF Has
  <1>3. Once(s, q) => Once(After(s, n), q)
    <2>1. SUFFICES ASSUME Once(s, q), NEW i \in 1..(Len(s) - n), NEW j \in 1..(Len(s) - n),
                          After(s, n)[i] = <<q, 1>>, After(s, n)[j] = <<q, 1>>
                   PROVE  i = j
      BY <1>1 DEF Once
    <2>2. n + i = n + j
      BY <1>1, <2>1 DEF Once
    <2> QED
      BY <2>2
  <1>4. ASSUME n > 0, s[1] = <<q, 1>>, Once(s, q), Has(After(s, n), q)
        PROVE  FALSE
    <2>1. PICK i \in 1..(Len(s) - n) : s[n + i] = <<q, 1>>
      BY <1>1, <1>4 DEF Has
    <2>2. n + i \in 1..Len(s) /\ 1 \in 1..Len(s) /\ n + i # 1
      BY <1>1, <1>4, <2>1
    <2> QED
      BY <1>4, <2>1, <2>2 DEF Once
  <1> QED
    BY <1>2, <1>3, <1>4

LEMMA HasPrefix ==
    ASSUME NEW s \in Seq(Byte), NEW n \in 0..Len(s), NEW q
    PROVE  /\ SubSeq(s, 1, n) \in Seq(Byte)
           /\ Has(SubSeq(s, 1, n), q) => Has(s, q)
           /\ Once(s, q) => Once(SubSeq(s, 1, n), q)
           /\ Once(s, q) /\ Has(SubSeq(s, 1, n), q)
                 => \A m \in n..Len(s) : ~Has(After(s, m), q)
  <1>1. /\ SubSeq(s, 1, n) \in Seq(Byte) /\ Len(SubSeq(s, 1, n)) = n
        /\ \A i \in 1..n : i \in 1..Len(s) /\ SubSeq(s, 1, n)[i] = s[i]
    OBVIOUS
  <1>2. ASSUME Once(s, q), Has(SubSeq(s, 1, n), q), NEW m \in n..Len(s), Has(After(s, m), q)
        PROVE  FALSE
    <2>1. PICK i \in 1..n : s[i] = <<q, 1>>
      BY <1>1, <1>2 DEF Has
    <2>2. m \in 0..Len(s)
      OBVIOUS
    <2>3. PICK j \in 1..(Len(s) - m) : s[m + j] = <<q, 1>>
      BY <1>2, <2>2, AfterOf DEF Has
    <2>4. i \in 1..Len(s) /\ m + j \in 1..Len(s) /\ i # m + j
      OBVIOUS
    <2> QED
      BY <1>2, <2>1, <2>3, <2>4 DEF Once
  <1> QED
    BY <1>1, <1>2 DEF Has, Once

-----------------------------------------------------------------------------
(* At most one request of a file is not yet answered *)

Handling(r) == sstate = "handle" /\ req = r

\* The session has not done all of a request r.
Left(r) == Has(up, r) \/ Has(out, r) \/ Handling(r)
FileLeft == Left("file") \/ sstate = "content"

FileOnce ==
    /\ Once(up, "file") /\ Once(out, "file")
    /\ Has(out, "file") => ~Has(up, "file") /\ ~Handling("file") /\ sstate # "content"
    /\ Handling("file") \/ sstate = "content" => ~Has(up, "file")

CksumResponse(sum) ==
    Bytes("cksum") \o Bytes("id") \o Bytes("size") \o Bytes("samename") \o Bytes(sum)

\* What the session may have answered, given what it has stored.
Sums == {sum \in {"sum", "othersum"} : sum = "sum" => stored = "file"}

AtFront(s, bytes) == \A k \in 1..Len(bytes) : k <= Len(s) /\ s[k] = bytes[k]

\* The answer to the last request of a file is what the client reads next, ...
Arrived ==
    /\ \E sum \in Sums : AtFront(down, CksumResponse(sum))
    /\ \A j \in 2..Len(down) : down[j] # <<"cksum", 1>>

\* ... or the client is in the midst of it, and not further than it thinks.
Lags(sum, offset) == \E m \in 0..offset : AtFront(down, After(CksumResponse(sum), m))

OffsetOf(part) ==
    CASE part = "id" -> HeadLength
      [] part = "size" -> HeadLength + Length["id"]
      [] part = "samename" -> HeadLength + Length["id"] + Length["size"]
      [] part = "sum" -> HeadLength + Length["id"] + Length["size"] + NameLength

InCksum == code = "cksum" /\ want \in {"id", "size", "samename", "sum"}

InPayload == sstate = "payload" => req \in {"register", "key", "junk"}

\* A client that has not asked for it, or has read it, has no answer about a file.
NotAsked == cstate \notin {"file", "done"} => ~FileLeft /\ ~Has(down, "cksum")

\* It asks for one file after the other, and confirms or gives up the last one.
OneAtOnce ==
    /\ cstate \in {"register", "key", "file"} => ~Left("ok") /\ ~Left("final")
    /\ cstate = "file" => FileOnce

\* It sends the next request only when it has read the answer to the last one.
Answered ==
    /\ cstate = "done" => want = "none"
    /\ want \in {"size", "samename", "sum"} => code = "cksum"
    /\ InCksum => cstate = "file"
    /\ cstate = "file" /\ want = "head" /\ down # <<>> /\ down[1] = <<"cksum", 1>>
          => ~FileLeft /\ Arrived
    /\ cstate = "file" /\ InCksum
          => ~FileLeft /\ ~Has(down, "cksum") /\ \E sum \in Sums : Lags(sum, OffsetOf(want))

\* While a confirmation is on its way, nothing else is stored.
Confirmed == Left("ok") => ~FileLeft /\ stored # "other"

MarkInv ==
    /\ TypeOK
    /\ MarkedIsFile
    /\ InPayload
    /\ Confirmed
    /\ NotAsked
    /\ OneAtOnce
    /\ Answered

-----------------------------------------------------------------------------

\* A step of the session takes bytes from the front of up, if any.
LEMMA SessionTakes ==
    ASSUME TypeOK, SessionStep
    PROVE  \E n \in 0..Len(up) : up' = After(up, n)
  <1> USE LengthsOf, AllParts
  <1>0. up \in Seq(Byte) /\ up = After(up, 0) /\ 0 \in 0..Len(up)
    BY DEF TypeOK, After
  <1>1. ASSUME NEW n \in Nat \ {0}, NEW read, NEW data \in Received(up, n, read),
               Recv(n, read, data)
        PROVE  \E k \in 0..Len(up) : up' = After(up, k)
    BY <1>0, <1>1, ReceivedOf DEF Recv
  <1>2. CASE ReadHeader
    BY <1>1, <1>2 DEF ReadHeader
  <1>3. CASE ReadPayload
    <2>1. Length["payload"] \in Nat \ {0}
      OBVIOUS
    <2> QED
      BY <1>1, <1>3, <2>1 DEF ReadPayload
  <1>4. CASE Refuse \/ Register \/ SendKey
    BY <1>0, <1>4 DEF Refuse, Register, SendKey
  <1>5. CASE ReadFileHeader
    <2>1. Length["item"] + NameLength \in Nat \ {0}
      OBVIOUS
    <2> QED
      BY <1>1, <1>5, <2>1 DEF ReadFileHeader
  <1>6. CASE ReadContent
    <2>1. Length["content"] \in Nat \ {0}
      OBVIOUS
    <2> QED
      BY <1>1, <1>6, <2>1 DEF ReadContent
  <1>7. CASE CksumOk \/ CksumErr \/ CksumErrFinal
    BY <1>1, <1>7 DEF CksumOk, CksumErr, CksumErrFinal, ReadFilename
  <1> QED
    BY <1>2, <1>3, <1>4, <1>5, <1>6, <1>7 DEF SessionStep

\* A header that the session reads begins where the client began one.
LEMMA HeaderRead ==
    ASSUME TypeOK, ReadHeader
    PROVE  \/ /\ req' \in Requests
              /\ sstate' = IF req' \in {"register", "key"} THEN "payload" ELSE "handle"
              /\ up # <<>> /\ up[1] = <<req', 1>>
              /\ \E n \in 1..Len(up) : up' = After(up, n)
           \/ sstate' = "payload" /\ req' = "junk"
           \/ sstate' = "closed"
  <1>1. PICK data \in Received(up, HeaderLength, "header") :
            /\ Recv(HeaderLength, "header", data)
            /\ \/ \E r \in Requests :
                     /\ data = Bytes(r)
                     /\ req' = r
                     /\ Goto(IF r \in {"register", "key"} THEN "payload" ELSE "handle")
               \/ req' = "junk" /\ Goto("payload")
               \/ Goto("closed")
    BY DEF ReadHeader
  <1>2. /\ up \in Seq(Byte) /\ HeaderLength \in Nat \ {0} /\ up' = After(up, Len(data))
        /\ Len(data) \in 0..Len(up) /\ \A k \in 1..Len(data) : data[k] = up[k]
    BY <1>1, LengthsOf, ReceivedOf DEF TypeOK, Recv
  <1>3. ASSUME NEW r \in Requests, data = Bytes(r), req' = r,
               Goto(IF r \in {"register", "key"} THEN "payload" ELSE "handle")
        PROVE  /\ req' \in Requests
               /\ sstate' = IF req' \in {"register", "key"} THEN "payload" ELSE "handle"
               /\ up # <<>> /\ up[1] = <<req', 1>>
               /\ \E n \in 1..Len(up) : up' = After(up, n)
    <2>1. Len(data) \in Nat \ {0} /\ data[1] = <<r, 1>>
      <3>1. r \in Parts
        BY AllParts
      <3> QED
        BY <1>3, <3>1, BytesOf
    <2>2. Len(data) \in 1..Len(up) /\ 1 \in 1..Len(data)
      BY <1>2, <2>1
    <2>3. up # <<>> /\ up[1] = <<r, 1>>
      BY <1>2, <2>1, <2>2
    <2> QED
      BY <1>2, <1>3, <2>2, <2>3 DEF Goto
  <1> QED
    BY <1>1, <1>3 DEF Goto

\* Nothing but the client adds to what is left.
LEMMA SessionLeaves ==
    ASSUME TypeOK, InPayload, SessionStep, NEW r \in {"file", "ok", "err", "final"}, Left(r)'
    PROVE  Left(r)
  <1>1. up \in Seq(Byte) /\ UNCHANGED out
    BY DEF TypeOK, SessionStep, ReadHeader, ReadPayload, Refuse, Register, SendKey,
           ReadFileHeader, ReadContent, CksumOk, CksumErr, CksumErrFinal, ReadFilename, client
  <1>2. Has(up', r) => Has(up, r)
    BY <1>1, SessionTakes, HasAfter
  <1>3. CASE Handling(r)'
    <2>1. CASE ReadHeader
      <3>1. up # <<>> /\ up[1] = <<r, 1>>
        BY <1>3, <2>1, HeaderRead DEF Handling, Requests
      <3> QED
        BY <1>1, <3>1 DEF Has, Left
    <2>2. CASE ~ReadHeader
      <3>1. sstate = "payload" /\ req = r /\ ReadPayload
        BY <1>3, <2>2
           DEF Handling, SessionStep, ReadPayload, Refuse, Register, SendKey, Silent, Reply,
               ReadFileHeader, ReadContent, CksumOk, CksumErr, CksumErrFinal, ReadFilename, Goto
      <3> QED
        BY <3>1 DEF InPayload
    <2> QED
      BY <2>1, <2>2
  <1> QED
    BY <1>1, <1>2, <1>3 DEF Left

\* What was sent is at the end of up, unless it was lost, and no longer in out.
LEMMA ClientSends ==
    ASSUME TypeOK, SendPart, NEW q
    PROVE  /\ Has(up', q) => Has(up, q) \/ Has(out, q)
           /\ Has(out', q) => Has(out, q)
           /\ Once(out, q) => Once(out', q)
           /\ Once(up, q) /\ Once(out, q) /\ ~(Has(up, q) /\ Has(out, q))
                 => Once(up', q) /\ ~(Has(up', q) /\ Has(out', q))
           /\ ~Has(out, q) => (Has(up', q) => Has(up, q))
  <1>1. up \in Seq(Byte) /\ out \in Seq(Byte) /\ out # <<>> /\ Len(out) \in 1..Len(out)
    BY DEF TypeOK, SendPart
  <1>2. PICK n \in 1..Len(out) : \E w \in 1..n :
            /\ up' = IF sstate = "closed" THEN up ELSE up \o SubSeq(out, 1, w)
            /\ out' = After(out, n)
    BY <1>1, OneSendOf DEF SendPart
  <1>3. PICK w \in 1..n : up' = up \/ up' = up \o SubSeq(out, 1, w)
    BY <1>2
  <1>4. w \in 0..Len(out) /\ n \in 0..Len(out) /\ n \in w..Len(out)
    OBVIOUS
  <1>5. PICK sent \in Seq(Byte) : sent = SubSeq(out, 1, w)
    BY <1>1, <1>4, HasPrefix
  <1>6. /\ Has(sent, q) => Has(out, q)
        /\ Has(out', q) => Has(out, q)
        /\ Once(out, q) => Once(sent, q) /\ Once(out', q)
        /\ Once(out, q) /\ Has(sent, q) => ~Has(out', q)
    BY <1>1, <1>2, <1>4, <1>5, HasPrefix, HasAfter
  <1>7. CASE up' = up
    BY <1>6, <1>7
  <1>8. CASE up' = up \o sent
    <2>1. /\ Has(up', q) <=> Has(up, q) \/ Has(sent, q)
          /\ ~Has(up, q) /\ Once(sent, q) => Once(up', q)
          /\ Once(up, q) /\ ~Has(sent, q) => Once(up', q)
      BY <1>1, <1>8, HasConcat
    <2> QED
      BY <1>6, <2>1
  <1> QED
    BY <1>3, <1>5, <1>7, <1>8

LEMMA SendLeaves ==
    ASSUME TypeOK, SendPart, NEW r, Left(r)'
    PROVE  Left(r)
  BY ClientSends DEF Left, Handling, SendPart, session

LEMMA SendOnce ==
    ASSUME TypeOK, SendPart, FileOnce
    PROVE  FileOnce'
  BY ClientSends DEF FileOnce, Handling, SendPart, session

LEMMA FileLeaves ==
    ASSUME TypeOK, InPayload, SessionStep, FileLeft'
    PROVE  FileLeft
  <1>1. sstate' = "content" => Handling("file")
    <2>1. ReadHeader => sstate' # "content"
      BY HeaderRead
    <2> QED
      BY <2>1 DEF SessionStep, ReadPayload, Refuse, Register, SendKey, Silent, Reply,
                  ReadFileHeader, ReadContent, CksumOk, CksumErr, CksumErrFinal, ReadFilename,
                  Goto, Known, Handling
  <1> QED
    BY <1>1, SessionLeaves DEF FileLeft, Left

\* The session is in one request of a file at most.
LEMMA SessionOnce ==
    ASSUME TypeOK, InPayload, SessionStep, FileOnce
    PROVE  /\ FileOnce'
           /\ sstate = "content" => ~FileLeft'
  <1>1. /\ up \in Seq(Byte) /\ out \in Seq(Byte) /\ UNCHANGED out
    BY DEF TypeOK, SessionStep, ReadHeader, ReadPayload, Refuse, Register, SendKey,
           ReadFileHeader, ReadContent, CksumOk, CksumErr, CksumErrFinal, ReadFilename, client
  <1>2. Once(up', "file") /\ (Has(up', "file") => Has(up, "file"))
    BY <1>1, SessionTakes, HasAfter DEF FileOnce
  <1>3. CASE ReadHeader
    <2>1. CASE Handling("file")'
      <3>1. up # <<>> /\ up[1] = <<"file", 1>> /\ \E n \in 1..Len(up) : up' = After(up, n)
        BY <1>3, <2>1, HeaderRead DEF Handling, Requests
      <3>2. Has(up, "file") /\ ~Has(up', "file")
        <4>1. PICK n \in 1..Len(up) : up' = After(up, n)
          BY <3>1
        <4>2. n \in 0..Len(up) /\ n > 0
          OBVIOUS
        <4>3. Once(up, "file")
          BY DEF FileOnce
        <4>4. ~Has(After(up, n), "file")
          BY <1>1, <3>1, <4>2, <4>3, HasAfter
        <4> QED
          BY <1>1, <3>1, <4>1, <4>4 DEF Has
      <3> QED
        BY <1>1, <1>2, <1>3, <2>1, <3>2 DEF FileOnce, FileLeft, Left, Handling, ReadHeader
    <2>2. CASE ~Handling("file")'
      <3>1. sstate = "header" /\ sstate' # "content"
        BY <1>3, HeaderRead DEF ReadHeader
      <3> QED
        BY <1>1, <1>2, <2>2, <3>1 DEF FileOnce, FileLeft, Left, Handling
    <2> QED
      BY <2>1, <2>2
  <1>4. CASE ReadFileHeader
    <2>1. Handling("file") /\ sstate' \in {"content", "header"}
      BY <1>4 DEF ReadFileHeader, Known, Handling, Goto
    <2> QED
      BY <1>1, <1>2, <2>1 DEF FileOnce, FileLeft, Left, Handling
  <1>5. CASE ~ReadHeader /\ ~ReadFileHeader
    <2>1. \/ sstate' = "header"
          \/ sstate = "payload" /\ sstate' = "handle" /\ UNCHANGED req
      BY <1>5 DEF SessionStep, ReadPayload, Refuse, Register, SendKey, Silent, Reply,
                  ReadContent, CksumOk, CksumErr, CksumErrFinal, ReadFilename, Goto
    <2> QED
      BY <1>1, <1>2, <2>1 DEF FileOnce, FileLeft, Left, Handling, InPayload
  <1> QED
    BY <1>3, <1>4, <1>5

\* How a response about a file is laid out.
LEMMA CksumResponseOf ==
    ASSUME NEW sum \in {"sum", "othersum"}
    PROVE  /\ CksumResponse(sum) \in Seq(Byte)
           /\ Len(CksumResponse(sum)) = HeadLength + Length["id"] + Length["size"] + NameLength
                                           + Length["sum"]
           /\ CksumResponse(sum)[1] = <<"cksum", 1>> /\ Once(CksumResponse(sum), "cksum")
           /\ Has(CksumResponse(sum), "sum") => sum = "sum"
  <1>0. /\ {"cksum", "id", "size", "samename", "sum", "othersum", sum} \subseteq Parts
        /\ \A p \in Parts : Bytes(p) \in Seq(Byte) /\ Len(Bytes(p)) = Length[p]
                            /\ Length[p] \in Nat \ {0}
    BY BytesOf, AllParts DEF Responses
  <1>1. PICK c \in Seq(Byte) : /\ c = Bytes("cksum") /\ Len(c) = HeadLength /\ Len(c) > 0
                               /\ c[1] = <<"cksum", 1>> /\ Once(c, "cksum") /\ ~Has(c, "sum")
    <2>1. "cksum" \in Parts /\ Length["cksum"] = HeadLength
      BY <1>0, LengthsOf DEF Responses
    <2>2. Once(Bytes("cksum"), "cksum") /\ ~Has(Bytes("cksum"), "sum")
      BY <2>1, HasBytes
    <2>3. Bytes("cksum") \in Seq(Byte) /\ Len(Bytes("cksum")) = HeadLength /\ HeadLength > 0
      BY <1>0, <2>1
    <2>4. Bytes("cksum")[1] = <<"cksum", 1>>
      BY <2>1, <2>3, BytesOf
    <2> QED
      BY <2>2, <2>3, <2>4
  <1>2. ASSUME NEW p \in {"id", "size", "samename", "sum", "othersum"}
        PROVE  /\ Bytes(p) \in Seq(Byte) /\ Len(Bytes(p)) = Length[p] /\ Length[p] \in Nat
               /\ ~Has(Bytes(p), "cksum") /\ (Has(Bytes(p), "sum") => p = "sum")
    BY <1>0, <1>2, HasBytes
  <1>3. ASSUME NEW s \in Seq(Byte), NEW t \in Seq(Byte), s[1] = <<"cksum", 1>>, Len(s) > 0,
               Once(s, "cksum"), ~Has(t, "cksum")
        PROVE  /\ s \o t \in Seq(Byte) /\ Len(s \o t) = Len(s) + Len(t) /\ Len(s \o t) > 0
               /\ (s \o t)[1] = <<"cksum", 1>> /\ Once(s \o t, "cksum")
               /\ Has(s \o t, "sum") <=> Has(s, "sum") \/ Has(t, "sum")
    BY <1>3, HasConcat
  <1>4. PICK d \in Seq(Byte) : /\ d = c \o Bytes("id") /\ Len(d) = HeadLength + Length["id"]
                               /\ Len(d) > 0 /\ d[1] = <<"cksum", 1>> /\ Once(d, "cksum")
                               /\ ~Has(d, "sum")
    BY <1>1, <1>2, <1>3
  <1>5. PICK e \in Seq(Byte) : /\ e = d \o Bytes("size")
                               /\ Len(e) = HeadLength + Length["id"] + Length["size"]
                               /\ Len(e) > 0 /\ e[1] = <<"cksum", 1>> /\ Once(e, "cksum")
                               /\ ~Has(e, "sum")
    BY <1>2, <1>3, <1>4
  <1>6. PICK f \in Seq(Byte) : /\ f = e \o Bytes("samename")
                               /\ Len(f) = HeadLength + Length["id"] + Length["size"] + NameLength
                               /\ Len(f) > 0 /\ f[1] = <<"cksum", 1>> /\ Once(f, "cksum")
                               /\ ~Has(f, "sum")
    <2>1. Length["samename"] = NameLength
      BY LengthsOf
    <2> QED
      BY <1>2, <1>3, <1>5, <2>1
  <1>7. CksumResponse(sum) = f \o Bytes(sum)
    BY <1>1, <1>4, <1>5, <1>6 DEF CksumResponse
  <1>8. /\ Bytes(sum) \in Seq(Byte) /\ Len(Bytes(sum)) = Length["sum"] /\ Length["sum"] \in Nat
        /\ ~Has(Bytes(sum), "cksum") /\ (Has(Bytes(sum), "sum") => sum = "sum")
    BY <1>2, LengthsOf
  <1>9. PICK g \in Seq(Byte) : /\ g = f \o Bytes(sum)
                               /\ Len(g) = HeadLength + Length["id"] + Length["size"] + NameLength
                                             + Length["sum"]
                               /\ g[1] = <<"cksum", 1>> /\ Once(g, "cksum")
                               /\ Has(g, "sum") => sum = "sum"
    BY <1>3, <1>6, <1>8
  <1> QED
    BY <1>7, <1>9

\* What a step of the session does to the streams and to the file.
LEMMA SessionReplies ==
    ASSUME TypeOK, SessionStep
    PROVE  \/ down' = down
           \/ \E t \in Seq(Byte) : t # <<>> /\ ~Has(t, "cksum") /\ down' = down \o t
           \/ sstate = "content" /\ \E sum \in Sums' : down' = down \o CksumResponse(sum)
  <1>1. CASE ReadHeader \/ ReadPayload \/ ReadFileHeader
    BY <1>1 DEF ReadHeader, ReadPayload, ReadFileHeader
  <1>2. CASE Refuse \/ Register \/ SendKey \/ CksumOk \/ CksumErr \/ CksumErrFinal
    <2>1. PICK t : /\ down' = down \/ down' = down \o t
                   /\ \/ \E r \in {"refused", "registered", "received"} : t = Bytes(r) \o Bytes("id")
                      \/ t = Bytes("keys") \o Bytes("id") \o Bytes("cipher")
      BY <1>2 DEF Refuse, Register, SendKey, CksumOk, CksumErr, CksumErrFinal, ReadFilename,
                  Reply, Silent
    <2>2. ASSUME NEW p \in {"refused", "registered", "received", "keys", "id", "cipher"}
          PROVE  Bytes(p) \in Seq(Byte) /\ Bytes(p) # <<>> /\ ~Has(Bytes(p), "cksum")
      <3>1. p \in Parts
        BY AllParts DEF Responses
      <3> QED
        BY <2>2, <3>1, BytesOf, HasBytes
    <2>3. ASSUME NEW s \in Seq(Byte), NEW u \in Seq(Byte), s # <<>>,
                 ~Has(s, "cksum"), ~Has(u, "cksum")
          PROVE  s \o u \in Seq(Byte) /\ s \o u # <<>> /\ ~Has(s \o u, "cksum")
      BY <2>3, HasConcat
    <2>4. t \in Seq(Byte) /\ t # <<>> /\ ~Has(t, "cksum")
      <3>1. CASE t = Bytes("keys") \o Bytes("id") \o Bytes("cipher")
        <4>1. PICK s \in Seq(Byte) : s = Bytes("keys") \o Bytes("id") /\ s # <<>>
                                      /\ ~Has(s, "cksum")
          BY <2>2, <2>3
        <4> QED
          BY <2>2, <2>3, <3>1, <4>1
      <3>2. CASE \E r \in {"refused", "registered", "received"} : t = Bytes(r) \o Bytes("id")
        BY <2>2, <2>3, <3>2
      <3> QED
        BY <2>1, <3>1, <3>2
    <2> QED
      BY <2>1, <2>4
  <1>3. CASE ReadContent
    BY <1>3 DEF ReadContent, Reply, Silent, Sums, CksumResponse
  <1> QED
    BY <1>1, <1>2, <1>3 DEF SessionStep

LEMMA SessionStores ==
    ASSUME TypeOK, SessionStep
    PROVE  /\ \/ stored' = stored
              \/ sstate = "content"
              \/ Left("final") /\ stored' = "nothing"
           /\ \/ marked' \in {marked, "nothing"}
              \/ Left("ok") /\ marked' = stored
  BY DEF SessionStep, ReadHeader, ReadPayload, Refuse, Register, SendKey, ReadFileHeader,
         ReadContent, CksumOk, CksumErr, CksumErrFinal, ReadFilename, Known, Left, Handling

\* More bytes behind what is at the front leave it there.
LEMMA FrontStays ==
    ASSUME NEW s \in Seq(Byte), NEW t \in Seq(Byte), NEW bytes, AtFront(s, bytes)
    PROVE  AtFront(s \o t, bytes)
  BY DEF AtFront

LEMMA SessionKeepsMark ==
    ASSUME MarkInv, SessionStep, UNCHANGED network
    PROVE  MarkInv'
  <1>0. /\ TypeOK /\ InPayload /\ down \in Seq(Byte) /\ Len(down) \in Nat
        /\ UNCHANGED <<cstate, want, code>>
    BY DEF MarkInv, TypeOK, SessionStep, ReadHeader, ReadPayload, Refuse, Register, SendKey,
           ReadFileHeader, ReadContent, CksumOk, CksumErr, CksumErrFinal, ReadFilename, client
  <1>1. TypeOK'
    BY <1>0, SessionTypes
  <1>2. InPayload'
    <2>1. CASE ReadHeader
      BY <1>0, <2>1, HeaderRead DEF InPayload
    <2>2. CASE ~ReadHeader
      BY <2>2 DEF SessionStep, ReadPayload, Refuse, Register, SendKey, Silent, Reply,
                  ReadFileHeader, ReadContent, CksumOk, CksumErr, CksumErrFinal, ReadFilename,
                  Goto, InPayload
    <2> QED
      BY <2>1, <2>2
  <1>3. /\ \A r \in {"ok", "final", "file"} : Left(r)' => Left(r)
        /\ FileOnce => FileOnce' /\ (sstate = "content" => ~FileLeft')
        /\ FileLeft' => FileLeft
    BY <1>0, SessionLeaves, SessionOnce, FileLeaves
  <1>4. ASSUME ~FileLeft
        PROVE  /\ \/ down' = down
                  \/ \E t \in Seq(Byte) : t # <<>> /\ ~Has(t, "cksum") /\ down' = down \o t
               /\ stored' = stored \/ (Left("final") /\ stored' = "nothing")
    <2>1. sstate # "content"
      BY <1>4 DEF FileLeft
    <2>2. \/ down' = down
          \/ \E t \in Seq(Byte) : t # <<>> /\ ~Has(t, "cksum") /\ down' = down \o t
      BY <1>0, <2>1, SessionReplies
    <2>3. stored' = stored \/ (Left("final") /\ stored' = "nothing")
      BY <1>0, <2>1, SessionStores
    <2> QED
      BY <2>2, <2>3
  <1>5. MarkedIsFile' /\ Confirmed'
    BY <1>0, <1>3, <1>4, SessionStores DEF MarkInv, MarkedIsFile, Confirmed
  <1>6. OneAtOnce'
    BY <1>0, <1>3 DEF MarkInv, OneAtOnce
  <1>7. ASSUME ~FileLeft, ~Has(down, "cksum") PROVE ~Has(down', "cksum")
    <2>1. ASSUME NEW t \in Seq(Byte), ~Has(t, "cksum"), down' = down \o t
          PROVE  ~Has(down', "cksum")
      BY <1>0, <1>7, <2>1, HasConcat
    <2> QED
      BY <1>4, <1>7, <2>1
  <1>8. NotAsked'
    BY <1>0, <1>3, <1>7 DEF MarkInv, NotAsked
  <1>9. Answered'
    <2>1. ASSUME cstate = "file", want = "head", down' # <<>>, down'[1] = <<"cksum", 1>>
          PROVE  ~FileLeft' /\ Arrived'
      <3>1. CASE down # <<>>
        <4>1. down'[1] = down[1]
          BY <1>0, <3>1, SessionReplies, CksumResponseOf DEF Sums
        <4>2. ~FileLeft /\ Arrived /\ ~Left("final")
          BY <2>1, <3>1, <4>1 DEF MarkInv, Answered, OneAtOnce
        <4>3. PICK sum \in Sums : AtFront(down, CksumResponse(sum))
          BY <4>2 DEF Arrived
        <4>4. sum \in Sums'
          BY <1>4, <4>2 DEF Sums
        <4>5. AtFront(down', CksumResponse(sum))
          BY <1>0, <1>4, <4>2, <4>3, FrontStays
        <4>6. \A j \in 2..Len(down') : down'[j] # <<"cksum", 1>>
          <5>1. CASE down' = down
            BY <4>2, <5>1 DEF Arrived
          <5>2. ASSUME NEW t \in Seq(Byte), ~Has(t, "cksum"), down' = down \o t
                PROVE  \A j \in 2..Len(down') : down'[j] # <<"cksum", 1>>
            <6>1. ASSUME NEW j \in 2..Len(down')
                  PROVE  \/ j \in 2..Len(down) /\ down'[j] = down[j]
                         \/ j - Len(down) \in 1..Len(t) /\ down'[j] = t[j - Len(down)]
              BY <1>0, <5>2, <6>1
            <6> QED
              BY <4>2, <5>2, <6>1 DEF Arrived, Has
          <5> QED
            BY <1>4, <4>2, <5>1, <5>2
        <4> QED
          BY <1>3, <4>2, <4>4, <4>5, <4>6 DEF Arrived
      <3>2. CASE down = <<>>
        <4>1. PICK sum \in Sums' : sstate = "content" /\ down' = down \o CksumResponse(sum)
          <5>1. ASSUME NEW t \in Seq(Byte), t # <<>>, ~Has(t, "cksum"), down' = down \o t
                PROVE  FALSE
            BY <2>1, <3>2, <5>1 DEF Has
          <5> QED
            BY <1>0, <2>1, <3>2, <5>1, SessionReplies
        <4>2. sum \in {"sum", "othersum"}
          BY DEF Sums
        <4>3. down' = CksumResponse(sum) /\ Len(CksumResponse(sum)) \in Nat
          BY <3>2, <4>1, <4>2, CksumResponseOf
        <4>4. ~FileLeft'
          BY <1>3, <2>1, <4>1 DEF MarkInv, OneAtOnce
        <4>5. \A j \in 2..Len(down') : down'[j] # <<"cksum", 1>>
          BY <4>2, <4>3, CksumResponseOf DEF Once
        <4>6. AtFront(down', CksumResponse(sum))
          BY <4>3 DEF AtFront
        <4> QED
          BY <4>1, <4>4, <4>5, <4>6 DEF Arrived
      <3> QED
        BY <3>1, <3>2
    <2>2. ASSUME cstate = "file", InCksum
          PROVE  ~FileLeft' /\ ~Has(down', "cksum") /\ \E sum \in Sums' : Lags(sum, OffsetOf(want))'
      <3>1. ~FileLeft /\ ~Has(down, "cksum") /\ ~Left("final")
        BY <2>2 DEF MarkInv, Answered, OneAtOnce
      <3>2. PICK sum \in Sums : Lags(sum, OffsetOf(want))
        BY <2>2 DEF MarkInv, Answered
      <3>3. sum \in Sums'
        BY <1>4, <3>1 DEF Sums
      <3>4. PICK m \in 0..OffsetOf(want) : AtFront(down, After(CksumResponse(sum), m))
        BY <3>2 DEF Lags
      <3>5. AtFront(down', After(CksumResponse(sum), m))
        BY <1>0, <1>4, <3>1, <3>4, FrontStays
      <3>6. Lags(sum, OffsetOf(want))'
        BY <1>0, <3>5 DEF Lags
      <3> QED
        BY <1>3, <1>7, <3>1, <3>3, <3>6
    <2> QED
      BY <1>0, <2>1, <2>2 DEF Answered, InCksum, MarkInv
  <1> QED
    BY <1>1, <1>2, <1>5, <1>6, <1>8, <1>9 DEF MarkInv

\* Which headers a request has.
LEMMA RequestHeaders ==
    ASSUME NEW n \in {"filename", "otherfile"}, NEW again,
           \/ again \in {FileRequest(bad) : bad \in BOOLEAN}
           \/ again \in {EmptyFileRequest(bad) : bad \in BOOLEAN}
    PROVE  /\ Once(again, "file") /\ ~Has(again, "ok") /\ ~Has(again, "final")
           /\ Once(Bytes("err") \o Bytes(n) \o again, "file")
           /\ ~Has(Bytes("err") \o Bytes(n) \o again, "ok")
           /\ ~Has(Bytes("err") \o Bytes(n) \o again, "final")
           /\ ~Has(Bytes("ok") \o Bytes(n), "file") /\ ~Has(Bytes("ok") \o Bytes(n), "final")
           /\ ~Has(Bytes("final") \o Bytes(n), "file") /\ ~Has(Bytes("final") \o Bytes(n), "ok")
           /\ \A r \in {"file", "ok", "final"} : ~Has(Bytes("key") \o Bytes("payload"), r)
  <1>1. ASSUME NEW p \in {"key", "payload", "err", "ok", "final", "file", "item", "empty", "name",
                        "badname", "content", "filename", "otherfile"},
               NEW r \in {"file", "ok", "final"}
        PROVE  Bytes(p) \in Seq(Byte) /\ Once(Bytes(p), r) /\ (Has(Bytes(p), r) => p = r)
    <2>1. p \in Parts
      BY <1>1, AllParts DEF Requests
    <2> QED
      BY <2>1, BytesOf, HasBytes
  <1>2. ASSUME NEW s \in Seq(Byte), NEW t \in Seq(Byte), NEW r, Once(s, r), ~Has(t, r)
        PROVE  s \o t \in Seq(Byte) /\ Once(s \o t, r) /\ (~Has(s, r) => ~Has(s \o t, r))
    BY <1>2, HasConcat
  <1>3. /\ again \in Seq(Byte) /\ Once(again, "file") /\ ~Has(again, "ok") /\ ~Has(again, "final")
    <2>1. ASSUME NEW bad \in BOOLEAN
          PROVE  /\ FileRequest(bad) \in Seq(Byte)
                 /\ Once(FileRequest(bad), "file") /\ ~Has(FileRequest(bad), "ok")
                 /\ ~Has(FileRequest(bad), "final")
      <3>1. PICK p \in {"name", "badname"} : p = IF bad THEN "badname" ELSE "name"
        OBVIOUS
      <3>2. PICK s \in Seq(Byte) :
                /\ s = Bytes("file") \o Bytes("item")
                /\ Once(s, "file") /\ Once(s, "ok") /\ Once(s, "final")
                /\ ~Has(s, "ok") /\ ~Has(s, "final")
        BY <1>1, <1>2
      <3>3. PICK t \in Seq(Byte) :
                /\ t = s \o Bytes(p)
                /\ Once(t, "file") /\ Once(t, "ok") /\ Once(t, "final")
                /\ ~Has(t, "ok") /\ ~Has(t, "final")
        BY <1>1, <1>2, <3>2
      <3>4. FileRequest(bad) = t \o Bytes("content")
        BY <3>1, <3>2, <3>3 DEF FileRequest
      <3>5. /\ Bytes("content") \in Seq(Byte) /\ ~Has(Bytes("content"), "file")
            /\ ~Has(Bytes("content"), "ok") /\ ~Has(Bytes("content"), "final")
        BY <1>1
      <3> QED
        BY <1>2, <3>3, <3>4, <3>5
    <2>2. ASSUME NEW bad \in BOOLEAN
          PROVE  /\ EmptyFileRequest(bad) \in Seq(Byte)
                 /\ Once(EmptyFileRequest(bad), "file") /\ ~Has(EmptyFileRequest(bad), "ok")
                 /\ ~Has(EmptyFileRequest(bad), "final")
      <3>1. PICK p \in {"name", "badname"} : p = IF bad THEN "badname" ELSE "name"
        OBVIOUS
      <3>2. PICK s \in Seq(Byte) :
                /\ s = Bytes("file") \o Bytes("empty")
                /\ Once(s, "file") /\ Once(s, "ok") /\ Once(s, "final")
                /\ ~Has(s, "ok") /\ ~Has(s, "final")
        BY <1>1, <1>2
      <3>3. EmptyFileRequest(bad) = s \o Bytes(p)
        BY <3>1, <3>2 DEF EmptyFileRequest
      <3>4. /\ Bytes(p) \in Seq(Byte) /\ ~Has(Bytes(p), "file")
            /\ ~Has(Bytes(p), "ok") /\ ~Has(Bytes(p), "final")
        BY <1>1
      <3> QED
        BY <1>2, <3>2, <3>3, <3>4
    <2> QED
      BY <2>1, <2>2
  <1>4. /\ Once(Bytes("err") \o Bytes(n) \o again, "file")
        /\ ~Has(Bytes("err") \o Bytes(n) \o again, "ok")
        /\ ~Has(Bytes("err") \o Bytes(n) \o again, "final")
    <2>1. PICK s \in Seq(Byte) : /\ s = Bytes("err") \o Bytes(n)
                                 /\ ~Has(s, "file") /\ ~Has(s, "ok") /\ ~Has(s, "final")
      BY <1>1, <1>2
    <2>2. /\ Once(s \o again, "file") /\ ~Has(s \o again, "ok") /\ ~Has(s \o again, "final")
      BY <1>3, <2>1, HasConcat
    <2> QED
      BY <2>1, <2>2
  <1>5. /\ ~Has(Bytes("ok") \o Bytes(n), "file") /\ ~Has(Bytes("ok") \o Bytes(n), "final")
        /\ ~Has(Bytes("final") \o Bytes(n), "file") /\ ~Has(Bytes("final") \o Bytes(n), "ok")
        /\ \A r \in {"file", "ok", "final"} : ~Has(Bytes("key") \o Bytes("payload"), r)
    BY <1>1, <1>2
  <1> QED
    BY <1>3, <1>4, <1>5

LEMMA Offsets ==
    /\ OffsetOf("id") = HeadLength
    /\ OffsetOf("size") = OffsetOf("id") + Length["id"]
    /\ OffsetOf("samename") = OffsetOf("size") + Length["size"]
    /\ OffsetOf("sum") = OffsetOf("samename") + NameLength
    /\ \A p \in {"id", "size", "samename", "sum"} : OffsetOf(p) \in Nat
    /\ \A sum \in {"sum", "othersum"} :
          Len(CksumResponse(sum)) = OffsetOf("sum") + Length["sum"]
    /\ \A p \in {"id", "size", "sum"} : Length[p] \in Nat \ {0}
    /\ HeadLength \in Nat \ {0} /\ NameLength \in Nat \ {0}
  <1>1. /\ \A p \in {"id", "size", "sum"} : Length[p] \in Nat \ {0}
        /\ HeadLength \in Nat \ {0} /\ NameLength \in Nat \ {0}
    BY LengthsOf, AllParts
  <1>2. /\ OffsetOf("id") = HeadLength
        /\ OffsetOf("size") = HeadLength + Length["id"]
        /\ OffsetOf("samename") = HeadLength + Length["id"] + Length["size"]
        /\ OffsetOf("sum") = HeadLength + Length["id"] + Length["size"] + NameLength
    BY DEF OffsetOf
  <1>3. \A p \in {"id", "size", "samename", "sum"} : OffsetOf(p) \in Nat
    BY <1>1, <1>2
  <1> QED
    BY <1>1, <1>2, <1>3, CksumResponseOf

\* A client that reads a part of a response, as far as it is there, does not get
\* ahead of it.
LEMMA LagsOn ==
    ASSUME down \in Seq(Byte), NEW sum \in {"sum", "othersum"}, NEW o \in Nat, NEW l \in Nat,
           o + l <= Len(CksumResponse(sum)), Lags(sum, o),
           NEW n \in 0..Len(down), n <= l, down' = After(down, n)
    PROVE  Lags(sum, o + l)'
  <1> DEFINE R == CksumResponse(sum)
  <1>1. R \in Seq(Byte) /\ Len(R) \in Nat
    BY CksumResponseOf
  <1>2. PICK m \in 0..o : AtFront(down, After(R, m))
    BY DEF Lags
  <1>3. m \in 0..Len(R) /\ m + n \in 0..(o + l) /\ m + n \in 0..Len(R)
    BY <1>1
  <1> HIDE DEF R
  <1>4. /\ \A k \in 1..(Len(R) - m) : k <= Len(down) /\ down[k] = R[m + k]
        /\ Len(After(R, m + n)) = Len(R) - (m + n)
        /\ \A k \in 1..(Len(R) - (m + n)) : After(R, m + n)[k] = R[m + n + k]
    BY <1>1, <1>2, <1>3, AfterOf DEF AtFront
  <1>5. ASSUME NEW k \in 1..(Len(R) - (m + n))
        PROVE  k <= Len(down') /\ down'[k] = R[m + n + k]
    <2>1. n + k \in 1..(Len(R) - m) /\ m + (n + k) = m + n + k
      BY <1>1, <1>3
    <2>2. n + k <= Len(down) /\ down[n + k] = R[m + n + k]
      BY <1>4, <2>1
    <2>3. Len(down') = Len(down) - n /\ k \in 1..(Len(down) - n) /\ down'[k] = down[n + k]
      <3>1. Len(down) \in Nat /\ k \in 1..(Len(down) - n)
        BY <2>2
      <3> QED
        BY <3>1, AfterOf
    <2> QED
      BY <2>2, <2>3
  <1>6. AtFront(down', After(R, m + n))
    BY <1>4, <1>5 DEF AtFront
  <1> QED
    BY <1>3, <1>6 DEF Lags, R

\* Only the answer to a file that was stored has its checksum.
LEMMA SumMeansFile ==
    ASSUME TypeOK, NEW sum \in Sums, Lags(sum, OffsetOf("sum")),
           NEW data \in Received(down, Length["sum"], "sum"), MayBe("sum", data)
    PROVE  stored = "file"
  <1> DEFINE R == CksumResponse(sum)
             o == OffsetOf("sum")
  <1>1. /\ Length["sum"] \in Nat \ {0} /\ Length["id"] \in Nat /\ Length["size"] \in Nat
        /\ HeadLength \in Nat /\ NameLength \in Nat /\ sum \in {"sum", "othersum"}
    BY LengthsOf, AllParts DEF Sums
  <1>2. R \in Seq(Byte) /\ o \in Nat /\ Len(R) \in Nat /\ o + 1 <= Len(R)
    <2>1. R \in Seq(Byte) /\ Len(R) = o + Length["sum"] /\ o \in Nat
      BY <1>1, CksumResponseOf, Offsets
    <2> HIDE DEF R, o
    <2> QED
      BY <1>1, <2>1
  <1>3. PICK m \in 0..o : AtFront(down, After(R, m))
    BY DEF Lags
  <1>4. m \in 0..Len(R) /\ 1 \in 1..(Len(R) - m) /\ m + 1 \in 1..Len(R)
    BY <1>2
  <1>5. down[1] = R[m + 1]
    BY <1>2, <1>3, <1>4, AfterOf DEF AtFront
  <1>6. down[1] = <<"sum", 1>>
    <2>1. "sum" \in Parts
      BY AllParts
    <2>2. Len(data) \in Nat /\ Len(data) <= Length["sum"] /\ Len(data) > 0 /\ data[1] = down[1]
      <3>1. /\ Len(data) \in Nat /\ Len(data) <= Length["sum"] /\ data \in Seq(Byte)
            /\ \A k \in 1..Len(data) : data[k] = down[k]
        BY <1>1, ReceivedOf DEF TypeOK
      <3>2. Len(data) > 0
        BY <3>1 DEF MayBe
      <3> QED
        BY <3>1, <3>2
    <2>3. data[1] = <<"sum", 1>>
      BY <1>1, <2>1, <2>2, PrefixOf DEF MayBe
    <2> QED
      BY <2>2, <2>3
  <1>7. Has(R, "sum")
    BY <1>4, <1>5, <1>6 DEF Has
  <1> QED
    BY <1>1, <1>7, CksumResponseOf DEF Sums

-----------------------------------------------------------------------------
(* What the client reads and then asks for *)

LEMMA ReadOf ==
    ASSUME TypeOK, NEW l \in Nat \ {0}, NEW part, NEW data \in Received(down, l, part),
           Read(l, part, data)
    PROVE  /\ Len(data) \in 0..Len(down) /\ Len(data) <= l /\ down' = After(down, Len(data))
           /\ out = <<>> /\ want = part /\ UNCHANGED <<up, sstate, req, stored, marked>>
  BY ReceivedOf DEF Read, TypeOK, session

\* A client that only reads asks for nothing.
LEMMA OnlyReads ==
    ASSUME MarkInv, TypeOK', NEW n \in 0..Len(down), down' = After(down, n),
           UNCHANGED <<up, out, cstate, sstate, req, stored, marked>>, Answered'
    PROVE  MarkInv'
  <1>1. Has(down', "cksum") => Has(down, "cksum")
    BY HasAfter DEF MarkInv, TypeOK
  <1> QED
    BY <1>1 DEF MarkInv, MarkedIsFile, InPayload, Confirmed, NotAsked, OneAtOnce, FileOnce,
                FileLeft, Left, Handling

\* The client goes on reading the answer about its file.
LEMMA ReadsOn ==
    ASSUME MarkInv, TypeOK', cstate = "file", InCksum, InCksum', want' # "id",
           NEW l \in Nat, OffsetOf(want') = OffsetOf(want) + l,
           NEW n \in 0..Len(down), n <= l, down' = After(down, n),
           UNCHANGED <<up, out, cstate, sstate, req, stored, marked>>
    PROVE  MarkInv'
  <1>1. /\ down \in Seq(Byte) /\ OffsetOf(want) \in Nat /\ want' \in {"size", "samename", "sum"}
        /\ UNCHANGED FileLeft
    <2>1. UNCHANGED FileLeft
      BY DEF FileLeft, Left, Handling
    <2> QED
      BY <2>1, Offsets DEF MarkInv, TypeOK, InCksum
  <1>2. ~FileLeft /\ ~Has(down', "cksum")
    BY <1>1, HasAfter DEF MarkInv, Answered
  <1>3. PICK sum \in Sums : Lags(sum, OffsetOf(want))
    BY DEF MarkInv, Answered
  <1>4. sum \in {"sum", "othersum"} /\ sum \in Sums'
    BY DEF Sums
  <1>5. OffsetOf(want') <= Len(CksumResponse(sum))
    <2>1. /\ OffsetOf("size") <= OffsetOf("samename") /\ OffsetOf("samename") <= OffsetOf("sum")
          /\ OffsetOf("sum") <= Len(CksumResponse(sum))
          /\ OffsetOf("size") \in Nat /\ OffsetOf("samename") \in Nat /\ OffsetOf("sum") \in Nat
          /\ Len(CksumResponse(sum)) \in Nat
      <3>1. /\ Len(CksumResponse(sum)) = OffsetOf("sum") + Length["sum"]
            /\ Length["sum"] \in Nat /\ Length["size"] \in Nat /\ NameLength \in Nat
            /\ OffsetOf("samename") = OffsetOf("size") + Length["size"]
            /\ OffsetOf("sum") = OffsetOf("samename") + NameLength
            /\ OffsetOf("size") \in Nat /\ OffsetOf("samename") \in Nat /\ OffsetOf("sum") \in Nat
        BY <1>4, Offsets
      <3> QED
        BY <3>1, SMTT(30)
    <2> QED
      BY <1>1, <2>1
  <1>6. PICK o \in Nat : o = OffsetOf(want)
    BY <1>1
  <1>7. Lags(sum, o + l)'
    BY <1>1, <1>3, <1>4, <1>5, <1>6, LagsOn
  <1>8. Lags(sum, OffsetOf(want))'
    BY <1>6, <1>7
  <1>9. Answered'
    BY <1>1, <1>2, <1>4, <1>8 DEF Answered, InCksum
  <1> QED
    BY <1>9, OnlyReads

\* After main() returned, or with the key as the next thing to ask for.
LEMMA ProceedKeepsMark ==
    ASSUME MarkInv, TypeOK', NEW n \in 0..Len(down), down' = After(down, n),
           UNCHANGED <<up, sstate, req, stored, marked>>, NEW cid, Proceed(cid)
    PROVE  MarkInv'
  <1>1. (Has(down', "cksum") => Has(down, "cksum")) /\ \A q \in {"file", "ok", "final"} : ~Has(<<>>, q)
    BY HasAfter, HasNothing DEF MarkInv, TypeOK
  <1>2. \A q \in {"file", "ok", "final"} : ~Has(out', q)
    BY <1>1, RequestHeaders DEF Proceed, Ask, Finish
  <1>3. /\ \A q \in {"file", "ok", "final"} : Left(q)' => Left(q)
        /\ FileLeft' => FileLeft
    BY <1>2 DEF Left, Handling, FileLeft
  <1>4. \/ cstate = "register" /\ cstate' = "key" /\ want' = "head"
        \/ cstate' = "done" /\ want' = "none"
    BY DEF Proceed, Ask, Finish
  <1> QED
    BY <1>1, <1>3, <1>4 DEF MarkInv, MarkedIsFile, InPayload, Confirmed, NotAsked, OneAtOnce,
                            Answered, InCksum

\* A client asks only when it knows what became of its last file.
LEMMA AskKeepsMark ==
    ASSUME MarkInv, TypeOK', UNCHANGED <<up, sstate, req, stored, marked>>,
           ~FileLeft, ~Left("ok"), ~Left("final"), ~Has(down', "cksum"),
           NEW request \in {"file", "ok", "final"}, NEW bytes, Ask(request, bytes),
           request = "file" => Once(bytes, "file"),
           request # "file" => ~Has(bytes, "file"),
           \A q \in {"ok", "final"} : request # q => ~Has(bytes, q),
           request = "ok" => stored = "file"
    PROVE  MarkInv'
  <1>1. out' = bytes /\ cstate' = request /\ want' = "head"
    BY DEF Ask
  <1>2. /\ ~Has(up, "file") /\ ~Handling("file") /\ sstate # "content"
        /\ \A q \in {"ok", "final"} : ~Has(up, q) /\ ~Handling(q)
    BY DEF FileLeft, Left
  <1>3. /\ \A q \in {"file", "ok", "final"} : Left(q)' <=> Has(bytes, q)
        /\ FileLeft' <=> Has(bytes, "file")
    BY <1>1, <1>2 DEF FileLeft, Left, Handling
  <1>4. FileOnce' <=> Once(bytes, "file")
    BY <1>1, <1>2 DEF FileOnce, Has, Once, Handling
  <1>5. Answered'
    <2>1. down' # <<>> => down'[1] # <<"cksum", 1>>
      BY DEF Has, TypeOK
    <2> QED
      BY <1>1, <2>1 DEF Answered, InCksum
  <1> QED
    BY <1>1, <1>3, <1>4, <1>5 DEF MarkInv, MarkedIsFile, InPayload, Confirmed, NotAsked, OneAtOnce

LEMMA ClientKeepsMark ==
    ASSUME MarkInv, ClientStep, UNCHANGED network
    PROVE  MarkInv'
  <1>0. TypeOK /\ down \in Seq(Byte) /\ Len(down) \in Nat
    BY DEF MarkInv, TypeOK
  <1>1. TypeOK'
    BY <1>0, ClientTypes
  <1>2. CASE SendPart
    <2>1. UNCHANGED <<down, cstate, want, code, sstate, req, stored, marked>>
      BY <1>2 DEF SendPart, session
    <2>2. /\ \A r \in {"file", "ok", "final"} : Left(r)' => Left(r)
          /\ FileLeft' => FileLeft
          /\ FileOnce => FileOnce'
      BY <1>0, <1>2, <2>1, SendLeaves, SendOnce DEF FileLeft
    <2>3. UNCHANGED Sums /\ UNCHANGED Arrived /\ \A sum, o : UNCHANGED Lags(sum, o)
      BY <2>1 DEF Sums, Arrived, Lags
    <2>4. Answered'
      BY <2>1, <2>2, <2>3 DEF MarkInv, Answered, InCksum
    <2> QED
      BY <1>1, <2>1, <2>2, <2>4
         DEF MarkInv, MarkedIsFile, InPayload, Confirmed, NotAsked, OneAtOnce
  <1>3. CASE ReadHead
    <2>1. PICK data \in Received(down, HeadLength, "head") :
              /\ Read(HeadLength, "head", data)
              /\ code' # "none" => code' \in Responses /\ HasCode(code', data)
      BY <1>3 DEF ReadHead
    <2>2. /\ Len(data) \in 0..Len(down) /\ Len(data) <= HeadLength /\ down' = After(down, Len(data))
          /\ want = "head" /\ UNCHANGED <<up, sstate, req, stored, marked>>
      BY <1>0, <2>1, LengthsOf, ReadOf
    <2>3. want' = "id" /\ UNCHANGED <<out, cstate>>
      BY <1>3 DEF ReadHead
    <2>4. code' = "cksum" => Len(data) > 0 /\ Len(down) > 0 /\ down[1] = <<"cksum", 1>>
      <3> SUFFICES ASSUME code' = "cksum"
                   PROVE  Len(data) > 0 /\ Len(down) > 0 /\ down[1] = <<"cksum", 1>>
        OBVIOUS
      <3>1. data \in Seq(Byte) /\ Len(data) <= HeadLength
        BY <1>0, <2>1, <2>2, LengthsOf, ReceivedOf
      <3>2. HasCode("cksum", data) /\ "cksum" \in Responses
        BY <2>1 DEF Responses
      <3>3. Len(data) \in 1..HeadLength /\ data[1] = <<"cksum", 1>>
        BY <3>1, <3>2, CodeOf
      <3>4. data[1] = down[1]
        BY <1>0, <2>1, <3>3, LengthsOf, ReceivedOf
      <3> QED
        BY <1>0, <2>2, <3>3, <3>4, LengthsOf
    <2>5. code' = "cksum" => cstate = "file"
      <3>1. code' = "cksum" => Has(down, "cksum")
        BY <1>0, <2>4 DEF Has
      <3> QED
        BY <2>2, <3>1 DEF MarkInv, NotAsked, Answered
    <2>6. ASSUME cstate = "file", code' = "cksum"
          PROVE  ~FileLeft /\ ~Has(down', "cksum") /\ \E sum \in Sums' : Lags(sum, OffsetOf("id"))'
      <3>2. HeadLength \in Nat \ {0} /\ Len(data) \in 1..HeadLength
        BY <1>0, <2>2, <2>6, <2>4, LengthsOf
      <3>3. down # <<>> /\ down[1] = <<"cksum", 1>>
        BY <2>6, <2>4
      <3>4. ~FileLeft /\ Arrived
        BY <2>2, <2>6, <3>3 DEF MarkInv, Answered
      <3>5. ~Has(down', "cksum")
        <4>1. /\ Len(down') = Len(down) - Len(data)
              /\ \A i \in 1..(Len(down) - Len(data)) : down'[i] = down[Len(data) + i]
          BY <1>0, <2>2, <3>2, AfterOf
        <4>2. ASSUME NEW i \in 1..Len(down') PROVE Len(data) + i \in 2..Len(down)
          BY <1>0, <2>2, <3>2, <4>1
        <4> QED
          BY <3>4, <4>1, <4>2 DEF Has, Arrived
      <3>6. PICK sum \in Sums : AtFront(down, CksumResponse(sum))
        BY <3>4 DEF Arrived
      <3>7. sum \in Sums' /\ sum \in {"sum", "othersum"}
        BY <2>2 DEF Sums
      <3>8. CksumResponse(sum) = After(CksumResponse(sum), 0)
        BY <3>7, CksumResponseOf DEF After
      <3>9. Lags(sum, 0) /\ 0 + HeadLength <= Len(CksumResponse(sum)) /\ 0 + HeadLength = OffsetOf("id")
        <4>1. Lags(sum, 0)
          BY <3>6, <3>8 DEF Lags
        <4>2. /\ Len(CksumResponse(sum)) = OffsetOf("sum") + Length["sum"]
              /\ OffsetOf("id") = HeadLength /\ OffsetOf("size") = OffsetOf("id") + Length["id"]
              /\ OffsetOf("samename") = OffsetOf("size") + Length["size"]
              /\ OffsetOf("sum") = OffsetOf("samename") + NameLength
              /\ Length["sum"] \in Nat /\ Length["size"] \in Nat /\ Length["id"] \in Nat
              /\ NameLength \in Nat
          BY <3>7, Offsets
        <4> QED
          BY <3>2, <4>1, <4>2, SMTT(30)
      <3>10. Lags(sum, 0 + HeadLength)'
        BY <1>0, <2>2, <3>2, <3>7, <3>9, LagsOn
      <3>11. Lags(sum, OffsetOf("id"))'
        BY <3>9, <3>10
      <3> QED
        BY <3>4, <3>5, <3>7, <3>11
    <2>7. UNCHANGED FileLeft
      BY <2>2, <2>3 DEF FileLeft, Left, Handling
    <2>8. Answered'
      BY <2>2, <2>3, <2>6, <2>5, <2>7 DEF MarkInv, Answered, InCksum
    <2> QED
      BY <1>1, <2>2, <2>3, <2>8, OnlyReads
  <1>4. CASE ReadId
    <2>1. PICK data \in Received(down, Length["id"], "id") : Read(Length["id"], "id", data)
      BY <1>4 DEF ReadId
    <2>2. /\ Len(data) \in 0..Len(down) /\ Len(data) <= Length["id"] /\ down' = After(down, Len(data))
          /\ out = <<>> /\ want = "id" /\ UNCHANGED <<up, sstate, req, stored, marked>>
      BY <1>0, <2>1, Offsets, ReadOf
    <2>3. CASE Proceed(id')
      BY <1>1, <2>2, <2>3, ProceedKeepsMark
    <2>4. CASE ~Proceed(id')
      <3>1. /\ UNCHANGED <<out, cstate, code>>
            /\ \/ want' = "cipher" /\ code = "keys"
               \/ want' = "unknown" /\ code = "none"
               \/ want' = "size" /\ code = "cksum"
        BY <1>4, <2>4 DEF ReadId
      <3>2. CASE want' = "size"
        <4>1. OffsetOf(want') = OffsetOf(want) + Length["id"] /\ Length["id"] \in Nat
          BY <2>2, <3>2, Offsets
        <4>2. cstate = "file" /\ InCksum /\ InCksum'
          BY <2>2, <3>1, <3>2 DEF MarkInv, Answered, InCksum
        <4> QED
          BY <1>1, <2>2, <3>1, <3>2, <4>1, <4>2, ReadsOn
      <3>3. CASE want' # "size"
        <4>1. Answered'
          BY <2>2, <3>1, <3>3 DEF MarkInv, Answered, InCksum
        <4> QED
          BY <1>1, <2>2, <3>1, <4>1, OnlyReads
      <3> QED
        BY <3>2, <3>3
    <2> QED
      BY <2>3, <2>4
  <1>5. CASE ReadUnknown
    <2>1. PICK n \in 0..Len(down) : down' = After(down, n)
      BY <1>5 DEF ReadUnknown
    <2>2. UNCHANGED <<up, sstate, req, stored, marked>> /\ Proceed(id)
      BY <1>5 DEF ReadUnknown, session
    <2> QED
      BY <1>1, <2>1, <2>2, ProceedKeepsMark
  <1>6. CASE ReadCipher
    <2>1. PICK data \in Received(down, Length["cipher"], "cipher") :
              /\ Read(Length["cipher"], "cipher", data)
              /\ \/ cstate = "key" /\ \E bad \in BOOLEAN : Ask("file", FileRequest(bad))
                 \/ Proceed(id)
      BY <1>6 DEF ReadCipher, NameFaults
    <2>2. Length["cipher"] \in Nat \ {0}
      BY LengthsOf, AllParts
    <2>3. /\ Len(data) \in 0..Len(down) /\ down' = After(down, Len(data)) /\ out = <<>>
          /\ UNCHANGED <<up, sstate, req, stored, marked>>
      BY <1>0, <2>1, <2>2, ReadOf
    <2>4. CASE Proceed(id)
      BY <1>1, <2>3, <2>4, ProceedKeepsMark
    <2>5. ASSUME cstate = "key", NEW bad \in BOOLEAN, Ask("file", FileRequest(bad))
          PROVE  MarkInv'
      <3>1. /\ Once(FileRequest(bad), "file") /\ ~Has(FileRequest(bad), "ok")
            /\ ~Has(FileRequest(bad), "final")
        BY RequestHeaders
      <3>2. ~FileLeft /\ ~Left("ok") /\ ~Left("final") /\ ~Has(down', "cksum")
        BY <1>0, <2>3, <2>5, HasAfter DEF MarkInv, NotAsked, OneAtOnce
      <3> QED
        BY <1>1, <2>3, <2>5, <3>1, <3>2, AskKeepsMark
    <2> QED
      BY <2>1, <2>4, <2>5
  <1>7. CASE ReadSize
    <2>1. PICK data \in Received(down, Length["size"], "size") : Read(Length["size"], "size", data)
      BY <1>7 DEF ReadSize
    <2>2. /\ Len(data) \in 0..Len(down) /\ Len(data) <= Length["size"]
          /\ down' = After(down, Len(data))
          /\ want = "size" /\ UNCHANGED <<up, sstate, req, stored, marked>>
      BY <1>0, <2>1, Offsets, ReadOf
    <2>3. want' = "samename" /\ UNCHANGED <<out, cstate, code>>
      BY <1>7 DEF ReadSize
    <2>4. cstate = "file" /\ InCksum /\ InCksum'
      BY <2>2, <2>3 DEF MarkInv, Answered, InCksum
    <2>5. OffsetOf(want') = OffsetOf(want) + Length["size"] /\ Length["size"] \in Nat
      BY <2>2, <2>3, Offsets
    <2> QED
      BY <1>1, <2>2, <2>3, <2>4, <2>5, ReadsOn
  <1>8. CASE ReadName
    <2>1. PICK data \in Received(down, NameLength, "samename") : Read(NameLength, "samename", data)
      BY <1>8 DEF ReadName
    <2>2. /\ Len(data) \in 0..Len(down) /\ Len(data) <= NameLength
          /\ down' = After(down, Len(data))
          /\ want = "samename" /\ UNCHANGED <<up, sstate, req, stored, marked>>
      BY <1>0, <2>1, Offsets, ReadOf
    <2>3. want' = "sum" /\ UNCHANGED <<out, cstate, code>>
      BY <1>8 DEF ReadName
    <2>4. cstate = "file" /\ InCksum /\ InCksum'
      BY <2>2, <2>3 DEF MarkInv, Answered, InCksum
    <2>5. OffsetOf(want') = OffsetOf(want) + NameLength /\ NameLength \in Nat
      BY <2>2, <2>3, Offsets
    <2> QED
      BY <1>1, <2>2, <2>3, <2>4, <2>5, ReadsOn
  <1>9. CASE ReadSum
    <2>1. PICK data \in Received(down, Length["sum"], "sum") :
              /\ Read(Length["sum"], "sum", data)
              /\ CksumSucceeded(data) \/ CksumFailed(data) \/ CksumFailedFinally(data)
      BY <1>9 DEF ReadSum
    <2>2. /\ Len(data) \in 0..Len(down) /\ down' = After(down, Len(data))
          /\ want = "sum" /\ UNCHANGED <<up, sstate, req, stored, marked>>
      BY <1>0, <2>1, Offsets, ReadOf
    <2>3. cstate = "file" /\ InCksum
      BY <2>2 DEF MarkInv, Answered, InCksum
    <2>4. ~FileLeft /\ ~Left("ok") /\ ~Left("final") /\ ~Has(down', "cksum")
      BY <1>0, <2>2, <2>3, HasAfter DEF MarkInv, Answered, OneAtOnce
    <2>5. name \in {"filename", "otherfile"}
      BY <1>0 DEF TypeOK
    <2>6. CASE CksumSucceeded(data)
      <3>1. stored = "file"
        BY <1>0, <2>1, <2>2, <2>3, <2>6, SumMeansFile DEF MarkInv, Answered, CksumSucceeded
      <3>2. ~Has(Bytes("ok") \o Bytes(name), "file") /\ ~Has(Bytes("ok") \o Bytes(name), "final")
        BY <2>5, RequestHeaders
      <3>3. Ask("ok", Bytes("ok") \o Bytes(name))
        BY <2>6 DEF CksumSucceeded
      <3> QED
        BY <1>1, <2>2, <2>4, <3>1, <3>2, <3>3, AskKeepsMark
    <2>7. CASE CksumFailed(data)
      <3>1. PICK again : /\ \/ again \in {FileRequest(bad) : bad \in BOOLEAN}
                            \/ again \in {EmptyFileRequest(bad) : bad \in BOOLEAN}
                         /\ Ask("file", Bytes("err") \o Bytes(name) \o again)
        BY <2>7 DEF CksumFailed, NameFaults
      <3>2. /\ Once(Bytes("err") \o Bytes(name) \o again, "file")
            /\ ~Has(Bytes("err") \o Bytes(name) \o again, "ok")
            /\ ~Has(Bytes("err") \o Bytes(name) \o again, "final")
        BY <2>5, <3>1, RequestHeaders
      <3> QED
        BY <1>1, <2>2, <2>4, <3>1, <3>2, AskKeepsMark
    <2>8. CASE CksumFailedFinally(data)
      <3>1. ~Has(Bytes("final") \o Bytes(name), "file") /\ ~Has(Bytes("final") \o Bytes(name), "ok")
        BY <2>5, RequestHeaders
      <3>2. Ask("final", Bytes("final") \o Bytes(name))
        BY <2>8 DEF CksumFailedFinally
      <3> QED
        BY <1>1, <2>2, <2>4, <3>1, <3>2, AskKeepsMark
    <2> QED
      BY <2>1, <2>6, <2>7, <2>8
  <1> QED
    BY <1>2, <1>3, <1>4, <1>5, <1>6, <1>7, <1>8, <1>9 DEF ClientStep

LEMMA InitMark == Init => MarkInv
  <1> SUFFICES ASSUME Init PROVE MarkInv
    OBVIOUS
  <1>1. /\ TypeOK /\ up = <<>> /\ down = <<>> /\ out = Bytes("register") \o Bytes("payload")
        /\ cstate = "register" /\ want = "head" /\ sstate = "header" /\ marked = "nothing"
    BY InitTypes DEF Init
  <1>2. ASSUME NEW q \in {"file", "ok", "final", "cksum"}
        PROVE  ~Has(up, q) /\ ~Has(down, q) /\ ~Has(out, q)
    <2>1. ASSUME NEW p \in {"register", "payload"}
          PROVE  Bytes(p) \in Seq(Byte) /\ ~Has(Bytes(p), q)
      <3>1. p \in Parts
        BY <2>1, AllParts DEF Requests
      <3> QED
        BY <3>1, BytesOf, HasBytes
    <2> QED
      BY <1>1, <2>1, HasConcat, HasNothing
  <1>3. ~Left("file") /\ ~Left("ok") /\ ~Left("final") /\ ~FileLeft
    BY <1>1, <1>2 DEF Left, FileLeft, Handling
  <1> QED
    BY <1>1, <1>2, <1>3 DEF MarkInv, MarkedIsFile, InPayload, Confirmed, NotAsked, OneAtOnce,
                            Answered, InCksum

LEMMA NextMark ==
    ASSUME MarkInv, [Next]_vars
    PROVE  MarkInv'
  <1>1. CASE Next
    BY <1>1, ClientKeepsMark, SessionKeepsMark DEF Next
  <1>2. CASE UNCHANGED vars
    BY <1>2 DEF vars, client, session, MarkInv, TypeOK, MarkedIsFile, InPayload, Confirmed,
                NotAsked, OneAtOnce, Answered, InCksum, FileOnce, FileLeft, Left, Handling,
                Arrived, Lags, Sums
  <1> QED
    BY <1>1, <1>2

\* However the bytes of the two streams arrive, whatever is read for what, and
\* whichever faults happen: the server marks nothing verified but the client's file.
THEOREM OnlyFilesMarked == Spec => []MarkedIsFile
  <1>1. Spec => []MarkInv
    BY InitMark, NextMark, PTL DEF Spec
  <1>2. MarkInv => MarkedIsFile
    BY DEF MarkInv
  <1> QED
    BY <1>1, <1>2, PTL

-----------------------------------------------------------------------------
(* What follows a header is sent with it *)

At(s, i, bytes) == \A k \in 1..Len(bytes) : i + k <= Len(s) /\ s[i + k] = bytes[k]

\* A part q begins l bytes after each beginning of a part p.
Follows(s, p, l, q) == \A i \in 1..Len(s) : s[i] = <<p, 1>> => At(s, i - 1 + l, Bytes(q))

Kept(s) ==
    /\ Follows(s, "register", HeaderLength, "payload")
    /\ Follows(s, "key", HeaderLength, "payload")
    /\ Follows(s, "item", Length["item"] + NameLength, "content")

WholeInv ==
    /\ TypeOK
    /\ RequestsWhole =>
          /\ whole
          /\ Kept(up) /\ Kept(out)
          /\ sstate = "payload" /\ req # "junk" => AtFront(up, Bytes("payload"))
          /\ sstate = "content" => AtFront(up, Bytes("content"))

LEMMA FollowsConcat ==
    ASSUME NEW s \in Seq(Byte), NEW t \in Seq(Byte), NEW p, NEW l \in Nat, NEW q \in Parts,
           Follows(s, p, l, q), Follows(t, p, l, q)
    PROVE  Follows(s \o t, p, l, q)
  <1> DEFINE u == s \o t
             b == Bytes(q)
  <1>1. /\ Len(s) \in Nat /\ Len(t) \in Nat /\ Len(u) = Len(s) + Len(t) /\ Len(b) \in Nat
        /\ \A i \in 1..Len(s) : u[i] = s[i]
        /\ \A i \in 1..Len(t) : u[Len(s) + i] = t[i]
    BY BytesOf
  <1> HIDE DEF u, b
  <1>2. SUFFICES ASSUME NEW i \in 1..Len(u), u[i] = <<p, 1>>, NEW k \in 1..Len(b)
                 PROVE  i - 1 + l + k <= Len(u) /\ u[i - 1 + l + k] = b[k]
    BY DEF Follows, At, u, b
  <1>3. CASE i <= Len(s)
    <2>1. i - 1 + l + k <= Len(s) /\ s[i - 1 + l + k] = b[k]
      <3>1. i \in 1..Len(s) /\ s[i] = <<p, 1>>
        BY <1>1, <1>2, <1>3
      <3>2. At(s, i - 1 + l, Bytes(q))
        BY <3>1 DEF Follows
      <3> QED
        BY <3>2 DEF At, b
    <2>2. i - 1 + l + k \in 1..Len(s)
      BY <1>1, <1>2, <2>1
    <2> QED
      BY <1>1, <2>1, <2>2
  <1>4. CASE i > Len(s)
    <2>1. PICK j \in 1..Len(t) : i = Len(s) + j /\ t[j] = <<p, 1>>
      <3>1. i - Len(s) \in 1..Len(t) /\ i = Len(s) + (i - Len(s))
        BY <1>1, <1>2, <1>4
      <3> QED
        BY <1>1, <1>2, <3>1
    <2>2. j - 1 + l + k <= Len(t) /\ t[j - 1 + l + k] = b[k]
      BY <2>1 DEF Follows, At, b
    <2>3. j - 1 + l + k \in 1..Len(t) /\ i - 1 + l + k = Len(s) + (j - 1 + l + k)
      BY <1>1, <1>2, <2>1, <2>2
    <2>4. i - 1 + l + k <= Len(u)
      BY <1>1, <2>3
    <2> QED
      BY <1>1, <2>2, <2>3, <2>4
  <1> QED
    BY <1>1, <1>2, <1>3, <1>4

LEMMA FollowsAfter ==
    ASSUME NEW s \in Seq(Byte), NEW n \in 0..Len(s), NEW p, NEW l \in Nat, NEW q \in Parts,
           Follows(s, p, l, q)
    PROVE  Follows(After(s, n), p, l, q)
  <1> DEFINE u == After(s, n)
             b == Bytes(q)
  <1>1. /\ Len(s) \in Nat /\ Len(u) = Len(s) - n /\ Len(b) \in Nat
        /\ \A i \in 1..(Len(s) - n) : u[i] = s[n + i]
    BY BytesOf, AfterOf
  <1> HIDE DEF u, b
  <1>2. SUFFICES ASSUME NEW i \in 1..Len(u), u[i] = <<p, 1>>, NEW k \in 1..Len(b)
                 PROVE  i - 1 + l + k <= Len(u) /\ u[i - 1 + l + k] = b[k]
    BY DEF Follows, At, u, b
  <1>3. n + i \in 1..Len(s) /\ s[n + i] = <<p, 1>>
    BY <1>1, <1>2
  <1>4. (n + i) - 1 + l + k <= Len(s) /\ s[(n + i) - 1 + l + k] = b[k]
    <2>1. At(s, (n + i) - 1 + l, Bytes(q))
      BY <1>3 DEF Follows
    <2> QED
      BY <2>1 DEF At, b
  <1>5. i - 1 + l + k \in 1..(Len(s) - n) /\ n + (i - 1 + l + k) = (n + i) - 1 + l + k
    BY <1>1, <1>2, <1>4
  <1> QED
    BY <1>1, <1>4, <1>5

\* It follows the only beginning of a p.
LEMMA FollowsOne ==
    ASSUME NEW s \in Seq(Byte), NEW p, NEW q \in Parts, s # <<>>, s[1] = <<p, 1>>, Once(s, p), p # q
    PROVE  Follows(s \o Bytes(q), p, Len(s), q)
  <1> DEFINE b == Bytes(q)
             u == s \o b
  <1>1. /\ b \in Seq(Byte) /\ Len(s) \in Nat \ {0} /\ Len(b) \in Nat /\ Len(u) = Len(s) + Len(b)
        /\ \A i \in 1..Len(s) : u[i] = s[i]
        /\ \A i \in 1..Len(b) : u[Len(s) + i] = b[i]
        /\ ~Has(b, p)
    BY BytesOf, HasBytes
  <1> HIDE DEF u, b
  <1>2. SUFFICES ASSUME NEW i \in 1..Len(u), u[i] = <<p, 1>>, NEW k \in 1..Len(b)
                 PROVE  i - 1 + Len(s) + k <= Len(u) /\ u[i - 1 + Len(s) + k] = b[k]
    BY DEF Follows, At, u, b
  <1>3. i = 1
    <2>1. CASE i <= Len(s)
      <3>1. i \in 1..Len(s) /\ 1 \in 1..Len(s) /\ s[i] = <<p, 1>>
        BY <1>1, <1>2, <2>1
      <3> QED
        BY <3>1 DEF Once
    <2>2. CASE i > Len(s)
      <3>1. i - Len(s) \in 1..Len(b) /\ i = Len(s) + (i - Len(s))
        BY <1>1, <1>2, <2>2
      <3>2. u[i] = b[i - Len(s)]
        BY <1>1, <3>1
      <3> QED
        BY <1>1, <1>2, <3>1, <3>2 DEF Has
    <2> QED
      BY <1>1, <1>2, <2>1, <2>2
  <1>4. i - 1 + Len(s) + k = Len(s) + k /\ Len(s) + k <= Len(u)
    BY <1>1, <1>2, <1>3
  <1> QED
    BY <1>1, <1>4

LEMMA FollowsNone ==
    ASSUME NEW s, NEW p, NEW l, NEW q, ~Has(s, p)
    PROVE  Follows(s, p, l, q)
  BY DEF Follows, Has

LEMMA KeptLengths ==
    HeaderLength \in Nat /\ Length["item"] + NameLength \in Nat /\ {"payload", "content"} \subseteq Parts
  BY LengthsOf, AllParts

LEMMA KeptConcat ==
    ASSUME NEW s \in Seq(Byte), NEW t \in Seq(Byte), Kept(s), Kept(t)
    PROVE  Kept(s \o t)
  BY FollowsConcat, KeptLengths DEF Kept

LEMMA KeptAfter ==
    ASSUME NEW s \in Seq(Byte), NEW n \in 0..Len(s), Kept(s)
    PROVE  Kept(After(s, n))
  BY FollowsAfter, KeptLengths DEF Kept

LEMMA KeptNone ==
    ASSUME NEW s, ~Has(s, "register"), ~Has(s, "key"), ~Has(s, "item")
    PROVE  Kept(s)
  BY FollowsNone DEF Kept

LEMMA KeptBytes ==
    ASSUME NEW p \in Parts, p \notin {"register", "key", "item"}
    PROVE  Bytes(p) \in Seq(Byte) /\ Kept(Bytes(p))
  BY BytesOf, HasBytes, KeptNone

LEMMA KeptPayload ==
    ASSUME NEW r \in {"register", "key"}
    PROVE  Bytes(r) \o Bytes("payload") \in Seq(Byte) /\ Kept(Bytes(r) \o Bytes("payload"))
  <1>1. {"register", "key", "payload"} \subseteq Parts /\ r \in Requests
    BY AllParts DEF Requests
  <1>2. /\ Bytes(r) \in Seq(Byte) /\ Len(Bytes(r)) = HeaderLength /\ Bytes(r) # <<>>
        /\ Bytes(r)[1] = <<r, 1>> /\ Once(Bytes(r), r)
        /\ \A q \in {"register", "key", "item"} : Has(Bytes(r), q) => q = r
    BY <1>1, BytesOf, HasBytes, LengthsOf
  <1>3. Bytes("payload") \in Seq(Byte) /\ Kept(Bytes("payload"))
    BY <1>1, KeptBytes
  <1>4. Bytes(r) \o Bytes("payload") \in Seq(Byte)
    BY <1>2, <1>3
  <1>5. Follows(Bytes(r) \o Bytes("payload"), r, HeaderLength, "payload")
    BY <1>1, <1>2, FollowsOne
  <1>6. ASSUME NEW q \in {"register", "key", "item"}, q # r, NEW l, NEW t
        PROVE  Follows(Bytes(r) \o Bytes("payload"), q, l, t)
    <2>1. ~Has(Bytes("payload"), q) /\ ~Has(Bytes(r), q)
      BY <1>1, <1>2, <1>6, HasBytes
    <2> QED
      BY <1>2, <1>3, <2>1, HasConcat, FollowsNone
  <1> QED
    BY <1>4, <1>5, <1>6 DEF Kept

LEMMA Concat3 ==
    ASSUME NEW w \in Seq(Byte), NEW x \in Seq(Byte), NEW y \in Seq(Byte)
    PROVE  w \o x \o y = w \o (x \o y)
  BY ConcatAssociative

\* A request of a file is its header and what belongs to it.
LEMMA FileRequestIs ==
    ASSUME NEW bad \in BOOLEAN, NEW n, n = IF bad THEN "badname" ELSE "name"
    PROVE  /\ FileRequest(bad) = Bytes("file") \o (Bytes("item") \o Bytes(n) \o Bytes("content"))
           /\ EmptyFileRequest(bad) = Bytes("file") \o (Bytes("empty") \o Bytes(n))
  <1> DEFINE f == Bytes("file")
             i == Bytes("item")
             e == Bytes("empty")
             m == Bytes(n)
             c == Bytes("content")
  <1>1. f \in Seq(Byte) /\ i \in Seq(Byte) /\ e \in Seq(Byte) /\ m \in Seq(Byte) /\ c \in Seq(Byte)
    BY AllParts, BytesOf DEF Requests
  <1>2. FileRequest(bad) = f \o i \o m \o c /\ EmptyFileRequest(bad) = f \o e \o m
    BY DEF FileRequest, EmptyFileRequest
  <1> HIDE DEF f, i, e, m, c
  <1>3. f \o i \o m = f \o (i \o m)
    BY <1>1, Concat3, SMTT(30)
  <1>4. f \o e \o m = f \o (e \o m)
    BY <1>1, Concat3, SMTT(30)
  <1>5. f \o (i \o m) \o c = f \o (i \o m \o c)
    <2>1. i \o m \in Seq(Byte) /\ f \in Seq(Byte) /\ c \in Seq(Byte)
      BY <1>1
    <2> QED
      BY <2>1, Concat3
  <1>6. FileRequest(bad) = f \o (i \o m \o c) /\ EmptyFileRequest(bad) = f \o (e \o m)
    BY <1>2, <1>3, <1>4, <1>5
  <1> QED
    BY <1>6 DEF f, i, e, m, c

LEMMA KeptFile ==
    ASSUME NEW n \in {"name", "badname"}
    PROVE  /\ Bytes("item") \o Bytes(n) \o Bytes("content") \in Seq(Byte)
           /\ Kept(Bytes("item") \o Bytes(n) \o Bytes("content"))
  <1>1. {"item", "name", "badname", "content", n} \subseteq Parts
    BY AllParts
  <1>2. /\ Bytes("item") \in Seq(Byte) /\ Len(Bytes("item")) = Length["item"]
        /\ Length["item"] \in Nat \ {0} /\ Bytes("item")[1] = <<"item", 1>> /\ Once(Bytes("item"), "item")
        /\ Bytes(n) \in Seq(Byte) /\ Len(Bytes(n)) = NameLength /\ NameLength \in Nat
        /\ ~Has(Bytes(n), "item")
        /\ Bytes("content") \in Seq(Byte)
    BY <1>1, BytesOf, HasBytes, LengthsOf
  <1>3. PICK s \in Seq(Byte) :
            /\ s = Bytes("item") \o Bytes(n) /\ Len(s) = Length["item"] + NameLength /\ s # <<>>
            /\ s[1] = <<"item", 1>> /\ Once(s, "item") /\ ~Has(s, "register") /\ ~Has(s, "key")
    <2>1. /\ ~Has(Bytes("item"), "register") /\ ~Has(Bytes("item"), "key")
          /\ ~Has(Bytes(n), "register") /\ ~Has(Bytes(n), "key")
      BY <1>1, HasBytes
    <2>2. /\ Bytes("item") \o Bytes(n) \in Seq(Byte)
          /\ Len(Bytes("item") \o Bytes(n)) = Length["item"] + NameLength
          /\ (Bytes("item") \o Bytes(n))[1] = <<"item", 1>>
          /\ Bytes("item") \o Bytes(n) # <<>>
      <3> DEFINE a == Bytes("item")
                 b == Bytes(n)
      <3>1. a \in Seq(Byte) /\ b \in Seq(Byte) /\ Len(a) = Length["item"] /\ Len(b) = NameLength
              /\ a[1] = <<"item", 1>> /\ Len(a) > 0
        BY <1>2
      <3> HIDE DEF a, b
      <3>2. a \o b \in Seq(Byte) /\ Len(a \o b) = Len(a) + Len(b) /\ a \o b # <<>> /\ (a \o b)[1] = a[1]
        BY <3>1
      <3> QED
        BY <3>1, <3>2 DEF a, b
    <2>3. /\ Once(Bytes("item") \o Bytes(n), "item")
          /\ ~Has(Bytes("item") \o Bytes(n), "register") /\ ~Has(Bytes("item") \o Bytes(n), "key")
      BY <1>2, <2>1, HasConcat
    <2> QED
      BY <2>2, <2>3
  <1>4. Follows(s \o Bytes("content"), "item", Length["item"] + NameLength, "content")
    BY <1>1, <1>3, FollowsOne
  <1>5. ~Has(s \o Bytes("content"), "register") /\ ~Has(s \o Bytes("content"), "key")
    <2>1. ~Has(Bytes("content"), "register") /\ ~Has(Bytes("content"), "key")
      BY <1>1, HasBytes
    <2> QED
      BY <1>2, <1>3, <2>1, HasConcat
  <1>6. s \o Bytes("content") \in Seq(Byte) /\ Kept(s \o Bytes("content"))
    BY <1>2, <1>3, <1>4, <1>5, FollowsNone DEF Kept
  <1> QED
    BY <1>3, <1>6

\* The requests of the client are kept in this sense.
LEMMA RequestsKept ==
    ASSUME NEW name1 \in {"filename", "otherfile"}, NEW again,
           \/ again \in {FileRequest(bad) : bad \in BOOLEAN}
           \/ again \in {EmptyFileRequest(bad) : bad \in BOOLEAN}
    PROVE  /\ Kept(<<>>) /\ Kept(Bytes("key") \o Bytes("payload"))
           /\ Kept(again) /\ Kept(Bytes("err") \o Bytes(name1) \o again)
           /\ Kept(Bytes("ok") \o Bytes(name1)) /\ Kept(Bytes("final") \o Bytes(name1))
  <1>1. ASSUME NEW p \in {"file", "empty", "name", "badname", "err", "ok", "final", "filename", "otherfile"}
        PROVE  Bytes(p) \in Seq(Byte) /\ Kept(Bytes(p))
    <2>1. p \in Parts
      BY AllParts DEF Requests
    <2> QED
      BY <2>1, KeptBytes
  <1>2. ASSUME NEW s \in Seq(Byte), NEW t \in Seq(Byte), Kept(s), Kept(t)
        PROVE  s \o t \in Seq(Byte) /\ Kept(s \o t)
    BY <1>2, KeptConcat
  <1>3. again \in Seq(Byte) /\ Kept(again)
    <2>1. ASSUME NEW bad \in BOOLEAN
          PROVE  FileRequest(bad) \in Seq(Byte) /\ Kept(FileRequest(bad))
      <3>1. PICK n \in {"name", "badname"} : n = IF bad THEN "badname" ELSE "name"
        OBVIOUS
      <3>2. /\ Bytes("file") \in Seq(Byte) /\ Bytes("item") \in Seq(Byte) /\ Bytes(n) \in Seq(Byte)
            /\ Bytes("content") \in Seq(Byte)
        BY AllParts, BytesOf DEF Requests
      <3>3. PICK t \in Seq(Byte) : t = Bytes("item") \o Bytes(n) \o Bytes("content") /\ Kept(t)
        BY KeptFile
      <3>4. FileRequest(bad) = Bytes("file") \o t
        BY <3>1, <3>3, FileRequestIs
      <3> QED
        <4>1. Kept(Bytes("file")) /\ Kept(t)
          BY <1>1, <3>3
        <4>2. Bytes("file") \o t \in Seq(Byte) /\ Kept(Bytes("file") \o t)
          <5> DEFINE f == Bytes("file")
          <5>1. f \in Seq(Byte) /\ Kept(f) /\ t \in Seq(Byte) /\ Kept(t)
            BY <3>2, <4>1
          <5> HIDE DEF f
          <5>2. f \o t \in Seq(Byte)
            BY <5>1
          <5>3. Kept(f \o t)
            BY <5>1, KeptConcat
          <5> QED
            BY <5>2, <5>3 DEF f
        <4> QED
          BY <3>4, <4>2
    <2>2. ASSUME NEW bad \in BOOLEAN
          PROVE  EmptyFileRequest(bad) \in Seq(Byte) /\ Kept(EmptyFileRequest(bad))
      <3>1. PICK n \in {"name", "badname"} : n = IF bad THEN "badname" ELSE "name"
        OBVIOUS
      <3>2. PICK s \in Seq(Byte) : s = Bytes("file") \o Bytes("empty") /\ Kept(s)
        BY <1>1, <1>2
      <3>3. EmptyFileRequest(bad) = s \o Bytes(n)
        BY <3>1, <3>2 DEF EmptyFileRequest
      <3> QED
        BY <1>1, <1>2, <3>2, <3>3
    <2> QED
      BY <2>1, <2>2
  <1>4. Kept(Bytes("err") \o Bytes(name1) \o again)
    <2>1. PICK s \in Seq(Byte) : s = Bytes("err") \o Bytes(name1) /\ Kept(s)
      BY <1>1, <1>2
    <2> QED
      BY <1>2, <1>3, <2>1
  <1>5. Kept(<<>>)
    BY HasNothing, KeptNone
  <1> QED
    BY <1>1, <1>2, <1>3, <1>4, <1>5, KeptPayload

\* A request that is not split is sent as it is, if at all.
LEMMA SendWhole ==
    ASSUME TypeOK, RequestsWhole, SendPart
    PROVE  /\ up' = (IF sstate = "closed" THEN up ELSE up \o out) /\ out' = <<>>
           /\ out # <<>>
           /\ UNCHANGED <<down, cstate, want, code, id, sstate, req, whole, stored, marked>>
  <1>1. out \in Seq(Byte) /\ up \in Seq(Byte) /\ ~network.split /\ out # <<>>
    BY DEF TypeOK, RequestsWhole, SendPart
  <1>2. /\ up' = IF sstate = "closed" THEN up ELSE up \o SubSeq(out, 1, Len(out))
        /\ out' = After(out, Len(out))
    BY <1>1 DEF SendPart
  <1>3. SubSeq(out, 1, Len(out)) = out /\ After(out, Len(out)) = <<>>
    BY <1>1 DEF After
  <1> QED
    BY <1>1, <1>2, <1>3 DEF SendPart, session

\* What is read whole, if it is at the front.
LEMMA WholeRead ==
    ASSUME NEW s \in Seq(Byte), NEW p \in Parts, NEW read, read \notin network.short,
           AtFront(s, Bytes(p)), NEW data \in Received(s, Length[p], read)
    PROVE  data = Bytes(p)
  <1>1. /\ data \in Seq(Byte) /\ Len(data) = Least(Length[p], Len(s))
        /\ \A k \in 1..Len(data) : data[k] = s[k]
        /\ Bytes(p) \in Seq(Byte) /\ Len(Bytes(p)) = Length[p] /\ Length[p] \in Nat \ {0}
    BY ReceivedOf, BytesOf
  <1>2. Length[p] <= Len(s) /\ \A k \in 1..Length[p] : s[k] = Bytes(p)[k]
    BY <1>1 DEF AtFront
  <1>3. Len(data) = Length[p]
    BY <1>1, <1>2 DEF Least
  <1> QED
    BY <1>1, <1>2, <1>3

LEMMA HeaderOf ==
    ASSUME NEW r \in Requests
    PROVE  /\ r \in Parts /\ Bytes(r) \in Seq(Byte) /\ Len(Bytes(r)) = HeaderLength
           /\ HeaderLength \in Nat \ {0} /\ Bytes(r)[1] = <<r, 1>>
  <1>1. r \in Parts /\ Length[r] = HeaderLength /\ HeaderLength \in Nat \ {0}
    BY AllParts, LengthsOf
  <1> QED
    BY <1>1, BytesOf

LEMMA AtAfter ==
    ASSUME NEW s \in Seq(Byte), NEW n \in 0..Len(s), NEW p \in Parts, At(s, n, Bytes(p))
    PROVE  AtFront(After(s, n), Bytes(p))
  <1>1. /\ Len(Bytes(p)) \in Nat /\ Len(s) \in Nat /\ Len(After(s, n)) = Len(s) - n
        /\ \A i \in 1..(Len(s) - n) : After(s, n)[i] = s[n + i]
    <2>1. Len(Bytes(p)) \in Nat
      BY BytesOf
    <2>2. Len(s) \in Nat
      OBVIOUS
    <2>3. /\ Len(After(s, n)) = Len(s) - n
          /\ \A i \in 1..(Len(s) - n) : After(s, n)[i] = s[n + i]
      BY AfterOf
    <2> QED
      BY <2>1, <2>2, <2>3
  <1>2. ASSUME NEW k \in 1..Len(Bytes(p))
        PROVE  k <= Len(After(s, n)) /\ After(s, n)[k] = Bytes(p)[k]
    <2>1. n + k <= Len(s) /\ s[n + k] = Bytes(p)[k]
      BY DEF At
    <2>2. k \in 1..(Len(s) - n)
      BY <1>1, <2>1
    <2> QED
      BY <1>1, <2>1, <2>2
  <1> QED
    BY <1>2 DEF AtFront

LEMMA SessionKeepsWhole ==
    ASSUME WholeInv, SessionStep, UNCHANGED network
    PROVE  WholeInv'
  <1>1. SUFFICES ASSUME RequestsWhole
                 PROVE  /\ whole'
                        /\ Kept(up') /\ Kept(out')
                        /\ sstate' = "payload" /\ req' # "junk" => AtFront(up', Bytes("payload"))
                        /\ sstate' = "content" => AtFront(up', Bytes("content"))
    BY SessionTypes DEF WholeInv, RequestsWhole
  <1>2. /\ TypeOK /\ up \in Seq(Byte) /\ whole /\ Kept(up) /\ Kept(out)
        /\ {"header", "payload", "item", "content", "filename"} \cap network.short = {}
        /\ UNCHANGED out
    <2>1. UNCHANGED out
      BY DEF SessionStep, ReadHeader, ReadPayload, Refuse, Register, SendKey, ReadFileHeader,
             ReadContent, CksumOk, CksumErr, CksumErrFinal, ReadFilename, client
    <2> QED
      BY <1>1, <2>1 DEF WholeInv, TypeOK, RequestsWhole, SessionReads
  <1>3. Kept(up') /\ Kept(out')
    BY <1>2, SessionTakes, KeptAfter
  <1>4. CASE ReadHeader
    <2>1. PICK data \in Received(up, HeaderLength, "header") :
              /\ Recv(HeaderLength, "header", data)
              /\ \/ \E r \in Requests :
                       /\ data = Bytes(r)
                       /\ req' = r
                       /\ Goto(IF r \in {"register", "key"} THEN "payload" ELSE "handle")
                 \/ req' = "junk" /\ Goto("payload")
                 \/ Goto("closed")
      BY <1>4 DEF ReadHeader
    <2>2. CASE sstate' = "payload" /\ req' # "junk"
      <3>1. PICK r \in {"register", "key"} : data = Bytes(r) /\ r \in Requests
        BY <2>1, <2>2 DEF Goto
      <3>2. r \in Parts /\ Len(data) = HeaderLength /\ data[1] = <<r, 1>> /\ HeaderLength \in Nat \ {0}
        BY <3>1, HeaderOf
      <3>3. Len(data) \in 0..Len(up) /\ \A k \in 1..Len(data) : data[k] = up[k]
        BY <1>2, LengthsOf, ReceivedOf
      <3>4. 1 \in 1..Len(up) /\ up[1] = <<r, 1>> /\ HeaderLength \in 0..Len(up)
        BY <1>2, <3>2, <3>3
      <3>5. At(up, HeaderLength, Bytes("payload"))
        <4>1. At(up, 1 - 1 + HeaderLength, Bytes("payload"))
          BY <1>2, <3>1, <3>4 DEF Kept, Follows
        <4> QED
          BY <3>2, <4>1
      <3>6. up' = After(up, HeaderLength)
        BY <2>1, <3>2 DEF Recv
      <3>7. AtFront(up', Bytes("payload"))
        BY <1>2, <3>4, <3>5, <3>6, AtAfter, AllParts
      <3> QED
        BY <1>2, <1>3, <1>4, <2>2, <3>7 DEF ReadHeader
    <2>3. CASE ~(sstate' = "payload" /\ req' # "junk")
      <3>1. sstate' # "content"
        BY <1>2, <1>4, HeaderRead
      <3> QED
        BY <1>2, <1>3, <1>4, <2>3, <3>1 DEF ReadHeader
    <2> QED
      BY <2>2, <2>3
  <1>5. CASE ReadPayload
    <2>1. CASE req = "junk"
      BY <1>2, <1>3, <1>5, <2>1 DEF ReadPayload, Goto
    <2>2. CASE req # "junk"
      <3>1. PICK data \in Received(up, Length["payload"], "payload") : whole' = (data = Bytes("payload"))
        BY <1>5, <2>2 DEF ReadPayload
      <3>2. AtFront(up, Bytes("payload"))
        BY <1>1, <1>5, <2>2 DEF WholeInv, ReadPayload
      <3>3. data = Bytes("payload")
        BY <1>2, <3>2, WholeRead, AllParts
      <3> QED
        BY <1>3, <1>5, <3>1, <3>3 DEF ReadPayload, Goto
    <2> QED
      BY <2>1, <2>2
  <1>6. CASE ReadFileHeader
    <2>1. PICK data \in Received(up, Length["item"] + NameLength, "item") :
              /\ Recv(Length["item"] + NameLength, "item", data)
              /\ Goto(IF data = Bytes("item") \o Bytes("name") THEN "content" ELSE "header")
      BY <1>6 DEF ReadFileHeader
    <2>2. CASE data = Bytes("item") \o Bytes("name")
      <3>1. Len(data) = Length["item"] + NameLength /\ data[1] = <<"item", 1>>
        <4> DEFINE a == Bytes("item")
                   b == Bytes("name")
        <4>1. "item" \in Parts /\ "name" \in Parts /\ Length["name"] = NameLength
          BY AllParts, LengthsOf
        <4>2. /\ a \in Seq(Byte) /\ Len(a) = Length["item"] /\ a[1] = <<"item", 1>>
              /\ Len(a) > 0 /\ b \in Seq(Byte) /\ Len(b) = NameLength
          BY <4>1, BytesOf
        <4> HIDE DEF a, b
        <4>3. Len(a \o b) = Len(a) + Len(b) /\ (a \o b)[1] = a[1]
          BY <4>2
        <4>4. data = a \o b
          BY <2>2 DEF a, b
        <4> QED
          BY <4>2, <4>3, <4>4
      <3>2. Len(data) \in 0..Len(up) /\ \A k \in 1..Len(data) : data[k] = up[k]
        BY <1>2, KeptLengths, LengthsOf, AllParts, ReceivedOf
      <3>3. 1 \in 1..Len(up) /\ up[1] = <<"item", 1>> /\ Length["item"] + NameLength \in 0..Len(up)
        BY <1>2, <3>1, <3>2, LengthsOf, AllParts
      <3>4. At(up, Length["item"] + NameLength, Bytes("content"))
        <4>1. At(up, 1 - 1 + (Length["item"] + NameLength), Bytes("content"))
          BY <1>2, <3>3 DEF Kept, Follows
        <4> QED
          BY <4>1, KeptLengths
      <3>5. up' = After(up, Length["item"] + NameLength)
        BY <2>1, <3>1 DEF Recv
      <3>6. AtFront(up', Bytes("content"))
        BY <1>2, <3>3, <3>4, <3>5, AtAfter, AllParts
      <3> QED
        BY <1>2, <1>3, <1>6, <2>1, <2>2, <3>6 DEF ReadFileHeader, Goto
    <2>3. CASE data # Bytes("item") \o Bytes("name")
      BY <1>2, <1>3, <1>6, <2>1, <2>3 DEF ReadFileHeader, Goto
    <2> QED
      BY <2>2, <2>3
  <1>7. CASE ReadContent
    <2>1. PICK data \in Received(up, Length["content"], "content") :
              whole' = (data = Bytes("content")) /\ sstate' = "header"
      BY <1>7 DEF ReadContent, Reply, Silent, Goto
    <2>2. AtFront(up, Bytes("content"))
      BY <1>1, <1>7 DEF WholeInv, ReadContent
    <2>3. data = Bytes("content")
      BY <1>2, <2>2, WholeRead, AllParts
    <2> QED
      BY <1>3, <2>1, <2>3
  <1>8. CASE Refuse \/ Register \/ SendKey \/ CksumOk \/ CksumErr \/ CksumErrFinal
    BY <1>2, <1>3, <1>8 DEF Refuse, Register, SendKey, CksumOk, CksumErr, CksumErrFinal,
                            ReadFilename, Reply, Silent, Goto
  <1> QED
    BY <1>4, <1>5, <1>6, <1>7, <1>8 DEF SessionStep

LEMMA ClientKeepsWhole ==
    ASSUME WholeInv, ClientStep, UNCHANGED network
    PROVE  WholeInv'
  <1>1. SUFFICES ASSUME RequestsWhole
                 PROVE  /\ whole'
                        /\ Kept(up') /\ Kept(out')
                        /\ sstate' = "payload" /\ req' # "junk" => AtFront(up', Bytes("payload"))
                        /\ sstate' = "content" => AtFront(up', Bytes("content"))
    BY ClientTypes DEF WholeInv, RequestsWhole
  <1>2. /\ TypeOK /\ up \in Seq(Byte) /\ out \in Seq(Byte) /\ whole /\ Kept(up) /\ Kept(out)
        /\ sstate = "payload" /\ req # "junk" => AtFront(up, Bytes("payload"))
        /\ sstate = "content" => AtFront(up, Bytes("content"))
        /\ name \in {"filename", "otherfile"}
    BY <1>1 DEF WholeInv, TypeOK
  <1>3. CASE SendPart
    <2>1. Kept(<<>>) /\ Kept(up \o out)
      BY <1>2, KeptConcat, HasNothing, KeptNone
    <2> QED
      BY <1>1, <1>2, <1>3, <2>1, SendWhole, FrontStays
  <1>4. CASE ~SendPart
    <2>1. UNCHANGED <<up, sstate, req, whole>>
      BY <1>4 DEF ClientStep, ReadHead, ReadId, ReadUnknown, ReadCipher, ReadSize, ReadName, ReadSum,
                  Read, session
    <2>2. Kept(out')
      <3>1. CASE UNCHANGED out
        BY <1>2, <3>1
      <3>2. ASSUME NEW cid, Proceed(cid)
            PROVE  Kept(out')
        BY <3>2, HasNothing, KeptNone, KeptPayload DEF Proceed, Ask, Finish
      <3>3. CASE ReadCipher
        <4>1. ASSUME NEW bad \in BOOLEAN, Ask("file", FileRequest(bad))
              PROVE  Kept(out')
          BY <1>2, <4>1, RequestsKept DEF Ask
        <4> QED
          BY <3>2, <3>3, <4>1 DEF ReadCipher, NameFaults
      <3>4. CASE ReadSum
        <4>1. PICK data : CksumSucceeded(data) \/ CksumFailed(data) \/ CksumFailedFinally(data)
          BY <3>4 DEF ReadSum
        <4>2. CASE CksumFailed(data)
          <5>1. PICK again : /\ \/ again \in {FileRequest(bad) : bad \in BOOLEAN}
                                \/ again \in {EmptyFileRequest(bad) : bad \in BOOLEAN}
                             /\ Ask("file", Bytes("err") \o Bytes(name) \o again)
            BY <4>2 DEF CksumFailed, NameFaults
          <5> QED
            BY <1>2, <5>1, RequestsKept DEF Ask
        <4>3. CASE CksumSucceeded(data) \/ CksumFailedFinally(data)
          BY <1>2, <4>3, RequestsKept DEF CksumSucceeded, CksumFailedFinally, Ask
        <4> QED
          BY <4>1, <4>2, <4>3
      <3> QED
        BY <1>4, <3>1, <3>2, <3>3, <3>4
           DEF ClientStep, ReadHead, ReadId, ReadUnknown, ReadSize, ReadName
    <2> QED
      BY <1>2, <2>1, <2>2
  <1> QED
    BY <1>3, <1>4

LEMMA InitWhole == Init => WholeInv
  <1>1. Kept(<<>>)
    BY HasNothing, KeptNone
  <1> QED
    BY <1>1, InitTypes, KeptPayload DEF Init, WholeInv

LEMMA NextWhole ==
    ASSUME WholeInv, [Next]_vars
    PROVE  WholeInv'
  <1>1. CASE Next
    BY <1>1, ClientKeepsWhole, SessionKeepsWhole DEF Next
  <1>2. CASE UNCHANGED vars
    BY <1>2 DEF vars, client, session, WholeInv, TypeOK, RequestsWhole
  <1> QED
    BY <1>1, <1>2

\* A session that gets its requests whole reads each payload and each file whole,
\* although it reads them with one recv, whatever is wrong with the requests.
THEOREM PayloadsReadWhole == Spec => []ReadWhole
  <1>1. Spec => []WholeInv
    BY InitWhole, NextWhole, PTL DEF Spec
  <1>2. WholeInv => ReadWhole
    BY DEF WholeInv, ReadWhole
  <1> QED
    BY <1>1, <1>2, PTL

-----------------------------------------------------------------------------
(* Requests are read in step *)

\* The requests arrive whole, and no fault keeps handle_file_request from
\* reading all of one.
NoFaults == RequestsWhole /\ network.faults \cap {"name", "select"} = {}

\* What may follow the header of a request.
FileRest == {Bytes("item") \o Bytes("name") \o Bytes("content")}
              \cup {Bytes("empty") \o Bytes(n) : n \in {"name", "badname"}}

AgainRest(n) == {Bytes(n) \o (Bytes("file") \o c) : c \in FileRest}

Rest(r) ==
    CASE r \in {"register", "key"} -> {Bytes("payload")}
      [] r = "file" -> FileRest
      [] r = "err" -> AgainRest("filename") \cup AgainRest("otherfile")
      [] OTHER -> {Bytes("filename"), Bytes("otherfile")}

IsRequest(s, r) == \E b \in Rest(r) : s = Bytes(r) \o b

\* The requests that can be on their way.
Allowed ==
    CASE cstate \in {"file", "err"} -> {"file", "err"}
      [] cstate = "done" -> IF id = "own" THEN Requests ELSE {"register", "key"}
      [] OTHER -> {cstate}

Idle == sstate = "header" /\ up = <<>> /\ out = <<>>
Asked == sstate = "header" /\ up = <<>> /\ cstate # "done" /\ \E r \in Allowed : IsRequest(out, r)

\* The session has come to a place in a request, and has the rest of it in up.
InRequest ==
    /\ out = <<>>
    /\ \/ sstate = "header" /\ \E r \in Allowed : IsRequest(up, r)
       \/ sstate = "payload" /\ req \in Allowed \cap {"register", "key"} /\ up = Bytes("payload")
       \/ sstate = "handle" /\ req \in Allowed \cap {"register", "key"} /\ up = <<>>
       \/ sstate = "handle" /\ req \in Allowed \ {"register", "key"} /\ up \in Rest(req)
       \/ sstate = "content" /\ "file" \in Allowed /\ up = Bytes("content")
       \/ sstate = "closed" /\ cstate = "done"

Position == Idle \/ Asked \/ InRequest

\* Only a registered client that asked for its key gets one.
KeyAfterId ==
    /\ cstate = "register" => ~Has(down, "cipher") /\ (Idle \/ (want = "head" /\ down = <<>>))
    /\ cstate = "key" => Idle \/ ~Has(down, "cipher")
    /\ id # "own" => cstate \in {"register", "key", "done"} /\ ~Has(down, "cipher")

StepInv ==
    /\ MarkInv
    /\ NoFaults => Position /\ req # "junk" /\ KeyAfterId

LEMMA RestOf ==
    ASSUME NEW r \in Requests, NEW b \in Rest(r)
    PROVE  b \in Seq(Byte) /\ b # <<>>
  <1>1. ASSUME NEW p \in Parts
        PROVE  Bytes(p) \in Seq(Byte) /\ Bytes(p) # <<>>
    BY BytesOf
  <1>2. ASSUME NEW s \in Seq(Byte), NEW t \in Seq(Byte), s # <<>>
        PROVE  s \o t \in Seq(Byte) /\ s \o t # <<>>
    BY <1>2
  <1>3. ASSUME NEW c \in FileRest
        PROVE  c \in Seq(Byte) /\ c # <<>>
    <2>1. CASE c = Bytes("item") \o Bytes("name") \o Bytes("content")
      <3>1. PICK s \in Seq(Byte) : s = Bytes("item") \o Bytes("name") /\ s # <<>>
        BY <1>1, <1>2, AllParts
      <3>2. c = s \o Bytes("content") /\ Bytes("content") \in Seq(Byte)
        BY <1>1, <2>1, <3>1, AllParts
      <3> QED
        BY <1>2, <3>1, <3>2
    <2>2. ASSUME NEW n \in {"name", "badname"}, c = Bytes("empty") \o Bytes(n)
          PROVE  c \in Seq(Byte) /\ c # <<>>
      <3>1. Bytes("empty") \in Seq(Byte) /\ Bytes("empty") # <<>> /\ Bytes(n) \in Seq(Byte)
        BY <1>1, AllParts
      <3> QED
        BY <1>2, <2>2, <3>1
    <2> QED
      BY <2>1, <2>2 DEF FileRest
  <1>4. CASE r = "err"
    <2>1. PICK n \in {"filename", "otherfile"}, c \in FileRest : b = Bytes(n) \o (Bytes("file") \o c)
      BY <1>4 DEF Rest, AgainRest
    <2>2. PICK t \in Seq(Byte) : t = Bytes("file") \o c
      <3>1. Bytes("file") \in Seq(Byte) /\ Bytes("file") # <<>>
        BY <1>1, AllParts DEF Requests
      <3> QED
        BY <1>2, <1>3, <3>1
    <2>3. Bytes(n) \in Seq(Byte) /\ Bytes(n) # <<>>
      BY <1>1, AllParts
    <2> QED
      BY <1>2, <2>1, <2>2, <2>3
  <1>5. CASE r = "file"
    BY <1>3, <1>5 DEF Rest
  <1>6. CASE r \notin {"err", "file"}
    BY <1>1, <1>6, AllParts DEF Rest, Requests
  <1> QED
    BY <1>4, <1>5, <1>6

LEMMA SameBytes ==
    ASSUME NEW s \in Seq(Byte), NEW t \in Seq(Byte), Len(s) = Len(t), \A k \in 1..Len(s) : s[k] = t[k]
    PROVE  s = t
  OBVIOUS

\* s is b and then t.
Joined(s, b, t) == s = b \o t

LEMMA JoinedAt ==
    ASSUME NEW b \in Seq(Byte), NEW t \in Seq(Byte), NEW s, Joined(s, b, t)
    PROVE  /\ s \in Seq(Byte) /\ Len(s) = Len(b) + Len(t)
           /\ \A k \in 1..Len(b) : s[k] = b[k]
           /\ \A k \in 1..Len(t) : s[Len(b) + k] = t[k]
  BY DEF Joined

LEMMA JoinedFirst ==
    ASSUME NEW b \in Seq(Byte), b # <<>>, NEW t \in Seq(Byte), NEW s, Joined(s, b, t)
    PROVE  s \in Seq(Byte) /\ Len(s) = Len(b) + Len(t) /\ s # <<>> /\ s[1] = b[1]
  BY DEF Joined

\* What is read from a stream that begins with b, if the read is not short.
LEMMA TakeFront ==
    ASSUME NEW b \in Seq(Byte), b # <<>>, NEW t \in Seq(Byte), NEW s, Joined(s, b, t),
           NEW read, read \notin network.short, NEW data \in Received(s, Len(b), read)
    PROVE  data = b /\ After(s, Len(data)) = t /\ s # <<>>
  <1>0. /\ s \in Seq(Byte) /\ Len(s) = Len(b) + Len(t)
        /\ \A k \in 1..Len(b) : s[k] = b[k]
        /\ \A k \in 1..Len(t) : s[Len(b) + k] = t[k]
    BY JoinedAt
  <1>1. Len(b) \in Nat \ {0} /\ Len(t) \in Nat /\ Len(s) \in Nat /\ s # <<>>
    BY <1>0
  <1>2. data \in Seq(Byte) /\ Len(data) = Len(b) /\ \A k \in 1..Len(data) : data[k] = s[k]
    BY <1>0, <1>1, ReceivedOf DEF Least
  <1>3. \A k \in 1..Len(data) : data[k] = b[k]
    BY <1>0, <1>2
  <1>4. data = b
    BY <1>2, <1>3, SameBytes
  <1>5. /\ After(s, Len(b)) \in Seq(Byte) /\ Len(After(s, Len(b))) = Len(t)
        /\ \A k \in 1..Len(t) : After(s, Len(b))[k] = t[k]
    <2>1. PICK n \in 0..Len(s) : n = Len(b) /\ Len(s) - n = Len(t)
      BY <1>0, <1>1
    <2>2. /\ After(s, n) \in Seq(Byte) /\ Len(After(s, n)) = Len(s) - n
          /\ \A k \in 1..(Len(s) - n) : After(s, n)[k] = s[n + k]
      BY <1>0, AfterOf
    <2>3. \A k \in 1..Len(t) : s[n + k] = t[k]
      BY <1>0, <2>1
    <2>4. /\ After(s, n) \in Seq(Byte) /\ Len(After(s, n)) = Len(t)
          /\ \A k \in 1..Len(t) : After(s, n)[k] = t[k]
      BY <2>1, <2>2, <2>3
    <2> QED
      BY <2>1, <2>4
  <1>6. After(s, Len(b)) = t
    BY <1>5, SameBytes
  <1> QED
    BY <1>1, <1>2, <1>4, <1>6

LEMMA TakeAll ==
    ASSUME NEW b \in Seq(Byte), b # <<>>, NEW read, read \notin network.short,
           NEW data \in Received(b, Len(b), read)
    PROVE  data = b /\ After(b, Len(data)) = <<>>
  <1> DEFINE e == <<>>
  <1>1. e \in Seq(Byte) /\ Joined(b, b, e)
    BY DEF Joined
  <1> HIDE DEF e
  <1>2. data = b /\ After(b, Len(data)) = e
    BY <1>1, TakeFront
  <1> QED
    BY <1>2 DEF e

LEMMA NoFaultsReads ==
    ASSUME NoFaults
    PROVE  {"header", "payload", "item", "content", "filename"} \cap network.short = {}
  BY DEF NoFaults, RequestsWhole, SessionReads

\* A request is read up to its header.
LEMMA HeaderInStep ==
    ASSUME TypeOK, NoFaults, ReadHeader, NEW r \in Requests, NEW b \in Rest(r),
           Joined(up, Bytes(r), b)
    PROVE  /\ req' = r /\ up' = b
           /\ sstate' = IF r \in {"register", "key"} THEN "payload" ELSE "handle"
  <1> DEFINE h == Bytes(r)
  <1>1. /\ b \in Seq(Byte) /\ h \in Seq(Byte) /\ h # <<>> /\ Len(h) = HeaderLength
        /\ Joined(up, h, b) /\ "header" \notin network.short
    <2>1. Bytes(r) # <<>>
      BY HeaderOf
    <2> QED
      BY <2>1, RestOf, HeaderOf, NoFaultsReads
  <1>2. PICK data \in Received(up, HeaderLength, "header") :
            /\ Recv(HeaderLength, "header", data)
            /\ \/ \E q \in Requests :
                     /\ data = Bytes(q)
                     /\ req' = q
                     /\ Goto(IF q \in {"register", "key"} THEN "payload" ELSE "handle")
               \/ \A q \in Requests : data # Bytes(q)
               \/ Len(data) < HeaderLength
    BY DEF ReadHeader
  <1> HIDE DEF h
  <1>3. data = h /\ After(up, Len(data)) = b
    BY <1>1, <1>2, TakeFront
  <1>4. PICK q \in Requests :
            /\ data = Bytes(q) /\ req' = q
            /\ Goto(IF q \in {"register", "key"} THEN "payload" ELSE "handle")
    BY <1>1, <1>2, <1>3, LengthsOf DEF h
  <1>5. q = r
    <2>1. Bytes(q)[1] = <<q, 1>> /\ Bytes(r)[1] = <<r, 1>>
      BY HeaderOf
    <2>2. Bytes(q) = Bytes(r)
      BY <1>3, <1>4 DEF h
    <2> QED
      BY <2>1, <2>2
  <1> QED
    BY <1>2, <1>3, <1>4, <1>5 DEF Recv, Goto

\* Nothing comes from a client that is there still and has nothing to send.
LEMMA HeaderOfNothing ==
    ASSUME TypeOK, ReadHeader, up = <<>>
    PROVE  cstate = "done" /\ sstate' = "closed" /\ up' = <<>> /\ UNCHANGED req
  <1>1. PICK data \in Received(up, HeaderLength, "header") :
            /\ Recv(HeaderLength, "header", data)
            /\ \/ \E q \in Requests : data = Bytes(q)
               \/ Len(data) = HeaderLength
               \/ Goto("closed") /\ UNCHANGED req
    BY DEF ReadHeader
  <1>2. Len(data) = 0 /\ HeaderLength \in Nat \ {0} /\ up' = After(up, 0)
    <2>1. up \in Seq(Byte) /\ Len(up) = 0 /\ HeaderLength \in Nat \ {0}
      BY LengthsOf DEF TypeOK
    <2>2. Len(data) \in 0..Len(up)
      BY <2>1, ReceivedOf
    <2> QED
      BY <1>1, <2>1, <2>2 DEF Recv
  <1>3. \A q \in Requests : data # Bytes(q)
    BY <1>2, HeaderOf
  <1> QED
    BY <1>1, <1>2, <1>3 DEF Recv, Goto, After

LEMMA PayloadInStep ==
    ASSUME TypeOK, NoFaults, ReadPayload, req # "junk", up = Bytes("payload")
    PROVE  up' = <<>> /\ sstate' = "handle" /\ UNCHANGED req
  <1> DEFINE b == Bytes("payload")
  <1>1. b \in Seq(Byte) /\ b # <<>> /\ Len(b) = Length["payload"] /\ "payload" \notin network.short
    BY AllParts, BytesOf, NoFaultsReads
  <1>2. PICK data \in Received(b, Length["payload"], "payload") : up' = After(b, Len(data))
    BY DEF ReadPayload, Recv
  <1> HIDE DEF b
  <1>3. up' = <<>>
    BY <1>1, <1>2, TakeAll
  <1> QED
    BY <1>3 DEF ReadPayload, Goto

LEMMA FileHeaderInStep ==
    ASSUME TypeOK, NoFaults, ReadFileHeader, up \in FileRest
    PROVE  /\ \/ sstate' = "content" /\ up' = Bytes("content")
              \/ sstate' = "header" /\ up' = <<>>
           /\ UNCHANGED req
  <1> DEFINE i == Bytes("item")
             e == Bytes("empty")
             n == Bytes("name")
             c == Bytes("content")
             l == Length["item"] + NameLength
  <1>1. /\ i \in Seq(Byte) /\ n \in Seq(Byte) /\ c \in Seq(Byte) /\ e \in Seq(Byte) /\ e # <<>>
        /\ Len(i) = Length["item"] /\ Len(n) = NameLength /\ Len(e) = Length["item"]
        /\ i[1] = <<"item", 1>> /\ e[1] = <<"empty", 1>>
        /\ i # <<>> /\ l \in Nat \ {0} /\ "item" \notin network.short
    <2>1. {"item", "name", "content", "empty"} \subseteq Parts /\ Length["item"] \in Nat \ {0}
      BY AllParts, LengthsOf
    <2>2. i # <<>> /\ e # <<>>
      BY <2>1, BytesOf
    <2> QED
      BY <2>1, <2>2, BytesOf, LengthsOf, NoFaultsReads
  <1>2. PICK data \in Received(up, l, "item") :
            /\ up' = After(up, Len(data))
            /\ sstate' = IF data = i \o n THEN "content" ELSE "header"
    BY DEF ReadFileHeader, Recv, Goto
  <1>3. UNCHANGED req
    BY DEF ReadFileHeader
  <1>4. CASE up = i \o n \o c
    <2> HIDE DEF i, e, n, c, l
    <2> DEFINE h == i \o n
    <2>1. h \in Seq(Byte) /\ Len(h) = Len(i) + Len(n) /\ Joined(up, h, c) /\ h # <<>>
      <3>1. Joined(up, h, c) /\ Joined(h, i, n)
        BY <1>4 DEF Joined
      <3> HIDE DEF h
      <3> QED
        BY <1>1, <3>1, JoinedFirst
    <2>2. Len(h) = l
      BY <1>1, <2>1 DEF l
    <2> HIDE DEF h
    <2>3. data = h /\ After(up, Len(data)) = c
      BY <1>1, <1>2, <2>1, <2>2, TakeFront, SMTT(30)
    <2> QED
      BY <1>2, <1>3, <2>3 DEF h, c
  <1>5. ASSUME NEW q \in {"name", "badname"}, up = e \o Bytes(q)
        PROVE  sstate' = "header" /\ up' = <<>>
    <2> DEFINE m == Bytes(q)
    <2>1. m \in Seq(Byte) /\ Len(m) = NameLength
      <3>1. q \in Parts /\ Length[q] = NameLength
        BY AllParts, LengthsOf
      <3> QED
        BY <3>1, BytesOf
    <2> HIDE DEF i, e, n, c, l, m
    <2>2. up = e \o m
      BY <1>5 DEF m
    <2>3. up \in Seq(Byte) /\ Len(up) = Len(e) + Len(m) /\ up # <<>> /\ up[1] = e[1]
      <3>1. Joined(up, e, m)
        BY <2>2 DEF Joined
      <3> QED
        BY <1>1, <2>1, <3>1, JoinedFirst
    <2>4. Len(up) = l
      BY <1>1, <2>1, <2>3 DEF l
    <2>5. data = up /\ After(up, Len(data)) = <<>>
      BY <1>1, <1>2, <2>3, <2>4, TakeAll
    <2>6. data # i \o n
      <3>1. (i \o n)[1] = i[1]
        BY <1>1
      <3> QED
        BY <1>1, <2>3, <2>5, <3>1
    <2> QED
      BY <1>2, <2>5, <2>6
  <1> QED
    BY <1>2, <1>3, <1>4, <1>5 DEF FileRest

LEMMA ContentInStep ==
    ASSUME TypeOK, NoFaults, ReadContent, up = Bytes("content")
    PROVE  up' = <<>> /\ sstate' = "header" /\ UNCHANGED req
  <1> DEFINE b == Bytes("content")
  <1>1. b \in Seq(Byte) /\ b # <<>> /\ Len(b) = Length["content"] /\ "content" \notin network.short
    BY AllParts, BytesOf, NoFaultsReads
  <1>2. PICK data \in Received(b, Length["content"], "content") :
            up' = After(b, Len(data)) /\ sstate' = "header" /\ UNCHANGED req
    BY DEF ReadContent, Recv, Reply, Silent, Goto
  <1> HIDE DEF b
  <1> QED
    BY <1>1, <1>2, TakeAll

\* Also of a file that failed all the name is read.
LEMMA FilenameInStep ==
    ASSUME TypeOK, NoFaults, NEW r \in {"ok", "err", "final"}, NEW answer, NEW s, NEW m,
           ReadFilename(r, answer, s, m), up \in Rest(r)
    PROVE  /\ sstate' = "header" /\ UNCHANGED req
           /\ IF r = "err" THEN \E c \in FileRest : up' = Bytes("file") \o c ELSE up' = <<>>
  <1>1. sstate' = "header" /\ UNCHANGED req
    BY DEF ReadFilename, Reply, Silent, Goto
  <1>2. PICK data \in Received(up, NameLength, "filename") : up' = After(up, Len(data))
    BY DEF ReadFilename, Recv
  <1>3. ASSUME NEW q \in {"filename", "otherfile"}
        PROVE  Bytes(q) \in Seq(Byte) /\ Bytes(q) # <<>> /\ Len(Bytes(q)) = NameLength
    <2>1. q \in Parts /\ Length[q] = NameLength
      BY AllParts, LengthsOf
    <2> QED
      BY <2>1, BytesOf
  <1>4. "filename" \notin network.short
    BY NoFaultsReads
  <1>5. CASE r = "err"
    <2>1. PICK q \in {"filename", "otherfile"}, c \in FileRest : up = Bytes(q) \o (Bytes("file") \o c)
      BY <1>5 DEF Rest, AgainRest
    <2> DEFINE b == Bytes(q)
               t == Bytes("file") \o c
    <2>2. b \in Seq(Byte) /\ b # <<>> /\ Len(b) = NameLength /\ Joined(up, b, t)
      BY <1>3, <2>1 DEF Joined
    <2>3. t \in Seq(Byte)
      <3>1. c \in Seq(Byte) /\ Bytes("file") \in Seq(Byte)
        BY RestOf, HeaderOf DEF Rest, Requests
      <3> QED
        BY <3>1
    <2> HIDE DEF b, t
    <2>4. up' = t
      BY <1>2, <1>4, <2>2, <2>3, TakeFront
    <2> QED
      BY <1>1, <1>5, <2>4 DEF t
  <1>6. CASE r # "err"
    <2>1. PICK q \in {"filename", "otherfile"} : up = Bytes(q)
      BY <1>6 DEF Rest
    <2> DEFINE b == Bytes(q)
    <2>2. b \in Seq(Byte) /\ b # <<>> /\ Len(b) = NameLength /\ up = b
      BY <1>3, <2>1
    <2> HIDE DEF b
    <2>3. up' = <<>>
      BY <1>2, <1>4, <2>2, TakeAll
    <2> QED
      BY <1>1, <1>6, <2>3
  <1> QED
    BY <1>5, <1>6

\* A handler that returns has read its request, or the part that is one.
LEMMA SessionInStep ==
    ASSUME TypeOK, NoFaults, SessionStep, Position, req # "junk",
           id # "own" => cstate \in {"register", "key", "done"}
    PROVE  /\ Position' /\ req' # "junk"
           /\ UNCHANGED <<out, cstate, want, id>>
           /\ down' = down \/ Idle'
           /\ id # "own" \/ cstate = "register" => down' = down \/ Refuse \/ Register
           /\ Idle => cstate = "done"
  <1>1. UNCHANGED <<out, cstate, want, id>> /\ UNCHANGED Allowed
    <2>1. UNCHANGED <<out, cstate, want, id>>
      BY DEF SessionStep, ReadHeader, ReadPayload, Refuse, Register, SendKey, ReadFileHeader,
             ReadContent, CksumOk, CksumErr, CksumErrFinal, ReadFilename, client
    <2> QED
      BY <2>1 DEF Allowed
  <1>2. /\ Allowed \subseteq Requests
        /\ id # "own" \/ cstate = "register" => Allowed \subseteq {"register", "key"}
        /\ cstate = "register" => Allowed = {"register"}
        /\ "err" \in Allowed => "file" \in Allowed
    <2>1. CASE cstate = "done"
      BY <2>1 DEF Allowed, Requests
    <2>2. CASE cstate \in {"file", "err"}
      BY <2>2 DEF Allowed, Requests
    <2>3. CASE cstate \notin {"done", "file", "err"}
      <3>1. Allowed = {cstate} /\ cstate \in Requests
        BY <2>3 DEF Allowed, TypeOK
      <3> QED
        BY <2>3, <3>1
    <2> QED
      BY <2>1, <2>2, <2>3
  <1>3. CASE ReadHeader
    <2>0. sstate = "header" /\ UNCHANGED down
      BY <1>3 DEF ReadHeader
    <2>1. CASE up = <<>>
      <3>1. cstate = "done" /\ sstate' = "closed" /\ up' = <<>> /\ UNCHANGED req
        BY <1>3, <2>1, HeaderOfNothing
      <3>2. out = <<>>
        BY <2>0, <3>1 DEF Position, Idle, Asked, InRequest
      <3> QED
        BY <1>1, <2>0, <3>1, <3>2 DEF Position, InRequest
    <2>2. CASE up # <<>>
      <3>1. out = <<>> /\ \E r \in Allowed : IsRequest(up, r)
        BY <2>0, <2>2 DEF Position, Idle, Asked, InRequest
      <3>2. PICK r \in Allowed : IsRequest(up, r)
        BY <3>1
      <3>3. PICK b \in Rest(r) : Joined(up, Bytes(r), b)
        BY <3>2 DEF IsRequest, Joined
      <3>4. r \in Requests
        BY <1>2
      <3>5. req' = r /\ up' = b /\ sstate' = IF r \in {"register", "key"} THEN "payload" ELSE "handle"
        BY <1>3, <3>3, <3>4, HeaderInStep
      <3>6. r \in {"register", "key"} => b = Bytes("payload")
        BY <3>3 DEF Rest
      <3>7. InRequest'
        <4>1. CASE r \in {"register", "key"}
          BY <1>1, <3>1, <3>2, <3>5, <3>6, <4>1 DEF InRequest
        <4>2. CASE r \notin {"register", "key"}
          BY <1>1, <3>1, <3>2, <3>3, <3>5, <4>2 DEF InRequest
        <4> QED
          BY <4>1, <4>2
      <3> QED
        BY <1>1, <2>0, <2>2, <3>4, <3>5, <3>7 DEF Position, Idle, Requests
    <2> QED
      BY <2>1, <2>2
  <1>4. CASE ReadPayload
    <2>1. sstate = "payload" /\ UNCHANGED down
      BY <1>4 DEF ReadPayload
    <2>2. out = <<>> /\ req \in Allowed \cap {"register", "key"} /\ up = Bytes("payload")
      BY <2>1 DEF Position, Idle, Asked, InRequest
    <2>3. up' = <<>> /\ sstate' = "handle" /\ UNCHANGED req
      BY <1>4, <2>2, PayloadInStep
    <2> QED
      BY <1>1, <2>1, <2>2, <2>3 DEF Position, Idle, InRequest
  <1>5. CASE Refuse \/ Register \/ SendKey
    <2>1. sstate = "handle" /\ sstate' = "header" /\ UNCHANGED <<up, req>>
      BY <1>5 DEF Refuse, Register, SendKey, Known, Reply, Silent, Goto
    <2>2. out = <<>> /\ req \in Allowed
      BY <2>1 DEF Position, Idle, Asked, InRequest
    <2>3. req \in {"register", "key"}
      BY <1>2, <1>5, <2>2 DEF Refuse, Register, SendKey, Known, NoFaults
    <2>4. up = <<>>
      BY <2>1, <2>3 DEF Position, Idle, Asked, InRequest
    <2>5. SendKey => id = "own" /\ cstate # "register"
      BY <1>2, <2>2 DEF SendKey, Known
    <2> QED
      BY <1>1, <1>5, <2>1, <2>2, <2>4, <2>5 DEF Position, Idle
  <1>6. CASE ReadFileHeader
    <2>1. sstate = "handle" /\ req = "file" /\ id = "own" /\ UNCHANGED down
      BY <1>6 DEF ReadFileHeader, Known
    <2>2. out = <<>> /\ req \in Allowed /\ up \in FileRest
      BY <2>1 DEF Position, Idle, Asked, InRequest, Rest
    <2>3. /\ \/ sstate' = "content" /\ up' = Bytes("content")
             \/ sstate' = "header" /\ up' = <<>>
          /\ UNCHANGED req
      BY <1>6, <2>2, FileHeaderInStep
    <2> QED
      BY <1>1, <2>1, <2>2, <2>3 DEF Position, Idle, InRequest
  <1>7. CASE ReadContent
    <2>1. sstate = "content"
      BY <1>7 DEF ReadContent
    <2>2. out = <<>> /\ "file" \in Allowed /\ up = Bytes("content")
      BY <2>1 DEF Position, Idle, Asked, InRequest
    <2>3. up' = <<>> /\ sstate' = "header" /\ UNCHANGED req
      BY <1>7, <2>2, ContentInStep
    <2> QED
      BY <1>1, <1>2, <2>1, <2>2, <2>3 DEF Position, Idle
  <1>8. CASE CksumOk \/ CksumErr \/ CksumErrFinal
    <2>1. PICK r \in {"ok", "err", "final"}, answer \in BOOLEAN :
              /\ \E s, m : ReadFilename(r, answer, s, m)
              /\ answer <=> r # "err"
      BY <1>8 DEF CksumOk, CksumErr, CksumErrFinal
    <2>2. PICK s, m : ReadFilename(r, answer, s, m)
      BY <2>1
    <2>3. sstate = "handle" /\ req = r /\ id = "own" /\ (r = "err" => UNCHANGED down)
      BY <2>1, <2>2 DEF ReadFilename, Known, Silent
    <2>4. out = <<>> /\ req \in Allowed /\ up \in Rest(r)
      BY <2>3 DEF Position, Idle, Asked, InRequest
    <2>5. /\ sstate' = "header" /\ UNCHANGED req
          /\ IF r = "err" THEN \E c \in FileRest : up' = Bytes("file") \o c ELSE up' = <<>>
      BY <2>2, <2>4, FilenameInStep
    <2>6. r = "err" => "file" \in Allowed /\ IsRequest(up', "file")
      BY <1>2, <2>3, <2>4, <2>5 DEF IsRequest, Rest
    <2> QED
      BY <1>1, <1>2, <2>3, <2>4, <2>5, <2>6 DEF Position, Idle, InRequest
  <1> QED
    BY <1>3, <1>4, <1>5, <1>6, <1>7, <1>8 DEF SessionStep

LEMMA SessionKeepsStep ==
    ASSUME StepInv, SessionStep, UNCHANGED network
    PROVE  StepInv'
  <1>1. TypeOK /\ MarkInv' /\ UNCHANGED NoFaults /\ down \in Seq(Byte)
    BY SessionKeepsMark DEF StepInv, MarkInv, TypeOK, NoFaults, RequestsWhole
  <1>2. SUFFICES ASSUME NoFaults PROVE Position' /\ req' # "junk" /\ KeyAfterId'
    BY <1>1 DEF StepInv
  <1>3. Position /\ req # "junk" /\ KeyAfterId
    BY <1>2 DEF StepInv
  <1>4. /\ Position' /\ req' # "junk"
        /\ UNCHANGED <<out, cstate, want, id>>
        /\ down' = down \/ Idle'
        /\ id # "own" \/ cstate = "register" => down' = down \/ Refuse \/ Register
        /\ Idle => cstate = "done"
    BY <1>1, <1>2, <1>3, SessionInStep DEF KeyAfterId
  <1>5. ASSUME Refuse \/ Register, ~Has(down, "cipher")
        PROVE  ~Has(down', "cipher")
    <2>1. PICK t : (down' = down \/ down' = down \o t)
                   /\ \E r \in {"refused", "registered"} : t = Bytes(r) \o Bytes("id")
      BY <1>5 DEF Refuse, Register, Reply
    <2>2. ASSUME NEW p \in {"refused", "registered", "id"}
          PROVE  Bytes(p) \in Seq(Byte) /\ ~Has(Bytes(p), "cipher")
      <3>1. p \in Parts
        BY AllParts DEF Responses
      <3> QED
        BY <2>2, <3>1, BytesOf, HasBytes
    <2>3. t \in Seq(Byte) /\ ~Has(t, "cipher")
      BY <2>1, <2>2, HasConcat
    <2>4. down' = down \o t => ~Has(down', "cipher")
      BY <1>1, <1>5, <2>3, HasConcat
    <2> QED
      BY <1>5, <2>1, <2>4
  <1>6. KeyAfterId'
    BY <1>3, <1>4, <1>5 DEF KeyAfterId
  <1> QED
    BY <1>4, <1>6

\* What the client asks for is a request, whatever file it has.
LEMMA Asks ==
    ASSUME NEW n \in {"filename", "otherfile"}, NEW again,
           \/ again = FileRequest(FALSE)
           \/ again \in {EmptyFileRequest(bad) : bad \in BOOLEAN}
    PROVE  /\ IsRequest(Bytes("register") \o Bytes("payload"), "register")
           /\ IsRequest(Bytes("key") \o Bytes("payload"), "key")
           /\ IsRequest(again, "file")
           /\ IsRequest(Bytes("err") \o Bytes(n) \o again, "err")
           /\ IsRequest(Bytes("ok") \o Bytes(n), "ok")
           /\ IsRequest(Bytes("final") \o Bytes(n), "final")
  <1>1. PICK c \in FileRest : again = Bytes("file") \o c
    <2>1. CASE again = FileRequest(FALSE)
      <3>1. again = Bytes("file") \o (Bytes("item") \o Bytes("name") \o Bytes("content"))
        BY <2>1, FileRequestIs
      <3> QED
        BY <3>1 DEF FileRest
    <2>2. ASSUME NEW bad \in BOOLEAN, again = EmptyFileRequest(bad)
          PROVE  \E c \in FileRest : again = Bytes("file") \o c
      <3>1. PICK m \in {"name", "badname"} : m = IF bad THEN "badname" ELSE "name"
        OBVIOUS
      <3>2. again = Bytes("file") \o (Bytes("empty") \o Bytes(m))
        BY <2>2, <3>1, FileRequestIs
      <3> QED
        BY <3>2 DEF FileRest
    <2> QED
      BY <2>1, <2>2
  <1>2. IsRequest(again, "file")
    BY <1>1 DEF IsRequest, Rest
  <1>3. IsRequest(Bytes("err") \o Bytes(n) \o again, "err")
    <2> DEFINE e == Bytes("err")
               m == Bytes(n)
    <2>1. e \in Seq(Byte) /\ m \in Seq(Byte) /\ again \in Seq(Byte)
      <3>1. n \in Parts /\ "err" \in Parts
        BY AllParts DEF Requests
      <3>2. again \in Seq(Byte)
        BY RequestTypes
      <3> QED
        BY <3>1, <3>2, BytesOf
    <2>2. m \o again \in Rest("err")
      BY <1>1 DEF Rest, AgainRest
    <2> HIDE DEF e, m
    <2>3. e \o m \o again = e \o (m \o again)
      BY <2>1, Concat3
    <2> QED
      BY <2>2, <2>3 DEF IsRequest, e, m
  <1>4. /\ IsRequest(Bytes("register") \o Bytes("payload"), "register")
        /\ IsRequest(Bytes("key") \o Bytes("payload"), "key")
        /\ IsRequest(Bytes("ok") \o Bytes(n), "ok")
        /\ IsRequest(Bytes("final") \o Bytes(n), "final")
    BY DEF IsRequest, Rest
  <1> QED
    BY <1>2, <1>3, <1>4

\* The client reads on, and nobody is at another place in a request.
LEMMA ReadsInStep ==
    ASSUME TypeOK, Position, KeyAfterId, UNCHANGED <<up, out, sstate, req, cstate>>,
           NEW n \in 0..Len(down), down' = After(down, n),
           cstate = "register" => Idle,
           id' = id \/ (cstate = "register" /\ id # "own")
    PROVE  Position' /\ KeyAfterId'
  <1>1. ~Has(down, "cipher") => ~Has(down', "cipher")
    BY HasAfter DEF TypeOK
  <1>2. UNCHANGED Allowed
    BY DEF Allowed
  <1>3. Position'
    BY <1>2 DEF Position, Idle, Asked, InRequest
  <1>4. KeyAfterId'
    BY <1>1 DEF KeyAfterId, Idle
  <1> QED
    BY <1>3, <1>4

LEMMA ProceedInStep ==
    ASSUME TypeOK, Position, KeyAfterId, UNCHANGED <<up, sstate, req>>,
           NEW n \in 0..Len(down), down' = After(down, n),
           cstate = "register" => Idle,
           id' = id \/ (cstate = "register" /\ id # "own"),
           NEW cid, Proceed(cid)
    PROVE  Position' /\ KeyAfterId'
  <1>1. ~Has(down, "cipher") => ~Has(down', "cipher")
    BY HasAfter DEF TypeOK
  <1>2. CASE cstate = "register" /\ Ask("key", Bytes("key") \o Bytes("payload"))
    <2>1. cstate' = "key" /\ IsRequest(out', "key") /\ Allowed' = {"key"}
      BY <1>2, Asks DEF Ask, Allowed
    <2>2. Idle /\ ~Has(down, "cipher")
      BY <1>2 DEF KeyAfterId
    <2>3. Position'
      BY <2>1, <2>2 DEF Position, Asked, Idle
    <2> QED
      BY <1>1, <2>1, <2>2, <2>3 DEF KeyAfterId
  <1>3. CASE Finish
    <2>1. cstate' = "done" /\ out' = <<>>
      BY <1>3 DEF Finish
    <2>2. Allowed \subseteq Allowed'
      <3>1. CASE id' = "own"
        <4>1. Allowed' = Requests
          BY <2>1, <3>1 DEF Allowed
        <4>2. Allowed \subseteq Requests
          BY DEF Allowed, TypeOK, Requests
        <4> QED
          BY <4>1, <4>2
      <3>2. CASE id' # "own"
        <4>1. Allowed' = {"register", "key"} /\ id # "own"
          BY <2>1, <3>2 DEF Allowed
        <4>2. cstate \in {"register", "key", "done"}
          BY <4>1 DEF KeyAfterId
        <4> QED
          BY <4>1, <4>2 DEF Allowed
      <3> QED
        BY <3>1, <3>2
    <2>3. Position'
      <3>1. CASE Idle \/ Asked
        BY <2>1, <3>1 DEF Position, Idle, Asked
      <3>2. CASE InRequest
        BY <2>1, <2>2, <3>2 DEF Position, InRequest
      <3> QED
        BY <3>1, <3>2 DEF Position
    <2> QED
      BY <1>1, <2>1, <2>3 DEF KeyAfterId
  <1> QED
    BY <1>2, <1>3 DEF Proceed

\* A registered client that is idle asks for something else than its key.
LEMMA AskInStep ==
    ASSUME Idle, id = "own", UNCHANGED <<up, sstate, id>>,
           NEW request \in {"file", "ok", "final"}, NEW bytes, Ask(request, bytes),
           NEW r, r \in (IF request = "file" THEN {"file", "err"} ELSE {request}), IsRequest(bytes, r)
    PROVE  Position' /\ KeyAfterId'
  <1>1. cstate' = request /\ out' = bytes /\ r \in Allowed'
    BY DEF Ask, Allowed
  <1>2. Asked'
    BY <1>1 DEF Asked, Idle
  <1> QED
    BY <1>1, <1>2 DEF Position, KeyAfterId

\* A part whose first byte is read was in the stream.
LEMMA PartRead ==
    ASSUME TypeOK, NEW p \in Parts, NEW read, NEW data \in Received(down, Length[p], read),
           MayBe(p, data)
    PROVE  Has(down, p) /\ down[1] = <<p, 1>> /\ 1 \in 1..Len(down)
  <1>1. Length[p] \in Nat \ {0} /\ down \in Seq(Byte)
    BY LengthsOf DEF TypeOK
  <1>2. /\ data \in Seq(Byte) /\ Len(data) \in 0..Len(down) /\ Len(data) <= Length[p]
        /\ \A k \in 1..Len(data) : data[k] = down[k]
    BY <1>1, ReceivedOf
  <1>3. Len(data) \in 1..Length[p]
    BY <1>1, <1>2 DEF MayBe
  <1>4. data[1] = <<p, 1>>
    BY <1>3, PrefixOf DEF MayBe
  <1>5. 1 \in 1..Len(down) /\ down[1] = <<p, 1>>
    BY <1>1, <1>2, <1>3, <1>4
  <1> QED
    BY <1>5 DEF Has

LEMMA RequestNotEmpty ==
    ASSUME NEW r \in Requests, NEW s, IsRequest(s, r)
    PROVE  s \in Seq(Byte) /\ s # <<>> /\ Has(s, r)
  <1> DEFINE h == Bytes(r)
  <1>1. h \in Seq(Byte) /\ h # <<>> /\ h[1] = <<r, 1>>
    <2>1. h # <<>>
      BY HeaderOf
    <2> QED
      BY <2>1, HeaderOf
  <1>2. PICK b \in Rest(r) : Joined(s, h, b)
    BY DEF IsRequest, Joined
  <1>3. b \in Seq(Byte)
    BY RestOf
  <1> HIDE DEF h
  <1>4. s \in Seq(Byte) /\ s # <<>> /\ s[1] = <<r, 1>>
    BY <1>1, <1>2, <1>3, JoinedFirst
  <1> QED
    BY <1>4 DEF Has

\* The client sends the file again with the news that its checksum was wrong.
LEMMA AgainHasFile ==
    ASSUME NEW b \in Rest("err")
    PROVE  Has(b, "file") /\ \A s : Joined(s, Bytes("err"), b) => Has(s, "file")
  <1> DEFINE f == Bytes("file")
             e == Bytes("err")
  <1>1. PICK n \in {"filename", "otherfile"}, c \in FileRest : b = Bytes(n) \o (f \o c)
    BY DEF Rest, AgainRest
  <1> DEFINE m == Bytes(n)
             t == f \o c
  <1>2. f \in Seq(Byte) /\ e \in Seq(Byte) /\ m \in Seq(Byte) /\ c \in Seq(Byte) /\ Has(f, "file")
    <2>1. {"file", "err", n} \subseteq Parts
      BY AllParts DEF Requests
    <2>2. c \in Seq(Byte)
      BY RestOf DEF Rest, Requests
    <2> QED
      BY <2>1, <2>2, BytesOf, HasBytes
  <1>3. b = m \o t
    BY <1>1
  <1> HIDE DEF f, e, m
  <1>4. t \in Seq(Byte) /\ Has(t, "file")
    BY <1>2, HasConcat
  <1> HIDE DEF t
  <1>5. b \in Seq(Byte) /\ Has(b, "file")
    BY <1>2, <1>3, <1>4, HasConcat
  <1>6. e \o b \in Seq(Byte) /\ Has(e \o b, "file")
    BY <1>2, <1>5, HasConcat
  <1> QED
    BY <1>5, <1>6 DEF Joined, e

LEMMA ClientInStep ==
    ASSUME MarkInv, NoFaults, Position, KeyAfterId, ClientStep, UNCHANGED network
    PROVE  Position' /\ KeyAfterId'
  <1>0. TypeOK /\ down \in Seq(Byte) /\ up \in Seq(Byte) /\ out \in Seq(Byte)
    BY DEF MarkInv, TypeOK
  <1>1. CASE SendPart
    <2>1. /\ up' = (IF sstate = "closed" THEN up ELSE up \o out) /\ out' = <<>> /\ out # <<>>
          /\ UNCHANGED <<down, cstate, want, id, sstate, req>>
      BY <1>0, <1>1, SendWhole DEF NoFaults
    <2>2. Asked /\ ~Idle
      BY <2>1 DEF Position, Idle, InRequest
    <2>3. up' = out
      BY <1>0, <2>1, <2>2 DEF Asked
    <2>4. InRequest' /\ UNCHANGED Allowed
      BY <2>1, <2>2, <2>3 DEF InRequest, Asked, Allowed
    <2> QED
      BY <2>1, <2>2, <2>4 DEF Position, KeyAfterId
  <1>2. CASE ~SendPart
    <2>1. UNCHANGED <<up, sstate, req>>
      BY <1>2 DEF ClientStep, ReadHead, ReadId, ReadUnknown, ReadCipher, ReadSize, ReadName,
                  ReadSum, Read, session
    <2>2. want # "head" => (cstate = "register" => Idle)
      BY DEF KeyAfterId
    <2>3. CASE ReadHead
      <3>1. PICK data \in Received(down, HeadLength, "head") : Read(HeadLength, "head", data)
        BY <2>3 DEF ReadHead
      <3>2. /\ Len(data) \in 0..Len(down) /\ down' = After(down, Len(data))
            /\ UNCHANGED <<out, cstate, id>> /\ (down # <<>> \/ sstate = "closed")
        BY <1>0, <2>3, <3>1, LengthsOf, ReadOf DEF ReadHead, Read
      <3>3. cstate = "register" => Idle
        BY <3>2 DEF KeyAfterId, Position, Idle, Asked, InRequest
      <3> QED
        BY <1>0, <2>1, <3>2, <3>3, ReadsInStep
    <2>4. CASE ReadId
      <3>1. PICK data \in Received(down, Length["id"], "id") : Read(Length["id"], "id", data)
        BY <2>4 DEF ReadId
      <3>2. Len(data) \in 0..Len(down) /\ down' = After(down, Len(data)) /\ want = "id"
        BY <1>0, <3>1, Offsets, ReadOf
      <3>3. id' = id \/ (cstate = "register" /\ id # "own")
        BY <2>4 DEF ReadId
      <3>4. CASE Proceed(id')
        BY <1>0, <2>1, <2>2, <3>2, <3>3, <3>4, ProceedInStep
      <3>5. CASE UNCHANGED <<out, cstate>>
        BY <1>0, <2>1, <2>2, <3>2, <3>3, <3>5, ReadsInStep
      <3> QED
        BY <2>4, <3>4, <3>5 DEF ReadId
    <2>5. CASE ReadUnknown
      <3>1. PICK n \in 0..Len(down) : down' = After(down, n)
        BY <2>5 DEF ReadUnknown
      <3>2. Proceed(id) /\ want = "unknown" /\ id' = id
        BY <2>5 DEF ReadUnknown
      <3> QED
        BY <1>0, <2>1, <2>2, <3>1, <3>2, ProceedInStep
    <2>6. CASE ReadCipher
      <3>1. PICK data \in Received(down, Length["cipher"], "cipher") :
                /\ Read(Length["cipher"], "cipher", data)
                /\ \/ /\ cstate = "key" /\ MayBe("cipher", data)
                      /\ \E bad \in NameFaults : Ask("file", FileRequest(bad))
                   \/ Proceed(id)
        BY <2>6 DEF ReadCipher
      <3>2. Length["cipher"] \in Nat \ {0} /\ "cipher" \in Parts
        BY LengthsOf, AllParts
      <3>3. /\ Len(data) \in 0..Len(down) /\ down' = After(down, Len(data)) /\ want = "cipher"
            /\ UNCHANGED id
        BY <1>0, <2>6, <3>1, <3>2, ReadOf DEF ReadCipher
      <3>4. CASE Proceed(id)
        BY <1>0, <2>1, <2>2, <3>3, <3>4, ProceedInStep
      <3>5. CASE /\ cstate = "key" /\ MayBe("cipher", data)
                 /\ \E bad \in NameFaults : Ask("file", FileRequest(bad))
        <4>1. Ask("file", FileRequest(FALSE))
          BY <3>5 DEF NameFaults, NoFaults
        <4>2. Idle /\ id = "own"
          BY <1>0, <3>2, <3>5, PartRead DEF KeyAfterId
        <4>3. IsRequest(FileRequest(FALSE), "file")
          BY Asks
        <4> QED
          BY <2>1, <3>3, <4>1, <4>2, <4>3, AskInStep
      <3> QED
        BY <3>1, <3>4, <3>5
    <2>7. CASE ReadSize
      <3>1. PICK data \in Received(down, Length["size"], "size") : Read(Length["size"], "size", data)
        BY <2>7 DEF ReadSize
      <3>2. Len(data) \in 0..Len(down) /\ down' = After(down, Len(data)) /\ want = "size"
        BY <1>0, <3>1, Offsets, ReadOf
      <3>3. UNCHANGED <<out, cstate, id>>
        BY <2>7 DEF ReadSize
      <3> QED
        BY <1>0, <2>1, <2>2, <3>2, <3>3, ReadsInStep
    <2>8. CASE ReadName
      <3>1. PICK data \in Received(down, NameLength, "samename") : Read(NameLength, "samename", data)
        BY <2>8 DEF ReadName
      <3>2. Len(data) \in 0..Len(down) /\ down' = After(down, Len(data)) /\ want = "samename"
        BY <1>0, <3>1, Offsets, ReadOf
      <3>3. UNCHANGED <<out, cstate, id>>
        BY <2>8 DEF ReadName
      <3> QED
        BY <1>0, <2>1, <2>2, <3>2, <3>3, ReadsInStep
    <2>9. CASE ReadSum
      <3>1. PICK data \in Received(down, Length["sum"], "sum") :
                /\ Read(Length["sum"], "sum", data)
                /\ CksumSucceeded(data) \/ CksumFailed(data) \/ CksumFailedFinally(data)
        BY <2>9 DEF ReadSum
      <3>2. out = <<>> /\ want = "sum" /\ UNCHANGED id
        BY <2>9, <3>1 DEF ReadSum, Read
      <3>3. cstate = "file" /\ ~FileLeft
        BY <3>2 DEF MarkInv, Answered, InCksum
      <3>4. Idle /\ id = "own"
        <4>1. id = "own"
          BY <3>3 DEF KeyAfterId
        <4>2. ~Asked
          <5>1. Allowed \subseteq Requests
            BY <3>3 DEF Allowed, Requests
          <5>2. ASSUME NEW r \in Allowed, IsRequest(out, r)
                PROVE  FALSE
            BY <3>2, <5>1, <5>2, RequestNotEmpty
          <5> QED
            BY <5>2 DEF Asked
        <4>3. ~InRequest
          <5>1. /\ Allowed = {"file", "err"} /\ {"file", "err"} \subseteq Requests
                /\ ~Has(up, "file") /\ ~(sstate = "handle" /\ req = "file")
                /\ sstate # "content" /\ cstate # "done"
            BY <3>3 DEF Allowed, Requests, FileLeft, Left, Handling
          <5>2. ~IsRequest(up, "file") /\ ~IsRequest(up, "err") /\ up \notin Rest("err")
            BY <5>1, RequestNotEmpty, AgainHasFile DEF IsRequest, Joined
          <5> QED
            BY <5>1, <5>2 DEF InRequest
        <4> QED
          BY <4>1, <4>2, <4>3 DEF Position
      <3>5. name \in {"filename", "otherfile"}
        BY <1>0 DEF TypeOK
      <3>6. CASE CksumSucceeded(data)
        <4>1. Ask("ok", Bytes("ok") \o Bytes(name)) /\ IsRequest(Bytes("ok") \o Bytes(name), "ok")
          BY <3>5, <3>6, Asks DEF CksumSucceeded
        <4> QED
          BY <2>1, <3>2, <3>4, <4>1, AskInStep
      <3>7. CASE CksumFailed(data)
        <4>1. PICK again : /\ \/ again = FileRequest(FALSE)
                              \/ again \in {EmptyFileRequest(bad) : bad \in BOOLEAN}
                           /\ Ask("file", Bytes("err") \o Bytes(name) \o again)
          BY <3>7 DEF CksumFailed, NameFaults, NoFaults
        <4>2. IsRequest(Bytes("err") \o Bytes(name) \o again, "err")
          BY <3>5, <4>1, Asks
        <4> QED
          BY <2>1, <3>2, <3>4, <4>1, <4>2, AskInStep
      <3>8. CASE CksumFailedFinally(data)
        <4>1. /\ Ask("final", Bytes("final") \o Bytes(name))
              /\ IsRequest(Bytes("final") \o Bytes(name), "final")
          BY <3>5, <3>8, Asks DEF CksumFailedFinally
        <4> QED
          BY <2>1, <3>2, <3>4, <4>1, AskInStep
      <3> QED
        BY <3>1, <3>6, <3>7, <3>8
    <2> QED
      BY <1>2, <2>3, <2>4, <2>5, <2>6, <2>7, <2>8, <2>9 DEF ClientStep
  <1> QED
    BY <1>1, <1>2

LEMMA ClientKeepsStep ==
    ASSUME StepInv, ClientStep, UNCHANGED network
    PROVE  StepInv'
  <1>1. MarkInv' /\ UNCHANGED NoFaults
    BY ClientKeepsMark DEF StepInv, NoFaults, RequestsWhole
  <1>2. UNCHANGED req
    BY DEF ClientStep, SendPart, ReadHead, ReadId, ReadUnknown, ReadCipher, ReadSize, ReadName,
           ReadSum, Read, session
  <1> QED
    BY <1>1, <1>2, ClientInStep DEF StepInv

LEMMA InitStep == Init => StepInv
  <1> SUFFICES ASSUME Init PROVE StepInv
    OBVIOUS
  <1>1. IsRequest(out, "register") /\ Allowed = {"register"}
    BY Asks DEF Init, Allowed
  <1>2. Asked
    BY <1>1 DEF Init, Asked
  <1>3. KeyAfterId
    BY HasNothing DEF Init, KeyAfterId
  <1>4. req # "junk"
    BY DEF Init
  <1> QED
    BY <1>2, <1>3, <1>4, InitMark DEF StepInv, Position

LEMMA NextStep ==
    ASSUME StepInv, [Next]_vars
    PROVE  StepInv'
  <1>1. CASE Next
    BY <1>1, ClientKeepsStep, SessionKeepsStep DEF Next
  <1>2. CASE UNCHANGED vars
    <2>1. MarkInv' /\ UNCHANGED NoFaults
      BY <1>2, NextMark DEF StepInv, vars, NoFaults, RequestsWhole
    <2>2. UNCHANGED <<Position, req, KeyAfterId>>
      BY <1>2 DEF vars, client, session, Position, Idle, Asked, InRequest, Allowed, KeyAfterId
    <2> QED
      BY <2>1, <2>2 DEF StepInv
  <1> QED
    BY <1>1, <1>2

\* What a session takes for the header of a request was sent as one, if requests
\* arrive whole, names are UTF-8 and the database answers.
THEOREM RequestsInStep == Spec => []InStep
  <1>1. Spec => []StepInv
    BY InitStep, NextStep, PTL DEF Spec
  <1>2. StepInv => InStep
    BY DEF StepInv, InStep, NoFaults
  <1> QED
    BY <1>1, <1>2, PTL

-----------------------------------------------------------------------------
(* Answers find the request that the client waits with *)

Clear == NoFaults /\ network.short = {}

\* What the client waits for.
Codes ==
    CASE cstate = "register" -> {"registered", "refused"}
      [] cstate = "key" -> {"keys"}
      [] cstate = "file" -> {"cksum"}
      [] OTHER -> {"received"}

SumRest == {Bytes("sum"), Bytes("othersum")}
NameRest == {Bytes("samename") \o t : t \in SumRest}
SizeRest == {Bytes("size") \o t : t \in NameRest}

\* What follows the code of a response.
AnswerRest(c) ==
    CASE c = "keys" -> {Bytes("id") \o Bytes("cipher")}
      [] c = "cksum" -> {Bytes("id") \o t : t \in SizeRest}
      [] OTHER -> {Bytes("id")}

IsAnswer(s, c) == \E t \in AnswerRest(c) : s = Bytes(c) \o t

\* The client reads one answer to the end, and then asks again.
Answering ==
    /\ cstate # "err" /\ id # "other" /\ (cstate = "key" => id = "own")
    /\ ~Idle => want = "head" /\ down = <<>>
    /\ want = "head" => down = <<>> \/ \E c \in Codes : IsAnswer(down, c)
    /\ want = "id" => code \in Codes /\ down \in AnswerRest(code)
    /\ want = "cipher" => code = "keys" /\ cstate = "key" /\ down = Bytes("cipher")
    /\ want \in {"size", "samename", "sum"} => code = "cksum" /\ cstate = "file"
    /\ want = "size" => down \in SizeRest
    /\ want = "samename" => down \in NameRest
    /\ want = "sum" => down \in SumRest
    /\ want \notin {"unknown", "none"}

AnswerInv ==
    /\ StepInv
    /\ cstate = "done" => want = "none" /\ out = <<>>
    /\ Clear /\ cstate # "done" => Answering

LEMMA AnswerRestOf ==
    /\ \A t \in SumRest : t \in Seq(Byte)
    /\ \A t \in NameRest : t \in Seq(Byte)
    /\ \A t \in SizeRest : t \in Seq(Byte)
    /\ \A c \in Responses : \A t \in AnswerRest(c) : t \in Seq(Byte)
  <1>1. \A p \in {"sum", "othersum", "samename", "size", "id", "cipher"} : Bytes(p) \in Seq(Byte)
    BY AllParts, BytesOf
  <1>2. \A s, t \in Seq(Byte) : s \o t \in Seq(Byte)
    OBVIOUS
  <1>3. \A t \in SumRest : t \in Seq(Byte)
    BY <1>1 DEF SumRest
  <1>4. \A t \in NameRest : t \in Seq(Byte)
    BY <1>1, <1>2, <1>3 DEF NameRest
  <1>5. \A t \in SizeRest : t \in Seq(Byte)
    BY <1>1, <1>2, <1>4 DEF SizeRest
  <1>6. \A c \in Responses : \A t \in AnswerRest(c) : t \in Seq(Byte)
    BY <1>1, <1>2, <1>5 DEF AnswerRest
  <1> QED
    BY <1>3, <1>4, <1>5, <1>6

\* The responses are answers in this sense.
LEMMA Answers ==
    /\ \A c \in {"registered", "refused", "received"} : IsAnswer(Bytes(c) \o Bytes("id"), c)
    /\ IsAnswer(Bytes("keys") \o Bytes("id") \o Bytes("cipher"), "keys")
    /\ \A sum \in {"sum", "othersum"} : IsAnswer(CksumResponse(sum), "cksum")
  <1>1. ASSUME NEW p \in {"cksum", "keys", "cipher", "id", "size", "samename", "sum", "othersum"}
        PROVE  Bytes(p) \in Seq(Byte)
    <2>1. p \in Parts
      BY AllParts DEF Responses
    <2> QED
      BY <2>1, BytesOf
  <1>2. \A c \in {"registered", "refused", "received"} : IsAnswer(Bytes(c) \o Bytes("id"), c)
    BY DEF IsAnswer, AnswerRest
  <1>3. IsAnswer(Bytes("keys") \o Bytes("id") \o Bytes("cipher"), "keys")
    <2> DEFINE k == Bytes("keys")
               i == Bytes("id")
               c == Bytes("cipher")
    <2>1. k \in Seq(Byte) /\ i \in Seq(Byte) /\ c \in Seq(Byte) /\ i \o c \in AnswerRest("keys")
      BY <1>1 DEF AnswerRest
    <2> HIDE DEF k, i, c
    <2>2. k \o i \o c = k \o (i \o c)
      BY <2>1, Concat3
    <2> QED
      BY <2>1, <2>2 DEF IsAnswer, k, i, c
  <1>4. ASSUME NEW sum \in {"sum", "othersum"}
        PROVE  IsAnswer(CksumResponse(sum), "cksum")
    <2> DEFINE c == Bytes("cksum")
               i == Bytes("id")
               s == Bytes("size")
               n == Bytes("samename")
               b == Bytes(sum)
               v == n \o b
               u == s \o v
    <2>1. c \in Seq(Byte) /\ i \in Seq(Byte) /\ s \in Seq(Byte) /\ n \in Seq(Byte) /\ b \in Seq(Byte)
      BY <1>1
    <2>2. i \o u \in AnswerRest("cksum")
      <3>1. b \in SumRest
        BY DEF SumRest
      <3>2. v \in NameRest
        BY <3>1 DEF NameRest
      <3>3. u \in SizeRest
        BY <3>2 DEF SizeRest
      <3> QED
        BY <3>3 DEF AnswerRest
    <2>3. CksumResponse(sum) = c \o i \o s \o n \o b
      BY DEF CksumResponse
    <2> DEFINE x == c \o i
               y == x \o s
    <2> HIDE DEF c, i, s, n, b
    <2>4. v \in Seq(Byte)
      BY <2>1
    <2>5. x \in Seq(Byte)
      BY <2>1
    <2>6. y \in Seq(Byte)
      BY <2>1, <2>5
    <2>7. u \in Seq(Byte)
      BY <2>1, <2>4
    <2> HIDE DEF x, y
    <2>8. y \o n \o b = y \o (n \o b)
      <3>1. n \in Seq(Byte)
        BY <2>1
      <3>2. b \in Seq(Byte)
        BY <2>1
      <3> QED
        BY <2>6, <3>1, <3>2, Concat3
    <2> HIDE DEF v
    <2>9. x \o s \o v = x \o (s \o v)
      <3>1. s \in Seq(Byte)
        BY <2>1
      <3> QED
        BY <2>4, <2>5, <3>1, Concat3
    <2> HIDE DEF u
    <2>10. c \o i \o u = c \o (i \o u)
      <3>1. c \in Seq(Byte)
        BY <2>1
      <3>2. i \in Seq(Byte)
        BY <2>1
      <3> QED
        BY <2>7, <3>1, <3>2, Concat3
    <2>11. CksumResponse(sum) = c \o (i \o u)
      BY <2>3, <2>8, <2>9, <2>10 DEF u, v, x, y
    <2> QED
      BY <2>2, <2>11 DEF IsAnswer, c
  <1> QED
    BY <1>2, <1>3, <1>4

\* The session answers the one request that is not answered.
LEMMA SessionAnswers ==
    ASSUME TypeOK, StepInv, Clear, cstate # "done", Answering, SessionStep
    PROVE  Answering'
  <1>1. Position /\ req # "junk"
    BY DEF StepInv, Clear
  <1>2. id # "own" => cstate \in {"register", "key", "done"}
    BY DEF StepInv, Clear, KeyAfterId
  <1>3. UNCHANGED <<out, cstate, want, id>> /\ (down' = down \/ Idle') /\ ~Idle
    BY <1>1, <1>2, SessionInStep DEF Clear
  <1>4. want = "head" /\ down = <<>> /\ want' = "head" /\ UNCHANGED Codes
    <2>1. cstate' = cstate /\ want' = want
      BY <1>3
    <2>2. Codes' = Codes
      BY <2>1 DEF Codes
    <2>3. want = "head" /\ down = <<>>
      <3>1. ~Idle
        BY <1>3
      <3> QED
        BY <3>1 DEF Answering
    <2> QED
      BY <2>1, <2>2, <2>3
  <1>5. ASSUME down' # <<>>
        PROVE  \E c \in Codes : IsAnswer(down', c)
    <2>1. ASSUME NEW bytes \in Seq(Byte), Reply(bytes)
          PROVE  down' = bytes
      BY <1>4, <2>1 DEF Reply
    <2>2. ASSUME sstate = "handle"
          PROVE  req = "register" <=> cstate = "register"
      <3>1. req \in Allowed
        BY <1>1, <2>2 DEF Position, Idle, Asked, InRequest
      <3> QED
        BY <3>1 DEF Allowed, TypeOK, Answering
    <2>3. CASE Refuse \/ Register
      <3>1. PICK c \in {"registered", "refused"} : Reply(Bytes(c) \o Bytes("id"))
        BY <2>3 DEF Refuse, Register
      <3>2. Bytes(c) \o Bytes("id") \in Seq(Byte)
        BY ResponseTypes, AllParts DEF Responses
      <3>3. IsAnswer(down', c)
        BY <2>1, <3>1, <3>2, Answers
      <3>4. cstate = "register"
        <4>1. sstate = "handle" /\ (req = "register" \/ id # "own")
          BY <1>1, <2>3 DEF Refuse, Register, Known, Clear, NoFaults
        <4> QED
          BY <1>2, <2>2, <4>1 DEF Answering
      <3> QED
        BY <3>3, <3>4 DEF Codes
    <2>4. CASE SendKey
      <3>1. Reply(Bytes("keys") \o Bytes("id") \o Bytes("cipher"))
        BY <1>4, <1>5, <2>4 DEF SendKey, Silent
      <3>2. IsAnswer(down', "keys")
        BY <2>1, <3>1, ResponseTypes, Answers
      <3>3. "key" \in Allowed
        BY <1>1, <2>4 DEF SendKey, Known, Position, Idle, Asked, InRequest
      <3>4. cstate = "key"
        BY <3>3 DEF Allowed, TypeOK
      <3> QED
        BY <3>2, <3>4 DEF Codes
    <2>5. CASE ReadContent
      <3>1. PICK sum \in {"sum", "othersum"} : Reply(CksumResponse(sum))
        BY <1>4, <1>5, <2>5 DEF ReadContent, Silent, CksumResponse
      <3>2. CksumResponse(sum) \in Seq(Byte)
        BY ResponseTypes DEF CksumResponse
      <3>3. IsAnswer(down', "cksum")
        BY <2>1, <3>1, <3>2, Answers
      <3>4. "file" \in Allowed
        BY <1>1, <2>5 DEF ReadContent, Position, Idle, Asked, InRequest
      <3>5. cstate = "file"
        BY <3>4 DEF Allowed, TypeOK, Answering
      <3> QED
        BY <3>3, <3>5 DEF Codes
    <2>6. CASE CksumOk \/ CksumErr \/ CksumErrFinal
      <3>1. PICK r \in {"ok", "final"} : Known(r) /\ Reply(Bytes("received") \o Bytes("id"))
        BY <1>4, <1>5, <2>6 DEF CksumOk, CksumErr, CksumErrFinal, ReadFilename, Silent
      <3>2. Bytes("received") \o Bytes("id") \in Seq(Byte)
        BY ResponseTypes, AllParts DEF Responses
      <3>3. IsAnswer(down', "received")
        BY <2>1, <3>1, <3>2, Answers
      <3>4. r \in Allowed
        BY <1>1, <3>1 DEF Known, Position, Idle, Asked, InRequest
      <3>5. cstate \in {"ok", "final"}
        BY <3>4 DEF Allowed, TypeOK
      <3> QED
        BY <3>3, <3>5 DEF Codes
    <2> QED
      BY <1>4, <1>5, <2>3, <2>4, <2>5, <2>6
         DEF SessionStep, ReadHeader, ReadPayload, ReadFileHeader
  <1>6. ~Idle' => down' = <<>>
    BY <1>3, <1>4
  <1>7. down' = <<>> \/ \E c \in Codes' : IsAnswer(down', c)
    BY <1>4, <1>5
  <1>8. cstate' # "err" /\ id' # "other" /\ (cstate' = "key" => id' = "own")
    BY <1>3 DEF Answering
  <1>9. ~Idle' => want' = "head" /\ down' = <<>>
    BY <1>4, <1>6
  <1>10. want' = "head"
    BY <1>4
  <1> QED
    BY <1>7, <1>8, <1>9, <1>10 DEF Answering

\* The client takes one part of an answer.
LEMMA ClientTakes ==
    ASSUME TypeOK, Clear, NEW p \in Parts, NEW t \in Seq(Byte), Joined(down, Bytes(p), t),
           NEW read, NEW data \in Received(down, Length[p], read), Read(Length[p], read, data)
    PROVE  data = Bytes(p) /\ down' = t
  <1> DEFINE b == Bytes(p)
  <1>1. b \in Seq(Byte) /\ b # <<>> /\ Len(b) = Length[p]
    BY BytesOf
  <1>2. read \notin network.short
    BY DEF Clear
  <1>3. Joined(down, b, t) /\ data \in Received(down, Len(b), read)
    BY <1>1
  <1> HIDE DEF b
  <1>4. data = b /\ After(down, Len(data)) = t
    BY <1>1, <1>2, <1>3, TakeFront
  <1> QED
    BY <1>4 DEF Read, b

LEMMA ClientTakesLast ==
    ASSUME TypeOK, Clear, NEW p \in Parts, down = Bytes(p),
           NEW read, NEW data \in Received(down, Length[p], read), Read(Length[p], read, data)
    PROVE  data = Bytes(p) /\ down' = <<>>
  <1> DEFINE e == <<>>
  <1>1. e \in Seq(Byte) /\ Joined(down, Bytes(p), e)
    BY BytesOf DEF Joined
  <1> HIDE DEF e
  <1>2. data = Bytes(p) /\ down' = e
    BY <1>1, ClientTakes
  <1> QED
    BY <1>2 DEF e

\* The client reads only what has come, and then the session has nothing to do.
LEMMA ReadsWhenIdle ==
    ASSUME TypeOK, StepInv, Clear, cstate # "done", Answering,
           NEW n, NEW read, NEW data, Read(n, read, data)
    PROVE  Idle /\ want = read /\ UNCHANGED <<up, sstate>>
  <1>1. Position
    BY DEF StepInv, Clear
  <1>2. sstate # "closed"
    BY <1>1 DEF Position, Idle, Asked, InRequest
  <1>3. down # <<>> /\ want = read /\ UNCHANGED <<up, sstate>>
    BY <1>2 DEF Read, session
  <1> QED
    BY <1>3 DEF Answering

\* A client that has read its answer to the end asks the next request.
LEMMA AsksAnew ==
    ASSUME down' = <<>>, want' = "head", cstate' # "err", id' # "other",
           cstate' = "key" => id' = "own"
    PROVE  Answering'
  BY DEF Answering

\* The client, unless it ends, reads on or asks anew.
LEMMA ClientAnswers ==
    ASSUME TypeOK, StepInv, Clear, cstate # "done", Answering, ClientStep, cstate' # "done"
    PROVE  Answering'
  <1>0. cstate # "err" /\ id # "other" /\ (cstate = "key" => id = "own")
    BY DEF Answering
  <1>1. CASE SendPart
    <2>1. UNCHANGED <<down, cstate, want, id>> /\ ~Idle
      BY <1>1 DEF SendPart, Idle
    <2>2. want = "head" /\ down = <<>>
      BY <2>1 DEF Answering
    <2> QED
      BY <1>0, <2>1, <2>2, AsksAnew
  <1>2. CASE ReadHead
    <2>1. PICK data \in Received(down, HeadLength, "head") :
              /\ Read(HeadLength, "head", data)
              /\ \/ code' \in {r \in Responses : HasCode(r, data)}
                 \/ (\A r \in Responses : ~HasCode(r, data)) /\ code' = "none"
      BY <1>2 DEF ReadHead
    <2>2. Idle /\ want = "head" /\ UNCHANGED <<up, sstate>> /\ down # <<>>
      <3>1. Idle /\ want = "head" /\ UNCHANGED <<up, sstate>>
        BY <2>1, ReadsWhenIdle
      <3>2. sstate # "closed"
        BY <3>1 DEF Idle
      <3> QED
        BY <2>1, <3>1, <3>2 DEF Read
    <2>3. PICK c \in Codes : IsAnswer(down, c)
      BY <2>2 DEF Answering
    <2>4. c \in Responses /\ c \in Parts /\ Length[c] = HeadLength
      <3>1. c \in Responses
        BY DEF Codes, Responses
      <3> QED
        BY <3>1, AllParts, LengthsOf
    <2>5. PICK t \in AnswerRest(c) : Joined(down, Bytes(c), t)
      BY <2>3 DEF IsAnswer, Joined
    <2>6. t \in Seq(Byte)
      BY <2>4, AnswerRestOf
    <2>7. data = Bytes(c) /\ down' = t
      BY <2>1, <2>4, <2>5, <2>6, ClientTakes
    <2>8. code' = c
      <3>1. HasCode(c, data)
        BY <2>4, <2>7, CodeOf
      <3>2. code' \in Responses /\ HasCode(code', data)
        BY <2>1, <2>4, <3>1
      <3>3. data \in Seq(Byte) /\ Len(data) <= HeadLength
        BY <2>4, <2>7, BytesOf, LengthsOf
      <3>4. data[1] = <<c, 1>> /\ data[1] = <<code', 1>>
        BY <2>4, <3>1, <3>2, <3>3, CodeOf
      <3> QED
        BY <3>4
    <2>9. want' = "id" /\ UNCHANGED <<out, cstate, id>>
      BY <1>2 DEF ReadHead
    <2>10. Codes' = Codes
      <3>1. cstate' = cstate
        BY <2>9
      <3> QED
        BY <3>1 DEF Codes
    <2>11. Idle'
      BY <2>2, <2>9 DEF Idle
    <2>12. code' \in Codes' /\ down' \in AnswerRest(code')
      BY <2>3, <2>5, <2>7, <2>8, <2>10
    <2> QED
      BY <1>0, <2>9, <2>11, <2>12 DEF Answering
  <1>3. CASE ReadId
    <2>1. PICK data \in Received(down, Length["id"], "id") :
              /\ Read(Length["id"], "id", data)
              /\ IF cstate = "register" /\ code = "registered" /\ id = "none"
                 THEN \/ MayBe("id", data) /\ id' = "own"
                      \/ data # Bytes("id") /\ id' = "other"
                 ELSE UNCHANGED id
      BY <1>3 DEF ReadId
    <2>2. Idle /\ want = "id" /\ UNCHANGED <<up, sstate>>
      BY <2>1, ReadsWhenIdle
    <2>3. code \in Codes /\ down \in AnswerRest(code)
      BY <2>2 DEF Answering
    <2>4. "id" \in Parts /\ "cipher" \in Parts
      BY AllParts
    <2>5. code \in {"keys", "cksum"} \/ down = Bytes("id")
      BY <2>3 DEF AnswerRest
    <2>6. /\ data = Bytes("id")
          /\ code = "keys" => down' = Bytes("cipher")
          /\ code = "cksum" => down' \in SizeRest
          /\ code \notin {"keys", "cksum"} => down' = <<>>
      <3>1. CASE code = "keys"
        <4> DEFINE t == Bytes("cipher")
        <4>1. t \in Seq(Byte)
          BY <2>4, BytesOf
        <4>2. Joined(down, Bytes("id"), t)
          BY <2>3, <3>1 DEF AnswerRest, Joined
        <4> HIDE DEF t
        <4>3. data = Bytes("id") /\ down' = t
          BY <2>1, <2>4, <4>1, <4>2, ClientTakes
        <4> QED
          BY <3>1, <4>3 DEF t
      <3>2. CASE code = "cksum"
        <4>1. PICK t \in SizeRest : Joined(down, Bytes("id"), t)
          BY <2>3, <3>2 DEF AnswerRest, Joined
        <4>2. t \in Seq(Byte)
          BY AnswerRestOf
        <4>3. data = Bytes("id") /\ down' = t
          BY <2>1, <2>4, <4>1, <4>2, ClientTakes
        <4> QED
          BY <3>2, <4>3
      <3>3. CASE code \notin {"keys", "cksum"}
        <4>1. data = Bytes("id") /\ down' = <<>>
          BY <2>1, <2>4, <2>5, <3>3, ClientTakesLast
        <4> QED
          BY <3>3, <4>1
      <3> QED
        BY <3>1, <3>2, <3>3
    <2>7. UNCHANGED code /\ id' # "other" /\ (id = "own" => id' = "own")
      BY <1>0, <1>3, <2>1, <2>6 DEF ReadId
    <2>8. /\ code = "keys" => want' = "cipher" /\ UNCHANGED <<out, cstate>>
          /\ code = "cksum" /\ cstate = "file" => want' = "size" /\ UNCHANGED <<out, cstate>>
          /\ code \notin {"keys", "cksum", "none"} => Proceed(id')
      BY <1>3 DEF ReadId
    <2>9. CASE cstate = "key"
      <3>1. code = "keys" /\ want' = "cipher" /\ UNCHANGED <<out, cstate>> /\ down' = Bytes("cipher")
        BY <2>3, <2>6, <2>8, <2>9 DEF Codes
      <3>2. Idle' /\ id' = "own" /\ code' = "keys" /\ cstate' = "key"
        BY <1>0, <2>2, <2>7, <2>9, <3>1 DEF Idle
      <3> QED
        BY <3>1, <3>2 DEF Answering
    <2>10. CASE cstate = "file"
      <3>1. code = "cksum" /\ want' = "size" /\ UNCHANGED <<out, cstate>> /\ down' \in SizeRest
        BY <2>3, <2>6, <2>8, <2>10 DEF Codes
      <3>2. Idle' /\ id' # "other" /\ code' = "cksum" /\ cstate' = "file"
        BY <2>2, <2>7, <2>10, <3>1 DEF Idle
      <3> QED
        BY <3>1, <3>2 DEF Answering
    <2>11. CASE cstate \notin {"key", "file"}
      <3>1. code \notin {"keys", "cksum", "none"}
        BY <2>3, <2>11 DEF Codes
      <3>2. Proceed(id') /\ down' = <<>>
        BY <2>6, <2>8, <3>1
      <3>3. cstate' = "key" /\ want' = "head" /\ id' # "none"
        BY <3>2 DEF Proceed, Ask, Finish
      <3>4. id' = "own"
        <4>1. id' \in {"none", "own", "other"}
          BY <2>1 DEF TypeOK
        <4> QED
          BY <2>7, <3>3, <4>1
      <3> QED
        BY <3>2, <3>3, <3>4, AsksAnew
    <2> QED
      BY <2>9, <2>10, <2>11
  <1>4. CASE ReadUnknown
    BY <1>4 DEF ReadUnknown, Answering
  <1>5. CASE ReadCipher
    <2>1. PICK data \in Received(down, Length["cipher"], "cipher") :
              /\ Read(Length["cipher"], "cipher", data)
              /\ \/ \E bad \in NameFaults : Ask("file", FileRequest(bad))
                 \/ Proceed(id)
      BY <1>5 DEF ReadCipher
    <2>2. Idle /\ want = "cipher"
      BY <2>1, ReadsWhenIdle
    <2>3. cstate = "key" /\ down = Bytes("cipher")
      BY <2>2 DEF Answering
    <2>4. down' = <<>>
      BY <2>1, <2>3, AllParts, ClientTakesLast
    <2>5. cstate' = "file" /\ want' = "head" /\ UNCHANGED id
      BY <1>5, <2>1, <2>3 DEF ReadCipher, Proceed, Ask, Finish
    <2> QED
      BY <1>0, <2>4, <2>5, AsksAnew
  <1>6. CASE ReadSize
    <2>1. PICK data \in Received(down, Length["size"], "size") : Read(Length["size"], "size", data)
      BY <1>6 DEF ReadSize
    <2>2. Idle /\ want = "size" /\ UNCHANGED <<up, sstate>>
      BY <2>1, ReadsWhenIdle
    <2>3. code = "cksum" /\ cstate = "file" /\ down \in SizeRest
      BY <2>2 DEF Answering
    <2>4. PICK t \in NameRest : Joined(down, Bytes("size"), t)
      BY <2>3 DEF SizeRest, Joined
    <2>5. t \in Seq(Byte)
      BY AnswerRestOf
    <2>6. down' \in NameRest
      BY <2>1, <2>4, <2>5, AllParts, ClientTakes
    <2>7. want' = "samename" /\ UNCHANGED <<out, cstate, code, id>>
      BY <1>6 DEF ReadSize
    <2>8. Idle' /\ cstate' = "file" /\ code' = "cksum" /\ id' # "other"
      BY <1>0, <2>2, <2>3, <2>7 DEF Idle
    <2> QED
      BY <2>6, <2>7, <2>8 DEF Answering
  <1>7. CASE ReadName
    <2>1. PICK data \in Received(down, NameLength, "samename") : Read(NameLength, "samename", data)
      BY <1>7 DEF ReadName
    <2>2. Idle /\ want = "samename" /\ UNCHANGED <<up, sstate>>
      BY <2>1, ReadsWhenIdle
    <2>3. code = "cksum" /\ cstate = "file" /\ down \in NameRest
      BY <2>2 DEF Answering
    <2>4. PICK t \in SumRest : Joined(down, Bytes("samename"), t)
      BY <2>3 DEF NameRest, Joined
    <2>5. t \in Seq(Byte) /\ Length["samename"] = NameLength
      BY AnswerRestOf, LengthsOf
    <2>6. down' \in SumRest
      BY <2>1, <2>4, <2>5, AllParts, ClientTakes
    <2>7. want' = "sum" /\ UNCHANGED <<out, cstate, code, id>>
      BY <1>7 DEF ReadName
    <2>8. Idle' /\ cstate' = "file" /\ code' = "cksum" /\ id' # "other"
      BY <1>0, <2>2, <2>3, <2>7 DEF Idle
    <2> QED
      BY <2>6, <2>7, <2>8 DEF Answering
  <1>8. CASE ReadSum
    <2>1. PICK data \in Received(down, Length["sum"], "sum") :
              /\ Read(Length["sum"], "sum", data)
              /\ CksumSucceeded(data) \/ CksumFailed(data) \/ CksumFailedFinally(data)
      BY <1>8 DEF ReadSum
    <2>2. Idle /\ want = "sum"
      BY <2>1, ReadsWhenIdle
    <2>3. PICK p \in {"sum", "othersum"} : down = Bytes(p)
      BY <2>2 DEF Answering, SumRest
    <2>4. p \in Parts /\ Length[p] = Length["sum"]
      BY AllParts, LengthsOf
    <2>5. down' = <<>>
      BY <2>1, <2>3, <2>4, ClientTakesLast
    <2>6. cstate' \in {"ok", "file", "final"} /\ want' = "head"
      BY <2>1 DEF CksumSucceeded, CksumFailed, CksumFailedFinally, Ask
    <2>7. UNCHANGED id
      BY <1>8 DEF ReadSum
    <2> QED
      BY <1>0, <2>5, <2>6, <2>7, AsksAnew
  <1> QED
    BY <1>1, <1>2, <1>3, <1>4, <1>5, <1>6, <1>7, <1>8 DEF ClientStep

\* A client that has ended does nothing, and one ends with nothing to send.
LEMMA DoneForGood ==
    ASSUME TypeOK, Next, cstate = "done" => want = "none" /\ out = <<>>
    PROVE  /\ cstate = "done" => cstate' = "done"
           /\ cstate' = "done" => want' = "none" /\ out' = <<>>
  <1>1. CASE SessionStep
    <2>1. UNCHANGED <<out, cstate, want>>
      BY <1>1 DEF SessionStep, ReadHeader, ReadPayload, Refuse, Register, SendKey, ReadFileHeader,
             ReadContent, CksumOk, CksumErr, CksumErrFinal, ReadFilename, client
    <2> QED
      BY <2>1
  <1>2. CASE ClientStep /\ cstate = "done"
    BY <1>2 DEF ClientStep, SendPart, ReadHead, ReadId, ReadUnknown, ReadCipher, ReadSize,
                ReadName, ReadSum, Read
  <1>3. CASE ClientStep /\ cstate # "done"
    <2>1. CASE SendPart \/ ReadHead \/ ReadSize \/ ReadName
      BY <1>3, <2>1 DEF SendPart, ReadHead, ReadSize, ReadName
    <2>2. CASE ReadId
      <3>1. Proceed(id') \/ UNCHANGED cstate
        BY <2>2 DEF ReadId
      <3> QED
        BY <1>3, <3>1 DEF Proceed, Ask, Finish
    <2>3. CASE ReadUnknown
      BY <1>3, <2>3 DEF ReadUnknown, Proceed, Ask, Finish
    <2>4. CASE ReadCipher
      BY <1>3, <2>4 DEF ReadCipher, Proceed, Ask, Finish
    <2>5. CASE ReadSum
      <3>1. PICK data : CksumSucceeded(data) \/ CksumFailed(data) \/ CksumFailedFinally(data)
        BY <2>5 DEF ReadSum
      <3>2. cstate' # "done"
        BY <3>1 DEF CksumSucceeded, CksumFailed, CksumFailedFinally, Ask
      <3> QED
        BY <1>3, <3>2
    <2> QED
      BY <1>3, <2>1, <2>2, <2>3, <2>4, <2>5 DEF ClientStep
  <1> QED
    BY <1>1, <1>2, <1>3 DEF Next

LEMMA InitAnswer == Init => AnswerInv
  BY InitStep DEF Init, AnswerInv, Answering

LEMMA NextAnswer ==
    ASSUME AnswerInv, [Next]_vars
    PROVE  AnswerInv'
  <1>1. StepInv' /\ TypeOK
    BY NextStep DEF AnswerInv, StepInv, MarkInv
  <1>2. CASE UNCHANGED vars
    <2>1. Clear' = Clear /\ UNCHANGED <<cstate, want, out>>
      BY <1>2 DEF vars, client, Clear, NoFaults, RequestsWhole
    <2>2. Answering' = Answering
      BY <1>2 DEF vars, client, session, Answering, Idle, Codes
    <2> QED
      BY <1>1, <2>1, <2>2 DEF AnswerInv
  <1>3. CASE Next
    <2>1. (ClientStep \/ SessionStep) /\ UNCHANGED network
      BY <1>3 DEF Next
    <2>2. Clear' = Clear
      BY <2>1 DEF Clear, NoFaults, RequestsWhole
    <2>3. /\ cstate = "done" => cstate' = "done"
          /\ cstate' = "done" => want' = "none" /\ out' = <<>>
      BY <1>1, <1>3, DoneForGood DEF AnswerInv
    <2>4. ASSUME Clear, cstate' # "done"
          PROVE  Answering'
      <3>1. cstate # "done" /\ Answering /\ StepInv
        BY <2>3, <2>4 DEF AnswerInv
      <3> QED
        BY <1>1, <2>1, <2>4, <3>1, ClientAnswers, SessionAnswers
    <2> QED
      BY <1>1, <2>2, <2>3, <2>4 DEF AnswerInv
  <1> QED
    BY <1>2, <1>3

\* What the client takes for a response answers the request it waits with, if
\* it gets the responses whole.
THEOREM AnswersInStep == Spec => []AnswerInStep
  <1>1. Spec => []AnswerInv
    BY InitAnswer, NextAnswer, PTL DEF Spec
  <1>2. AnswerInv => AnswerInStep
    <2>1. ASSUME AnswerInv, Clear, want # "head", code # "none", sstate # "closed"
          PROVE  code \in CASE cstate = "register" -> {"registered", "refused"}
                            [] cstate = "key" -> {"keys"}
                            [] cstate = "file" -> {"cksum"}
                            [] OTHER -> Responses
      <3>1. CASE cstate = "done"
        BY <2>1, <3>1 DEF AnswerInv, StepInv, MarkInv, TypeOK
      <3>2. CASE cstate # "done"
        <4>1. Answering /\ TypeOK
          BY <2>1, <3>2 DEF AnswerInv, StepInv, MarkInv
        <4>2. code \in Codes
          <5>1. want \in {"id", "cipher", "size", "samename", "sum"}
            BY <2>1, <4>1 DEF TypeOK, Answering
          <5> QED
            BY <4>1, <5>1 DEF Answering, Codes
        <4> QED
          BY <4>2 DEF Codes, Responses
      <3> QED
        BY <3>1, <3>2
    <2> QED
      BY <2>1 DEF AnswerInStep, Clear, NoFaults
  <1> QED
    BY <1>1, <1>2, PTL
=============================================================================
