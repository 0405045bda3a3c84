--------------------------- MODULE IdentityProofs ---------------------------
(***************************************************************************)
(* What things are and whose they are, for every value of the constants.   *)
(*                                                                         *)
(* Type correctness of System: the inductive invariant, TypeInv, adds to   *)
(* TypeOK what a session and a client know at each of their steps.         *)
(*                                                                         *)
(* Whose files and whose ids: every row of "files", and every upload, has  *)
(* its client in "clients" and in the client map.  An id that a client     *)
(* saved in its me.info is that of a row of "clients" and was given to a   *)
(* run in the same directory, unless a transaction failed.                 *)
(***************************************************************************)
EXTENDS System, SequenceTheorems, TLAPS

Registering == {"register_map", "register_insert", "register_ok"}
Keying == {"keys", "send_key"}
Uploading == {"decrypt", "root_check", "root_make", "dir_check", "dir_make", "open",
              "send_cksum"} \cup Storing
Closing == {"verify", "received"} \cup Deleting

\* What a session at l is given: a request that its handler is for ...
Fits(l, m, sum) ==
    /\ l \in Registering => m.code = CLIENT_CODE_REGISTER
    /\ l \in Keying => m.code = CLIENT_CODE_SEND_PUBLIC_KEY
    /\ l \in Uploading => m.code = CLIENT_CODE_SEND_FILE
    /\ l \in Closing => m.code \in {CLIENT_CODE_CKSUM_OK, CLIENT_CODE_CKSUM_ERR_FINAL}
    /\ l \in {"row_check", "row_insert", "row_update", "send_cksum"} => sum \in Sums
    /\ l \notin {"none", "recv", "refuse"} => m \in Request

RequestFits == \A p \in Runs : Fits(spc[p], req[p], cksum[p])

\* ... and a client: what its next request is made of.
Knows(l, id, key, file, info) ==
    /\ l \in Saving \cup {"send_key", "await_key", "load"} => id \in Ids
    /\ l \in {"await_file", "await_ack", "await_final"}
           => id \in Ids /\ key \in Keys /\ file \in Files
    /\ l = "key_write" => info \in Seq(Line)

ClientFits == \A p \in Runs : Knows(cpc[p], cid[p], ckey[p], cfile[p], MyInfo(p))

TypeInv == TypeOK /\ RequestFits /\ ClientFits

\* What a request of each code carries.
LEMMA RequestFacts ==
  ASSUME NEW m \in Request
  PROVE  /\ m.code \in {1100, 1101, 1103, 1104, 1105, 1106}
         /\ m.code \in {1100, 1101} => m.name \in Names
         /\ m.code \in {1101, 1103, 1104, 1105, 1106} => m.id \in Ids
         /\ m.code \in {1103, 1104, 1105, 1106} => m.file \in Files
         /\ m.code = 1103 => m.key \in Keys /\ m.content \in Contents \cup {None}
  BY DEF Request, RequestsOf

\* What a response of each code carries.
LEMMA ResponseFacts ==
  ASSUME NEW m \in Response
  PROVE  /\ m.code \in {2100, 2102, 2103, 2104} => m.id \in Ids
         /\ m.key \in Keys \cup {None}
         /\ m.code = 2103 => m.file \in Files
  BY DEF Response, ResponsesOf

\* Whatever a file can hold has a checksum, and is not a missing file.
LEMMA BlobFacts ==
    /\ Empty \in Blobs /\ Garbled \in Blobs /\ Contents \subseteq Blobs
    /\ \A b \in Blobs : Cksum[b] \in Sums /\ b # None
  BY ConstantsAssumption, NoneAssumption DEF Blobs

\* Changing one value of a function keeps its type.
LEMMA UpdateTypes ==
  ASSUME NEW D, NEW R, NEW f \in [D -> R], NEW x, NEW v \in R
  PROVE  [f EXCEPT ![x] = v] \in [D -> R]
  OBVIOUS

\* The requests that the client builds are requests.
LEMMA RequestTypes ==
    /\ \A name \in Names : RegisterRequest(name) \in Request
    /\ \A id \in Ids, name \in Names : PublicKeyRequest(id, name) \in Request
    /\ \A id \in Ids, file \in Files, key \in Keys, content \in Contents \cup {None} :
          FileRequest(id, file, key, content) \in Request
    /\ \A id \in Ids, file \in Files, code \in {1104, 1105, 1106} :
          CksumRequest(code, id, file) \in Request
  BY DEF Request, RequestsOf, RequestOf, RegisterRequest, PublicKeyRequest, FileRequest,
         CksumRequest, CLIENT_CODE_REGISTER, CLIENT_CODE_SEND_PUBLIC_KEY, CLIENT_CODE_SEND_FILE

\* The responses that the server builds are responses.
LEMMA ResponseTypes ==
  ASSUME NEW id \in Ids
  PROVE  /\ Status(SERVER_CODE_REGISTRATION_OK, id) \in Response
         /\ Status(SERVER_CODE_REGISTRATION_ERR, None) \in Response
         /\ Status(SERVER_CODE_MESSAGE_RECEIVED, id) \in Response
         /\ \A key \in Keys : KeyResponse(id, key) \in Response
         /\ \A file \in Files, sum \in Sums : CksumResponse(id, file, sum) \in Response
  BY DEF Response, ResponsesOf, ResponseOf, Status, KeyResponse, CksumResponse, SERVER_CODE_REGISTRATION_OK,
         SERVER_CODE_REGISTRATION_ERR, SERVER_CODE_SWITCHING_KEYS, SERVER_CODE_CKSUM_READY,
         SERVER_CODE_MESSAGE_RECEIVED

\* Sending a request keeps the type of the channel.
LEMMA SendTypes ==
  ASSUME NetTypeOK, NEW p \in Runs, NEW m \in Request, Send(p, m)
  PROVE  c2s' \in [Runs -> Seq(Request)]
  BY DEF NetTypeOK, Send

\* So does the end of a handler.
LEMMA RespondTypes ==
  ASSUME NetTypeOK, NEW p \in Runs, NEW l, NEW m \in Response, Respond(p, l, m)
  PROVE  NetTypeOK'
  BY DEF NetTypeOK, Respond, Answer

\* What a handler reads from its request is there.
LEMMA HandledRequest ==
  ASSUME TypeInv, NEW p \in Runs
  PROVE  /\ spc[p] \in Registering \cup Keying => req[p].name \in Names
         /\ spc[p] \in Keying \cup Uploading \cup Closing => req[p].id \in Ids
         /\ spc[p] \in Uploading \cup Closing => Path(p) \in Paths /\ req[p].file \in Files
         /\ spc[p] \in Uploading => req[p].content \in Blobs \cup {None}
  <1> USE DEF Registering, Keying, Uploading, Closing, Storing, Deleting
  <1>1. /\ spc[p] \in Registering \cup Keying \cup Uploading \cup Closing
               => req[p] \in Request
        /\ spc[p] \in Registering => req[p].code = 1100
        /\ spc[p] \in Keying => req[p].code = 1101
        /\ spc[p] \in Uploading => req[p].code = 1103
        /\ spc[p] \in Closing => req[p].code \in {1104, 1106}
    BY DEF TypeInv, RequestFits, Fits, CLIENT_CODE_REGISTER, CLIENT_CODE_SEND_PUBLIC_KEY,
           CLIENT_CODE_SEND_FILE, CLIENT_CODE_CKSUM_OK, CLIENT_CODE_CKSUM_ERR_FINAL
  <1> HIDE DEF Registering, Keying, Uploading, Closing, Storing, Deleting
  <1>2. QED BY <1>1, RequestFacts, BlobFacts DEF Path, Paths

\* Every request has a handler.
LEMMA HandlerTypes ==
  ASSUME NEW m \in Request
  PROVE  Handler(m.code) \in SessionStates
  BY RequestFacts
     DEF Handler, SessionStates, CLIENT_CODE_REGISTER, CLIENT_CODE_SEND_PUBLIC_KEY,
         CLIENT_CODE_SEND_FILE, CLIENT_CODE_CKSUM_OK, CLIENT_CODE_CKSUM_ERR,
         CLIENT_CODE_CKSUM_ERR_FINAL

\* Moving a session keeps the type of spc.
LEMMA GotoTypes ==
  ASSUME TypeInv, NEW p \in Runs, NEW l \in SessionStates, Goto(p, l)
  PROVE  spc' \in [Runs -> SessionStates]
  BY DEF Goto, TypeInv, TypeOK, ServerTypeOK

\* Decrypting keeps the type of plain.
LEMMA PlainTypes ==
  ASSUME TypeInv, NEW p \in Runs, NEW blob \in Blobs \cup {None},
         plain' = [plain EXCEPT ![p] = blob]
  PROVE  plain' \in [Runs -> Blobs \cup {None}]
  BY DEF TypeInv, TypeOK, ServerTypeOK

\* Moving a session within the chain of its handler keeps RequestFits.
LEMMA FitsAfter ==
  ASSUME TypeInv, NEW p \in Runs, NEW l, Goto(p, l),
         UNCHANGED <<req, cksum>>, Fits(l, req[p], cksum[p])
  PROVE  RequestFits'
  BY DEF TypeInv, TypeOK, ServerTypeOK, RequestFits, Goto

-----------------------------------------------------------------------------
(* The steps of a session *)

\* A session sends well-formed responses.
LEMMA SessionNetTypes ==
  ASSUME TypeInv, NEW p \in Runs, SessionStep(p)
  PROVE  NetTypeOK'
  <1>0. NetTypeOK /\ p \in Ids
    BY DEF TypeInv, TypeOK, Ids
  <1>1. CASE Receive(p)
    BY <1>0, <1>1 DEF Receive, NetTypeOK
  <1>2. CASE CloseSession(p)
    BY <1>0, <1>2 DEF CloseSession, NetTypeOK
  <1>3. CASE SendRegistrationOk(p)
    BY <1>0, <1>3, ResponseTypes, RespondTypes DEF SendRegistrationOk
  <1>4. CASE SendRegistrationErr(p)
    BY <1>0, <1>4, ResponseTypes, RespondTypes DEF SendRegistrationErr
  <1>5. CASE SendAESKey(p)
    <2>1. req[p].id \in Ids
      BY <1>5, HandledRequest DEF SendAESKey, Respond, Keying
    <2>2. KeyResponse(req[p].id, p) \in Response
      BY <2>1, ResponseTypes DEF Keys
    <2>3. QED BY <1>0, <1>5, <2>2, RespondTypes DEF SendAESKey
  <1>6. CASE SendCksum(p)
    <2>1. spc[p] = "send_cksum" /\ cksum[p] \in Sums
      BY <1>6 DEF SendCksum, Respond, TypeInv, RequestFits, Fits
    <2>2. req[p].id \in Ids /\ req[p].file \in Files
      BY <2>1, HandledRequest DEF Uploading
    <2>3. CksumResponse(req[p].id, req[p].file, cksum[p]) \in Response
      BY <2>1, <2>2, ResponseTypes
    <2>4. QED BY <1>0, <1>6, <2>3, RespondTypes DEF SendCksum
  <1>7. CASE SendReceived(p)
    <2>1. req[p].id \in Ids
      BY <1>7, HandledRequest DEF SendReceived, Respond, Closing
    <2>2. Status(SERVER_CODE_MESSAGE_RECEIVED, req[p].id) \in Response
      BY <2>1, ResponseTypes
    <2>3. QED BY <1>0, <1>7, <2>2, RespondTypes DEF SendReceived
  <1>8. CASE UNCHANGED net
    BY <1>0, <1>8 DEF NetTypeOK, net
  <1>9. QED
    BY <1>1, <1>2, <1>3, <1>4, <1>5, <1>6, <1>7, <1>8
       DEF SessionStep, HandlerStep, RegisterInMap, RegisterInDatabase, StoreKeys, Decrypt,
           CheckRoot, MakeRoot, CheckClientDir, MakeClientDir, OpenFile, WriteFile,
           AddToFileMap, AddToClient, CalculateCksum, CheckRow, InsertRow, ResetRow,
           MarkVerified, CheckFile, RemoveFile, DeleteRow, TestClientFiles, PopClientFile,
           TestFileMap, PopFileMap, CheckDirectory, MakeDirectory, TestMap,
           Unreachable

\* A session keeps the types of the server's state.
LEMMA SessionServerTypes ==
  ASSUME TypeInv, NEW p \in Runs, SessionStep(p)
  PROVE  ServerTypeOK'
  <1> USE DEF TypeInv, TypeOK, NetTypeOK, ServerTypeOK, DbTypeOK, SessionStates, Storing,
              stored, maps, locals, Fail, Ids
  <1>1. CASE Receive(p)
    <2>1. Head(c2s[p]) \in Request
      BY <1>1 DEF Receive
    <2>2. spc' \in [Runs -> SessionStates]
      <3>1. "refuse" \in SessionStates /\ Handler(Head(c2s[p]).code) \in SessionStates
        BY <2>1, HandlerTypes DEF SessionStates
      <3>2. Goto(p, "refuse") \/ Goto(p, Handler(Head(c2s[p]).code))
        BY <1>1 DEF Receive
      <3>3. QED BY <3>1, <3>2, GotoTypes
    <2>3. req' \in [Runs -> Request \cup {NoRequest}]
      BY <1>1, <2>1 DEF Receive
    <2>4. QED BY <1>1, <2>2, <2>3 DEF Receive
  <1>2. CASE CloseSession(p)
    BY <1>2 DEF CloseSession, Goto
  <1>3. CASE RegisterInMap(p)
    BY <1>3 DEF RegisterInMap, Goto
  <1>4. CASE RegisterInDatabase(p)
    <2>1. req[p].name \in Names
      BY <1>4, HandledRequest DEF RegisterInDatabase, Registering
    <2>2. [name |-> req[p].name, AES_key |-> None] \in ClientRow
      BY <2>1 DEF ClientRow
    <2> DEFINE row == [name |-> req[p].name, AES_key |-> None]
    <2>3. clients' \in {clients, [clients EXCEPT ![p] = row]}
      BY <1>4 DEF RegisterInDatabase, insert_new_client, Committed
    <2>5. row \in ClientRow
      BY <2>2
    <2>7. clients \in [Ids -> ClientRow \cup {None}]
      OBVIOUS
    <2> HIDE DEF row
    <2>6. clients' \in [Ids -> ClientRow \cup {None}]
      <3>1. [clients EXCEPT ![p] = row] \in [Ids -> ClientRow \cup {None}]
        BY <2>5, <2>7, UpdateTypes, Zenon
      <3>2. QED BY <2>3, <2>7, <3>1
    <2>4. QED BY <1>4, <2>6 DEF RegisterInDatabase, Goto
  <1>5. CASE SendRegistrationOk(p)
    BY <1>5 DEF SendRegistrationOk, Respond, Goto
  <1>6. CASE SendRegistrationErr(p)
    BY <1>6 DEF SendRegistrationErr, Respond, Goto
  <1>7. CASE StoreKeys(p)
    <2>1. req[p].name \in Names
      BY <1>7, HandledRequest DEF StoreKeys, Keying
    <2>2. [name |-> req[p].name, AES_key |-> p] \in ClientRow
      BY <2>1 DEF ClientRow, Keys
    <2> DEFINE row == [name |-> req[p].name, AES_key |-> p]
    <2> DEFINE named == NamedRows(clients, req[p].name)
    <2>3. clients' \in {clients, [i \in Ids |-> IF i \in named THEN row ELSE clients[i]]}
      BY <1>7 DEF StoreKeys, insert_keys_of_client, Committed
    <2>5. row \in ClientRow
      BY <2>2
    <2> HIDE DEF row, named
    <2>6. clients' \in [Ids -> ClientRow \cup {None}]
      BY <2>3, <2>5
    <2>4. QED BY <1>7, <2>6 DEF StoreKeys, Goto
  <1>8. CASE SendAESKey(p)
    BY <1>8 DEF SendAESKey, Respond, Goto
  <1>9. CASE Decrypt(p)
    <2>1. req[p].content \in Blobs \cup {None}
      BY <1>9, HandledRequest DEF Decrypt, Uploading
    <2>2. \/ plain' = plain
          \/ plain' = [plain EXCEPT ![p] = req[p].content]
          \/ plain' = [plain EXCEPT ![p] = Garbled]
      BY <1>9 DEF Decrypt
    <2>3. plain' \in [Runs -> Blobs \cup {None}]
      <3>1. CASE plain' = plain
        BY <3>1
      <3>2. CASE plain' = [plain EXCEPT ![p] = req[p].content]
        BY <2>1, <3>2, PlainTypes
      <3>3. CASE plain' = [plain EXCEPT ![p] = Garbled]
        BY <3>3, BlobFacts, PlainTypes
      <3>4. QED BY <2>2, <3>1, <3>2, <3>3
    <2>4. Goto(p, "root_check") \/ Goto(p, "recv")
      BY <1>9 DEF Decrypt
    <2>5. spc' \in [Runs -> SessionStates]
      BY <2>4, GotoTypes
    <2>6. QED BY <1>9, <2>3, <2>5 DEF Decrypt
  <1>10. CASE CheckRoot(p)
    BY <1>10 DEF CheckRoot, CheckDirectory, Goto
  <1>11. CASE MakeRoot(p)
    BY <1>11 DEF MakeRoot, MakeDirectory, Goto
  <1>12. CASE CheckClientDir(p)
    BY <1>12 DEF CheckClientDir, CheckDirectory, Goto
  <1>13. CASE MakeClientDir(p)
    <2>1. Path(p) \in Paths /\ req[p].id \in Ids
      BY <1>13, HandledRequest
         DEF MakeClientDir, MakeDirectory, Goto, Uploading, Closing, Deleting
    <2>2. QED
      BY <1>13, <2>1 DEF MakeClientDir, MakeDirectory, Goto
  <1>14. CASE OpenFile(p)
    BY <1>14, BlobFacts DEF OpenFile, Goto
  <1>15. CASE WriteFile(p)
    <2>1. PICK blob \in {plain[p], Garbled} : disk' = [disk EXCEPT ![Path(p)] = blob]
      BY <1>15 DEF WriteFile
    <2>2. disk' \in [Paths -> Blobs \cup {None}]
      BY <2>1, BlobFacts
    <2>3. QED BY <1>15, <2>2 DEF WriteFile, Goto
  <1>16. CASE AddToFileMap(p)
    <2>1. Path(p) \in Paths /\ req[p].id \in Ids
      BY <1>16, HandledRequest DEF AddToFileMap, Goto, Uploading, Closing, Deleting
    <2>2. QED
      BY <1>16, <2>1 DEF AddToFileMap, Goto
  <1>17. CASE AddToClient(p)
    <2>1. Path(p) \in Paths
      BY <1>17, HandledRequest DEF AddToClient, Uploading
    <2>2. client_files' \in SUBSET Paths
      BY <1>17, <2>1 DEF AddToClient
    <2>3. Goto(p, "cksum") \/ Goto(p, "recv")
      BY <1>17 DEF AddToClient
    <2>4. spc' \in [Runs -> SessionStates]
      BY <2>3, GotoTypes
    <2>5. QED BY <1>17, <2>2, <2>4 DEF AddToClient
  <1>18. CASE CalculateCksum(p)
    <2>1. Path(p) \in Paths
      BY <1>18, HandledRequest DEF CalculateCksum, Uploading
    <2>2. disk[Path(p)] # None => Cksum[disk[Path(p)]] \in Sums
      BY <2>1, BlobFacts
    <2>6. cksum' \in [Runs -> Sums \cup {None}]
      BY <1>18, <2>2 DEF CalculateCksum
    <2>3. Goto(p, "row_check") \/ Goto(p, "recv")
      BY <1>18 DEF CalculateCksum
    <2>4. spc' \in [Runs -> SessionStates]
      BY <2>3, GotoTypes
    <2>5. QED BY <1>18, <2>6, <2>4 DEF CalculateCksum
  <1>19. CASE CheckRow(p)
    BY <1>19 DEF CheckRow, file_exists, Selected, Goto
  <1>20. CASE InsertRow(p)
    BY <1>20 DEF InsertRow, insert_file_details, Committed, Goto
  <1>21. CASE ResetRow(p)
    BY <1>21 DEF ResetRow, update_cksum_verification, Committed, Goto
  <1>22. CASE SendCksum(p)
    BY <1>22 DEF SendCksum, Respond, Goto
  <1>23. CASE MarkVerified(p)
    <2>1. Path(p) \in Paths /\ req[p].id \in Ids
      BY <1>23, HandledRequest
         DEF MarkVerified, update_cksum_verification, Committed, Goto, Uploading, Closing,
             Deleting
    <2>2. QED
      BY <1>23, <2>1 DEF MarkVerified, update_cksum_verification, Committed, Goto
  <1>24. CASE SendReceived(p)
    BY <1>24 DEF SendReceived, Respond, Goto
  <1>25. CASE CheckFile(p)
    BY <1>25 DEF CheckFile, Goto
  <1>26. CASE RemoveFile(p)
    <2>1. Path(p) \in Paths /\ req[p].id \in Ids
      BY <1>26, HandledRequest
         DEF RemoveFile, OpenElsewhere, MaybeOpenElsewhere, Goto, Uploading, Closing,
             Deleting
    <2>2. QED
      BY <1>26, <2>1 DEF RemoveFile, OpenElsewhere, MaybeOpenElsewhere, Goto
  <1>27. CASE DeleteRow(p)
    BY <1>27 DEF DeleteRow, delete_file_of_client, Committed, Goto
  <1>28. CASE TestClientFiles(p)
    BY <1>28 DEF TestClientFiles, TestMap, Goto
  <1>29. CASE PopClientFile(p)
    <2>1. Path(p) \in Paths /\ req[p].id \in Ids
      BY <1>29, HandledRequest
         DEF PopClientFile, PopResult, Goto, Uploading, Closing, Deleting
    <2>2. QED
      BY <1>29, <2>1 DEF PopClientFile, PopResult, Goto
  <1>30. CASE TestFileMap(p)
    BY <1>30 DEF TestFileMap, TestMap, Goto
  <1>31. CASE PopFileMap(p)
    <2>1. Path(p) \in Paths /\ req[p].id \in Ids
      BY <1>31, HandledRequest DEF PopFileMap, PopResult, Goto, Uploading, Closing, Deleting
    <2>2. QED
      BY <1>31, <2>1 DEF PopFileMap, PopResult, Goto
  <1>32. CASE Unreachable(p)
    BY <1>32 DEF Unreachable, Goto
  <1>33. QED
    BY <1>1, <1>2, <1>3, <1>4, <1>5, <1>6, <1>7, <1>8, <1>9, <1>10, <1>11, <1>12, <1>13,
       <1>14, <1>15, <1>16, <1>17, <1>18, <1>19, <1>20, <1>21, <1>22, <1>23, <1>24, <1>25,
       <1>26, <1>27, <1>28, <1>29, <1>30, <1>31, <1>32
       DEF SessionStep, HandlerStep

\* A session is given requests that its handler is for.
LEMMA SessionRequestFits ==
  ASSUME TypeInv, NEW p \in Runs, SessionStep(p)
  PROVE  RequestFits'
  <1>0. /\ Fits(spc[p], req[p], cksum[p])
        /\ spc \in [Runs -> SessionStates]
    BY DEF TypeInv, TypeOK, ServerTypeOK, RequestFits
  <1> USE DEF Fits, Registering, Keying, Uploading, Closing, Storing, Deleting, stored, maps,
              locals, Fail
  <1>1. CASE Receive(p)
    <2>1. Head(c2s[p]) \in Request /\ req'[p] = Head(c2s[p])
      BY <1>1 DEF Receive, TypeInv, TypeOK, NetTypeOK, ServerTypeOK
    <2>2. PICK l \in {"refuse", Handler(Head(c2s[p]).code)} : Goto(p, l)
      BY <1>1 DEF Receive
    <2>3. Fits(l, Head(c2s[p]), cksum[p])
      BY <2>1, <2>2, RequestFacts
         DEF Handler, CLIENT_CODE_REGISTER, CLIENT_CODE_SEND_PUBLIC_KEY,
             CLIENT_CODE_SEND_FILE, CLIENT_CODE_CKSUM_OK, CLIENT_CODE_CKSUM_ERR,
             CLIENT_CODE_CKSUM_ERR_FINAL
    <2>4. \A q \in Runs \ {p} : spc'[q] = spc[q] /\ req'[q] = req[q]
      BY <1>0, <1>1, <2>2 DEF Receive, Goto
    <2>5. cksum' = cksum /\ spc'[p] = l
      BY <1>0, <1>1, <2>2 DEF Receive, Goto
    <2>6. QED BY <2>1, <2>3, <2>4, <2>5 DEF TypeInv, RequestFits
  <1>2. CASE CloseSession(p)
    BY <1>0, <1>2 DEF CloseSession, Goto, TypeInv, TypeOK, ServerTypeOK, RequestFits
  <1>3. CASE RegisterInMap(p)
    BY <1>0, <1>3, FitsAfter DEF RegisterInMap
  <1>4. CASE RegisterInDatabase(p)
    BY <1>0, <1>4, FitsAfter DEF RegisterInDatabase
  <1>5. CASE SendRegistrationOk(p)
    BY <1>0, <1>5, FitsAfter DEF SendRegistrationOk, Respond
  <1>6. CASE SendRegistrationErr(p)
    BY <1>0, <1>6, FitsAfter DEF SendRegistrationErr, Respond
  <1>7. CASE StoreKeys(p)
    BY <1>0, <1>7, FitsAfter DEF StoreKeys
  <1>8. CASE SendAESKey(p)
    BY <1>0, <1>8, FitsAfter DEF SendAESKey, Respond
  <1>9. CASE Decrypt(p)
    BY <1>0, <1>9, FitsAfter DEF Decrypt, get_aes_key_of_client
  <1>10. CASE CheckRoot(p)
    BY <1>0, <1>10, FitsAfter DEF CheckRoot, CheckDirectory
  <1>11. CASE MakeRoot(p)
    BY <1>0, <1>11, FitsAfter DEF MakeRoot, MakeDirectory
  <1>12. CASE CheckClientDir(p)
    BY <1>0, <1>12, FitsAfter DEF CheckClientDir, CheckDirectory
  <1>13. CASE MakeClientDir(p)
    BY <1>0, <1>13, FitsAfter DEF MakeClientDir, MakeDirectory
  <1>14. CASE OpenFile(p)
    BY <1>0, <1>14, FitsAfter DEF OpenFile
  <1>15. CASE WriteFile(p)
    BY <1>0, <1>15, FitsAfter DEF WriteFile
  <1>16. CASE AddToFileMap(p)
    BY <1>0, <1>16, FitsAfter DEF AddToFileMap
  <1>17. CASE AddToClient(p)
    BY <1>0, <1>17, FitsAfter DEF AddToClient
  <1>18. CASE CalculateCksum(p)
    <2>1. CASE disk[Path(p)] = None
      BY <1>0, <1>18, <2>1, FitsAfter DEF CalculateCksum
    <2>2. CASE disk[Path(p)] # None
      <3>1. Path(p) \in Paths
        BY <1>18, HandledRequest DEF CalculateCksum
      <3>2. Cksum[disk[Path(p)]] \in Sums
        BY <2>2, <3>1, BlobFacts DEF TypeInv, TypeOK, ServerTypeOK
      <3>3. QED
        BY <1>0, <1>18, <2>2, <3>2
           DEF CalculateCksum, Goto, TypeInv, TypeOK, ServerTypeOK, RequestFits
    <2>3. QED BY <2>1, <2>2
  <1>19. CASE CheckRow(p)
    BY <1>0, <1>19, FitsAfter DEF CheckRow, file_exists, Selected
  <1>20. CASE InsertRow(p)
    BY <1>0, <1>20, FitsAfter DEF InsertRow
  <1>21. CASE ResetRow(p)
    BY <1>0, <1>21, FitsAfter DEF ResetRow
  <1>22. CASE SendCksum(p)
    BY <1>0, <1>22, FitsAfter DEF SendCksum, Respond
  <1>23. CASE MarkVerified(p)
    BY <1>0, <1>23, FitsAfter DEF MarkVerified
  <1>24. CASE SendReceived(p)
    BY <1>0, <1>24, FitsAfter DEF SendReceived, Respond
  <1>25. CASE CheckFile(p)
    BY <1>0, <1>25, FitsAfter DEF CheckFile
  <1>26. CASE RemoveFile(p)
    BY <1>0, <1>26, FitsAfter DEF RemoveFile, OpenElsewhere, MaybeOpenElsewhere
  <1>27. CASE DeleteRow(p)
    BY <1>0, <1>27, FitsAfter DEF DeleteRow
  <1>28. CASE TestClientFiles(p)
    BY <1>0, <1>28, FitsAfter DEF TestClientFiles, TestMap
  <1>29. CASE PopClientFile(p)
    BY <1>0, <1>29, FitsAfter DEF PopClientFile, PopResult
  <1>30. CASE TestFileMap(p)
    BY <1>0, <1>30, FitsAfter DEF TestFileMap, TestMap
  <1>31. CASE PopFileMap(p)
    BY <1>0, <1>31, FitsAfter DEF PopFileMap, PopResult
  <1>32. CASE Unreachable(p)
    BY <1>0, <1>32, FitsAfter DEF Unreachable
  <1>33. QED
    BY <1>1, <1>2, <1>3, <1>4, <1>5, <1>6, <1>7, <1>8, <1>9, <1>10, <1>11, <1>12, <1>13,
       <1>14, <1>15, <1>16, <1>17, <1>18, <1>19, <1>20, <1>21, <1>22, <1>23, <1>24, <1>25,
       <1>26, <1>27, <1>28, <1>29, <1>30, <1>31, <1>32
       DEF SessionStep, HandlerStep

-----------------------------------------------------------------------------
(* The steps of a client *)

\* The end of a run keeps the types of the client's state.
LEMMA EndTypes ==
  ASSUME TypeInv, NEW p \in Runs, NEW how \in Ended, End(p, how)
  PROVE  ClientTypeOK' /\ ClientFits'
  <1>1. ClientTypeOK'
    BY DEF End, Enter, TypeInv, TypeOK, ClientTypeOK, ClientStates, NUMBER_OF_FILE_SENDING
  <1>2. ClientFits'
    BY DEF End, Enter, TypeInv, TypeOK, ClientTypeOK, ClientFits, Knows, MyInfo, Ended, Saving
  <1>3. QED BY <1>1, <1>2

\* What a client waits for is a response, or nothing.
LEMMA AwaitTypes ==
  ASSUME NetTypeOK, NEW p \in Runs, NEW l, Await(p, l)
  PROVE  /\ s2c' \in [Runs -> Seq(Response)]
         /\ ResponseTo(p) \in Response \cup {NoResponse}
  BY DEF NetTypeOK, Await, ResponseTo

\* A 2103 response names a file.
LEMMA CksumArrives ==
  ASSUME NetTypeOK, NEW p \in Runs, ReceiveCksum(p)
  PROVE  s2c' \in [Runs -> Seq(Response)] /\ ResponseTo(p).file \in Files
  <1>1. /\ s2c' \in [Runs -> Seq(Response)]
        /\ ResponseTo(p) \in Response \cup {NoResponse}
    BY AwaitTypes DEF ReceiveCksum
  <1>2. ResponseTo(p).code = 2103 /\ NoResponse.code = 0
    BY DEF ReceiveCksum, SERVER_CODE_CKSUM_READY, NoResponse, Status, ResponseOf
  <1>3. QED BY <1>1, <1>2, ResponseFacts

\* ClientFits, for one run.
LEMMA KnowsNow ==
  ASSUME TypeInv, NEW p \in Runs
  PROVE  /\ cpc[p] \in Saving \cup {"send_key", "await_key", "load", "await_file",
                                    "await_ack", "await_final"} => cid[p] \in Ids
         /\ cpc[p] \in {"await_file", "await_ack", "await_final"}
                => ckey[p] \in Keys /\ cfile[p] \in Files
         /\ cpc[p] = "key_write" => MyInfo(p) \in Seq(Line)
  BY DEF TypeInv, ClientFits, Knows

\* A client sends well-formed requests.
LEMMA ClientNetTypes ==
  ASSUME TypeInv, NEW p \in Runs, ClientStep(p)
  PROVE  NetTypeOK'
  <1>0. NetTypeOK
    BY DEF TypeInv, TypeOK
  <1>1. CASE ReceiveRegistration(p)
    BY <1>0, <1>1, AwaitTypes DEF ReceiveRegistration, NetTypeOK
  <1>2. CASE ReceiveKey(p)
    BY <1>0, <1>2, AwaitTypes DEF ReceiveKey, NetTypeOK
  <1>3. CASE NoCksum(p) \/ ReceiveAck(p) \/ ReceiveFinalAck(p)
    <2>1. \E l \in Awaiting : Await(p, l)
      BY <1>3 DEF NoCksum, ReceiveAck, ReceiveFinalAck, ReceiveConfirmation, Awaiting
    <2>2. c2s' = c2s /\ open' = [open EXCEPT ![p] = @ \ {"client"}]
      BY <1>3 DEF NoCksum, ReceiveAck, ReceiveFinalAck, ReceiveConfirmation, End
    <2>3. QED BY <1>0, <2>1, <2>2, AwaitTypes DEF NetTypeOK
  <1>4. CASE NotRegistered(p) \/ NothingToSend(p)
    <2>1. /\ c2s' = c2s /\ s2c' = s2c
          /\ open' = [open EXCEPT ![p] = @ \ {"client"}]
      BY <1>4, Zenon DEF NotRegistered, NothingToSend, End
    <2>2. QED BY <1>0, <2>1 DEF NetTypeOK
  <1>5. CASE SendPublicKey(p)
    <2>1. cid[p] \in Ids /\ NameOf[HostOf[p]] \in Names
      BY <1>5, KnowsNow, ConstantsAssumption DEF SendPublicKey
    <2>2. PublicKeyRequest(cid[p], NameOf[HostOf[p]]) \in Request
      BY <2>1, RequestTypes
    <2>3. QED BY <1>0, <1>5, <2>2, SendTypes DEF SendPublicKey, NetTypeOK
  <1>6. CASE SendFile(p)
    <2>1. cid[p] \in Ids /\ ckey[p] \in Keys
      BY <1>6, KnowsNow DEF SendFile, TypeInv, TypeOK, ClientTypeOK
    <2>2. PICK file \in Files, content \in Contents :
              Send(p, FileRequest(cid[p], file, ckey[p], content))
      BY <1>6 DEF SendFile
    <2>3. FileRequest(cid[p], file, ckey[p], content) \in Request
      BY <2>1, RequestTypes
    <2>4. QED BY <1>0, <1>6, <2>2, <2>3, SendTypes DEF SendFile, NetTypeOK
  <1>7. CASE CksumSucceeded(p)
    <2>1. cid[p] \in Ids
      BY <1>7, KnowsNow DEF CksumSucceeded, ReceiveCksum, Await
    <2>2. CksumRequest(CLIENT_CODE_CKSUM_OK, cid[p], ResponseTo(p).file) \in Request
      BY <1>0, <1>7, <2>1, CksumArrives, RequestTypes DEF CksumSucceeded, CLIENT_CODE_CKSUM_OK
    <2>3. QED
      BY <1>0, <1>7, <2>2, SendTypes, CksumArrives DEF CksumSucceeded, NetTypeOK
  <1>8. CASE CksumFailed(p)
    <2>1. cid[p] \in Ids /\ ckey[p] \in Keys /\ cfile[p] \in Files
      BY <1>8, KnowsNow DEF CksumFailed, ReceiveCksum, Await
    <2>2. CksumRequest(CLIENT_CODE_CKSUM_ERR, cid[p], ResponseTo(p).file) \in Request
      BY <1>0, <1>8, <2>1, CksumArrives, RequestTypes DEF CksumFailed, CLIENT_CODE_CKSUM_ERR
    <2>3. PICK content \in Contents \cup {None} :
              c2s' = [c2s EXCEPT ![p] =
                         IF "server" \notin open[p] THEN @
                         ELSE @ \o <<CksumRequest(CLIENT_CODE_CKSUM_ERR, cid[p],
                                                  ResponseTo(p).file),
                                     FileRequest(cid[p], cfile[p], ckey[p], content)>>]
      BY <1>8 DEF CksumFailed
    <2>4. FileRequest(cid[p], cfile[p], ckey[p], content) \in Request
      BY <2>1, RequestTypes
    <2>5. c2s' \in [Runs -> Seq(Request)]
      BY <1>0, <2>2, <2>3, <2>4 DEF NetTypeOK
    <2>6. QED BY <1>0, <1>8, <2>5, CksumArrives DEF CksumFailed, NetTypeOK
  <1>9. CASE CksumFailedFinally(p)
    <2>1. cid[p] \in Ids
      BY <1>9, KnowsNow DEF CksumFailedFinally, ReceiveCksum, Await
    <2>2. CksumRequest(CLIENT_CODE_CKSUM_ERR_FINAL, cid[p], ResponseTo(p).file) \in Request
      BY <1>0, <1>9, <2>1, CksumArrives, RequestTypes
         DEF CksumFailedFinally, CLIENT_CODE_CKSUM_ERR_FINAL
    <2>3. QED
      BY <1>0, <1>9, <2>2, SendTypes, CksumArrives DEF CksumFailedFinally, NetTypeOK
  <1>10. CASE UNCHANGED net
    BY <1>0, <1>10 DEF NetTypeOK, net
  <1>11. QED
    BY <1>1, <1>2, <1>3, <1>4, <1>5, <1>6, <1>7, <1>8, <1>9, <1>10
       DEF ClientStep, SaveName, SaveId, AppendLine, GenerateRSAKeyPair, TruncateMeInfo,
           WriteMeInfo

\* A client keeps the types of its variables and of me.info.
LEMMA ClientMemoryTypes ==
  ASSUME TypeInv, NEW p \in Runs, ClientStep(p)
  PROVE  ClientTypeOK'
  <1>0. ClientTypeOK /\ NetTypeOK /\ HostOf[p] \in Hosts
    BY ConstantsAssumption DEF TypeInv, TypeOK
  <1> USE DEF ClientTypeOK, ClientStates, Awaiting, Saving, Ended, Enter, memory
  <1>1. CASE ReceiveRegistration(p)
    <2>1. ResponseTo(p).code = 2100 => ResponseTo(p).id \in Ids
      <3>1. ResponseTo(p) \in Response \cup {NoResponse}
        BY <1>0, <1>1, AwaitTypes DEF ReceiveRegistration
      <3>2. NoResponse.code = 0
        BY DEF NoResponse, Status, ResponseOf
      <3>3. QED BY <3>1, <3>2, ResponseFacts
    <2>2. cid' = cid \/ (/\ cid' = [cid EXCEPT ![p] = ResponseTo(p).id]
                         /\ ResponseTo(p).code = 2100)
      BY <1>1 DEF ReceiveRegistration, SERVER_CODE_REGISTRATION_OK
    <2>3. cid' \in [Runs -> Ids \cup {None}]
      <3>1. cid \in [Runs -> Ids \cup {None}]
        BY <1>0
      <3>2. CASE cid' = cid
        BY <3>1, <3>2
      <3>3. CASE cid' = [cid EXCEPT ![p] = ResponseTo(p).id] /\ ResponseTo(p).code = 2100
        <4> DEFINE i == ResponseTo(p).id
        <4>1. i \in Ids /\ cid' = [cid EXCEPT ![p] = i]
          BY <2>1, <3>3
        <4> HIDE DEF i
        <4>2. QED BY <3>1, <4>1
      <3>4. QED BY <2>2, <3>2, <3>3
    <2>4. QED BY <1>0, <1>1, <2>3 DEF ReceiveRegistration
  <1>2. CASE SaveName(p) \/ SaveId(p)
    <2>1. PICK line \in Line :
              meInfo' = [meInfo EXCEPT ![HostOf[p]] =
                            IF @ = None THEN <<line>> ELSE Append(@, line)]
      <3>1. NameLine \in Line /\ (SaveId(p) => IdLine(cid[p]) \in Line)
        BY KnowsNow DEF SaveId, AppendLine, Line, NameLine, IdLine, Ids
      <3>2. QED BY <1>2, <3>1 DEF SaveName, SaveId, AppendLine
    <2>2. meInfo' \in [Hosts -> Seq(Line) \cup {None}]
      BY <1>0, <2>1
    <2>3. QED BY <1>0, <1>2, <2>2 DEF SaveName, SaveId, AppendLine
  <1>3. CASE GenerateRSAKeyPair(p)
    <2>1. MyInfo(p) # None => WithKey(MyInfo(p), p) \in Seq(Line)
      <3>1. KeyLine(p) \in Line
        BY DEF KeyLine, Line
      <3>2. MyInfo(p) \in Seq(Line) \cup {None}
        BY <1>0 DEF MyInfo
      <3>3. QED BY <3>1, <3>2 DEF WithKey
    <2>2. lines' \in [Runs -> Seq(Line)]
      BY <1>0, <1>3, <2>1 DEF GenerateRSAKeyPair
    <2>3. QED BY <1>0, <1>3, <2>2 DEF GenerateRSAKeyPair
  <1>4. CASE TruncateMeInfo(p)
    <2>1. <<>> \in Seq(Line)
      OBVIOUS
    <2>2. QED BY <1>0, <1>4, <2>1 DEF TruncateMeInfo
  <1>5. CASE WriteMeInfo(p)
    <2>1. MyInfo(p) \in Seq(Line) /\ lines[p] \in Seq(Line)
      BY <1>0, <1>5, KnowsNow DEF WriteMeInfo
    <2>2. SubSeq(MyInfo(p), Len(lines[p]) + 1, Len(MyInfo(p))) \in Seq(Line)
      BY <2>1
    <2> DEFINE written == lines[p] \o SubSeq(MyInfo(p), Len(lines[p]) + 1, Len(MyInfo(p)))
    <2>3. written \in Seq(Line) /\ meInfo' = [meInfo EXCEPT ![HostOf[p]] = written]
      BY <1>0, <1>5, <2>1, <2>2 DEF WriteMeInfo, MyInfo
    <2> HIDE DEF written
    <2>4. meInfo' \in [Hosts -> Seq(Line) \cup {None}]
      <3>1. meInfo \in [Hosts -> Seq(Line) \cup {None}]
        BY <1>0
      <3>2. [meInfo EXCEPT ![HostOf[p]] = written] \in [Hosts -> Seq(Line) \cup {None}]
        BY <2>3, <3>1, UpdateTypes, Zenon
      <3>3. QED BY <2>3, <3>2
    <2>5. /\ lines' = [lines EXCEPT ![p] = <<>>]
          /\ cpc' = [cpc EXCEPT ![p] = "send_key"]
          /\ UNCHANGED <<cid, ckey, cfile, loaded, trials>>
      BY <1>5 DEF WriteMeInfo
    <2>6. QED BY <1>0, <2>4, <2>5
  <1>6. CASE SendPublicKey(p)
    BY <1>0, <1>6 DEF SendPublicKey
  <1>7. CASE ReceiveKey(p)
    <2>1. ResponseTo(p).key \in Keys \cup {None}
      BY <1>0, <1>7, AwaitTypes, ResponseFacts DEF ReceiveKey, NoResponse, Status, ResponseOf
    <2>2. QED BY <1>0, <1>7, <2>1 DEF ReceiveKey
  <1>8. CASE SendFile(p)
    BY <1>0, <1>8 DEF SendFile
  <1>9. CASE CksumSucceeded(p)
    BY <1>0, <1>9 DEF CksumSucceeded
  <1>10. CASE CksumFailed(p)
    <2>0. trials[p] + 1 \in 1..NUMBER_OF_FILE_SENDING
      <3>1. trials[p] \in 1..NUMBER_OF_FILE_SENDING /\ trials[p] < NUMBER_OF_FILE_SENDING
        BY <1>0, <1>10 DEF CksumFailed, TrialsLeft
      <3>2. QED BY <3>1 DEF NUMBER_OF_FILE_SENDING
    <2>1. trials' \in [Runs -> 1..NUMBER_OF_FILE_SENDING]
      BY <1>0, <1>10, <2>0 DEF CksumFailed
    <2>2. loaded' \in [Runs -> Contents \cup {None}]
      BY <1>0, <1>10 DEF CksumFailed
    <2>3. QED BY <1>0, <1>10, <2>1, <2>2 DEF CksumFailed
  <1>11. CASE CksumFailedFinally(p)
    BY <1>0, <1>11 DEF CksumFailedFinally, NUMBER_OF_FILE_SENDING
  <1>12. CASE \E how \in Ended : End(p, how)
    BY <1>12, EndTypes
  <1>13. QED
    BY <1>1, <1>2, <1>3, <1>4, <1>5, <1>6, <1>7, <1>8, <1>9, <1>10, <1>11, <1>12
       DEF ClientStep, NotRegistered, NothingToSend, NoCksum, ReceiveAck, ReceiveFinalAck,
           ReceiveConfirmation

\* A client knows what its next request is made of.
LEMMA ClientKnows ==
  ASSUME TypeInv, NEW p \in Runs, ClientStep(p)
  PROVE  ClientFits'
  <1>0. /\ ClientTypeOK /\ NetTypeOK /\ HostOf \in [Runs -> Hosts]
        /\ \A q \in Runs : Knows(cpc[q], cid[q], ckey[q], cfile[q], MyInfo(q))
    BY ConstantsAssumption DEF TypeInv, TypeOK, ClientFits
  <1>1. CASE ReceiveRegistration(p)
    <2>1. ResponseTo(p).code = 2100 => ResponseTo(p).id \in Ids
      BY <1>0, <1>1, AwaitTypes, ResponseFacts
         DEF ReceiveRegistration, NoResponse, Status, ResponseOf
    <2>2. QED
      BY <1>0, <1>1, <2>1
         DEF ReceiveRegistration, SERVER_CODE_REGISTRATION_OK, Enter, ClientTypeOK, ClientFits,
             Knows, MyInfo, Saving
  <1>2. CASE SaveName(p) \/ SaveId(p)
    <2>1. cid[p] \in Ids
      BY <1>2, KnowsNow DEF SaveName, SaveId, AppendLine, Saving
    <2>2. \A q \in Runs : MyInfo(q) \in Seq(Line) => MyInfo(q)' \in Seq(Line)
      <3>1. PICK line \in Line :
                meInfo' = [meInfo EXCEPT ![HostOf[p]] =
                              IF @ = None THEN <<line>> ELSE Append(@, line)]
        <4>1. NameLine \in Line /\ IdLine(cid[p]) \in Line
          BY <2>1 DEF Line, NameLine, IdLine, Ids
        <4>2. QED BY <1>2, <4>1 DEF SaveName, SaveId, AppendLine
      <3>2. SUFFICES ASSUME NEW q \in Runs, MyInfo(q) \in Seq(Line)
                     PROVE  MyInfo(q)' \in Seq(Line)
        OBVIOUS
      <3>3. meInfo \in [Hosts -> Seq(Line) \cup {None}] /\ HostOf[p] \in Hosts /\ HostOf[q] \in Hosts
        BY <1>0 DEF ClientTypeOK
      <3>4. CASE HostOf[q] # HostOf[p]
        BY <3>1, <3>2, <3>3, <3>4 DEF MyInfo
      <3>5. CASE HostOf[q] = HostOf[p]
        <4>1. <<line>> \in Seq(Line) /\ Append(MyInfo(q), line) \in Seq(Line)
          BY <3>1, <3>2
        <4>2. MyInfo(q)' = IF MyInfo(q) = None THEN <<line>> ELSE Append(MyInfo(q), line)
          BY <3>1, <3>3, <3>5 DEF MyInfo
        <4>3. QED BY <4>1, <4>2
      <3>6. QED BY <3>4, <3>5
    <2>3. QED
      BY <1>0, <1>2, <2>1, <2>2
         DEF SaveName, SaveId, AppendLine, Enter, ClientTypeOK, ClientFits, Knows, Saving, memory
  <1>3. CASE GenerateRSAKeyPair(p)
    BY <1>0, <1>3 DEF GenerateRSAKeyPair, Enter, ClientTypeOK, ClientFits, Knows, MyInfo, Saving
  <1>4. CASE TruncateMeInfo(p)
    BY <1>0, <1>4
       DEF TruncateMeInfo, Enter, ClientTypeOK, ClientFits, Knows, MyInfo, Saving, memory
  <1>5. CASE WriteMeInfo(p)
    BY <1>0, <1>5 DEF WriteMeInfo, Enter, ClientTypeOK, ClientFits, Knows, MyInfo, Saving
  <1>6. CASE SendPublicKey(p)
    BY <1>0, <1>6
       DEF SendPublicKey, Enter, ClientTypeOK, ClientFits, Knows, MyInfo, Saving, memory
  <1>7. CASE ReceiveKey(p)
    BY <1>0, <1>7 DEF ReceiveKey, Await, Enter, ClientTypeOK, ClientFits, Knows, MyInfo, Saving
  <1>8. CASE SendFile(p)
    BY <1>0, <1>8 DEF SendFile, Enter, ClientTypeOK, ClientFits, Knows, MyInfo, Saving
  <1>9. CASE CksumSucceeded(p)
    BY <1>0, <1>9
       DEF CksumSucceeded, ReceiveCksum, Await, Enter, ClientTypeOK, ClientFits, Knows, MyInfo,
           Saving, memory
  <1>10. CASE CksumFailed(p)
    BY <1>0, <1>10
       DEF CksumFailed, ReceiveCksum, Await, Enter, ClientTypeOK, ClientFits, Knows, MyInfo,
           Saving
  <1>11. CASE CksumFailedFinally(p)
    BY <1>0, <1>11
       DEF CksumFailedFinally, ReceiveCksum, Await, Enter, ClientTypeOK, ClientFits, Knows,
           MyInfo, Saving
  <1>12. CASE \E how \in Ended : End(p, how)
    BY <1>12, EndTypes
  <1>13. QED
    BY <1>1, <1>2, <1>3, <1>4, <1>5, <1>6, <1>7, <1>8, <1>9, <1>10, <1>11, <1>12
       DEF ClientStep, NotRegistered, NothingToSend, NoCksum, ReceiveAck, ReceiveFinalAck,
           ReceiveConfirmation, Ended

-----------------------------------------------------------------------------
(* Type correctness *)

\* Nothing is lost while the server does nothing ...
LEMMA ServerIdle ==
  ASSUME TypeInv, UNCHANGED server
  PROVE  ServerTypeOK' /\ RequestFits'
  BY DEF TypeInv, TypeOK, ServerTypeOK, DbTypeOK, RequestFits, Fits, server, stored, maps, locals

\* ... or the clients do nothing.
LEMMA ClientIdle ==
  ASSUME TypeInv, UNCHANGED client
  PROVE  ClientTypeOK' /\ ClientFits'
  BY DEF TypeInv, TypeOK, ClientTypeOK, ClientFits, Knows, MyInfo, client, memory

\* The initial states are typed.
LEMMA InitTypes == Init => TypeInv
  <1> SUFFICES ASSUME Init PROVE TypeInv
    OBVIOUS
  <1>1. NetTypeOK
    BY DEF Init, NetInit, NetTypeOK
  <1>2. ServerTypeOK /\ RequestFits
    BY DEF Init, ServerInit, ServerTypeOK, DbTypeOK, SessionStates, RequestFits, Fits,
           Registering, Keying, Uploading, Closing, Storing, Deleting
  <1>3. ClientTypeOK /\ ClientFits
    BY DEF Init, ClientInit, ClientTypeOK, ClientStates, NUMBER_OF_FILE_SENDING, ClientFits,
           Knows, Saving
  <1>4. QED BY <1>1, <1>2, <1>3 DEF TypeInv, TypeOK

\* So are the states after a new run has connected,
LEMMA ConnectTypes ==
  ASSUME TypeInv, NEW p \in Runs, Connect(p)
  PROVE  TypeInv'
  <1>0. NetTypeOK /\ ServerTypeOK /\ ClientTypeOK /\ RequestFits /\ ClientFits
    BY DEF TypeInv, TypeOK
  <1>1. NetTypeOK'
    <2>1. RegisterRequest(NameOf[HostOf[p]]) \in Request
      BY ConstantsAssumption, RequestTypes
    <2>2. c2s' = [c2s EXCEPT ![p] = <<RegisterRequest(NameOf[HostOf[p]])>>]
      BY DEF Connect, Start
    <2>3. c2s' \in [Runs -> Seq(Request)]
      BY <1>0, <2>1, <2>2 DEF NetTypeOK
    <2>4. QED BY <1>0, <2>3 DEF NetTypeOK, Connect, Start
  <1>2. ServerTypeOK'
    BY <1>0 DEF Connect, Accept, Goto, ServerTypeOK, DbTypeOK, SessionStates, stored, maps,
                locals
  <1>3. RequestFits'
    BY <1>0 DEF Connect, Accept, Goto, ServerTypeOK, RequestFits, Fits, locals, Registering,
                Keying, Uploading, Closing, Storing, Deleting
  <1>4. ClientTypeOK'
    <2>1. SavedId(MyInfo(p)) \in Ids \cup {None}
      <3>1. MyInfo(p) \in Seq(Line) \cup {None}
        BY <1>0, ConstantsAssumption DEF ClientTypeOK, MyInfo
      <3>2. QED BY <3>1 DEF SavedId, Line, Ids
    <2>2. QED
      BY <1>0, <2>1 DEF Connect, Start, Enter, ClientTypeOK, ClientStates, Awaiting
  <1>5. ClientFits'
    BY <1>0 DEF Connect, Start, Enter, ClientTypeOK, ClientFits, Knows, MyInfo, Saving
  <1>6. QED BY <1>1, <1>2, <1>3, <1>4, <1>5 DEF TypeInv, TypeOK

\* after the server was killed,
LEMMA CrashTypes ==
  ASSUME TypeInv, Crash
  PROVE  NetTypeOK' /\ ServerTypeOK' /\ RequestFits'
  <1>1. NetTypeOK'
    BY DEF TypeInv, TypeOK, Crash, NetTypeOK
  <1>2. ServerTypeOK'
    BY DEF TypeInv, TypeOK, Crash, ServerTypeOK, DbTypeOK, SessionStates, stored
  <1>3. RequestFits'
    BY DEF Crash, RequestFits, Fits, Registering, Keying, Uploading, Closing, Storing, Deleting
  <1>4. QED BY <1>1, <1>2, <1>3

\* after it was started again,
LEMMA RestartTypes ==
  ASSUME TypeInv, Restart
  PROVE  NetTypeOK' /\ ServerTypeOK' /\ RequestFits'
  <1>1. NetTypeOK'
    BY DEF TypeInv, TypeOK, Restart, NetTypeOK, net
  <1>2. ServerTypeOK'
    BY DEF TypeInv, TypeOK, Restart, ServerTypeOK, DbTypeOK, stored, locals
  <1>3. RequestFits'
    BY DEF TypeInv, Restart, RequestFits, Fits, locals
  <1>4. QED BY <1>1, <1>2, <1>3

\* and after every step.
LEMMA NextTypes ==
  ASSUME TypeInv, [Next]_vars
  PROVE  TypeInv'
  <1> USE DEF TypeInv, TypeOK
  <1>1. ASSUME NEW p \in Runs, Connect(p)
        PROVE  TypeInv'
    BY <1>1, ConnectTypes
  <1>2. ASSUME NEW p \in Runs, ConnectInVain(p)
        PROVE  TypeInv'
    <2>1. NetTypeOK'
      BY <1>2 DEF ConnectInVain, StartAlone, NetTypeOK, net
    <2>2. ServerTypeOK' /\ RequestFits'
      BY <1>2, ServerIdle DEF ConnectInVain
    <2>3. ClientTypeOK' /\ ClientFits'
      BY <1>2 DEF ConnectInVain, StartAlone, Enter, ClientTypeOK, ClientStates, Ended,
                  ClientFits, Knows, MyInfo, memory, Saving
    <2>4. QED BY <2>1, <2>2, <2>3
  <1>3. ASSUME NEW p \in Runs, SessionMoves(p)
        PROVE  TypeInv'
    <2>1. NetTypeOK' /\ ServerTypeOK' /\ RequestFits'
      BY <1>3, SessionNetTypes, SessionServerTypes, SessionRequestFits DEF SessionMoves
    <2>2. ClientTypeOK' /\ ClientFits'
      BY <1>3, ClientIdle DEF SessionMoves
    <2>3. QED BY <2>1, <2>2
  <1>4. ASSUME NEW p \in Runs, ClientMoves(p)
        PROVE  TypeInv'
    <2>1. NetTypeOK' /\ ClientTypeOK' /\ ClientFits'
      BY <1>4, ClientNetTypes, ClientMemoryTypes, ClientKnows DEF ClientMoves
    <2>2. ServerTypeOK' /\ RequestFits'
      BY <1>4, ServerIdle DEF ClientMoves
    <2>3. QED BY <2>1, <2>2
  <1>5. ASSUME NEW p \in Runs, Kill(p), UNCHANGED server
        PROVE  TypeInv'
    <2>1. NetTypeOK'
      BY <1>5 DEF Kill, End, NetTypeOK
    <2>2. ClientTypeOK' /\ ClientFits'
      BY <1>5, EndTypes DEF Kill, Ended
    <2>3. QED BY <1>5, <2>1, <2>2, ServerIdle
  <1>6. CASE Crash /\ UNCHANGED client
    BY <1>6, CrashTypes, ClientIdle
  <1>7. CASE Restart /\ UNCHANGED client
    BY <1>7, RestartTypes, ClientIdle
  <1>8. CASE UNCHANGED vars
    <2>1. NetTypeOK'
      BY <1>8 DEF vars, net, NetTypeOK
    <2>2. QED BY <1>8, <2>1, ServerIdle, ClientIdle DEF vars
  <1>9. QED
    BY <1>1, <1>2, <1>3, <1>4, <1>5, <1>6, <1>7, <1>8 DEF Next

\* Every variable has its type in every state.  TypeInv adds what a handler and
\* a client have to know for the messages they send to be well formed.
THEOREM TypeCorrect == Spec => []TypeOK
  <1>1. TypeInv /\ [Next]_vars => TypeInv'
    BY NextTypes
  <1>2. TypeInv => TypeOK
    BY DEF TypeInv
  <1>3. QED BY <1>1, <1>2, InitTypes, PTL DEF Spec

-----------------------------------------------------------------------------
(* Whose files and whose ids *)

\* Where a session acts for the client its request names.
Acting == SessionStates \ ({"none", "recv", "refuse"} \cup Registering)

\* An upload past its decryption, which found a key in the row of its client.
PastDecrypt == {"root_check", "root_make", "dir_check", "dir_make", "open", "send_cksum"}
             \cup Storing

ActsForRegistered == \A p \in Runs : spc[p] \in PastDecrypt => req[p].id \in Registered

MapKnowsRegistered ==
    /\ up => Registered \subseteq client_map
    /\ \A p \in Runs : spc[p] = "register_insert" => p \in client_map

SessionsNeedServer == \A p \in Runs : spc[p] # "none" => up

OwnInv ==
    /\ TypeInv
    /\ RowsOwned
    /\ ActsForRegistered
    /\ MapKnowsRegistered
    /\ SessionsNeedServer

\* A row is not a missing row.
LEMMA RowsAreNotNone == \A row \in ClientRow : row # None
  BY NoneAssumption

\* The request of a registering or keying session has a name.
LEMMA SomeName ==
  ASSUME TypeInv, NEW p \in Runs, spc[p] \in Registering \cup Keying
  PROVE  \A key \in Keys \cup {None} : [name |-> req[p].name, AES_key |-> key] \in ClientRow
  BY HandledRequest DEF ClientRow

\* insert_new_client registers the client of its session, or fails.
LEMMA InsertRegisters ==
  ASSUME TypeInv, NEW p \in Runs, RegisterInDatabase(p)
  PROVE  Registered \subseteq Registered' /\ Registered' \subseteq Registered \cup {p}
  <1> DEFINE row == [name |-> req[p].name, AES_key |-> None]
  <1>1. row # None
    BY SomeName, RowsAreNotNone DEF RegisterInDatabase, Registering
  <1>2. clients' \in {clients, [clients EXCEPT ![p] = row]}
    BY DEF RegisterInDatabase, insert_new_client, Committed
  <1> HIDE DEF row
  <1>3. clients \in [Ids -> ClientRow \cup {None}]
    BY DEF TypeInv, TypeOK, ServerTypeOK, DbTypeOK
  <1>4. QED BY <1>1, <1>2, <1>3 DEF Registered

\* insert_keys_of_client changes rows that are there.
LEMMA KeysKeepRows ==
  ASSUME TypeInv, NEW p \in Runs, StoreKeys(p)
  PROVE  Registered' = Registered
  <1> DEFINE row == [name |-> req[p].name, AES_key |-> p]
  <1> DEFINE named == NamedRows(clients, req[p].name)
  <1>1. row # None
    BY SomeName, RowsAreNotNone DEF StoreKeys, Keying, Keys
  <1>2. clients' \in {clients, [i \in Ids |-> IF i \in named THEN row ELSE clients[i]]}
    BY DEF StoreKeys, insert_keys_of_client, Committed
  <1>3. named \subseteq Registered
    BY DEF NamedRows, Registered
  <1> HIDE DEF row, named
  <1>4. QED BY <1>1, <1>2, <1>3 DEF Registered

\* Only two steps change the table "clients".
LEMMA ClientsChange ==
  ASSUME NEW p \in Runs, SessionStep(p)
  PROVE  clients' = clients \/ RegisterInDatabase(p) \/ StoreKeys(p)
  BY DEF SessionStep, HandlerStep, Receive, CloseSession, Respond, CheckDirectory,
         MakeDirectory, TestMap, stored,
         RegisterInMap, SendRegistrationOk, SendRegistrationErr, SendAESKey, Decrypt,
         CheckRoot, MakeRoot, CheckClientDir, MakeClientDir, OpenFile, WriteFile,
         AddToFileMap, AddToClient, CalculateCksum, CheckRow, InsertRow, ResetRow,
         SendCksum, MarkVerified, SendReceived, CheckFile, RemoveFile, DeleteRow,
         TestClientFiles, PopClientFile, TestFileMap, PopFileMap, Unreachable

\* A client that is registered stays registered.
LEMMA RegisteredGrows ==
  ASSUME TypeInv, [Next]_vars
  PROVE  Registered \subseteq Registered'
  <1>1. CASE \E p \in Runs : SessionMoves(p)
    BY <1>1, ClientsChange, InsertRegisters, KeysKeepRows DEF SessionMoves, Registered
  <1>2. CASE clients' = clients
    BY <1>2 DEF Registered
  <1>3. QED
    BY <1>1, <1>2
       DEF Next, vars, server, stored, Connect, Accept, ConnectInVain, ClientMoves, Crash,
           Restart

-----------------------------------------------------------------------------
\* What a session goes on with, it was at before.
LEMMA GoesOn ==
  ASSUME TypeInv, NEW p \in Runs, HandlerStep(p)
  PROVE  \E l \in SessionStates :
            /\ Goto(p, l)
            /\ l = "recv" \/ (l \in Acting => spc[p] \in Acting)
            /\ l \in PastDecrypt => spc[p] \in PastDecrypt \/ req[p].id \in Registered
            /\ l # "register_map"
            /\ l = "register_insert" => /\ spc[p] = "register_map"
                                        /\ client_map' = client_map \cup {p}
            /\ l = "register_ok" => RegisterInDatabase(p)
            /\ spc[p] # "none"
            /\ UNCHANGED <<up, req>>
  <1> USE DEF Acting, PastDecrypt, SessionStates, Registering, Storing, locals, Fail
  <1>1. CASE RegisterInMap(p)
    BY <1>1 DEF RegisterInMap
  <1>2. CASE RegisterInDatabase(p)
    BY <1>2 DEF RegisterInDatabase
  <1>3. CASE SendRegistrationOk(p)
    BY <1>3 DEF SendRegistrationOk, Respond
  <1>4. CASE SendRegistrationErr(p)
    BY <1>4 DEF SendRegistrationErr, Respond
  <1>5. CASE StoreKeys(p)
    BY <1>5 DEF StoreKeys
  <1>6. CASE SendAESKey(p)
    BY <1>6 DEF SendAESKey, Respond
  <1>7. CASE Decrypt(p)
    <2>1. PICK key \in get_aes_key_of_client(clients, req[p].id) :
              Goto(p, "recv") \/ (key # None /\ Goto(p, "root_check"))
      BY <1>7 DEF Decrypt
    <2>2. key # None => req[p].id \in Registered
      <3>1. req[p].id \in Ids
        BY <1>7, HandledRequest DEF Decrypt, Uploading
      <3>2. QED BY <2>1, <3>1 DEF get_aes_key_of_client, Registered
    <2>3. QED BY <1>7, <2>1, <2>2 DEF Decrypt
  <1>8. CASE CheckRoot(p)
    BY <1>8 DEF CheckRoot, CheckDirectory
  <1>9. CASE MakeRoot(p)
    BY <1>9 DEF MakeRoot, MakeDirectory
  <1>10. CASE CheckClientDir(p)
    BY <1>10 DEF CheckClientDir, CheckDirectory
  <1>11. CASE MakeClientDir(p)
    BY <1>11 DEF MakeClientDir, MakeDirectory
  <1>12. CASE OpenFile(p)
    BY <1>12 DEF OpenFile
  <1>13. CASE WriteFile(p)
    BY <1>13 DEF WriteFile
  <1>14. CASE AddToFileMap(p)
    BY <1>14 DEF AddToFileMap
  <1>15. CASE AddToClient(p)
    BY <1>15 DEF AddToClient
  <1>16. CASE CalculateCksum(p)
    BY <1>16 DEF CalculateCksum
  <1>17. CASE CheckRow(p)
    BY <1>17 DEF CheckRow
  <1>18. CASE InsertRow(p)
    BY <1>18 DEF InsertRow
  <1>19. CASE ResetRow(p)
    BY <1>19 DEF ResetRow
  <1>20. CASE SendCksum(p)
    BY <1>20 DEF SendCksum, Respond
  <1>21. CASE MarkVerified(p)
    BY <1>21 DEF MarkVerified
  <1>22. CASE SendReceived(p)
    BY <1>22 DEF SendReceived, Respond
  <1>23. CASE CheckFile(p)
    BY <1>23 DEF CheckFile
  <1>24. CASE RemoveFile(p)
    BY <1>24 DEF RemoveFile
  <1>25. CASE DeleteRow(p)
    BY <1>25 DEF DeleteRow
  <1>26. CASE TestClientFiles(p)
    BY <1>26 DEF TestClientFiles, TestMap
  <1>27. CASE PopClientFile(p)
    BY <1>27 DEF PopClientFile, PopResult
  <1>28. CASE TestFileMap(p)
    BY <1>28 DEF TestFileMap, TestMap
  <1>29. CASE PopFileMap(p)
    BY <1>29 DEF PopFileMap, PopResult
  <1>30. CASE Unreachable(p)
    BY <1>30 DEF Unreachable, AtDatabase
  <1>31. QED
    BY <1>1, <1>2, <1>3, <1>4, <1>5, <1>6, <1>7, <1>8, <1>9, <1>10, <1>11, <1>12,
       <1>13, <1>14, <1>15, <1>16, <1>17, <1>18, <1>19, <1>20, <1>21, <1>22, <1>23,
       <1>24, <1>25, <1>26, <1>27, <1>28, <1>29, <1>30
       DEF HandlerStep

\* A request takes its session to the first step of a handler, or to a refusal.
LEMMA ReceivedStarts ==
  ASSUME TypeInv, NEW p \in Runs, Receive(p)
  PROVE  \E l : /\ Goto(p, l)
                /\ l \notin {"register_insert", "register_ok"} \cup PastDecrypt
  <1> DEFINE m == Head(c2s[p])
  <1>1. m \in Request
    BY DEF Receive, TypeInv, TypeOK, NetTypeOK
  <1>2. Handler(m.code) \in {"register_map", "keys", "decrypt", "verify", "recv", "file_check"}
    BY <1>1, RequestFacts
       DEF Handler, CLIENT_CODE_REGISTER, CLIENT_CODE_SEND_PUBLIC_KEY, CLIENT_CODE_SEND_FILE,
           CLIENT_CODE_CKSUM_OK, CLIENT_CODE_CKSUM_ERR, CLIENT_CODE_CKSUM_ERR_FINAL
  <1>3. Goto(p, "refuse") \/ Goto(p, Handler(m.code))
    BY DEF Receive
  <1>4. QED BY <1>2, <1>3 DEF PastDecrypt, Storing

\* No session removes a client from the client map.
LEMMA SessionKeepsMap ==
  ASSUME NEW p \in Runs, SessionStep(p)
  PROVE  client_map \subseteq client_map'
  BY DEF SessionStep, HandlerStep, Receive, CloseSession, Respond, CheckDirectory,
         MakeDirectory, TestMap, maps, RegisterInMap, RegisterInDatabase,
         SendRegistrationOk, SendRegistrationErr, StoreKeys, SendAESKey, Decrypt,
         CheckRoot, MakeRoot, CheckClientDir, MakeClientDir, OpenFile, WriteFile,
         AddToFileMap, AddToClient, CalculateCksum, CheckRow, InsertRow, ResetRow,
         SendCksum, MarkVerified, SendReceived, CheckFile, RemoveFile, DeleteRow,
         TestClientFiles, PopClientFile, TestFileMap, PopFileMap, Unreachable

\* A session acts for registered clients, all of which are in the map.
LEMMA SessionKeepsActing ==
  ASSUME OwnInv, NEW p \in Runs, SessionStep(p)
  PROVE  ActsForRegistered' /\ MapKnowsRegistered' /\ SessionsNeedServer'
  <1>0. /\ TypeInv /\ ActsForRegistered /\ MapKnowsRegistered /\ SessionsNeedServer
        /\ spc \in [Runs -> SessionStates] /\ req \in [Runs -> Request \cup {NoRequest}]
    BY DEF OwnInv, TypeInv, TypeOK, ServerTypeOK
  <1>1. Registered \subseteq Registered'
    BY <1>0, ClientsChange, InsertRegisters, KeysKeepRows DEF Registered
  <1>2. /\ client_map \subseteq client_map'
        /\ up /\ Registered' \subseteq client_map'
    <2>1. client_map \subseteq client_map'
      BY SessionKeepsMap
    <2>2. up
      <3>1. spc[p] # "none"
        BY <1>0, GoesOn DEF SessionStep, Receive, CloseSession
      <3>2. QED BY <1>0, <3>1 DEF SessionsNeedServer
    <2>3. Registered \subseteq client_map
      BY <1>0, <2>2 DEF MapKnowsRegistered
    <2>4. CASE RegisterInDatabase(p)
      <3>1. p \in client_map
        BY <1>0, <2>4 DEF RegisterInDatabase, MapKnowsRegistered
      <3>2. QED BY <1>0, <2>1, <2>2, <2>3, <2>4, <3>1, InsertRegisters
    <2>5. CASE Registered' = Registered
      BY <2>1, <2>2, <2>3, <2>5
    <2>6. QED BY <1>0, <2>4, <2>5, ClientsChange, KeysKeepRows DEF Registered
  <1>3. CASE Receive(p)
    <2>1. PICK l : /\ Goto(p, l)
                   /\ l \notin {"register_insert", "register_ok"} \cup PastDecrypt
      BY <1>0, <1>3, ReceivedStarts
    <2>2. ActsForRegistered'
      BY <1>0, <1>1, <1>3, <2>1 DEF ActsForRegistered, Receive, Goto
    <2>3. SessionsNeedServer'
      BY <1>2, <1>3 DEF SessionsNeedServer, Receive
    <2>4. MapKnowsRegistered'
      BY <1>0, <1>2, <2>1 DEF MapKnowsRegistered, Goto
    <2>5. QED BY <2>2, <2>3, <2>4
  <1>4. CASE CloseSession(p)
    BY <1>0, <1>1, <1>2, <1>4
       DEF CloseSession, Goto, ActsForRegistered, MapKnowsRegistered, SessionsNeedServer, PastDecrypt,
           Storing
  <1>5. CASE HandlerStep(p)
    <2>1. PICK l \in SessionStates :
              /\ Goto(p, l)
              /\ l \in PastDecrypt => spc[p] \in PastDecrypt \/ req[p].id \in Registered
              /\ l = "register_insert" => client_map' = client_map \cup {p}
              /\ UNCHANGED <<up, req>>
      BY <1>0, <1>5, GoesOn
    <2>2. ActsForRegistered'
      BY <1>0, <1>1, <2>1 DEF ActsForRegistered, Goto
    <2>3. MapKnowsRegistered'
      BY <1>0, <1>2, <2>1 DEF MapKnowsRegistered, Goto
    <2>4. SessionsNeedServer'
      BY <1>2, <2>1 DEF SessionsNeedServer
    <2>5. QED BY <2>2, <2>3, <2>4
  <1>6. QED BY <1>3, <1>4, <1>5 DEF SessionStep

-----------------------------------------------------------------------------
\* A step changes only the row of the path of its session, which has an owner.
LEMMA SessionKeepsRowsOwned ==
  ASSUME OwnInv, NEW p \in Runs, SessionStep(p)
  PROVE  RowsOwned'
  <1>0. /\ TypeInv /\ RowsOwned /\ ActsForRegistered
        /\ files \in [Paths -> {"unverified", "verified", None}]
    BY DEF OwnInv, TypeInv, TypeOK, ServerTypeOK, DbTypeOK
  <1>1. Registered \subseteq Registered'
    BY <1>0, ClientsChange, InsertRegisters, KeysKeepRows DEF Registered
  <1>2. CASE InsertRow(p)
    <2>1. PICK row : files' \in {files, [files EXCEPT ![Path(p)] = row]}
      BY <1>2 DEF InsertRow, insert_file_details, Committed
    <2>2. req[p].id \in Registered
      BY <1>0, <1>2 DEF InsertRow, ActsForRegistered, PastDecrypt, Storing
    <2>3. Path(p)[1] = req[p].id
      BY DEF Path
    <2>4. \A f \in Paths : files'[f] # None => files[f] # None \/ f = Path(p)
      BY <1>0, <2>1
    <2>5. QED BY <1>0, <1>1, <2>2, <2>3, <2>4 DEF RowsOwned
  <1>3. CASE ResetRow(p) \/ MarkVerified(p) \/ DeleteRow(p)
    <2>1. \A f \in Paths : files'[f] # None => files[f] # None
      BY <1>0, <1>3
         DEF ResetRow, MarkVerified, DeleteRow, update_cksum_verification,
             delete_file_of_client, Committed
    <2>2. QED BY <1>0, <1>1, <2>1 DEF RowsOwned
  <1>4. CASE files' = files
    BY <1>0, <1>1, <1>4 DEF RowsOwned
  <1>5. QED
    BY <1>2, <1>3, <1>4
       DEF SessionStep, HandlerStep, Receive, CloseSession, Respond, CheckDirectory,
           MakeDirectory, TestMap, stored, RegisterInMap, RegisterInDatabase,
           SendRegistrationOk, SendRegistrationErr, StoreKeys, SendAESKey, Decrypt,
           CheckRoot, MakeRoot, CheckClientDir, MakeClientDir, OpenFile, WriteFile,
           AddToFileMap, AddToClient, CalculateCksum, CheckRow, SendCksum, SendReceived,
           CheckFile, RemoveFile, TestClientFiles, PopClientFile, TestFileMap, PopFileMap,
           Unreachable

\* OwnInv is inductive.
LEMMA NextOwns ==
  ASSUME OwnInv, [Next]_vars
  PROVE  OwnInv'
  <1>0. TypeInv /\ TypeInv'
    BY NextTypes DEF OwnInv
  <1> USE DEF RowsOwned, ActsForRegistered, MapKnowsRegistered, SessionsNeedServer
  <1>1. ASSUME NEW p \in Runs, SessionMoves(p)
        PROVE  OwnInv'
    BY <1>0, <1>1, SessionKeepsActing, SessionKeepsRowsOwned DEF SessionMoves, OwnInv
  <1>2. ASSUME UNCHANGED server
        PROVE  OwnInv'
    BY <1>0, <1>2 DEF OwnInv, server, stored, maps, locals, Registered
  <1>3. ASSUME NEW p \in Runs, Connect(p)
        PROVE  OwnInv'
    <2>1. /\ spc' = [spc EXCEPT ![p] = "recv"]
          /\ up
          /\ UNCHANGED <<up, clients, files, client_map, req>>
      BY <1>3 DEF Connect, Accept, Goto, stored, maps, locals
    <2>2. spc \in [Runs -> SessionStates]
      BY <1>0 DEF TypeInv, TypeOK, ServerTypeOK
    <2>3. QED BY <1>0, <2>1, <2>2 DEF OwnInv, Registered, PastDecrypt, Storing
  <1>4. CASE Crash
    BY <1>0, <1>4 DEF Crash, stored, OwnInv, Registered, PastDecrypt, Storing
  <1>5. CASE Restart
    BY <1>0, <1>5 DEF Restart, stored, locals, OwnInv, Registered
  <1>6. QED
    BY <1>1, <1>2, <1>3, <1>4, <1>5 DEF Next, ConnectInVain, ClientMoves, vars

\* OwnInv holds at first.
LEMMA InitOwns == Init => OwnInv
  BY InitTypes
     DEF Init, ServerInit, OwnInv, RowsOwned, ActsForRegistered, MapKnowsRegistered,
         SessionsNeedServer, Registered, PastDecrypt, Storing

\* A row of "files" never lacks its client, whatever the sessions do together,
\* however often the server restarts and whichever transactions fail.
THEOREM RowsAlwaysOwned == Spec => []RowsOwned
  <1>1. OwnInv /\ [Next]_vars => OwnInv'
    BY NextOwns
  <1>2. OwnInv => RowsOwned
    BY DEF OwnInv
  <1>3. QED BY <1>1, <1>2, InitOwns, PTL DEF Spec

\* The unchecked lookup of process_file_content never raises KeyError.
THEOREM UploadsFindClient == Spec => []UploadFindsClient
  <1>1. OwnInv /\ [Next]_vars => OwnInv'
    BY NextOwns
  <1>2. OwnInv => UploadFindsClient
    BY DEF OwnInv, UploadFindsClient, ActsForRegistered, MapKnowsRegistered, SessionsNeedServer,
           PastDecrypt, Storing
  <1>3. QED BY <1>1, <1>2, InitOwns, PTL DEF Spec

-----------------------------------------------------------------------------
(* Ids may be in a response, in the memory of a run, in lines still to     *)
(* write or in a me.info.                                                  *)

\* The ids in lines of me.info, and in responses 2100, are in R.
IdsIn(info, R) == \A k \in 1..Len(info) : info[k].kind = "id" => info[k].of \in R
OffersIn(sent, R) == \A k \in 1..Len(sent) : sent[k].code = 2100 => sent[k].id \in R

\* The ids of the clients registered by runs in one directory.
RegisteredAt == [h \in Hosts |-> {i \in Registered : HostOf[i] = h}]

OkMeansRegistered == \A p \in Runs : spc[p] = "register_ok" => p \in Registered
OffersRegistered == \A p \in Runs : OffersIn(s2c[p], RegisteredAt[HostOf[p]])
MemoryRegistered ==
    \A p \in Runs : /\ cid[p] # None => cid[p] \in RegisteredAt[HostOf[p]]
                    /\ IdsIn(lines[p], RegisteredAt[HostOf[p]])
InfoRegistered == \A h \in Hosts : meInfo[h] # None => IdsIn(meInfo[h], RegisteredAt[h])

ClientIdInv == OffersRegistered /\ MemoryRegistered /\ InfoRegistered

IdInv == OwnInv /\ OkMeansRegistered /\ ClientIdInv

\* More ids may be registered.
LEMMA IdsGrow ==
  ASSUME NEW R, NEW S, R \subseteq S
  PROVE  /\ \A info : IdsIn(info, R) => IdsIn(info, S)
         /\ \A sent : OffersIn(sent, R) => OffersIn(sent, S)
  BY DEF IdsIn, OffersIn

\* A line of me.info is appended.
LEMMA AppendIds ==
  ASSUME NEW info \in Seq(Line), NEW line \in Line, NEW R,
         IdsIn(info, R), line.kind = "id" => line.of \in R
  PROVE  /\ IdsIn(Append(info, line), R)
         /\ IdsIn(<<line>>, R)
  BY DEF IdsIn

\* The private key is put on line 3.
LEMMA WithKeyIds ==
  ASSUME NEW info \in Seq(Line), NEW p \in Runs, NEW R, IdsIn(info, R)
  PROVE  IdsIn(WithKey(info, p), R)
  <1>1. KeyLine(p) \in Line /\ KeyLine(p).kind = "key"
    BY DEF KeyLine, Line
  <1>2. CASE Len(info) < 3
    BY <1>1, <1>2, AppendIds DEF WithKey
  <1>3. CASE ~(Len(info) < 3)
    BY <1>1, <1>3 DEF WithKey, IdsIn
  <1>4. QED BY <1>2, <1>3

\* Lines are written over the start of a file.
LEMMA OverwriteIds ==
  ASSUME NEW a \in Seq(Line), NEW b \in Seq(Line), NEW R, IdsIn(a, R), IdsIn(b, R)
  PROVE  IdsIn(a \o SubSeq(b, Len(a) + 1, Len(b)), R)
  <1> DEFINE c == SubSeq(b, Len(a) + 1, Len(b))
  <1>1. c \in Seq(Line) /\ IdsIn(c, R)
    BY DEF IdsIn
  <1> HIDE DEF c
  <1>2. IdsIn(a \o c, R)
    BY <1>1 DEF IdsIn
  <1>3. QED BY <1>2 DEF c

\* A response is received.
LEMMA ReceivedOffers ==
  ASSUME NEW s \in Seq(Response), NEW R, OffersIn(s, R), s # <<>>
  PROVE  /\ OffersIn(Tail(s), R)
         /\ Head(s).code = 2100 => Head(s).id \in R
  BY DEF OffersIn

\* A response is sent.
LEMMA SentOffers ==
  ASSUME NEW s \in Seq(Response), NEW m, NEW R, OffersIn(s, R), m.code = 2100 => m.id \in R
  PROVE  OffersIn(Append(s, m), R)
  BY DEF OffersIn

-----------------------------------------------------------------------------
(* The sessions *)

\* Only a session that has registered its client sends a 2100.
LEMMA SessionSends ==
  ASSUME NEW p \in Runs, SessionStep(p)
  PROVE  \/ s2c' = s2c
         \/ \E m : /\ Answer(p, m)
                   /\ m.code = 2100 => m.id = p /\ spc[p] = "register_ok"
  <1>1. CASE SendRegistrationOk(p)
    BY <1>1 DEF SendRegistrationOk, Respond, Status, ResponseOf
  <1>2. CASE SendRegistrationErr(p) \/ SendAESKey(p) \/ SendCksum(p) \/ SendReceived(p)
    BY <1>2
       DEF SendRegistrationErr, SendAESKey, SendCksum, SendReceived, Respond, Status,
           KeyResponse, CksumResponse, ResponseOf, SERVER_CODE_REGISTRATION_ERR,
           SERVER_CODE_SWITCHING_KEYS, SERVER_CODE_CKSUM_READY,
           SERVER_CODE_MESSAGE_RECEIVED
  <1>3. QED
    BY <1>1, <1>2
       DEF SessionStep, HandlerStep, Receive, CloseSession, CheckDirectory, MakeDirectory,
           TestMap, net, RegisterInMap, RegisterInDatabase, StoreKeys, Decrypt,
           CheckRoot, MakeRoot, CheckClientDir, MakeClientDir, OpenFile, WriteFile,
           AddToFileMap, AddToClient, CalculateCksum, CheckRow, InsertRow, ResetRow,
           MarkVerified, CheckFile, RemoveFile, DeleteRow, TestClientFiles,
           PopClientFile, TestFileMap, PopFileMap, Unreachable

\* A transaction that does not fail registers the client.
LEMMA InsertSucceeds ==
  ASSUME ~DbFaults, TypeInv, NEW p \in Runs, RegisterInDatabase(p)
  PROVE  p \in Registered'
  <1> DEFINE row == [name |-> req[p].name, AES_key |-> None]
  <1>1. row # None
    BY SomeName, RowsAreNotNone DEF RegisterInDatabase, Registering
  <1>2. clients' = [clients EXCEPT ![p] = row]
    BY DEF RegisterInDatabase, insert_new_client, Committed
  <1> HIDE DEF row
  <1>3. clients \in [Ids -> ClientRow \cup {None}]
    BY DEF TypeInv, TypeOK, ServerTypeOK, DbTypeOK
  <1>4. QED BY <1>1, <1>2, <1>3 DEF Registered, RegisteredAt, Ids

\* A session that answers a registration with 2100 has inserted the row.
LEMMA SessionKeepsOk ==
  ASSUME ~DbFaults, IdInv, NEW p \in Runs, SessionStep(p), Registered \subseteq Registered'
  PROVE  OkMeansRegistered'
  <1>0. TypeInv /\ OkMeansRegistered /\ spc \in [Runs -> SessionStates]
    BY DEF IdInv, OwnInv, TypeInv, TypeOK, ServerTypeOK
  <1>1. PICK l : Goto(p, l) /\ (l = "register_ok" => RegisterInDatabase(p))
    <2>1. CASE Receive(p)
      BY <1>0, <2>1, ReceivedStarts
    <2>2. CASE CloseSession(p)
      BY <2>2 DEF CloseSession
    <2>3. CASE HandlerStep(p)
      BY <1>0, <2>3, GoesOn
    <2>4. QED BY <2>1, <2>2, <2>3 DEF SessionStep
  <1>2. l = "register_ok" => p \in Registered'
    BY <1>0, <1>1, InsertSucceeds
  <1>3. QED BY <1>0, <1>1, <1>2 DEF OkMeansRegistered, Goto

\* The ids that clients have, and are sent, stay registered.
LEMMA SessionKeepsClientIds ==
  ASSUME IdInv, NEW p \in Runs, SessionMoves(p), Registered \subseteq Registered'
  PROVE  ClientIdInv'
  <1>0. /\ OkMeansRegistered /\ OffersRegistered /\ MemoryRegistered /\ InfoRegistered
        /\ s2c \in [Runs -> Seq(Response)]
        /\ HostOf \in [Runs -> Hosts]
    BY ConstantsAssumption DEF IdInv, ClientIdInv, OwnInv, TypeInv, TypeOK, NetTypeOK
  <1>1. \A h \in Hosts : RegisteredAt[h] \subseteq RegisteredAt'[h]
    BY DEF RegisteredAt
  <1>2. UNCHANGED <<cid, lines, meInfo>>
    BY DEF SessionMoves, client, memory
  <1>3. MemoryRegistered' /\ InfoRegistered'
    BY <1>0, <1>2, <1>1, IdsGrow DEF MemoryRegistered, InfoRegistered
  <1>4. \A q \in Runs : OffersIn(s2c[q], RegisteredAt'[HostOf[q]])
    BY <1>0, <1>1, IdsGrow DEF OffersRegistered
  <1>5. CASE s2c' = s2c
    BY <1>3, <1>4, <1>5 DEF OffersRegistered, ClientIdInv
  <1>6. ASSUME NEW m, Answer(p, m), m.code = 2100 => m.id = p /\ spc[p] = "register_ok"
        PROVE  ClientIdInv'
    <2>1. m.code = 2100 => m.id \in RegisteredAt'[HostOf[p]]
      BY <1>0, <1>6 DEF OkMeansRegistered, RegisteredAt, Registered, Ids
    <2>2. OffersIn(Append(s2c[p], m), RegisteredAt'[HostOf[p]])
      BY <1>0, <1>4, <2>1, SentOffers
    <2>3. OffersRegistered'
      BY <1>0, <1>4, <1>6, <2>2 DEF OffersRegistered, Answer
    <2>4. QED BY <1>3, <2>3 DEF ClientIdInv
  <1>7. QED BY <1>5, <1>6, SessionSends DEF SessionMoves

-----------------------------------------------------------------------------
(* The clients *)

\* The id that a client finds in its me.info is that of one of its lines.
LEMMA SavedIdIn ==
  ASSUME TypeInv, NEW h \in Hosts, NEW R, meInfo[h] # None => IdsIn(meInfo[h], R),
         SavedId(meInfo[h]) # None
  PROVE  SavedId(meInfo[h]) \in R
  <1>1. meInfo[h] \in Seq(Line) \cup {None}
    BY DEF TypeInv, TypeOK, ClientTypeOK
  <1>2. QED BY <1>1 DEF SavedId, IdsIn

\* The end of a run forgets its id and its lines.
LEMMA EndKeepsIds ==
  ASSUME TypeInv, ClientIdInv, NEW p \in Runs, NEW how, End(p, how), UNCHANGED clients,
         OffersRegistered'
  PROVE  ClientIdInv'
  <1>0. cid \in [Runs -> Ids \cup {None}] /\ lines \in [Runs -> Seq(Line)]
    BY DEF TypeInv, TypeOK, ClientTypeOK
  <1>1. \A R : IdsIn(<<>>, R)
    BY DEF IdsIn
  <1>2. /\ cid' = [cid EXCEPT ![p] = None] /\ lines' = [lines EXCEPT ![p] = <<>>]
        /\ UNCHANGED meInfo
    BY DEF End
  <1>3. UNCHANGED RegisteredAt
    BY DEF RegisteredAt, Registered
  <1>4. MemoryRegistered'
    <2> SUFFICES ASSUME NEW q \in Runs
                 PROVE  /\ cid'[q] # None => cid'[q] \in RegisteredAt[HostOf[q]]
                        /\ IdsIn(lines'[q], RegisteredAt[HostOf[q]])
      BY <1>3 DEF MemoryRegistered
    <2>1. CASE q = p
      BY <1>0, <1>1, <1>2, <2>1
    <2>2. CASE q # p
      BY <1>0, <1>2, <2>2 DEF ClientIdInv, MemoryRegistered
    <2>3. QED BY <2>1, <2>2
  <1>5. InfoRegistered'
    BY <1>2, <1>3 DEF ClientIdInv, InfoRegistered
  <1>6. QED BY <1>4, <1>5 DEF ClientIdInv

\* Reading a response leaves fewer to read.
LEMMA AwaitKeepsOffers ==
  ASSUME TypeInv, OffersRegistered, NEW p \in Runs, NEW l, Await(p, l), UNCHANGED clients
  PROVE  OffersRegistered'
  <1>1. s2c \in [Runs -> Seq(Response)]
    BY DEF TypeInv, TypeOK, NetTypeOK
  <1>2. s2c[p] # <<>> => OffersIn(Tail(s2c[p]), RegisteredAt[HostOf[p]])
    BY <1>1, ReceivedOffers DEF OffersRegistered
  <1>3. QED BY <1>1, <1>2 DEF OffersRegistered, Await, Registered, RegisteredAt

\* One line of the run's me.info is appended.
LEMMA AppendKeepsIds ==
  ASSUME TypeInv, ClientIdInv, NEW p \in Runs, NEW l, NEW line \in Line, NEW next,
         AppendLine(p, l, line, next),
         line.kind = "id" => line.of \in RegisteredAt[HostOf[p]],
         UNCHANGED clients
  PROVE  ClientIdInv'
  <1>0. /\ HostOf[p] \in Hosts /\ meInfo \in [Hosts -> Seq(Line) \cup {None}]
        /\ UNCHANGED <<s2c, cid, lines>>
    BY ConstantsAssumption DEF TypeInv, TypeOK, ClientTypeOK, AppendLine, memory, net
  <1>1. MyInfo(p) # None => IdsIn(Append(MyInfo(p), line), RegisteredAt[HostOf[p]])
    BY <1>0, AppendIds DEF ClientIdInv, InfoRegistered, MyInfo
  <1>2. IdsIn(<<line>>, RegisteredAt[HostOf[p]])
    BY DEF IdsIn
  <1>3. InfoRegistered'
    BY <1>0, <1>1, <1>2
       DEF ClientIdInv, InfoRegistered, AppendLine, MyInfo, Registered, RegisteredAt
  <1>4. QED
    BY <1>0, <1>3
       DEF ClientIdInv, OffersRegistered, MemoryRegistered, Registered, RegisteredAt

\* The ids that a client remembers and saves are registered.
LEMMA ClientKeepsIds ==
  ASSUME IdInv, NEW p \in Runs, ClientStep(p), UNCHANGED clients
  PROVE  ClientIdInv'
  <1>0. /\ TypeInv /\ ClientIdInv /\ OffersRegistered /\ MemoryRegistered /\ InfoRegistered
        /\ s2c \in [Runs -> Seq(Response)]
        /\ cid \in [Runs -> Ids \cup {None}]
        /\ lines \in [Runs -> Seq(Line)]
        /\ meInfo \in [Hosts -> Seq(Line) \cup {None}]
        /\ HostOf[p] \in Hosts
    BY ConstantsAssumption
       DEF IdInv, ClientIdInv, OwnInv, TypeInv, TypeOK, NetTypeOK, ClientTypeOK
  <1>1. RegisteredAt' = RegisteredAt
    BY DEF Registered, RegisteredAt
  <1>2. CASE ReceiveRegistration(p)
    <2>1. cid' = cid \/ (/\ cid' = [cid EXCEPT ![p] = ResponseTo(p).id]
                         /\ ResponseTo(p).code = 2100)
      BY <1>2 DEF ReceiveRegistration, SERVER_CODE_REGISTRATION_OK
    <2>2. ResponseTo(p).code = 2100 => ResponseTo(p).id \in RegisteredAt[HostOf[p]]
      <3>1. NoResponse.code = 0
        BY DEF NoResponse, Status, ResponseOf
      <3>2. s2c[p] = <<>> => ResponseTo(p) = NoResponse
        BY DEF ResponseTo
      <3>3. s2c[p] # <<>> => ResponseTo(p) = Head(s2c[p])
        BY DEF ResponseTo
      <3>4. s2c[p] \in Seq(Response) /\ OffersIn(s2c[p], RegisteredAt[HostOf[p]])
        BY <1>0 DEF OffersRegistered
      <3>5. QED BY <3>1, <3>2, <3>3, <3>4, ReceivedOffers
    <2>3. OffersRegistered'
      BY <1>0, <1>2, AwaitKeepsOffers DEF ReceiveRegistration
    <2>4. MemoryRegistered'
      BY <1>0, <1>1, <1>2, <2>1, <2>2 DEF MemoryRegistered, ReceiveRegistration
    <2>5. QED
      BY <1>0, <1>1, <1>2, <2>3, <2>4 DEF ClientIdInv, InfoRegistered, ReceiveRegistration
  <1>3. CASE SaveName(p)
    BY <1>0, <1>3, AppendKeepsIds DEF SaveName, NameLine, Line
  <1>4. CASE SaveId(p)
    <2>1. cid[p] \in Ids /\ cid[p] # None
      BY <1>0, <1>4, NoneAssumption
         DEF SaveId, AppendLine, TypeInv, ClientFits, Knows, Saving, Ids
    <2>2. IdLine(cid[p]) \in Line /\ IdLine(cid[p]).of \in RegisteredAt[HostOf[p]]
      BY <1>0, <2>1 DEF IdLine, Line, Ids, MemoryRegistered
    <2>3. QED BY <1>0, <1>4, <2>2, AppendKeepsIds DEF SaveId
  <1>5. CASE GenerateRSAKeyPair(p)
    <2>1. MyInfo(p) # None => IdsIn(WithKey(MyInfo(p), p), RegisteredAt[HostOf[p]])
      BY <1>0, WithKeyIds DEF MyInfo, InfoRegistered
    <2>2. MemoryRegistered'
      BY <1>0, <1>1, <1>5, <2>1 DEF GenerateRSAKeyPair, MemoryRegistered
    <2>3. QED
      BY <1>0, <1>1, <1>5, <2>2
         DEF GenerateRSAKeyPair, ClientIdInv, OffersRegistered, InfoRegistered, net
  <1>6. CASE TruncateMeInfo(p)
    <2>1. \A R : IdsIn(<<>>, R)
      BY DEF IdsIn
    <2>2. InfoRegistered'
      BY <1>0, <1>1, <1>6, <2>1 DEF TruncateMeInfo, InfoRegistered
    <2>3. QED
      BY <1>0, <1>1, <1>6, <2>2
         DEF TruncateMeInfo, ClientIdInv, OffersRegistered, MemoryRegistered, memory, net
  <1>7. CASE WriteMeInfo(p)
    <2>1. MyInfo(p) \in Seq(Line)
      BY <1>0, <1>7 DEF WriteMeInfo, TypeInv, ClientFits, Knows
    <2>2. MyInfo(p) # None
      BY <2>1, NoInfoAssumption
    <2>3. IdsIn(lines[p] \o SubSeq(MyInfo(p), Len(lines[p]) + 1, Len(MyInfo(p))),
                RegisteredAt[HostOf[p]])
      BY <1>0, <2>1, <2>2, OverwriteIds DEF InfoRegistered, MemoryRegistered, MyInfo
    <2>4. InfoRegistered'
      BY <1>0, <1>1, <1>7, <2>3 DEF WriteMeInfo, InfoRegistered, MyInfo
    <2>5. \A R : IdsIn(<<>>, R)
      BY DEF IdsIn
    <2>6. MemoryRegistered'
      BY <1>0, <1>1, <1>7, <2>5 DEF WriteMeInfo, MemoryRegistered
    <2>7. QED
      BY <1>0, <1>1, <1>7, <2>4, <2>6 DEF WriteMeInfo, ClientIdInv, OffersRegistered, net
  <1>8. CASE SendPublicKey(p) \/ SendFile(p)
    BY <1>0, <1>1, <1>8
       DEF SendPublicKey, SendFile, ClientIdInv, OffersRegistered, MemoryRegistered,
           InfoRegistered, memory
  <1>9. CASE ReceiveKey(p)
    <2>1. OffersRegistered'
      BY <1>0, <1>9, AwaitKeepsOffers DEF ReceiveKey
    <2>2. QED
      BY <1>0, <1>1, <1>9, <2>1
         DEF ReceiveKey, ClientIdInv, MemoryRegistered, InfoRegistered
  <1>10. CASE CksumSucceeded(p) \/ CksumFailed(p) \/ CksumFailedFinally(p)
    <2>1. OffersRegistered'
      BY <1>0, <1>10, AwaitKeepsOffers
         DEF CksumSucceeded, CksumFailed, CksumFailedFinally, ReceiveCksum
    <2>2. QED
      BY <1>0, <1>1, <1>10, <2>1
         DEF CksumSucceeded, CksumFailed, CksumFailedFinally, ClientIdInv,
             MemoryRegistered, InfoRegistered, memory
  <1>11. CASE NotRegistered(p) \/ NothingToSend(p)
    <2>1. OffersRegistered'
      BY <1>0, <1>1, <1>11 DEF NotRegistered, NothingToSend, OffersRegistered
    <2>2. QED BY <1>0, <1>11, <2>1, EndKeepsIds DEF NotRegistered, NothingToSend
  <1>12. CASE NoCksum(p)
    BY <1>0, <1>12, AwaitKeepsOffers, EndKeepsIds DEF NoCksum
  <1>13. CASE ReceiveAck(p) \/ ReceiveFinalAck(p)
    BY <1>0, <1>13, AwaitKeepsOffers, EndKeepsIds
       DEF ReceiveAck, ReceiveFinalAck, ReceiveConfirmation
  <1>14. QED
    BY <1>2, <1>3, <1>4, <1>5, <1>6, <1>7, <1>8, <1>9, <1>10, <1>11, <1>12, <1>13
       DEF ClientStep

-----------------------------------------------------------------------------
\* IdInv is inductive when no transaction fails.
LEMMA NextKeepsIds ==
  ASSUME ~DbFaults, IdInv, [Next]_vars
  PROVE  IdInv'
  <1>0. /\ OwnInv /\ TypeInv /\ OkMeansRegistered /\ ClientIdInv
        /\ OwnInv' /\ Registered \subseteq Registered'
    BY NextOwns, RegisteredGrows DEF IdInv, OwnInv
  <1>1. ASSUME NEW p \in Runs, SessionMoves(p)
        PROVE  IdInv'
    BY <1>0, <1>1, SessionKeepsOk, SessionKeepsClientIds DEF SessionMoves, IdInv
  <1>2. ASSUME NEW p \in Runs, ClientMoves(p)
        PROVE  IdInv'
    <2>1. UNCHANGED <<clients, spc>>
      BY <1>2 DEF ClientMoves, server, stored
    <2>2. ClientIdInv'
      BY <1>2, <2>1, ClientKeepsIds DEF ClientMoves
    <2>3. QED BY <1>0, <2>1, <2>2 DEF IdInv, OkMeansRegistered, Registered, RegisteredAt
  <1>3. ASSUME NEW p \in Runs, Connect(p)
        PROVE  IdInv'
    <2>1. /\ spc' = [spc EXCEPT ![p] = "recv"]
          /\ cid' = [cid EXCEPT ![p] = SavedId(MyInfo(p))]
          /\ UNCHANGED <<clients, s2c, lines, meInfo>>
      BY <1>3 DEF Connect, Start, Accept, Goto, stored
    <2>2. SavedId(MyInfo(p)) # None => SavedId(MyInfo(p)) \in RegisteredAt[HostOf[p]]
      BY <1>0, SavedIdIn, ConstantsAssumption DEF ClientIdInv, InfoRegistered, MyInfo
    <2>3. spc \in [Runs -> SessionStates] /\ cid \in [Runs -> Ids \cup {None}]
      BY <1>0 DEF TypeInv, TypeOK, ServerTypeOK, ClientTypeOK
    <2>4. OkMeansRegistered' /\ Registered' = Registered /\ RegisteredAt' = RegisteredAt
      BY <1>0, <2>1, <2>3 DEF OkMeansRegistered, Registered, RegisteredAt
    <2>5. OffersRegistered' /\ InfoRegistered'
      BY <1>0, <2>1, <2>4 DEF ClientIdInv, OffersRegistered, InfoRegistered
    <2>6. MemoryRegistered'
      BY <1>0, <2>1, <2>2, <2>3, <2>4 DEF ClientIdInv, MemoryRegistered
    <2>7. QED BY <1>0, <2>4, <2>5, <2>6 DEF IdInv, ClientIdInv
  <1>4. ASSUME NEW p \in Runs, ConnectInVain(p)
        PROVE  IdInv'
    BY <1>0, <1>4, SMTT(30)
       DEF ConnectInVain, StartAlone, server, stored, memory, net, IdInv, OkMeansRegistered,
           ClientIdInv, OffersRegistered, MemoryRegistered, InfoRegistered, Registered,
           RegisteredAt
  <1>5. ASSUME NEW p \in Runs, Kill(p), UNCHANGED server
        PROVE  IdInv'
    <2>1. UNCHANGED <<clients, spc>>
      BY <1>5 DEF server, stored
    <2>2. s2c \in [Runs -> Seq(Response)] /\ \A R : OffersIn(<<>>, R)
      BY <1>0 DEF TypeInv, TypeOK, NetTypeOK, OffersIn
    <2>3. OffersRegistered'
      BY <1>0, <1>5, <2>1, <2>2
         DEF Kill, ClientIdInv, OffersRegistered, Registered, RegisteredAt
    <2>4. ClientIdInv'
      BY <1>0, <1>5, <2>1, <2>3, EndKeepsIds DEF Kill
    <2>5. QED BY <1>0, <2>1, <2>4 DEF IdInv, OkMeansRegistered, Registered, RegisteredAt
  <1>6. ASSUME Crash, UNCHANGED client
        PROVE  IdInv'
    <2>1. UNCHANGED <<clients, cid, lines, meInfo>>
      BY <1>6 DEF Crash, stored, client, memory
    <2>2. \A R : OffersIn(<<>>, R)
      BY DEF OffersIn
    <2>3. OffersRegistered'
      BY <1>0, <1>6, <2>1, <2>2
         DEF Crash, ClientIdInv, OffersRegistered, Registered, RegisteredAt
    <2>4. OkMeansRegistered'
      BY <1>6 DEF Crash, OkMeansRegistered
    <2>5. QED
      BY <1>0, <2>1, <2>3, <2>4
         DEF IdInv, ClientIdInv, MemoryRegistered, InfoRegistered, Registered, RegisteredAt
  <1>7. ASSUME UNCHANGED <<clients, spc, s2c, client>>
        PROVE  IdInv'
    BY <1>0, <1>7
       DEF client, memory, IdInv, OkMeansRegistered, ClientIdInv, OffersRegistered,
           MemoryRegistered, InfoRegistered, Registered, RegisteredAt
  <1>8. CASE Restart /\ UNCHANGED client
    BY <1>7, <1>8 DEF Restart, stored, net
  <1>9. CASE UNCHANGED vars
    BY <1>7, <1>9 DEF vars, server, stored, net
  <1>10. QED
    BY <1>1, <1>2, <1>3, <1>4, <1>5, <1>6, <1>8, <1>9 DEF Next

\* IdInv holds at first.
LEMMA InitIds == Init => IdInv
  <1>1. SUFFICES ASSUME Init PROVE OkMeansRegistered /\ ClientIdInv
    BY InitOwns DEF IdInv
  <1>2. QED
    BY <1>1
       DEF Init, NetInit, ServerInit, ClientInit, OkMeansRegistered, ClientIdInv,
           OffersRegistered, MemoryRegistered, InfoRegistered, IdsIn, OffersIn

\* When no transaction fails, a client never keeps an id that the server does
\* not have, whatever crashes, is killed, is lost or overlaps.
THEOREM SavedIdsRegistered ==
  ASSUME ~DbFaults
  PROVE  Spec => []SavedIdRegistered
  <1>1. IdInv /\ [Next]_vars => IdInv'
    BY NextKeepsIds
  <1>2. IdInv => SavedIdRegistered
    BY SavedIdIn
       DEF IdInv, OwnInv, ClientIdInv, InfoRegistered, SavedIdRegistered, RegisteredAt
  <1>3. QED BY <1>1, <1>2, InitIds, PTL DEF Spec
=============================================================================
