------------------------------ MODULE Protocol ------------------------------
(***************************************************************************)
(* What the client program (src/client) and the server (src/server) share: *)
(* the identities, the messages and the connections.                       *)
(*                                                                         *)
(* A "run" is one execution of the client's main(): it opens one           *)
(* connection, which the server serves with one session thread.  A run     *)
(* sends at most one 1100 and at most one 1101 request, so the run itself  *)
(* names the three values drawn at random in it: the client id that the    *)
(* server draws on 1100, the RSA pair that the client draws before 1101    *)
(* and the AES key that the server draws on 1101.                          *)
(***************************************************************************)
EXTENDS Naturals, Sequences

CONSTANTS
    Runs,      \* executions of the client program
    Hosts,     \* directories the client program is started in
    HostOf,    \* the directory of each run: its transfer.info and me.info
    Names,     \* client names
    NameOf,    \* line 2 of the transfer.info of each host
    Files,     \* file names, as the server stores them (lower case)
    Contents,  \* what the file to send may hold
    Sums,      \* checksums
    Cksum,     \* the checksum of each content; both sides compute the same
    None       \* a NULL column, a missing row, file or line, an empty field

Ids == Runs          \* uuid.uuid4() of the run's registration
Keys == Runs         \* get_random_bytes(AES_KEY_SIZE) of the run's 1101
Empty == "empty"     \* a file of no bytes
Garbled == "garbled" \* bytes that no client ever had in its file
Blobs == Contents \cup {Empty, Garbled}
Paths == Ids \X Files   \* files\<client id in hex>\<file name>

CLIENT_CODE_REGISTER == 1100
CLIENT_CODE_SEND_PUBLIC_KEY == 1101
CLIENT_CODE_SEND_FILE == 1103
CLIENT_CODE_CKSUM_OK == 1104
CLIENT_CODE_CKSUM_ERR == 1105
CLIENT_CODE_CKSUM_ERR_FINAL == 1106

SERVER_CODE_REGISTRATION_OK == 2100
SERVER_CODE_REGISTRATION_ERR == 2101
SERVER_CODE_SWITCHING_KEYS == 2102
SERVER_CODE_CKSUM_READY == 2103
SERVER_CODE_MESSAGE_RECEIVED == 2104

-----------------------------------------------------------------------------
(* Requests: header, payload and the fields sent after them are one message. *)

\* The requests whose fields are drawn from the given sets, and one request.
RequestsOf(code, id, name, file, key, content) ==
    [code : code, id : id, name : name, file : file, key : key, content : content]

RequestOf(code, id, name, file, key, content) ==
    [code |-> code, id |-> id, name |-> name, file |-> file, key |-> key,
     content |-> content]

Request ==
    RequestsOf({1100}, {None}, Names, {None}, {None}, {None})
      \cup RequestsOf({1101}, Ids, Names, {None}, {None}, {None})
      \cup RequestsOf({1103}, Ids, {None}, Files, Keys, Contents \cup {None})
      \cup RequestsOf({1104, 1105, 1106}, Ids, {None}, Files, {None}, {None})

RegisterRequest(name) ==
    RequestOf(CLIENT_CODE_REGISTER, None, name, None, None, None)

PublicKeyRequest(id, name) ==
    RequestOf(CLIENT_CODE_SEND_PUBLIC_KEY, id, name, None, None, None)

\* A file encrypted with "key"; content None is the empty FileItem that
\* reSendFileToServer sends when it could not load the file.
FileRequest(id, file, key, content) ==
    RequestOf(CLIENT_CODE_SEND_FILE, id, None, file, key, content)

CksumRequest(code, id, file) == RequestOf(code, id, None, file, None, None)

NoRequest == RequestOf(0, None, None, None, None, None)

(* Responses *)

ResponsesOf(code, id, key, file, cksum) ==
    [code : code, id : id, key : key, file : file, cksum : cksum]

ResponseOf(code, id, key, file, cksum) ==
    [code |-> code, id |-> id, key |-> key, file |-> file, cksum |-> cksum]

Response ==
    ResponsesOf({2100, 2104}, Ids, {None}, {None}, {None})
      \cup ResponsesOf({2101}, {None}, {None}, {None}, {None})
      \cup ResponsesOf({2102}, Ids, Keys, {None}, {None})
      \cup ResponsesOf({2103}, Ids, {None}, Files, Sums)

Status(code, id) == ResponseOf(code, id, None, None, None)

KeyResponse(id, key) == ResponseOf(SERVER_CODE_SWITCHING_KEYS, id, key, None, None)

CksumResponse(id, file, cksum) ==
    ResponseOf(SERVER_CODE_CKSUM_READY, id, None, file, cksum)

ClientRow == [name : Names, AES_key : Keys \cup {None}]

ASSUME ConstantsAssumption ==
    /\ HostOf \in [Runs -> Hosts]
    /\ NameOf \in [Hosts -> Names]
    /\ Cksum \in [Blobs -> Sums]

ASSUME NoneAssumption ==
    None \notin Runs \cup Names \cup Files \cup Blobs \cup Sums \cup ClientRow

-----------------------------------------------------------------------------
(* The TCP connection of each run. *)

VARIABLES
    c2s,   \* requests sent and not yet received by the session thread
    s2c,   \* responses sent and not yet received by the client
    open   \* the ends of the connection that are open

net == <<c2s, s2c, open>>

Send(p, m) ==
    c2s' = [c2s EXCEPT ![p] = IF "server" \in open[p] THEN Append(@, m) ELSE @]

Answer(p, m) ==
    s2c' = [s2c EXCEPT ![p] = IF "client" \in open[p] THEN Append(@, m) ELSE @]

NetTypeOK ==
    /\ c2s \in [Runs -> Seq(Request)]
    /\ s2c \in [Runs -> Seq(Response)]
    /\ open \in [Runs -> SUBSET {"client", "server"}]

NetInit ==
    /\ c2s = [p \in Runs |-> <<>>]
    /\ s2c = [p \in Runs |-> <<>>]
    /\ open = [p \in Runs |-> {}]
=============================================================================
