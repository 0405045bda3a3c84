------------------------------- MODULE Server -------------------------------
(***************************************************************************)
(* The server, src/server/server.py: one session thread per connection     *)
(* over a shared database, a shared directory "files" and shared maps.     *)
(*                                                                         *)
(* Threads may be interleaved anywhere, so a handler is a chain of         *)
(* actions, each with at most one access to shared state; spc[p] names the *)
(* access the session of run p makes next.  Everything a handler does to   *)
(* its own variables belongs to the neighbouring action.  Every handler    *)
(* swallows its exceptions: the session then goes back to waiting for a    *)
(* request and the client gets no response.                                *)
(***************************************************************************)
EXTENDS Database

CONSTANTS
    Crashes,    \* may the server process be killed?
    FirstStart  \* is the directory "files" still to be made?

ASSUME CrashesAssumption == Crashes \in BOOLEAN /\ FirstStart \in BOOLEAN

VARIABLES
    up,           \* is the server process running?
    clients,      \* database table
    files,        \* database table
    disk,         \* what each file in the directory "files" holds
    dirs,         \* the directories that exist: "files", and one per client id
    client_map,   \* __client_map: the client ids it has
    client_files, \* the paths in the file maps of the Client objects
    file_map,     \* __file_map: the paths it has
    spc,          \* where each session is
    req,          \* the request each session is handling
    plain,        \* decrypted_content_file of each session
    cksum,        \* the checksum each session computed last
    attested      \* history: the checksum a client confirmed for each path

stored == <<clients, files, disk, dirs>>
maps == <<client_map, client_files, file_map>>
locals == <<req, plain, cksum>>
server == <<up, stored, maps, spc, locals, attested>>

\* Where an upload is while its file and its row in "files" may differ.
Storing == {"write", "map_file", "map_client", "cksum",
            "row_check", "row_insert", "row_update"}

SessionStates ==
    {"none", "recv", "register_map", "register_insert", "register_ok", "refuse",
     "keys", "send_key", "decrypt", "root_check", "root_make", "dir_check",
     "dir_make", "open", "send_cksum", "verify", "received", "file_check",
     "file_remove", "row_delete", "client_test", "client_pop", "file_test",
     "file_pop"} \cup Storing

ServerTypeOK ==
    /\ DbTypeOK(clients, files)
    /\ up \in BOOLEAN
    /\ disk \in [Paths -> Blobs \cup {None}]
    /\ dirs \in SUBSET ({"files"} \cup Ids)
    /\ client_map \in SUBSET Ids
    /\ client_files \in SUBSET Paths
    /\ file_map \in SUBSET Paths
    /\ spc \in [Runs -> SessionStates]
    /\ req \in [Runs -> Request \cup {NoRequest}]
    /\ plain \in [Runs -> Blobs \cup {None}]
    /\ cksum \in [Runs -> Sums \cup {None}]
    /\ attested \in [Paths -> Sums \cup {None}]

\* A server without clients; "files" is there unless this is its first start.
ServerInit ==
    /\ up = TRUE
    /\ clients = [i \in Ids |-> None]
    /\ files = [f \in Paths |-> None]
    /\ disk = [f \in Paths |-> None]
    /\ dirs = IF FirstStart THEN {} ELSE {"files"}
    /\ client_map = {}
    /\ client_files = {}
    /\ file_map = {}
    /\ spc = [p \in Runs |-> "none"]
    /\ req = [p \in Runs |-> NoRequest]
    /\ plain = [p \in Runs |-> None]
    /\ cksum = [p \in Runs |-> None]
    /\ attested = [f \in Paths |-> None]

-----------------------------------------------------------------------------
Goto(p, l) == spc' = [spc EXCEPT ![p] = l]

\* An exception in a handler: no response, wait for the next request.
Fail(p) == Goto(p, "recv")

Path(p) == <<req[p].id, req[p].file>>

\* Another session has the file of p open.  os.remove then fails: the server
\* runs on Windows (its paths have backslashes and its errors are WSA codes).
OpenElsewhere(p, f) == \E q \in Runs \ {p} : spc[q] = "write" /\ Path(q) = f
MaybeOpenElsewhere(p, f) == \E q \in Runs \ {p} : spc[q] = "cksum" /\ Path(q) = f

HandlerAnsweringErr(code) ==
    CASE code = CLIENT_CODE_REGISTER -> "register_map"
      [] code = CLIENT_CODE_SEND_PUBLIC_KEY -> "keys"
      [] code = CLIENT_CODE_SEND_FILE -> "decrypt"
      [] code = CLIENT_CODE_CKSUM_OK -> "verify"
      [] code = CLIENT_CODE_CKSUM_ERR -> "received"
      [] code = CLIENT_CODE_CKSUM_ERR_FINAL -> "file_check"

\* The first step of the handler of each request of a known client.
Handler(code) ==
    CASE code = CLIENT_CODE_REGISTER -> "register_map"
      [] code = CLIENT_CODE_SEND_PUBLIC_KEY -> "keys"
      [] code = CLIENT_CODE_SEND_FILE -> "decrypt"
      [] code = CLIENT_CODE_CKSUM_OK -> "verify"
      [] code = CLIENT_CODE_CKSUM_ERR -> "recv"
      [] code = CLIENT_CODE_CKSUM_ERR_FINAL -> "file_check"

\* Is a request of this client handled?  handle_request prints an exception of
\* the look-up and goes on as if it had found the client.
Dispatched(id) ==
    client_exists_by_id(clients, id) \cup (IF DbFaults THEN {TRUE} ELSE {})

\* session: a request arrives.  A registration is refused when the name
\* exists; any other request when the client id does not.
Receive(p) ==
    /\ spc[p] = "recv"
    /\ c2s[p] # <<>>
    /\ LET m == Head(c2s[p])
           registering == m.code = CLIENT_CODE_REGISTER
       IN  /\ \E exists \in IF registering
                            THEN client_exists_by_name(clients, m.name)
                            ELSE Dispatched(m.id) :
                 Goto(p, IF exists = registering THEN "refuse" ELSE Handler(m.code))
           /\ req' = [req EXCEPT ![p] = m]
    /\ c2s' = [c2s EXCEPT ![p] = Tail(@)]
    /\ UNCHANGED <<up, stored, maps, plain, cksum, attested, s2c, open>>

\* open_server: a thread is started for the connection of run p.
Accept(p) ==
    /\ up
    /\ Goto(p, "recv")
    /\ UNCHANGED <<up, stored, maps, locals, attested>>

\* session: the client closed the connection.  When it was reset, what the
\* client sent last may be lost.
CloseSession(p) ==
    /\ spc[p] = "recv"
    /\ "client" \notin open[p]
    /\ Goto(p, "none")
    /\ open' = [open EXCEPT ![p] = {}]
    /\ c2s' = [c2s EXCEPT ![p] = <<>>]
    /\ req' = [req EXCEPT ![p] = NoRequest]
    /\ plain' = [plain EXCEPT ![p] = None]
    /\ cksum' = [cksum EXCEPT ![p] = None]
    /\ UNCHANGED <<up, stored, maps, attested, s2c>>

\* The end of a handler: it sends its response.
Respond(p, l, m) ==
    /\ spc[p] = l
    /\ Answer(p, m)
    /\ Goto(p, "recv")
    /\ UNCHANGED <<up, stored, maps, locals, attested, c2s, open>>

\* Where a handler opens the database, or has opened it to get there: each of
\* them begins with get_client_name or client_exists_by_name.
AtDatabase ==
    {"register_map", "register_insert", "keys", "decrypt", "row_check", "row_insert",
     "row_update", "verify", "file_check", "row_delete"}

\* sqlite3.connect raises: then conn.close() of the finally clause is a call on
\* None, whose exception ends the handler.
Unreachable(p) ==
    /\ DbFaults
    /\ spc[p] \in AtDatabase
    /\ Fail(p)
    /\ UNCHANGED <<up, stored, maps, locals, attested, net>>

-----------------------------------------------------------------------------
(* handle_client_registration, handle_client_doesnt_exit *)

RegisterInMap(p) ==
    /\ spc[p] = "register_map"
    /\ client_map' = client_map \cup {p}
    /\ Goto(p, "register_insert")
    /\ UNCHANGED <<up, stored, client_files, file_map, locals, attested, net>>

RegisterInDatabase(p) ==
    /\ spc[p] = "register_insert"
    /\ clients' \in insert_new_client(clients, p, req[p].name)
    /\ Goto(p, "register_ok")
    /\ UNCHANGED <<up, files, disk, dirs, maps, locals, attested, net>>

SendRegistrationOk(p) ==
    Respond(p, "register_ok", Status(SERVER_CODE_REGISTRATION_OK, p))

SendRegistrationErr(p) ==
    Respond(p, "refuse", Status(SERVER_CODE_REGISTRATION_ERR, None))

(* send_aes_key_to_client *)

StoreKeys(p) ==
    /\ spc[p] = "keys"
    /\ clients' \in insert_keys_of_client(clients, req[p].name, p)
    /\ Goto(p, "send_key")
    /\ UNCHANGED <<up, files, disk, dirs, maps, locals, attested, net>>

SendAESKey(p) == Respond(p, "send_key", KeyResponse(req[p].id, p))

-----------------------------------------------------------------------------
(* handle_file_request, process_file_content *)

\* Decrypting under another key than the client's leaves a bad padding, which
\* unpad refuses, or by chance a good one.  With no key, or nothing to
\* decrypt, there is an exception.
Decrypt(p) ==
    /\ spc[p] = "decrypt"
    /\ \E key \in get_aes_key_of_client(clients, req[p].id) :
          \/ /\ key # None
             /\ req[p].content # None
             /\ plain' = [plain EXCEPT ![p] = IF key = req[p].key
                                              THEN req[p].content ELSE Garbled]
             /\ Goto(p, "root_check")
          \/ /\ key = None \/ req[p].content = None \/ key # req[p].key
             /\ Fail(p)
             /\ UNCHANGED plain
    /\ UNCHANGED <<up, stored, maps, req, cksum, attested, net>>

\* os.path.exists on one of the two directories of the file ...
CheckDirectory(p, l, d, make, next) ==
    /\ spc[p] = l
    /\ Goto(p, IF d \in dirs THEN next ELSE make)
    /\ UNCHANGED <<up, stored, maps, locals, attested, net>>

\* ... and os.mkdir, which fails if it was created since.
MakeDirectory(p, l, d, next) ==
    /\ spc[p] = l
    /\ IF d \in dirs THEN Fail(p) ELSE Goto(p, next)
    /\ dirs' = dirs \cup {d}
    /\ UNCHANGED <<up, clients, files, disk, maps, locals, attested, net>>

CheckRoot(p) == CheckDirectory(p, "root_check", "files", "root_make", "dir_check")
MakeRoot(p) == MakeDirectory(p, "root_make", "files", "dir_check")
CheckClientDir(p) == CheckDirectory(p, "dir_check", req[p].id, "dir_make", "open")
MakeClientDir(p) == MakeDirectory(p, "dir_make", req[p].id, "open")

\* open(file_path, "wb") truncates the file.
OpenFile(p) ==
    /\ spc[p] = "open"
    /\ disk' = [disk EXCEPT ![Path(p)] = Empty]
    /\ Goto(p, "write")
    /\ UNCHANGED <<up, clients, files, dirs, maps, locals, attested, net>>

\* Writing over what another session wrote since leaves this content, or a
\* mixture when the other one is longer.
WriteFile(p) ==
    /\ spc[p] = "write"
    /\ \E blob \in {plain[p]} \cup (IF disk[Path(p)] = Empty THEN {} ELSE {Garbled}) :
          disk' = [disk EXCEPT ![Path(p)] = blob]
    /\ Goto(p, "map_file")
    /\ UNCHANGED <<up, clients, files, dirs, maps, locals, attested, net>>

AddToFileMap(p) ==
    /\ spc[p] = "map_file"
    /\ file_map' = file_map \cup {Path(p)}
    /\ Goto(p, "map_client")
    /\ UNCHANGED <<up, stored, client_map, client_files, locals, attested, net>>

\* Looking up a client that is not in the map raises KeyError.
AddToClient(p) ==
    /\ spc[p] = "map_client"
    /\ IF req[p].id \in client_map
       THEN /\ client_files' = client_files \cup {Path(p)}
            /\ Goto(p, "cksum")
       ELSE /\ Fail(p)
            /\ UNCHANGED client_files
    /\ UNCHANGED <<up, stored, client_map, file_map, locals, attested, net>>

\* cksum_calc reads the file back from the disk.
CalculateCksum(p) ==
    /\ spc[p] = "cksum"
    /\ IF disk[Path(p)] = None
       THEN Fail(p) /\ UNCHANGED cksum
       ELSE /\ cksum' = [cksum EXCEPT ![p] = Cksum[disk[Path(p)]]]
            /\ Goto(p, "row_check")
    /\ UNCHANGED <<up, stored, maps, req, plain, attested, net>>

CheckRow(p) ==
    /\ spc[p] = "row_check"
    /\ \E exists \in file_exists(files, Path(p)) :
          Goto(p, IF exists THEN "row_update" ELSE "row_insert")
    /\ UNCHANGED <<up, stored, maps, locals, attested, net>>

InsertRow(p) ==
    /\ spc[p] = "row_insert"
    /\ files' \in insert_file_details(files, Path(p))
    /\ Goto(p, "send_cksum")
    /\ UNCHANGED <<up, clients, disk, dirs, maps, locals, attested, net>>

ResetRow(p) ==
    /\ spc[p] = "row_update"
    /\ files' \in update_cksum_verification(files, Path(p), "unverified")
    /\ Goto(p, "send_cksum")
    /\ UNCHANGED <<up, clients, disk, dirs, maps, locals, attested, net>>

\* The two conn.send of this response are one step: a crash between them only
\* changes what a client with a dead connection prints.
SendCksum(p) ==
    Respond(p, "send_cksum", CksumResponse(req[p].id, req[p].file, cksum[p]))

-----------------------------------------------------------------------------
(* handle_cksum_ok; handle_cksum_err (code 1105) is all in Receive *)

MarkVerified(p) ==
    /\ spc[p] = "verify"
    /\ files' \in update_cksum_verification(files, Path(p), "verified")
    /\ attested' = [attested EXCEPT ![Path(p)] = cksum[p]]
    /\ Goto(p, "received")
    /\ UNCHANGED <<up, clients, disk, dirs, maps, locals, net>>

ReceivedUnanswered(p) ==
    /\ spc[p] = "received"
    /\ Fail(p)
    /\ UNCHANGED <<up, stored, maps, locals, attested, net>>

SendReceived(p) ==
    Respond(p, "received", Status(SERVER_CODE_MESSAGE_RECEIVED, req[p].id))

(* handle_cksum_err_final *)

CheckFile(p) ==
    /\ spc[p] = "file_check"
    /\ Goto(p, IF disk[Path(p)] = None THEN "row_delete" ELSE "file_remove")
    /\ UNCHANGED <<up, stored, maps, locals, attested, net>>

\* os.remove fails when the file is gone or open elsewhere.
RemoveFile(p) ==
    /\ spc[p] = "file_remove"
    /\ \/ /\ disk[Path(p)] # None
          /\ ~OpenElsewhere(p, Path(p))
          /\ disk' = [disk EXCEPT ![Path(p)] = None]
          /\ Goto(p, "row_delete")
       \/ /\ \/ disk[Path(p)] = None
             \/ OpenElsewhere(p, Path(p))
             \/ MaybeOpenElsewhere(p, Path(p))
          /\ Fail(p)
          /\ UNCHANGED disk
    /\ UNCHANGED <<up, clients, files, dirs, maps, locals, attested, net>>

DeleteRow(p) ==
    /\ spc[p] = "row_delete"
    /\ files' \in delete_file_of_client(files, Path(p))
    /\ Goto(p, "client_test")
    /\ UNCHANGED <<up, clients, disk, dirs, maps, locals, attested, net>>

\* The two maps are tested for the path ...
TestMap(p, l, paths, pop, next) ==
    /\ spc[p] = l
    /\ Goto(p, IF Path(p) \in paths THEN pop ELSE next)
    /\ UNCHANGED <<up, stored, maps, locals, attested, net>>

\* ... and it is popped, with a KeyError if it was popped since.
PopResult(p, paths, next) ==
    IF Path(p) \in paths THEN Goto(p, next) ELSE Fail(p)

TestClientFiles(p) == TestMap(p, "client_test", client_files, "client_pop", "file_test")

PopClientFile(p) ==
    /\ spc[p] = "client_pop"
    /\ PopResult(p, client_files, "file_test")
    /\ client_files' = client_files \ {Path(p)}
    /\ UNCHANGED <<up, stored, client_map, file_map, locals, attested, net>>

TestFileMap(p) == TestMap(p, "file_test", file_map, "file_pop", "received")

PopFileMap(p) ==
    /\ spc[p] = "file_pop"
    /\ PopResult(p, file_map, "received")
    /\ file_map' = file_map \ {Path(p)}
    /\ UNCHANGED <<up, stored, client_map, client_files, locals, attested, net>>

-----------------------------------------------------------------------------
(* The server process *)

\* Killed: sessions, maps and unread requests are gone, tables and files are
\* not; responses on their way may be lost.
Crash ==
    /\ Crashes
    /\ up
    /\ up' = FALSE
    /\ spc' = [p \in Runs |-> "none"]
    /\ req' = [p \in Runs |-> NoRequest]
    /\ plain' = [p \in Runs |-> None]
    /\ cksum' = [p \in Runs |-> None]
    /\ client_map' = {} /\ client_files' = {} /\ file_map' = {}
    /\ open' = [p \in Runs |-> open[p] \ {"server"}]
    /\ c2s' = [p \in Runs |-> <<>>]
    /\ \E lost \in SUBSET Runs :
          s2c' = [p \in Runs |-> IF p \in lost THEN <<>> ELSE s2c[p]]
    /\ UNCHANGED <<stored, attested>>

RestartWithoutClients ==
    /\ ~up
    /\ up' = TRUE
    /\ client_map' = {}
    /\ file_map' = {f \in Paths : files[f] # None}
    /\ client_files' = file_map'
    /\ UNCHANGED <<stored, spc, locals, attested, net>>

\* load_data_from_database, then the server listens again.  No session runs
\* yet that could hold a lock on the database.
Restart ==
    /\ ~up
    /\ up' = TRUE
    /\ client_map' = {i \in Ids : clients[i] # None}
    /\ file_map' = {f \in Paths : files[f] # None}
    /\ client_files' = file_map'
    /\ UNCHANGED <<stored, spc, locals, attested, net>>

HandlerStep(p) ==
    \/ RegisterInMap(p) \/ RegisterInDatabase(p)
    \/ SendRegistrationOk(p) \/ SendRegistrationErr(p)
    \/ StoreKeys(p) \/ SendAESKey(p)
    \/ Decrypt(p)
    \/ CheckRoot(p) \/ MakeRoot(p) \/ CheckClientDir(p) \/ MakeClientDir(p)
    \/ OpenFile(p) \/ WriteFile(p) \/ AddToFileMap(p) \/ AddToClient(p)
    \/ CalculateCksum(p) \/ CheckRow(p) \/ InsertRow(p) \/ ResetRow(p)
    \/ SendCksum(p) \/ MarkVerified(p) \/ SendReceived(p)
    \/ CheckFile(p) \/ RemoveFile(p) \/ DeleteRow(p)
    \/ TestClientFiles(p) \/ PopClientFile(p) \/ TestFileMap(p) \/ PopFileMap(p)
    \/ Unreachable(p)

SessionStep(p) == Receive(p) \/ CloseSession(p) \/ HandlerStep(p)
=============================================================================
