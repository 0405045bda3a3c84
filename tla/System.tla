------------------------------- MODULE System -------------------------------
(***************************************************************************)
(* Any number of runs of the client program with one server.               *)
(***************************************************************************)
EXTENDS Server, Client

CONSTANT Overlap   \* which runs may be under way together: "none",
                   \* "per_host" (one run per directory) or "any"

ASSUME OverlapAssumption == Overlap \in {"none", "per_host", "any"}

vars == <<server, client, net>>

\* A run is under way while its process or its session is.
UnderWay(p) == cpc[p] \notin Ended \cup {"off"} \/ spc[p] # "none"

MayStart(p) ==
    \A q \in Runs \ {p} :
        UnderWay(q) => \/ Overlap = "any"
                       \/ Overlap = "per_host" /\ HostOf[q] # HostOf[p]

Connect(p) == MayStart(p) /\ Start(p) /\ Accept(p)
ConnectInVain(p) == MayStart(p) /\ ~up /\ StartAlone(p) /\ UNCHANGED server

Init == NetInit /\ ServerInit /\ ClientInit

SessionMoves(p) == SessionStep(p) /\ UNCHANGED client
ClientMoves(p) == ClientStep(p) /\ UNCHANGED server

Next ==
    \/ \E p \in Runs :
          \/ Connect(p)
          \/ ConnectInVain(p)
          \/ SessionMoves(p)
          \/ ClientMoves(p)
          \/ Kill(p) /\ UNCHANGED server
    \/ Crash /\ UNCHANGED client
    \/ Restart /\ UNCHANGED client

Spec == Init /\ [][Next]_vars

\* A started process keeps running; nobody has to start, kill or restart one.
Fairness == \A p \in Runs : WF_vars(SessionMoves(p)) /\ WF_vars(ClientMoves(p))

FairSpec == Spec /\ Fairness

-----------------------------------------------------------------------------
\* Every variable has its type.
TypeOK == NetTypeOK /\ ServerTypeOK /\ ClientTypeOK

Registered == {i \in Ids : clients[i] # None}

(* Identity *)

\* No two rows of "clients" have one name.  The check (client_exists_by_name)
\* and the INSERT are two transactions; keys are later updated by name.
NamesUnique ==
    \A i, j \in Registered : clients[i].name = clients[j].name => i = j

\* An id in a me.info is that of a row: the 2100 that carried it is sent after
\* the INSERT, and no restart loses the row.
SavedIdRegistered ==
    \A h \in Hosts : SavedId(meInfo[h]) # None => SavedId(meInfo[h]) \in Registered

\* Unless somebody is killed, the id of every row is on its way to the client
\* that registered it or in a me.info: nobody else can ever use that name.
IdReachesClient ==
    \A i \in Registered :
        \/ spc[i] = "register_ok"
        \/ \E p \in Runs : cid[p] = i \/ \E n \in DOMAIN s2c[p] : s2c[p][n] =
                                        Status(SERVER_CODE_REGISTRATION_OK, i)
        \/ \E h \in Hosts : SavedId(meInfo[h]) = i

\* While no run of a host is under way its me.info is missing or has an id on
\* line 2, although it is appended to twice and rewritten by truncation.
MeInfoIntact ==
    \A h \in Hosts :
        \/ meInfo[h] = None
        \/ SavedId(meInfo[h]) # None
        \/ \E p \in Runs : HostOf[p] = h /\ UnderWay(p)

(* Tables and maps *)

\* A row of "files" has an owner in "clients", which load_data_from_database
\* relies on when it rebuilds the file maps of the clients.
RowsOwned == \A f \in Paths : files[f] # None => f[1] \in Registered

\* An upload that got past client_exists_by_id finds its client in the map:
\* process_file_content looks it up after it wrote the file, without a check.
UploadFindsClient ==
    \A p \in Runs : spc[p] = "map_client" => req[p].id \in client_map

Deleting == {"file_check", "file_remove", "row_delete",
             "client_test", "client_pop", "file_test", "file_pop"}

AtWork(f, states) == \E p \in Runs : spc[p] \in states /\ Path(p) = f

\* Every row of "files" is in both maps unless its file is being deleted.
FileMapsCoverRows ==
    up => \A f \in Paths :
              files[f] = None \/ f \in file_map \cap client_files \/ AtWork(f, Deleting)

(* Keys *)

\* The server decrypts a file with the key that the client encrypted it with.
UploadDecryptable ==
    \A p \in Runs : spc[p] = "decrypt" /\ req[p].content # None
                        => /\ req[p].id \in Registered
                           /\ clients[req[p].id].AES_key = req[p].key

(* Files *)

\* Except while an upload of it is at work, a file marked verified is on disk
\* with the checksum that a client confirmed.
VerifiedIsAttested ==
    \A f \in Paths :
        files[f] = "verified" /\ ~AtWork(f, Storing)
            => disk[f] # None /\ Cksum[disk[f]] = attested[f]

Becomes(p, l) == cpc[p] # l /\ cpc'[p] = l

\* When a client has its 2104, the server has what the client loaded, marked
\* verified.
AckedIsStored ==
    [][\A p \in Runs : Becomes(p, "acked") =>
           LET f == <<cid[p], cfile[p]>>
           IN  /\ files[f] = "verified"
               /\ disk[f] # None
               /\ Cksum[disk[f]] = Cksum[loaded[p]]]_vars

\* When a client gave up after 1106, nothing is left of its file.
GaveUpIsGone ==
    [][\A p \in Runs : Becomes(p, "gaveup") =>
           LET f == <<cid[p], cfile[p]>>
           IN  files[f] = None /\ disk[f] = None /\ f \notin file_map \cup client_files]_vars

(* Requests and responses *)

\* The responses that each wait of the client is for, given that no database
\* access fails.
Expected(l) ==
    CASE l = "await_reg" -> {SERVER_CODE_REGISTRATION_OK, SERVER_CODE_REGISTRATION_ERR}
      [] l = "await_key" -> {SERVER_CODE_SWITCHING_KEYS}
      [] l = "await_file" -> {SERVER_CODE_CKSUM_READY}
      [] l \in {"await_ack", "await_final"} -> {SERVER_CODE_MESSAGE_RECEIVED}
      [] OTHER -> {}

\* A response reaches a client that waits for it, and it alone: handleResponse
\* acts on the code whatever request it answers.
ResponseInStep ==
    \A p \in Runs : "client" \in open[p] /\ s2c[p] # <<>>
                        => Len(s2c[p]) = 1 /\ Head(s2c[p]).code \in Expected(cpc[p])

(* Liveness *)

\* A run that started comes to its end.
EveryRunEnds == \A p \in Runs : cpc[p] # "off" ~> cpc[p] \in Ended

\* A client that sent a file gets its checksum.
CksumSent == \A p \in Runs : cpc[p] = "await_file" ~> cpc[p] # "await_file"
=============================================================================
