----------------------------- MODULE FileProofs -----------------------------
(***************************************************************************)
(* The files: when the runs under way together are in different            *)
(* directories and no transaction fails, the table "files", the disk and   *)
(* the file maps agree with one another and with what clients were told.   *)
(***************************************************************************)
EXTENDS KeyProofs

-----------------------------------------------------------------------------
(* A run is about one file at a time. *)

Concerns(p, m) == m.id = cid[p] /\ m.file = cfile[p]

AboutIn(p) ==
    "client" \in open[p] =>
        /\ \A k \in 1..Len(c2s[p]) : c2s[p][k].code \in {1103, 1104, 1106}
                                         => Concerns(p, c2s[p][k])
        /\ spc[p] \in Uploading \cup Closing => Concerns(p, req[p])
        /\ \A k \in 1..Len(s2c[p]) : s2c[p][k].code = 2103 => s2c[p][k].file = cfile[p]
        /\ cpc[p] = "await_ack" /\ spc[p] \in {"verify", "received"} => req[p].code = 1104
        /\ cpc[p] = "await_final" /\ spc[p] \in Deleting \cup {"received"}
               => req[p].code = 1106

AboutInv == MineInv /\ \A p \in Runs : AboutIn(p)

\* What the proofs know of a run.
LEMMA RunFacts ==
  ASSUME MineInv, NEW p \in Runs
  PROVE  /\ StepInv /\ TypeInv /\ MineIn(p) /\ Connected(p) /\ Queued(p) /\ ClientInStep(p)
         /\ AsksRegistered(p) /\ HostOf[p] \in Hosts
         /\ cpc \in [Runs -> ClientStates] /\ spc \in [Runs -> SessionStates]
         /\ cid \in [Runs -> Ids \cup {None}] /\ cfile \in [Runs -> Files \cup {None}]
         /\ loaded \in [Runs -> Contents \cup {None}]
         /\ req \in [Runs -> Request \cup {NoRequest}] /\ cksum \in [Runs -> Sums \cup {None}]
         /\ c2s \in [Runs -> Seq(Request)] /\ s2c \in [Runs -> Seq(Response)]
         /\ open \in [Runs -> SUBSET {"client", "server"}]
  BY StepTypes
     DEF MineInv, StepInv, RunInv, TypeInv, TypeOK, ClientTypeOK, ServerTypeOK

\* The request that a session reads next, and those it leaves.
LEMMA FirstAsked ==
  ASSUME MineInv, NEW p \in Runs, c2s[p] # <<>>
  PROVE  /\ Head(c2s[p]) = c2s[p][1] /\ 1 \in 1..Len(c2s[p])
         /\ c2s[p][1] \in Request
         /\ c2s[p][1].code \in {1100, 1101, 1103, 1104, 1105, 1106}
         /\ \A k \in 1..Len(Tail(c2s[p])) : k + 1 \in 1..Len(c2s[p])
                                             /\ Tail(c2s[p])[k] = c2s[p][k + 1]
  <1>1. c2s[p] \in Seq(Request)
    BY RunFacts
  <1>2. c2s[p][1] \in Request /\ 1 \in 1..Len(c2s[p])
    BY <1>1
  <1>3. QED BY <1>1, <1>2, RequestFacts

\* Where a session that reads a request goes.
LEMMA ReceivedGoes ==
  ASSUME ~DbFaults, MineInv, NEW p \in Runs, Receive(p)
  PROVE  /\ spc'[p] \in {"refuse", "register_map", "keys", "decrypt", "verify", "recv",
                         "file_check"}
         /\ spc'[p] = "decrypt" => c2s[p][1].code = 1103
         /\ spc'[p] = "verify" => c2s[p][1].code = 1104
         /\ spc'[p] = "file_check" => c2s[p][1].code = 1106
  <1>1. c2s[p][1].code \in {1100, 1101, 1103, 1104, 1105, 1106}
    BY FirstAsked DEF Receive
  <1>2. spc'[p] = Handler(c2s[p][1].code) \/ spc'[p] = "refuse"
    BY RunFacts, ReceivedIsHandled
  <1>3. QED BY <1>1, <1>2, HandlerOf

\* A client keeps its id and its file while its requests are on their way.
LEMMA FileIsKept ==
  ASSUME TypeInv, NEW p \in Runs, ClientStep(p), c2s'[p] # c2s[p]
  PROVE  cid'[p] = cid[p] /\ (cpc[p] = "await_file" => cfile'[p] = cfile[p])
  <1>1. CASE SendPublicKey(p)
    BY <1>1 DEF SendPublicKey, memory
  <1>2. CASE SendFile(p)
    BY <1>2 DEF SendFile
  <1>3. CASE CksumSucceeded(p) \/ CksumFailed(p) \/ CksumFailedFinally(p)
    BY <1>3 DEF CksumSucceeded, CksumFailed, CksumFailedFinally, memory
  <1>4. ClientStep(p) => \/ UNCHANGED c2s \/ SendPublicKey(p) \/ SendFile(p)
                         \/ CksumSucceeded(p) \/ CksumFailed(p) \/ CksumFailedFinally(p)
    BY DEF ClientStep, ReceiveRegistration, SaveName, SaveId, AppendLine,
           GenerateRSAKeyPair, NotRegistered, TruncateMeInfo, WriteMeInfo, ReceiveKey,
           NothingToSend, NoCksum, ReceiveAck, ReceiveFinalAck, ReceiveConfirmation, End, net
  <1>5. QED BY <1>1, <1>2, <1>3, <1>4

\* The response that a client takes for a checksum is one, and alone.
LEMMA CksumReceived ==
  ASSUME MineInv, NEW p \in Runs, ReceiveCksum(p)
  PROVE  /\ cpc[p] = "await_file" /\ s2c[p] # <<>> /\ ResponseTo(p) = s2c[p][1]
         /\ 1 \in 1..Len(s2c[p]) /\ s2c[p][1].code = 2103 /\ s2c[p][1] \in Response
  <1>1. s2c[p] \in Seq(Response)
    BY RunFacts
  <1>2. s2c[p] # <<>>
    BY DEF ReceiveCksum, ResponseTo, NoResponse, Status, ResponseOf, SERVER_CODE_CKSUM_READY
  <1>3. QED
    BY <1>1, <1>2 DEF ReceiveCksum, Await, ResponseTo, SERVER_CODE_CKSUM_READY

\* A session serves the file that its client asked for.
LEMMA SessionKeepsAbout ==
  ASSUME ~DbFaults, MineInv, NEW p \in Runs, AboutIn(p), SessionMoves(p)
  PROVE  AboutIn(p)'
  <1>0. /\ StepInv /\ TypeInv /\ SessionStep(p) /\ UNCHANGED <<cpc, cid, cfile>>
        /\ ClientInStep(p) /\ Connected(p)
        /\ spc \in [Runs -> SessionStates] /\ req \in [Runs -> Request \cup {NoRequest}]
        /\ c2s \in [Runs -> Seq(Request)] /\ s2c \in [Runs -> Seq(Response)]
    BY RunFacts DEF SessionMoves, client, memory
  <1>1. CASE Receive(p)
    <2>1. /\ c2s'[p] = Tail(c2s[p]) /\ req'[p] = c2s[p][1] /\ UNCHANGED <<s2c, open>>
          /\ spc[p] = "recv" /\ c2s[p] # <<>>
      BY <1>0, <1>1, FirstAsked DEF Receive
    <2>2. ASSUME "client" \in open[p]
          PROVE  Asks(cpc[p], c2s[p])
      BY <1>0, <2>1, <2>2
         DEF ClientInStep, InStep, Serves, Registering, Keying, Uploading, Storing, Deleting
    <2>3. /\ cpc[p] = "await_ack" /\ Asks(cpc[p], c2s[p]) => c2s[p][1].code = 1104
          /\ cpc[p] = "await_final" /\ Asks(cpc[p], c2s[p]) => c2s[p][1].code = 1106
      BY DEF Asks, CLIENT_CODE_CKSUM_OK, CLIENT_CODE_CKSUM_ERR_FINAL
    <2>4. spc'[p] \in Uploading \cup Closing => c2s[p][1].code \in {1103, 1104, 1106}
      BY <1>1, ReceivedGoes DEF Uploading, Closing, Storing, Deleting
    <2>5. ASSUME "client" \in open[p]
          PROVE  /\ c2s[p][1].code \in {1103, 1104, 1106} => Concerns(p, c2s[p][1])
                 /\ \A k \in 1..Len(Tail(c2s[p])) :
                       Tail(c2s[p])[k].code \in {1103, 1104, 1106}
                           => Concerns(p, Tail(c2s[p])[k])
      BY <2>1, <2>5, FirstAsked DEF AboutIn
    <2>6. ASSUME "client" \in open[p]
          PROVE  /\ cpc[p] = "await_ack" => req'[p].code = 1104
                 /\ cpc[p] = "await_final" => req'[p].code = 1106
                 /\ spc'[p] \in Uploading \cup Closing => Concerns(p, req'[p])
      BY <2>1, <2>2, <2>3, <2>4, <2>5, <2>6
    <2>7. ASSUME "client" \in open'[p]
          PROVE  \A k \in 1..Len(s2c'[p]) : s2c'[p][k].code = 2103
                                                => s2c'[p][k].file = cfile[p]
      BY <2>1, <2>7 DEF AboutIn
    <2>8. QED
      BY <1>0, <2>1, <2>5, <2>6, <2>7 DEF AboutIn, Concerns
  <1>2. CASE CloseSession(p)
    BY <1>0, <1>2 DEF CloseSession, AboutIn
  <1>3. CASE HandlerStep(p)
    <2>1. UNCHANGED <<req, c2s, open>> /\ spc[p] \notin {"none", "recv"}
      BY <1>0, <1>3, GoesOn, ServesOn
    <2>2. ASSUME "client" \in open[p]
          PROVE  /\ Serves(cpc[p], spc[p])
                 /\ spc'[p] = "recv" \/ Serves(cpc[p], spc'[p])
      <3>1. Serves(cpc[p], spc[p])
        BY <1>0, <2>1, <2>2 DEF ClientInStep, InStep
      <3>2. QED BY <1>0, <1>3, <3>1, ServesOn DEF Goto
    <2>3. ASSUME "client" \in open[p], spc'[p] \in Uploading \cup Closing
          PROVE  spc[p] \in Uploading \cup Closing
      BY <2>2, <2>3 DEF Serves, Uploading, Closing, Storing, Deleting, Registering, Keying
    <2>4. ASSUME "client" \in open[p], NEW m, Answers(p, m), m.code = 2103
          PROVE  m.file = cfile[p]
      BY <2>4
         DEF AboutIn, Concerns, Uploading, Answers, Status, KeyResponse, CksumResponse,
             ResponseOf, SERVER_CODE_REGISTRATION_OK, SERVER_CODE_REGISTRATION_ERR,
             SERVER_CODE_SWITCHING_KEYS, SERVER_CODE_CKSUM_READY,
             SERVER_CODE_MESSAGE_RECEIVED
    <2>5. ASSUME NEW k \in 1..Len(s2c'[p])
          PROVE  Answers(p, s2c'[p][k])
      <3>1. s2c'[p] = <<>> \/ \E m : s2c'[p] = <<m>> /\ Answers(p, m)
        BY <1>0, SessionAnswers
      <3>2. s2c'[p] # <<>>
        BY <2>5
      <3>3. PICK m : s2c'[p] = <<m>> /\ Answers(p, m)
        BY <3>1, <3>2
      <3>4. Len(s2c'[p]) = 1 /\ s2c'[p][1] = m
        BY <3>3
      <3>5. QED BY <2>5, <3>3, <3>4
    <2>6. ASSUME "client" \in open[p]
          PROVE  /\ cpc[p] = "await_ack" => spc[p] \in {"verify", "received"}
                 /\ cpc[p] = "await_final" => spc[p] \in Deleting \cup {"received"}
      BY <2>2, <2>6 DEF Serves
    <2>7. QED BY <1>0, <2>1, <2>3, <2>4, <2>5, <2>6 DEF AboutIn, Concerns
  <1>4. QED BY <1>0, <1>1, <1>2, <1>3 DEF SessionStep

\* AboutInv is inductive when no transaction fails.
LEMMA NextKeepsAbout ==
  ASSUME ~DbFaults, AboutInv, [Next]_vars
  PROVE  AboutInv'
  <1>0. MineInv /\ MineInv'
    BY NextKeepsMine DEF AboutInv
  <1>1. SUFFICES ASSUME NEW p \in Runs PROVE AboutIn(p)'
    BY <1>0 DEF AboutInv
  <1>2. /\ AboutIn(p) /\ StepInv /\ TypeInv /\ Connected(p)
        /\ cpc \in [Runs -> ClientStates] /\ spc \in [Runs -> SessionStates]
        /\ c2s \in [Runs -> Seq(Request)]
        /\ open \in [Runs -> SUBSET {"client", "server"}]
    BY <1>0, RunFacts DEF AboutInv
  <1>3. CASE Connect(p)
    <2> DEFINE m == RegisterRequest(NameOf[HostOf[p]])
    <2>1. /\ spc'[p] = "recv" /\ c2s'[p] = <<m>> /\ s2c' = s2c /\ cpc[p] = "off"
      BY <1>2, <1>3 DEF Connect, Start, Accept, Goto
    <2>2. m.code = 1100 /\ s2c[p] = <<>>
      BY <1>2, <2>1 DEF Connected, RegisterRequest, RequestOf, CLIENT_CODE_REGISTER
    <2> HIDE DEF m
    <2>3. QED BY <2>1, <2>2 DEF AboutIn, Uploading, Closing, Storing, Deleting
  <1>4. CASE ConnectInVain(p)
    BY <1>2, <1>4 DEF ConnectInVain, StartAlone, net, Connected, AboutIn
  <1>5. CASE ClientMoves(p)
    <2>1. /\ ClientStep(p) /\ UNCHANGED spc /\ "client" \in open[p]
          /\ spc[p] \in {"none", "recv"} /\ c2s[p] = <<>> /\ s2c'[p] = <<>>
          /\ \A k \in 1..Len(c2s'[p]) : Asked(p, c2s'[p][k])
      BY <1>2, <1>5, ClientAsks DEF ClientMoves, server, Quiet
    <2>2. ASSUME ReceiveCksum(p)
          PROVE  cpc[p] = "await_file" /\ ResponseTo(p).file = cfile[p]
      <3>1. /\ cpc[p] = "await_file" /\ ResponseTo(p) = s2c[p][1]
            /\ 1 \in 1..Len(s2c[p]) /\ s2c[p][1].code = 2103
        BY <1>0, <2>2, CksumReceived
      <3>2. \A k \in 1..Len(s2c[p]) : s2c[p][k].code = 2103 => s2c[p][k].file = cfile[p]
        BY <1>2, <2>1 DEF AboutIn
      <3>3. QED BY <3>1, <3>2
    <2>3. ASSUME NEW m, Asked(p, m), m.code \in {1103, 1104, 1106},
                 cid'[p] = cid[p], cpc[p] = "await_file" => cfile'[p] = cfile[p]
          PROVE  m.id = cid'[p] /\ m.file = cfile'[p]
      BY <2>2, <2>3
         DEF Asked, PublicKeyRequest, FileRequest, CksumRequest, RequestOf,
             CLIENT_CODE_SEND_PUBLIC_KEY
    <2>4. ASSUME NEW k \in 1..Len(c2s'[p]), c2s'[p][k].code \in {1103, 1104, 1106}
          PROVE  c2s'[p][k].id = cid'[p] /\ c2s'[p][k].file = cfile'[p]
      <3>1. c2s'[p] # c2s[p]
        BY <2>1, <2>4
      <3>2. QED BY <1>2, <2>1, <2>3, <2>4, <3>1, FileIsKept
    <2>5. QED
      BY <2>1, <2>4 DEF AboutIn, Concerns, Uploading, Closing, Storing, Deleting
  <1>6. CASE Kill(p) /\ UNCHANGED server
    BY <1>2, <1>6 DEF Kill, End, AboutIn
  <1>7. CASE Crash /\ UNCHANGED client
    <2>1. /\ spc'[p] = "none" /\ c2s'[p] = <<>> /\ s2c'[p] \in {s2c[p], <<>>}
          /\ "client" \in open'[p] => "client" \in open[p]
          /\ UNCHANGED <<cid, cfile, cpc>>
      BY <1>2, <1>7 DEF Crash, client, memory
    <2>2. /\ spc'[p] \notin Uploading \cup Closing
          /\ spc'[p] \notin Deleting \cup {"verify", "received"}
      BY <2>1 DEF Uploading, Closing, Storing, Deleting
    <2>3. "client" \in open[p] =>
             \A k \in 1..Len(s2c[p]) : s2c[p][k].code = 2103 => s2c[p][k].file = cfile[p]
      BY <1>2 DEF AboutIn
    <2>4. "client" \in open'[p] =>
             \A k \in 1..Len(s2c'[p]) : s2c'[p][k].code = 2103 => s2c'[p][k].file = cfile'[p]
      BY <2>1, <2>3
    <2>5. QED BY <2>1, <2>2, <2>4 DEF AboutIn
  <1>8. CASE Still(p)
    <2>1. /\ spc'[p] = spc[p] /\ req'[p] = req[p] /\ cid'[p] = cid[p]
          /\ cpc'[p] = cpc[p] /\ cfile'[p] = cfile[p]
          /\ c2s'[p] = c2s[p] /\ s2c'[p] = s2c[p] /\ open'[p] = open[p]
      BY <1>8 DEF Still
    <2>2. ASSUME "client" \in open'[p]
          PROVE  /\ \A k \in 1..Len(c2s[p]) : c2s[p][k].code \in {1103, 1104, 1106}
                                                  => Concerns(p, c2s[p][k])
                 /\ spc[p] \in Uploading \cup Closing => Concerns(p, req[p])
                 /\ \A k \in 1..Len(s2c[p]) : s2c[p][k].code = 2103
                                                  => s2c[p][k].file = cfile[p]
                 /\ cpc[p] = "await_ack" /\ spc[p] \in {"verify", "received"}
                        => req[p].code = 1104
                 /\ cpc[p] = "await_final" /\ spc[p] \in Deleting \cup {"received"}
                        => req[p].code = 1106
      BY <1>2, <2>1, <2>2 DEF AboutIn
    <2>3. QED BY <2>1, <2>2 DEF AboutIn, Concerns
  <1>9. QED
    BY <1>0, <1>2, <1>3, <1>4, <1>5, <1>6, <1>7, <1>8, StepOf, SessionKeepsAbout

-----------------------------------------------------------------------------
(* What the server has of a file while a run is at work on it *)

\* A client that confirms the checksum of its run's last upload of f is right.
Unconfirmed(p, f) ==
    files[f] = "unverified" /\ disk[f] # None /\ Cksum[disk[f]] = cksum[p]

Confirmed(f, sum) == files[f] = "verified" /\ disk[f] # None /\ Cksum[disk[f]] = sum

Gone(f) == files[f] = None /\ disk[f] = None /\ f \notin file_map \cup client_files

\* Where an upload is once its file is in each map, and read back.
InFileMap == {"map_client", "cksum", "row_check", "row_insert", "row_update", "send_cksum"}
InBothMaps == InFileMap \ {"map_client"}
Computed == {"row_check", "row_insert", "row_update"}

\* Where an upload has its decrypted content still to write.
Decrypted == {"root_check", "root_make", "dir_check", "dir_make", "open", "write"}

\* Where a deletion is once the file, its row and its place in a map are gone.
FileGone == {"row_delete", "client_test", "client_pop", "file_test", "file_pop"}
RowGone == FileGone \ {"row_delete"}
MapGone == {"file_test", "file_pop"}

\* The file that a session is at work on.
AtFile(p) ==
    /\ spc[p] \in Decrypted => plain[p] # None
    /\ spc[p] \in Storing \ {"write"} => disk[Path(p)] # None
    /\ spc[p] = "write" => disk[Path(p)] = Empty
    /\ spc[p] \in InFileMap => Path(p) \in file_map
    /\ spc[p] \in InBothMaps => Path(p) \in client_files
    /\ spc[p] \in Computed => Cksum[disk[Path(p)]] = cksum[p]
    /\ spc[p] = "row_insert" => files[Path(p)] = None
    /\ spc[p] = "row_update" => files[Path(p)] # None
    /\ spc[p] \in {"send_cksum", "verify", "file_check", "file_remove"}
           => Unconfirmed(p, Path(p))
    /\ spc[p] = "verify" => req[p].code = 1104
    /\ spc[p] \in Deleting => req[p].code = 1106
    /\ spc[p] = "row_delete" => files[Path(p)] = "unverified"
    /\ spc[p] \in FileGone => disk[Path(p)] = None
    /\ spc[p] \in RowGone => files[Path(p)] = None
    /\ spc[p] \in MapGone => Path(p) \notin client_files
    /\ spc[p] = "received" => IF req[p].code = 1104 THEN Confirmed(Path(p), cksum[p])
                                                    ELSE Gone(Path(p))

MyFile(p) == <<cid[p], cfile[p]>>

\* What the client of a run knows of its file: what it has asked for ...
AskedIsSo(p) ==
    \A k \in 1..Len(c2s[p]) : c2s[p][k].code \in {1104, 1106}
                                 => Unconfirmed(p, <<c2s[p][k].id, c2s[p][k].file>>)

\* ... the checksum it is told, unless the server is gone ...
CksumIsSo(p) ==
    \A k \in 1..Len(s2c[p]) : s2c[p][k].code = 2103 /\ spc[p] # "none"
                                 => Unconfirmed(p, MyFile(p)) /\ s2c[p][k].cksum = cksum[p]

\* ... the checksum it confirms ...
ConfirmsIt(p) ==
    cpc[p] = "await_ack" =>
        /\ loaded[p] # None
        /\ c2s[p] # <<>> \/ spc[p] \in {"verify", "received"}
               => Cksum[loaded[p]] = cksum[p]

\* ... and what became of it.
EndIsSo(p) ==
    s2c[p] # <<>> => /\ cpc[p] = "await_ack" => Confirmed(MyFile(p), Cksum[loaded[p]])
                     /\ cpc[p] = "await_final" => Gone(MyFile(p))

Told(p) == AskedIsSo(p) /\ CksumIsSo(p) /\ ConfirmsIt(p) /\ EndIsSo(p)

\* The file maps have every row.
Covered == up => \A f \in Paths : files[f] = None \/ f \in file_map \cap client_files

FileInv == AboutInv /\ OneAtATime /\ Covered /\ \A p \in Runs : AtFile(p) /\ Told(p)

\* Outside the window of an upload a verified file is what a client confirmed.
Attested(f) ==
    files[f] = "verified" => \/ Confirmed(f, attested[f])
                             \/ AtWork(f, Storing)

AttestInv == FileInv /\ \A f \in Paths : Attested(f)

-----------------------------------------------------------------------------
(* A run's files change by the steps of its own session only. *)

\* Nothing of the file f changes, but perhaps what is attested of it.
FileStays(f) ==
    /\ files'[f] = files[f] /\ disk'[f] = disk[f]
    /\ f \in file_map' <=> f \in file_map
    /\ f \in client_files' <=> f \in client_files

\* A session changes the file of the request that it is handling, if any.
LEMMA SessionTouches ==
  ASSUME ~DbFaults, TypeInv, NEW p \in Runs, SessionStep(p), NEW f \in Paths
  PROVE  \/ FileStays(f) /\ attested'[f] = attested[f]
         \/ f = Path(p) /\ spc[p] \in Uploading \cup Closing
  <1>0. /\ files \in [Paths -> {"unverified", "verified", None}]
        /\ disk \in [Paths -> Blobs \cup {None}] /\ attested \in [Paths -> Sums \cup {None}]
    BY DEF TypeInv, TypeOK, ServerTypeOK, DbTypeOK
  <1>1. CASE UNCHANGED <<files, disk, file_map, client_files, attested>>
    BY <1>1 DEF FileStays
  <1>2. SUFFICES ASSUME f # Path(p)
                 PROVE  \/ FileStays(f) /\ attested'[f] = attested[f]
                        \/ f = Path(p) /\ spc[p] \in Uploading \cup Closing
    <2>1. CASE /\ f = Path(p) /\ spc[p] \notin Uploading \cup Closing
      <3>1. UNCHANGED <<files, disk, file_map, client_files, attested>>
        BY <2>1
           DEF Uploading, Closing, Storing, Deleting, SessionStep, HandlerStep, Receive,
               CloseSession, CheckDirectory, MakeDirectory, Respond,
               TestMap, stored, maps, RegisterInMap, RegisterInDatabase, StoreKeys, Decrypt,
               SendRegistrationOk, SendRegistrationErr, SendAESKey, SendCksum, SendReceived,
               CheckRoot, MakeRoot, CheckClientDir, MakeClientDir, OpenFile, WriteFile,
               AddToFileMap, AddToClient, CalculateCksum, CheckRow, InsertRow, ResetRow,
               MarkVerified, CheckFile, RemoveFile, DeleteRow, TestClientFiles,
               PopClientFile, TestFileMap, PopFileMap, Unreachable
      <3>2. QED BY <1>1, <3>1
    <2>2. QED BY <1>2, <2>1
  <1>3. CASE OpenFile(p) \/ WriteFile(p)
    BY <1>0, <1>2, <1>3 DEF OpenFile, WriteFile, maps, FileStays
  <1>4. CASE AddToFileMap(p) \/ AddToClient(p) \/ PopClientFile(p) \/ PopFileMap(p)
    BY <1>0, <1>2, <1>4
       DEF AddToFileMap, AddToClient, PopClientFile, PopFileMap, stored, FileStays
  <1>5. CASE InsertRow(p) \/ ResetRow(p)
    BY <1>0, <1>2, <1>5
       DEF InsertRow, ResetRow, insert_file_details, update_cksum_verification, Committed,
           maps, FileStays
  <1>6. CASE MarkVerified(p) \/ DeleteRow(p)
    BY <1>0, <1>2, <1>6
       DEF MarkVerified, DeleteRow, delete_file_of_client, update_cksum_verification,
           Committed, maps, FileStays
  <1>7. CASE RemoveFile(p)
    BY <1>0, <1>2, <1>7 DEF RemoveFile, maps, FileStays
  <1>8. SessionStep(p) => \/ UNCHANGED <<files, disk, file_map, client_files, attested>>
                          \/ OpenFile(p) \/ WriteFile(p)
                          \/ AddToFileMap(p) \/ AddToClient(p)
                          \/ PopClientFile(p) \/ PopFileMap(p)
                          \/ InsertRow(p) \/ ResetRow(p)
                          \/ MarkVerified(p) \/ DeleteRow(p) \/ RemoveFile(p)
    BY DEF SessionStep, HandlerStep, Receive, CloseSession, CheckDirectory, MakeDirectory,
           Respond, TestMap, stored, maps, RegisterInMap, RegisterInDatabase, StoreKeys,
           Decrypt, SendRegistrationOk, SendRegistrationErr, SendAESKey, SendCksum,
           SendReceived, CheckRoot, MakeRoot, CheckClientDir, MakeClientDir,
           CalculateCksum, CheckRow, CheckFile, TestClientFiles, TestFileMap, Unreachable
  <1>9. QED BY <1>1, <1>3, <1>4, <1>5, <1>6, <1>7, <1>8

\* The files of the clients registered from the directory of a run.
AtHome(p, f) == f \in Paths /\ HostOf[f[1]] = HostOf[p]

\* The files that a run knows of, and its session works on, are its own.
LEMMA FilesAtHome ==
  ASSUME MineInv, NEW p \in Runs
  PROVE  /\ spc[p] \in Uploading \cup Closing => AtHome(p, Path(p))
         /\ \A k \in 1..Len(c2s[p]) :
               c2s[p][k].code \in {1104, 1106}
                   => AtHome(p, <<c2s[p][k].id, c2s[p][k].file>>)
         /\ cpc[p] \in {"await_file", "await_ack", "await_final"} => AtHome(p, MyFile(p))
  <1>0. /\ TypeInv /\ MineIn(p) /\ AsksRegistered(p) /\ c2s[p] \in Seq(Request)
        /\ HostOf[p] \in Hosts
    BY RunFacts
  <1>1. \A i : i \in RegisteredAt[HostOf[p]] => i \in Ids /\ HostOf[i] = HostOf[p]
    BY <1>0 DEF RegisteredAt, Registered
  <1>2. ASSUME spc[p] \in Uploading \cup Closing
        PROVE  AtHome(p, Path(p))
    <2>1. req[p].id \in RegisteredAt[HostOf[p]]
      BY <1>0, <1>2
         DEF MineIn, Acting, SessionStates, Registering, Uploading, Closing, Storing, Deleting
    <2>2. Path(p) \in Paths
      BY <1>0, <1>2, HandledRequest
    <2>3. QED BY <1>1, <2>1, <2>2 DEF AtHome, Path
  <1>3. ASSUME NEW k \in 1..Len(c2s[p]), c2s[p][k].code \in {1104, 1106}
        PROVE  AtHome(p, <<c2s[p][k].id, c2s[p][k].file>>)
    <2>1. c2s[p][k] \in Request
      BY <1>0, <1>3
    <2>2. c2s[p][k].file \in Files
      BY <1>3, <2>1, RequestFacts
    <2>3. c2s[p][k].id \in RegisteredAt[HostOf[p]]
      BY <1>0, <1>3 DEF AsksRegistered, CLIENT_CODE_REGISTER
    <2>4. QED BY <1>1, <2>2, <2>3 DEF AtHome, Paths
  <1>4. ASSUME cpc[p] \in {"await_file", "await_ack", "await_final"}
        PROVE  AtHome(p, MyFile(p))
    <2>1. cid[p] \in Ids /\ cfile[p] \in Files
      BY <1>0, <1>4 DEF TypeInv, ClientFits, Knows
    <2>2. cid[p] \in RegisteredAt[HostOf[p]]
      BY <2>1, NoneAssumption
         DEF MineInv, StepInv, IdInv, ClientIdInv, MemoryRegistered, Ids
    <2>3. QED BY <1>1, <2>1, <2>2 DEF AtHome, MyFile, Paths
  <1>5. QED BY <1>2, <1>3, <1>4

\* While a run is under way, nothing but its own session and the end or the
\* start of the server changes a file of its directory.
LEMMA OthersLeaveFiles ==
  ASSUME ~DbFaults, Overlap # "any", MineInv, OneAtATime, [Next]_vars,
         NEW p \in Runs, UnderWay(p), NEW f, AtHome(p, f)
  PROVE  \/ SessionMoves(p)
         \/ Crash /\ UNCHANGED client
         \/ Restart /\ UNCHANGED client
         \/ FileStays(f) /\ attested'[f] = attested[f]
  <1>1. CASE UNCHANGED <<stored, maps, attested>>
    BY <1>1 DEF stored, maps, FileStays
  <1>2. ASSUME NEW q \in Runs, SessionMoves(q), q # p
        PROVE  FileStays(f) /\ attested'[f] = attested[f]
    <2>1. ASSUME spc[q] \in Uploading \cup Closing
          PROVE  f # Path(q)
      <3>1. AtHome(q, Path(q))
        BY <2>1, FilesAtHome
      <3>2. UnderWay(q)
        BY <2>1 DEF UnderWay, Uploading, Closing, Storing, Deleting
      <3>3. HostOf[q] # HostOf[p]
        BY <1>2, <3>2 DEF OneAtATime
      <3>4. QED BY <3>1, <3>3 DEF AtHome
    <2>2. TypeInv /\ f \in Paths
      BY RunFacts DEF AtHome
    <2>3. QED BY <1>2, <2>1, <2>2, SessionTouches DEF SessionMoves
  <1>3. ASSUME NEW q \in Runs,
               \/ Connect(q) \/ ConnectInVain(q) \/ ClientMoves(q)
               \/ Kill(q) /\ UNCHANGED server
        PROVE  UNCHANGED <<stored, maps, attested>>
    BY <1>3 DEF Connect, Accept, ConnectInVain, ClientMoves, server
  <1>4. CASE UNCHANGED vars
    BY <1>1, <1>4 DEF vars, server
  <1>5. QED BY <1>1, <1>2, <1>3, <1>4 DEF Next

-----------------------------------------------------------------------------
(* The file at work *)

\* Nothing is at work where a session waits for a request, or for nobody.
LEMMA IdleAtNoFile ==
  ASSUME NEW p \in Runs,
         spc[p] = "decrypt" \/ spc[p] \notin Uploading \cup Closing
  PROVE  AtFile(p)
  BY DEF AtFile, Decrypted, Storing, Deleting, InFileMap, InBothMaps, Computed, FileGone, RowGone,
         MapGone, Uploading, Closing

\* What the steps of a session that handles a request rely on.
LEMMA AtWorkFacts ==
  ASSUME FileInv, NEW p \in Runs, HandlerStep(p), spc[p] \in Uploading \cup Closing
  PROVE  /\ AtFile(p) /\ Path(p) \in Paths
         /\ Path(p)' = Path(p) /\ req'[p] = req[p]
         /\ \A l : Goto(p, l) => spc'[p] = l
         /\ files \in [Paths -> {"unverified", "verified", None}]
         /\ disk \in [Paths -> Blobs \cup {None}]
         /\ cksum \in [Runs -> Sums \cup {None}] /\ plain \in [Runs -> Blobs \cup {None}]
         /\ attested \in [Paths -> Sums \cup {None}]
         /\ Empty # None /\ Garbled # None /\ "unverified" # None /\ "verified" # None
  <1>1. MineInv /\ TypeInv /\ AtFile(p) /\ spc \in [Runs -> SessionStates]
    BY RunFacts DEF FileInv, AboutInv
  <1>2. Path(p) \in Paths /\ UNCHANGED req
    BY <1>1, HandledRequest, GoesOn
  <1>3. \A l : Goto(p, l) => spc'[p] = l
    BY <1>1 DEF Goto
  <1>4. /\ files \in [Paths -> {"unverified", "verified", None}]
        /\ disk \in [Paths -> Blobs \cup {None}]
        /\ cksum \in [Runs -> Sums \cup {None}] /\ plain \in [Runs -> Blobs \cup {None}]
        /\ attested \in [Paths -> Sums \cup {None}]
    BY <1>1 DEF TypeInv, TypeOK, ServerTypeOK, DbTypeOK
  <1>5. Empty # None /\ Garbled # None /\ "unverified" # None /\ "verified" # None
    BY NoneAssumption, RowAssumption DEF Blobs
  <1>6. QED BY <1>1, <1>2, <1>3, <1>4, <1>5 DEF Path

\* A session that serves an upload takes one of the upload's steps ...
LEMMA UploadSteps ==
  ASSUME ~DbFaults, NEW p \in Runs, HandlerStep(p), spc[p] \in Uploading
  PROVE  \/ Decrypt(p) \/ CheckRoot(p) \/ MakeRoot(p) \/ CheckClientDir(p)
         \/ MakeClientDir(p) \/ OpenFile(p) \/ WriteFile(p) \/ AddToFileMap(p)
         \/ AddToClient(p) \/ CalculateCksum(p) \/ CheckRow(p) \/ InsertRow(p)
         \/ ResetRow(p) \/ SendCksum(p)
  BY DEF HandlerStep, Uploading, Storing, RegisterInMap, RegisterInDatabase,
         SendRegistrationOk, SendRegistrationErr, StoreKeys, SendAESKey, MarkVerified,
         SendReceived, CheckFile, RemoveFile, DeleteRow, TestClientFiles, PopClientFile,
         TestFileMap, PopFileMap, TestMap, Respond, Unreachable

\* ... and one that closes it, one of the steps that confirm or delete a file.
LEMMA ClosingSteps ==
  ASSUME ~DbFaults, NEW p \in Runs, HandlerStep(p), spc[p] \in Closing
  PROVE  \/ MarkVerified(p) \/ SendReceived(p) \/ CheckFile(p) \/ RemoveFile(p)
         \/ DeleteRow(p) \/ TestClientFiles(p) \/ PopClientFile(p) \/ TestFileMap(p)
         \/ PopFileMap(p)
  BY DEF HandlerStep, Closing, Deleting, RegisterInMap, RegisterInDatabase,
         SendRegistrationOk, SendRegistrationErr, StoreKeys, SendAESKey, Decrypt, CheckRoot,
         MakeRoot, CheckClientDir, MakeClientDir, CheckDirectory, MakeDirectory, OpenFile,
         WriteFile, AddToFileMap, AddToClient, CalculateCksum, CheckRow, InsertRow,
         ResetRow, SendCksum, Respond, Unreachable

\* The steps of an upload keep AtFile.
LEMMA UploadKeepsAtFile ==
  ASSUME ~DbFaults, FileInv, NEW p \in Runs, HandlerStep(p), spc[p] \in Uploading
  PROVE  AtFile(p)'
  <1>0. /\ AtFile(p) /\ Path(p) \in Paths
        /\ Path(p)' = Path(p) /\ req'[p] = req[p]
        /\ \A l : Goto(p, l) => spc'[p] = l
        /\ files \in [Paths -> {"unverified", "verified", None}]
        /\ disk \in [Paths -> Blobs \cup {None}]
        /\ cksum \in [Runs -> Sums \cup {None}] /\ plain \in [Runs -> Blobs \cup {None}]
        /\ Empty # None /\ Garbled # None
    BY AtWorkFacts
  <1> USE DEF Fail, AtFile, Decrypted, Storing, Deleting, InFileMap, InBothMaps, Computed,
              FileGone, RowGone, MapGone
  <1>1. CASE Decrypt(p)
    BY <1>0, <1>1 DEF Decrypt
  <1>2. CASE CheckRoot(p) \/ CheckClientDir(p)
    BY <1>0, <1>2 DEF CheckRoot, CheckClientDir, CheckDirectory, locals
  <1>3. CASE MakeRoot(p) \/ MakeClientDir(p)
    BY <1>0, <1>3 DEF MakeRoot, MakeClientDir, MakeDirectory, locals
  <1>4. CASE OpenFile(p)
    BY <1>0, <1>4 DEF OpenFile, locals
  <1>5. CASE WriteFile(p)
    BY <1>0, <1>5 DEF WriteFile, locals
  <1>6. CASE AddToFileMap(p)
    BY <1>0, <1>6 DEF AddToFileMap, stored, locals
  <1>7. CASE AddToClient(p)
    BY <1>0, <1>7 DEF AddToClient, stored, locals
  <1>8. CASE CalculateCksum(p)
    BY <1>0, <1>8 DEF CalculateCksum, stored, maps
  <1>9. CASE CheckRow(p)
    <2>1. Goto(p, IF files[Path(p)] # None THEN "row_update" ELSE "row_insert")
      BY <1>9 DEF CheckRow, file_exists, Selected
    <2>2. UNCHANGED <<files, disk, maps, locals>> /\ spc[p] = "row_check"
      BY <1>9 DEF CheckRow, stored
    <2>3. QED BY <1>0, <2>1, <2>2 DEF maps, locals
  <1>10. CASE InsertRow(p)
    BY <1>0, <1>10 DEF InsertRow, insert_file_details, Committed, maps, locals, Unconfirmed
  <1>11. CASE ResetRow(p)
    BY <1>0, <1>11
       DEF ResetRow, update_cksum_verification, Committed, maps, locals, Unconfirmed
  <1>12. CASE SendCksum(p)
    BY <1>0, <1>12 DEF SendCksum, Respond
  <1>13. QED
    BY <1>1, <1>2, <1>3, <1>4, <1>5, <1>6, <1>7, <1>8, <1>9, <1>10, <1>11, <1>12,
       UploadSteps

\* The steps that confirm or delete a file keep AtFile.
LEMMA ClosingKeepsAtFile ==
  ASSUME ~DbFaults, FileInv, NEW p \in Runs, HandlerStep(p), spc[p] \in Closing
  PROVE  AtFile(p)'
  <1>0. /\ AtFile(p) /\ Path(p) \in Paths
        /\ Path(p)' = Path(p) /\ req'[p] = req[p]
        /\ \A l : Goto(p, l) => spc'[p] = l
        /\ files \in [Paths -> {"unverified", "verified", None}]
        /\ disk \in [Paths -> Blobs \cup {None}] /\ "unverified" # None
    BY AtWorkFacts
  <1> USE DEF Fail, AtFile, Decrypted, Storing, Deleting, InFileMap, InBothMaps, Computed,
              FileGone, RowGone, MapGone
  <1>1. CASE MarkVerified(p)
    BY <1>0, <1>1
       DEF MarkVerified, update_cksum_verification, Committed, maps, locals, Unconfirmed,
           Confirmed
  <1>2. CASE SendReceived(p)
    BY <1>0, <1>2 DEF SendReceived, Respond
  <1>3. CASE CheckFile(p)
    BY <1>0, <1>3 DEF CheckFile, stored, maps, locals, Unconfirmed
  <1>4. CASE RemoveFile(p)
    BY <1>0, <1>4 DEF RemoveFile, maps, locals, Unconfirmed
  <1>5. CASE DeleteRow(p)
    BY <1>0, <1>5 DEF DeleteRow, delete_file_of_client, Committed, maps, locals
  <1>6. CASE TestClientFiles(p)
    BY <1>0, <1>6 DEF TestClientFiles, TestMap, stored, maps, locals
  <1>7. CASE PopClientFile(p)
    BY <1>0, <1>7 DEF PopClientFile, PopResult, stored, locals
  <1>8. CASE TestFileMap(p)
    BY <1>0, <1>8 DEF TestFileMap, TestMap, stored, maps, locals, Gone
  <1>9. CASE PopFileMap(p)
    BY <1>0, <1>9 DEF PopFileMap, PopResult, stored, locals, Gone
  <1>10. QED
    BY <1>1, <1>2, <1>3, <1>4, <1>5, <1>6, <1>7, <1>8, <1>9, ClosingSteps

\* A session keeps AtFile.
LEMMA SessionKeepsAtFile ==
  ASSUME ~DbFaults, FileInv, NEW p \in Runs, SessionStep(p)
  PROVE  AtFile(p)'
  <1>0. /\ MineInv /\ StepInv /\ TypeInv /\ Told(p) /\ spc \in [Runs -> SessionStates]
        /\ req \in [Runs -> Request \cup {NoRequest}]
    BY RunFacts DEF FileInv, AboutInv
  <1> USE DEF AtFile, Decrypted, Storing, Deleting, InFileMap, InBothMaps, Computed,
              FileGone, RowGone, MapGone
  <1>1. CASE Receive(p)
    <2>1. /\ spc'[p] \in {"refuse", "register_map", "keys", "decrypt", "verify", "recv",
                          "file_check"}
          /\ spc'[p] = "verify" => c2s[p][1].code = 1104
          /\ spc'[p] = "file_check" => c2s[p][1].code = 1106
      BY <1>0, <1>1, ReceivedGoes
    <2>2. /\ req'[p] = c2s[p][1] /\ 1 \in 1..Len(c2s[p])
          /\ UNCHANGED <<files, disk, cksum>>
      BY <1>0, <1>1, FirstAsked DEF Receive, stored
    <2>3. Path(p)' = <<c2s[p][1].id, c2s[p][1].file>>
      BY <2>2 DEF Path
    <2>4. c2s[p][1].code \in {1104, 1106}
             => Unconfirmed(p, <<c2s[p][1].id, c2s[p][1].file>>)
      BY <1>0, <2>2 DEF Told, AskedIsSo
    <2>5. spc'[p] \in {"verify", "file_check"} => Unconfirmed(p, Path(p))'
      BY <2>1, <2>2, <2>3, <2>4 DEF Unconfirmed
    <2>6. QED BY <2>1, <2>2, <2>5 DEF Unconfirmed
  <1>2. CASE CloseSession(p)
    BY <1>0, <1>2 DEF CloseSession, Goto
  <1>3. CASE HandlerStep(p) /\ spc[p] \notin Uploading \cup Closing
    <2>1. spc'[p] = "recv" \/ \A l : Serves(l, spc[p]) => Serves(l, spc'[p])
      BY <1>0, <1>3, ServesOn DEF Goto
    <2>2. spc[p] \in Registering \cup Keying \cup {"refuse"}
      BY <1>0, <1>3, ServesOn
         DEF SessionStates, Registering, Keying, Uploading, Closing
    <2>3. \/ Serves("await_reg", spc[p]) \/ Serves("await_key", spc[p])
      BY <2>2 DEF Serves
    <2>4. spc'[p] \in Registering \cup Keying \cup {"refuse", "recv"}
      BY <2>1, <2>3 DEF Serves
    <2>5. QED BY <2>4 DEF Registering, Keying
  <1>4. QED
    BY <1>0, <1>1, <1>2, <1>3, UploadKeepsAtFile, ClosingKeepsAtFile DEF SessionStep

\* So does every other step, as long as the file stays.
LEMMA AtFileStays ==
  ASSUME NEW p \in Runs, AtFile(p), spc'[p] = spc[p], req'[p] = req[p], plain'[p] = plain[p],
         cksum'[p] = cksum[p], spc[p] \in Uploading \cup Closing => FileStays(Path(p))
  PROVE  AtFile(p)'
  <1>1. Path(p)' = Path(p)
    BY DEF Path
  <1> USE DEF AtFile, Decrypted, Storing, Deleting, InFileMap, InBothMaps, Computed,
              FileGone, RowGone, MapGone
  <1>2. CASE spc[p] \in Uploading
    BY <1>1, <1>2 DEF FileStays, Unconfirmed, Uploading
  <1>3. CASE spc[p] \in Closing
    BY <1>1, <1>3 DEF FileStays, Unconfirmed, Confirmed, Gone, Closing
  <1>4. CASE spc[p] \notin Uploading \cup Closing
    BY <1>4 DEF Uploading, Closing
  <1>5. QED BY <1>2, <1>3, <1>4

\* Every step keeps AtFile.
LEMMA NextKeepsAtFile ==
  ASSUME ~DbFaults, Overlap # "any", FileInv, [Next]_vars, NEW p \in Runs
  PROVE  AtFile(p)'
  <1>0. /\ MineInv /\ TypeInv /\ OneAtATime /\ AtFile(p) /\ SessionsNeedServer
        /\ Connected(p) /\ spc \in [Runs -> SessionStates]
    BY RunFacts DEF FileInv, AboutInv, MineInv, StepInv, IdInv, OwnInv
  <1>1. CASE spc'[p] \in {"none", "recv"}
    BY <1>1
       DEF AtFile, Decrypted, Storing, Deleting, InFileMap, InBothMaps, Computed,
           FileGone, RowGone, MapGone
  <1>2. CASE Connect(p) \/ ConnectInVain(p) \/ (Crash /\ UNCHANGED client)
    <2>1. spc'[p] \in {"none", "recv"}
      BY <1>0, <1>2
         DEF Connect, Accept, Goto, ConnectInVain, StartAlone, server, Connected, Crash
    <2>2. QED BY <1>1, <2>1
  <1>3. CASE SessionMoves(p)
    BY <1>3, SessionKeepsAtFile DEF SessionMoves
  <1>4. ASSUME spc'[p] = spc[p], req'[p] = req[p], plain'[p] = plain[p],
               cksum'[p] = cksum[p], ~SessionMoves(p), ~(Crash /\ UNCHANGED client)
        PROVE  AtFile(p)'
    <2>1. ASSUME spc[p] \in Uploading \cup Closing
          PROVE  FileStays(Path(p))
      <3>1. UnderWay(p) /\ up
        BY <1>0, <2>1
           DEF SessionsNeedServer, UnderWay, Uploading, Closing, Storing, Deleting
      <3>2. AtHome(p, Path(p))
        BY <1>0, <2>1, FilesAtHome
      <3>3. ~Restart
        BY <3>1 DEF Restart
      <3>4. QED BY <1>0, <1>4, <3>1, <3>2, <3>3, OthersLeaveFiles
    <2>2. QED BY <1>0, <1>4, <2>1, AtFileStays
  <1>5. CASE ClientMoves(p) \/ (Kill(p) /\ UNCHANGED server) \/ Still(p)
    <2>1. /\ spc'[p] = spc[p] /\ req'[p] = req[p] /\ plain'[p] = plain[p]
          /\ cksum'[p] = cksum[p]
      BY <1>5 DEF ClientMoves, server, locals, Still
    <2>2. QED BY <1>2, <1>3, <1>4, <2>1
  <1>6. QED BY <1>0, <1>2, <1>3, <1>5, StepOf

-----------------------------------------------------------------------------
(* What a client knows of its file *)

\* What is known of the messages of a run.
LEMMA ToldFacts ==
  ASSUME FileInv, NEW p \in Runs
  PROVE  /\ MineInv /\ StepInv /\ TypeInv /\ Told(p) /\ AtFile(p) /\ AboutIn(p)
         /\ Connected(p) /\ Queued(p) /\ ClientInStep(p)
         /\ c2s[p] \in Seq(Request) /\ s2c[p] \in Seq(Response)
         /\ \A k \in 1..Len(s2c[p]) : s2c[p][k].code = 2103 => cpc[p] = "await_file"
         /\ cpc[p] \in Awaiting => "client" \in open[p]
  <1>1. /\ MineInv /\ StepInv /\ TypeInv /\ Told(p) /\ AtFile(p) /\ AboutIn(p)
        /\ Connected(p) /\ Queued(p) /\ ClientInStep(p)
        /\ c2s[p] \in Seq(Request) /\ s2c[p] \in Seq(Response)
        /\ cpc \in [Runs -> ClientStates]
    BY RunFacts DEF FileInv, AboutInv
  <1>2. cpc[p] \in Awaiting => "client" \in open[p]
    BY <1>1 DEF Connected, Awaiting, Ended
  <1>3. ASSUME NEW k \in 1..Len(s2c[p]), s2c[p][k].code = 2103
        PROVE  cpc[p] = "await_file"
    <2>1. s2c[p] # <<>> /\ "client" \in open[p]
      BY <1>1, <1>3 DEF Connected
    <2>2. Len(s2c[p]) = 1 /\ s2c[p][1].code \in Expected(cpc[p])
      BY <1>1, <2>1 DEF ClientInStep, InStep
    <2>3. 2103 \in Expected(cpc[p])
      BY <1>3, <2>2
    <2>4. cpc[p] \in Awaiting
      BY <1>1, <2>3, ExpectedCodes
    <2>5. QED BY <2>3, <2>4, ExpectedCodes DEF Awaiting
  <1>4. QED BY <1>1, <1>2, <1>3

\* What a session sends is so.
LEMMA AnswerIsSo ==
  ASSUME FileInv, NEW p \in Runs, NEW m, Answers(p, m), "client" \in open[p]
  PROVE  /\ m.code = 2103 => Unconfirmed(p, MyFile(p)) /\ m.cksum = cksum[p]
         /\ cpc[p] = "await_ack" => Confirmed(MyFile(p), Cksum[loaded[p]])
         /\ cpc[p] = "await_final" => Gone(MyFile(p))
  <1>0. /\ Told(p) /\ AtFile(p) /\ AboutIn(p) /\ StepInv /\ ClientInStep(p)
    BY ToldFacts
  <1>1. spc[p] \in Uploading \cup Closing => Path(p) = MyFile(p)
    BY <1>0 DEF AboutIn, Concerns, Path, MyFile
  <1>2. spc[p] \notin {"none", "recv"}
    BY DEF Answers
  <1>3. Serves(cpc[p], spc[p])
    BY <1>0, <1>2 DEF ClientInStep, InStep
  <1>4. m.code = 2103 => spc[p] = "send_cksum" /\ m.cksum = cksum[p]
    BY DEF Answers, Status, KeyResponse, CksumResponse, ResponseOf,
           SERVER_CODE_REGISTRATION_OK, SERVER_CODE_REGISTRATION_ERR,
           SERVER_CODE_SWITCHING_KEYS, SERVER_CODE_CKSUM_READY,
           SERVER_CODE_MESSAGE_RECEIVED
  <1>5. m.code = 2103 => Unconfirmed(p, MyFile(p)) /\ m.cksum = cksum[p]
    BY <1>0, <1>1, <1>4 DEF AtFile, Uploading
  <1>6. cpc[p] \in {"await_ack", "await_final"} => spc[p] = "received"
    BY <1>3 DEF Serves, Answers, Deleting
  <1>7. ASSUME cpc[p] = "await_ack"
        PROVE  Confirmed(MyFile(p), Cksum[loaded[p]])
    <2>1. req[p].code = 1104 /\ Cksum[loaded[p]] = cksum[p]
      BY <1>0, <1>6, <1>7 DEF AboutIn, Told, ConfirmsIt
    <2>2. Path(p) = MyFile(p)
      BY <1>1, <1>6, <1>7 DEF Closing
    <2>3. QED BY <1>0, <1>6, <1>7, <2>1, <2>2 DEF AtFile
  <1>8. ASSUME cpc[p] = "await_final"
        PROVE  Gone(MyFile(p))
    <2>1. req[p].code = 1106
      BY <1>0, <1>6, <1>8 DEF AboutIn
    <2>2. Path(p) = MyFile(p)
      BY <1>1, <1>6, <1>8 DEF Closing
    <2>3. QED BY <1>0, <1>6, <1>8, <2>1, <2>2 DEF AtFile
  <1>9. QED BY <1>5, <1>7, <1>8

\* A session computes a checksum for an upload only, and forgets it at its end.
LEMMA CksumKept ==
  ASSUME TypeInv, NEW p \in Runs, SessionStep(p)
  PROVE  \/ UNCHANGED cksum
         \/ spc[p] = "cksum"
         \/ CloseSession(p)
  BY DEF SessionStep, HandlerStep, Receive, CheckDirectory, MakeDirectory, TestMap, Respond,
         locals, RegisterInMap, RegisterInDatabase, StoreKeys, SendRegistrationOk,
         SendRegistrationErr, SendAESKey, SendCksum, SendReceived, Decrypt, CalculateCksum,
         CheckRoot, MakeRoot, CheckClientDir, MakeClientDir, OpenFile, WriteFile,
         AddToFileMap, AddToClient, CheckRow, InsertRow, ResetRow, MarkVerified,
         CheckFile, RemoveFile, DeleteRow, TestClientFiles, PopClientFile,
         TestFileMap, PopFileMap, Unreachable

\* The steps of a session keep Told.
LEMMA SessionKeepsTold ==
  ASSUME ~DbFaults, FileInv, NEW p \in Runs, SessionMoves(p)
  PROVE  Told(p)'
  <1>0. /\ SessionStep(p) /\ UNCHANGED <<cpc, cid, cfile, loaded>>
        /\ MineInv /\ StepInv /\ TypeInv /\ Told(p) /\ AtFile(p) /\ AboutIn(p)
        /\ Connected(p) /\ Queued(p) /\ ClientInStep(p)
        /\ c2s \in [Runs -> Seq(Request)]
        /\ cpc[p] \in Awaiting => "client" \in open[p]
        /\ spc \in [Runs -> SessionStates]
    BY ToldFacts, RunFacts DEF SessionMoves, client, memory
  <1>1. MyFile(p)' = MyFile(p)
    BY <1>0 DEF MyFile
  <1>2. AskedIsSo(p)'
    <2>1. SUFFICES ASSUME NEW k \in 1..Len(c2s'[p]), c2s'[p][k].code \in {1104, 1106}
                   PROVE  LET f == <<c2s'[p][k].id, c2s'[p][k].file>>
                          IN  /\ files'[f] = "unverified" /\ disk'[f] # None
                              /\ Cksum[disk'[f]] = cksum'[p]
      BY DEF AskedIsSo, Unconfirmed
    <2>2. Receive(p)
      <3>1. CloseSession(p) => c2s'[p] = <<>>
        BY <1>0 DEF CloseSession
      <3>2. HandlerStep(p) => c2s'[p] = <<>>
        BY <1>0, ServesOn DEF Queued
      <3>3. QED BY <1>0, <2>1, <3>1, <3>2 DEF SessionStep
    <2>3. c2s'[p] = Tail(c2s[p]) /\ c2s[p] # <<>> /\ UNCHANGED <<files, disk, cksum>>
      BY <1>0, <2>2 DEF Receive, stored
    <2>4. k + 1 \in 1..Len(c2s[p]) /\ c2s'[p][k] = c2s[p][k + 1]
      BY <1>0, <2>1, <2>3, FirstAsked
    <2>5. Unconfirmed(p, <<c2s'[p][k].id, c2s'[p][k].file>>)
      BY <1>0, <2>1, <2>4 DEF Told, AskedIsSo
    <2>6. QED BY <2>3, <2>5 DEF Unconfirmed
  <1>3. CksumIsSo(p)' /\ EndIsSo(p)'
    <2>1. CASE s2c'[p] = <<>>
      BY <2>1 DEF CksumIsSo, EndIsSo
    <2>2. CASE \E m : /\ s2c'[p] = <<m>> /\ Answers(p, m) /\ "client" \in open[p]
                      /\ UNCHANGED <<stored, maps, locals>>
      <3>1. PICK m : /\ s2c'[p] = <<m>> /\ Answers(p, m) /\ "client" \in open[p]
                     /\ UNCHANGED <<stored, maps, locals>>
        BY <2>2
      <3>2. UNCHANGED <<files, disk, file_map, client_files, cksum>>
        BY <3>1 DEF stored, maps, locals
      <3>3. /\ m.code = 2103 => Unconfirmed(p, MyFile(p)) /\ m.cksum = cksum[p]
            /\ cpc[p] = "await_ack" => Confirmed(MyFile(p), Cksum[loaded[p]])
            /\ cpc[p] = "await_final" => Gone(MyFile(p))
        BY <3>1, AnswerIsSo
      <3>4. /\ m.code = 2103 => Unconfirmed(p, MyFile(p))' /\ m.cksum = cksum'[p]
            /\ cpc'[p] = "await_ack" => Confirmed(MyFile(p), Cksum[loaded[p]])'
            /\ cpc'[p] = "await_final" => Gone(MyFile(p))'
        BY <1>0, <1>1, <3>2, <3>3 DEF Unconfirmed, Confirmed, Gone
      <3>5. QED BY <3>1, <3>4 DEF CksumIsSo, EndIsSo
    <2>3. QED BY <1>0, <2>1, <2>2, SessionAnswers
  <1>4. ASSUME cpc[p] = "await_ack", c2s'[p] # <<>> \/ spc'[p] \in {"verify", "received"}
        PROVE  Cksum[loaded[p]] = cksum'[p]
    <2>1. "client" \in open[p]
      BY <1>0, <1>4 DEF Awaiting
    <2>2. ASSUME c2s[p] = <<>>
          PROVE  spc[p] \in {"verify", "received"} /\ HandlerStep(p)
      <3>1. HandlerStep(p)
        BY <1>0, <2>1, <2>2 DEF SessionStep, Receive, CloseSession
      <3>2. spc[p] \notin {"none", "recv"}
        BY <3>1, ServesOn
      <3>3. Serves(cpc[p], spc[p])
        BY <1>0, <2>1, <3>2 DEF ClientInStep, InStep
      <3>4. QED BY <1>4, <3>1, <3>3 DEF Serves
    <2>3. Cksum[loaded[p]] = cksum[p]
      BY <1>0, <1>4, <2>2 DEF Told, ConfirmsIt
    <2>4. spc[p] # "cksum"
      BY <1>0, <2>2 DEF Queued
    <2>5. UNCHANGED cksum
      BY <1>0, <2>1, <2>4, CksumKept DEF CloseSession
    <2>6. QED BY <2>3, <2>5
  <1>5. ConfirmsIt(p)'
    BY <1>0, <1>4 DEF Told, ConfirmsIt
  <1>6. QED BY <1>2, <1>3, <1>5 DEF Told

\* A client goes to wait for the answer to its 1104 with a file it has loaded.
LEMMA ConfirmsLoaded ==
  ASSUME TypeInv, NEW p \in Runs, ClientStep(p), cpc'[p] = "await_ack"
  PROVE  ReceiveCksum(p) /\ SameCksum(p) /\ UNCHANGED loaded
  <1>0. cpc \in [Runs -> ClientStates]
    BY DEF TypeInv, TypeOK, ClientTypeOK
  <1>1. CksumSucceeded(p)
    <2> USE DEF Enter, End
    <2>1. ~(ReceiveRegistration(p) \/ SaveName(p) \/ SaveId(p) \/ GenerateRSAKeyPair(p))
      BY <1>0 DEF ReceiveRegistration, SaveName, SaveId, AppendLine, GenerateRSAKeyPair
    <2>2. ~(NotRegistered(p) \/ TruncateMeInfo(p) \/ WriteMeInfo(p) \/ SendPublicKey(p))
      BY <1>0 DEF NotRegistered, TruncateMeInfo, WriteMeInfo, SendPublicKey
    <2>3. ~(ReceiveKey(p) \/ SendFile(p) \/ NothingToSend(p) \/ CksumFailed(p))
      BY <1>0 DEF ReceiveKey, SendFile, NothingToSend, CksumFailed
    <2>4. ~(CksumFailedFinally(p) \/ NoCksum(p) \/ ReceiveAck(p) \/ ReceiveFinalAck(p))
      BY <1>0
         DEF CksumFailedFinally, NoCksum, ReceiveAck, ReceiveFinalAck, ReceiveConfirmation
    <2>5. QED BY <2>1, <2>2, <2>3, <2>4 DEF ClientStep
  <1>2. QED BY <1>1 DEF CksumSucceeded, memory

\* The steps of a client keep Told.
LEMMA ClientKeepsTold ==
  ASSUME FileInv, NEW p \in Runs, ClientMoves(p)
  PROVE  Told(p)'
  <1>0. /\ ClientStep(p) /\ UNCHANGED <<spc, files, disk, cksum>>
        /\ MineInv /\ StepInv /\ TypeInv /\ Told(p) /\ AboutIn(p)
    BY ToldFacts DEF ClientMoves, server, stored, locals
  <1>1. /\ "client" \in open[p] /\ s2c'[p] = <<>> /\ spc[p] \in {"none", "recv"}
        /\ \A k \in 1..Len(c2s'[p]) : Asked(p, c2s'[p][k])
        /\ c2s'[p] # <<>> => spc[p] # "none"
    BY <1>0, ClientAsks DEF Quiet
  <1>2. ASSUME ReceiveCksum(p), c2s'[p] # <<>>
        PROVE  /\ Unconfirmed(p, MyFile(p)) /\ ResponseTo(p).cksum = cksum[p]
               /\ ResponseTo(p).file = cfile[p]
    <2>1. /\ ResponseTo(p) = s2c[p][1] /\ 1 \in 1..Len(s2c[p]) /\ s2c[p][1].code = 2103
      BY <1>0, <1>2, CksumReceived
    <2>2. QED BY <1>0, <1>1, <1>2, <2>1 DEF Told, CksumIsSo, AboutIn
  <1>3. AskedIsSo(p)'
    <2>1. SUFFICES ASSUME NEW k \in 1..Len(c2s'[p]), c2s'[p][k].code \in {1104, 1106}
                   PROVE  LET f == <<c2s'[p][k].id, c2s'[p][k].file>>
                          IN  /\ files'[f] = "unverified" /\ disk'[f] # None
                              /\ Cksum[disk'[f]] = cksum'[p]
      BY DEF AskedIsSo, Unconfirmed
    <2>2. Asked(p, c2s'[p][k]) /\ c2s'[p] # <<>>
      BY <1>1, <2>1
    <2>3. ASSUME NEW m, Asked(p, m), m.code \in {1104, 1106}
          PROVE  ReceiveCksum(p) /\ m.id = cid[p] /\ m.file = ResponseTo(p).file
      BY <2>3
         DEF Asked, PublicKeyRequest, FileRequest, CksumRequest, RequestOf,
             CLIENT_CODE_SEND_PUBLIC_KEY, CLIENT_CODE_SEND_FILE, CLIENT_CODE_CKSUM_ERR
    <2>4. <<c2s'[p][k].id, c2s'[p][k].file>> = MyFile(p)
      BY <1>2, <2>1, <2>2, <2>3 DEF MyFile
    <2>5. Unconfirmed(p, MyFile(p))
      BY <1>2, <2>1, <2>2, <2>3
    <2>6. QED BY <1>0, <2>4, <2>5 DEF Unconfirmed
  <1>4. CksumIsSo(p)' /\ EndIsSo(p)'
    BY <1>1 DEF CksumIsSo, EndIsSo
  <1>5. ConfirmsIt(p)'
    <2>1. SUFFICES ASSUME cpc'[p] = "await_ack"
                   PROVE  /\ loaded'[p] # None
                          /\ c2s'[p] # <<>> => Cksum[loaded'[p]] = cksum'[p]
      BY <1>0, <1>1 DEF ConfirmsIt
    <2>2. ReceiveCksum(p) /\ SameCksum(p) /\ UNCHANGED loaded
      BY <1>0, <2>1, ConfirmsLoaded
    <2>3. QED BY <1>0, <1>2, <2>2 DEF SameCksum
  <1>6. QED BY <1>3, <1>4, <1>5 DEF Told

\* Steps that leave the messages of a run leave Told, as long as the files stay.
LEMMA ToldStays ==
  ASSUME FileInv, NEW p \in Runs, cksum'[p] = cksum[p], spc'[p] = spc[p],
         cpc'[p] = cpc[p], loaded'[p] = loaded[p], cid'[p] = cid[p], cfile'[p] = cfile[p],
         c2s'[p] = c2s[p], s2c'[p] = s2c[p],
         \A f : UnderWay(p) /\ AtHome(p, f) => FileStays(f)
  PROVE  Told(p)'
  <1>0. /\ Told(p) /\ MineInv /\ Queued(p) /\ MyFile(p)' = MyFile(p)
        /\ \A k \in 1..Len(s2c[p]) : s2c[p][k].code = 2103 => cpc[p] = "await_file"
    BY ToldFacts DEF MyFile
  <1>1. AskedIsSo(p)'
    <2>1. SUFFICES ASSUME NEW k \in 1..Len(c2s[p]), c2s[p][k].code \in {1104, 1106}
                   PROVE  LET f == <<c2s[p][k].id, c2s[p][k].file>>
                          IN  /\ files'[f] = "unverified" /\ disk'[f] # None
                              /\ Cksum[disk'[f]] = cksum[p]
      BY DEF AskedIsSo, Unconfirmed
    <2> DEFINE f == <<c2s[p][k].id, c2s[p][k].file>>
    <2>2. Unconfirmed(p, f) /\ AtHome(p, f)
      BY <1>0, <2>1, FilesAtHome DEF Told, AskedIsSo
    <2>3. UnderWay(p)
      BY <1>0, <2>1 DEF Queued, UnderWay
    <2> HIDE DEF f
    <2>4. FileStays(f)
      BY <2>2, <2>3
    <2>5. files'[f] = "unverified" /\ disk'[f] # None /\ Cksum[disk'[f]] = cksum[p]
      BY <2>2, <2>4 DEF Unconfirmed, FileStays
    <2>6. QED BY <2>5 DEF f
  <1>2. cpc[p] \in {"await_file", "await_ack", "await_final"} => FileStays(MyFile(p))
    BY <1>0, FilesAtHome DEF UnderWay, Ended
  <1>3. CksumIsSo(p)'
    <2>1. SUFFICES ASSUME NEW k \in 1..Len(s2c[p]), s2c[p][k].code = 2103, spc[p] # "none"
                   PROVE  /\ files'[MyFile(p)] = "unverified" /\ disk'[MyFile(p)] # None
                          /\ Cksum[disk'[MyFile(p)]] = cksum[p]
                          /\ s2c[p][k].cksum = cksum[p]
      BY <1>0 DEF CksumIsSo, Unconfirmed
    <2>2. Unconfirmed(p, MyFile(p)) /\ s2c[p][k].cksum = cksum[p] /\ cpc[p] = "await_file"
      BY <1>0, <2>1 DEF Told, CksumIsSo
    <2>3. QED BY <1>2, <2>2 DEF Unconfirmed, FileStays
  <1>4. ConfirmsIt(p)'
    BY <1>0 DEF Told, ConfirmsIt
  <1>5. EndIsSo(p)'
    BY <1>0, <1>2 DEF Told, EndIsSo, Confirmed, Gone, FileStays
  <1>6. QED BY <1>1, <1>3, <1>4, <1>5 DEF Told

\* Every step keeps Told.
LEMMA NextKeepsTold ==
  ASSUME ~DbFaults, Overlap # "any", FileInv, [Next]_vars, NEW p \in Runs
  PROVE  Told(p)'
  <1>0. /\ MineInv /\ TypeInv /\ OneAtATime /\ Told(p) /\ SessionsNeedServer
        /\ Connected(p) /\ Queued(p)
        /\ cpc \in [Runs -> ClientStates] /\ c2s \in [Runs -> Seq(Request)]
        /\ spc \in [Runs -> SessionStates] /\ s2c \in [Runs -> Seq(Response)]
    BY RunFacts DEF FileInv, AboutInv, MineInv, StepInv, IdInv, OwnInv
  <1>1. CASE Connect(p)
    <2> DEFINE m == RegisterRequest(NameOf[HostOf[p]])
    <2>1. /\ c2s'[p] = <<m>> /\ s2c'[p] = s2c[p] /\ cpc[p] = "off" /\ cpc'[p] = "await_reg"
      BY <1>0, <1>1 DEF Connect, Start, Enter
    <2>2. m.code = 1100 /\ s2c[p] = <<>>
      BY <1>0, <2>1 DEF Connected, RegisterRequest, RequestOf, CLIENT_CODE_REGISTER
    <2> HIDE DEF m
    <2>3. QED BY <2>1, <2>2 DEF Told, AskedIsSo, CksumIsSo, ConfirmsIt, EndIsSo
  <1>2. CASE ConnectInVain(p)
    <2>1. c2s'[p] = <<>> /\ s2c'[p] = <<>> /\ cpc'[p] = "stopped"
      BY <1>0, <1>2 DEF ConnectInVain, StartAlone, Enter, net, Connected, Queued
    <2>2. QED BY <2>1 DEF Told, AskedIsSo, CksumIsSo, ConfirmsIt, EndIsSo
  <1>3. CASE SessionMoves(p)
    BY <1>3, SessionKeepsTold DEF FileInv
  <1>4. CASE ClientMoves(p)
    BY <1>4, ClientKeepsTold
  <1>5. CASE Kill(p) /\ UNCHANGED server
    <2>1. /\ c2s'[p] = c2s[p] /\ s2c'[p] = <<>> /\ cpc'[p] = "stopped"
          /\ UNCHANGED <<files, disk, cksum>>
      BY <1>0, <1>5 DEF Kill, End, Enter, server, stored, locals
    <2>2. AskedIsSo(p)'
      BY <1>0, <2>1 DEF Told, AskedIsSo, Unconfirmed
    <2>3. QED BY <2>1, <2>2 DEF Told, CksumIsSo, ConfirmsIt, EndIsSo
  <1>6. CASE Crash /\ UNCHANGED client
    <2>1. /\ spc'[p] = "none" /\ c2s'[p] = <<>> /\ s2c'[p] \in {s2c[p], <<>>}
          /\ UNCHANGED <<files, disk, cid, cfile, cpc, loaded>>
          /\ file_map' = {} /\ client_files' = {}
      BY <1>6 DEF Crash, client, memory, stored
    <2>2. EndIsSo(p)'
      BY <1>0, <2>1 DEF Told, EndIsSo, Confirmed, Gone, MyFile
    <2>3. ConfirmsIt(p)'
      BY <1>0, <2>1 DEF Told, ConfirmsIt
    <2>4. QED BY <2>1, <2>2, <2>3 DEF Told, AskedIsSo, CksumIsSo
  <1>7. CASE Restart /\ UNCHANGED client
    <2>1. spc[p] = "none" /\ c2s[p] = <<>>
      BY <1>0, <1>7 DEF Restart, SessionsNeedServer, Queued
    <2>2. /\ UNCHANGED <<files, disk, spc, cid, cfile, cpc, loaded, c2s, s2c>>
          /\ file_map' = {f \in Paths : files[f] # None} /\ client_files' = file_map'
      BY <1>7 DEF Restart, client, memory, stored, net
    <2>3. EndIsSo(p)'
      BY <1>0, <2>2 DEF Told, EndIsSo, Confirmed, Gone, MyFile
    <2>4. ConfirmsIt(p)'
      BY <1>0, <2>1, <2>2 DEF Told, ConfirmsIt
    <2>5. QED BY <2>1, <2>2, <2>3, <2>4 DEF Told, AskedIsSo, CksumIsSo
  <1>8. ASSUME Still(p), ~SessionMoves(p), ~(Crash /\ UNCHANGED client),
               ~(Restart /\ UNCHANGED client)
        PROVE  Told(p)'
    <2>1. \A f : UnderWay(p) /\ AtHome(p, f) => FileStays(f)
      BY <1>0, <1>8, OthersLeaveFiles
    <2>2. QED BY <1>8, <2>1, ToldStays DEF Still
  <1>9. QED
    BY <1>0, <1>1, <1>2, <1>3, <1>4, <1>5, <1>6, <1>7, <1>8, StepOf

-----------------------------------------------------------------------------
(* The file maps *)

\* A session keeps the rows in the file maps.
LEMMA SessionKeepsCovered ==
  ASSUME ~DbFaults, FileInv, NEW q \in Runs, SessionStep(q), NEW f \in Paths,
         files[f] = None \/ f \in file_map \cap client_files
  PROVE  files'[f] = None \/ f \in file_map' \cap client_files'
  <1>0. TypeInv /\ spc \in [Runs -> SessionStates]
    BY RunFacts DEF FileInv, AboutInv
  <1>1. CASE FileStays(f)
    BY <1>1 DEF FileStays
  <1>2. ASSUME f = Path(q), spc[q] \in Uploading \cup Closing, ~FileStays(f)
        PROVE  files'[f] = None \/ f \in file_map' \cap client_files'
    <2>0. HandlerStep(q)
      <3>1. ~FileStays(f) => ~Receive(q) /\ ~CloseSession(q)
        BY DEF Receive, CloseSession, stored, maps, FileStays
      <3>2. QED BY <1>2, <3>1 DEF SessionStep
    <2>1. /\ AtFile(q) /\ files \in [Paths -> {"unverified", "verified", None}]
      BY <1>2, <2>0, AtWorkFacts
    <2>2. CASE InsertRow(q)
      BY <1>2, <2>1, <2>2 DEF InsertRow, AtFile, InFileMap, InBothMaps, maps
    <2>3. CASE ResetRow(q) \/ MarkVerified(q)
      BY <2>1, <2>3
         DEF ResetRow, MarkVerified, update_cksum_verification, Committed, maps
    <2>4. CASE DeleteRow(q)
      BY <1>2, <2>1, <2>4 DEF DeleteRow, delete_file_of_client, Committed
    <2>5. CASE PopClientFile(q) \/ PopFileMap(q)
      BY <1>2, <2>1, <2>5 DEF PopClientFile, PopFileMap, AtFile, FileGone, RowGone, stored
    <2>6. CASE AddToFileMap(q) \/ AddToClient(q)
      BY <2>6 DEF AddToFileMap, AddToClient, stored
    <2>7. CASE UNCHANGED <<files, file_map, client_files>>
      BY <2>7
    <2>8. HandlerStep(q) => \/ UNCHANGED <<files, file_map, client_files>>
                            \/ InsertRow(q) \/ ResetRow(q) \/ MarkVerified(q)
                            \/ DeleteRow(q) \/ PopClientFile(q) \/ PopFileMap(q)
                            \/ AddToFileMap(q) \/ AddToClient(q)
      BY DEF HandlerStep, CheckDirectory, MakeDirectory, Respond, TestMap, stored, maps,
             RegisterInMap, RegisterInDatabase, StoreKeys, Decrypt, SendRegistrationOk,
             SendRegistrationErr, SendAESKey, SendCksum, SendReceived, CheckRoot, MakeRoot,
             CheckClientDir, MakeClientDir, OpenFile, WriteFile, CalculateCksum, CheckRow,
             CheckFile, RemoveFile, TestClientFiles, TestFileMap, Unreachable
    <2>9. QED BY <2>0, <2>2, <2>3, <2>4, <2>5, <2>6, <2>7, <2>8
  <1>3. QED BY <1>0, <1>1, <1>2, SessionTouches

\* So does every other step; the restart of the server rebuilds them.
LEMMA NextKeepsCovered ==
  ASSUME ~DbFaults, FileInv, [Next]_vars
  PROVE  Covered'
  <1>1. CASE Crash /\ UNCHANGED client
    BY <1>1 DEF Crash, Covered
  <1>2. CASE Restart /\ UNCHANGED client
    BY <1>2 DEF Restart, stored, Covered
  <1>3. ASSUME NEW q \in Runs, SessionMoves(q)
        PROVE  Covered'
    <2>1. UNCHANGED up
      BY <1>3, RunFacts, GoesOn
         DEF FileInv, AboutInv, SessionMoves, SessionStep, Receive, CloseSession
    <2>2. up => \A f \in Paths : files'[f] = None \/ f \in file_map' \cap client_files'
      BY <1>3, SessionKeepsCovered DEF FileInv, Covered, SessionMoves
    <2>3. QED BY <2>1, <2>2 DEF Covered
  <1>4. CASE UNCHANGED <<up, stored, maps>>
    BY <1>4 DEF FileInv, Covered, stored, maps
  <1>5. ASSUME NEW q \in Runs,
               \/ Connect(q) \/ ConnectInVain(q) \/ ClientMoves(q)
               \/ Kill(q) /\ UNCHANGED server
        PROVE  UNCHANGED <<up, stored, maps>>
    BY <1>5 DEF Connect, Accept, ConnectInVain, ClientMoves, server
  <1>6. CASE UNCHANGED vars
    BY <1>4, <1>6 DEF vars, server
  <1>7. QED BY <1>1, <1>2, <1>3, <1>4, <1>5, <1>6 DEF Next

\* FileInv is inductive when no transaction fails and the runs that are under
\* way together are in different directories.
LEMMA NextKeepsFiles ==
  ASSUME ~DbFaults, Overlap # "any", FileInv, [Next]_vars
  PROVE  FileInv'
  <1>1. AboutInv' /\ OneAtATime'
    BY NextKeepsAbout, NextKeepsApart, StepTypes DEF FileInv, AboutInv, MineInv
  <1>2. \A p \in Runs : AtFile(p)' /\ Told(p)'
    BY NextKeepsAtFile, NextKeepsTold
  <1>3. QED BY <1>1, <1>2, NextKeepsCovered DEF FileInv

\* There are no files at first.
LEMMA InitFiles == Init => FileInv
  <1> SUFFICES ASSUME Init PROVE FileInv
    OBVIOUS
  <1>1. /\ \A p \in Runs : /\ spc[p] = "none" /\ cpc[p] = "off"
                           /\ c2s[p] = <<>> /\ s2c[p] = <<>> /\ open[p] = {}
        /\ \A f \in Paths : files[f] = None
    BY DEF Init, NetInit, ServerInit, ClientInit
  <1>2. AboutInv
    BY <1>1, InitMine DEF AboutInv, AboutIn
  <1>3. OneAtATime /\ Covered
    BY <1>1 DEF OneAtATime, UnderWay, Covered
  <1>4. ASSUME NEW p \in Runs
        PROVE  AtFile(p)
    BY <1>1, IdleAtNoFile DEF Uploading, Closing, Storing, Deleting
  <1>5. ASSUME NEW p \in Runs
        PROVE  Told(p)
    <2>1. spc[p] = "none" /\ cpc[p] = "off" /\ c2s[p] = <<>> /\ s2c[p] = <<>>
      BY <1>1
    <2>2. QED BY <2>1 DEF Told, AskedIsSo, CksumIsSo, ConfirmsIt, EndIsSo
  <1>6. QED BY <1>2, <1>3, <1>4, <1>5 DEF FileInv

-----------------------------------------------------------------------------
(* What a client that ended well knows *)

\* A client ends well in the step that receives a 2104.
LEMMA EndsWell ==
  ASSUME FileInv, [Next]_vars, NEW p \in Runs, NEW l \in {"acked", "gaveup"}, Becomes(p, l)
  PROVE  /\ s2c[p] # <<>>
         /\ cpc[p] = IF l = "acked" THEN "await_ack" ELSE "await_final"
  <1>0. TypeInv /\ cpc \in [Runs -> ClientStates] /\ cpc'[p] = l /\ cpc[p] # l
    BY RunFacts DEF FileInv, AboutInv, Becomes
  <1>1. ClientMoves(p)
    <2>1. ~Connect(p) /\ ~ConnectInVain(p) /\ ~(Kill(p) /\ UNCHANGED server)
      BY <1>0 DEF Connect, Start, ConnectInVain, StartAlone, Kill, End, Enter
    <2>2. ~SessionMoves(p) /\ ~(Crash /\ UNCHANGED client) /\ ~Still(p)
      BY <1>0 DEF SessionMoves, client, Still
    <2>3. QED BY <1>0, <2>1, <2>2, StepOf
  <1>2. ReceiveAck(p) \/ ReceiveFinalAck(p)
    <2> USE DEF Enter, End
    <2>1. ~(ReceiveRegistration(p) \/ SaveName(p) \/ SaveId(p) \/ GenerateRSAKeyPair(p))
      BY <1>0 DEF ReceiveRegistration, SaveName, SaveId, AppendLine, GenerateRSAKeyPair
    <2>2. ~(NotRegistered(p) \/ TruncateMeInfo(p) \/ WriteMeInfo(p) \/ SendPublicKey(p))
      BY <1>0 DEF NotRegistered, TruncateMeInfo, WriteMeInfo, SendPublicKey
    <2>3. ~(ReceiveKey(p) \/ SendFile(p) \/ NothingToSend(p) \/ CksumFailed(p))
      BY <1>0 DEF ReceiveKey, SendFile, NothingToSend, CksumFailed
    <2>4. ~(CksumSucceeded(p) \/ CksumFailedFinally(p) \/ NoCksum(p))
      BY <1>0 DEF CksumSucceeded, CksumFailedFinally, NoCksum
    <2>5. QED BY <1>1, <2>1, <2>2, <2>3, <2>4 DEF ClientMoves, ClientStep
  <1>3. ResponseTo(p).code = 2104 => s2c[p] # <<>>
    BY DEF ResponseTo, NoResponse, Status, ResponseOf
  <1>4. QED
    BY <1>0, <1>2, <1>3
       DEF ReceiveAck, ReceiveFinalAck, ReceiveConfirmation, Await, End, Enter,
           SERVER_CODE_MESSAGE_RECEIVED

\* A client that confirmed the checksum of its file and was answered knows that
\* the server has the file, marked verified, however often it was sent again,
\* whatever runs of other directories did and whoever crashed.
THEOREM AckMeansStored ==
  ASSUME ~DbFaults, Overlap # "any"
  PROVE  Spec => AckedIsStored
  <1>1. FileInv /\ [Next]_vars => FileInv'
    BY NextKeepsFiles
  <1> DEFINE Acked == \A p \in Runs : Becomes(p, "acked") =>
                          LET f == <<cid[p], cfile[p]>>
                          IN  /\ files[f] = "verified"
                              /\ disk[f] # None
                              /\ Cksum[disk[f]] = Cksum[loaded[p]]
  <1>2. FileInv /\ [Next]_vars => Acked
    <2>1. SUFFICES ASSUME FileInv, [Next]_vars, NEW p \in Runs, Becomes(p, "acked")
                   PROVE  Confirmed(MyFile(p), Cksum[loaded[p]])
      BY DEF Confirmed, MyFile
    <2>2. s2c[p] # <<>> /\ cpc[p] = "await_ack"
      BY <2>1, EndsWell
    <2>3. QED BY <2>1, <2>2, ToldFacts DEF Told, EndIsSo
  <1> HIDE DEF Acked
  <1>3. FileInv /\ [Next]_vars => [Acked]_vars
    BY <1>2
  <1>4. Spec => [][Acked]_vars
    BY <1>1, <1>3, InitFiles, PTL DEF Spec
  <1>5. QED BY <1>4 DEF AckedIsStored, Acked

\* A client that gave up and was answered knows that nothing is left of its
\* file: not on disk, not in a table, not in a map.
THEOREM GivingUpRemoves ==
  ASSUME ~DbFaults, Overlap # "any"
  PROVE  Spec => GaveUpIsGone
  <1>1. FileInv /\ [Next]_vars => FileInv'
    BY NextKeepsFiles
  <1> DEFINE GaveUp == \A p \in Runs : Becomes(p, "gaveup") =>
                           LET f == <<cid[p], cfile[p]>>
                           IN  files[f] = None /\ disk[f] = None
                                   /\ f \notin file_map \cup client_files
  <1>2. FileInv /\ [Next]_vars => GaveUp
    <2>1. SUFFICES ASSUME FileInv, [Next]_vars, NEW p \in Runs, Becomes(p, "gaveup")
                   PROVE  Gone(MyFile(p))
      BY DEF Gone, MyFile
    <2>2. s2c[p] # <<>> /\ cpc[p] = "await_final"
      BY <2>1, EndsWell
    <2>3. QED BY <2>1, <2>2, ToldFacts DEF Told, EndIsSo
  <1> HIDE DEF GaveUp
  <1>3. FileInv /\ [Next]_vars => [GaveUp]_vars
    BY <1>2
  <1>4. Spec => [][GaveUp]_vars
    BY <1>1, <1>3, InitFiles, PTL DEF Spec
  <1>5. QED BY <1>4 DEF GaveUpIsGone, GaveUp

\* Every row of "files" is in both file maps, whatever crashes, is restarted,
\* is killed or is deleted.
THEOREM MapsCoverRows ==
  ASSUME ~DbFaults, Overlap # "any"
  PROVE  Spec => []FileMapsCoverRows
  <1>1. FileInv /\ [Next]_vars => FileInv'
    BY NextKeepsFiles
  <1>2. FileInv => FileMapsCoverRows
    BY DEF FileInv, Covered, FileMapsCoverRows
  <1>3. QED BY <1>1, <1>2, InitFiles, PTL DEF Spec

-----------------------------------------------------------------------------
(* What is marked verified *)

\* A file of which nothing changes, and whose uploads go on, stays attested.
LEMMA AttestedStays ==
  ASSUME NEW f \in Paths, Attested(f), FileStays(f), attested'[f] = attested[f],
         \A q \in Runs : spc[q] \in Storing /\ Path(q) = f
                             => spc'[q] \in Storing /\ Path(q)' = f
  PROVE  Attested(f)'
  <1>1. AtWork(f, Storing) => AtWork(f, Storing)'
    BY DEF AtWork
  <1>2. QED BY <1>1 DEF Attested, Confirmed, FileStays

\* An upload cannot fail between the truncation of its file and its row.
LEMMA StoringGoesOn ==
  ASSUME ~DbFaults, FileInv, NEW p \in Runs, HandlerStep(p), spc[p] \in Storing \cup {"open"}
  PROVE  \/ spc'[p] \in Storing
         \/ InsertRow(p) \/ ResetRow(p)
  <1>0. /\ AtFile(p) /\ \A l : Goto(p, l) => spc'[p] = l
    BY AtWorkFacts DEF Uploading
  <1>1. req[p].id \in client_map
    <2>1. /\ ActsForRegistered /\ MapKnowsRegistered /\ SessionsNeedServer
      BY DEF FileInv, AboutInv, MineInv, StepInv, IdInv, OwnInv
    <2>2. spc[p] \in PastDecrypt /\ spc[p] # "none"
      BY DEF PastDecrypt, Storing
    <2>3. QED
      BY <2>1, <2>2 DEF ActsForRegistered, MapKnowsRegistered, SessionsNeedServer
  <1> USE DEF Storing
  <1>2. CASE OpenFile(p) \/ WriteFile(p) \/ AddToFileMap(p)
    BY <1>0, <1>2 DEF OpenFile, WriteFile, AddToFileMap
  <1>3. CASE AddToClient(p)
    BY <1>0, <1>1, <1>3 DEF AddToClient
  <1>4. CASE CalculateCksum(p)
    BY <1>0, <1>4 DEF CalculateCksum, AtFile
  <1>5. CASE CheckRow(p)
    <2>1. spc'[p] = "row_update" \/ spc'[p] = "row_insert"
      BY <1>0, <1>5 DEF CheckRow
    <2>2. QED BY <2>1
  <1>6. QED
    BY <1>2, <1>3, <1>4, <1>5
       DEF HandlerStep, RegisterInMap, RegisterInDatabase, SendRegistrationOk,
           SendRegistrationErr, StoreKeys, SendAESKey, Decrypt, CheckRoot, MakeRoot,
           CheckClientDir, MakeClientDir, CheckDirectory, MakeDirectory, SendCksum,
           MarkVerified, SendReceived, CheckFile, RemoveFile, DeleteRow, TestClientFiles,
           PopClientFile, TestFileMap, PopFileMap, TestMap, Respond, Unreachable

\* The session that handles a request about a file keeps it attested.
LEMMA HandlerKeepsAttested ==
  ASSUME ~DbFaults, FileInv, NEW p \in Runs, HandlerStep(p),
         spc[p] \in Uploading \cup Closing, Attested(Path(p)), AtFile(p)',
         \A q \in Runs \ {p} : spc'[q] = spc[q] /\ req'[q] = req[q]
  PROVE  Attested(Path(p))'
  <1>0. /\ AtFile(p) /\ Path(p) \in Paths /\ Path(p)' = Path(p)
        /\ \A l : Goto(p, l) => spc'[p] = l
        /\ files \in [Paths -> {"unverified", "verified", None}]
        /\ disk \in [Paths -> Blobs \cup {None}]
        /\ attested \in [Paths -> Sums \cup {None}]
        /\ "unverified" # None /\ "verified" # None
    BY AtWorkFacts
  <1>1. CASE spc[p] \in Storing \cup {"open"}
    <2>1. CASE spc'[p] \in Storing
      BY <1>0, <2>1 DEF Attested, AtWork
    <2>2. CASE InsertRow(p) \/ ResetRow(p)
      <3>1. files'[Path(p)] = "unverified"
        BY <1>0, <2>2
           DEF InsertRow, ResetRow, insert_file_details, update_cksum_verification,
               Committed, AtFile
      <3>2. QED BY <1>0, <3>1 DEF Attested
    <2>3. QED BY <1>1, <2>1, <2>2, StoringGoesOn
  <1>2. CASE spc[p] \in Decrypted \cup {"decrypt"} /\ spc[p] \notin {"open", "write"}
    <2>1. UNCHANGED <<files, disk, file_map, client_files, attested>>
      BY <1>2
         DEF Decrypted, HandlerStep, CheckDirectory, MakeDirectory, Respond, TestMap, stored,
             maps, RegisterInMap, RegisterInDatabase, StoreKeys, Decrypt, SendRegistrationOk,
             SendRegistrationErr, SendAESKey, SendCksum, SendReceived, CheckRoot, MakeRoot,
             CheckClientDir, MakeClientDir, OpenFile, WriteFile, AddToFileMap, AddToClient,
             CalculateCksum, CheckRow, InsertRow, ResetRow, MarkVerified, CheckFile,
             RemoveFile, DeleteRow, TestClientFiles, PopClientFile, TestFileMap, PopFileMap,
             Unreachable
    <2>2. FileStays(Path(p)) /\ attested'[Path(p)] = attested[Path(p)]
      BY <2>1 DEF FileStays
    <2>3. ASSUME NEW q \in Runs, spc[q] \in Storing, Path(q) = Path(p)
          PROVE  spc'[q] \in Storing /\ Path(q)' = Path(p)
      <3>1. q # p
        BY <1>2, <2>3 DEF Decrypted, Storing
      <3>2. QED BY <2>3, <3>1 DEF Path
    <2>4. QED BY <1>0, <2>2, <2>3, AttestedStays
  <1>3. CASE SendCksum(p)
    BY <1>0, <1>3 DEF SendCksum, Respond, AtFile, Unconfirmed, Attested, stored
  <1>4. CASE MarkVerified(p)
    <2>1. Confirmed(Path(p), attested[Path(p)])'
      BY <1>0, <1>4
         DEF MarkVerified, AtFile, Unconfirmed, Confirmed, update_cksum_verification,
             Committed
    <2>2. QED BY <1>0, <2>1 DEF Attested
  <1>5. CASE SendReceived(p) /\ req[p].code = 1104
    <2>1. Confirmed(Path(p), cksum[p])
      BY <1>0, <1>5 DEF SendReceived, Respond, AtFile
    <2>2. UNCHANGED <<files, disk, file_map, client_files, attested>>
      BY <1>5 DEF SendReceived, Respond, stored, maps
    <2>3. FileStays(Path(p)) /\ attested'[Path(p)] = attested[Path(p)]
      BY <2>2 DEF FileStays
    <2>4. ASSUME NEW q \in Runs, spc[q] \in Storing, Path(q) = Path(p)
          PROVE  spc'[q] \in Storing /\ Path(q)' = Path(p)
      <3>1. q # p
        BY <1>5, <2>4 DEF SendReceived, Respond, Storing
      <3>2. QED BY <2>4, <3>1 DEF Path
    <2>5. QED BY <1>0, <2>3, <2>4, AttestedStays
  <1>6. CASE SendReceived(p) /\ req[p].code # 1104
    BY <1>0, <1>6 DEF SendReceived, Respond, AtFile, Gone, Attested, stored
  <1>7. CASE spc[p] \in {"file_check", "file_remove"}
    <2>1. files[Path(p)] = "unverified" /\ UNCHANGED files
      BY <1>0, <1>7
         DEF HandlerStep, AtFile, Unconfirmed, CheckFile, RemoveFile, stored, RegisterInMap,
             RegisterInDatabase, StoreKeys, Decrypt, SendRegistrationOk, SendRegistrationErr,
             SendAESKey, SendCksum, SendReceived, Respond, CheckDirectory, MakeDirectory,
             CheckRoot, MakeRoot, CheckClientDir, MakeClientDir, OpenFile, WriteFile,
             AddToFileMap, AddToClient, CalculateCksum, CheckRow, InsertRow, ResetRow,
             MarkVerified, DeleteRow, TestMap, TestClientFiles, PopClientFile, TestFileMap,
             PopFileMap, Unreachable
    <2>2. QED BY <1>0, <2>1 DEF Attested
  <1>8. CASE DeleteRow(p)
    BY <1>0, <1>8 DEF DeleteRow, delete_file_of_client, Committed, Attested
  <1>9. CASE TestClientFiles(p) \/ PopClientFile(p) \/ TestFileMap(p) \/ PopFileMap(p)
    BY <1>0, <1>9
       DEF TestClientFiles, PopClientFile, TestFileMap, PopFileMap, TestMap, AtFile, RowGone,
           FileGone, stored, Attested
  <1>10. \/ spc[p] \in Storing \cup {"open"}
         \/ spc[p] \in Decrypted \cup {"decrypt"} /\ spc[p] \notin {"open", "write"}
         \/ SendCksum(p) \/ MarkVerified(p) \/ SendReceived(p)
         \/ spc[p] \in {"file_check", "file_remove"}
         \/ DeleteRow(p) \/ TestClientFiles(p) \/ PopClientFile(p) \/ TestFileMap(p)
         \/ PopFileMap(p)
    BY DEF Uploading, Closing, Storing, Deleting, Decrypted, HandlerStep, RegisterInMap,
           RegisterInDatabase, StoreKeys, Decrypt, SendRegistrationOk, SendRegistrationErr,
           SendAESKey, Respond, CheckDirectory, MakeDirectory, CheckRoot, MakeRoot,
           CheckClientDir, MakeClientDir, OpenFile, WriteFile, AddToFileMap, AddToClient,
           CalculateCksum, CheckRow, InsertRow, ResetRow, CheckFile, RemoveFile, Unreachable
  <1>11. QED
    BY <1>1, <1>2, <1>3, <1>4, <1>5, <1>6, <1>7, <1>8, <1>9, <1>10

\* Every step keeps files attested but the crash of the server, which can
\* leave a file half written: the run CrashInUpload shows it.
LEMMA NextKeepsAttested ==
  ASSUME ~DbFaults, ~Crashes, Overlap # "any", AttestInv, [Next]_vars
  PROVE  AttestInv'
  <1>0. FileInv /\ FileInv' /\ TypeInv
    BY NextKeepsFiles, RunFacts, StepTypes DEF AttestInv, FileInv, AboutInv, MineInv
  <1>1. SUFFICES ASSUME NEW f \in Paths PROVE Attested(f)'
    BY <1>0 DEF AttestInv
  <1>2. Attested(f)
    BY DEF AttestInv
  <1>3. ASSUME UNCHANGED <<stored, attested>>,
               \A q \in Runs : spc[q] \in Storing => spc'[q] = spc[q] /\ req'[q] = req[q]
        PROVE  Attested(f)'
    <2>1. AtWork(f, Storing) => AtWork(f, Storing)'
      BY <1>3 DEF AtWork, Path
    <2>2. QED BY <1>2, <1>3, <2>1 DEF Attested, Confirmed, stored
  <1>4. ASSUME NEW p \in Runs, SessionMoves(p)
        PROVE  Attested(f)'
    <2>1. \A q \in Runs \ {p} : spc'[q] = spc[q] /\ req'[q] = req[q]
      BY <1>0, <1>4, SessionIsLocal DEF Still
    <2>2. CASE Path(p) = f /\ spc[p] \in Uploading \cup Closing
      <3>1. HandlerStep(p)
        BY <1>4, <2>2
           DEF SessionMoves, SessionStep, Receive, CloseSession, Uploading, Closing,
               Storing, Deleting
      <3>2. AtFile(p)'
        BY <1>0 DEF FileInv
      <3>3. Attested(Path(p))
        BY <1>2, <2>2
      <3>4. Attested(Path(p))' /\ Path(p)' = f
        BY <1>0, <2>1, <2>2, <3>1, <3>2, <3>3, HandlerKeepsAttested, AtWorkFacts
      <3>5. QED BY <3>4 DEF Attested, Confirmed, AtWork
    <2>3. CASE ~(Path(p) = f /\ spc[p] \in Uploading \cup Closing)
      <3>1. FileStays(f) /\ attested'[f] = attested[f]
        BY <1>0, <1>4, <2>3, SessionTouches DEF SessionMoves
      <3>2. ASSUME NEW q \in Runs, spc[q] \in Storing, Path(q) = f
            PROVE  spc'[q] \in Storing /\ Path(q)' = f
        <4>1. q # p
          BY <2>3, <3>2 DEF Uploading
        <4>2. QED BY <2>1, <3>2, <4>1 DEF Path
      <3>3. QED BY <1>2, <3>1, <3>2, AttestedStays
    <2>4. QED BY <2>2, <2>3
  <1>5. ASSUME NEW p \in Runs, Connect(p)
        PROVE  Attested(f)'
    <2>1. spc[p] = "none"
      BY <1>0, <1>5, RunFacts
         DEF FileInv, AboutInv, Connected, Connect, Start
    <2>2. UNCHANGED <<stored, attested, req>> /\ spc' = [spc EXCEPT ![p] = "recv"]
      BY <1>5 DEF Connect, Accept, Goto, locals
    <2>3. \A q \in Runs : spc[q] \in Storing => spc'[q] = spc[q] /\ req'[q] = req[q]
      BY <1>0, <2>1, <2>2 DEF Storing, TypeInv, TypeOK, ServerTypeOK
    <2>4. QED BY <1>3, <2>2, <2>3
  <1>6. CASE UNCHANGED <<stored, attested, spc, locals>>
    BY <1>3, <1>6 DEF locals
  <1>7. ASSUME NEW p \in Runs,
               \/ ConnectInVain(p) \/ ClientMoves(p) \/ (Kill(p) /\ UNCHANGED server)
        PROVE  UNCHANGED <<stored, attested, spc, locals>>
    BY <1>7 DEF ConnectInVain, ClientMoves, server
  <1>8. Restart \/ UNCHANGED vars => UNCHANGED <<stored, attested, spc, locals>>
    BY DEF Restart, vars, server
  <1>9. ~Crash
    BY DEF Crash
  <1>10. QED BY <1>4, <1>5, <1>6, <1>7, <1>8, <1>9 DEF Next

\* A file marked verified is on disk with the checksum that a client confirmed,
\* except while an upload of it is at work, if no server crashes.
THEOREM VerifiedFilesAttested ==
  ASSUME ~DbFaults, ~Crashes, Overlap # "any"
  PROVE  Spec => []VerifiedIsAttested
  <1>1. AttestInv /\ [Next]_vars => AttestInv'
    BY NextKeepsAttested
  <1>2. Init => AttestInv
    <2>1. Init => \A f \in Paths : files[f] # "verified"
      BY RowAssumption DEF Init, ServerInit
    <2>2. QED BY <2>1, InitFiles DEF AttestInv, Attested
  <1>3. AttestInv => VerifiedIsAttested
    BY DEF AttestInv, Attested, Confirmed, VerifiedIsAttested
  <1>4. QED BY <1>1, <1>2, <1>3, PTL DEF Spec
=============================================================================
