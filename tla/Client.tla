------------------------------- MODULE Client -------------------------------
(***************************************************************************)
(* The client program, src/client: main() constructs a Client, which       *)
(* connects to the server, then registers, exchanges keys and sends one    *)
(* file.  The client waits for the response to each of its requests, and   *)
(* no wait has a timeout.                                                  *)
(*                                                                         *)
(* Runs started in one directory share its me.info, so each access to that *)
(* file is an action of its own; cpc[p] names what run p does next.        *)
(***************************************************************************)
EXTENDS Protocol

CONSTANT Kills   \* may a client process be killed?

ASSUME KillsAssumption == Kills \in BOOLEAN

NUMBER_OF_FILE_SENDING == 4

VARIABLES
    cpc,     \* where each run is
    cid,     \* clientIdBytes, None while clientIdHex is ""
    ckey,    \* aesKey
    cfile,   \* filePath
    loaded,  \* the content cksumOfLastFile was computed from, None for 0
    trials,  \* numberOfTrialsTOSendFile
    lines,   \* the lines writeLines has still to write
    meInfo   \* the lines of the me.info of each host, None if it is missing

memory == <<cid, ckey, cfile, loaded, trials, lines>>
client == <<cpc, memory, meInfo>>

Awaiting == {"await_reg", "await_key", "await_file", "await_ack", "await_final"}
Saving == {"save_name", "save_id", "key_trunc", "key_write"}
Ended == {"acked", "gaveup", "stopped"}
ClientStates == {"off", "genkey", "send_key", "load"} \cup Awaiting \cup Saving \cup Ended

\* A line of me.info: the client name, the client id in hex, the private key.
Line == [kind : {"name"}, of : {None}] \cup [kind : {"id", "key"}, of : Runs]
NameLine == [kind |-> "name", of |-> None]
IdLine(id) == [kind |-> "id", of |-> id]
KeyLine(p) == [kind |-> "key", of |-> p]

\* A missing me.info is not an empty one.
ASSUME NoInfoAssumption == None \notin Seq(Line)

ClientTypeOK ==
    /\ cpc \in [Runs -> ClientStates]
    /\ cid \in [Runs -> Ids \cup {None}]
    /\ ckey \in [Runs -> Keys \cup {None}]
    /\ cfile \in [Runs -> Files \cup {None}]
    /\ loaded \in [Runs -> Contents \cup {None}]
    /\ trials \in [Runs -> 1..NUMBER_OF_FILE_SENDING]
    /\ lines \in [Runs -> Seq(Line)]
    /\ meInfo \in [Hosts -> Seq(Line) \cup {None}]

ClientInit ==
    /\ cpc = [p \in Runs |-> "off"]
    /\ cid = [p \in Runs |-> None]
    /\ ckey = [p \in Runs |-> None]
    /\ cfile = [p \in Runs |-> None]
    /\ loaded = [p \in Runs |-> None]
    /\ trials = [p \in Runs |-> 1]
    /\ lines = [p \in Runs |-> <<>>]
    /\ meInfo = [h \in Hosts |-> None]

-----------------------------------------------------------------------------
Enter(p, l) == cpc' = [cpc EXCEPT ![p] = l]

\* main() returns, or the process dies; either closes the socket.
End(p, how) ==
    /\ Enter(p, how)
    /\ open' = [open EXCEPT ![p] = @ \ {"client"}]
    /\ cid' = [cid EXCEPT ![p] = None]
    /\ ckey' = [ckey EXCEPT ![p] = None]
    /\ cfile' = [cfile EXCEPT ![p] = None]
    /\ loaded' = [loaded EXCEPT ![p] = None]
    /\ trials' = [trials EXCEPT ![p] = 1]
    /\ lines' = [lines EXCEPT ![p] = <<>>]
    /\ UNCHANGED <<meInfo, c2s>>

MyInfo(p) == meInfo[HostOf[p]]

\* loadRegistrationDetails: line 2, if it looks like a client id.
SavedId(info) ==
    IF info # None /\ Len(info) >= 2 /\ info[2].kind = "id" THEN info[2].of ELSE None

\* receiveResponseFromServer returns the next response.  A receive that fails
\* is not noticed, and code 0 is handled as a response that asks for nothing.
NoResponse == Status(0, None)
ResponseTo(p) == IF s2c[p] = <<>> THEN NoResponse ELSE Head(s2c[p])

Await(p, l) ==
    /\ cpc[p] = l
    /\ s2c[p] # <<>> \/ "server" \notin open[p]
    /\ s2c' = [s2c EXCEPT ![p] = IF @ = <<>> THEN @ ELSE Tail(@)]

-----------------------------------------------------------------------------
(* Client::Client and registerToServer *)

\* The server accepts the connection.  The client reads me.info and asks to
\* be registered, whether me.info has an id or not.
Start(p) ==
    /\ cpc[p] = "off"
    /\ open' = [open EXCEPT ![p] = {"client", "server"}]
    /\ cid' = [cid EXCEPT ![p] = SavedId(MyInfo(p))]
    /\ c2s' = [c2s EXCEPT ![p] = <<RegisterRequest(NameOf[HostOf[p]])>>]
    /\ Enter(p, "await_reg")
    /\ UNCHANGED <<ckey, cfile, loaded, trials, lines, meInfo, s2c>>

\* Nobody listens: every part of main() returns at once.
StartAlone(p) ==
    /\ cpc[p] = "off"
    /\ Enter(p, "stopped")
    /\ UNCHANGED <<memory, meInfo, net>>

\* handleResponse; saveRegistrationDetails ignores the new id if me.info exists.
ReceiveRegistration(p) ==
    /\ Await(p, "await_reg")
    /\ IF ResponseTo(p).code = SERVER_CODE_REGISTRATION_OK /\ MyInfo(p) = None
       THEN /\ cid' = [cid EXCEPT ![p] = ResponseTo(p).id]
            /\ Enter(p, "save_name")
       ELSE /\ Enter(p, "genkey")
            /\ UNCHANGED cid
    /\ UNCHANGED <<ckey, cfile, loaded, trials, lines, meInfo, c2s, open>>

AppendLineOverwriting(p, l, line, next) ==
    /\ cpc[p] = l
    /\ meInfo' = [meInfo EXCEPT ![HostOf[p]] = <<line>>]
    /\ Enter(p, next)
    /\ UNCHANGED <<memory, net>>

\* writeLines(path, source): append a line, creating the file.
AppendLine(p, l, line, next) ==
    /\ cpc[p] = l
    /\ meInfo' = [meInfo EXCEPT ![HostOf[p]] =
                     IF @ = None THEN <<line>> ELSE Append(@, line)]
    /\ Enter(p, next)
    /\ UNCHANGED <<memory, net>>

SaveName(p) == AppendLine(p, "save_name", NameLine, "save_id")
SaveId(p) == AppendLine(p, "save_id", IdLine(cid[p]), "genkey")

-----------------------------------------------------------------------------
(* generateRSAKeyPair *)

WithKeyOnLine2(info, p) ==
    IF Len(info) < 2 THEN Append(info, KeyLine(p)) ELSE [info EXCEPT ![2] = KeyLine(p)]

\* The lines of me.info with the new private key as line 3.
WithKey(info, p) ==
    IF Len(info) < 3 THEN Append(info, KeyLine(p)) ELSE [info EXCEPT ![3] = KeyLine(p)]

GenerateRSAKeyPair(p) ==
    /\ cpc[p] = "genkey"
    /\ cid[p] # None
    /\ IF MyInfo(p) = None
       THEN /\ Enter(p, "send_key")
            /\ UNCHANGED lines
       ELSE /\ Enter(p, "key_trunc")
            /\ lines' = [lines EXCEPT ![p] = WithKey(MyInfo(p), p)]
    /\ UNCHANGED <<cid, ckey, cfile, loaded, trials, meInfo, net>>

\* Without a client id neither this nor sendFileToServer does anything.
NotRegistered(p) ==
    /\ cpc[p] = "genkey"
    /\ cid[p] = None
    /\ End(p, "stopped")
    /\ UNCHANGED s2c

\* writeLines(path, 3, key): truncate the file ...
TruncateMeInfo(p) ==
    /\ cpc[p] = "key_trunc"
    /\ meInfo' = [meInfo EXCEPT ![HostOf[p]] = <<>>]
    /\ Enter(p, "key_write")
    /\ UNCHANGED <<memory, net>>

\* ... and write the lines from its start, over what other runs wrote since.
WriteMeInfo(p) ==
    /\ cpc[p] = "key_write"
    /\ meInfo' = [meInfo EXCEPT ![HostOf[p]] =
                     lines[p] \o SubSeq(@, Len(lines[p]) + 1, Len(@))]
    /\ lines' = [lines EXCEPT ![p] = <<>>]
    /\ Enter(p, "send_key")
    /\ UNCHANGED <<cid, ckey, cfile, loaded, trials, net>>

SendPublicKey(p) ==
    /\ cpc[p] = "send_key"
    /\ Send(p, PublicKeyRequest(cid[p], NameOf[HostOf[p]]))
    /\ Enter(p, "await_key")
    /\ UNCHANGED <<memory, meInfo, s2c, open>>

\* handleAESKeyFromServer
ReceiveKey(p) ==
    /\ Await(p, "await_key")
    /\ ckey' = [ckey EXCEPT ![p] = ResponseTo(p).key]
    /\ Enter(p, "load")
    /\ UNCHANGED <<cid, cfile, loaded, trials, lines, meInfo, c2s, open>>

-----------------------------------------------------------------------------
(* sendFileToServer *)

\* loadFilePath and loadFileContent; encryption needs the AES key.
SendFile(p) ==
    /\ cpc[p] = "load"
    /\ ckey[p] # None
    /\ \E file \in Files, content \in Contents :
          /\ cfile' = [cfile EXCEPT ![p] = file]
          /\ loaded' = [loaded EXCEPT ![p] = content]
          /\ Send(p, FileRequest(cid[p], file, ckey[p], content))
    /\ Enter(p, "await_file")
    /\ UNCHANGED <<cid, ckey, trials, lines, meInfo, s2c, open>>

\* The file or the AES key is missing.
NothingToSend(p) ==
    /\ cpc[p] = "load"
    /\ End(p, "stopped")
    /\ UNCHANGED s2c

-----------------------------------------------------------------------------
(* handleFileResponse *)

\* The next response is the server's checksum.
ReceiveCksum(p) ==
    /\ Await(p, "await_file")
    /\ ResponseTo(p).code = SERVER_CODE_CKSUM_READY

TrialsLeftOffByOne(p) == trials[p] <= NUMBER_OF_FILE_SENDING

TrialsLeft(p) == trials[p] < NUMBER_OF_FILE_SENDING

SameCksum(p) == loaded[p] # None /\ Cksum[loaded[p]] = ResponseTo(p).cksum

CksumSucceeded(p) ==
    /\ ReceiveCksum(p)
    /\ SameCksum(p)
    /\ Send(p, CksumRequest(CLIENT_CODE_CKSUM_OK, cid[p], ResponseTo(p).file))
    /\ Enter(p, "await_ack")
    /\ UNCHANGED <<memory, meInfo, open>>

\* 1105 and reSendFileToServer, which sends an empty FileItem if it cannot
\* load the file again.
CksumFailed(p) ==
    /\ ReceiveCksum(p)
    /\ ~SameCksum(p)
    /\ TrialsLeft(p)
    /\ trials' = [trials EXCEPT ![p] = @ + 1]
    /\ \E content \in Contents \cup {None} :
          /\ loaded' = [loaded EXCEPT ![p] = IF content = None THEN @ ELSE content]
          /\ c2s' = [c2s EXCEPT ![p] =
                        IF "server" \notin open[p] THEN @
                        ELSE @ \o <<CksumRequest(CLIENT_CODE_CKSUM_ERR, cid[p],
                                                 ResponseTo(p).file),
                                    FileRequest(cid[p], cfile[p], ckey[p], content)>>]
    /\ Enter(p, "await_file")
    /\ UNCHANGED <<cid, ckey, cfile, lines, meInfo, open>>

CksumFailedFinally(p) ==
    /\ ReceiveCksum(p)
    /\ ~SameCksum(p)
    /\ ~TrialsLeft(p)
    /\ trials' = [trials EXCEPT ![p] = 1]
    /\ loaded' = [loaded EXCEPT ![p] = None]
    /\ Send(p, CksumRequest(CLIENT_CODE_CKSUM_ERR_FINAL, cid[p], ResponseTo(p).file))
    /\ Enter(p, "await_final")
    /\ UNCHANGED <<cid, ckey, cfile, lines, meInfo, open>>

\* The server refused the file, or the connection is gone: main() returns.
NoCksum(p) ==
    /\ Await(p, "await_file")
    /\ ResponseTo(p).code # SERVER_CODE_CKSUM_READY
    /\ End(p, "stopped")

\* The response to 1104 or 1106, the last thing main() waits for.
ReceiveConfirmation(p, l, how) ==
    /\ Await(p, l)
    /\ End(p, IF ResponseTo(p).code = SERVER_CODE_MESSAGE_RECEIVED THEN how ELSE "stopped")

ReceiveAck(p) == ReceiveConfirmation(p, "await_ack", "acked")
ReceiveFinalAck(p) == ReceiveConfirmation(p, "await_final", "gaveup")

-----------------------------------------------------------------------------
\* The process is killed; what it has not read is dropped with its socket.
Kill(p) ==
    /\ Kills
    /\ cpc[p] \notin Ended \cup {"off"}
    /\ End(p, "stopped")
    /\ s2c' = [s2c EXCEPT ![p] = <<>>]

ClientStep(p) ==
    \/ ReceiveRegistration(p) \/ SaveName(p) \/ SaveId(p)
    \/ GenerateRSAKeyPair(p) \/ NotRegistered(p)
    \/ TruncateMeInfo(p) \/ WriteMeInfo(p)
    \/ SendPublicKey(p) \/ ReceiveKey(p)
    \/ SendFile(p) \/ NothingToSend(p)
    \/ CksumSucceeded(p) \/ CksumFailed(p) \/ CksumFailedFinally(p) \/ NoCksum(p)
    \/ ReceiveAck(p) \/ ReceiveFinalAck(p)
=============================================================================
