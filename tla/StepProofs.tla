----------------------------- MODULE StepProofs -----------------------------
(***************************************************************************)
(* The client and its session stay in step: when no transaction fails, the *)
(* response that a client reads answers what it waits for, whatever        *)
(* crashes, is killed, is lost or overlaps.                                *)
(***************************************************************************)
EXTENDS IdentityProofs

\* What a client at l has asked for, when the session has not read it yet ...
Asks(l, asked) ==
    \/ l = "await_reg" /\ Len(asked) = 1 /\ asked[1].code = CLIENT_CODE_REGISTER
    \/ l = "await_key" /\ Len(asked) = 1 /\ asked[1].code = CLIENT_CODE_SEND_PUBLIC_KEY
    \/ l = "await_file" /\ Len(asked) = 1 /\ asked[1].code = CLIENT_CODE_SEND_FILE
    \/ l = "await_file" /\ Len(asked) = 2 /\ asked[1].code = CLIENT_CODE_CKSUM_ERR
                        /\ asked[2].code = CLIENT_CODE_SEND_FILE
    \/ l = "await_ack" /\ Len(asked) = 1 /\ asked[1].code = CLIENT_CODE_CKSUM_OK
    \/ l = "await_final" /\ Len(asked) = 1 /\ asked[1].code = CLIENT_CODE_CKSUM_ERR_FINAL

\* ... and where the session is that has.
Serves(l, s) ==
    \/ l = "await_reg" /\ s \in Registering \cup {"refuse"}
    \/ l = "await_key" /\ s \in Keying
    \/ l = "await_file" /\ s \in Uploading
    \/ l = "await_ack" /\ s \in {"verify", "received"}
    \/ l = "await_final" /\ s \in Deleting \cup {"received"}

\* What the client has asked for is on its way, being served, or neither:
\* answered, failed, lost or not asked yet.
InStep(l, s, asked, answers) ==
    \/ Asks(l, asked) /\ s = "recv" /\ answers = <<>>
    \/ asked = <<>> /\ Serves(l, s) /\ answers = <<>>
    \/ /\ asked = <<>>
       /\ s \in {"none", "recv"}
       /\ answers # <<>> => Len(answers) = 1 /\ answers[1].code \in Expected(l)

ClientInStep(p) == "client" \in open[p] => InStep(cpc[p], spc[p], c2s[p], s2c[p])

\* Every request but 1100 names a client registered in the run's directory, so
\* it is never refused.
AsksRegistered(p) ==
    \A k \in 1..Len(c2s[p]) :
        c2s[p][k].code # CLIENT_CODE_REGISTER
            => c2s[p][k].id \in RegisteredAt[HostOf[p]]

\* The ends of a connection are open while they have a process and a session;
\* nothing is sent to a process that is not there.
Connected(p) ==
    /\ "server" \in open[p] <=> spc[p] # "none"
    /\ "client" \in open[p] <=> cpc[p] \notin Ended \cup {"off"}
    /\ cpc[p] = "off" => spc[p] = "none"
    /\ "client" \notin open[p] => s2c[p] = <<>>

\* What a session has still to read is one request or a 1105 and a 1103, and
\* nothing while it serves one, whether its client lives or not.
Queued(p) ==
    c2s[p] # <<>> => /\ spc[p] = "recv"
                     /\ \/ Len(c2s[p]) = 1
                        \/ /\ Len(c2s[p]) = 2
                           /\ c2s[p][1].code = CLIENT_CODE_CKSUM_ERR
                           /\ c2s[p][2].code = CLIENT_CODE_SEND_FILE

RunInv(p) == ClientInStep(p) /\ AsksRegistered(p) /\ Connected(p) /\ Queued(p)

StepInv == IdInv /\ \A p \in Runs : RunInv(p)

\* The types that the steps rely on.
LEMMA StepTypes ==
  ASSUME StepInv
  PROVE  /\ TypeInv
         /\ cpc \in [Runs -> ClientStates]
         /\ spc \in [Runs -> SessionStates]
         /\ cid \in [Runs -> Ids \cup {None}]
         /\ req \in [Runs -> Request \cup {NoRequest}]
         /\ c2s \in [Runs -> Seq(Request)]
         /\ s2c \in [Runs -> Seq(Response)]
         /\ open \in [Runs -> SUBSET {"client", "server"}]
         /\ HostOf \in [Runs -> Hosts]
  BY ConstantsAssumption
     DEF StepInv, IdInv, OwnInv, TypeInv, TypeOK, ClientTypeOK, ServerTypeOK, NetTypeOK

\* Nothing is unregistered.
LEMMA RegisteredAtGrows ==
  ASSUME Registered \subseteq Registered'
  PROVE  \A h \in Hosts : RegisteredAt[h] \subseteq RegisteredAt'[h]
  BY DEF RegisteredAt

-----------------------------------------------------------------------------
\* What a client at each of its waits is waiting for.
LEMMA ExpectedCodes ==
    /\ Expected("await_reg") = {2100, 2101}
    /\ Expected("await_key") = {2102}
    /\ Expected("await_file") = {2103}
    /\ Expected("await_ack") = {2104}
    /\ Expected("await_final") = {2104}
    /\ \A l \in ClientStates \ Awaiting : Expected(l) = {}
  BY DEF Expected, ClientStates, Saving, Awaiting, Ended, SERVER_CODE_REGISTRATION_OK,
         SERVER_CODE_REGISTRATION_ERR, SERVER_CODE_SWITCHING_KEYS, SERVER_CODE_CKSUM_READY,
         SERVER_CODE_MESSAGE_RECEIVED

\* A handler goes on serving the same wait until it is back at "recv", with or
\* without a response; a response is one that the wait is for.
LEMMA ServesOn ==
  ASSUME NEW p \in Runs, HandlerStep(p)
  PROVE  \E s \in SessionStates :
            /\ Goto(p, s)
            /\ spc[p] \notin {"none", "recv"}
            /\ UNCHANGED <<c2s, open>>
            /\ \/ /\ UNCHANGED s2c
                  /\ s # "recv" => \A l : Serves(l, spc[p]) => Serves(l, s)
               \/ /\ s = "recv"
                  /\ \E m : /\ Answer(p, m)
                            /\ \A l : Serves(l, spc[p]) => m.code \in Expected(l)
  <1> USE DEF Serves, SessionStates, Storing, Registering, Keying, Uploading, Deleting, Fail
  <1>1. CASE RegisterInMap(p) \/ RegisterInDatabase(p) \/ StoreKeys(p) \/ Decrypt(p)
    BY <1>1, Zenon DEF RegisterInMap, RegisterInDatabase, StoreKeys, Decrypt, net
  <1>2. CASE CheckRoot(p) \/ MakeRoot(p) \/ CheckClientDir(p) \/ MakeClientDir(p)
    BY <1>2
       DEF CheckRoot, MakeRoot, CheckClientDir, MakeClientDir, CheckDirectory, MakeDirectory,
           net
  <1>3. CASE OpenFile(p) \/ WriteFile(p) \/ AddToFileMap(p) \/ AddToClient(p)
    BY <1>3 DEF OpenFile, WriteFile, AddToFileMap, AddToClient, net
  <1>4. CASE CalculateCksum(p) \/ CheckRow(p) \/ InsertRow(p) \/ ResetRow(p)
    BY <1>4 DEF CalculateCksum, CheckRow, InsertRow, ResetRow, net
  <1>5. CASE MarkVerified(p) \/ CheckFile(p) \/ DeleteRow(p)
    BY <1>5 DEF MarkVerified, CheckFile, DeleteRow, net
  <1>10. CASE RemoveFile(p)
    <2>1. /\ spc[p] = "file_remove" /\ UNCHANGED net
          /\ Goto(p, "row_delete") \/ Goto(p, "recv")
      BY <1>10 DEF RemoveFile
    <2>2. QED BY <2>1, Zenon DEF net
  <1>6. CASE TestClientFiles(p) \/ PopClientFile(p) \/ TestFileMap(p) \/ PopFileMap(p)
    BY <1>6
       DEF TestClientFiles, PopClientFile, TestFileMap, PopFileMap, TestMap, PopResult, net
  <1>7. CASE SendRegistrationOk(p) \/ SendRegistrationErr(p)
    BY <1>7, ExpectedCodes
       DEF SendRegistrationOk, SendRegistrationErr, Respond, Status, ResponseOf,
           SERVER_CODE_REGISTRATION_OK, SERVER_CODE_REGISTRATION_ERR
  <1>8. CASE SendAESKey(p) \/ SendCksum(p)
    BY <1>8, ExpectedCodes
       DEF SendAESKey, SendCksum, Respond, KeyResponse, CksumResponse, ResponseOf,
           SERVER_CODE_SWITCHING_KEYS, SERVER_CODE_CKSUM_READY
  <1>9. CASE SendReceived(p)
    BY <1>9, ExpectedCodes
       DEF SendReceived, Respond, Status, ResponseOf, SERVER_CODE_MESSAGE_RECEIVED
  <1>11. CASE Unreachable(p)
    BY <1>11 DEF Unreachable, AtDatabase, net
  <1>12. QED
    BY <1>1, <1>2, <1>3, <1>4, <1>5, <1>6, <1>7, <1>8, <1>9, <1>10, <1>11 DEF HandlerStep

-----------------------------------------------------------------------------
(* A step is that of one run, or of the server process. *)

\* Nothing of a run, its session and its connection changes.
Still(q) ==
    /\ spc'[q] = spc[q] /\ req'[q] = req[q] /\ plain'[q] = plain[q] /\ cksum'[q] = cksum[q]
    /\ cpc'[q] = cpc[q] /\ cid'[q] = cid[q] /\ ckey'[q] = ckey[q] /\ cfile'[q] = cfile[q]
    /\ loaded'[q] = loaded[q] /\ trials'[q] = trials[q] /\ lines'[q] = lines[q]
    /\ c2s'[q] = c2s[q] /\ s2c'[q] = s2c[q] /\ open'[q] = open[q]

\* A session changes nothing of another run ...
LEMMA SessionIsLocal ==
  ASSUME TypeInv, NEW p \in Runs, SessionMoves(p), NEW q \in Runs \ {p}
  PROVE  Still(q)
  <1>0. /\ spc \in [Runs -> SessionStates]
        /\ req \in [Runs -> Request \cup {NoRequest}]
        /\ plain \in [Runs -> Blobs \cup {None}] /\ cksum \in [Runs -> Sums \cup {None}]
        /\ c2s \in [Runs -> Seq(Request)] /\ s2c \in [Runs -> Seq(Response)]
        /\ open \in [Runs -> SUBSET {"client", "server"}]
    BY DEF TypeInv, TypeOK, ServerTypeOK, NetTypeOK
  <1>1. UNCHANGED client /\ SessionStep(p)
    BY DEF SessionMoves
  <1>2. CASE Receive(p)
    <2>1. \E l : Goto(p, l)
      BY <1>2, ReceivedStarts
    <2>2. QED
      BY <1>0, <1>1, <1>2, <2>1 DEF Receive, Goto, Still, client, memory
  <1>3. CASE CloseSession(p)
    BY <1>0, <1>1, <1>3 DEF CloseSession, Goto, Still, client, memory
  <1>4. CASE HandlerStep(p)
    <2>1. \A l : Goto(p, l) => spc'[q] = spc[q]
      BY <1>0 DEF Goto
    <2>2. /\ spc'[q] = spc[q] /\ UNCHANGED <<req, c2s, open>>
          /\ s2c'[q] = s2c[q]
      <3>1. /\ \E l : Goto(p, l)
            /\ UNCHANGED <<req, c2s, open>>
            /\ UNCHANGED s2c \/ \E m : Answer(p, m)
        BY <1>4, GoesOn, ServesOn
      <3>2. s2c'[q] = s2c[q]
        BY <1>0, <3>1 DEF Answer
      <3>3. QED BY <2>1, <3>1, <3>2
    <2>3. CASE Decrypt(p)
      BY <1>0, <1>1, <2>2, <2>3 DEF Decrypt, Still, client, memory
    <2>4. CASE CalculateCksum(p)
      BY <1>0, <1>1, <2>2, <2>4 DEF CalculateCksum, Still, client, memory
    <2>5. CASE UNCHANGED <<plain, cksum>>
      BY <1>1, <2>2, <2>5 DEF Still, client, memory
    <2>6. HandlerStep(p) => Decrypt(p) \/ CalculateCksum(p) \/ UNCHANGED <<plain, cksum>>
      BY DEF HandlerStep, CheckDirectory, MakeDirectory, TestMap, Respond, locals,
             RegisterInMap, RegisterInDatabase, StoreKeys, SendRegistrationOk,
             SendRegistrationErr, SendAESKey, SendCksum, SendReceived,
             CheckRoot, MakeRoot, CheckClientDir, MakeClientDir, OpenFile, WriteFile,
             AddToFileMap, AddToClient, CheckRow, InsertRow, ResetRow, MarkVerified,
             CheckFile, RemoveFile, DeleteRow, TestClientFiles, PopClientFile,
             TestFileMap, PopFileMap, Unreachable
    <2>7. QED BY <1>4, <2>3, <2>4, <2>5, <2>6
  <1>5. QED BY <1>1, <1>2, <1>3, <1>4 DEF SessionStep

\* ... nor does a client, ...
LEMMA ClientIsLocal ==
  ASSUME TypeInv, NEW p \in Runs, ClientMoves(p), NEW q \in Runs \ {p}
  PROVE  Still(q)
  <1>0. /\ cpc \in [Runs -> ClientStates] /\ cid \in [Runs -> Ids \cup {None}]
        /\ ckey \in [Runs -> Keys \cup {None}] /\ cfile \in [Runs -> Files \cup {None}]
        /\ loaded \in [Runs -> Contents \cup {None}]
        /\ trials \in [Runs -> 1..NUMBER_OF_FILE_SENDING] /\ lines \in [Runs -> Seq(Line)]
        /\ c2s \in [Runs -> Seq(Request)] /\ s2c \in [Runs -> Seq(Response)]
        /\ open \in [Runs -> SUBSET {"client", "server"}]
    BY DEF TypeInv, TypeOK, ClientTypeOK, NetTypeOK
  <1>1. UNCHANGED <<spc, req, plain, cksum>> /\ ClientStep(p)
    BY DEF ClientMoves, server, locals
  <1> USE DEF Enter, End, Await, Still
  <1>2. CASE ReceiveRegistration(p) \/ SaveName(p) \/ SaveId(p)
    BY <1>0, <1>1, <1>2 DEF ReceiveRegistration, SaveName, SaveId, AppendLine, memory, net
  <1>3. CASE GenerateRSAKeyPair(p) \/ NotRegistered(p)
    BY <1>0, <1>1, <1>3 DEF GenerateRSAKeyPair, NotRegistered, net
  <1>4. CASE TruncateMeInfo(p) \/ WriteMeInfo(p)
    BY <1>0, <1>1, <1>4 DEF TruncateMeInfo, WriteMeInfo, memory, net
  <1>5. CASE SendPublicKey(p) \/ ReceiveKey(p)
    BY <1>0, <1>1, <1>5 DEF SendPublicKey, ReceiveKey, Send, memory
  <1>6. CASE SendFile(p) \/ NothingToSend(p)
    BY <1>0, <1>1, <1>6 DEF SendFile, NothingToSend, Send
  <1>7. CASE CksumSucceeded(p) \/ CksumFailedFinally(p)
    BY <1>0, <1>1, <1>7 DEF CksumSucceeded, CksumFailedFinally, ReceiveCksum, Send, memory
  <1>8. CASE CksumFailed(p)
    BY <1>0, <1>1, <1>8 DEF CksumFailed, ReceiveCksum
  <1>9. CASE NoCksum(p) \/ ReceiveAck(p) \/ ReceiveFinalAck(p)
    BY <1>0, <1>1, <1>9 DEF NoCksum, ReceiveAck, ReceiveFinalAck, ReceiveConfirmation
  <1>10. QED
    BY <1>1, <1>2, <1>3, <1>4, <1>5, <1>6, <1>7, <1>8, <1>9 DEF ClientStep

\* ... nor the start or the end of one.
LEMMA StartIsLocal ==
  ASSUME TypeInv, NEW p \in Runs, NEW q \in Runs \ {p},
         Connect(p) \/ ConnectInVain(p) \/ (Kill(p) /\ UNCHANGED server)
  PROVE  Still(q)
  <1>0. /\ cpc \in [Runs -> ClientStates] /\ cid \in [Runs -> Ids \cup {None}]
        /\ ckey \in [Runs -> Keys \cup {None}] /\ cfile \in [Runs -> Files \cup {None}]
        /\ loaded \in [Runs -> Contents \cup {None}]
        /\ trials \in [Runs -> 1..NUMBER_OF_FILE_SENDING] /\ lines \in [Runs -> Seq(Line)]
        /\ c2s \in [Runs -> Seq(Request)] /\ s2c \in [Runs -> Seq(Response)]
        /\ open \in [Runs -> SUBSET {"client", "server"}]
        /\ spc \in [Runs -> SessionStates]
    BY DEF TypeInv, TypeOK, ClientTypeOK, ServerTypeOK, NetTypeOK
  <1>1. CASE Connect(p)
    BY <1>0, <1>1 DEF Connect, Start, Accept, Enter, Goto, locals, Still
  <1>2. CASE ConnectInVain(p)
    BY <1>0, <1>2 DEF ConnectInVain, StartAlone, Enter, server, locals, memory, net, Still
  <1>3. CASE Kill(p) /\ UNCHANGED server
    BY <1>0, <1>3 DEF Kill, End, Enter, server, locals, Still
  <1>4. QED BY <1>1, <1>2, <1>3

\* What a step is to a run.
LEMMA StepOf ==
  ASSUME TypeInv, [Next]_vars, NEW q \in Runs
  PROVE  \/ Connect(q) \/ ConnectInVain(q) \/ SessionMoves(q) \/ ClientMoves(q)
         \/ Kill(q) /\ UNCHANGED server
         \/ Crash /\ UNCHANGED client
         \/ Still(q)
  <1>1. CASE UNCHANGED <<locals, client, net, spc>>
    BY <1>1 DEF Still, locals, client, memory, net
  <1>2. CASE UNCHANGED vars \/ (Restart /\ UNCHANGED client)
    BY <1>1, <1>2 DEF vars, server, Restart
  <1>3. ASSUME NEW p \in Runs,
               \/ Connect(p) \/ ConnectInVain(p) \/ SessionMoves(p) \/ ClientMoves(p)
               \/ Kill(p) /\ UNCHANGED server
        PROVE  p = q \/ Still(q)
    <2>1. SUFFICES ASSUME q \in Runs \ {p} PROVE Still(q)
      OBVIOUS
    <2>2. CASE SessionMoves(p)
      BY <2>1, <2>2, SessionIsLocal
    <2>3. CASE ClientMoves(p)
      BY <2>1, <2>3, ClientIsLocal
    <2>4. CASE Connect(p) \/ ConnectInVain(p) \/ (Kill(p) /\ UNCHANGED server)
      BY <2>1, <2>4, StartIsLocal
    <2>5. QED BY <1>3, <2>2, <2>3, <2>4
  <1>4. CASE \E p \in Runs :
                 \/ Connect(p) \/ ConnectInVain(p) \/ SessionMoves(p) \/ ClientMoves(p)
                 \/ Kill(p) /\ UNCHANGED server
    BY <1>3, <1>4
  <1>5. QED BY <1>2, <1>4 DEF Next

-----------------------------------------------------------------------------
(* The sessions *)

\* The handler of each request.
LEMMA HandlerOf ==
    /\ Handler(1100) = "register_map"
    /\ Handler(1101) = "keys"
    /\ Handler(1103) = "decrypt"
    /\ Handler(1104) = "verify"
    /\ Handler(1105) = "recv"
    /\ Handler(1106) = "file_check"
  BY DEF Handler, CLIENT_CODE_REGISTER, CLIENT_CODE_SEND_PUBLIC_KEY, CLIENT_CODE_SEND_FILE,
         CLIENT_CODE_CKSUM_OK, CLIENT_CODE_CKSUM_ERR, CLIENT_CODE_CKSUM_ERR_FINAL

\* A request of a registered client is never refused.
LEMMA ReceivedIsHandled ==
  ASSUME ~DbFaults, StepInv, NEW p \in Runs, Receive(p)
  PROVE  \/ spc'[p] = Handler(c2s[p][1].code)
         \/ c2s[p][1].code = 1100 /\ spc'[p] = "refuse"
  <1> DEFINE m == Head(c2s[p])
  <1>1. /\ c2s[p] \in Seq(Request) /\ c2s[p] # <<>> /\ m = c2s[p][1]
        /\ spc \in [Runs -> SessionStates]
        /\ AsksRegistered(p) /\ HostOf[p] \in Hosts
    BY StepTypes DEF Receive, StepInv, RunInv
  <1>2. CASE m.code = CLIENT_CODE_REGISTER
    <2>1. Goto(p, "refuse") \/ Goto(p, Handler(m.code))
      BY <1>2 DEF Receive
    <2>2. QED BY <1>1, <1>2, <2>1 DEF Goto, CLIENT_CODE_REGISTER
  <1>3. CASE m.code # CLIENT_CODE_REGISTER
    <2>0. 1 \in 1..Len(c2s[p]) /\ RegisteredAt[HostOf[p]] \subseteq Registered
      BY <1>1 DEF RegisteredAt
    <2>1. m.id \in Registered
      BY <1>1, <1>3, <2>0 DEF AsksRegistered
    <2>2. Dispatched(m.id) = {TRUE}
      BY <2>1 DEF Dispatched, client_exists_by_id, Selected, Registered
    <2>3. \E exists \in Dispatched(m.id) :
              Goto(p, IF exists = FALSE THEN "refuse" ELSE Handler(m.code))
      BY <1>3 DEF Receive
    <2>4. Goto(p, Handler(m.code))
      BY <2>2, <2>3
    <2>5. QED BY <1>1, <2>4 DEF Goto
  <1>4. QED BY <1>2, <1>3

\* A message that is alone in its channel is the first and leaves it empty.
LEMMA OnlyOne ==
  ASSUME NEW R, NEW s \in Seq(R), Len(s) = 1
  PROVE  Head(s) = s[1] /\ Tail(s) = <<>>
  <1>1. Tail(s) \in Seq(R) /\ Len(Tail(s)) = 0 /\ Head(s) = s[1]
    BY s # <<>>
  <1>2. QED BY <1>1, EmptySeq

\* Reading a request leaves fewer to read.
LEMMA FewerAsked ==
  ASSUME StepInv, NEW p \in Runs, c2s[p] # <<>>, c2s'[p] = Tail(c2s[p]),
         Registered \subseteq Registered'
  PROVE  /\ AsksRegistered(p)'
         /\ c2s'[p] # <<>> => Len(c2s'[p]) = 1 /\ c2s[p][1].code = CLIENT_CODE_CKSUM_ERR
  <1>1. AsksRegistered(p) /\ Queued(p) /\ c2s[p] \in Seq(Request) /\ HostOf[p] \in Hosts
    BY StepTypes DEF StepInv, RunInv
  <1>2. RegisteredAt[HostOf[p]] \subseteq RegisteredAt'[HostOf[p]]
    BY <1>1, RegisteredAtGrows
  <1>3. /\ Len(Tail(c2s[p])) = Len(c2s[p]) - 1
        /\ \A k \in 1..Len(Tail(c2s[p])) : k + 1 \in 1..Len(c2s[p])
                                            /\ Tail(c2s[p])[k] = c2s[p][k + 1]
    BY <1>1
  <1>4. AsksRegistered(p)'
    BY <1>1, <1>2, <1>3 DEF AsksRegistered
  <1>5. ASSUME c2s'[p] # <<>>
        PROVE  Len(c2s'[p]) = 1 /\ c2s[p][1].code = CLIENT_CODE_CKSUM_ERR
    <2>1. Len(c2s[p]) # 1
      BY <1>1, <1>5, OnlyOne
    <2>2. QED BY <1>1, <1>3, <2>1 DEF Queued
  <1>6. QED BY <1>4, <1>5

\* The steps of a session keep it in step with its client.
LEMMA SessionKeepsStep ==
  ASSUME ~DbFaults, StepInv, NEW p \in Runs, SessionStep(p), UNCHANGED cpc,
         Registered \subseteq Registered'
  PROVE  RunInv(p)'
  <1>0. /\ TypeInv
        /\ spc \in [Runs -> SessionStates]
        /\ c2s \in [Runs -> Seq(Request)] /\ s2c \in [Runs -> Seq(Response)]
        /\ open \in [Runs -> SUBSET {"client", "server"}]
        /\ ClientInStep(p) /\ AsksRegistered(p) /\ Connected(p) /\ Queued(p)
    BY StepTypes DEF StepInv, RunInv
  <1> USE DEF RunInv
  <1>1. CASE Receive(p)
    <2>1. /\ c2s'[p] = Tail(c2s[p]) /\ s2c' = s2c /\ c2s[p] # <<>> /\ spc[p] = "recv"
          /\ open' = open
      BY <1>0, <1>1 DEF Receive
    <2>2. \/ spc'[p] = Handler(c2s[p][1].code)
          \/ c2s[p][1].code = 1100 /\ spc'[p] = "refuse"
      BY <1>1, ReceivedIsHandled
    <2>3. c2s[p][1].code \in {1100, 1101, 1103, 1104, 1105, 1106}
      BY <1>0, <2>1, RequestFacts
    <2>4. /\ AsksRegistered(p)'
          /\ c2s'[p] # <<>> => Len(c2s'[p]) = 1 /\ c2s[p][1].code = CLIENT_CODE_CKSUM_ERR
      BY <2>1, FewerAsked
    <2>5. Queued(p)'
      BY <2>2, <2>4, HandlerOf DEF Queued, CLIENT_CODE_CKSUM_ERR
    <2>6. Connected(p)'
      BY <1>0, <2>1, <2>2, <2>3, HandlerOf DEF Connected
    <2>7. ASSUME "client" \in open[p]
          PROVE  InStep(cpc[p], spc'[p], c2s'[p], s2c'[p])
      <3>1. Asks(cpc[p], c2s[p]) /\ s2c[p] = <<>>
        BY <1>0, <2>1, <2>7
           DEF ClientInStep, InStep, Serves, Registering, Keying, Uploading, Storing, Deleting
      <3>2. QED
        BY <1>0, <2>1, <2>2, <3>1, HandlerOf, SMTT(30)
           DEF Asks, InStep, Serves, Registering, Keying, Uploading, Storing, Deleting,
               CLIENT_CODE_REGISTER, CLIENT_CODE_SEND_PUBLIC_KEY, CLIENT_CODE_SEND_FILE,
               CLIENT_CODE_CKSUM_OK, CLIENT_CODE_CKSUM_ERR, CLIENT_CODE_CKSUM_ERR_FINAL
    <2>8. ClientInStep(p)'
      BY <2>1, <2>7 DEF ClientInStep
    <2>9. QED BY <2>4, <2>5, <2>6, <2>8
  <1>2. CASE CloseSession(p)
    <2>1. spc'[p] = "none" /\ open'[p] = {} /\ c2s'[p] = <<>> /\ s2c' = s2c
          /\ spc[p] # "none" /\ "client" \notin open[p]
      BY <1>0, <1>2 DEF CloseSession, Goto
    <2>2. QED
      BY <1>0, <2>1 DEF ClientInStep, AsksRegistered, Connected, Queued
  <1>3. CASE HandlerStep(p)
    <2>1. PICK s \in SessionStates :
            /\ Goto(p, s)
            /\ spc[p] \notin {"none", "recv"}
            /\ UNCHANGED <<c2s, open>>
            /\ \/ /\ UNCHANGED s2c
                  /\ s # "recv" => \A l : Serves(l, spc[p]) => Serves(l, s)
               \/ /\ s = "recv"
                  /\ \E m : /\ Answer(p, m)
                            /\ \A l : Serves(l, spc[p]) => m.code \in Expected(l)
      BY <1>3, ServesOn
    <2>2. spc'[p] = s /\ c2s'[p] = c2s[p] /\ c2s[p] = <<>>
      BY <1>0, <2>1 DEF Goto, Queued
    <2>3. s # "none"
      <3>1. \E l : Serves(l, spc[p])
        BY <1>0, <2>1
           DEF Serves, SessionStates, Registering, Keying, Uploading, Storing, Deleting
      <3>2. QED
        BY <2>1, <3>1 DEF Serves, Registering, Keying, Uploading, Storing, Deleting
    <2>8. "client" \notin open[p] => s2c'[p] = s2c[p]
      BY <1>0, <2>1 DEF Answer
    <2>4. AsksRegistered(p)' /\ Connected(p)' /\ Queued(p)'
      BY <1>0, <2>1, <2>2, <2>3, <2>8 DEF AsksRegistered, Connected, Queued
    <2>5. ASSUME "client" \in open[p]
          PROVE  InStep(cpc[p], spc'[p], c2s'[p], s2c'[p])
      <3>1. Serves(cpc[p], spc[p]) /\ s2c[p] = <<>>
        BY <1>0, <2>1, <2>5 DEF ClientInStep, InStep
      <3>2. CASE UNCHANGED s2c
        BY <2>1, <2>2, <3>1, <3>2 DEF InStep
      <3>3. ASSUME s = "recv", NEW m, Answer(p, m), m.code \in Expected(cpc[p])
            PROVE  InStep(cpc[p], spc'[p], c2s'[p], s2c'[p])
        <4>1. s2c'[p] = <<m>>
          BY <1>0, <2>5, <3>1, <3>3 DEF Answer
        <4>2. QED BY <2>2, <3>3, <4>1 DEF InStep
      <3>4. QED BY <2>1, <3>1, <3>2, <3>3
    <2>6. ClientInStep(p)'
      BY <2>1, <2>5 DEF ClientInStep
    <2>7. QED BY <2>4, <2>6
  <1>4. QED BY <1>1, <1>2, <1>3 DEF SessionStep

-----------------------------------------------------------------------------
(* The clients *)

\* Nothing is under way on a connection.
Quiet(s, asked, answers) == s \in {"none", "recv"} /\ asked = <<>> /\ answers = <<>>

\* A client that is not waiting has nothing under way, ...
LEMMA QuietUnlessAwaiting ==
  ASSUME StepInv, NEW p \in Runs, "client" \in open[p], cpc[p] \in ClientStates \ Awaiting
  PROVE  Quiet(spc[p], c2s[p], s2c[p])
  <1>1. InStep(cpc[p], spc[p], c2s[p], s2c[p])
    BY DEF StepInv, RunInv, ClientInStep
  <1>2. ~Asks(cpc[p], c2s[p]) /\ ~Serves(cpc[p], spc[p])
    BY DEF Asks, Serves, Awaiting
  <1>3. QED BY <1>1, <1>2, ExpectedCodes DEF InStep, Quiet

\* ... nor has one that received what it waited for, or found its session gone.
LEMMA QuietAfterAwait ==
  ASSUME StepInv, NEW p \in Runs, "client" \in open[p], NEW l, Await(p, l)
  PROVE  /\ Quiet(spc[p], c2s[p], s2c'[p])
         /\ s2c[p] # <<>> => ResponseTo(p).code \in Expected(l)
  <1>0. /\ Connected(p) /\ Queued(p) /\ InStep(cpc[p], spc[p], c2s[p], s2c[p])
        /\ c2s[p] \in Seq(Request) /\ s2c \in [Runs -> Seq(Response)]
    BY StepTypes DEF StepInv, RunInv, ClientInStep
  <1>2. /\ cpc[p] = l
        /\ s2c[p] # <<>> \/ "server" \notin open[p]
        /\ s2c'[p] = IF s2c[p] = <<>> THEN s2c[p] ELSE Tail(s2c[p])
    BY <1>0 DEF Await
  <1>3. CASE s2c[p] = <<>>
    <2>1. spc[p] = "none" /\ c2s[p] = <<>>
      BY <1>0, <1>2, <1>3 DEF Connected, Queued
    <2>2. QED BY <1>2, <1>3, <2>1 DEF Quiet
  <1>4. CASE s2c[p] # <<>>
    <2>1. /\ c2s[p] = <<>> /\ spc[p] \in {"none", "recv"}
          /\ Len(s2c[p]) = 1 /\ s2c[p][1].code \in Expected(l)
      BY <1>0, <1>2, <1>4 DEF InStep
    <2>2. Tail(s2c[p]) = <<>> /\ ResponseTo(p) = s2c[p][1]
      BY <1>0, <1>4, <2>1, OnlyOne DEF ResponseTo
    <2>3. ResponseTo(p).code \in Expected(l)
      BY <2>1, <2>2
    <2>4. QED BY <1>2, <1>4, <2>1, <2>2, <2>3 DEF Quiet
  <1>5. QED BY <1>3, <1>4

\* A client that takes a step has not ended.
LEMMA ClientIsAlive ==
  ASSUME NEW p \in Runs, ClientStep(p)
  PROVE  cpc[p] \notin Ended \cup {"off"}
  BY DEF ClientStep, ReceiveRegistration, SaveName, SaveId, AppendLine, GenerateRSAKeyPair,
         NotRegistered, TruncateMeInfo, WriteMeInfo, SendPublicKey, ReceiveKey, SendFile,
         NothingToSend, CksumSucceeded, CksumFailed, CksumFailedFinally, ReceiveCksum,
         NoCksum, ReceiveAck, ReceiveFinalAck, ReceiveConfirmation, Await, Ended

\* A client takes a step with nothing under way but the response it receives.
LEMMA ClientStepIsQuiet ==
  ASSUME StepInv, NEW p \in Runs, ClientStep(p)
  PROVE  "client" \in open[p] /\ Quiet(spc[p], c2s[p], s2c'[p])
  <1>1. "client" \in open[p] /\ cpc[p] \in ClientStates
    BY ClientIsAlive, StepTypes DEF StepInv, RunInv, Connected
  <1>2. ASSUME NEW l, Await(p, l)
        PROVE  Quiet(spc[p], c2s[p], s2c'[p])
    BY <1>1, <1>2, QuietAfterAwait
  <1>3. CASE UNCHANGED s2c /\ cpc[p] \notin Awaiting
    BY <1>1, <1>3, QuietUnlessAwaiting
  <1>4. CASE \/ SaveName(p) \/ SaveId(p) \/ GenerateRSAKeyPair(p) \/ NotRegistered(p)
             \/ TruncateMeInfo(p) \/ WriteMeInfo(p) \/ SendPublicKey(p)
             \/ SendFile(p) \/ NothingToSend(p)
    <2>1. UNCHANGED s2c /\ cpc[p] \notin Awaiting
      BY <1>4
         DEF SaveName, SaveId, AppendLine, GenerateRSAKeyPair, NotRegistered, TruncateMeInfo,
             WriteMeInfo, SendPublicKey, SendFile, NothingToSend, net, Awaiting
    <2>2. QED BY <1>3, <2>1
  <1>5. CASE \E l : Await(p, l)
    BY <1>1, <1>2, <1>5
  <1>6. QED
    BY <1>1, <1>4, <1>5
       DEF ClientStep, ReceiveRegistration, ReceiveKey, CksumSucceeded, CksumFailed,
           CksumFailedFinally, ReceiveCksum, NoCksum, ReceiveAck, ReceiveFinalAck,
           ReceiveConfirmation

\* A client sends what it then waits for, on a connection with nothing under way.
LEMMA SendsInStep ==
  ASSUME StepInv, NEW p \in Runs, NEW l \in Awaiting, NEW m,
         Enter(p, l), Send(p, m), UNCHANGED <<open, clients, spc>>,
         "client" \in open[p], m.id \in RegisteredAt[HostOf[p]],
         Quiet(spc[p], c2s[p], s2c'[p]), Asks(l, <<m>>)
  PROVE  RunInv(p)'
  <1>0. /\ Connected(p)
        /\ c2s \in [Runs -> Seq(Request)] /\ cpc \in [Runs -> ClientStates]
        /\ RegisteredAt' = RegisteredAt
    BY StepTypes DEF StepInv, RunInv, RegisteredAt, Registered
  <1>1. /\ cpc'[p] = l /\ spc'[p] = spc[p] /\ open'[p] = open[p]
        /\ c2s'[p] = IF "server" \in open[p] THEN <<m>> ELSE <<>>
    BY <1>0 DEF Enter, Send, Quiet
  <1>2. Connected(p)'
    BY <1>0, <1>1 DEF Connected, Awaiting, Ended
  <1>3. AsksRegistered(p)'
    BY <1>0, <1>1 DEF AsksRegistered
  <1>4. ClientInStep(p)' /\ Queued(p)'
    BY <1>0, <1>1 DEF ClientInStep, Queued, Connected, InStep, Quiet
  <1>5. QED BY <1>2, <1>3, <1>4 DEF RunInv

\* A client goes on with nothing under way.
LEMMA StaysQuiet ==
  ASSUME StepInv, NEW p \in Runs, "client" \in open[p], cpc'[p] \notin Ended \cup {"off"},
         UNCHANGED <<c2s, open, clients, spc>>, Quiet(spc[p], c2s[p], s2c'[p])
  PROVE  RunInv(p)'
  <1>1. Connected(p) /\ AsksRegistered(p) /\ RegisteredAt' = RegisteredAt
    BY DEF StepInv, RunInv, RegisteredAt, Registered
  <1>2. QED
    BY <1>1 DEF RunInv, ClientInStep, AsksRegistered, Connected, Queued, InStep, Quiet

\* A client ends.
LEMMA EndsInStep ==
  ASSUME StepInv, NEW p \in Runs, NEW how \in Ended, End(p, how), UNCHANGED <<clients, spc>>,
         s2c'[p] = <<>>
  PROVE  RunInv(p)'
  <1>1. /\ RunInv(p) /\ RegisteredAt' = RegisteredAt
        /\ cpc \in [Runs -> ClientStates]
        /\ open \in [Runs -> SUBSET {"client", "server"}]
    BY StepTypes DEF StepInv, RegisteredAt, Registered
  <1>2. /\ "client" \notin open'[p] /\ UNCHANGED <<c2s, spc>>
        /\ "server" \in open'[p] <=> "server" \in open[p]
        /\ cpc'[p] \in Ended /\ cpc'[p] # "off"
    BY <1>1 DEF End, Enter, Ended
  <1>3. QED
    BY <1>1, <1>2 DEF RunInv, ClientInStep, AsksRegistered, Connected, Queued

\* The client sends 1105 and the file again.
LEMMA CksumFailedInStep ==
  ASSUME StepInv, NEW p \in Runs, CksumFailed(p), UNCHANGED <<clients, spc>>,
         cid[p] \in RegisteredAt[HostOf[p]], "client" \in open[p],
         Quiet(spc[p], c2s[p], s2c'[p])
  PROVE  RunInv(p)'
  <1>0. /\ Connected(p) /\ RegisteredAt' = RegisteredAt
        /\ c2s \in [Runs -> Seq(Request)] /\ cpc \in [Runs -> ClientStates]
    BY StepTypes DEF StepInv, RunInv, RegisteredAt, Registered
  <1>1. PICK content :
            c2s' = [c2s EXCEPT ![p] =
                       IF "server" \notin open[p] THEN @
                       ELSE @ \o <<CksumRequest(CLIENT_CODE_CKSUM_ERR, cid[p],
                                                ResponseTo(p).file),
                                   FileRequest(cid[p], cfile[p], ckey[p], content)>>]
    BY DEF CksumFailed
  <1> DEFINE m == CksumRequest(CLIENT_CODE_CKSUM_ERR, cid[p], ResponseTo(p).file)
  <1> DEFINE n == FileRequest(cid[p], cfile[p], ckey[p], content)
  <1>2. /\ m.id = cid[p] /\ n.id = cid[p]
        /\ m.code = CLIENT_CODE_CKSUM_ERR /\ n.code = CLIENT_CODE_SEND_FILE
    BY DEF CksumRequest, FileRequest, RequestOf
  <1>3. c2s'[p] = IF "server" \notin open[p] THEN <<>> ELSE <<m, n>>
    BY <1>0, <1>1 DEF Quiet
  <1> HIDE DEF m, n
  <1>4. cpc'[p] = "await_file" /\ spc'[p] = spc[p] /\ open'[p] = open[p]
    BY <1>0 DEF CksumFailed, Enter
  <1>5. Connected(p)'
    BY <1>0, <1>4 DEF Connected, Ended
  <1>6. AsksRegistered(p)'
    BY <1>0, <1>2, <1>3 DEF AsksRegistered
  <1>7. ClientInStep(p)' /\ Queued(p)'
    BY <1>0, <1>2, <1>3, <1>4 DEF ClientInStep, Queued, Connected, InStep, Asks, Quiet
  <1>8. QED BY <1>5, <1>6, <1>7 DEF RunInv

\* The steps of a client keep it in step with its session.
LEMMA ClientKeepsStep ==
  ASSUME StepInv, NEW p \in Runs, ClientStep(p), UNCHANGED <<clients, spc>>
  PROVE  RunInv(p)'
  <1>0. /\ TypeInv /\ MemoryRegistered
        /\ cpc \in [Runs -> ClientStates]
        /\ cid \in [Runs -> Ids \cup {None}]
    BY StepTypes DEF StepInv, IdInv, ClientIdInv
  <1>1. "client" \in open[p] /\ Quiet(spc[p], c2s[p], s2c'[p])
    BY ClientStepIsQuiet
  <1>2. cid[p] \in Ids => cid[p] \in RegisteredAt[HostOf[p]]
    BY <1>0, NoneAssumption DEF MemoryRegistered, Ids
  <1>3. CASE \E how \in Ended : End(p, how)
    BY <1>1, <1>3, EndsInStep DEF Quiet
  <1>4. CASE \/ SaveName(p) \/ SaveId(p) \/ GenerateRSAKeyPair(p)
             \/ TruncateMeInfo(p) \/ WriteMeInfo(p)
    <2>1. UNCHANGED net /\ cpc'[p] \notin Ended \cup {"off"}
      BY <1>0, <1>4
         DEF SaveName, SaveId, AppendLine, GenerateRSAKeyPair, TruncateMeInfo, WriteMeInfo,
             Enter, Ended
    <2>2. QED BY <1>1, <2>1, StaysQuiet DEF net
  <1>5. CASE ReceiveRegistration(p) \/ ReceiveKey(p)
    <2>1. UNCHANGED <<c2s, open>> /\ cpc'[p] \notin Ended \cup {"off"}
      BY <1>0, <1>5 DEF ReceiveRegistration, ReceiveKey, Enter, Ended
    <2>2. QED BY <1>1, <2>1, StaysQuiet
  <1>6. CASE SendPublicKey(p)
    <2> DEFINE m == PublicKeyRequest(cid[p], NameOf[HostOf[p]])
    <2>1. /\ Enter(p, "await_key") /\ Send(p, m) /\ UNCHANGED <<open, s2c>>
          /\ cpc[p] = "send_key" /\ "await_key" \in Awaiting
      BY <1>6 DEF SendPublicKey, Awaiting
    <2>2. m.id \in RegisteredAt[HostOf[p]] /\ Asks("await_key", <<m>>)
      BY <1>0, <1>2, <2>1, KnowsNow DEF PublicKeyRequest, RequestOf, Asks
    <2> HIDE DEF m
    <2>3. QED BY <1>1, <2>1, <2>2, SendsInStep
  <1>7. CASE SendFile(p)
    <2>1. PICK file, content : Send(p, FileRequest(cid[p], file, ckey[p], content))
      BY <1>7 DEF SendFile
    <2> DEFINE m == FileRequest(cid[p], file, ckey[p], content)
    <2>2. /\ Enter(p, "await_file") /\ UNCHANGED <<open, s2c>>
          /\ cpc[p] = "load" /\ "await_file" \in Awaiting
      BY <1>7 DEF SendFile, Awaiting
    <2>3. m.id \in RegisteredAt[HostOf[p]] /\ Asks("await_file", <<m>>)
      BY <1>0, <1>2, <2>2, KnowsNow DEF FileRequest, RequestOf, Asks
    <2>4. Send(p, m)
      BY <2>1
    <2> HIDE DEF m
    <2>5. QED BY <1>1, <2>2, <2>3, <2>4, SendsInStep
  <1>8. ASSUME ReceiveCksum(p)
        PROVE  cid[p] \in RegisteredAt[HostOf[p]]
    BY <1>0, <1>2, <1>8, KnowsNow DEF ReceiveCksum, Await
  <1>9. ASSUME NEW l \in Awaiting, NEW code, ReceiveCksum(p), UNCHANGED open,
               Enter(p, l), Send(p, CksumRequest(code, cid[p], ResponseTo(p).file)),
               \/ l = "await_ack" /\ code = CLIENT_CODE_CKSUM_OK
               \/ l = "await_final" /\ code = CLIENT_CODE_CKSUM_ERR_FINAL
        PROVE  RunInv(p)'
    <2> DEFINE m == CksumRequest(code, cid[p], ResponseTo(p).file)
    <2>1. m.id \in RegisteredAt[HostOf[p]] /\ Asks(l, <<m>>)
      BY <1>8, <1>9 DEF CksumRequest, RequestOf, Asks
    <2>2. Send(p, m)
      BY <1>9
    <2> HIDE DEF m
    <2>3. QED BY <1>1, <1>8, <1>9, <2>1, <2>2, SendsInStep
  <1>10. CASE CksumSucceeded(p) \/ CksumFailedFinally(p)
    BY <1>9, <1>10 DEF CksumSucceeded, CksumFailedFinally, Awaiting
  <1>11. CASE CksumFailed(p)
    <2>1. ReceiveCksum(p)
      BY <1>11 DEF CksumFailed
    <2>2. QED BY <1>1, <1>8, <1>11, <2>1, CksumFailedInStep
  <1>12. QED
    BY <1>3, <1>4, <1>5, <1>6, <1>7, <1>10, <1>11
       DEF ClientStep, NotRegistered, NothingToSend, NoCksum, ReceiveAck, ReceiveFinalAck,
           ReceiveConfirmation, Ended

-----------------------------------------------------------------------------
(* What is sent *)

\* A session at l of run p answers its request with m.
Answers(p, m) ==
    \/ spc[p] = "register_ok" /\ m = Status(SERVER_CODE_REGISTRATION_OK, p)
    \/ spc[p] = "refuse" /\ m = Status(SERVER_CODE_REGISTRATION_ERR, None)
    \/ spc[p] = "send_key" /\ m = KeyResponse(req[p].id, p)
    \/ spc[p] = "send_cksum" /\ m = CksumResponse(req[p].id, req[p].file, cksum[p])
    \/ spc[p] = "received" /\ m = Status(SERVER_CODE_MESSAGE_RECEIVED, req[p].id)

\* A session takes its steps when nothing is on its way to its client, and puts
\* at most one response on its way, unless the client is gone.
LEMMA SessionAnswers ==
  ASSUME StepInv, NEW p \in Runs, SessionStep(p)
  PROVE  /\ s2c[p] = <<>>
         /\ \/ s2c'[p] = <<>>
            \/ \E m : /\ s2c'[p] = <<m>> /\ Answers(p, m)
                      /\ "client" \in open[p] /\ spc'[p] = "recv"
                      /\ UNCHANGED <<stored, maps, locals, attested, c2s, open>>
  <1>0. /\ Connected(p) /\ ClientInStep(p) /\ Queued(p)
        /\ s2c \in [Runs -> Seq(Response)] /\ spc \in [Runs -> SessionStates]
    BY StepTypes DEF StepInv, RunInv
  <1>1. s2c[p] = <<>>
    <2>1. CASE Receive(p)
      BY <1>0, <2>1 DEF Connected, ClientInStep, InStep, Receive
    <2>2. CASE CloseSession(p)
      BY <1>0, <2>2 DEF Connected, CloseSession
    <2>3. CASE HandlerStep(p)
      <3>1. spc[p] \notin {"none", "recv"}
        BY <2>3, ServesOn
      <3>2. QED BY <1>0, <3>1 DEF Connected, ClientInStep, InStep
    <2>4. QED BY <2>1, <2>2, <2>3 DEF SessionStep
  <1>2. ASSUME NEW l, NEW m, Respond(p, l, m), spc[p] = l => Answers(p, m)
        PROVE  \/ s2c'[p] = <<>>
               \/ \E n : /\ s2c'[p] = <<n>> /\ Answers(p, n)
                         /\ "client" \in open[p] /\ spc'[p] = "recv"
                         /\ UNCHANGED <<stored, maps, locals, attested, c2s, open>>
    <2>1. /\ spc[p] = l /\ spc'[p] = "recv"
          /\ UNCHANGED <<stored, maps, locals, attested, c2s, open>>
          /\ s2c'[p] = IF "client" \in open[p] THEN <<m>> ELSE <<>>
      BY <1>0, <1>1, <1>2 DEF Respond, Goto, Answer
    <2>2. QED BY <1>2, <2>1
  <1>3. CASE s2c' = s2c
    BY <1>1, <1>3
  <1>4. ASSUME \/ SendRegistrationOk(p) \/ SendRegistrationErr(p) \/ SendAESKey(p)
               \/ SendCksum(p) \/ SendReceived(p)
        PROVE  \E l, m : Respond(p, l, m) /\ (spc[p] = l => Answers(p, m))
    <2>1. CASE SendRegistrationOk(p)
      BY <2>1 DEF SendRegistrationOk, Answers
    <2>2. CASE SendRegistrationErr(p)
      BY <2>2 DEF SendRegistrationErr, Answers
    <2>3. CASE SendAESKey(p)
      BY <2>3 DEF SendAESKey, Answers
    <2>4. CASE SendCksum(p)
      BY <2>4 DEF SendCksum, Answers
    <2>5. CASE SendReceived(p)
      BY <2>5 DEF SendReceived, Answers
    <2>6. QED BY <1>4, <2>1, <2>2, <2>3, <2>4, <2>5
  <1>5. CASE \/ SendRegistrationOk(p) \/ SendRegistrationErr(p) \/ SendAESKey(p)
             \/ SendCksum(p) \/ SendReceived(p)
    BY <1>1, <1>2, <1>4, <1>5
  <1>6. SessionStep(p) => \/ s2c' = s2c \/ SendRegistrationOk(p) \/ SendRegistrationErr(p)
                          \/ SendAESKey(p) \/ SendCksum(p) \/ SendReceived(p)
    BY DEF SessionStep, HandlerStep, Receive, CloseSession, CheckDirectory, MakeDirectory,
           TestMap, net, RegisterInMap, RegisterInDatabase, StoreKeys, Decrypt,
           CheckRoot, MakeRoot, CheckClientDir, MakeClientDir, OpenFile, WriteFile,
           AddToFileMap, AddToClient, CalculateCksum, CheckRow, InsertRow, ResetRow,
           MarkVerified, CheckFile, RemoveFile, DeleteRow, TestClientFiles,
           PopClientFile, TestFileMap, PopFileMap, Unreachable
  <1>7. QED BY <1>1, <1>3, <1>5, <1>6

\* A client makes its request m in this step.
Asked(p, m) ==
    \/ /\ cpc[p] = "send_key" /\ cpc'[p] = "await_key"
       /\ m = PublicKeyRequest(cid[p], NameOf[HostOf[p]])
    \/ /\ cpc[p] = "load" /\ ckey[p] # None /\ cpc'[p] = "await_file"
       /\ \E content : m = FileRequest(cid[p], cfile'[p], ckey[p], content)
    \/ /\ ReceiveCksum(p) /\ SameCksum(p) /\ cpc'[p] = "await_ack"
       /\ m = CksumRequest(CLIENT_CODE_CKSUM_OK, cid[p], ResponseTo(p).file)
    \/ /\ ReceiveCksum(p) /\ cpc'[p] = "await_final"
       /\ m = CksumRequest(CLIENT_CODE_CKSUM_ERR_FINAL, cid[p], ResponseTo(p).file)
    \/ /\ ReceiveCksum(p) /\ cpc'[p] = "await_file"
       /\ \/ m = CksumRequest(CLIENT_CODE_CKSUM_ERR, cid[p], ResponseTo(p).file)
          \/ \E content : m = FileRequest(cid[p], cfile'[p], ckey[p], content)

\* A client takes its steps when its session has read every request; what is on
\* its way then is what it asked in this step.
LEMMA ClientAsks ==
  ASSUME StepInv, NEW p \in Runs, ClientStep(p)
  PROVE  /\ "client" \in open[p] /\ Quiet(spc[p], c2s[p], s2c'[p])
         /\ \A k \in 1..Len(c2s'[p]) : Asked(p, c2s'[p][k])
         /\ c2s'[p] # <<>> => open' = open /\ spc[p] # "none"
  <1>0. /\ "client" \in open[p] /\ Quiet(spc[p], c2s[p], s2c'[p]) /\ Connected(p)
        /\ cpc \in [Runs -> ClientStates] /\ c2s \in [Runs -> Seq(Request)]
        /\ cfile \in [Runs -> Files \cup {None}]
    BY ClientStepIsQuiet, StepTypes
       DEF StepInv, RunInv, TypeInv, TypeOK, ClientTypeOK
  <1> DEFINE Goal == /\ \A k \in 1..Len(c2s'[p]) : Asked(p, c2s'[p][k])
                     /\ c2s'[p] # <<>> => open' = open /\ spc[p] # "none"
  <1>1. CASE UNCHANGED c2s
    BY <1>0, <1>1 DEF Quiet
  <1>2. ASSUME NEW m, Send(p, m), Asked(p, m), UNCHANGED open
        PROVE  Goal
    <2>1. c2s'[p] = IF "server" \in open[p] THEN <<m>> ELSE <<>>
      BY <1>0, <1>2 DEF Send, Quiet
    <2>2. QED BY <1>0, <1>2, <2>1 DEF Connected
  <1>3. CASE SendPublicKey(p)
    BY <1>0, <1>2, <1>3 DEF SendPublicKey, Enter, Asked
  <1>4. CASE SendFile(p)
    <2>1. PICK file, content :
              /\ cfile' = [cfile EXCEPT ![p] = file]
              /\ Send(p, FileRequest(cid[p], file, ckey[p], content))
      BY <1>4 DEF SendFile
    <2> DEFINE m == FileRequest(cid[p], file, ckey[p], content)
    <2>2. Asked(p, m)
      BY <1>0, <1>4, <2>1 DEF SendFile, Enter, Asked
    <2>3. UNCHANGED open /\ Send(p, m)
      BY <1>4, <2>1 DEF SendFile
    <2> HIDE DEF m
    <2>4. Goal
      BY <1>2, <2>2, <2>3
    <2>5. QED BY <1>0, <2>4
  <1>5. CASE CksumSucceeded(p)
    BY <1>0, <1>2, <1>5 DEF CksumSucceeded, Enter, Asked
  <1>6. CASE CksumFailedFinally(p)
    BY <1>0, <1>2, <1>6 DEF CksumFailedFinally, Enter, Asked
  <1>7. CASE CksumFailed(p)
    <2>1. PICK content :
              c2s' = [c2s EXCEPT ![p] =
                         IF "server" \notin open[p] THEN @
                         ELSE @ \o <<CksumRequest(CLIENT_CODE_CKSUM_ERR, cid[p],
                                                  ResponseTo(p).file),
                                     FileRequest(cid[p], cfile[p], ckey[p], content)>>]
      BY <1>7 DEF CksumFailed
    <2> DEFINE m == CksumRequest(CLIENT_CODE_CKSUM_ERR, cid[p], ResponseTo(p).file)
    <2> DEFINE n == FileRequest(cid[p], cfile[p], ckey[p], content)
    <2>2. Asked(p, m) /\ Asked(p, n) /\ UNCHANGED open
      BY <1>0, <1>7 DEF CksumFailed, Enter, Asked
    <2>3. c2s'[p] = IF "server" \notin open[p] THEN <<>> ELSE <<m, n>>
      BY <1>0, <2>1 DEF Quiet
    <2> HIDE DEF m, n
    <2>4. QED BY <1>0, <2>2, <2>3 DEF Connected
  <1>8. ClientStep(p) => \/ UNCHANGED c2s \/ SendPublicKey(p) \/ SendFile(p)
                         \/ CksumSucceeded(p) \/ CksumFailed(p) \/ CksumFailedFinally(p)
    BY DEF ClientStep, ReceiveRegistration, SaveName, SaveId, AppendLine,
           GenerateRSAKeyPair, NotRegistered, TruncateMeInfo, WriteMeInfo, ReceiveKey,
           NothingToSend, NoCksum, ReceiveAck, ReceiveFinalAck, ReceiveConfirmation, End, net
  <1>9. QED BY <1>0, <1>1, <1>3, <1>4, <1>5, <1>6, <1>7, <1>8

-----------------------------------------------------------------------------
\* The initial states are in step.
LEMMA InitInStep == Init => StepInv
  BY InitIds
     DEF Init, NetInit, ServerInit, ClientInit, StepInv, RunInv, ClientInStep,
         AsksRegistered, Connected, Queued

\* The step that starts a run leaves it in step.
LEMMA ConnectInStep ==
  ASSUME StepInv, NEW p \in Runs, Connect(p)
  PROVE  RunInv(p)'
  <1> DEFINE m == RegisterRequest(NameOf[HostOf[p]])
  <1>0. /\ Connected(p)
        /\ cpc \in [Runs -> ClientStates] /\ spc \in [Runs -> SessionStates]
        /\ c2s \in [Runs -> Seq(Request)]
        /\ open \in [Runs -> SUBSET {"client", "server"}]
    BY StepTypes DEF StepInv, RunInv
  <1>1. cpc[p] = "off" /\ s2c[p] = <<>>
    BY <1>0 DEF Connected, Connect, Start, Ended
  <1>2. /\ spc'[p] = "recv" /\ cpc'[p] = "await_reg" /\ open'[p] = {"client", "server"}
        /\ c2s'[p] = <<m>> /\ s2c'[p] = <<>>
    BY <1>0, <1>1 DEF Connect, Start, Accept, Goto, Enter
  <1>3. Asks("await_reg", <<m>>) /\ m.code = CLIENT_CODE_REGISTER
    BY DEF RegisterRequest, RequestOf, Asks
  <1> HIDE DEF m
  <1>4. QED
    BY <1>2, <1>3
       DEF RunInv, ClientInStep, InStep, AsksRegistered, Connected, Queued, Ended

\* The crash of the server leaves every run in step.
LEMMA CrashInStep ==
  ASSUME StepInv, Crash, UNCHANGED client, NEW q \in Runs
  PROVE  RunInv(q)'
  <1>1. /\ spc'[q] = "none" /\ open'[q] = open[q] \ {"server"}
        /\ c2s'[q] = <<>> /\ s2c'[q] \in {s2c[q], <<>>} /\ cpc' = cpc
    BY DEF Crash, client
  <1>2. RunInv(q)
    BY DEF StepInv
  <1>3. ASSUME "client" \in open[q]
        PROVE  InStep(cpc[q], "none", <<>>, s2c'[q])
    BY <1>1, <1>2, <1>3 DEF RunInv, ClientInStep, InStep
  <1>4. QED
    BY <1>1, <1>2, <1>3 DEF RunInv, ClientInStep, AsksRegistered, Connected, Queued

\* A run of which nothing changes stays in step.
LEMMA OthersStay ==
  ASSUME StepInv, NEW q \in Runs, Still(q), Registered \subseteq Registered'
  PROVE  RunInv(q)'
  <1>1. RunInv(q) /\ HostOf[q] \in Hosts
    BY ConstantsAssumption DEF StepInv
  <1>2. RegisteredAt[HostOf[q]] \subseteq RegisteredAt'[HostOf[q]]
    BY <1>1, RegisteredAtGrows
  <1>3. QED
    BY <1>1, <1>2 DEF Still, RunInv, ClientInStep, AsksRegistered, Connected, Queued

\* StepInv is inductive when no transaction fails.
LEMMA NextInStep ==
  ASSUME ~DbFaults, StepInv, [Next]_vars
  PROVE  StepInv'
  <1>0. TypeInv /\ IdInv' /\ Registered \subseteq Registered'
    BY NextKeepsIds, RegisteredGrows DEF StepInv, IdInv, OwnInv
  <1>1. SUFFICES ASSUME NEW p \in Runs PROVE RunInv(p)'
    BY <1>0 DEF StepInv
  <1>2. CASE Connect(p)
    BY <1>2, ConnectInStep
  <1>3. CASE ConnectInVain(p)
    <2>1. /\ cpc[p] = "off" /\ cpc' = [cpc EXCEPT ![p] = "stopped"]
          /\ UNCHANGED <<spc, clients, c2s, s2c, open>>
      BY <1>3 DEF ConnectInVain, StartAlone, Enter, net, server, stored
    <2>2. QED
      BY <1>0, <2>1, StepTypes
         DEF StepInv, RunInv, ClientInStep, AsksRegistered, Connected, Queued, Ended,
             RegisteredAt, Registered
  <1>4. CASE SessionMoves(p)
    BY <1>0, <1>4, SessionKeepsStep DEF SessionMoves, client
  <1>5. CASE ClientMoves(p)
    BY <1>5, ClientKeepsStep DEF ClientMoves, server, stored
  <1>6. CASE Kill(p) /\ UNCHANGED server
    BY <1>6, EndsInStep, StepTypes DEF Kill, server, stored, Ended
  <1>7. CASE Crash /\ UNCHANGED client
    BY <1>7, CrashInStep
  <1>8. CASE Still(p)
    BY <1>0, <1>8, OthersStay
  <1>9. QED
    BY <1>0, <1>2, <1>3, <1>4, <1>5, <1>6, <1>7, <1>8, StepOf

\* When no transaction fails, a client reads only responses to what it waits
\* for: handleResponse, which looks at nothing but the code, is never misled.
THEOREM ResponsesInStep ==
  ASSUME ~DbFaults
  PROVE  Spec => []ResponseInStep
  <1>1. StepInv /\ [Next]_vars => StepInv'
    BY NextInStep
  <1>2. StepInv => ResponseInStep
    <2>1. SUFFICES ASSUME StepInv, NEW p \in Runs, "client" \in open[p], s2c[p] # <<>>
                   PROVE  Len(s2c[p]) = 1 /\ Head(s2c[p]).code \in Expected(cpc[p])
      BY DEF ResponseInStep
    <2>2. Len(s2c[p]) = 1 /\ s2c[p][1].code \in Expected(cpc[p])
      BY <2>1 DEF StepInv, RunInv, ClientInStep, InStep
    <2>3. s2c[p] \in Seq(Response)
      BY <2>1, StepTypes
    <2>4. Head(s2c[p]) = s2c[p][1]
      BY <2>2, <2>3, OnlyOne
    <2>5. QED BY <2>2, <2>4
  <1>3. QED BY <1>1, <1>2, InitInStep, PTL DEF Spec
=============================================================================
