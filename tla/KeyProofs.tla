------------------------------ MODULE KeyProofs ------------------------------
(***************************************************************************)
(* Names, AES keys and ids.  When the runs that are under way together     *)
(* have different names, no name is registered twice and no file is        *)
(* decrypted with another key than the client's.  When they are in         *)
(* different directories, a me.info keeps the id that it has, and the id   *)
(* of every row reaches its client.                                        *)
(***************************************************************************)
EXTENDS StepProofs

MyName(p) == NameOf[HostOf[p]]

-----------------------------------------------------------------------------
(* What a run sends, and is sent, is its own. *)

\* A request of run p has the name of its directory and the key of the run.
Mine(p, m) ==
    /\ m.code \in {CLIENT_CODE_REGISTER, CLIENT_CODE_SEND_PUBLIC_KEY} => m.name = MyName(p)
    /\ m.code = CLIENT_CODE_SEND_FILE => m.key = p

\* Where a client has its AES key.
Keyed == {"load", "await_file", "await_ack", "await_final"}

MineIn(p) ==
    /\ \A k \in 1..Len(c2s[p]) : Mine(p, c2s[p][k])
    /\ spc[p] \notin {"none", "recv"} => Mine(p, req[p])
    /\ spc[p] \in Acting => req[p].id \in RegisteredAt[HostOf[p]]
    /\ \A k \in 1..Len(s2c[p]) : s2c[p][k].code = SERVER_CODE_SWITCHING_KEYS
                                     => s2c[p][k].key = p
    /\ ckey[p] \in {None, p}
    /\ ckey[p] # None => cpc[p] \in Keyed

MineInv == StepInv /\ \A p \in Runs : MineIn(p)

\* A session reads requests of its run, and answers with its key.
LEMMA SessionKeepsMine ==
  ASSUME ~DbFaults, MineInv, NEW p \in Runs, SessionMoves(p), Registered \subseteq Registered'
  PROVE  MineIn(p)'
  <1>0. /\ StepInv /\ TypeInv /\ MineIn(p) /\ AsksRegistered(p) /\ SessionStep(p)
        /\ HostOf[p] \in Hosts /\ UNCHANGED <<cpc, ckey>>
        /\ spc \in [Runs -> SessionStates] /\ req \in [Runs -> Request \cup {NoRequest}]
        /\ c2s \in [Runs -> Seq(Request)] /\ s2c \in [Runs -> Seq(Response)]
    BY StepTypes DEF MineInv, StepInv, RunInv, SessionMoves, client, memory
  <1>1. RegisteredAt[HostOf[p]] \subseteq RegisteredAt'[HostOf[p]]
    BY <1>0, RegisteredAtGrows
  <1>2. \A k \in 1..Len(s2c'[p]) : s2c'[p][k].code = SERVER_CODE_SWITCHING_KEYS
                                       => s2c'[p][k].key = p
    <2>1. \A m : Answers(p, m) /\ m.code = SERVER_CODE_SWITCHING_KEYS => m.key = p
      BY DEF Answers, Status, KeyResponse, CksumResponse, ResponseOf,
             SERVER_CODE_REGISTRATION_OK, SERVER_CODE_REGISTRATION_ERR,
             SERVER_CODE_SWITCHING_KEYS, SERVER_CODE_CKSUM_READY,
             SERVER_CODE_MESSAGE_RECEIVED
    <2>2. s2c'[p] = <<>> \/ \E m : s2c'[p] = <<m>> /\ Answers(p, m)
      BY <1>0, SessionAnswers
    <2>3. CASE s2c'[p] = <<>>
      BY <2>3
    <2>4. CASE s2c'[p] # <<>>
      <3>1. PICK m : s2c'[p] = <<m>> /\ Answers(p, m)
        BY <2>2, <2>4
      <3>2. Len(s2c'[p]) = 1 /\ s2c'[p][1] = m
        BY <3>1
      <3>3. QED BY <2>1, <3>1, <3>2
    <2>5. QED BY <2>3, <2>4
  <1>3. SUFFICES /\ \A k \in 1..Len(c2s'[p]) : Mine(p, c2s'[p][k])
                 /\ spc'[p] \notin {"none", "recv"} => Mine(p, req'[p])
                 /\ spc'[p] \in Acting => req'[p].id \in RegisteredAt'[HostOf[p]]
    BY <1>0, <1>2 DEF MineIn, Mine
  <1>4. CASE Receive(p)
    <2>1. /\ c2s'[p] = Tail(c2s[p]) /\ req'[p] = Head(c2s[p]) /\ c2s[p] # <<>>
      BY <1>0, <1>4 DEF Receive
    <2>2. /\ Head(c2s[p]) = c2s[p][1] /\ 1 \in 1..Len(c2s[p])
          /\ \A k \in 1..Len(Tail(c2s[p])) : k + 1 \in 1..Len(c2s[p])
                                              /\ Tail(c2s[p])[k] = c2s[p][k + 1]
      BY <1>0, <2>1
    <2>3. c2s[p][1].code = CLIENT_CODE_REGISTER => spc'[p] \in {"refuse", "register_map"}
      BY <1>0, <1>4, ReceivedIsHandled, HandlerOf DEF CLIENT_CODE_REGISTER
    <2>4. spc'[p] \in Acting => req'[p].id \in RegisteredAt[HostOf[p]]
      BY <1>0, <2>1, <2>2, <2>3 DEF Acting, Registering, AsksRegistered
    <2>5. QED BY <1>0, <1>1, <2>1, <2>2, <2>4 DEF MineIn
  <1>5. CASE CloseSession(p)
    BY <1>0, <1>5 DEF CloseSession, Goto, Acting
  <1>6. CASE HandlerStep(p)
    <2>1. PICK l \in SessionStates :
              /\ Goto(p, l)
              /\ l = "recv" \/ (l \in Acting => spc[p] \in Acting)
              /\ UNCHANGED <<up, req>>
      BY <1>0, <1>6, GoesOn
    <2>2. spc[p] \notin {"none", "recv"} /\ UNCHANGED c2s
      BY <1>6, ServesOn
    <2>3. QED BY <1>0, <1>1, <2>1, <2>2 DEF MineIn, Goto, Acting
  <1>7. QED BY <1>0, <1>4, <1>5, <1>6 DEF SessionStep

\* The AES key that a client receives is that of its run, or there is none.
LEMMA ReceivedKey ==
  ASSUME StepInv, NEW p \in Runs, MineIn(p), "client" \in open[p], Await(p, "await_key")
  PROVE  ResponseTo(p).key = IF s2c[p] = <<>> THEN None ELSE p
  <1>1. CASE s2c[p] = <<>>
    BY <1>1 DEF ResponseTo, NoResponse, Status, ResponseOf
  <1>2. CASE s2c[p] # <<>>
    <2>1. ResponseTo(p).code = SERVER_CODE_SWITCHING_KEYS
      BY <1>2, QuietAfterAwait, ExpectedCodes DEF SERVER_CODE_SWITCHING_KEYS
    <2>2. s2c[p] \in Seq(Response)
      BY StepTypes
    <2>3. ResponseTo(p) = s2c[p][1] /\ 1 \in 1..Len(s2c[p])
      BY <1>2, <2>2 DEF ResponseTo
    <2>4. QED BY <1>2, <2>1, <2>3 DEF MineIn
  <1>3. QED BY <1>1, <1>2

\* A client has a key from when it receives one to its end.
LEMMA KeyIsHeld ==
  ASSUME TypeInv, NEW p \in Runs, ClientStep(p)
  PROVE  \/ ckey'[p] = None
         \/ ReceiveKey(p) /\ ckey'[p] = ResponseTo(p).key /\ cpc'[p] = "load"
         \/ ckey'[p] = ckey[p] /\ (cpc[p] \in Keyed => cpc'[p] \in Keyed)
  <1>0. cpc \in [Runs -> ClientStates] /\ ckey \in [Runs -> Keys \cup {None}]
    BY DEF TypeInv, TypeOK, ClientTypeOK
  <1> USE DEF Enter, Keyed
  <1>1. CASE \E how : End(p, how)
    BY <1>0, <1>1 DEF End
  <1>2. CASE ReceiveKey(p)
    BY <1>0, <1>2 DEF ReceiveKey
  <1>3. CASE \/ ReceiveRegistration(p) \/ SaveName(p) \/ SaveId(p) \/ GenerateRSAKeyPair(p)
             \/ TruncateMeInfo(p) \/ WriteMeInfo(p) \/ SendPublicKey(p)
    BY <1>0, <1>3
       DEF ReceiveRegistration, SaveName, SaveId, AppendLine, GenerateRSAKeyPair,
           TruncateMeInfo, WriteMeInfo, SendPublicKey, Await, memory
  <1>4. CASE SendFile(p) \/ CksumSucceeded(p) \/ CksumFailed(p) \/ CksumFailedFinally(p)
    BY <1>0, <1>4 DEF SendFile, CksumSucceeded, CksumFailed, CksumFailedFinally, memory
  <1>5. QED
    BY <1>1, <1>2, <1>3, <1>4
       DEF ClientStep, NotRegistered, NothingToSend, NoCksum, ReceiveAck, ReceiveFinalAck,
           ReceiveConfirmation

\* A client sends its name and its key.
LEMMA ClientKeepsMine ==
  ASSUME MineInv, NEW p \in Runs, ClientMoves(p)
  PROVE  MineIn(p)'
  <1>0. /\ StepInv /\ TypeInv /\ MineIn(p) /\ ClientStep(p)
        /\ UNCHANGED <<spc, req, RegisteredAt>>
    BY StepTypes
       DEF MineInv, StepInv, ClientMoves, server, stored, locals, RegisteredAt, Registered
  <1>1. /\ "client" \in open[p] /\ s2c'[p] = <<>>
        /\ \A k \in 1..Len(c2s'[p]) : Asked(p, c2s'[p][k])
    BY <1>0, ClientAsks DEF Quiet
  <1>2. cpc[p] = "await_file" => ckey[p] # None
    BY <1>0, KnowsNow, NoneAssumption DEF Keys
  <1>3. \A m : Asked(p, m) => Mine(p, m)
    BY <1>0, <1>2
       DEF Asked, Mine, MineIn, MyName, PublicKeyRequest, FileRequest, CksumRequest,
           RequestOf, ReceiveCksum, Await, CLIENT_CODE_REGISTER, CLIENT_CODE_SEND_PUBLIC_KEY,
           CLIENT_CODE_SEND_FILE, CLIENT_CODE_CKSUM_OK, CLIENT_CODE_CKSUM_ERR,
           CLIENT_CODE_CKSUM_ERR_FINAL
  <1>4. ckey'[p] \in {None, p} /\ (ckey'[p] # None => cpc'[p] \in Keyed)
    <2>1. CASE ReceiveKey(p) /\ ckey'[p] = ResponseTo(p).key /\ cpc'[p] = "load"
      BY <1>0, <1>1, <2>1, ReceivedKey DEF ReceiveKey, Keyed
    <2>2. QED BY <1>0, <2>1, KeyIsHeld DEF MineIn
  <1>5. QED BY <1>0, <1>1, <1>3, <1>4 DEF MineIn, Mine

\* A run that ended, or of which the session did, has nothing left.
LEMMA NextKeepsMine ==
  ASSUME ~DbFaults, MineInv, [Next]_vars
  PROVE  MineInv'
  <1>0. StepInv /\ TypeInv /\ StepInv' /\ Registered \subseteq Registered'
    BY NextInStep, RegisteredGrows DEF MineInv, StepInv, IdInv, OwnInv
  <1>1. SUFFICES ASSUME NEW p \in Runs PROVE MineIn(p)'
    BY <1>0 DEF MineInv
  <1>2. /\ MineIn(p) /\ HostOf[p] \in Hosts /\ Connected(p)
        /\ cpc \in [Runs -> ClientStates] /\ ckey \in [Runs -> Keys \cup {None}]
        /\ spc \in [Runs -> SessionStates] /\ c2s \in [Runs -> Seq(Request)]
        /\ s2c \in [Runs -> Seq(Response)]
    BY <1>0, StepTypes DEF MineInv, StepInv, RunInv, TypeInv, TypeOK, ClientTypeOK
  <1>3. RegisteredAt[HostOf[p]] \subseteq RegisteredAt'[HostOf[p]]
    BY <1>0, <1>2, RegisteredAtGrows
  <1>4. CASE Connect(p)
    <2> DEFINE m == RegisterRequest(NameOf[HostOf[p]])
    <2>1. /\ spc'[p] = "recv" /\ cpc'[p] = "await_reg" /\ UNCHANGED <<ckey, s2c>>
          /\ cpc[p] = "off" /\ c2s'[p] = <<m>>
      BY <1>2, <1>4 DEF Connect, Start, Accept, Goto, Enter
    <2>2. Mine(p, m)
      BY DEF Mine, MyName, RegisterRequest, RequestOf, CLIENT_CODE_REGISTER,
             CLIENT_CODE_SEND_FILE
    <2>3. s2c[p] = <<>> /\ ckey[p] = None
      BY <1>2, <2>1 DEF Connected, MineIn, Keyed
    <2> HIDE DEF m
    <2>4. QED BY <2>1, <2>2, <2>3 DEF MineIn, Mine, Acting
  <1>5. CASE ConnectInVain(p)
    <2>1. /\ UNCHANGED <<spc, req, c2s, s2c, ckey>> /\ cpc[p] = "off"
      BY <1>5 DEF ConnectInVain, StartAlone, server, locals, net, memory
    <2>2. ckey[p] = None
      BY <1>2, <2>1 DEF MineIn, Keyed
    <2>3. QED BY <1>2, <1>3, <2>1, <2>2 DEF MineIn, Mine
  <1>6. CASE Kill(p) /\ UNCHANGED server
    BY <1>2, <1>3, <1>6 DEF Kill, End, server, locals, MineIn, Mine
  <1>7. CASE Crash /\ UNCHANGED client
    BY <1>2, <1>3, <1>7 DEF Crash, client, memory, MineIn, Mine, Acting
  <1>8. CASE Still(p)
    BY <1>2, <1>3, <1>8 DEF Still, MineIn, Mine
  <1>9. QED
    BY <1>0, <1>4, <1>5, <1>6, <1>7, <1>8, StepOf, SessionKeepsMine, ClientKeepsMine
       DEF MineInv

\* Nothing is sent at first.
LEMMA InitMine == Init => MineInv
  BY InitInStep DEF Init, NetInit, ServerInit, ClientInit, MineInv, MineIn, Acting

-----------------------------------------------------------------------------
(* Which runs are under way together *)

\* Runs under way together were let to be.
OneAtATime ==
    \A p, q \in Runs :
        p # q /\ UnderWay(p) /\ UnderWay(q)
            => \/ Overlap = "any"
               \/ Overlap = "per_host" /\ HostOf[p] # HostOf[q]

\* Only the start of a run sets it under way.
LEMMA OnlyStartsAreNew ==
  ASSUME TypeInv, [Next]_vars, NEW p \in Runs, UnderWay(p)'
  PROVE  UnderWay(p) \/ Connect(p)
  <1>0. cpc \in [Runs -> ClientStates] /\ spc \in [Runs -> SessionStates]
    BY DEF TypeInv, TypeOK, ClientTypeOK, ServerTypeOK
  <1>1. CASE ConnectInVain(p)
    BY <1>0, <1>1 DEF ConnectInVain, StartAlone, Enter, server, UnderWay, Ended
  <1>2. CASE SessionMoves(p)
    <2>1. spc[p] # "none"
      BY <1>2, GoesOn DEF SessionMoves, SessionStep, Receive, CloseSession
    <2>2. QED BY <2>1 DEF UnderWay
  <1>3. CASE ClientMoves(p)
    BY <1>3, ClientIsAlive DEF ClientMoves, UnderWay
  <1>4. CASE Kill(p) /\ UNCHANGED server
    BY <1>4 DEF Kill, UnderWay
  <1>5. CASE Crash /\ UNCHANGED client
    BY <1>5 DEF Crash, client, UnderWay
  <1>6. CASE Still(p)
    BY <1>6 DEF Still, UnderWay
  <1>7. QED BY <1>1, <1>2, <1>3, <1>4, <1>5, <1>6, StepOf

\* OneAtATime is inductive.
LEMMA NextKeepsApart ==
  ASSUME TypeInv, OneAtATime, [Next]_vars
  PROVE  OneAtATime'
  <1>1. ASSUME NEW p \in Runs, NEW q \in Runs, p # q, Connect(p), UnderWay(q)'
        PROVE  Overlap = "any" \/ (Overlap = "per_host" /\ HostOf[p] # HostOf[q])
    <2>1. Still(q)
      BY <1>1, StartIsLocal
    <2>2. UnderWay(q)
      BY <1>1, <2>1 DEF Still, UnderWay
    <2>3. QED BY <1>1, <2>2 DEF Connect, MayStart
  <1>2. SUFFICES ASSUME NEW p \in Runs, NEW q \in Runs,
                        p # q, UnderWay(p)', UnderWay(q)'
                 PROVE  Overlap = "any" \/ (Overlap = "per_host" /\ HostOf[p] # HostOf[q])
    BY DEF OneAtATime
  <1>3. CASE Connect(p) \/ Connect(q)
    BY <1>1, <1>2, <1>3
  <1>4. CASE UnderWay(p) /\ UnderWay(q)
    BY <1>2, <1>4 DEF OneAtATime
  <1>5. QED BY <1>2, <1>3, <1>4, OnlyStartsAreNew

\* The runs under way together have different names: there is one at a time, or
\* one in each directory, and no two directories have one name.
NamesApart ==
    \/ Overlap = "none"
    \/ /\ Overlap = "per_host"
       /\ \A g, h \in Hosts : NameOf[g] = NameOf[h] => g = h

LEMMA MyNameIsMine ==
  ASSUME NamesApart, OneAtATime, NEW p \in Runs, NEW q \in Runs,
         UnderWay(p), UnderWay(q), MyName(p) = MyName(q)
  PROVE  p = q
  BY ConstantsAssumption DEF NamesApart, OneAtATime, MyName

-----------------------------------------------------------------------------
(* Names *)

\* A row of "clients" has the name of the directory it was registered from.
RowsNamed == \A i \in Registered : clients[i].name = MyName(i)

\* A session registers a name that nobody has.
RegistersFirst(p) ==
    spc[p] \in {"register_map", "register_insert"}
        => \A i \in Registered : MyName(i) # MyName(p)

NameInv ==
    /\ MineInv
    /\ OneAtATime
    /\ RowsNamed
    /\ NamesUnique
    /\ \A p \in Runs : RegistersFirst(p)

\* The name that a registering or keying session has read is that of its run.
LEMMA NameRead ==
  ASSUME MineInv, NEW p \in Runs, spc[p] \in Registering \cup {"keys"}
  PROVE  req[p].name = MyName(p)
  <1>1. TypeInv /\ MineIn(p) /\ spc[p] \notin {"none", "recv"}
    BY StepTypes DEF MineInv, Registering
  <1>2. req[p].code \in {CLIENT_CODE_REGISTER, CLIENT_CODE_SEND_PUBLIC_KEY}
    BY <1>1 DEF TypeInv, RequestFits, Fits, Keying
  <1>3. QED BY <1>1, <1>2 DEF MineIn, Mine

\* The row that a session inserts when no transaction fails.
LEMMA InsertedRow ==
  ASSUME ~DbFaults, MineInv, NEW p \in Runs, RegisterInDatabase(p)
  PROVE  /\ Registered' = Registered \cup {p}
         /\ clients'[p].name = MyName(p)
         /\ \A i \in Ids \ {p} : clients'[i] = clients[i]
  <1> DEFINE row == [name |-> req[p].name, AES_key |-> None]
  <1>0. /\ TypeInv /\ clients \in [Ids -> ClientRow \cup {None}] /\ p \in Ids
        /\ spc[p] \in Registering
    BY StepTypes
       DEF MineInv, TypeInv, TypeOK, ServerTypeOK, DbTypeOK, RegisterInDatabase, Registering,
           Ids
  <1>1. row # None /\ row.name = MyName(p)
    BY <1>0, SomeName, RowsAreNotNone, NameRead
  <1>2. clients' = [clients EXCEPT ![p] = row]
    BY DEF RegisterInDatabase, insert_new_client, Committed
  <1> HIDE DEF row
  <1>3. QED BY <1>0, <1>1, <1>2 DEF Registered

\* The rows that a session updates when no transaction fails: those of its name.
LEMMA UpdatedRows ==
  ASSUME ~DbFaults, MineInv, RowsNamed, NEW p \in Runs, StoreKeys(p)
  PROVE  /\ Registered' = Registered
         /\ \A i \in Registered :
               IF MyName(i) = MyName(p)
               THEN clients'[i].AES_key = p /\ clients'[i].name = MyName(i)
               ELSE clients'[i] = clients[i]
  <1>0. TypeInv /\ req[p].name = MyName(p)
    BY StepTypes, NameRead DEF MineInv, StoreKeys
  <1>1. Registered' = Registered
    BY <1>0, KeysKeepRows
  <1>2. clients' = [i \in Ids |-> IF i \in NamedRows(clients, MyName(p))
                                  THEN [name |-> MyName(p), AES_key |-> p]
                                  ELSE clients[i]]
    BY <1>0 DEF StoreKeys, insert_keys_of_client, Committed
  <1>3. \A i \in Registered : /\ i \in Ids
                              /\ i \in NamedRows(clients, MyName(p)) <=> MyName(i) = MyName(p)
    BY DEF RowsNamed, Registered, NamedRows
  <1>4. QED BY <1>1, <1>2, <1>3

\* Rows keep the names of their directories, and only registration adds one.
LEMMA RowsChange ==
  ASSUME ~DbFaults, MineInv, RowsNamed, [Next]_vars
  PROVE  /\ RowsNamed'
         /\ \/ Registered' = Registered
            \/ \E p \in Runs : /\ SessionMoves(p) /\ RegisterInDatabase(p)
                               /\ Registered' = Registered \cup {p}
  <1>1. CASE clients' = clients
    BY <1>1 DEF RowsNamed, Registered
  <1>2. ASSUME NEW p \in Runs, SessionMoves(p), RegisterInDatabase(p)
        PROVE  RowsNamed' /\ Registered' = Registered \cup {p}
    <2>1. /\ Registered' = Registered \cup {p}
          /\ clients'[p].name = MyName(p)
          /\ \A i \in Ids \ {p} : clients'[i] = clients[i]
      BY <1>2, InsertedRow
    <2>2. \A i \in Registered' : clients'[i].name = MyName(i)
      BY <2>1 DEF RowsNamed, Registered
    <2>3. QED BY <2>1, <2>2 DEF RowsNamed
  <1>3. ASSUME NEW p \in Runs, StoreKeys(p)
        PROVE  RowsNamed' /\ Registered' = Registered
    <2>1. /\ Registered' = Registered
          /\ \A i \in Registered : clients'[i].name = MyName(i)
      BY <1>3, UpdatedRows DEF RowsNamed
    <2>2. QED BY <2>1 DEF RowsNamed
  <1>4. CASE \E p \in Runs : SessionMoves(p)
    BY <1>1, <1>2, <1>3, <1>4, ClientsChange DEF SessionMoves
  <1>5. QED
    BY <1>1, <1>4
       DEF Next, vars, server, stored, Connect, Accept, ConnectInVain, ClientMoves, Crash,
           Restart

\* A session that goes on to register its client was asked to, and found no row
\* with the client's name.
LEMMA NameIsNew ==
  ASSUME ~DbFaults, MineInv, RowsNamed, NEW p \in Runs, Receive(p), spc'[p] = "register_map"
  PROVE  /\ c2s[p] # <<>> /\ c2s[p][1].code = CLIENT_CODE_REGISTER
         /\ \A i \in Registered : MyName(i) # MyName(p)
  <1>0. /\ StepInv /\ TypeInv /\ spc \in [Runs -> SessionStates]
    BY StepTypes DEF MineInv
  <1>1. /\ c2s[p] \in Seq(Request) /\ c2s[p] # <<>>
        /\ Head(c2s[p]) = c2s[p][1] /\ 1 \in 1..Len(c2s[p])
    BY <1>0, StepTypes DEF Receive
  <1>2. c2s[p][1].code = CLIENT_CODE_REGISTER
    <2>1. c2s[p][1].code \in {1100, 1101, 1103, 1104, 1105, 1106}
      BY <1>1, RequestFacts
    <2>2. QED
      BY <1>0, <2>1, HandlerOf, ReceivedIsHandled DEF CLIENT_CODE_REGISTER
  <1>3. c2s[p][1].name = MyName(p)
    BY <1>1, <1>2 DEF MineInv, MineIn, Mine
  <1>4. PICK exists \in client_exists_by_name(clients, MyName(p)) :
            Goto(p, IF exists = TRUE THEN "refuse" ELSE Handler(CLIENT_CODE_REGISTER))
    BY <1>1, <1>2, <1>3 DEF Receive
  <1>5. exists = (NamedRows(clients, MyName(p)) # {})
    BY <1>4 DEF client_exists_by_name, Selected
  <1>6. NamedRows(clients, MyName(p)) = {}
    BY <1>0, <1>4, <1>5 DEF Goto
  <1>7. QED BY <1>1, <1>2, <1>6 DEF NamedRows, RowsNamed, Registered

\* NameInv is inductive when no transaction fails and names do not meet.
LEMMA NextKeepsNames ==
  ASSUME ~DbFaults, NamesApart, NameInv, [Next]_vars
  PROVE  NameInv'
  <1>0. /\ MineInv /\ StepInv /\ TypeInv /\ OneAtATime /\ RowsNamed /\ NamesUnique
        /\ MineInv' /\ OneAtATime' /\ RowsNamed'
        /\ spc \in [Runs -> SessionStates]
    BY NextKeepsMine, NextKeepsApart, RowsChange, StepTypes DEF NameInv, MineInv
  <1>1. /\ NamesUnique'
        /\ \A i \in Registered' \ Registered :
              \E p \in Runs : RegisterInDatabase(p) /\ SessionMoves(p) /\ i = p
    <2>1. \A i, j \in Registered : MyName(i) = MyName(j) => i = j
      BY <1>0 DEF RowsNamed, NamesUnique
    <2>2. ASSUME NEW p \in Runs, RegisterInDatabase(p)
          PROVE  \A i \in Registered : MyName(i) # MyName(p)
      BY <2>2 DEF NameInv, RegistersFirst, RegisterInDatabase
    <2>3. \A i, j \in Registered' : MyName(i) = MyName(j) => i = j
      BY <1>0, <2>1, <2>2, RowsChange
    <2>4. NamesUnique'
      BY <1>0, <2>3 DEF RowsNamed, NamesUnique
    <2>5. QED BY <1>0, <2>4, RowsChange
  <1>2. ASSUME NEW p \in Runs
        PROVE  RegistersFirst(p)'
    <2>1. SUFFICES ASSUME spc'[p] \in {"register_map", "register_insert"}
                   PROVE  \A i \in Registered' : MyName(i) # MyName(p)
      BY DEF RegistersFirst, MyName
    <2>2. CASE spc[p] = spc'[p] \/ spc[p] \in {"register_map", "register_insert"}
      <3>1. \A i \in Registered : MyName(i) # MyName(p)
        BY <2>1, <2>2 DEF NameInv, RegistersFirst
      <3>2. ASSUME NEW q \in Runs, RegisterInDatabase(q), SessionMoves(q)
            PROVE  MyName(q) # MyName(p)
        <4>1. UnderWay(p) /\ UnderWay(q)
          BY <2>1, <2>2, <3>2 DEF UnderWay, RegisterInDatabase
        <4>2. p # q
          BY <1>0, <2>1, <3>2 DEF RegisterInDatabase, Goto
        <4>3. QED BY <1>0, <4>1, <4>2, MyNameIsMine
      <3>3. QED BY <1>1, <3>1, <3>2
    <2>3. CASE SessionMoves(p) /\ spc[p] = "recv"
      <3>1. Receive(p) /\ spc'[p] = "register_map"
        <4>1. ~HandlerStep(p) /\ ~CloseSession(p)
          BY <1>0, <2>1, <2>3, ServesOn DEF CloseSession, Goto
        <4>2. Receive(p)
          BY <2>3, <4>1 DEF SessionMoves, SessionStep
        <4>3. QED
          BY <1>0, <2>1, <4>2, ReceivedStarts DEF Goto
      <3>2. UNCHANGED clients
        BY <3>1 DEF Receive, stored
      <3>3. QED BY <1>0, <3>1, <3>2, NameIsNew DEF Registered
    <2>4. \/ spc[p] = spc'[p] \/ spc[p] \in {"register_map", "register_insert"}
          \/ SessionMoves(p) /\ spc[p] = "recv"
      <3>1. CASE SessionMoves(p)
        <4>1. CASE spc[p] = "recv"
          BY <3>1, <4>1
        <4>2. CASE HandlerStep(p)
          <5>1. PICK l : Goto(p, l) /\ (l = "register_insert" => spc[p] = "register_map")
                         /\ l # "register_map"
            BY <1>0, <4>2, GoesOn
          <5>2. QED BY <1>0, <2>1, <5>1 DEF Goto
        <4>3. QED BY <3>1, <4>1, <4>2 DEF SessionMoves, SessionStep, Receive, CloseSession
      <3>2. CASE Connect(p)
        BY <1>0, <2>1, <3>2 DEF Connect, Accept, Goto
      <3>3. CASE Crash
        BY <2>1, <3>3 DEF Crash
      <3>4. CASE spc'[p] = spc[p]
        BY <3>4
      <3>5. QED
        BY <1>0, <3>1, <3>2, <3>3, <3>4, StepOf
           DEF ConnectInVain, ClientMoves, server, Still
    <2>5. QED BY <2>2, <2>3, <2>4
  <1>3. QED BY <1>0, <1>1, <1>2 DEF NameInv

\* Nobody is registered, or under way, at first.
LEMMA InitNames == Init => NameInv
  BY InitMine
     DEF Init, ServerInit, ClientInit, NameInv, RowsNamed, NamesUnique, RegistersFirst,
         Registered, OneAtATime, UnderWay

\* When no transaction fails and no two runs under way together have one name,
\* no name is registered twice, though the test and the INSERT are two
\* transactions.
THEOREM NamesStayUnique ==
  ASSUME ~DbFaults, NamesApart
  PROVE  Spec => []NamesUnique
  <1>1. NameInv /\ [Next]_vars => NameInv'
    BY NextKeepsNames
  <1>2. NameInv => NamesUnique
    BY DEF NameInv
  <1>3. QED BY <1>1, <1>2, InitNames, PTL DEF Spec

-----------------------------------------------------------------------------
(* Keys *)

\* The key of run p is on its way, with its client, or in a request.
KeyUsed(p) ==
    \/ spc[p] \in {"send_key", "decrypt"}
    \/ ckey[p] # None
    \/ \E k \in 1..Len(s2c[p]) : s2c[p][k].code = SERVER_CODE_SWITCHING_KEYS
    \/ \E k \in 1..Len(c2s[p]) : c2s[p][k].code = CLIENT_CODE_SEND_FILE

\* It is the key in every row of the name of the run.
HasKey(p) == \A i \in Registered : MyName(i) = MyName(p) => clients[i].AES_key = p

KeyInv == NameInv /\ \A p \in Runs : KeyUsed(p) => HasKey(p)

\* The facts of a run that the key proofs rely on.
LEMMA KeyFacts ==
  ASSUME NameInv, NEW p \in Runs
  PROVE  /\ MineInv /\ StepInv /\ TypeInv /\ OneAtATime /\ RowsNamed
         /\ MineIn(p) /\ Connected(p) /\ Queued(p) /\ ClientInStep(p)
         /\ cpc \in [Runs -> ClientStates] /\ spc \in [Runs -> SessionStates]
         /\ ckey \in [Runs -> Keys \cup {None}]
         /\ c2s \in [Runs -> Seq(Request)] /\ s2c \in [Runs -> Seq(Response)]
  BY StepTypes DEF NameInv, MineInv, StepInv, RunInv, TypeInv, TypeOK, ClientTypeOK

\* A run of which the key is used is under way, and is not registering.
LEMMA KeyUsedUnderWay ==
  ASSUME NameInv, NEW p \in Runs, KeyUsed(p)
  PROVE  UnderWay(p) /\ ~RegisterInDatabase(p)
  <1>0. /\ StepInv /\ MineIn(p) /\ Connected(p) /\ Queued(p) /\ ClientInStep(p)
        /\ cpc[p] \in ClientStates
    BY KeyFacts
  <1>1. ckey[p] # None \/ s2c[p] # <<>> => "client" \in open[p]
    BY <1>0 DEF MineIn, Connected, Keyed, Ended
  <1>2. UnderWay(p)
    BY <1>0, <1>1 DEF KeyUsed, UnderWay, Connected, Queued
  <1>3. ASSUME spc[p] = "register_insert"
        PROVE  FALSE
    <2>1. c2s[p] = <<>>
      BY <1>0, <1>3 DEF Queued
    <2>2. "client" \in open[p]
      BY <1>1, <1>3, <2>1 DEF KeyUsed
    <2>3. cpc[p] = "await_reg" /\ s2c[p] = <<>>
      BY <1>0, <1>3, <2>2
         DEF ClientInStep, InStep, Serves, Keying, Uploading, Storing, Deleting
    <2>4. QED BY <1>0, <1>3, <2>1, <2>3 DEF KeyUsed, MineIn, Keyed
  <1>4. QED BY <1>2, <1>3 DEF RegisterInDatabase

\* Only StoreKeys goes on to send a key, and no handler comes back to decrypt.
LEMMA KeyingNext ==
  ASSUME TypeInv, NEW p \in Runs, HandlerStep(p)
  PROVE  spc'[p] \notin {"send_key", "decrypt"} \/ StoreKeys(p)
  <1>1. spc \in [Runs -> SessionStates]
    BY DEF TypeInv, TypeOK, ServerTypeOK
  <1> USE <1>1 DEF Goto, Fail
  <1>2. CASE RegisterInMap(p) \/ RegisterInDatabase(p) \/ Decrypt(p)
    BY <1>2 DEF RegisterInMap, RegisterInDatabase, Decrypt
  <1>3. CASE CheckRoot(p) \/ MakeRoot(p) \/ CheckClientDir(p) \/ MakeClientDir(p)
    BY <1>3
       DEF CheckRoot, MakeRoot, CheckClientDir, MakeClientDir, CheckDirectory, MakeDirectory
  <1>4. CASE OpenFile(p) \/ WriteFile(p) \/ AddToFileMap(p) \/ AddToClient(p)
    BY <1>4 DEF OpenFile, WriteFile, AddToFileMap, AddToClient
  <1>5. CASE CalculateCksum(p) \/ CheckRow(p) \/ InsertRow(p) \/ ResetRow(p)
    BY <1>5 DEF CalculateCksum, CheckRow, InsertRow, ResetRow
  <1>6. CASE MarkVerified(p) \/ CheckFile(p) \/ RemoveFile(p) \/ DeleteRow(p)
    BY <1>6 DEF MarkVerified, CheckFile, RemoveFile, DeleteRow
  <1>7. CASE TestClientFiles(p) \/ PopClientFile(p) \/ TestFileMap(p) \/ PopFileMap(p)
    BY <1>7
       DEF TestClientFiles, PopClientFile, TestFileMap, PopFileMap, TestMap, PopResult
  <1>8. CASE SendRegistrationOk(p) \/ SendRegistrationErr(p) \/ SendAESKey(p)
             \/ SendCksum(p) \/ SendReceived(p)
    BY <1>8
       DEF SendRegistrationOk, SendRegistrationErr, SendAESKey, SendCksum, SendReceived,
           Respond
  <1>9. CASE Unreachable(p)
    BY <1>9 DEF Unreachable
  <1>10. QED BY <1>2, <1>3, <1>4, <1>5, <1>6, <1>7, <1>8, <1>9 DEF HandlerStep

\* A key is used from when it is stored.
LEMMA KeyUsedSince ==
  ASSUME ~DbFaults, NameInv, [Next]_vars, NEW p \in Runs, KeyUsed(p)'
  PROVE  KeyUsed(p) \/ StoreKeys(p)
  <1>0. /\ StepInv /\ TypeInv /\ MineIn(p) /\ Connected(p)
        /\ cpc \in [Runs -> ClientStates] /\ spc \in [Runs -> SessionStates]
        /\ ckey \in [Runs -> Keys \cup {None}]
        /\ c2s \in [Runs -> Seq(Request)] /\ s2c \in [Runs -> Seq(Response)]
    BY KeyFacts
  <1>1. CASE Connect(p)
    <2> DEFINE m == RegisterRequest(NameOf[HostOf[p]])
    <2>1. /\ spc'[p] = "recv" /\ UNCHANGED <<ckey, s2c>> /\ c2s'[p] = <<m>>
      BY <1>0, <1>1 DEF Connect, Start, Accept, Goto
    <2>2. m.code # CLIENT_CODE_SEND_FILE
      BY DEF RegisterRequest, RequestOf, CLIENT_CODE_REGISTER, CLIENT_CODE_SEND_FILE
    <2> HIDE DEF m
    <2>3. QED BY <2>1, <2>2 DEF KeyUsed
  <1>2. CASE ConnectInVain(p)
    BY <1>2 DEF ConnectInVain, StartAlone, server, memory, net, KeyUsed
  <1>3. CASE SessionMoves(p)
    <2>1. SessionStep(p) /\ UNCHANGED ckey
      BY <1>3 DEF SessionMoves, client, memory
    <2>2. ASSUME NEW k \in 1..Len(s2c'[p]), s2c'[p][k].code = SERVER_CODE_SWITCHING_KEYS
          PROVE  spc[p] = "send_key"
      <3>1. \A m : Answers(p, m) /\ m.code = SERVER_CODE_SWITCHING_KEYS => spc[p] = "send_key"
        BY DEF Answers, Status, KeyResponse, CksumResponse, ResponseOf,
               SERVER_CODE_REGISTRATION_OK, SERVER_CODE_REGISTRATION_ERR,
               SERVER_CODE_SWITCHING_KEYS, SERVER_CODE_CKSUM_READY,
               SERVER_CODE_MESSAGE_RECEIVED
      <3>2. s2c'[p] = <<>> \/ \E m : s2c'[p] = <<m>> /\ Answers(p, m)
        BY <1>0, <2>1, SessionAnswers
      <3>3. s2c'[p] # <<>>
        BY <2>2
      <3>4. PICK m : s2c'[p] = <<m>> /\ Answers(p, m)
        BY <3>2, <3>3
      <3>5. Len(s2c'[p]) = 1 /\ s2c'[p][1] = m
        BY <3>4
      <3>6. QED BY <2>2, <3>1, <3>4, <3>5
    <2>3. CASE Receive(p)
      <3>1. c2s'[p] = Tail(c2s[p]) /\ c2s[p] # <<>>
        BY <1>0, <2>3 DEF Receive
      <3>2. /\ 1 \in 1..Len(c2s[p])
            /\ \A k \in 1..Len(Tail(c2s[p])) : k + 1 \in 1..Len(c2s[p])
                                                /\ Tail(c2s[p])[k] = c2s[p][k + 1]
        BY <1>0, <3>1
      <3>3. c2s[p][1].code \in {1100, 1101, 1103, 1104, 1105, 1106}
        BY <1>0, <3>2, RequestFacts
      <3>4. spc'[p] \in {"send_key", "decrypt"} => c2s[p][1].code = CLIENT_CODE_SEND_FILE
        <4>1. spc'[p] = Handler(c2s[p][1].code) \/ spc'[p] = "refuse"
          BY <1>0, <2>3, ReceivedIsHandled
        <4>2. QED BY <3>3, <4>1, HandlerOf DEF CLIENT_CODE_SEND_FILE
      <3>5. s2c' = s2c
        BY <2>3 DEF Receive
      <3>6. CASE spc'[p] \in {"send_key", "decrypt"}
        BY <3>2, <3>4, <3>6 DEF KeyUsed
      <3>7. CASE \E k \in 1..Len(c2s'[p]) : c2s'[p][k].code = CLIENT_CODE_SEND_FILE
        BY <3>1, <3>2, <3>7 DEF KeyUsed
      <3>8. QED BY <2>1, <3>5, <3>6, <3>7 DEF KeyUsed
    <2>4. CASE CloseSession(p)
      BY <1>0, <2>1, <2>2, <2>4 DEF CloseSession, Goto, KeyUsed
    <2>5. CASE HandlerStep(p)
      <3>1. UNCHANGED c2s
        BY <2>5, ServesOn
      <3>3. spc'[p] \notin {"send_key", "decrypt"} \/ StoreKeys(p)
        BY <1>0, <2>5, KeyingNext
      <3>4. QED BY <2>1, <2>2, <3>1, <3>3 DEF KeyUsed
    <2>6. QED BY <2>1, <2>3, <2>4, <2>5 DEF SessionStep
  <1>4. CASE ClientMoves(p)
    <2>1. /\ ClientStep(p) /\ spc' = spc /\ "client" \in open[p] /\ s2c'[p] = <<>>
          /\ \A k \in 1..Len(c2s'[p]) : Asked(p, c2s'[p][k])
      BY <1>0, <1>4, ClientAsks DEF ClientMoves, server, Quiet
    <2>2. cpc[p] = "await_file" => ckey[p] # None
      BY <1>0, KnowsNow, NoneAssumption DEF Keys
    <2>3. ASSUME NEW m, Asked(p, m), m.code = CLIENT_CODE_SEND_FILE
          PROVE  ckey[p] # None
      BY <2>2, <2>3
         DEF Asked, PublicKeyRequest, FileRequest, CksumRequest, RequestOf, ReceiveCksum,
             Await, CLIENT_CODE_SEND_PUBLIC_KEY, CLIENT_CODE_SEND_FILE, CLIENT_CODE_CKSUM_OK,
             CLIENT_CODE_CKSUM_ERR, CLIENT_CODE_CKSUM_ERR_FINAL
    <2>4. ASSUME ReceiveKey(p), ResponseTo(p).key # None
          PROVE  KeyUsed(p)
      <3>1. Await(p, "await_key") /\ s2c[p] # <<>>
        BY <1>0, <2>1, <2>4, ReceivedKey DEF ReceiveKey
      <3>2. ResponseTo(p).code = SERVER_CODE_SWITCHING_KEYS
        BY <1>0, <2>1, <3>1, QuietAfterAwait, ExpectedCodes DEF SERVER_CODE_SWITCHING_KEYS
      <3>3. ResponseTo(p) = s2c[p][1] /\ 1 \in 1..Len(s2c[p])
        BY <1>0, <3>1 DEF ResponseTo
      <3>4. QED BY <3>2, <3>3 DEF KeyUsed
    <2>5. ckey'[p] # None => KeyUsed(p)
      BY <1>0, <2>1, <2>4, KeyIsHeld DEF KeyUsed
    <2>6. QED BY <2>1, <2>3, <2>5 DEF KeyUsed
  <1>5. CASE Kill(p) /\ UNCHANGED server
    BY <1>0, <1>5 DEF Kill, End, server, KeyUsed
  <1>6. CASE Crash /\ UNCHANGED client
    BY <1>6 DEF Crash, client, memory, KeyUsed
  <1>7. CASE Still(p)
    BY <1>7 DEF Still, KeyUsed
  <1>8. QED BY <1>0, <1>1, <1>2, <1>3, <1>4, <1>5, <1>6, <1>7, StepOf

\* No other run stores a key for a name of which the key is used, or registers it.
LEMMA KeyStays ==
  ASSUME ~DbFaults, NamesApart, NameInv, [Next]_vars,
         NEW p \in Runs, KeyUsed(p), HasKey(p)
  PROVE  HasKey(p)'
  <1>0. MineInv /\ OneAtATime /\ RowsNamed /\ UnderWay(p)
    BY KeyFacts, KeyUsedUnderWay
  <1>1. CASE clients' = clients
    BY <1>1 DEF HasKey, Registered, MyName
  <1>2. ASSUME NEW q \in Runs, RegisterInDatabase(q)
        PROVE  HasKey(p)'
    <2>1. q # p /\ UnderWay(q)
      BY <1>2, KeyUsedUnderWay DEF RegisterInDatabase, UnderWay
    <2>2. MyName(q) # MyName(p)
      BY <1>0, <2>1, MyNameIsMine
    <2>3. /\ Registered' = Registered \cup {q}
          /\ \A i \in Ids \ {q} : clients'[i] = clients[i]
      BY <1>0, <1>2, InsertedRow
    <2>4. QED BY <2>2, <2>3 DEF HasKey, MyName, Registered
  <1>3. ASSUME NEW q \in Runs, StoreKeys(q)
        PROVE  HasKey(p)'
    <2>1. UnderWay(q)
      BY <1>3 DEF StoreKeys, UnderWay
    <2>2. MyName(q) = MyName(p) => q = p
      BY <1>0, <2>1, MyNameIsMine
    <2>3. QED BY <1>0, <1>3, <2>2, UpdatedRows DEF HasKey, MyName
  <1>4. CASE \E q \in Runs : SessionMoves(q)
    BY <1>1, <1>2, <1>3, <1>4, ClientsChange DEF SessionMoves
  <1>5. QED
    BY <1>1, <1>4
       DEF Next, vars, server, stored, Connect, Accept, ConnectInVain, ClientMoves, Crash,
           Restart

\* KeyInv is inductive when no transaction fails and names do not meet.
LEMMA NextKeepsKeys ==
  ASSUME ~DbFaults, NamesApart, KeyInv, [Next]_vars
  PROVE  KeyInv'
  <1>1. NameInv /\ NameInv'
    BY NextKeepsNames DEF KeyInv
  <1>2. ASSUME NEW p \in Runs, KeyUsed(p)'
        PROVE  HasKey(p)'
    <2>1. CASE StoreKeys(p)
      BY <1>1, <2>1, UpdatedRows, KeyFacts DEF HasKey, MyName
    <2>2. CASE KeyUsed(p)
      BY <1>1, <2>2, KeyStays DEF KeyInv
    <2>3. QED BY <1>1, <1>2, <2>1, <2>2, KeyUsedSince
  <1>3. QED BY <1>1, <1>2 DEF KeyInv

\* When no transaction fails and no two runs under way together have one name,
\* the server has the key of the client whose file it decrypts, though it stores
\* keys by name and reads them by id.
THEOREM UploadsDecryptable ==
  ASSUME ~DbFaults, NamesApart
  PROVE  Spec => []UploadDecryptable
  <1>1. Init => KeyInv
    BY InitNames DEF Init, NetInit, ServerInit, ClientInit, KeyInv, KeyUsed
  <1>2. KeyInv /\ [Next]_vars => KeyInv'
    BY NextKeepsKeys
  <1>3. KeyInv => UploadDecryptable
    <2>1. SUFFICES ASSUME KeyInv, NEW p \in Runs, spc[p] = "decrypt"
                   PROVE  /\ req[p].id \in Registered
                          /\ clients[req[p].id].AES_key = req[p].key
      BY DEF UploadDecryptable
    <2>2. MineIn(p) /\ TypeInv /\ HasKey(p) /\ HostOf[p] \in Hosts
      BY <2>1, KeyFacts, ConstantsAssumption DEF KeyInv, KeyUsed
    <2>3. req[p].code = CLIENT_CODE_SEND_FILE
      BY <2>1, <2>2 DEF TypeInv, RequestFits, Fits, Uploading
    <2>4. req[p].key = p
      BY <2>1, <2>2, <2>3 DEF MineIn, Mine
    <2>5. req[p].id \in RegisteredAt[HostOf[p]]
      BY <2>1, <2>2 DEF MineIn, Acting, SessionStates, Registering
    <2>6. req[p].id \in Registered /\ MyName(req[p].id) = MyName(p)
      BY <2>2, <2>5 DEF RegisteredAt, MyName
    <2>7. QED BY <2>2, <2>4, <2>6 DEF HasKey
  <1>4. QED BY <1>1, <1>2, <1>3, PTL DEF Spec

-----------------------------------------------------------------------------
(* me.info *)

\* Where a me.info has, for a while, no id.
Rewriting == {"save_id", "key_write"}

\* A run has the id that is in its me.info, but while it writes it.
InfoIn(p) ==
    /\ cpc[p] \in Ended \cup {"off"} => cid[p] = None
    /\ cpc[p] = "save_name" => MyInfo(p) = None
    /\ cpc[p] = "save_id" => MyInfo(p) # None /\ Len(MyInfo(p)) = 1
    /\ cpc[p] \in {"key_trunc", "key_write"} => SavedId(lines[p]) = cid[p]
    /\ cpc[p] = "key_write" => MyInfo(p) = <<>>
    /\ cpc[p] \notin Ended \cup Rewriting \cup {"off", "save_name"}
           => cid[p] = SavedId(MyInfo(p))

Intact(h) ==
    \/ meInfo[h] = None
    \/ SavedId(meInfo[h]) # None
    \/ \E p \in Runs : HostOf[p] = h /\ cpc[p] \in Rewriting

InfoInv ==
    /\ TypeInv
    /\ OneAtATime
    /\ \A p \in Runs : InfoIn(p)
    /\ \A h \in Hosts : Intact(h)

\* What the proofs know of a run and its me.info.
LEMMA InfoFacts ==
  ASSUME InfoInv, NEW p \in Runs
  PROVE  /\ TypeInv /\ InfoIn(p) /\ Intact(HostOf[p]) /\ HostOf[p] \in Hosts
         /\ cpc \in [Runs -> ClientStates] /\ spc \in [Runs -> SessionStates]
         /\ cid \in [Runs -> Ids \cup {None}] /\ lines \in [Runs -> Seq(Line)]
         /\ meInfo \in [Hosts -> Seq(Line) \cup {None}] /\ None \notin Ids
  BY ConstantsAssumption, NoneAssumption
     DEF InfoInv, TypeInv, TypeOK, ClientTypeOK, ServerTypeOK, Ids

\* A run that is under way is alone in its directory.
LEMMA AloneAtHost ==
  ASSUME OneAtATime, Overlap # "any", NEW p \in Runs, NEW q \in Runs, UnderWay(p), UnderWay(q),
         HostOf[p] = HostOf[q]
  PROVE  p = q
  BY DEF OneAtATime

\* The line with the id makes a me.info of one line one with an id ...
LEMMA SavedIdAppended ==
  ASSUME NEW info \in Seq(Line), Len(info) = 1, NEW i \in Ids
  PROVE  SavedId(info) = None /\ SavedId(Append(info, IdLine(i))) = i
  <1>1. IdLine(i) \in Line
    BY DEF IdLine, Line, Ids
  <1>2. /\ Append(info, IdLine(i)) \in Seq(Line) /\ Len(Append(info, IdLine(i))) = 2
        /\ Append(info, IdLine(i))[2] = IdLine(i)
    BY <1>1
  <1>3. QED BY <1>2, NoInfoAssumption DEF SavedId, IdLine

\* ... and that with the private key leaves the id where it is.
LEMMA SavedIdWithKey ==
  ASSUME NEW info \in Seq(Line), SavedId(info) # None, NEW p \in Runs
  PROVE  SavedId(WithKey(info, p)) = SavedId(info)
  <1>1. KeyLine(p) \in Line
    BY DEF KeyLine, Line
  <1>2. Len(info) >= 2
    BY DEF SavedId
  <1>3. /\ WithKey(info, p) \in Seq(Line) /\ Len(WithKey(info, p)) >= 2
        /\ WithKey(info, p)[2] = info[2]
    BY <1>1, <1>2 DEF WithKey
  <1>4. QED BY <1>2, <1>3, NoInfoAssumption DEF SavedId

\* A client writes the me.info of its directory only.
LEMMA InfoOfOthers ==
  ASSUME TypeInv, NEW p \in Runs, ClientStep(p), NEW h \in Hosts, h # HostOf[p]
  PROVE  meInfo'[h] = meInfo[h]
  BY DEF TypeInv, TypeOK, ClientTypeOK, ClientStep, ReceiveRegistration, SaveName, SaveId,
         AppendLine, GenerateRSAKeyPair, NotRegistered, TruncateMeInfo, WriteMeInfo,
         SendPublicKey, ReceiveKey, SendFile, NothingToSend, CksumSucceeded, CksumFailed,
         CksumFailedFinally, NoCksum, ReceiveAck, ReceiveFinalAck, ReceiveConfirmation, End

\* The steps that write me.info or prepare it, and the one that ends a run.
LEMMA ClientOnInfo ==
  ASSUME InfoInv, NEW p \in Runs, ClientStep(p)
  PROVE  /\ InfoIn(p)'
         /\ \/ cpc'[p] \in Rewriting
            \/ SavedId(MyInfo(p)') # None
            \/ cpc[p] \notin Rewriting /\ MyInfo(p)' = MyInfo(p)
  <1>0. /\ InfoIn(p) /\ HostOf[p] \in Hosts
        /\ cpc \in [Runs -> ClientStates]
        /\ cid \in [Runs -> Ids \cup {None}] /\ lines \in [Runs -> Seq(Line)]
        /\ meInfo \in [Hosts -> Seq(Line) \cup {None}] /\ None \notin Ids
    BY InfoFacts
  <1>1. CASE SaveName(p)
    <2>1. /\ MyInfo(p)' = <<NameLine>> /\ cpc'[p] = "save_id" /\ UNCHANGED memory
      BY <1>0, <1>1 DEF SaveName, AppendLine, Enter, MyInfo, InfoIn
    <2>2. MyInfo(p)' # None /\ Len(MyInfo(p)') = 1
      <3>1. <<NameLine>> \in Seq(Line) /\ Len(<<NameLine>>) = 1
        BY DEF NameLine, Line
      <3>2. QED BY <2>1, <3>1, NoInfoAssumption
    <2>3. QED BY <1>0, <2>1, <2>2 DEF InfoIn, Rewriting, Ended
  <1>2. CASE SaveId(p)
    <2>1. /\ cpc[p] = "save_id" /\ cpc'[p] = "genkey" /\ cid'[p] = cid[p]
          /\ MyInfo(p)' = IF MyInfo(p) = None THEN <<IdLine(cid[p])>>
                          ELSE Append(MyInfo(p), IdLine(cid[p]))
      BY <1>0, <1>2 DEF SaveId, AppendLine, Enter, MyInfo, memory
    <2>2. cid[p] \in Ids
      BY <1>0, <2>1, KnowsNow DEF InfoInv, Saving
    <2>3. SavedId(MyInfo(p)') = cid[p]
      BY <1>0, <2>1, <2>2, SavedIdAppended DEF InfoIn, MyInfo
    <2>4. QED BY <1>0, <2>1, <2>2, <2>3 DEF InfoIn, Rewriting, Ended
  <1>3. CASE GenerateRSAKeyPair(p)
    <2>1. /\ cpc[p] = "genkey" /\ cid[p] # None /\ UNCHANGED <<cid, meInfo>>
          /\ cpc'[p] = IF MyInfo(p) = None THEN "send_key" ELSE "key_trunc"
          /\ MyInfo(p) # None => lines'[p] = WithKey(MyInfo(p), p)
      BY <1>0, <1>3 DEF GenerateRSAKeyPair, Enter
    <2>2. SavedId(MyInfo(p)) = cid[p]
      BY <1>0, <2>1 DEF InfoIn, Rewriting, Ended
    <2>3. MyInfo(p) # None
      BY <2>1, <2>2 DEF SavedId
    <2>4. SavedId(lines'[p]) = cid[p]
      BY <1>0, <2>1, <2>2, <2>3, SavedIdWithKey DEF MyInfo
    <2>5. MyInfo(p)' = MyInfo(p)
      BY <2>1 DEF MyInfo
    <2>6. QED BY <1>0, <2>1, <2>2, <2>3, <2>4, <2>5 DEF InfoIn, Rewriting, Ended
  <1>4. CASE NotRegistered(p)
    <2>1. /\ cpc[p] = "genkey" /\ cpc'[p] = "stopped" /\ cid[p] = None /\ cid'[p] = None
          /\ UNCHANGED meInfo
      BY <1>0, <1>4 DEF NotRegistered, End, Enter
    <2>2. QED BY <1>0, <2>1 DEF InfoIn, Rewriting, Ended, MyInfo
  <1>5. CASE TruncateMeInfo(p)
    <2>1. /\ cpc[p] = "key_trunc" /\ cpc'[p] = "key_write" /\ UNCHANGED <<cid, lines>>
          /\ MyInfo(p)' = <<>>
      BY <1>0, <1>5 DEF TruncateMeInfo, Enter, MyInfo, memory
    <2>2. QED BY <1>0, <2>1 DEF InfoIn, Rewriting, Ended
  <1>6. CASE WriteMeInfo(p)
    <2>1. /\ cpc[p] = "key_write" /\ cpc'[p] = "send_key" /\ cid'[p] = cid[p]
          /\ MyInfo(p)' = lines[p] \o SubSeq(MyInfo(p), Len(lines[p]) + 1, Len(MyInfo(p)))
      BY <1>0, <1>6 DEF WriteMeInfo, Enter, MyInfo
    <2>2. MyInfo(p) = <<>> /\ SavedId(lines[p]) = cid[p]
      BY <1>0, <2>1 DEF InfoIn
    <2>3. MyInfo(p)' = lines[p]
      BY <1>0, <2>1, <2>2
    <2>4. cid[p] \in Ids
      BY <1>0, <2>1, KnowsNow DEF InfoInv, Saving
    <2>5. QED BY <1>0, <2>1, <2>2, <2>3, <2>4 DEF InfoIn, Rewriting, Ended
  <1>7. CASE ReceiveRegistration(p)
    <2>1. /\ cpc[p] = "await_reg" /\ UNCHANGED meInfo
          /\ \/ MyInfo(p) = None /\ cpc'[p] = "save_name"
             \/ cpc'[p] = "genkey" /\ cid'[p] = cid[p]
      BY <1>0, <1>7 DEF ReceiveRegistration, Await, Enter
    <2>2. QED BY <1>0, <2>1 DEF InfoIn, Rewriting, Ended, MyInfo
  <1>8. CASE NothingToSend(p) \/ NoCksum(p) \/ ReceiveAck(p) \/ ReceiveFinalAck(p)
    <2>1. /\ cpc[p] \in {"load", "await_file", "await_ack", "await_final"}
          /\ cpc'[p] \in Ended /\ cid'[p] = None /\ UNCHANGED meInfo
      BY <1>0, <1>8
         DEF NothingToSend, NoCksum, ReceiveAck, ReceiveFinalAck, ReceiveConfirmation, Await,
             End, Enter, Ended
    <2>2. QED BY <1>0, <2>1 DEF InfoIn, Rewriting, Ended, MyInfo
  <1>9. CASE \/ SendPublicKey(p) \/ ReceiveKey(p) \/ SendFile(p) \/ CksumSucceeded(p)
             \/ CksumFailed(p) \/ CksumFailedFinally(p)
    <2>1. /\ {cpc[p], cpc'[p]} \subseteq {"send_key", "await_key", "load", "await_file",
                                          "await_ack", "await_final"}
          /\ UNCHANGED <<cid, meInfo>>
      BY <1>0, <1>9
         DEF SendPublicKey, ReceiveKey, SendFile, CksumSucceeded, CksumFailed,
             CksumFailedFinally, ReceiveCksum, Await, Enter, memory
    <2>2. QED BY <1>0, <2>1 DEF InfoIn, Rewriting, Ended, MyInfo
  <1>10. QED BY <1>1, <1>2, <1>3, <1>4, <1>5, <1>6, <1>7, <1>8, <1>9 DEF ClientStep

\* Whatever is left of a me.info is left to a run that has its id.
LEMMA NextKeepsInfo ==
  ASSUME ~Kills, Overlap # "any", InfoInv, [Next]_vars
  PROVE  InfoInv'
  <1>0. TypeInv /\ OneAtATime /\ TypeInv' /\ OneAtATime'
    BY NextTypes, NextKeepsApart DEF InfoInv
  <1>1. CASE UNCHANGED client
    BY <1>0, <1>1 DEF InfoInv, InfoIn, Intact, MyInfo, client, memory
  <1>2. ASSUME NEW p \in Runs, Connect(p) \/ ConnectInVain(p)
        PROVE  InfoInv'
    <2>1. /\ cpc[p] = "off" /\ UNCHANGED meInfo /\ InfoIn(p)
          /\ \/ cpc'[p] = "await_reg" /\ cid'[p] = SavedId(MyInfo(p))
             \/ cpc'[p] = "stopped" /\ cid'[p] = cid[p]
      <3>1. InfoIn(p) /\ cpc \in [Runs -> ClientStates] /\ cid \in [Runs -> Ids \cup {None}]
        BY InfoFacts
      <3>2. CASE Connect(p)
        BY <3>1, <3>2 DEF Connect, Start, Enter
      <3>3. CASE ConnectInVain(p)
        BY <3>1, <3>3 DEF ConnectInVain, StartAlone, Enter, memory
      <3>4. QED BY <1>2, <3>2, <3>3
    <2>2. InfoIn(p)'
      BY <2>1 DEF InfoIn, MyInfo, Rewriting, Ended
    <2>3. \A q \in Runs \ {p} : Still(q)
      BY <1>0, <1>2, StartIsLocal
    <2>4. \A q \in Runs \ {p} : InfoIn(q)'
      BY <2>1, <2>3, InfoFacts DEF Still, InfoIn, MyInfo
    <2>5. \A h \in Hosts : Intact(h)'
      BY <2>1, <2>3 DEF InfoInv, Still, Intact, Rewriting
    <2>6. QED BY <1>0, <2>2, <2>4, <2>5 DEF InfoInv
  <1>3. ASSUME NEW p \in Runs, ClientMoves(p)
        PROVE  InfoInv'
    <2>1. ClientStep(p) /\ UnderWay(p)
      BY <1>3, ClientIsAlive DEF ClientMoves, UnderWay
    <2>2. \A q \in Runs \ {p} : Still(q)
      BY <1>0, <1>3, ClientIsLocal
    <2>3. ASSUME NEW q \in Runs \ {p}
          PROVE  InfoIn(q)'
      <3>1. InfoIn(q) /\ Still(q) /\ HostOf[q] \in Hosts
        BY <2>2, InfoFacts
      <3>2. CASE cpc[q] \in Ended \cup {"off"}
        BY <3>1, <3>2 DEF InfoIn, Still, Rewriting, Ended
      <3>3. CASE UnderWay(q)
        <4>1. HostOf[q] # HostOf[p]
          BY <1>0, <2>1, <3>3, AloneAtHost
        <4>2. MyInfo(q)' = MyInfo(q)
          BY <1>0, <2>1, <3>1, <4>1, InfoOfOthers DEF MyInfo
        <4>3. QED BY <3>1, <4>2 DEF InfoIn, Still
      <3>4. QED BY <3>2, <3>3 DEF UnderWay
    <2>4. ASSUME NEW h \in Hosts
          PROVE  Intact(h)'
      <3>1. CASE h # HostOf[p]
        <4>1. meInfo'[h] = meInfo[h]
          BY <1>0, <2>1, <3>1, InfoOfOthers
        <4>2. QED BY <2>2, <3>1, <4>1 DEF InfoInv, Intact, Still
      <3>2. CASE h = HostOf[p]
        <4>1. CASE cpc'[p] \in Rewriting
          BY <3>2, <4>1 DEF Intact
        <4>2. CASE SavedId(MyInfo(p)') # None
          BY <3>2, <4>2 DEF Intact, MyInfo
        <4>3. CASE cpc[p] \notin Rewriting /\ MyInfo(p)' = MyInfo(p)
          BY <2>2, <3>2, <4>3 DEF InfoInv, Intact, Still, MyInfo
        <4>4. QED BY <2>1, <4>1, <4>2, <4>3, ClientOnInfo
      <3>3. QED BY <3>1, <3>2
    <2>5. QED BY <1>0, <2>1, <2>3, <2>4, ClientOnInfo DEF InfoInv
  <1>4. QED
    BY <1>1, <1>2, <1>3 DEF Next, vars, SessionMoves, Kill

\* At first no directory has a me.info.
LEMMA InitInfo == Init => InfoInv
  BY InitTypes, InitNames DEF NameInv, Init, ClientInit, InfoInv, InfoIn, Intact, Ended, Rewriting

\* Whatever runs are started in a directory, one at a time, and whatever the
\* server does: its me.info, once there, keeps the id that it was saved with.
THEOREM InfoStaysIntact ==
  ASSUME ~Kills, Overlap # "any"
  PROVE  Spec => []MeInfoIntact
  <1>1. InfoInv /\ [Next]_vars => InfoInv'
    BY NextKeepsInfo
  <1>2. InfoInv => MeInfoIntact
    BY DEF InfoInv, Intact, MeInfoIntact, UnderWay, Rewriting, Ended
  <1>3. QED BY <1>1, <1>2, InitInfo, PTL DEF Spec

-----------------------------------------------------------------------------
(* The ids of rows *)

\* The id of a row may be in the response that its client will read, ...
Offered(p) ==
    \E n \in DOMAIN s2c[p] : s2c[p][n] = Status(SERVER_CODE_REGISTRATION_OK, p)

\* ... which then has no me.info and is waiting for it, ...
NewIn(p) ==
    spc[p] \in Registering \/ Offered(p) => cpc[p] = "await_reg" /\ MyInfo(p) = None

\* ... and a client that has ended has been answered.
Answered(p) == cpc[p] \in Ended => c2s[p] = <<>> /\ spc[p] \in {"none", "recv"}

\* Where the id of row i is, from the INSERT to me.info and back.
Carried(i) ==
    \/ spc[i] = "register_ok"
    \/ Offered(i)
    \/ \E p \in Runs : HostOf[p] = HostOf[i] /\ cid[p] = i
    \/ SavedId(meInfo[HostOf[i]]) = i

ReachInv ==
    /\ MineInv
    /\ InfoInv
    /\ RowsNamed
    /\ \A p \in Runs : NewIn(p) /\ Answered(p)
    /\ \A i \in Registered : Carried(i)

\* What the proofs know of a run and its row.
LEMMA ReachFacts ==
  ASSUME ReachInv, NEW p \in Runs
  PROVE  /\ StepInv /\ MineInv /\ InfoInv /\ TypeInv /\ OneAtATime /\ RowsNamed
         /\ NewIn(p) /\ Answered(p) /\ InfoIn(p) /\ Intact(HostOf[p])
         /\ Connected(p) /\ Queued(p) /\ ClientInStep(p)
         /\ HostOf[p] \in Hosts /\ p \in Ids /\ None \notin Ids
         /\ cpc \in [Runs -> ClientStates] /\ spc \in [Runs -> SessionStates]
         /\ cid \in [Runs -> Ids \cup {None}] /\ lines \in [Runs -> Seq(Line)]
         /\ meInfo \in [Hosts -> Seq(Line) \cup {None}]
         /\ c2s \in [Runs -> Seq(Request)] /\ s2c \in [Runs -> Seq(Response)]
         /\ open \in [Runs -> SUBSET {"client", "server"}]
  BY StepTypes, InfoFacts DEF ReachInv, MineInv, StepInv, RunInv, InfoInv, Ids

\* A directory without a row of its name has no me.info when a run of it asks to
\* be registered.
LEMMA NewHasNoInfo ==
  ASSUME Overlap # "any", ReachInv, NEW p \in Runs, cpc[p] = "await_reg",
         \A i \in Registered : MyName(i) # MyName(p)
  PROVE  MyInfo(p) = None
  <1>0. /\ OneAtATime /\ Intact(HostOf[p]) /\ HostOf[p] \in Hosts /\ TypeInv
        /\ InfoRegistered
    BY ReachFacts DEF StepInv, IdInv, ClientIdInv
  <1>1. ASSUME NEW q \in Runs, HostOf[q] = HostOf[p], cpc[q] \in Rewriting
        PROVE  FALSE
    <2>1. UnderWay(p) /\ UnderWay(q)
      BY <1>1 DEF UnderWay, Rewriting, Ended
    <2>2. p = q
      BY <1>0, <1>1, <2>1, AloneAtHost
    <2>3. QED BY <1>1, <2>2 DEF Rewriting
  <1>2. ASSUME SavedId(MyInfo(p)) # None
        PROVE  FALSE
    <2>1. MyInfo(p) # None
      BY <1>2 DEF SavedId
    <2>2. SavedId(MyInfo(p)) \in RegisteredAt[HostOf[p]]
      BY <1>0, <1>2, <2>1, SavedIdIn DEF InfoRegistered, MyInfo
    <2>3. QED BY <1>0, <2>2 DEF RegisteredAt, MyName
  <1>3. QED BY <1>0, <1>1, <1>2 DEF Intact, MyInfo

\* The session of a run keeps NewIn and Answered.
LEMMA SessionKeepsNew ==
  ASSUME ~DbFaults, Overlap # "any", ReachInv, NEW p \in Runs, SessionMoves(p)
  PROVE  NewIn(p)' /\ Answered(p)'
  <1>0. /\ SessionStep(p) /\ cpc'[p] = cpc[p] /\ MyInfo(p)' = MyInfo(p)
        /\ StepInv /\ MineInv /\ TypeInv /\ RowsNamed /\ NewIn(p) /\ Answered(p)
        /\ Connected(p) /\ Queued(p) /\ ClientInStep(p)
        /\ cpc \in [Runs -> ClientStates] /\ spc \in [Runs -> SessionStates]
        /\ c2s \in [Runs -> Seq(Request)] /\ s2c \in [Runs -> Seq(Response)]
    BY ReachFacts DEF SessionMoves, client, MyInfo
  <1>1. ASSUME Offered(p)'
        PROVE  spc[p] = "register_ok"
    <2>1. PICK m : s2c'[p] = <<m>> /\ Answers(p, m)
      BY <1>0, <1>1, SessionAnswers DEF Offered
    <2>2. m = Status(SERVER_CODE_REGISTRATION_OK, p)
      BY <1>1, <2>1 DEF Offered
    <2>3. m.code = 2100
      BY <2>2 DEF Status, ResponseOf, SERVER_CODE_REGISTRATION_OK
    <2>4. QED
      BY <2>1, <2>3
         DEF Answers, Status, KeyResponse, CksumResponse, ResponseOf,
             SERVER_CODE_REGISTRATION_OK, SERVER_CODE_REGISTRATION_ERR,
             SERVER_CODE_SWITCHING_KEYS, SERVER_CODE_CKSUM_READY,
             SERVER_CODE_MESSAGE_RECEIVED
  <1>2. CASE Receive(p)
    <2>1. c2s[p] # <<>> /\ spc[p] = "recv"
      BY <1>2 DEF Receive
    <2>2. cpc[p] \notin Ended
      BY <1>0, <2>1 DEF Answered
    <2>3. spc'[p] \notin {"register_insert", "register_ok"}
      BY <1>0, <1>2, ReceivedStarts DEF Goto
    <2>4. ASSUME spc'[p] = "register_map"
          PROVE  cpc[p] = "await_reg" /\ MyInfo(p) = None
      <3>1. /\ c2s[p][1].code = CLIENT_CODE_REGISTER
            /\ \A i \in Registered : MyName(i) # MyName(p)
        BY <1>0, <1>2, <2>4, NameIsNew
      <3>2. Asks(cpc[p], c2s[p])
        BY <1>0, <2>1, <2>2 DEF Connected, ClientInStep, InStep
      <3>3. cpc[p] = "await_reg"
        BY <3>1, <3>2
           DEF Asks, CLIENT_CODE_REGISTER, CLIENT_CODE_SEND_PUBLIC_KEY,
               CLIENT_CODE_SEND_FILE, CLIENT_CODE_CKSUM_ERR, CLIENT_CODE_CKSUM_OK,
               CLIENT_CODE_CKSUM_ERR_FINAL
      <3>4. QED BY <3>1, <3>3, NewHasNoInfo
    <2>5. NewIn(p)'
      BY <1>0, <1>1, <2>1, <2>3, <2>4 DEF NewIn, Registering
    <2>6. QED BY <1>0, <2>2, <2>5 DEF Answered
  <1>3. CASE CloseSession(p)
    <2>1. spc'[p] = "none" /\ c2s'[p] = <<>> /\ spc[p] = "recv"
      BY <1>0, <1>3 DEF CloseSession, Goto
    <2>2. QED BY <1>1, <2>1 DEF NewIn, Answered, Registering
  <1>4. CASE HandlerStep(p)
    <2>1. spc[p] \notin {"none", "recv"}
      BY <1>4, ServesOn
    <2>2. cpc[p] \notin Ended
      BY <1>0, <2>1 DEF Answered
    <2>3. PICK l : /\ Goto(p, l) /\ l # "register_map"
                   /\ l = "register_insert" => spc[p] = "register_map"
                   /\ l = "register_ok" => RegisterInDatabase(p)
      BY <1>0, <1>4, GoesOn
    <2>4. spc'[p] \in Registering => spc[p] \in Registering
      BY <1>0, <2>3 DEF Goto, Registering, RegisterInDatabase
    <2>5. NewIn(p)'
      BY <1>0, <1>1, <2>4 DEF NewIn, Registering
    <2>6. QED BY <1>0, <2>2, <2>5 DEF Answered
  <1>5. QED BY <1>0, <1>2, <1>3, <1>4 DEF SessionStep

\* The client of a run keeps NewIn and Answered.
LEMMA ClientKeepsNew ==
  ASSUME ReachInv, NEW p \in Runs, ClientMoves(p)
  PROVE  NewIn(p)' /\ Answered(p)'
  <1>0. /\ ClientStep(p) /\ spc'[p] = spc[p] /\ "client" \in open[p]
        /\ Quiet(spc[p], c2s[p], s2c'[p])
        /\ \A k \in 1..Len(c2s'[p]) : Asked(p, c2s'[p][k])
        /\ c2s \in [Runs -> Seq(Request)]
    BY ReachFacts, ClientAsks DEF ClientMoves, server
  <1>1. NewIn(p)'
    BY <1>0 DEF NewIn, Registering, Quiet, Offered
  <1>2. ASSUME cpc'[p] \in Ended
        PROVE  c2s'[p] = <<>>
    <2>1. \A m : ~Asked(p, m)
      BY <1>2 DEF Asked, Ended
    <2>2. 1 \notin 1..Len(c2s'[p])
      BY <1>0, <2>1
    <2>3. c2s'[p] \in Seq(Request)
      <3>1. TypeInv /\ Next
        BY ReachFacts DEF Next
      <3>2. QED BY <3>1, NextTypes DEF TypeInv, TypeOK, NetTypeOK
    <2>4. QED BY <2>2, <2>3
  <1>3. QED BY <1>0, <1>1, <1>2 DEF Answered, Quiet

\* While one run of a directory is under way, no other changes its me.info.
LEMMA InfoStays ==
  ASSUME Overlap # "any", ReachInv, [Next]_vars, NEW q \in Runs, UnderWay(q), ~ClientMoves(q), ~Kills
  PROVE  MyInfo(q)' = MyInfo(q)
  <1>0. TypeInv /\ OneAtATime /\ HostOf[q] \in Hosts
    BY ReachFacts
  <1>1. CASE UNCHANGED meInfo
    BY <1>1 DEF MyInfo
  <1>2. ASSUME NEW p \in Runs, ClientMoves(p)
        PROVE  MyInfo(q)' = MyInfo(q)
    <2>1. ClientStep(p) /\ UnderWay(p)
      BY <1>2, ClientIsAlive DEF ClientMoves, UnderWay
    <2>2. HostOf[q] # HostOf[p]
      BY <1>0, <1>2, <2>1, AloneAtHost
    <2>3. QED BY <1>0, <2>1, <2>2, InfoOfOthers DEF MyInfo
  <1>3. QED
    BY <1>1, <1>2
       DEF Next, vars, client, Connect, Start, ConnectInVain, StartAlone, SessionMoves, Kill

\* NewIn and Answered are inductive when nobody is killed.
LEMMA NextKeepsNew ==
  ASSUME ~DbFaults, ~Kills, ~Crashes, Overlap # "any", ReachInv, [Next]_vars, NEW p \in Runs
  PROVE  NewIn(p)' /\ Answered(p)'
  <1>0. /\ TypeInv /\ NewIn(p) /\ Answered(p) /\ Connected(p) /\ Queued(p)
        /\ cpc \in [Runs -> ClientStates] /\ spc \in [Runs -> SessionStates]
        /\ s2c \in [Runs -> Seq(Response)]
    BY ReachFacts
  <1>1. CASE Connect(p) \/ ConnectInVain(p)
    <2>1. /\ cpc[p] = "off" /\ s2c'[p] = s2c[p]
          /\ \/ cpc'[p] = "await_reg" /\ spc'[p] = "recv"
             \/ spc'[p] = spc[p] /\ c2s'[p] = c2s[p]
      BY <1>0, <1>1
         DEF Connect, ConnectInVain, Start, StartAlone, Accept, Goto, Enter, net, server
    <2>2. spc[p] = "none" /\ s2c[p] = <<>> /\ c2s[p] = <<>>
      BY <1>0, <2>1 DEF Connected, Queued
    <2>3. QED BY <2>1, <2>2 DEF NewIn, Offered, Answered, Registering, Ended
  <1>2. CASE SessionMoves(p)
    BY <1>2, SessionKeepsNew
  <1>3. CASE ClientMoves(p)
    BY <1>3, ClientKeepsNew
  <1>4. CASE Still(p) /\ ~ClientMoves(p)
    <2>1. cpc[p] = "await_reg" => MyInfo(p)' = MyInfo(p)
      BY <1>4, InfoStays DEF UnderWay, Ended
    <2>2. QED BY <1>0, <1>4, <2>1 DEF Still, NewIn, Offered, Answered
  <1>5. QED BY <1>0, <1>1, <1>2, <1>3, <1>4, StepOf DEF Kill, Crash

\* A client keeps its id or has it in its me.info.
LEMMA ClientKeepsId ==
  ASSUME InfoInv, NEW p \in Runs, ClientStep(p), NEW i \in Ids,
         cid[p] = i \/ SavedId(MyInfo(p)) = i
  PROVE  cid'[p] = i \/ SavedId(MyInfo(p)') = i
  <1>0. /\ InfoIn(p) /\ HostOf[p] \in Hosts /\ i # None
        /\ cpc \in [Runs -> ClientStates]
        /\ cid \in [Runs -> Ids \cup {None}] /\ lines \in [Runs -> Seq(Line)]
        /\ meInfo \in [Hosts -> Seq(Line) \cup {None}]
    BY InfoFacts
  <1>1. cpc[p] \notin Ended \cup {"off"}
    BY ClientIsAlive
  <1>2. CASE cid'[p] = cid[p] /\ MyInfo(p)' = MyInfo(p)
    BY <1>2
  <1>3. CASE SaveName(p)
    <2>1. cpc[p] = "save_name" /\ cid'[p] = cid[p]
      BY <1>0, <1>3 DEF SaveName, AppendLine, memory
    <2>2. SavedId(MyInfo(p)) = None
      BY <1>0, <2>1 DEF InfoIn, SavedId
    <2>3. QED BY <1>0, <2>1, <2>2
  <1>4. CASE SaveId(p)
    <2>1. cpc[p] = "save_id" /\ cid'[p] = cid[p]
      BY <1>0, <1>4 DEF SaveId, AppendLine, memory
    <2>2. Len(MyInfo(p)) = 1
      BY <1>0, <2>1 DEF InfoIn
    <2>3. SavedId(MyInfo(p)) = None
      BY <2>2 DEF SavedId
    <2>4. QED BY <1>0, <2>1, <2>3
  <1>5. CASE TruncateMeInfo(p)
    BY <1>0, <1>5 DEF TruncateMeInfo, memory, InfoIn, Rewriting, Ended
  <1>6. CASE WriteMeInfo(p)
    <2>1. cpc[p] = "key_write" /\ cid'[p] = cid[p]
      BY <1>0, <1>6 DEF WriteMeInfo
    <2>2. MyInfo(p) = <<>>
      BY <1>0, <2>1 DEF InfoIn
    <2>3. SavedId(MyInfo(p)) = None
      BY <2>2 DEF SavedId
    <2>4. QED BY <1>0, <2>1, <2>3
  <1>7. CASE ReceiveRegistration(p)
    <2>1. /\ cpc[p] = "await_reg" /\ UNCHANGED meInfo
          /\ MyInfo(p) = None \/ cid'[p] = cid[p]
      BY <1>7 DEF ReceiveRegistration, Await
    <2>2. cid[p] = SavedId(MyInfo(p))
      BY <1>0, <2>1 DEF InfoIn, Rewriting, Ended
    <2>3. MyInfo(p) # None
      BY <1>0, <2>2 DEF SavedId
    <2>4. QED BY <2>1, <2>2, <2>3
  <1>8. CASE NotRegistered(p) \/ NothingToSend(p) \/ NoCksum(p) \/ ReceiveAck(p) \/ ReceiveFinalAck(p)
    <2>1. /\ cpc[p] \in {"genkey", "load", "await_file", "await_ack", "await_final"}
          /\ UNCHANGED meInfo
      BY <1>8
         DEF NotRegistered, NothingToSend, NoCksum, ReceiveAck, ReceiveFinalAck,
             ReceiveConfirmation, Await, End
    <2>2. cid[p] = SavedId(MyInfo(p))
      BY <1>0, <2>1 DEF InfoIn, Rewriting, Ended
    <2>3. QED BY <2>1, <2>2 DEF MyInfo
  <1>9. CASE \/ GenerateRSAKeyPair(p) \/ SendPublicKey(p) \/ ReceiveKey(p) \/ SendFile(p)
             \/ CksumSucceeded(p) \/ CksumFailed(p) \/ CksumFailedFinally(p)
    <2>1. UNCHANGED <<cid, meInfo>>
      BY <1>9
         DEF GenerateRSAKeyPair, SendPublicKey, ReceiveKey, SendFile, CksumSucceeded,
             CksumFailed, CksumFailedFinally, memory
    <2>2. QED BY <1>2, <2>1 DEF MyInfo
  <1>10. QED BY <1>3, <1>4, <1>5, <1>6, <1>7, <1>8, <1>9 DEF ClientStep

\* A session that registered its client answers, ...
LEMMA RegisteringSteps ==
  ASSUME NEW p \in Runs, HandlerStep(p), spc[p] = "register_ok"
  PROVE  SendRegistrationOk(p)
  BY DEF HandlerStep, RegisterInMap, RegisterInDatabase, SendRegistrationErr, StoreKeys,
         SendAESKey, Decrypt, CheckRoot, MakeRoot, CheckClientDir, MakeClientDir,
         CheckDirectory, MakeDirectory, OpenFile, WriteFile, AddToFileMap, AddToClient,
         CalculateCksum, CheckRow, InsertRow, ResetRow, SendCksum, MarkVerified,
         SendReceived, CheckFile, RemoveFile, DeleteRow, TestClientFiles, PopClientFile,
         TestFileMap, PopFileMap, TestMap, Respond, Unreachable, AtDatabase

\* ... and the client that waits for this answer does nothing else.
LEMMA AwaitingSteps ==
  ASSUME NEW p \in Runs, ClientStep(p), cpc[p] = "await_reg"
  PROVE  ReceiveRegistration(p)
  BY DEF ClientStep, SaveName, SaveId, AppendLine, GenerateRSAKeyPair, NotRegistered,
         TruncateMeInfo, WriteMeInfo, SendPublicKey, ReceiveKey, SendFile, NothingToSend,
         CksumSucceeded, CksumFailed, CksumFailedFinally, ReceiveCksum, NoCksum, ReceiveAck,
         ReceiveFinalAck, ReceiveConfirmation, Await

\* The id of a row stays on its way, or where it is saved.
LEMMA NextCarries ==
  ASSUME ~DbFaults, ~Kills, ~Crashes, Overlap # "any", ReachInv, [Next]_vars,
         NEW i \in Registered, Carried(i)
  PROVE  Carried(i)'
  <1>0. /\ TypeInv /\ i \in Runs /\ i \in Ids /\ NewIn(i) /\ Connected(i) /\ ClientInStep(i)
        /\ StepInv /\ HostOf[i] \in Hosts /\ None \notin Ids
        /\ cpc \in [Runs -> ClientStates] /\ spc \in [Runs -> SessionStates]
        /\ cid \in [Runs -> Ids \cup {None}]
        /\ s2c \in [Runs -> Seq(Response)]
    BY ReachFacts DEF Registered, Ids
  <1>1. CASE spc[i] = "register_ok"
    <2>1. cpc[i] = "await_reg" /\ "client" \in open[i]
      BY <1>0, <1>1 DEF NewIn, Registering, Connected, Ended
    <2>2. CASE SessionMoves(i)
      <3>1. s2c[i] = <<>>
        BY <1>0, <2>2, SessionAnswers DEF SessionMoves
      <3>2. SendRegistrationOk(i)
        <4>1. HandlerStep(i)
          BY <1>1, <2>2 DEF SessionMoves, SessionStep, Receive, CloseSession
        <4>2. QED BY <1>0, <1>1, <4>1, RegisteringSteps
      <3>3. s2c'[i] = <<Status(SERVER_CODE_REGISTRATION_OK, i)>>
        BY <1>0, <2>1, <3>1, <3>2 DEF SendRegistrationOk, Respond, Answer
      <3>4. QED BY <3>3 DEF Carried, Offered
    <2>3. CASE spc'[i] = spc[i]
      BY <1>1, <2>3 DEF Carried
    <2>4. QED
      BY <1>0, <2>1, <2>2, <2>3, StepOf
         DEF Connect, Start, ConnectInVain, ClientMoves, server, Kill, Crash, Still
  <1>2. CASE Offered(i)
    <2>1. /\ cpc[i] = "await_reg" /\ MyInfo(i) = None /\ "client" \in open[i]
          /\ s2c[i] # <<>>
      BY <1>0, <1>2 DEF NewIn, Connected, Ended, Offered
    <2>2. CASE s2c'[i] = s2c[i]
      BY <1>2, <2>2 DEF Carried, Offered
    <2>3. CASE SessionMoves(i)
      BY <1>0, <2>1, <2>3, SessionAnswers DEF SessionMoves
    <2>4. CASE ClientMoves(i)
      <3>1. ReceiveRegistration(i)
        BY <1>0, <2>1, <2>4, AwaitingSteps DEF ClientMoves
      <3>2. Len(s2c[i]) = 1
        BY <1>0, <2>1 DEF ClientInStep, InStep
      <3>3. s2c[i][1] = Status(SERVER_CODE_REGISTRATION_OK, i)
        BY <1>2, <3>2 DEF Offered
      <3>4. ResponseTo(i) = Status(SERVER_CODE_REGISTRATION_OK, i)
        BY <1>0, <2>1, <3>2, <3>3 DEF ResponseTo
      <3>5. /\ ResponseTo(i).code = SERVER_CODE_REGISTRATION_OK
            /\ ResponseTo(i).id = i
        BY <3>4 DEF Status, ResponseOf
      <3>6. cid'[i] = i
        BY <1>0, <2>1, <3>1, <3>5 DEF ReceiveRegistration
      <3>7. QED BY <1>0, <3>6 DEF Carried
    <2>5. QED
      BY <1>0, <2>1, <2>2, <2>3, <2>4, StepOf
         DEF Connect, Start, ConnectInVain, StartAlone, net, Kill, Crash, Still
  <1>3. ASSUME NEW p \in Runs, HostOf[p] = HostOf[i],
               cid[p] = i \/ SavedId(MyInfo(p)) = i
        PROVE  Carried(i)'
    <2>0. InfoInv /\ InfoIn(p)
      BY ReachFacts
    <2>1. CASE ClientMoves(p)
      <3>1. cid'[p] = i \/ SavedId(MyInfo(p)') = i
        BY <1>0, <1>3, <2>0, <2>1, ClientKeepsId DEF ClientMoves
      <3>2. QED BY <1>3, <3>1 DEF Carried, MyInfo
    <2>2. CASE UNCHANGED client
      BY <1>3, <2>2 DEF Carried, client, memory, MyInfo
    <2>3. CASE Connect(p) \/ ConnectInVain(p)
      <3>1. cpc[p] = "off" /\ UNCHANGED meInfo
        BY <2>3 DEF Connect, Start, ConnectInVain, StartAlone
      <3>2. cid[p] = None
        BY <2>0, <3>1 DEF InfoIn
      <3>3. QED BY <1>0, <1>3, <3>1, <3>2 DEF Carried, MyInfo
    <2>4. ASSUME NEW q \in Runs \ {p}, ClientMoves(q) \/ Connect(q) \/ ConnectInVain(q)
          PROVE  Carried(i)'
      <3>1. Still(p)
        BY <1>0, <2>4, ClientIsLocal, StartIsLocal
      <3>2. CASE cid[p] = i
        BY <1>3, <3>1, <3>2 DEF Still, Carried
      <3>3. CASE SavedId(meInfo[HostOf[i]]) = i
        <4>1. CASE UNCHANGED meInfo
          BY <3>3, <4>1 DEF Carried
        <4>2. CASE ClientMoves(q) /\ HostOf[q] = HostOf[i]
          <5>1. cid'[q] = i \/ SavedId(MyInfo(q)') = i
            BY <1>0, <2>0, <3>3, <4>2, ClientKeepsId DEF ClientMoves, MyInfo
          <5>2. QED BY <4>2, <5>1 DEF Carried, MyInfo
        <4>3. CASE ClientMoves(q) /\ HostOf[q] # HostOf[i]
          <5>1. meInfo'[HostOf[i]] = meInfo[HostOf[i]]
            BY <1>0, <4>3, InfoOfOthers DEF ClientMoves
          <5>2. QED BY <3>3, <5>1 DEF Carried
        <4>4. QED
          BY <2>4, <4>1, <4>2, <4>3 DEF Connect, Start, ConnectInVain, StartAlone
      <3>4. QED BY <1>3, <3>2, <3>3 DEF MyInfo
    <2>5. QED
      BY <2>1, <2>2, <2>3, <2>4 DEF Next, vars, SessionMoves, Kill
  <1>4. QED BY <1>0, <1>1, <1>2, <1>3 DEF Carried, MyInfo

\* ReachInv is inductive when nobody is killed and no transaction fails.
LEMMA NextKeepsReach ==
  ASSUME ~DbFaults, ~Kills, ~Crashes, Overlap # "any", ReachInv, [Next]_vars
  PROVE  ReachInv'
  <1>1. MineInv' /\ InfoInv' /\ RowsNamed'
    BY NextKeepsMine, NextKeepsInfo, RowsChange DEF ReachInv
  <1>2. \A p \in Runs : NewIn(p)' /\ Answered(p)'
    BY NextKeepsNew
  <1>3. ASSUME NEW i \in Registered'
        PROVE  Carried(i)'
    <2>1. CASE i \in Registered
      BY <2>1, NextCarries DEF ReachInv
    <2>2. CASE i \notin Registered
      <3>1. PICK p \in Runs : RegisterInDatabase(p) /\ Registered' = Registered \cup {p}
        BY <1>3, <2>2, RowsChange DEF ReachInv
      <3>2. i = p /\ spc \in [Runs -> SessionStates]
        BY <1>3, <2>2, <3>1, ReachFacts
      <3>3. spc'[i] = "register_ok"
        BY <3>1, <3>2 DEF RegisterInDatabase, Goto
      <3>4. QED BY <3>3 DEF Carried
    <2>3. QED BY <2>1, <2>2
  <1>4. QED BY <1>1, <1>2, <1>3 DEF ReachInv

\* At first there are no rows, and nobody is being registered.
LEMMA InitReach == Init => ReachInv
  BY InitMine, InitInfo
     DEF Init, NetInit, ServerInit, ClientInit, ReachInv, RowsNamed, Registered, NewIn,
         Answered, Offered, Registering, Ended

\* When runs of one directory follow one another and nobody is killed, a client
\* whose name is taken from everybody else can use it: its id reaches it, through
\* registrations that race with it under the same name, and stays in its me.info.
THEOREM IdsReachClients ==
  ASSUME ~DbFaults, ~Kills, ~Crashes, Overlap # "any"
  PROVE  Spec => []IdReachesClient
  <1>1. ReachInv /\ [Next]_vars => ReachInv'
    BY NextKeepsReach
  <1>2. ReachInv => IdReachesClient
    <2>1. SUFFICES ASSUME ReachInv, NEW i \in Registered
                   PROVE  \/ spc[i] = "register_ok"
                          \/ \E p \in Runs : \/ cid[p] = i
                                             \/ \E n \in DOMAIN s2c[p] : s2c[p][n] =
                                                   Status(SERVER_CODE_REGISTRATION_OK, i)
                          \/ \E h \in Hosts : SavedId(meInfo[h]) = i
      BY DEF IdReachesClient
    <2>2. Carried(i) /\ i \in Runs /\ HostOf[i] \in Hosts
      BY <2>1, ReachFacts DEF ReachInv, Registered, Ids
    <2>3. QED BY <2>2 DEF Carried, Offered
  <1>3. QED BY <1>1, <1>2, InitReach, PTL DEF Spec
=============================================================================
