---------------------------- MODULE StartupProofs ----------------------------
(***************************************************************************)
(* Whatever the two files say and however large ports and numbers are: the *)
(* server comes up on a free port, a client that is told the same port     *)
(* meets it, and every line that transfer.info has is found.               *)
(***************************************************************************)
EXTENDS Startup, TLAPS

\* The server goes on from what PortIn made of port.info.
ServerInv ==
    /\ spc \in {"load", "open", "on", "off"}
    /\ spc # "load" => port = PortIn(portInfo)
    /\ spc = "on" => listening = port \/ port = 0
    /\ spc = "off" => Bound = {}

\* readLine has read the lines up to lineCount; when it returns, the line it
\* looks for has been the last one unless the file has too few.
ReaderInv ==
    cpc = "read" =>
        /\ transferInfo # None
        /\ lineNumber \in 1..3 /\ lineCount \in Nat \ {0}
        /\ reading => lineCount <= lineNumber /\ lineCount <= Len(transferInfo)
        /\ ~reading /\ Len(transferInfo) >= lineNumber =>
               lineCount = lineNumber /\ destination = transferInfo[lineNumber]

\* The client keeps the name it has found, and the port text that follows the
\* colon of its address if it accepts it.
ClientInv ==
    /\ cpc = "main" /\ transferInfo # None /\ Len(transferInfo) >= CLIENT_NAME
         => clientName = transferInfo[CLIENT_NAME]
    /\ cpc = "connect" \/ connected \/ sockPort # None => transferInfo # None
    /\ sockPort # None /\ transferInfo[IP_ADDRESS].colon =>
         LET address == transferInfo[IP_ADDRESS]
         IN  /\ address.host # "remote" /\ Converts(address.text) => host = "local"
             /\ Converts(address.text) /\ Accepted(address.text) => sockPort = address.text

StartupInv ==
    /\ portInfo \in PortInfos
    /\ transferInfo \in TransferInfos
    /\ taken \in TakenPorts
    /\ ServerInv
    /\ ReaderInv
    /\ ClientInv

-----------------------------------------------------------------------------
LEMMA InfoTypes ==
    ASSUME transferInfo \in TransferInfos, transferInfo # None
    PROVE  /\ transferInfo \in Seq(Pieces) /\ Len(transferInfo) \in Nat \ {0}
           /\ transferInfo[IP_ADDRESS] \in Addresses
  BY StartupAssumption DEF IP_ADDRESS

LEMMA LineNumbers == IP_ADDRESS = 1 /\ CLIENT_NAME = 2 /\ LINE_OF_FILE_PATH_TO_SEND = 3
  BY DEF IP_ADDRESS, CLIENT_NAME, LINE_OF_FILE_PATH_TO_SEND

\* A call of readLine starts at line 1.
LEMMA LookStarts ==
    ASSUME StartupInv, NEW l \in 1..3, Look(l), UNCHANGED files, transferInfo # None
    PROVE  ReaderInv'
<1>1. transferInfo' = transferInfo
  BY DEF files
<1>2. Len(transferInfo) \in Nat \ {0}
  BY InfoTypes DEF StartupInv
<1> QED
  BY <1>1, <1>2 DEF Look, ReaderInv

LEMMA StartupInit == ASSUME Init PROVE StartupInv
  BY DEF Init, StartupInv, ServerInv, ReaderInv, ClientInv

\* Only LoadPort and OpenServer touch the server.
LEMMA ServerNext ==
    ASSUME StartupInv, [Next]_vars
    PROVE  ServerInv'
<1>1. UNCHANGED files
  BY DEF Next, LoadPort, OpenServer, Begin, GetLine, LoadHostPort, Connect, LoadClientName,
         SendFile, LoadFilePath, vars, Look
<1>2. CASE LoadPort
  BY <1>1, <1>2 DEF LoadPort, StartupInv, ServerInv, files
<1>3. CASE OpenServer
  <2>1. /\ port = PortIn(portInfo) /\ UNCHANGED <<port, portInfo, taken>> /\ spc' \in {"on", "off"}
        /\ UNCHANGED Bound
    BY <1>3 DEF OpenServer, StartupInv, ServerInv, files, Bound
  <2>2. spc' = "on" => listening' = port \/ port = 0
    BY <1>3 DEF OpenServer, Bound
  <2>3. spc' = "off" => Bound = {}
    BY <1>3 DEF OpenServer
  <2> QED
    BY <2>1, <2>2, <2>3 DEF ServerInv
<1>4. CASE UNCHANGED server
  BY <1>1, <1>4 DEF StartupInv, ServerInv, server, files, Bound
<1> QED
  BY <1>2, <1>3, <1>4 DEF Next, Begin, GetLine, LoadHostPort, Connect, LoadClientName,
         SendFile, LoadFilePath, vars

\* GetLine reads the next line; every other step of the client starts or leaves
\* readLine.
LEMMA ReaderNext ==
    ASSUME StartupInv, [Next]_vars
    PROVE  ReaderInv'
<1> USE LineNumbers
<1>1. CASE Begin
  <2>1. CASE transferInfo = None
    BY <1>1, <2>1 DEF Begin, ReaderInv
  <2>2. CASE transferInfo # None
    BY <1>1, <2>2, LookStarts DEF Begin
  <2> QED
    BY <2>1, <2>2
<1>2. CASE GetLine
  <2>1. /\ UNCHANGED transferInfo /\ transferInfo # None
        /\ transferInfo \in Seq(Pieces) /\ Len(transferInfo) \in Nat \ {0}
    BY <1>2, InfoTypes DEF GetLine, files, StartupInv, ReaderInv
  <2>2. lineNumber \in 1..3 /\ lineCount \in Nat \ {0}
          /\ lineCount <= lineNumber /\ lineCount <= Len(transferInfo)
    BY <1>2 DEF GetLine, StartupInv, ReaderInv
  <2>3. CASE lineCount = lineNumber
    BY <1>2, <2>1, <2>2, <2>3 DEF GetLine, ReaderInv
  <2>4. CASE lineCount # lineNumber
    <3>1. /\ lineCount' = lineCount + 1 /\ UNCHANGED lineNumber
          /\ reading' <=> lineCount # Len(transferInfo)
      BY <1>2, <2>4 DEF GetLine
    <3>2. lineCount + 1 <= lineNumber
      BY <2>2, <2>4
    <3>3. CASE lineCount = Len(transferInfo)
      BY <2>1, <2>2, <3>1, <3>2, <3>3 DEF ReaderInv
    <3>4. CASE lineCount # Len(transferInfo)
      <4>1. lineCount + 1 <= Len(transferInfo)
        BY <2>1, <2>2, <3>4
      <4> QED
        BY <2>1, <2>2, <3>1, <3>2, <3>4, <4>1 DEF ReaderInv
    <3> QED
      BY <3>3, <3>4
  <2> QED
    BY <2>3, <2>4
<1>3. CASE LoadHostPort
  <2>1. transferInfo # None
    BY <1>3 DEF LoadHostPort, Returned, StartupInv, ReaderInv
  <2>2. CASE cpc' = "connect"
    BY <2>2 DEF ReaderInv
  <2>3. CASE Look(CLIENT_NAME)
    BY <1>3, <2>1, <2>3, LookStarts DEF LoadHostPort
  <2> QED
    BY <1>3, <2>2, <2>3 DEF LoadHostPort
<1>4. CASE Connect
  BY <1>4, LookStarts DEF Connect, StartupInv, ClientInv
<1>5. CASE LoadClientName
  BY <1>5 DEF LoadClientName, ReaderInv
<1>6. CASE SendFile
  BY <1>6, LookStarts DEF SendFile, StartupInv, ClientInv, ReaderInv
<1>7. CASE LoadFilePath
  BY <1>7 DEF LoadFilePath, ReaderInv
<1>8. CASE LoadPort \/ OpenServer \/ UNCHANGED vars
  BY <1>8 DEF LoadPort, OpenServer, vars, files, reader, StartupInv, ReaderInv
<1> QED
  BY <1>1, <1>2, <1>3, <1>4, <1>5, <1>6, <1>7, <1>8 DEF Next

\* The texts that load_host_port takes from the first line.
LEMMA ClientNext ==
    ASSUME StartupInv, [Next]_vars
    PROVE  ClientInv'
<1> USE LineNumbers
<1>1. CASE LoadHostPort
  <2>1. UNCHANGED <<transferInfo, connected, clientName>> /\ cpc' # "main"
    BY <1>1 DEF LoadHostPort, files, names, Look
  <2>2. transferInfo # None /\ Len(transferInfo) \in Nat \ {0}
          /\ transferInfo[IP_ADDRESS] \in Addresses
    BY <1>1, InfoTypes DEF LoadHostPort, Returned, StartupInv, ReaderInv
  <2>3. destination = transferInfo[IP_ADDRESS]
    BY <1>1, <2>2 DEF LoadHostPort, Returned, StartupInv, ReaderInv
  <2>4. destination.host \in {"local", "remote", "malformed"}
    BY <2>2, <2>3 DEF Addresses
  <2>5. ASSUME destination.colon, Converts(destination.text)
        PROVE  /\ destination.host # "remote" => host' = "local"
               /\ Accepted(destination.text) => sockPort' = destination.text
    <3>1. PortTexts(destination) = {destination.text}
      BY <2>5 DEF PortTexts
    <3> QED
      BY <1>1, <2>4, <2>5, <3>1 DEF LoadHostPort, DEFAULT_HOST
  <2> QED
    BY <2>1, <2>2, <2>3, <2>5 DEF ClientInv, Converts, Accepted, IsNumber
<1>2. CASE LoadClientName
  BY <1>2 DEF LoadClientName, Returned, StartupInv, ReaderInv, ClientInv, files, socket,
         Converts, Accepted, IsNumber
<1>3. CASE Connect
  BY <1>3 DEF Connect, Look, StartupInv, ClientInv, files, names, Converts, Accepted, IsNumber
<1>4. CASE Begin \/ GetLine \/ SendFile \/ LoadFilePath
  <2>1. UNCHANGED <<transferInfo, host, sockPort, connected, clientName>> /\ cpc' # "connect"
    BY <1>4 DEF Begin, GetLine, SendFile, LoadFilePath, Look, files, socket, names
  <2>2. cpc' = "main" => transferInfo = None
    BY <1>4 DEF Begin, GetLine, SendFile, LoadFilePath, Look
  <2> QED
    BY <2>1, <2>2 DEF StartupInv, ClientInv, Converts, Accepted, IsNumber
<1>5. CASE LoadPort \/ OpenServer \/ UNCHANGED vars
  BY <1>5 DEF LoadPort, OpenServer, vars, StartupInv, ClientInv, files, names, socket, Converts,
         Accepted, IsNumber
<1> QED
  BY <1>1, <1>2, <1>3, <1>4, <1>5 DEF Next

LEMMA StartupNext ==
    ASSUME StartupInv, [Next]_vars
    PROVE  StartupInv'
<1>1. UNCHANGED files
  BY DEF Next, LoadPort, OpenServer, Begin, GetLine, LoadHostPort, Connect, LoadClientName,
         SendFile, LoadFilePath, vars, Look
<1> QED
  BY <1>1, ServerNext, ReaderNext, ClientNext DEF StartupInv, files

LEMMA StartupInvariant == Spec => []StartupInv
  BY StartupInit, StartupNext, PTL DEF Spec

-----------------------------------------------------------------------------
\* Whatever port.info says and whichever ports are taken: unless port.info is
\* unusable, the server comes up when the port that it is told, or the default one
\* if it is told none, can be bound (server.py:66-102, 138-166).
THEOREM ServerComesUp == Spec => []ServerUp
<1>1. ASSUME StartupInv, spc = "off", portInfo \notin Unusable
      PROVE  Told \in taken
  <2>1. Bound = {} /\ port = PortIn(portInfo)
    BY <1>1 DEF StartupInv, ServerInv
  <2>2. portInfo \in Texts \cup {None} /\ (portInfo = None => portInfo \notin Texts)
    BY <1>1, StartupAssumption DEF StartupInv
  <2>3. CASE port = 0
    <3>1. 1..MAX_PORT \subseteq taken
      BY <2>1, <2>3 DEF Bound
    <3>2. Told \in 1..MAX_PORT
      BY StartupAssumption DEF Told
    <3> QED
      BY <3>1, <3>2
  <2>4. CASE port # 0
    <3>1. port = Told
      BY <1>1, <2>1, <2>2, <2>4, StartupAssumption DEF PortIn, Told, IsNumber, Texts
    <3>2. Told \in 1..MAX_PORT
      BY StartupAssumption DEF Told
    <3> QED
      BY <2>1, <2>4, <3>1, <3>2 DEF Bound
  <2> QED
    BY <2>3, <2>4
<1>2. StartupInv => ServerUp
  BY <1>1 DEF ServerUp
<1> QED
  BY <1>2, StartupInvariant, PTL

\* For all ports from 1 to MAX_PORT: the text that both programs are given for
\* a port is the same port to both (server.py:88-97, SocketHandler.cpp:37-48).
THEOREM SamePortsMeet == Spec => []SamePortMeets
<1>1. ASSUME StartupInv, sockPort # None, spc = "on", portInfo \in Texts,
             transferInfo[IP_ADDRESS].colon, portInfo = transferInfo[IP_ADDRESS].text,
             IsNumber(portInfo), portInfo.number \in 1..MAX_PORT,
             transferInfo[IP_ADDRESS].host # "remote"
      PROVE  host = "local" /\ listening \in Resolved(sockPort)
  <2>1. portInfo # None /\ portInfo \notin Unusable
    BY <1>1, StartupAssumption
  <2>2. PortIn(portInfo) = portInfo.number
    BY <1>1, <2>1, StartupAssumption DEF PortIn
  <2>3. listening = portInfo.number
    BY <1>1, <2>2, StartupAssumption DEF StartupInv, ServerInv
  <2>4. Converts(portInfo) /\ Accepted(portInfo)
    BY <1>1, StartupAssumption DEF Converts, Accepted, IsNumber
  <2>5. sockPort = portInfo /\ host = "local"
    BY <1>1, <2>4 DEF StartupInv, ClientInv
  <2> QED
    BY <1>1, <2>3, <2>5, StartupAssumption DEF Resolved, IsNumber
<1>2. StartupInv => SamePortMeets
  BY <1>1 DEF SamePortMeets
<1> QED
  BY <1>2, StartupInvariant, PTL

\* However many lines transfer.info has, each of them is found by its number
\* (FileHandler.cpp:9-61).
THEOREM LinesAreFound == Spec => []LinesFound
<1>1. StartupInv => LinesFound
  BY LineNumbers DEF StartupInv, ReaderInv, ClientInv, LinesFound, Returned, Found
<1> QED
  BY <1>1, StartupInvariant, PTL
-----------------------------------------------------------------------------
\* What load_port makes of a text is a port or None.
LEMMA PortInType == PortIn(portInfo) \in 0..MAX_PORT \cup {None}
  BY StartupAssumption DEF PortIn

\* What load_host_port takes for the port is a text.
LEMMA PortTextsType ==
    ASSUME NEW address \in Addresses
    PROVE  PortTexts(address) \subseteq Texts
<1>1. PICK text \in Texts : text = address.text
  BY DEF Addresses
<1>2. text.number \in Int \cup {None} /\ None \notin Int
  BY StartupAssumption DEF Texts
<1>3. ASSUME NEW n \in Int \cup {None} PROVE Text(n, FALSE) \in Texts
  BY DEF Text, Texts
<1>4. Shortened(text) \subseteq Texts
  <2>1. CASE text.more
    BY <1>2, <1>3, <2>1 DEF Shortened
  <2>2. CASE ~text.more /\ text.number \in {None} \cup -9..9
    <3>1. Shortened(text) = {Text(None, FALSE), Text(0, FALSE)}
      BY <2>2 DEF Shortened
    <3>2. Text(None, FALSE) \in Texts /\ Text(0, FALSE) \in Texts
      BY DEF Text, Texts
    <3> QED
      BY <3>1, <3>2
  <2>3. CASE ~text.more /\ text.number \in Int \ -9..9
    <3>1. text.number \div 10 \in Int /\ -((-text.number) \div 10) \in Int /\ text.number # None
      BY <1>2, <2>3
    <3>2. /\ Text(text.number \div 10, FALSE) \in Texts
          /\ Text(-((-text.number) \div 10), FALSE) \in Texts
      BY <1>3, <3>1, Zenon
    <3>3. \/ Shortened(text) = {Text(text.number \div 10, FALSE)}
          \/ Shortened(text) = {Text(-((-text.number) \div 10), FALSE)}
      BY <1>2, <2>3 DEF Shortened
    <3> QED
      BY <3>2, <3>3
  <2> QED
    BY <1>2, <2>1, <2>2, <2>3
<1> QED
  BY <1>1, <1>4 DEF PortTexts

LEMMA StartupTypesInit == ASSUME Init PROVE TypeOK
<1>1. reading \in BOOLEAN /\ connected \in BOOLEAN
  BY DEF Init
<1> QED
  BY <1>1 DEF Init, TypeOK

LEMMA StartupTypesNext ==
    ASSUME StartupInv, TypeOK, [Next]_vars
    PROVE  TypeOK'
<1> USE LineNumbers DEF TypeOK
<1>1. CASE LoadPort
  BY <1>1, PortInType DEF LoadPort, files, reader, socket, names
<1>2. CASE OpenServer
  <2>1. listening' \in 1..MAX_PORT \cup {None} /\ spc' \in {"on", "off"}
    BY <1>2 DEF OpenServer, Bound
  <2>2. UNCHANGED <<files, port, cpc, reader, destination, socket, names>>
    BY <1>2 DEF OpenServer
  <2> QED
    BY <2>1, <2>2 DEF files, reader, socket, names
<1>3. CASE Begin
  <2>1. /\ reading' \in BOOLEAN /\ lineNumber' \in 1..3 /\ lineCount' \in 1..4
        /\ cpc' \in {"main", "read"}
    <3>1. CASE transferInfo = None
      BY <1>3, <3>1 DEF Begin, reader
    <3>2. CASE transferInfo # None
      BY <1>3, <3>2 DEF Begin, Look
    <3> QED
      BY <3>1, <3>2
  <2>2. UNCHANGED <<files, server, destination, socket, names>>
    BY <1>3 DEF Begin
  <2> QED
    BY <2>1, <2>2 DEF files, server, socket, names
<1>4. CASE GetLine
  <2>1. /\ transferInfo \in Seq(Pieces) /\ lineCount \in 1..Len(transferInfo)
        /\ lineCount <= lineNumber
    BY <1>4, InfoTypes DEF GetLine, StartupInv, ReaderInv
  <2>2. transferInfo[lineCount] \in Pieces
    BY <2>1
  <2>3. lineCount' \in 1..4
    BY <1>4, <2>1 DEF GetLine
  <2>4. reading' \in BOOLEAN
    BY <1>4 DEF GetLine
  <2> QED
    BY <1>4, <2>2, <2>3, <2>4 DEF GetLine, files, server, socket, names
<1>5. CASE LoadHostPort
  <2>1. destination \in Addresses
    BY <1>5, InfoTypes DEF LoadHostPort, Returned, StartupInv, ReaderInv
  <2>2. PortTexts(destination) \subseteq Texts
    BY <2>1, PortTextsType
  <2>3. Text(DEFAULT_PORT, FALSE) \in Texts
    BY StartupAssumption DEF Text, Texts
  <2>4. destination.host \in {"local", "remote", "malformed"}
    BY <2>1 DEF Addresses
  <2>5. host' \in {"local", "remote", None} /\ sockPort' \in Texts
    BY <1>5, <2>2, <2>3, <2>4 DEF LoadHostPort, DEFAULT_HOST
  <2>6. CASE cpc' = "connect" /\ UNCHANGED reader
    BY <1>5, <2>5, <2>6 DEF LoadHostPort, files, server, reader, names
  <2>7. CASE Look(CLIENT_NAME)
    <3>1. reading' \in BOOLEAN /\ lineNumber' \in 1..3 /\ lineCount' \in 1..4 /\ cpc' = "read"
      BY <1>5, <2>7 DEF LoadHostPort, Look
    <3>2. UNCHANGED <<files, server, destination, connected, names>>
      BY <1>5 DEF LoadHostPort
    <3> QED
      BY <2>5, <3>1, <3>2 DEF files, server, names
  <2> QED
    BY <1>5, <2>6, <2>7 DEF LoadHostPort
<1>6. CASE Connect
  <2>1. connected' \in BOOLEAN /\ reading' \in BOOLEAN
    BY <1>6 DEF Connect, Look
  <2> QED
    BY <1>6, <2>1 DEF Connect, Look, files, server, names
<1>7. CASE LoadClientName
  BY <1>7 DEF LoadClientName, files, server, reader, socket
<1>8. CASE SendFile
  <2>1. reading' \in BOOLEAN
    BY <1>8 DEF SendFile, Look, reader
  <2> QED
    BY <1>8, <2>1 DEF SendFile, Look, files, server, reader, socket, names
<1>9. CASE LoadFilePath
  <2>1. Path(FALSE) \in Pieces
    BY DEF Path, Pieces
  <2>2. filePath' \in Pieces \cup {None} /\ cpc' = "done"
    BY <1>9, <2>1 DEF LoadFilePath
  <2>3. UNCHANGED <<files, server, reader, destination, socket, clientName>>
    BY <1>9 DEF LoadFilePath
  <2> QED
    BY <2>2, <2>3 DEF files, server, reader, socket
<1>10. CASE UNCHANGED vars
  BY <1>10 DEF vars, files, server, reader, socket, names
<1> QED
  BY <1>1, <1>2, <1>3, <1>4, <1>5, <1>6, <1>7, <1>8, <1>9, <1>10 DEF Next

\* Whatever the two files say, each variable keeps its type: readLine counts to
\* the line after the last one that is looked for and no further, what the server
\* binds is a port, and what the client hands to the resolver is a text
\* (FileHandler.cpp:25-47, server.py:66-102, SocketHandler.cpp:16-66).
THEOREM StartupTypes == Spec => []TypeOK
  BY StartupTypesInit, StartupTypesNext, StartupInvariant, PTL DEF Spec
=============================================================================
