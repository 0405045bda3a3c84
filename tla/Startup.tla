------------------------------- MODULE Startup -------------------------------
(***************************************************************************)
(* How the two programs find each other.  The server reads its port from   *)
(* port.info; the client reads the address of the server, its own name and *)
(* the path of the file to send from lines 1 to 3 of transfer.info, each   *)
(* with a call of FileHandler::readLine of its own.                        *)
(*                                                                         *)
(* A text is told apart by the number it starts with and by whether more   *)
(* follows: "1234" is a number, "80x" starts with one, "abc" does not.     *)
(* Numbers end at MAX_INT, the largest one that stoi converts.             *)
(***************************************************************************)
EXTENDS Integers, Sequences

CONSTANTS
    None,
    Unreadable,    \* a port.info that cannot be opened
    Superscript,   \* one made of digits as U+00B2, which isnumeric accepts and
                   \* int does not
    MAX_PORT,      \* MAX_PORT of the server, MAX_PORT_VALUE of the client
    DEFAULT_PORT,
    MAX_INT,
    PortInfos,     \* what port.info may be, None if it is missing
    TakenPorts,    \* which ports the server may find that it cannot bind
    TransferInfos  \* what transfer.info may be, as the pieces between its
                   \* line ends, None if it is missing

Text(number, more) == [number |-> number, more |-> more]
Texts == [number : Int \cup {None}, more : BOOLEAN]

Unusable == {Unreadable, Superscript}

\* A piece of transfer.info: an address, a name, a path, or what is after the
\* last line end.  An address without a colon is its port text only.
Address(host, colon, text) == [kind |-> "address", host |-> host, colon |-> colon, text |-> text]
Name == [kind |-> "name"]
Path(upper) == [kind |-> "path", upper |-> upper]
Nothing == [kind |-> "nothing"]
Addresses ==
    [kind : {"address"}, host : {"local", "remote", "malformed"}, colon : BOOLEAN, text : Texts]
Pieces == Addresses \cup [kind : {"path"}, upper : BOOLEAN] \cup {Name, Nothing}

ASSUME StartupAssumption ==
    /\ MAX_PORT \in Nat \ {0} /\ DEFAULT_PORT \in 1..MAX_PORT
    /\ MAX_INT \in Nat /\ MAX_INT > MAX_PORT
    /\ None \notin Int
    /\ \A x \in Unusable \cup {None} : x \notin Texts
    /\ TakenPorts \subseteq SUBSET (1..MAX_PORT)
    /\ PortInfos \subseteq Texts \cup Unusable \cup {None}
    /\ \A info \in TransferInfos \ {None} :
           info \in Seq(Pieces) /\ info # <<>> /\ info[1] \in Addresses

VARIABLES
    portInfo, transferInfo,  \* the two files; nothing changes them
    taken,         \* the ports in use by other programs, or not allowed
    port,          \* Server.port
    listening,     \* the port the server listens on, or None
    spc,           \* what the server does next
    cpc,           \* what the client does next
    lineNumber,    \* the line that readLine looks for,
    lineCount,     \* the one it has come to,
    reading,       \* whether its loop goes on
    destination,   \* and the last piece it has read
    host,          \* SocketHandler.host
    sockPort,      \* SocketHandler.port
    connected, clientName, filePath

files == <<portInfo, transferInfo, taken>>
server == <<port, listening, spc>>
reader == <<lineNumber, lineCount, reading>>
socket == <<host, sockPort, connected>>
names == <<clientName, filePath>>
vars == <<files, server, cpc, reader, destination, socket, names>>

IP_ADDRESS == 1
CLIENT_NAME == 2
LINE_OF_FILE_PATH_TO_SEND == 3
DEFAULT_HOST == "local"

TypeOK ==
    /\ portInfo \in PortInfos /\ transferInfo \in TransferInfos /\ taken \in TakenPorts
    /\ port \in 0..MAX_PORT \cup {None}
    /\ listening \in 1..MAX_PORT \cup {None}
    /\ spc \in {"load", "open", "on", "off"}
    /\ cpc \in {"begin", "read", "connect", "main", "done"}
    /\ lineNumber \in 1..3 /\ lineCount \in 1..4 /\ reading \in BOOLEAN
    /\ destination \in Pieces \cup {None}
    /\ host \in {"local", "remote", None} /\ sockPort \in Texts \cup {None}
    /\ connected \in BOOLEAN
    /\ clientName \in Pieces \cup {None} /\ filePath \in Pieces \cup {None}

Init ==
    /\ portInfo \in PortInfos /\ transferInfo \in TransferInfos /\ taken \in TakenPorts
    /\ port = None /\ listening = None /\ spc = "load"
    /\ cpc = "begin"
    /\ lineNumber = 1 /\ lineCount = 1 /\ reading = FALSE /\ destination = None
    /\ host = None /\ sockPort = None /\ connected = FALSE
    /\ clientName = None /\ filePath = None

IsNumber(text) == text.number # None /\ text.number >= 0 /\ ~text.more

-----------------------------------------------------------------------------
(* server.py *)

PortInUnchecked(info) ==
    CASE info = None -> DEFAULT_PORT
      [] info \in Unusable -> None
      [] OTHER -> IF IsNumber(info) THEN info.number ELSE DEFAULT_PORT

PortInOrNone(info) ==
    CASE info = None -> DEFAULT_PORT
      [] info \in Unusable -> None
      [] OTHER -> IF IsNumber(info) /\ info.number \in 0..MAX_PORT THEN info.number ELSE None

\* load_port: after an exception the port stays the None of the class.
PortIn(info) ==
    CASE info = None -> DEFAULT_PORT
      [] info \in Unusable -> None
      [] OTHER -> IF IsNumber(info) /\ info.number \in 0..MAX_PORT
                  THEN info.number ELSE DEFAULT_PORT

LoadPort ==
    /\ spc = "load"
    /\ port' = PortIn(portInfo)
    /\ spc' = "open"
    /\ UNCHANGED <<files, listening, cpc, reader, destination, socket, names>>

\* What bind may bind for self.port: for port 0 any port that is free, for what
\* is no port nothing.
Bound == (IF port = 0 THEN 1..MAX_PORT ELSE {port} \cap 1..MAX_PORT) \ taken

\* open_server; a bind that raises ends the program.
OpenServer ==
    /\ spc = "open"
    /\ \/ listening' \in Bound /\ spc' = "on"
       \/ Bound = {} /\ UNCHANGED listening /\ spc' = "off"
    /\ UNCHANGED <<files, port, cpc, reader, destination, socket, names>>

-----------------------------------------------------------------------------
(* FileHandler::readLine *)

\* readLine(transfer.info, l, destination) is called.
Look(l) ==
    /\ cpc' = "read"
    /\ lineNumber' = l /\ lineCount' = 1 /\ reading' = TRUE

GetLineTooSoon ==
    /\ cpc = "read" /\ reading
    /\ destination' = transferInfo[lineCount]
    /\ reading' = (lineCount # Len(transferInfo) /\ lineCount + 1 < lineNumber)
    /\ lineCount' = IF lineCount = lineNumber THEN lineCount ELSE lineCount + 1
    /\ UNCHANGED <<files, server, cpc, lineNumber, socket, names>>

\* One round of its loop, which ends with the file or with the line.
GetLine ==
    /\ cpc = "read" /\ reading
    /\ destination' = transferInfo[lineCount]
    /\ reading' = (lineCount # Len(transferInfo) /\ lineCount # lineNumber)
    /\ lineCount' = IF lineCount = lineNumber THEN lineCount ELSE lineCount + 1
    /\ UNCHANGED <<files, server, cpc, lineNumber, socket, names>>

\* It returns true, for the last piece of the file too if that is one short.
Found == lineCount >= lineNumber

Returned(l) == cpc = "read" /\ ~reading /\ lineNumber = l

-----------------------------------------------------------------------------
(* The client *)

\* Client::Client
Begin ==
    /\ cpc = "begin"
    /\ IF transferInfo = None
       THEN cpc' = "main" /\ UNCHANGED reader
       ELSE Look(IP_ADDRESS)
    /\ UNCHANGED <<files, server, destination, socket, names>>

\* A text but for its last character: "5" leaves nothing and "05" a zero, "57"
\* and "57x" each leave a number.
Shortened(text) ==
    LET n == text.number
    IN  IF text.more THEN {text, Text(n, FALSE)}
        ELSE IF n \in {None} \cup -9..9 THEN {Text(None, FALSE), Text(0, FALSE)}
        ELSE {Text(IF n > 9 THEN n \div 10 ELSE -((-n) \div 10), FALSE)}

\* The text that load_host_port takes for the port: without a colon substr cuts
\* off the end of the whole address.
PortTexts(address) == IF address.colon THEN {address.text} ELSE Shortened(address.text)

\* stoi, which throws if there is no number or none that fits.
Converts(text) == text.number # None /\ text.number \in -MAX_INT..MAX_INT

AcceptedBelow(text) == text.number < MAX_PORT

\* isNumeric(port) && stoi(port) >= 0 || stoi(port) <= MAX_PORT_VALUE
Accepted(text) == IsNumber(text) \/ text.number <= MAX_PORT

LoadHostPort ==
    /\ Returned(IP_ADDRESS)
    /\ \E text \in PortTexts(destination) :
           IF Converts(text)
           THEN /\ host' = IF destination.host = "malformed" THEN DEFAULT_HOST ELSE destination.host
                /\ sockPort' = IF Accepted(text) THEN text ELSE Text(DEFAULT_PORT, FALSE)
                /\ cpc' = "connect"
                /\ UNCHANGED reader
           ELSE /\ host' = DEFAULT_HOST
                /\ sockPort' = Text(DEFAULT_PORT, FALSE)
                /\ Look(CLIENT_NAME)      \* and connectToServer gives up
    /\ UNCHANGED <<files, server, destination, connected, names>>

\* The ports a port text may be resolved to; what the system makes of a number
\* that is no port is its own affair.
Resolved(text) ==
    CASE text.more -> {}
      [] ~text.more /\ text.number \in 0..MAX_PORT -> {text.number}
      [] OTHER -> {text.number % (MAX_PORT + 1)}

\* connectToServer, which connects to any program that listens there.
Connect ==
    /\ cpc = "connect"
    /\ Look(CLIENT_NAME)
    /\ \/ /\ host = "local" /\ Resolved(sockPort) \cap (taken \cup {listening}) # {}
          /\ connected' = TRUE
       \/ ~(host = "local" /\ listening \in Resolved(sockPort) /\ IsNumber(sockPort)
              /\ sockPort.number <= MAX_PORT)
            /\ UNCHANGED connected
    /\ UNCHANGED <<files, server, destination, host, sockPort, names>>

\* loadClientName reads into clientName and only reports a line not found.
LoadClientName ==
    /\ Returned(CLIENT_NAME)
    /\ clientName' = destination
    /\ cpc' = "main"
    /\ UNCHANGED <<files, server, reader, destination, socket, filePath>>

\* main: a client that is connected and registered looks for the path of the
\* file to send.
SendFile ==
    /\ cpc = "main"
    /\ \/ connected /\ Look(LINE_OF_FILE_PATH_TO_SEND)
       \/ cpc' = "done" /\ UNCHANGED reader
    /\ UNCHANGED <<files, server, destination, socket, names>>

\* loadFilePath puts the path in lower case.
LoadFilePath ==
    /\ Returned(LINE_OF_FILE_PATH_TO_SEND)
    /\ filePath' = CASE ~Found -> None
                     [] Found /\ destination.kind = "path" -> Path(FALSE)
                     [] OTHER -> destination
    /\ cpc' = "done"
    /\ UNCHANGED <<files, server, reader, destination, socket, clientName>>

Next ==
    \/ LoadPort \/ OpenServer
    \/ Begin \/ GetLine \/ LoadHostPort \/ Connect \/ LoadClientName \/ SendFile \/ LoadFilePath

Spec == Init /\ [][Next]_vars

-----------------------------------------------------------------------------
\* The port that the server should listen on, as "return default port if loading
\* is not successful" (server.py:69) has it.
Told ==
    IF portInfo \in Texts /\ IsNumber(portInfo) /\ portInfo.number \in 1..MAX_PORT
    THEN portInfo.number ELSE DEFAULT_PORT

\* Whatever port.info says, the server comes up if the port it is told, or else
\* the default one, is free; only a file that cannot be read, or a digit that int
\* refuses, keeps it down all the same.
ServerUp == spc = "off" => portInfo \in Unusable \/ Told \in taken

\* A client and a server that are told the same port meet, once the server is
\* up: what is a port to one program is the same port to the other.
SamePortMeets ==
    /\ sockPort # None /\ spc = "on"
    /\ portInfo \in Texts /\ transferInfo[IP_ADDRESS].colon
    /\ portInfo = transferInfo[IP_ADDRESS].text
    /\ IsNumber(portInfo) /\ portInfo.number \in 1..MAX_PORT
    /\ transferInfo[IP_ADDRESS].host # "remote"
    => host = "local" /\ listening \in Resolved(sockPort)

\* readLine finds each line that the file has, whichever line was read before,
\* and what the client takes for its name and its file is that line.
LinesFound ==
    /\ cpc = "main" /\ transferInfo # None /\ Len(transferInfo) >= CLIENT_NAME
         => clientName = transferInfo[CLIENT_NAME]
    /\ Returned(LINE_OF_FILE_PATH_TO_SEND) /\ Len(transferInfo) >= LINE_OF_FILE_PATH_TO_SEND
         => Found /\ destination = transferInfo[LINE_OF_FILE_PATH_TO_SEND]
=============================================================================
