# Formal model of encrypted-server-client

TLA+ modules that model the client program (`src/client`) and the server
(`src/server`), TLC configurations that check them on small instances, and
proofs about them for the TLA+ proof system.

A client registers a name, exchanges keys, sends one encrypted file and
compares checksums with the server, which keeps clients and files in an SQLite
database, files in a directory, and both in maps in memory. One thread of the
server serves each connection. What is hard here is what happens *between* two
accesses to shared state: of two session threads, of two runs of the client in
one directory, or before and after one side dies.

## 1. Inventory

| Part | Source | State it keeps | Operations |
|---|---|---|---|
| Protocol | `client/request.h`, `client/response.h`, `server/request.py`, `server/response.py` | requests and responses on their way | codes 1100-1106 and 2100-2104 |
| Sessions and handlers | `server/server.py` | one thread per connection with its local variables | `session`, `handle_request`, and the handlers of the six requests |
| Maps | `server/client.py`, `server/file.py`, `server.py` | `__client_map`, `__file_map`, the files of each `Client` | add, look up, pop; rebuilt by `load_data_from_database` |
| Database | `server/database.py` | tables `clients` and `files` | one transaction per method; exceptions are printed and dropped |
| Files of the server | `server.py` | directory `files`, one directory per client, one file per path | `mkdir`, `open("wb")`, write, read back, `remove` |
| Client program | `client/client.cpp`, `client/main.cpp` | client id, AES key, checksum of the last file, retry counter | register, exchange keys, send a file, handle each response |
| `me.info` | `client/client.cpp`, `client/FileHandler.cpp` | name, client id and private key, one line each | two appends; replacing line 3 by truncating and rewriting |
| Socket | `client/SocketHandler.cpp` | the connection | connect, send, receive, without timeouts |
| Checksum | `client/crc.cpp`, `server/crc.py` | - | POSIX cksum |
| Encryption | `client/AESWrapper.cpp`, `RSAWrapper.cpp`, `Base64Wrapper.cpp` | - | wrappers of Crypto++ |
| Configuration | `transfer.info`, `port.info` | - | read once |
| SQLite sources | `server/sqlite3.c` ... | - | third-party, not used by the program |

Interactions: a client waits for the response to each request, so a connection
carries at most one unanswered request, except that 1105 gets no response and
is followed at once by 1103. Sessions share tables, directory and maps without
any lock. Handlers swallow every exception: the session then waits for the next
request and the client for a response that never comes.

What makes each part correct, and where it is hard:

* *Identity* - a name has one row; an id that a client saved is that of a row;
  `me.info` survives its rewriting. Hard: check and INSERT are two
  transactions; keys are updated by name; the 2100 response may be lost.
* *Tables and maps* - rows have owners; maps cover the tables; unchecked lookups
  succeed. Hard: restarts, and 1106 racing with uploads.
* *Keys* - a file is decrypted with the key it was encrypted with.
* *Files* - "verified" means that a client confirmed the checksum of what is on
  the disk. Hard: file, row and maps change one after the other.
* *Requests and responses* - a response finds the client waiting for it.
* *Bytes* - both ends agree on where a request begins. Hard: each part is a
  `send` of its own, each `recv` takes what has arrived, and handlers that end
  early leave the rest of their request unread.
* *Content* - what is stored and checksummed is the whole file. Hard: sizes are
  cut to 32 bits, twice, with padding in between; two programs compute one
  checksum with tables and loops of their own.
* *Start* - a client finds its server, its name and its file. Hard: two parsers
  of a port that disagree, and line counting at the end of a file.
* *Progress* - every run of the client ends. Hard: no receive has a timeout.

`PROJECT.json` lists the hazards line by line, with the properties on them.

## 2. Modules

    Protocol          identities, messages, connections
      Database        tables; one operator per transaction
        Server        sessions, handlers, maps, disk, crash and restart
      Client          one run of main(), me.info, kill
    System            = Server + Client: Next, fairness, all properties
      StoreRefinement   System implements VerifiedStore
        MCSystem        values of the constants for TLC
      IdentityProofs    types; rows and uploads have their clients, ids their rows
        StepProofs        requests and responses alternate
          KeyProofs         names, keys, me.info and the ids in it
            FileProofs        table, disk, maps and what clients were told
              RefinementProofs  System implements VerifiedStore
    VerifiedStore     what the program promises of an upload
    Framing           one connection, byte by byte      (MCFraming)
      FramingProofs     both ends in step, only the file is marked
    ContentSize       the size of a file on its way
    Crc               the checksum of both programs, and POSIX cksum
    Content           = ContentSize + Crc               (MCContent)
      ContentProofs     files that fit are stored whole, checksums are POSIX cksum
    Startup           port.info and transfer.info       (MCStartup)
      StartupProofs     types, servers come up, ports agree, lines are found

The modules from *Protocol* to *System* are about what happens between two
accesses to shared state, with messages that arrive whole, files that fit and a
checksum that is a function. *Framing*, *Content* and *Startup* are about those
three assumptions, each for one client and one connection: the places where
the code goes wrong there need no second client.

**Protocol.** A *run* is one execution of `main()`. It has one connection, hence
one session thread, and draws at most one client id, one RSA pair and one AES
key, so the run names all of them (`Ids == Runs`, `Keys == Runs`): values drawn
at random never coincide. A message is a record whose unused fields are `None`;
header, payload and further fields are one message, on a channel in each
direction (`c2s`, `s2c`). `open[p]` says which ends are open; what is sent to a
closed end is lost, as `SocketHandler::send` and its callers ignore errors.
An encrypted file is its content together with the key it was encrypted with.
The checksum is a constant function, the same for both programs.

**Database.** Each method opens a connection and runs one transaction: an
operator that returns the set of possible new tables (or of results). With
`DbFaults` the set includes the old table, and `FALSE` for a SELECT: every
method swallows the exceptions of its transaction. It does not swallow those of
`sqlite3.connect`: then the `conn.close()` of its `finally` clause is a call on
`None`, and that exception gets out. `Unreachable` of *Server* ends a handler this
way wherever it opens the database, and `Dispatched` has the one place that
goes on all the same: `handle_request` prints the exception of its look-up and
handles the request. `last_seen` and `public_key`, which nothing reads, are
left out.

**Server.** `spc[p]` names the next access to shared state of the session of
run `p`; an action makes that access and all that follows locally. So
`process_file_content` is `Decrypt`, `CheckRoot`, `MakeRoot`,
`CheckClientDir`, `MakeClientDir`, `OpenFile`, `WriteFile`, `AddToFileMap`,
`AddToClient`, `CalculateCksum`, `CheckRow`, `InsertRow` or `ResetRow`,
`SendCksum`, and any two of them of one session may have steps of other
sessions in between. `Fail(p)` is an exception in a handler. `Crash` loses
sessions, maps, connections and what was in flight; `Restart` is
`load_data_from_database`. `attested` is a history variable: the checksum last
confirmed with 1104 for each path.

Decisions worth knowing: writing over a file that another session wrote since it
was truncated leaves either this content or a mixture (`Garbled`); `os.remove`
of a file that another session has open fails, as on Windows, which the paths
and error codes of the server are for; decrypting with another key fails or, by
chance, gives garbage; the two `send` calls of response 2103 are one step; a
failing transaction is not considered while the server starts.

**Client.** `cpc[p]` names what the run does next; `cid`, `ckey`, `cfile`,
`loaded`, `trials` are its fields (`loaded` stands for `cksumOfLastFile`: the
content it was computed from). Every access to `me.info` is an action, because
runs started in one directory share it: two appends (`SaveName`, `SaveId`), and
reading, truncating and rewriting it for the private key
(`GenerateRSAKeyPair`, `TruncateMeInfo`, `WriteMeInfo`). A failed receive gives
response code 0, as the caller ignores it (`NoResponse`). Connecting, reading
`me.info` and sending 1100 are one step, and so are 1105 and the 1103 after it:
nothing in between depends on anyone else. The file is chosen afresh at each
load: it may change, or be missing, between two tries.

**System** conjoins them. `Overlap` says which runs may be under way together -
their process or their session exists: `"none"`, `"per_host"` (one per
directory) or `"any"`. It is an assumption about users, since the program has no
lock on its directory. Where a property needs more than `"any"`, that is a
limit of the program, named below.

**VerifiedStore** and **StoreRefinement.** The promise of README.md:11-19, with
no message, session, table or retransmission: a store of files that are absent,
being replaced, or there with a content and a mark; runs that offer a file at
most four times, accept or reject what the store has, and end with a file that is
stored and marked, a file that is gone, or neither. The mapping: a file is *being
replaced* from `open("wb")` to the commit of its row; while it is being deleted,
it is absent as soon as the disk has it no more; what a run asked with 1104 or 1106
is its verdict as long as the request is on its way or its session has not done
it. Row and disk that contradict each other outside of an upload or a deletion
map to nothing the store knows, so the refinement excludes them.

**Framing.** The two directions of a connection are streams of bytes, each of
which knows the part of a request or response it belongs to. `SendPart` is one
`write_some`; every `recv` and `read_some` of the handlers and of
`handleResponse` is an action that takes at most the bytes it asks for. Bytes
that are no header are a request of a client nobody knows. The client reads
into zeroed memory, and the server strips zeros from a name, so a part that is cut
short may still be read as the whole: a header that has its code (`HasCode`, with
`CodeLength`), a number or an id whose missing bytes are zeros (`MayBe`), a name
that ends in zeros (`MayName`). Such a read is a choice between the two outcomes,
since the model does not know the bytes. What is idealised is the other
direction: an id, a cipher or a checksum is never made up of bytes of other
parts. `network`, chosen at
the start, says what a connection does: whether the parts of a request arrive
one by one, which reads may be short, and which of four faults may occur (a name
that is not UTF-8, a file gone at the second load, an AES key replaced by
another run, a failing SELECT).

**ContentSize**, **Crc** and **Content.** One file from the disk of the client to
that of the server: the size cut to `uint32_t`, padded to whole AES blocks, cut
again in `FileItem`, received and unpadded. `Crc` has both tables as they stand
in the source, and the register byte by byte, with the buffer of the server
and the length that `digest` appends. The register is the set of the places of
its ones, so `^` is a symmetric difference (`Xor`), `>> 24` and `<< 8` move places
(`TopByte`, `ShiftByte`), and `Entries` is a table as what an index finds in it. The
reference, `Cksum`, has no table: it divides the bytes of the file and of its
length by a polynomial, bit by bit. `Content` lets the client compute its
checksum after it encrypted and the server after it stored, and compares. The
server takes it of the file as it reads it back (server.py:570), after the file was
closed (561): another session of the client may have written to the path in
between. `ReadBack` has what is then on the disk: what was written, or that with
one byte replaced by another (`Edits`); a CRC promises nothing of arbitrary
changes, but to notice every change within 32 bits.

**Startup.** `load_port` and `open_server`, the constructor of `Client` with
`load_host_port` and `connectToServer`, and the three calls of `readLine`, line
by line. A text is told apart by the number that it starts with and by whether
more follows, because that is what `isnumeric`, `int`, `isNumeric` and `stoi`
tell apart. An address without a colon loses its last character to `substr`
(`Shortened`), which takes a digit from `57`, the whole from `5` and the `x` from
`80x`. `taken` are the ports that `bind` refuses, in use by another program or
not allowed to this one: `open_server` then prints the exception and ends, and a
client that is told such a port may connect to whoever has it.

## 3. Runs

No counter is bounded: the number of runs of the client, the requests of a
connection, the length of a file or of `transfer.info` bound everything, and
retries end by themselves. `CHECK_DEADLOCK` is FALSE throughout because the
system may stop: all runs have ended, or a client waits for ever.

| Run | Instance | Shows |
|---|---|---|
| PerHost | 3 runs, 2 directories with own names, 2 contents, kills, fairness | `VerifiedIsAttested`, `NamesUnique`, `UploadDecryptable`, `AckedIsStored`, `ImplementsStore`, `EveryRunEnds` |
| SameNames | 3 runs, 2 directories, one name | `TypeOK`, `FileMapsCoverRows`, `MeInfoIntact`, `IdReachesClient`, `GaveUpIsGone`, `ImplementsStore` |
| Anyhow | 2 runs in one directory, any overlap, kills, crashes | `UploadFindsClient`, `ResponseInStep`, `SavedIdRegistered` |
| Faults | 3 runs of one client in turn, kills, crashes, transactions that fail or cannot be begun | `RowsOwned` |
| Framing | 1 connection, 4 networks, parts of 1 to 4 bytes | `InStep`, `ReadWhole`, `AnswerInStep`, `MarkedIsFile`, `SessionEnds` |
| Content | words of 320 values, blocks of 16, buffers of 100, 272 files, 8 edits | `FittingStored`, `CksumExact`, `VerifiedIsRead` |
| Startup | ports up to 15, numbers up to 40, 15 contents of `port.info`, 4 sets of ports that are taken, `transfer.info` cut off anywhere | `ServerUp`, `SamePortMeets`, `LinesFound` |

Why the bounds are enough. *System*: what goes wrong in this program goes wrong
between two sessions, or between a run and a later run of the same client. Three
runs over two directories have both: `r1` and `r3` are the first and second run
of one client while `r2` is another client. Two contents distinguish the file of
the first upload from that of the second. One file name is enough because paths of
different names never meet. In *SameNames* both clients get rows of one name (see
RegistrationRace), so the keys of each are overwritten by the other: this is
where uploads that decrypt to garbage, retries, and 1106 are reached. *Anyhow* has
what needs two runs on one path: a 1106 that meets an upload, a file written by two
sessions, a `KeyError`. *Faults*: a row without a client needs one session only,
which is why its runs come one after the other; what three of them add is that
the client is new, registered, or registered with a file.

*Framing*: lengths keep the order they have in the program - a name is longer
than a header, the content longer than either - so that what is left unread can
be taken for a header, for part of one, or for several. A response's header of
three bytes has a code that may be there before its size is, and one that comes
with it. Three tries have a first, a middle and a last.

*Content*: with words of 320 values the lengths reach from the empty file over
the ends of a buffer, the second length byte, and the last length that fits with
its padding, to lengths cut by one padding or by far; the files of one byte take
the register through all 256 entries of both tables. The edits are in the first
and the last byte of a buffer, right after it, and far from both. *Startup*: each
text lies at or next to a bound of one of the checks, and no port is taken, the
default one, another one, or all.

Runs that are expected to find a violation, each of a sentence in the
repository (`PROJECT.json`, findings):

| Run | Sentence | What happens |
|---|---|---|
| RegistrationRace | README.md:3, a name that exists is refused | two sessions check before either inserts |
| MkdirRace | README.md:13, the server sends the checksum | `os.mkdir` raises when another session made `files` since the check; no response, no timeout |
| CrashInUpload | README.md:16, the server marks the file when the checksums are equal | killed between overwriting a verified file and resetting its flag |
| OverwrittenMark | the same sentence | 1104 marks what another run of the same client has written to the path since the checksum was sent |
| SwallowedFault | README.md:16, marked verified and then 2104 | the UPDATE fails unnoticed, 2104 is sent |

Divergences that have no run of their own, because a passing property is
stated around them; drop the condition named and TLC shows them:

| Source | Sentence | What happens | Condition |
|---|---|---|---|
| server.py:499, 504, 506 | server.py:178 "receiving request data (header) from client" | one `recv` for two sends; a name that cannot be decoded leaves the content unread; an encrypted file of more than one segment is cut | `RequestsWhole`, no fault "name" in `InStep` and `ReadWhole` |
| client.cpp:674 | README.md:17, the file is re-sent | the result of loading it again is dropped, and an item to which nothing was assigned is sent, which the server does not answer | `EmptyFileRequest` in *Framing*, after which the session waits for the client to end |
| client.cpp:382 | README.md:11, the file is sent | of 2^32 + n bytes the first n are sent, stored and verified | `Fits` in `FittingStored`; `VerifiedIsRead` is about the part that was read |
| server.py:99 | server.py:69, "return default port if loading is not successful" | the default goes to a local variable, the port stays `None`, `bind` raises | `Unusable` in `ServerUp` |
| client.cpp:221 | client.cpp:214, the method does nothing if "the private key is already saved" | only the existence of the file is tested: every run draws a new pair and replaces the key | none; `MeInfoIntact` says that the id survives it |
| SocketHandler.cpp:40 | SocketHandler.cpp:38, "checking validity" | `&&` binds before `\|\|`: -5, 80x and 70000 are taken for ports | ports from 1 to `MAX_PORT` in `SamePortMeets` |
| FileHandler.cpp:40 | FileHandler.cpp:41, "Line not found." | line n+1 of n lines is found, and is line n | lines that exist in `LinesFound` |

**What keeps a server down.** `ServerUp` has two cases in its conclusion, and both
are what the code does: a `port.info` that cannot be opened or is made of digits
that `int` refuses (server.py:99), and a port that `bind` refuses (server.py:146,
165-166), which may be the default one when the text is none. Everything else -
signs, letters, numbers out of range, a missing file - has to end in a server
that listens.

**What a verified upload is.** `VerifiedIsRead` says that the two checksums agree
just when the server has read back what the client encrypted. One half is that no
upload that arrived is repeated, the other that a byte changed in between is
noticed wherever it is. Nothing is said of files that are too long, except that
what was verified is the part that was read.

**Limits of the passing runs.** `VerifiedIsAttested` needs one run per client at
a time (OverwrittenMark) and a server that is not killed (CrashInUpload); so a
1104 or 1106 of one run never meets an upload of the same file by another in the
runs that check `AckedIsStored`, `GaveUpIsGone` and `FileMapsCoverRows`.
`UploadDecryptable` and `EveryRunEnds` need one run per client at a time and
distinct names: with two runs of one client the keys of the first are replaced and
its upload is not answered. `NamesUnique` needs runs of one name apart, so what
*PerHost* and its theorem show is that a name that is taken is refused in every
state; the race is *RegistrationRace*. A run counts as under way until its session
noticed that the client is gone, so these runs do not cover a client that is killed
and started again while its old session is still in a handler; *Anyhow* does.

`MeInfoIntact` needs a client that is not killed while it writes `me.info`, and
`IdReachesClient` one that is not killed at all and a server that does not die.
`EveryRunEnds` is checked with clients killed but not with the server killed,
which ends every session and every connection at once; it needs the directory
`files` (MkdirRace) and files that can be loaded again. `InStep` and `ReadWhole`
need requests that arrive whole, and `AnswerInStep` responses too: of those that do
not, `MarkedIsFile` and `SessionEnds` are what remains true. The tables outlive
every restart: an administrator who deletes the database under a saved id is not
modelled.

## 4. Fairness

`FairSpec` of *System* asks weak fairness of the steps of each session and of
each client process: a thread or a process that can go on does so eventually,
which the operating system's scheduler gives. Nothing is asked of starting a run,
killing one, crashing or restarting the server. Weak fairness is enough: a step
that is enabled stays so until it is taken, or until the process dies.

`FairSpec` of *Framing* asks the same of the one client and the one session, on
each kind of network: a `recv` that has bytes, or the end of the stream, returns.
Nothing is asked of what it returns.

## 5. Proofs

*IdentityProofs* begins with `Spec => []TypeOK` (theorem `TypeCorrect`). `TypeOK` is not
inductive: a session could be at a step of the upload while its request is a
registration, and build a path from a missing file name; a client could send a
request with an id it does not have. `TypeInv` adds `RequestFits` - at each step
of a handler, the request has the code of that handler, and there is a checksum
where one is sent - and `ClientFits` - at each step of the client, what its next
request is made of is there. The proof has one lemma for each of channels, state
and knowledge, for sessions and for clients, with one case per action.

The modules from *IdentityProofs* to *RefinementProofs* form one chain: each
proves an inductive invariant that contains the one before it, so each step of
the system is taken apart once per level.

| Module | Invariant | Theorems | Assumes |
|---|---|---|---|
| IdentityProofs | `TypeInv` | `TypeOK` | - |
| | `OwnInv` | `RowsOwned`, `UploadFindsClient` | - |
| | `IdInv` | `SavedIdRegistered` | no failing transaction |
| StepProofs | `StepInv` | `ResponseInStep` | same |
| KeyProofs | `NameInv`, `KeyInv` | `NamesUnique`, `UploadDecryptable` | also `NamesApart` |
| | `InfoInv` | `MeInfoIntact` | no kills, `Overlap # "any"` |
| | `ReachInv` | `IdReachesClient` | no failing transaction, no kills, no crashes, `Overlap # "any"` |
| FileProofs | `FileInv` | `AckedIsStored`, `GaveUpIsGone`, `FileMapsCoverRows` | no failing transaction, `Overlap # "any"` |
| | `AttestInv` | `VerifiedIsAttested` | also no crashes |
| RefinementProofs | `RefInv` | `ImplementsStore` | same |

`OwnInv` says why rows and uploads have clients: an upload past its decryption
(`PastDecrypt`) found a key in the row of its client, and rows of `clients` are never deleted (`RegisteredGrows`); while the server is
up every registered client is in the map, because it is put there before the row
is inserted and `Restart` reads all rows; and there are no sessions while the
server is down.

`IdInv` follows an id from the INSERT through the 2100, the memory of the run and
the lines it rewrites into `me.info`: the ids in all of these are those of rows
that a run of the same directory registered. The directory matters later: it is
what keeps the files of two clients apart.

`StepInv` says that nobody talks out of turn. `InStep` is about a client that
lives and its session: the request is on its way and the session waits, or the
session is in the handler that the client waits for, or one response that the
client expects is on its way - or nothing is, because a handler failed.
`Connected` and `Queued` are about what outlives the client: which ends are
open, and that a session has at most one request, or a 1105 and a 1103, to read.
It holds with crashes, kills and any overlap. With failing transactions it is
false: a SELECT that fails refuses a client that has an id, in the middle of an
upload.

`NameInv` says that a row has the name of the directory it was registered from
and that a session between the test and the INSERT has a name that no row has;
`KeyInv`, that while a key is in use every row of that name has this key, although
keys are stored by name and read by id. Both rest on `OneAtATime` - runs under
way together were let to be - and on `MineInv`: what a run sends, and is sent,
carries its name and its key.

`InfoInv` says that a run that is at work with `me.info` has in memory, or in the
lines it is about to write, the id that stands in it, except between its two
appends and between truncating and writing. With one run of a directory at a time
nobody else sees it then, and without kills it gets to the end of it; crashes and
failing transactions do not touch that. `ReachInv` follows the id of each row from
the INSERT to `me.info`: it is with the session that is about to answer, in a 2100
on its way, with the run that saves it, or in the file (`Carried`). The run that
saves it finds no file there that it could spoil: the INSERT follows a test that
found no row of the name, and a directory whose name has no row has no `me.info`
(`NewHasNoInfo`).

`FileInv` says what a session knows at each step of an upload or a deletion
(`AtFile`: which maps have the file, whether the row is reset, whether the
checksum is that of the disk), what a client was told (`Told`: the 2103 it has
is about the file on disk, a 2104 after 1104 means that the row is marked, one
after 1106 that nothing is left), and that both maps have every row (`Covered`).
These are statements of one session about shared tables. They survive the steps
of other sessions because a path begins with an id, an id belongs to a directory,
and one run of a directory is under way at a time (`FilesAtHome`, `OthersLeaveFiles`).
`AttestInv` adds `Attested`: a marked file outside of an upload has the checksum
that was last confirmed.

`RefInv` adds what the mapping relies on: outside of an upload or a deletion a
file is on disk if it has a row (`Consistent`), and a run has a file just while
it waits for an answer about it (`OfferIn`). The proof of `SystemImplementsStore`
has two sides. On the side of the runs, `Abstract!Offer` is `SendFile` and
`CksumFailed`, `Accept` is `CksumSucceeded`, `Reject` is `CksumFailedFinally`,
`FinishStored`, `FinishDiscarded` and `Stop` are the ends of a run, and `Lose` is a
session that notices that its client is gone. On the side of the files `Replace` is
`OpenFile`, `Save` is the commit of `InsertRow` or `ResetRow`, `Mark` is
`MarkVerified` and `Discard` is `RemoveFile`. Every other step shows nothing
(`Views` reduces this to what each run and each file looks like before and
after).

The assumptions are the ones under which the property is true, and the violation
runs show that they cannot be dropped: `~DbFaults` (SwallowedFault), runs of one
name apart (RegistrationRace), no crashes (CrashInUpload), one run of a
directory at a time (OverwrittenMark, and the limits in section 3). *IdentityProofs*
needs none of them for `RowsOwned` and `UploadFindsClient`: when the look-up of a
client could not be begun its request is handled all the same, but an upload gets
past its decryption only with the key in the row of its client (`PastDecrypt`,
`ActsForRegistered`).

*FramingProofs* proves the five invariants of *Framing* for every length of the
parts, every number of tries and every network, where TLC has four networks and
parts of 1 to 4 bytes. The conditions on the network are in the properties.

| Invariant | Theorems | Says |
|---|---|---|
| `TypeOK` | `FramingTypes` | it is inductive |
| `MarkInv` | `OnlyFilesMarked` | a file is marked only after its checksum |
| `WholeInv` | `PayloadsReadWhole` | what a header announces comes with it |
| `StepInv` | `RequestsInStep` | where in a request both ends are |
| `AnswerInv` | `AnswersInStep` | where in a response both ends are |

`MarkInv` holds on any network, with headers cut short after their code, where
neither end knows where it is in a stream. What survives is order: at most one request of a file has not been read
(`OneAtOnce`), so a 2103 is about what is stored now (`Answered`); cut short, the
client falls behind in it but never gets ahead (`Lags`), so the bytes it takes
for the checksum of its file were sent as that; and once it confirms, nothing of a
file is left that could be stored after the confirmation (`Confirmed`).

`WholeInv` is about neighbours in a stream: wherever a header with a payload
begins, the payload follows at its distance, and so for the item and the content
(`Kept`). This is closed under appending whole requests and under reading from the
front, by any number of bytes, so nothing needs to be known about where a header
is looked for.

`StepInv` and `AnswerInv` know more. Without the faults that leave a request
unread there are a handful of places to be (`Position`), each with the exact rest
of the request in the stream; and as long as a request is not done, the client
waits for a response with nothing to read, or, if responses are whole, has the
exact rest of the one answer to it (`Answering`). A key is in no response
before the id is known (`KeyAfterId`), because otherwise a client could ask for a
file without being one that the server knows.

*ContentProofs* first proves `Spec => []FittingStored` for *ContentSize* (theorem
`FittingFilesStored`): TLC looks at words of 320 values, the program has 2^32.
`SizeInv` says what has been computed so far of a file that fits; the only
arithmetic is `PaddedFits`, that a size in a block before the last stays below
the word when it is padded, because a word is a whole number of blocks.

Then it proves of *Content* that what both programs find is `Cksum`, for every
file and every size of buffers (`CksumsExact`), that they agree just when the
server read back what the client encrypted (`EditsNoticed`), and that *Content*
implements *ContentSize* (`ContentImplementsSize`). The argument has four parts.

* *Tables.* `TablesAssumption` says that each entry of both tables is what is left
  of dividing its index; it has no constant and TLC evaluates it for all 256
  indices. `DivideBitLinear` says that the division of a sum is the sum of
  the divisions, `Divide8Low` that the lower 24 bits only move up: so the program's
  step by table is the reference's eight steps by bit (`ShiftedDivides`), for every
  register and byte.
* *Recursion.* `Remainders` and `NumberBytes` are recursive functions. `Recursion`
  proves that such a function exists, and `Induction` is over a set instead of
  a predicate; from these `RemaindersOf` and `NumberBytesOf` have the defining
  equations.
* *Edits.* Divisions by a polynomial with a constant term can be undone
  (`DivideBitInjective`, `DivideByteInjective`), so two files of one length that differ
  in one byte have different remainders from that byte to the end (`DividedApart`,
  `ChecksumsApart`). `BytesAssumption` gives each byte places of its own.
* *Buffers.* `RegisterInv` says that the register is what is left of the first
  `Consumed` bytes of the file and its length; `BuffersInv`, that the buffer, and
  then what is left of the length, is exactly what comes next. `StageInv` and
  `PartsInv` tie this to which part of the file each program was given.

*StartupProofs* proves the type invariant and the three properties of *Startup*
for every largest port, every largest number that `stoi` converts and every length
of `transfer.info`: `StartupTypes`, `ServerComesUp`, `SamePortsMeet` and
`LinesAreFound`. `ServerInv` ties the port the server listens on to what `PortIn`
made of the text; `ReaderInv` is the loop invariant of `readLine`; `ClientInv`
carries what the first two calls of it returned to the steps that use it.

The inductive invariants were checked by TLC, on the instances of *Anyhow*,
*PerHost*, *SameNames*, *Framing*, *Content* and *Startup*, before they were proved. The proofs
use only the assumptions on the constants in `Protocol` (`ConstantsAssumption`,
`NoneAssumption`), `Database` (`RowAssumption`: a missing row is not a row),
`Client` (`NoInfoAssumption`: a missing `me.info` is not an empty one),
`StoreRefinement` (`NoneIsNoVerdict`: having no file or no verdict is neither),
`Framing` (`LengthAssumption`: what one read asks for has one length, and a code ends inside
of its header;
`DeliveryAssumption`), `ContentSize` (`SizesAssumption`), `Crc` (`CrcAssumption`: a
buffer has a size; `TablesAssumption`; `BytesAssumption`: no two bytes have the same
places), `Content` (`FilesAssumption`: files and edits are made of bytes) and `Startup` (`StartupAssumption`), which TLC evaluates in the runs of
these modules.

Two habits of these proofs keep the provers to what the modules say: a step
about `Len` knows that its argument is a sequence, and a step about a `CHOOSE`
is left to Zenon, which takes its definition as it stands.

Only model-checked: `EveryRunEnds`, `CksumSent` and `SessionEnds`, since liveness is
out of the proof system's reach. That the reference `Cksum` is what POSIX means by
`cksum` is a matter of reading it.

## 6. Not modelled

* SQLite's sources (`sqlite3.c`, `sqlite3.h`, `sqlite3ext.h`, `shell.c`), which are
  vendored, 99 % of the lines of the repository, and not used: the server runs on
  Python's own `sqlite3`.
* AES, RSA and Base64 themselves, which are Crypto++ and PyCryptodome: their
  contract is in `Server!Decrypt` and `ContentSize!Padded`.
* Accessors and `toString`-like methods of the message classes; the printing of
  both programs; `last_seen` and `public_key`, which nothing reads;
  `update_last_seen`, which nothing calls.
* Names: their length and their encoding, except that one may not be UTF-8.
* Two connections in *Framing*: sessions share no bytes, and what they do share is
  in *Server*.
* `EmptyFileRequest` in *System*: there a run whose file is gone at the second load
  sends a file request without content; what the session makes of its bytes is
  in *Framing*.

## 7. Plan

Done: Protocol, Database, Server, Client, System with its runs; the abstract store
and the refinement; bytes on the connection; sizes and checksums; the two
configuration files; the proofs listed in section 5, of every safety property of
the passing runs, and of the refinement. What would come next:

1. A lemma for each transaction of *Database*, which the proofs over *System* now
   repeat.
2. *Framing* under *Server*: the messages of `Protocol` as what whole requests and
   responses are read as, a refinement that `InStep` and `AnswerInStep` prepare.
