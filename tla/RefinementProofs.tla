-------------------------- MODULE RefinementProofs --------------------------
(***************************************************************************)
(* The system implements the abstract store VerifiedStore, when the runs   *)
(* under way together are in different directories, no transaction fails   *)
(* and the server is not killed.                                           *)
(***************************************************************************)
EXTENDS FileProofs, StoreRefinement

-----------------------------------------------------------------------------
(* What the mapping relies on *)

\* Outside of an upload or a deletion of it, a file is on disk if it has a row.
Consistent(f) ==
    \/ AtWork(f, Storing)
    \/ IF disk[f] = None THEN files[f] = None \/ AtWork(f, Deleting) ELSE files[f] # None

\* Where a client has a file, and where it has one to compare with.
Offering == {"await_file", "await_ack"}
Targeting == Offering \cup {"await_final"}

OfferIn(p) ==
    /\ cfile[p] # None <=> cpc[p] \in Targeting
    /\ cpc[p] \in Offering => loaded[p] # None
    /\ cpc[p] \notin Offering => trials[p] = 1
    /\ cpc[p] \in {"acked", "gaveup"} => c2s[p] = <<>>
    /\ "client" \in open[p] => spc[p] # "none"

RefInv == FileInv /\ up /\ (\A f \in Paths : Consistent(f)) /\ \A p \in Runs : OfferIn(p)
\* What the proofs know of a run.
LEMMA RefFacts ==
  ASSUME RefInv, NEW p \in Runs
  PROVE  /\ FileInv /\ MineInv /\ StepInv /\ TypeInv /\ OneAtATime /\ OfferIn(p)
         /\ Connected(p) /\ Queued(p) /\ AtFile(p) /\ Told(p) /\ AboutIn(p)
         /\ cpc \in [Runs -> ClientStates] /\ spc \in [Runs -> SessionStates]
         /\ cid \in [Runs -> Ids \cup {None}] /\ cfile \in [Runs -> Files \cup {None}]
         /\ loaded \in [Runs -> Contents \cup {None}]
         /\ trials \in [Runs -> 1..NUMBER_OF_FILE_SENDING]
         /\ req \in [Runs -> Request \cup {NoRequest}]
         /\ c2s \in [Runs -> Seq(Request)] /\ s2c \in [Runs -> Seq(Response)]
         /\ open \in [Runs -> SUBSET {"client", "server"}]
         /\ files \in [Paths -> {"unverified", "verified", None}]
         /\ disk \in [Paths -> Blobs \cup {None}]
  BY ToldFacts, RunFacts
     DEF RefInv, FileInv, TypeInv, TypeOK, ClientTypeOK, ServerTypeOK, DbTypeOK

\* The steps of a session keep OfferIn.
LEMMA SessionKeepsOffer ==
  ASSUME ~DbFaults, RefInv, NEW p \in Runs, SessionMoves(p)
  PROVE  OfferIn(p)'
  <1>0. /\ SessionStep(p) /\ UNCHANGED <<cpc, cfile, loaded, trials>>
        /\ OfferIn(p) /\ Queued(p) /\ MineInv /\ StepInv /\ TypeInv
        /\ open \in [Runs -> SUBSET {"client", "server"}]
        /\ c2s \in [Runs -> Seq(Request)] /\ spc \in [Runs -> SessionStates]
    BY RefFacts DEF SessionMoves, client, memory
  <1>1. CASE Receive(p)
    <2>1. c2s[p] # <<>> /\ UNCHANGED open
      BY <1>1 DEF Receive
    <2>2. spc'[p] # "none"
      BY <1>0, <1>1, ReceivedGoes
    <2>3. QED BY <1>0, <2>1, <2>2 DEF OfferIn, Offering
  <1>2. CASE CloseSession(p)
    BY <1>0, <1>2 DEF CloseSession, OfferIn
  <1>3. CASE HandlerStep(p)
    <2>1. UNCHANGED <<c2s, open>> /\ spc[p] # "none"
      BY <1>3, ServesOn
    <2>2. [Next]_vars
      BY DEF Next
    <2>3. Connected(p)'
      BY <1>0, <2>2, NextInStep DEF StepInv, RunInv
    <2>4. Connected(p)
      BY RefFacts
    <2>5. spc'[p] # "none"
      BY <2>1, <2>3, <2>4 DEF Connected
    <2>6. QED BY <1>0, <2>1, <2>5 DEF OfferIn, Offering
  <1>4. QED BY <1>0, <1>1, <1>2, <1>3 DEF SessionStep

\* The steps of a client keep OfferIn.
LEMMA ClientKeepsOffer ==
  ASSUME RefInv, NEW p \in Runs, ClientMoves(p)
  PROVE  OfferIn(p)'
  <1>0. /\ ClientStep(p) /\ UNCHANGED spc /\ OfferIn(p) /\ TypeInv /\ StepInv
        /\ cpc \in [Runs -> ClientStates] /\ cfile \in [Runs -> Files \cup {None}]
        /\ loaded \in [Runs -> Contents \cup {None}]
        /\ trials \in [Runs -> 1..NUMBER_OF_FILE_SENDING]
        /\ open \in [Runs -> SUBSET {"client", "server"}]
        /\ c2s \in [Runs -> Seq(Request)]
    BY RefFacts DEF ClientMoves, server
  <1>1. c2s[p] = <<>> /\ "client" \in open[p]
    BY <1>0, ClientAsks DEF Quiet
  <1> USE DEF OfferIn, Offering, Targeting, Enter, End
  <1>2. CASE ReceiveRegistration(p) \/ SaveName(p) \/ SaveId(p) \/ GenerateRSAKeyPair(p)
    BY <1>0, <1>2
       DEF ReceiveRegistration, SaveName, SaveId, AppendLine, GenerateRSAKeyPair, Await,
           memory, net
  <1>3. CASE TruncateMeInfo(p) \/ WriteMeInfo(p) \/ SendPublicKey(p) \/ ReceiveKey(p)
    BY <1>0, <1>3 DEF TruncateMeInfo, WriteMeInfo, SendPublicKey, ReceiveKey, Await, memory, net
  <1>4. CASE NotRegistered(p) \/ NothingToSend(p) \/ NoCksum(p)
    BY <1>0, <1>4 DEF NotRegistered, NothingToSend, NoCksum
  <1>5. CASE SendFile(p)
    BY <1>0, <1>5, NoneAssumption DEF SendFile, Blobs
  <1>6. CASE CksumSucceeded(p)
    BY <1>0, <1>6 DEF CksumSucceeded, ReceiveCksum, Await, memory
  <1>7. CASE CksumFailed(p)
    BY <1>0, <1>7, NoneAssumption DEF CksumFailed, ReceiveCksum, Await, Blobs
  <1>8. CASE CksumFailedFinally(p)
    BY <1>0, <1>8 DEF CksumFailedFinally, ReceiveCksum, Await
  <1>9. CASE ReceiveAck(p) \/ ReceiveFinalAck(p)
    BY <1>0, <1>1, <1>9 DEF ReceiveAck, ReceiveFinalAck, ReceiveConfirmation
  <1>10. QED
    BY <1>0, <1>2, <1>3, <1>4, <1>5, <1>6, <1>7, <1>8, <1>9 DEF ClientStep

\* Every step keeps OfferIn.
LEMMA NextKeepsOffer ==
  ASSUME ~DbFaults, ~Crashes, RefInv, [Next]_vars, NEW p \in Runs
  PROVE  OfferIn(p)'
  <1>0. /\ OfferIn(p) /\ TypeInv /\ Connected(p) /\ up
        /\ cpc \in [Runs -> ClientStates] /\ cfile \in [Runs -> Files \cup {None}]
        /\ loaded \in [Runs -> Contents \cup {None}]
        /\ trials \in [Runs -> 1..NUMBER_OF_FILE_SENDING]
        /\ open \in [Runs -> SUBSET {"client", "server"}]
        /\ spc \in [Runs -> SessionStates]
    BY RefFacts DEF RefInv
  <1>1. CASE Connect(p)
    BY <1>0, <1>1
       DEF Connect, Start, Accept, Goto, Enter, OfferIn, Offering, Targeting
  <1>2. CASE Kill(p) /\ UNCHANGED server
    BY <1>0, <1>2 DEF Kill, End, Enter, server, OfferIn, Offering, Targeting
  <1>3. CASE Still(p)
    BY <1>0, <1>3 DEF Still, OfferIn
  <1>4. ~ConnectInVain(p) /\ ~Crash
    BY <1>0 DEF ConnectInVain, Crash
  <1>5. QED
    BY <1>0, <1>1, <1>2, <1>3, <1>4, StepOf, SessionKeepsOffer, ClientKeepsOffer

-----------------------------------------------------------------------------
(* The files and the store *)

\* The store has what is on the disk, unless an upload is at work on it.
LEMMA StoreIs ==
  ASSUME NEW f \in Paths, Consistent(f)
  PROVE  StoreOf(f) = IF AtWork(f, Storing) THEN Abstract!Replacing
                      ELSE IF disk[f] = None THEN Abstract!Absent
                      ELSE Abstract!Entry(disk[f], files[f] = "verified")
  BY DEF Consistent, StoreOf, Abstract!Replacing, Abstract!Absent, Abstract!Entry

\* The three are different, and only entries are stored.
LEMMA StoreStates ==
    /\ Abstract!Replacing # Abstract!Absent
    /\ \A c, v : /\ Abstract!Entry(c, v) # Abstract!Replacing
                 /\ Abstract!Entry(c, v).is = "stored"
                 /\ Abstract!Entry(c, v).content = c /\ Abstract!Entry(c, v).verified = v
    /\ Abstract!Absent.is # "stored" /\ Abstract!Replacing.is # "stored"
  <1>1. \A c, v : /\ Abstract!Entry(c, v).is = "stored"
                  /\ Abstract!Entry(c, v).content = c /\ Abstract!Entry(c, v).verified = v
    BY DEF Abstract!Entry
  <1>2. Abstract!Absent.is = "absent" /\ Abstract!Replacing.is = "replacing"
    BY DEF Abstract!Absent, Abstract!Replacing
  <1>3. QED BY <1>1, <1>2

\* A mark changes nothing else of an entry.
LEMMA MarkedEntry ==
  ASSUME NEW c, NEW v, NEW w, NEW r, r = Abstract!Entry(c, v)
  PROVE  [r EXCEPT !.verified = w] = Abstract!Entry(c, w)
  <1>1. [r EXCEPT !.verified = w] = [i \in {"is", "content", "verified"} |->
                                         IF i = "verified" THEN w ELSE r[i]]
    BY DEF Abstract!Entry
  <1>2. QED BY <1>1 DEF Abstract!Entry

\* Of the sessions at work on the files of one directory there is one.
LEMMA AloneAtFile ==
  ASSUME Overlap # "any", RefInv, NEW p \in Runs, UnderWay(p), NEW f, AtHome(p, f),
         NEW q \in Runs, spc[q] \in Uploading \cup Closing, Path(q) = f
  PROVE  q = p
  <1>1. AtHome(q, Path(q))
    BY RefFacts, FilesAtHome
  <1>2. UnderWay(q)
    BY DEF UnderWay, Uploading, Closing, Storing, Deleting
  <1>3. HostOf[q] = HostOf[p]
    BY <1>1 DEF AtHome
  <1>4. QED BY <1>2, <1>3, RefFacts DEF OneAtATime

\* The store does not notice a step that leaves a file and the work on it.
LEMMA FileUntouched ==
  ASSUME NEW f \in Paths, Consistent(f), files'[f] = files[f], disk'[f] = disk[f],
         AtWork(f, Storing)' <=> AtWork(f, Storing),
         disk[f] = None /\ files[f] # None /\ AtWork(f, Deleting) => AtWork(f, Deleting)'
  PROVE  Consistent(f)' /\ StoreOf(f)' = StoreOf(f)
  BY DEF Consistent, StoreOf

\* A session that handles a request about a file is the one at work on it.
LEMMA HandlerIsAlone ==
  ASSUME ~DbFaults, Overlap # "any", RefInv, NEW p \in Runs, SessionMoves(p), HandlerStep(p),
         spc[p] \in Uploading \cup Closing, NEW f, f = Path(p)
  PROVE  /\ AtWork(f, Storing) <=> spc[p] \in Storing
         /\ AtWork(f, Deleting) <=> spc[p] \in Deleting
         /\ AtWork(f, Storing)' <=> spc'[p] \in Storing
         /\ AtWork(f, Deleting)' <=> spc'[p] \in Deleting
  <1>1. /\ TypeInv /\ AtHome(p, f) /\ UnderWay(p)
    BY RefFacts, FilesAtHome DEF UnderWay, Uploading, Closing, Storing, Deleting
  <1>2. \A q \in Runs \ {p} : spc'[q] = spc[q] /\ req'[q] = req[q]
    BY <1>1, SessionIsLocal DEF Still
  <1>3. Path(p)' = f
    BY RefFacts, AtWorkFacts
  <1>4. \A q \in Runs : spc[q] \in Storing \cup Deleting /\ Path(q) = f => q = p
    BY <1>1, AloneAtFile DEF Uploading, Closing
  <1>5. \A q \in Runs : spc'[q] \in Storing \cup Deleting /\ Path(q)' = f => q = p
    BY <1>2, <1>4 DEF Path
  <1>6. QED BY <1>3, <1>4, <1>5 DEF AtWork

\* What the handler of an upload makes of the store ...
Replaces(p, f) ==
    OpenFile(p) /\ StoreOf(f) # Abstract!Replacing /\ StoreOf(f)' = Abstract!Replacing

Saves(p, f) ==
    /\ InsertRow(p) \/ ResetRow(p)
    /\ StoreOf(f) = Abstract!Replacing
    /\ \E blob \in Blobs : StoreOf(f)' = Abstract!Entry(blob, FALSE)

\* ... and those of 1104 and 1106.
Marks(p, f) ==
    /\ MarkVerified(p)
    /\ StoreOf(f) = Abstract!Entry(disk[f], FALSE)
    /\ Cksum[disk[f]] = cksum[p]
    /\ StoreOf(f)' = Abstract!Entry(disk[f], TRUE)

Discards(p, f) ==
    /\ RemoveFile(p)
    /\ spc'[p] = "row_delete"
    /\ StoreOf(f) = Abstract!Entry(disk[f], FALSE)
    /\ StoreOf(f)' = Abstract!Absent

KeepsStore(p, f) == ~MarkVerified(p) /\ ~RemoveFile(p) /\ StoreOf(f)' = StoreOf(f)

\* An upload takes its file out of the store and puts another one in.
LEMMA UploadOnStore ==
  ASSUME ~DbFaults, Overlap # "any", RefInv, NEW p \in Runs, SessionMoves(p), HandlerStep(p),
         spc[p] \in Uploading, NEW f, f = Path(p)
  PROVE  Consistent(f)' /\ (KeepsStore(p, f) \/ Replaces(p, f) \/ Saves(p, f))
  <1>0. /\ AtFile(p) /\ f \in Paths /\ FileInv /\ Consistent(f)
        /\ \A l : Goto(p, l) => spc'[p] = l
        /\ files \in [Paths -> {"unverified", "verified", None}]
        /\ disk \in [Paths -> Blobs \cup {None}]
        /\ "unverified" # None /\ "verified" # None
        /\ AtWork(f, Storing) <=> spc[p] \in Storing
        /\ AtWork(f, Deleting) <=> spc[p] \in Deleting
        /\ AtWork(f, Storing)' <=> spc'[p] \in Storing
        /\ AtWork(f, Deleting)' <=> spc'[p] \in Deleting
    BY RefFacts, AtWorkFacts, HandlerIsAlone DEF RefInv
  <1>1. ~MarkVerified(p) /\ ~RemoveFile(p)
    BY DEF MarkVerified, RemoveFile, Uploading, Storing
  <1>2. CASE spc[p] \in Storing /\ spc'[p] \in Storing
    BY <1>0, <1>1, <1>2 DEF Consistent, StoreOf, KeepsStore
  <1>3. CASE OpenFile(p)
    <2>1. spc'[p] \in Storing /\ spc[p] \notin Storing
      BY <1>0, <1>3 DEF OpenFile, Storing
    <2>2. StoreOf(f)' = Abstract!Replacing /\ Consistent(f)'
      BY <1>0, <2>1 DEF StoreOf, Abstract!Replacing, Consistent
    <2>3. StoreOf(f) # Abstract!Replacing
      BY <1>0, <2>1, StoreIs, StoreStates
    <2>4. QED BY <1>3, <2>2, <2>3 DEF Replaces
  <1>4. CASE InsertRow(p) \/ ResetRow(p)
    <2>1. /\ spc[p] \in Storing /\ spc'[p] = "send_cksum"
          /\ disk'[f] = disk[f] /\ files'[f] = "unverified" /\ disk[f] \in Blobs
      BY <1>0, <1>4
         DEF InsertRow, ResetRow, insert_file_details, update_cksum_verification,
             Committed, AtFile, Storing
    <2>2. StoreOf(f) = Abstract!Replacing
      BY <1>0, <2>1 DEF StoreOf, Abstract!Replacing
    <2>3. disk'[f] # None /\ ~(spc'[p] \in Storing)
      BY <2>1, NoneAssumption DEF Storing
    <2>4. StoreOf(f)' = Abstract!Entry(disk[f], FALSE) /\ Consistent(f)'
      BY <1>0, <2>1, <2>3 DEF StoreOf, Abstract!Entry, Consistent
    <2>5. QED BY <1>4, <2>1, <2>2, <2>4 DEF Saves
  <1>5. CASE SendCksum(p)
    <2>1. files'[f] = files[f] /\ disk'[f] = disk[f]
      BY <1>5 DEF SendCksum, Respond, stored
    <2>2. spc[p] \notin Storing \cup Deleting /\ spc'[p] \notin Storing \cup Deleting
      BY <1>0, <1>5 DEF SendCksum, Respond, Storing, Deleting
    <2>3. QED BY <1>0, <1>1, <2>1, <2>2, FileUntouched DEF KeepsStore
  <1>6. CASE Decrypt(p) \/ CheckRoot(p) \/ MakeRoot(p) \/ CheckClientDir(p) \/ MakeClientDir(p)
    <2>1. UNCHANGED <<files, disk>>
      BY <1>6
         DEF Decrypt, CheckRoot, MakeRoot, CheckClientDir, MakeClientDir, CheckDirectory,
             MakeDirectory, stored
    <2>2. spc[p] \notin Storing \cup Deleting /\ spc'[p] \notin Storing \cup Deleting
      BY <1>0, <1>6
         DEF Decrypt, CheckRoot, MakeRoot, CheckClientDir, MakeClientDir, CheckDirectory,
             MakeDirectory, Fail, Storing, Deleting
    <2>3. QED BY <1>0, <1>1, <2>1, <2>2, FileUntouched DEF KeepsStore
  <1>7. \/ spc[p] \in Storing \cup {"open"} \/ SendCksum(p) \/ Decrypt(p) \/ CheckRoot(p)
        \/ MakeRoot(p) \/ CheckClientDir(p) \/ MakeClientDir(p)
    BY DEF Uploading, HandlerStep, RegisterInMap, RegisterInDatabase, SendRegistrationOk,
           SendRegistrationErr, StoreKeys, SendAESKey, MarkVerified, SendReceived, CheckFile,
           RemoveFile, DeleteRow, TestClientFiles, PopClientFile, TestFileMap, PopFileMap,
           TestMap, Respond, OpenFile, WriteFile, AddToFileMap, AddToClient, CalculateCksum,
           CheckRow, InsertRow, ResetRow, Storing, Unreachable
  <1>8. spc[p] = "open" => OpenFile(p)
    BY DEF HandlerStep, RegisterInMap, RegisterInDatabase, SendRegistrationOk,
           SendRegistrationErr, StoreKeys, SendAESKey, MarkVerified, SendReceived, CheckFile,
           RemoveFile, DeleteRow, TestClientFiles, PopClientFile, TestFileMap, PopFileMap,
           TestMap, Respond, WriteFile, AddToFileMap, AddToClient, CalculateCksum,
           CheckRow, InsertRow, ResetRow, Decrypt, CheckRoot, MakeRoot, CheckClientDir,
           MakeClientDir, CheckDirectory, MakeDirectory, SendCksum, Unreachable
  <1>9. QED
    BY <1>0, <1>2, <1>3, <1>4, <1>5, <1>6, <1>7, <1>8, StoringGoesOn

\* The handler of 1104 marks what the store has, that of 1106 discards it.
LEMMA ClosingOnStore ==
  ASSUME ~DbFaults, Overlap # "any", RefInv, NEW p \in Runs, SessionMoves(p), HandlerStep(p),
         spc[p] \in Closing, NEW f, f = Path(p)
  PROVE  Consistent(f)' /\ (KeepsStore(p, f) \/ Marks(p, f) \/ Discards(p, f))
  <1>0. /\ AtFile(p) /\ f \in Paths /\ FileInv /\ Consistent(f)
        /\ \A l : Goto(p, l) => spc'[p] = l
        /\ files \in [Paths -> {"unverified", "verified", None}]
        /\ disk \in [Paths -> Blobs \cup {None}]
        /\ "unverified" # None /\ "verified" # None
        /\ AtWork(f, Storing) <=> spc[p] \in Storing
        /\ AtWork(f, Deleting) <=> spc[p] \in Deleting
        /\ AtWork(f, Storing)' <=> spc'[p] \in Storing
        /\ AtWork(f, Deleting)' <=> spc'[p] \in Deleting
    BY RefFacts, AtWorkFacts, HandlerIsAlone DEF RefInv
  <1>1. spc[p] \notin Storing
    BY DEF Closing, Storing, Deleting
  <1>2. CASE MarkVerified(p)
    <2>1. /\ disk[f] # None /\ files[f] = "unverified" /\ Cksum[disk[f]] = cksum[p]
          /\ disk'[f] = disk[f] /\ files'[f] = "verified" /\ spc'[p] = "received"
      BY <1>0, <1>2
         DEF MarkVerified, update_cksum_verification, Committed, AtFile, Unconfirmed
    <2>2. StoreOf(f) = Abstract!Entry(disk[f], FALSE)
      BY <1>0, <1>1, <2>1 DEF StoreOf, Abstract!Entry
    <2>3. ~(spc'[p] \in Storing)
      BY <2>1 DEF Storing
    <2>4. StoreOf(f)' = Abstract!Entry(disk[f], TRUE) /\ Consistent(f)'
      BY <1>0, <2>1, <2>3 DEF StoreOf, Abstract!Entry, Consistent
    <2>5. QED BY <1>2, <2>1, <2>2, <2>4 DEF Marks
  <1>3. CASE RemoveFile(p)
    <2>1. disk[f] # None /\ files[f] = "unverified"
      BY <1>0, <1>3 DEF RemoveFile, AtFile, Unconfirmed
    <2>2. \A q \in Runs \ {p} : ~(spc[q] \in Storing /\ Path(q) = f)
      <3>1. AtHome(p, f) /\ UnderWay(p)
        BY RefFacts, FilesAtHome DEF UnderWay, Closing, Deleting
      <3>2. QED BY <3>1, AloneAtFile DEF Uploading
    <2>3. ~OpenElsewhere(p, f) /\ ~MaybeOpenElsewhere(p, f)
      BY <2>2 DEF OpenElsewhere, MaybeOpenElsewhere, Storing
    <2>4. spc'[p] = "row_delete" /\ disk'[f] = None /\ files'[f] = files[f]
      BY <1>0, <1>3, <2>1, <2>3 DEF RemoveFile
    <2>5. StoreOf(f) = Abstract!Entry(disk[f], FALSE)
      BY <1>0, <1>1, <2>1 DEF StoreOf, Abstract!Entry
    <2>6. spc'[p] \in Deleting /\ spc'[p] \notin Storing
      BY <2>4 DEF Deleting, Storing
    <2>7. StoreOf(f)' = Abstract!Absent /\ Consistent(f)'
      BY <1>0, <2>4, <2>6 DEF StoreOf, Abstract!Absent, Consistent
    <2>8. QED BY <1>3, <2>4, <2>5, <2>7 DEF Discards
  <1>4. CASE DeleteRow(p)
    <2>1. /\ disk[f] = None /\ disk'[f] = None /\ files'[f] = None /\ spc'[p] = "client_test"
          /\ spc[p] = "row_delete"
      BY <1>0, <1>4 DEF DeleteRow, delete_file_of_client, Committed, AtFile, FileGone
    <2>2. spc[p] \in Deleting /\ spc'[p] \in Deleting /\ spc'[p] \notin Storing
      BY <2>1 DEF Deleting, Storing
    <2>3. StoreOf(f)' = StoreOf(f) /\ Consistent(f)'
      BY <1>0, <1>1, <2>1, <2>2 DEF StoreOf, Consistent
    <2>4. QED BY <1>4, <2>3 DEF DeleteRow, MarkVerified, RemoveFile, KeepsStore
  <1>5. CASE CheckFile(p)
    <2>1. /\ disk[f] # None /\ disk'[f] = disk[f] /\ files'[f] = files[f]
          /\ spc'[p] = "file_remove" /\ spc[p] = "file_check"
      BY <1>0, <1>5 DEF CheckFile, AtFile, Unconfirmed, stored
    <2>2. spc'[p] \notin Storing
      BY <2>1 DEF Storing
    <2>3. QED
      BY <1>0, <1>1, <2>1, <2>2, FileUntouched DEF KeepsStore, MarkVerified, RemoveFile
  <1>6. CASE \/ TestClientFiles(p) \/ PopClientFile(p) \/ TestFileMap(p) \/ PopFileMap(p)
             \/ SendReceived(p)
    <2>1. UNCHANGED <<files, disk>> /\ spc[p] \in RowGone \cup {"received"}
      BY <1>6
         DEF TestClientFiles, PopClientFile, TestFileMap, PopFileMap, TestMap, SendReceived,
             Respond, RowGone, FileGone, stored
    <2>2. spc'[p] \notin Storing
      BY <1>0, <1>6
         DEF TestClientFiles, PopClientFile, TestFileMap, PopFileMap, TestMap, PopResult,
             SendReceived, Respond, Fail, Storing
    <2>3. disk[f] = None => files[f] = None
      BY <1>0, <2>1 DEF AtFile, FileGone, Confirmed, Gone
    <2>4. ~MarkVerified(p) /\ ~RemoveFile(p)
      BY <2>1 DEF MarkVerified, RemoveFile, RowGone, FileGone
    <2>5. QED BY <1>0, <1>1, <2>1, <2>2, <2>3, <2>4, FileUntouched DEF KeepsStore
  <1>7. QED
    BY <1>2, <1>3, <1>4, <1>5, <1>6
       DEF HandlerStep, Closing, Deleting, RegisterInMap, RegisterInDatabase,
           SendRegistrationOk, SendRegistrationErr, StoreKeys, SendAESKey, Decrypt, CheckRoot,
           MakeRoot, CheckClientDir, MakeClientDir, CheckDirectory, MakeDirectory, OpenFile,
           WriteFile, AddToFileMap, AddToClient, CalculateCksum, CheckRow, InsertRow,
           ResetRow, SendCksum, Respond, Unreachable

\* A handler that is at work on no file does not come to be at work on one.
LEMMA NoFileGoesOn ==
  ASSUME StepInv, NEW p \in Runs, HandlerStep(p), spc[p] \notin Uploading \cup Closing
  PROVE  spc'[p] \notin Uploading \cup Closing
  <1>1. spc \in [Runs -> SessionStates]
    BY StepTypes
  <1>2. spc'[p] = "recv" \/ \A l : Serves(l, spc[p]) => Serves(l, spc'[p])
    BY <1>1, ServesOn DEF Goto
  <1>3. spc[p] \in Registering \cup Keying \cup {"refuse"}
    BY <1>1, ServesOn
       DEF SessionStates, Registering, Keying, Uploading, Closing, Storing, Deleting
  <1>4. Serves("await_reg", spc[p]) \/ Serves("await_key", spc[p])
    BY <1>3 DEF Serves
  <1>5. spc'[p] \in Registering \cup Keying \cup {"refuse", "recv"}
    BY <1>2, <1>4 DEF Serves
  <1>6. QED BY <1>5 DEF Registering, Keying, Uploading, Closing, Storing, Deleting

\* A session leaves the files that it has no request about, and one that reads
\* a request or ends leaves all.
LEMMA OtherFilesOnStore ==
  ASSUME ~DbFaults, Overlap # "any", RefInv, NEW p \in Runs, SessionMoves(p), NEW f \in Paths,
         ~(f = Path(p) /\ HandlerStep(p) /\ spc[p] \in Uploading \cup Closing)
  PROVE  Consistent(f)' /\ StoreOf(f)' = StoreOf(f)
  <1>0. /\ FileInv /\ MineInv /\ StepInv /\ TypeInv /\ Consistent(f) /\ SessionStep(p)
        /\ spc \in [Runs -> SessionStates] /\ req \in [Runs -> Request \cup {NoRequest}]
        /\ \A q \in Runs \ {p} : spc'[q] = spc[q] /\ req'[q] = req[q]
    BY RefFacts, SessionIsLocal DEF RefInv, SessionMoves, Still
  <1>1. FileStays(f)
    <2>1. CASE HandlerStep(p)
      BY <1>0, <2>1, SessionTouches
    <2>2. CASE Receive(p) \/ CloseSession(p)
      BY <2>2 DEF Receive, CloseSession, stored, maps, FileStays
    <2>3. QED BY <1>0, <2>1, <2>2 DEF SessionStep
  <1>2. ASSUME NEW S, S \in {Storing, Deleting},
               spc'[p] \in S /\ Path(p)' = f <=> spc[p] \in S /\ Path(p) = f
        PROVE  AtWork(f, S)' <=> AtWork(f, S)
    BY <1>0, <1>2 DEF AtWork, Path
  <1>3. CASE Receive(p)
    <2>1. spc[p] = "recv" /\ UNCHANGED <<files, disk>>
      BY <1>3 DEF Receive, stored
    <2>2. spc[p] \notin Storing \cup Deleting /\ spc'[p] \notin Storing
      BY <1>0, <1>3, <2>1, ReceivedGoes DEF Storing, Deleting
    <2>3. AtWork(f, Storing)' <=> AtWork(f, Storing)
      BY <1>2, <2>2
    <2>4. AtWork(f, Deleting) => AtWork(f, Deleting)'
      BY <1>0, <2>2 DEF AtWork, Path
    <2>5. QED BY <1>0, <2>1, <2>3, <2>4, FileUntouched
  <1>4. CASE CloseSession(p)
    <2>1. spc[p] = "recv" /\ spc'[p] = "none" /\ UNCHANGED <<files, disk>>
      BY <1>0, <1>4 DEF CloseSession, Goto, stored
    <2>2. spc[p] \notin Storing \cup Deleting /\ spc'[p] \notin Storing \cup Deleting
      BY <2>1 DEF Storing, Deleting
    <2>3. (AtWork(f, Storing)' <=> AtWork(f, Storing))
              /\ (AtWork(f, Deleting)' <=> AtWork(f, Deleting))
      BY <1>2, <2>2
    <2>4. QED BY <1>0, <2>1, <2>3, FileUntouched
  <1>5. CASE HandlerStep(p) /\ spc[p] \in Uploading \cup Closing
    <2>1. Path(p) # f /\ Path(p)' = Path(p)
      BY <1>0, <1>5, AtWorkFacts
    <2>2. (AtWork(f, Storing)' <=> AtWork(f, Storing))
              /\ (AtWork(f, Deleting)' <=> AtWork(f, Deleting))
      BY <1>2, <2>1
    <2>3. QED BY <1>0, <1>1, <2>2, FileUntouched DEF FileStays
  <1>6. CASE HandlerStep(p) /\ spc[p] \notin Uploading \cup Closing
    <2>1. spc[p] \notin Storing \cup Deleting
      BY <1>6 DEF Uploading, Closing
    <2>2. spc'[p] \notin Storing \cup Deleting
      BY <1>6, RefFacts, NoFileGoesOn DEF Uploading, Closing
    <2>3. (AtWork(f, Storing)' <=> AtWork(f, Storing))
              /\ (AtWork(f, Deleting)' <=> AtWork(f, Deleting))
      BY <1>2, <2>1, <2>2
    <2>4. QED BY <1>0, <1>1, <2>3, FileUntouched DEF FileStays
  <1>7. QED BY <1>0, <1>3, <1>4, <1>5, <1>6 DEF SessionStep

\* No session moves, but one may start.
SessionsIdle ==
    /\ UNCHANGED <<files, disk, req>>
    /\ \A q \in Runs : spc'[q] = spc[q] \/ (spc[q] = "none" /\ spc'[q] = "recv")

\* A step that leaves the files and the sessions at work on them leaves the store.
LEMMA IdleOnStore ==
  ASSUME NEW f \in Paths, SessionsIdle
  PROVE  StoreOf(f)' = StoreOf(f) /\ (Consistent(f) => Consistent(f)')
  <1>0. UNCHANGED <<files, disk>>
    BY DEF SessionsIdle
  <1>1. \A q \in Runs : /\ spc'[q] \in Storing <=> spc[q] \in Storing
                        /\ spc'[q] \in Deleting <=> spc[q] \in Deleting
                        /\ Path(q)' = Path(q)
    BY DEF SessionsIdle, Storing, Deleting, Path
  <1>2. (AtWork(f, Storing)' <=> AtWork(f, Storing))
            /\ (AtWork(f, Deleting)' <=> AtWork(f, Deleting))
    BY <1>1 DEF AtWork
  <1>3. QED BY <1>0, <1>2 DEF StoreOf, Consistent

\* The steps of clients do, and those that start or end one.
LEMMA ClientsIdle ==
  ASSUME RefInv, NEW p \in Runs,
         Connect(p) \/ ClientMoves(p) \/ (Kill(p) /\ UNCHANGED server)
  PROVE  SessionsIdle
  <1>1. CASE Connect(p)
    <2>1. spc[p] = "none" /\ spc \in [Runs -> SessionStates]
      BY <1>1, RefFacts DEF Connected, Connect, Start
    <2>2. QED BY <1>1, <2>1 DEF Connect, Accept, Goto, locals, stored, SessionsIdle
  <1>2. CASE UNCHANGED server
    BY <1>2 DEF server, stored, locals, SessionsIdle
  <1>3. QED BY <1>1, <1>2 DEF ClientMoves

\* Every step keeps files and rows consistent.
LEMMA NextKeepsConsistent ==
  ASSUME ~DbFaults, ~Crashes, Overlap # "any", RefInv, [Next]_vars, NEW f \in Paths
  PROVE  Consistent(f)'
  <1>0. Consistent(f) /\ up
    BY DEF RefInv
  <1>1. ASSUME NEW p \in Runs, SessionMoves(p)
        PROVE  Consistent(f)'
    <2>1. CASE f = Path(p) /\ HandlerStep(p) /\ spc[p] \in Uploading \cup Closing
      BY <1>1, <2>1, UploadOnStore, ClosingOnStore
    <2>2. QED BY <1>1, <2>1, OtherFilesOnStore
  <1>2. ASSUME NEW p \in Runs,
               Connect(p) \/ ClientMoves(p) \/ (Kill(p) /\ UNCHANGED server)
        PROVE  Consistent(f)'
    BY <1>0, <1>2, ClientsIdle, IdleOnStore
  <1>3. CASE UNCHANGED vars
    BY <1>0, <1>3, IdleOnStore DEF vars, server, stored, locals, SessionsIdle
  <1>4. ~Crash /\ ~Restart /\ \A p \in Runs : ~ConnectInVain(p)
    BY <1>0 DEF Crash, Restart, ConnectInVain
  <1>5. QED BY <1>1, <1>2, <1>3, <1>4 DEF Next

\* RefInv is inductive.
LEMMA NextKeepsRef ==
  ASSUME ~DbFaults, ~Crashes, Overlap # "any", RefInv, [Next]_vars
  PROVE  RefInv'
  <1>1. FileInv'
    BY NextKeepsFiles DEF RefInv
  <1>2. up'
    <2>1. up
      BY DEF RefInv
    <2>2. ASSUME NEW p \in Runs, SessionMoves(p)
          PROVE  UNCHANGED up
      BY <2>2, RefFacts, GoesOn DEF SessionMoves, SessionStep, Receive, CloseSession
    <2>3. QED
      BY <2>1, <2>2
         DEF Next, Connect, Accept, ConnectInVain, ClientMoves, Crash, Restart, vars, server
  <1>3. QED BY <1>1, <1>2, NextKeepsOffer, NextKeepsConsistent DEF RefInv

\* RefInv holds at first.
LEMMA InitRef == Init => RefInv
  <1>1. Init => /\ up
                /\ \A f \in Paths : Consistent(f)
                /\ \A p \in Runs : OfferIn(p)
    BY DEF Init, NetInit, ServerInit, ClientInit, Consistent, OfferIn, Offering, Targeting
  <1>2. QED BY <1>1, InitFiles DEF RefInv

-----------------------------------------------------------------------------
(* The runs *)

\* The verdict of a run is in the request that its session reads next ...
LEMMA AskedVerdict ==
  ASSUME FileInv, NEW p \in Runs, c2s[p] # <<>>
  PROVE  LET m == c2s[p][1]
         IN  VerdictOf(p) = CASE m.code = 1104 -> Mark(<<m.id, m.file>>, cksum[p])
                              [] m.code = 1106 -> Discard(<<m.id, m.file>>)
                              [] OTHER -> None
  <1>1. /\ Queued(p) /\ Head(c2s[p]) = c2s[p][1] /\ c2s[p] \in Seq(Request)
    BY ToldFacts, FirstAsked
  <1>2. DOMAIN c2s[p] = 1..Len(c2s[p]) /\ Len(c2s[p]) \in Nat
    BY <1>1
  <1>3. \A code \in {1104, 1106} :
            (\E i \in DOMAIN c2s[p] : c2s[p][i].code = code) <=> c2s[p][1].code = code
    <2>1. CASE Len(c2s[p]) = 1
      BY <1>2, <2>1
    <2>2. CASE Len(c2s[p]) = 2 /\ c2s[p][1].code = 1105 /\ c2s[p][2].code = 1103
      BY <1>2, <2>2
    <2>3. QED
      BY <1>1, <2>1, <2>2 DEF Queued, CLIENT_CODE_CKSUM_ERR, CLIENT_CODE_SEND_FILE
  <1>4. /\ Pending(p, 1104, {"verify"}) <=> c2s[p][1].code = 1104
        /\ Pending(p, 1106, {"file_check", "file_remove"}) <=> c2s[p][1].code = 1106
    BY <1>1, <1>3 DEF Pending, Queued
  <1>5. QED
    BY <1>1, <1>4
       DEF VerdictOf, VerdictPath, Mark, Discard, CLIENT_CODE_CKSUM_OK,
           CLIENT_CODE_CKSUM_ERR_FINAL

\* ... or in what its session is doing.
LEMMA ServedVerdict ==
  ASSUME FileInv, NEW p \in Runs, c2s[p] = <<>>
  PROVE  VerdictOf(p) = CASE spc[p] = "verify" -> Mark(Path(p), cksum[p])
                          [] spc[p] \in {"file_check", "file_remove"} -> Discard(Path(p))
                          [] OTHER -> None
  <1>1. AtFile(p) /\ DOMAIN c2s[p] = {}
    BY ToldFacts
  <1>2. /\ spc[p] = "verify" => req[p].code = 1104
        /\ spc[p] \in {"file_check", "file_remove"} => req[p].code = 1106
    BY <1>1 DEF AtFile, Deleting
  <1>3. /\ Pending(p, 1104, {"verify"}) <=> spc[p] = "verify"
        /\ Pending(p, 1106, {"file_check", "file_remove"})
               <=> spc[p] \in {"file_check", "file_remove"}
    BY <1>1, <1>2 DEF Pending
  <1>4. QED
    BY <1>3
       DEF VerdictOf, VerdictPath, Mark, Discard, CLIENT_CODE_CKSUM_OK,
           CLIENT_CODE_CKSUM_ERR_FINAL

\* Nothing of what the abstract store knows of a run changes.
RunStays(p) ==
    /\ TargetOf(p)' = TargetOf(p) /\ loaded'[p] = loaded[p] /\ TriesOf(p)' = TriesOf(p)
    /\ VerdictOf(p)' = VerdictOf(p) /\ OutcomeOf(p)' = OutcomeOf(p)

\* The steps of others leave a run.
LEMMA StillStays ==
  ASSUME NEW p \in Runs, Still(p)
  PROVE  RunStays(p)
  BY DEF Still, RunStays, TargetOf, TriesOf, VerdictOf, VerdictPath, Pending, Path, OutcomeOf

-----------------------------------------------------------------------------
(* One run or one file at a time *)

\* What the abstract store sees of a run and a file.
LEMMA Views ==
    /\ \A p \in Runs : /\ target[p] = TargetOf(p) /\ tries[p] = TriesOf(p)
                       /\ verdict[p] = VerdictOf(p) /\ outcome[p] = OutcomeOf(p)
                       /\ offer[p] = loaded[p]
    /\ \A f \in Paths : store[f] = StoreOf(f)
  BY DEF target, tries, verdict, outcome, offer, store

\* In a step of one run the others stay as they are.
LEMMA OneRunMoves ==
  ASSUME TypeInv, TypeInv', NEW p \in Runs, \A q \in Runs \ {p} : RunStays(q)
  PROVE  /\ target' = [target EXCEPT ![p] = TargetOf(p)']
         /\ tries' = [tries EXCEPT ![p] = TriesOf(p)']
         /\ verdict' = [verdict EXCEPT ![p] = VerdictOf(p)']
         /\ outcome' = [outcome EXCEPT ![p] = OutcomeOf(p)']
         /\ offer' = [offer EXCEPT ![p] = loaded'[p]]
  <1>1. target' = [target EXCEPT ![p] = TargetOf(p)']
    BY DEF RunStays, target
  <1>2. tries' = [tries EXCEPT ![p] = TriesOf(p)']
    BY DEF RunStays, tries
  <1>3. verdict' = [verdict EXCEPT ![p] = VerdictOf(p)']
    BY DEF RunStays, verdict
  <1>4. outcome' = [outcome EXCEPT ![p] = OutcomeOf(p)']
    BY DEF RunStays, outcome
  <1>5. offer' = [offer EXCEPT ![p] = loaded'[p]]
    <2>1. /\ loaded \in [Runs -> Contents \cup {None}]
          /\ loaded' \in [Runs -> Contents \cup {None}]
      BY DEF TypeInv, TypeOK, ClientTypeOK
    <2>2. QED BY <2>1 DEF RunStays, offer
  <1>6. QED BY <1>1, <1>2, <1>3, <1>4, <1>5

\* If all of them do, nothing changes.
LEMMA NoRunMoves ==
  ASSUME TypeInv, TypeInv', \A q \in Runs : RunStays(q)
  PROVE  UNCHANGED <<target, offer, tries, verdict, outcome>>
  <1>1. target' = target
    BY DEF RunStays, target
  <1>2. tries' = tries
    BY DEF RunStays, tries
  <1>3. verdict' = verdict
    BY DEF RunStays, verdict
  <1>4. outcome' = outcome
    BY DEF RunStays, outcome
  <1>5. offer' = offer
    <2>1. /\ loaded \in [Runs -> Contents \cup {None}]
          /\ loaded' \in [Runs -> Contents \cup {None}]
      BY DEF TypeInv, TypeOK, ClientTypeOK
    <2>2. QED BY <2>1 DEF RunStays, offer
  <1>6. QED BY <1>1, <1>2, <1>3, <1>4, <1>5

\* In a step on one file the others stay as they are.
LEMMA OneFileMoves ==
  ASSUME NEW f \in Paths, \A g \in Paths \ {f} : StoreOf(g)' = StoreOf(g)
  PROVE  store' = [store EXCEPT ![f] = StoreOf(f)']
  BY DEF store

\* If all of them do, nothing changes.
LEMMA NoFileMoves ==
  ASSUME \A f \in Paths : StoreOf(f)' = StoreOf(f)
  PROVE  UNCHANGED store
  BY DEF store

-----------------------------------------------------------------------------
(* The verdict of a run in the steps of its session *)

\* The verdict after a step is in what the session does then ...
LEMMA ServedVerdictNext ==
  ASSUME FileInv', NEW p \in Runs, c2s'[p] = <<>>
  PROVE  VerdictOf(p)' =
             CASE spc'[p] = "verify" -> Mark(Path(p)', cksum'[p])
               [] spc'[p] \in {"file_check", "file_remove"} -> Discard(Path(p)')
               [] OTHER -> None
  <1>1. AtFile(p)' /\ DOMAIN c2s'[p] = {}
    BY DEF FileInv
  <1>2. /\ spc'[p] = "verify" => req'[p].code = 1104
        /\ spc'[p] \in {"file_check", "file_remove"} => req'[p].code = 1106
    BY <1>1 DEF AtFile, Deleting
  <1>3. /\ Pending(p, 1104, {"verify"})' <=> spc'[p] = "verify"
        /\ Pending(p, 1106, {"file_check", "file_remove"})'
               <=> spc'[p] \in {"file_check", "file_remove"}
    BY <1>1, <1>2 DEF Pending
  <1>4. QED
    BY <1>3
       DEF VerdictOf, VerdictPath, Mark, Discard, CLIENT_CODE_CKSUM_OK,
           CLIENT_CODE_CKSUM_ERR_FINAL

\* ... or in the only request on its way to it.
LEMMA AskedVerdictNext ==
  ASSUME NEW p \in Runs, c2s'[p] \in Seq(Request), Len(c2s'[p]) = 1, spc'[p] = "recv",
         NEW m, m = c2s'[p][1]
  PROVE  VerdictOf(p)' = CASE m.code = 1104 -> Mark(<<m.id, m.file>>, cksum'[p])
                           [] m.code = 1106 -> Discard(<<m.id, m.file>>)
                           [] OTHER -> None
  <1>1. /\ DOMAIN c2s'[p] = {1} /\ c2s'[p][1] = m /\ Head(c2s'[p]) = m /\ c2s'[p] # <<>>
    OBVIOUS
  <1>2. /\ Pending(p, 1104, {"verify"})' <=> m.code = 1104
        /\ Pending(p, 1106, {"file_check", "file_remove"})' <=> m.code = 1106
    BY <1>1 DEF Pending
  <1>3. QED
    BY <1>1, <1>2
       DEF VerdictOf, VerdictPath, Mark, Discard, CLIENT_CODE_CKSUM_OK,
           CLIENT_CODE_CKSUM_ERR_FINAL

\* A file sent again is no verdict.
LEMMA RetryVerdictNext ==
  ASSUME NEW p \in Runs, NEW m, NEW n, c2s'[p] = <<m, n>>, spc'[p] = "recv",
         m.code = 1105, n.code = 1103
  PROVE  VerdictOf(p)' = None
  <1>1. DOMAIN c2s'[p] = {1, 2} /\ c2s'[p][1] = m /\ c2s'[p][2] = n
    OBVIOUS
  <1>2. /\ ~Pending(p, 1104, {"verify"})'
        /\ ~Pending(p, 1106, {"file_check", "file_remove"})'
    BY <1>1 DEF Pending
  <1>3. QED
    BY <1>2 DEF VerdictOf, CLIENT_CODE_CKSUM_OK, CLIENT_CODE_CKSUM_ERR_FINAL

\* A session that reads a request about a verdict has the verdict from then on.
LEMMA ReceiveKeepsVerdict ==
  ASSUME ~DbFaults, RefInv, RefInv', NEW p \in Runs, SessionMoves(p), Receive(p)
  PROVE  VerdictOf(p)' = VerdictOf(p)
  <1>0. /\ FileInv /\ FileInv' /\ MineInv /\ StepInv /\ Queued(p) /\ Queued(p)'
        /\ c2s \in [Runs -> Seq(Request)] /\ spc \in [Runs -> SessionStates]
        /\ req \in [Runs -> Request \cup {NoRequest}]
    <2>1. FileInv' /\ Queued(p)'
      BY DEF RefInv, FileInv, AboutInv, MineInv, StepInv, RunInv
    <2>2. QED BY <2>1, RefFacts DEF RefInv
  <1> DEFINE m == c2s[p][1]
  <1>1. /\ c2s[p] # <<>> /\ c2s'[p] = Tail(c2s[p]) /\ req'[p] = m /\ cksum'[p] = cksum[p]
        /\ spc[p] = "recv"
    BY <1>0, FirstAsked DEF Receive
  <1>2. m \in Request /\ m.code \in {1100, 1101, 1103, 1104, 1105, 1106}
    BY <1>0, <1>1, FirstAsked
  <1>3. VerdictOf(p) = CASE m.code = 1104 -> Mark(<<m.id, m.file>>, cksum[p])
                         [] m.code = 1106 -> Discard(<<m.id, m.file>>)
                         [] OTHER -> None
    BY <1>0, <1>1, AskedVerdict
  <1> HIDE DEF m
  <1>4. /\ m.code = 1104 => spc'[p] = "verify"
        /\ m.code = 1106 => spc'[p] = "file_check"
        /\ m.code \notin {1104, 1106} => spc'[p] \notin {"verify", "file_check", "file_remove"}
    BY <1>0, <1>2, ReceivedIsHandled, ReceivedGoes, HandlerOf DEF m
  <1>5. CASE c2s'[p] = <<>>
    <2>1. VerdictOf(p)' = CASE spc'[p] = "verify" -> Mark(Path(p)', cksum'[p])
                            [] spc'[p] \in {"file_check", "file_remove"} -> Discard(Path(p)')
                            [] OTHER -> None
      BY <1>0, <1>5, ServedVerdictNext
    <2>2. Path(p)' = <<m.id, m.file>>
      BY <1>1 DEF Path
    <2>3. CASE m.code = 1104
      BY <1>1, <1>3, <1>4, <2>1, <2>2, <2>3
    <2>4. CASE m.code = 1106
      BY <1>1, <1>3, <1>4, <2>1, <2>2, <2>4
    <2>5. CASE m.code \notin {1104, 1106}
      BY <1>3, <1>4, <2>1, <2>5
    <2>6. QED BY <2>3, <2>4, <2>5
  <1>6. CASE c2s'[p] # <<>>
    <2>1. Len(c2s[p]) = 2 /\ m.code = 1105 /\ c2s[p][2].code = 1103
      <3>1. Len(c2s[p]) = 1 => Tail(c2s[p]) = <<>>
        BY <1>0, OnlyOne
      <3>2. QED
        BY <1>0, <1>1, <1>6, <3>1
           DEF Queued, CLIENT_CODE_CKSUM_ERR, CLIENT_CODE_SEND_FILE, m
    <2>2. spc'[p] = "recv"
      BY <1>0, <1>6 DEF Queued
    <2>3. c2s'[p] \in Seq(Request) /\ Len(c2s'[p]) = 1 /\ c2s'[p][1] = c2s[p][2]
      <3>1. \A s \in Seq(Request) :
                Len(s) = 2 => Tail(s) \in Seq(Request) /\ Len(Tail(s)) = 1 /\ Tail(s)[1] = s[2]
        OBVIOUS
      <3>2. c2s[p] \in Seq(Request) /\ Len(c2s[p]) = 2
        BY <1>0, <2>1
      <3>3. QED BY <1>1, <3>1, <3>2
    <2> DEFINE n == c2s'[p][1]
    <2>4. n.code = 1103
      BY <2>1, <2>3
    <2> HIDE DEF n
    <2>5. VerdictOf(p)' = CASE n.code = 1104 -> Mark(<<n.id, n.file>>, cksum'[p])
                            [] n.code = 1106 -> Discard(<<n.id, n.file>>)
                            [] OTHER -> None
      BY <2>2, <2>3, AskedVerdictNext DEF n
    <2>6. VerdictOf(p)' = None
      BY <2>4, <2>5
    <2>7. QED BY <1>3, <2>1, <2>6
  <1>7. QED BY <1>5, <1>6

\* Only a killed client leaves a request behind that its session drops.
LEMMA CloseLosesVerdict ==
  ASSUME ~DbFaults, RefInv, RefInv', NEW p \in Runs, SessionMoves(p), CloseSession(p)
  PROVE  VerdictOf(p)' = None /\ (VerdictOf(p) # None => OutcomeOf(p) = "stopped")
  <1>0. /\ FileInv /\ FileInv' /\ OfferIn(p) /\ Connected(p)
        /\ c2s \in [Runs -> Seq(Request)] /\ spc \in [Runs -> SessionStates]
    BY RefFacts DEF RefInv
  <1>1. spc[p] = "recv" /\ "client" \notin open[p] /\ c2s'[p] = <<>> /\ spc'[p] = "none"
    BY <1>0 DEF CloseSession, Goto
  <1>2. VerdictOf(p)' = None
    BY <1>0, <1>1, ServedVerdictNext
  <1>3. c2s[p] = <<>> => VerdictOf(p) = None
    BY <1>0, <1>1, ServedVerdict
  <1>4. cpc[p] \in {"acked", "gaveup", "stopped"}
    BY <1>0, <1>1 DEF Connected, Ended
  <1>5. QED BY <1>0, <1>2, <1>3, <1>4 DEF OfferIn, OutcomeOf

\* Where a handler has a verdict to do.
Judging == {"verify", "file_check", "file_remove"}

\* Only a request starts one.
LEMMA JudgingGoesOn ==
  ASSUME TypeInv, NEW p \in Runs, HandlerStep(p)
  PROVE  spc'[p] \in Judging => CheckFile(p)
  <1>1. \A l : Goto(p, l) => spc'[p] = l
    BY DEF TypeInv, TypeOK, ServerTypeOK, Goto
  <1>2. CASE \/ RegisterInMap(p) \/ RegisterInDatabase(p) \/ SendRegistrationOk(p)
             \/ SendRegistrationErr(p) \/ StoreKeys(p) \/ SendAESKey(p) \/ Decrypt(p)
    BY <1>1, <1>2
       DEF RegisterInMap, RegisterInDatabase, SendRegistrationOk, SendRegistrationErr,
           StoreKeys, SendAESKey, Respond, Decrypt, Fail, Judging
  <1>3. CASE CheckRoot(p) \/ MakeRoot(p) \/ CheckClientDir(p) \/ MakeClientDir(p)
    BY <1>1, <1>3
       DEF CheckRoot, MakeRoot, CheckClientDir, MakeClientDir, CheckDirectory,
           MakeDirectory, Fail, Judging
  <1>4. CASE OpenFile(p) \/ WriteFile(p) \/ AddToFileMap(p) \/ AddToClient(p)
    BY <1>1, <1>4 DEF OpenFile, WriteFile, AddToFileMap, AddToClient, Fail, Judging
  <1>5. CASE CalculateCksum(p) \/ CheckRow(p) \/ InsertRow(p) \/ ResetRow(p) \/ SendCksum(p)
    BY <1>1, <1>5
       DEF CalculateCksum, CheckRow, InsertRow, ResetRow, SendCksum, Respond, Fail, Judging
  <1>6. CASE MarkVerified(p) \/ SendReceived(p) \/ RemoveFile(p) \/ DeleteRow(p)
    BY <1>1, <1>6 DEF MarkVerified, SendReceived, Respond, RemoveFile, DeleteRow, Fail, Judging
  <1>7. CASE TestClientFiles(p) \/ PopClientFile(p) \/ TestFileMap(p) \/ PopFileMap(p)
    BY <1>1, <1>7
       DEF TestClientFiles, PopClientFile, TestFileMap, PopFileMap, TestMap, PopResult,
           Fail, Judging
  <1>8. CASE Unreachable(p)
    BY <1>1, <1>8 DEF Unreachable, Fail, Judging
  <1>9. QED BY <1>2, <1>3, <1>4, <1>5, <1>6, <1>7, <1>8 DEF HandlerStep

\* A handler that neither marks nor removes a file leaves the verdict.
LEMMA HandlerOnVerdict ==
  ASSUME ~DbFaults, RefInv, RefInv', NEW p \in Runs, SessionMoves(p), HandlerStep(p)
  PROVE  /\ MarkVerified(p) => VerdictOf(p) = Mark(Path(p), cksum[p])
         /\ RemoveFile(p) => VerdictOf(p) = Discard(Path(p))
         /\ ~MarkVerified(p) /\ ~RemoveFile(p) => VerdictOf(p)' = VerdictOf(p)
         /\ spc'[p] \notin Judging => VerdictOf(p)' = None
  <1>0. /\ FileInv /\ FileInv' /\ TypeInv /\ Queued(p) /\ MineInv
        /\ spc \in [Runs -> SessionStates] /\ cksum \in [Runs -> Sums \cup {None}]
    BY RefFacts DEF RefInv, TypeInv, TypeOK, ServerTypeOK
  <1>1. UNCHANGED <<c2s, open>> /\ spc[p] \notin {"none", "recv"}
    BY ServesOn
  <1>2. c2s[p] = <<>> /\ c2s'[p] = <<>>
    BY <1>0, <1>1 DEF Queued
  <1>3. VerdictOf(p) = CASE spc[p] = "verify" -> Mark(Path(p), cksum[p])
                         [] spc[p] \in {"file_check", "file_remove"} -> Discard(Path(p))
                         [] OTHER -> None
    BY <1>0, <1>2, ServedVerdict
  <1>4. VerdictOf(p)' = CASE spc'[p] = "verify" -> Mark(Path(p)', cksum'[p])
                          [] spc'[p] \in {"file_check", "file_remove"} -> Discard(Path(p)')
                          [] OTHER -> None
    BY <1>0, <1>2, ServedVerdictNext
  <1>5. spc'[p] \notin Judging => VerdictOf(p)' = None
    BY <1>4 DEF Judging
  <1>6. MarkVerified(p) => VerdictOf(p) = Mark(Path(p), cksum[p])
    BY <1>3 DEF MarkVerified
  <1>7. RemoveFile(p) => VerdictOf(p) = Discard(Path(p))
    BY <1>3 DEF RemoveFile
  <1>8. ASSUME ~MarkVerified(p), ~RemoveFile(p)
        PROVE  VerdictOf(p)' = VerdictOf(p)
    <2>1. CASE CheckFile(p)
      <3>1. spc[p] = "file_check"
        BY <2>1 DEF CheckFile
      <3>2. Path(p)' = Path(p) /\ spc[p] \in Closing /\ AtFile(p)
        BY <1>0, <3>1, AtWorkFacts DEF Closing, Deleting
      <3>3. spc'[p] = "file_remove"
        BY <1>0, <2>1, <3>1, <3>2 DEF CheckFile, Goto, AtFile, Unconfirmed
      <3>4. QED BY <1>3, <1>4, <3>1, <3>2, <3>3
    <2>2. CASE ~CheckFile(p)
      <3>1. spc'[p] \notin Judging
        BY <1>0, <2>2, JudgingGoesOn
      <3>2. spc[p] \notin Judging
        BY <1>8, <2>2
           DEF HandlerStep, Judging, RegisterInMap, RegisterInDatabase, SendRegistrationOk,
               SendRegistrationErr, StoreKeys, SendAESKey, Respond, Decrypt, CheckRoot,
               MakeRoot, CheckClientDir, MakeClientDir, CheckDirectory, MakeDirectory,
               OpenFile, WriteFile, AddToFileMap, AddToClient, CalculateCksum, CheckRow,
               InsertRow, ResetRow, SendCksum, SendReceived, DeleteRow, TestClientFiles,
               PopClientFile, TestFileMap, PopFileMap, TestMap, Unreachable
      <3>3. QED BY <1>3, <1>5, <3>1, <3>2 DEF Judging
    <2>3. QED BY <2>1, <2>2
  <1>9. QED BY <1>5, <1>6, <1>7, <1>8

-----------------------------------------------------------------------------
(* The steps of sessions *)

\* What the abstract store does, or nothing that it sees.
AbstractStep == Abstract!Next \/ UNCHANGED <<store, target, offer, tries, verdict, outcome>>

\* A session changes what the abstract store sees of a run by its verdict only.
LEMMA SessionOnRuns ==
  ASSUME ~DbFaults, RefInv, RefInv', NEW p \in Runs, SessionMoves(p)
  PROVE  /\ UNCHANGED <<target, offer, tries, outcome>>
         /\ verdict' = [verdict EXCEPT ![p] = VerdictOf(p)']
         /\ VerdictOf(p)' = VerdictOf(p) => UNCHANGED verdict
  <1>1. TypeInv /\ TypeInv'
    BY DEF RefInv, FileInv, AboutInv, MineInv, StepInv, IdInv, OwnInv
  <1>2. \A q \in Runs \ {p} : RunStays(q)
    BY <1>1, SessionIsLocal, StillStays
  <1>3. UNCHANGED <<target, offer, tries, outcome>>
    BY DEF SessionMoves, client, memory, target, TargetOf, offer, tries, TriesOf, outcome,
           OutcomeOf
  <1>4. verdict' = [verdict EXCEPT ![p] = VerdictOf(p)']
    BY <1>1, <1>2, OneRunMoves
  <1>5. VerdictOf(p)' = VerdictOf(p) => UNCHANGED verdict
    BY <1>4 DEF verdict
  <1>6. QED BY <1>3, <1>4, <1>5

\* A step of a handler about a file is one of the store, or nothing to it.
LEMMA HandlerOnFile ==
  ASSUME ~DbFaults, Overlap # "any", RefInv, RefInv', NEW p \in Runs, SessionMoves(p),
         HandlerStep(p), spc[p] \in Uploading \cup Closing, NEW f, f = Path(p)
  PROVE  AbstractStep
  <1>0. /\ UNCHANGED <<target, offer, tries, outcome>>
        /\ verdict' = [verdict EXCEPT ![p] = VerdictOf(p)']
        /\ VerdictOf(p)' = VerdictOf(p) => UNCHANGED verdict
        /\ FileInv /\ verdict[p] = VerdictOf(p)
    BY SessionOnRuns, Views DEF RefInv
  <1>1. f \in Paths /\ store[f] = StoreOf(f)
    BY <1>0, AtWorkFacts, Views
  <1>2. \A g \in Paths \ {f} : StoreOf(g)' = StoreOf(g)
    BY OtherFilesOnStore
  <1>3. store' = [store EXCEPT ![f] = StoreOf(f)']
    BY <1>1, <1>2, OneFileMoves
  <1>4. CASE KeepsStore(p, f)
    <2>1. UNCHANGED store
      BY <1>2, <1>4, NoFileMoves DEF KeepsStore
    <2>2. UNCHANGED verdict
      BY <1>0, <1>4, HandlerOnVerdict DEF KeepsStore
    <2>3. QED BY <1>0, <2>1, <2>2 DEF AbstractStep
  <1>5. CASE Replaces(p, f)
    <2>1. UNCHANGED verdict
      BY <1>0, <1>5, HandlerOnVerdict DEF Replaces, OpenFile, MarkVerified, RemoveFile
    <2>2. Abstract!Replace(f)
      BY <1>0, <1>1, <1>3, <1>5, <2>1 DEF Replaces, Abstract!Replace
    <2>3. QED BY <1>1, <2>2 DEF AbstractStep, Abstract!Next
  <1>6. CASE Saves(p, f)
    <2>1. UNCHANGED verdict
      BY <1>0, <1>6, HandlerOnVerdict
         DEF Saves, InsertRow, ResetRow, MarkVerified, RemoveFile
    <2>2. Abstract!Save(f)
      BY <1>0, <1>1, <1>3, <1>6, <2>1 DEF Saves, Abstract!Save
    <2>3. QED BY <1>1, <2>2 DEF AbstractStep, Abstract!Next
  <1>7. CASE Marks(p, f)
    <2>1. /\ verdict[p] = Mark(f, cksum[p])
          /\ verdict' = [verdict EXCEPT ![p] = None]
      <3>1. spc'[p] = "received"
        BY <1>0, <1>7, AtWorkFacts DEF Marks, MarkVerified
      <3>2. QED
        BY <1>0, <1>7, <3>1, HandlerOnVerdict DEF Marks, Judging
    <2>2. /\ Abstract!Stored(f) /\ Cksum[store[f].content] = cksum[p]
          /\ store[f] = Abstract!Entry(disk[f], FALSE)
      <3>1. store[f] = Abstract!Entry(disk[f], FALSE) /\ Cksum[disk[f]] = cksum[p]
        BY <1>1, <1>7 DEF Marks
      <3>2. store[f].is = "stored" /\ store[f].content = disk[f]
        BY <3>1 DEF Abstract!Entry
      <3>3. QED BY <3>1, <3>2 DEF Abstract!Stored
    <2>3. store' = [store EXCEPT ![f].verified = TRUE]
      <3>0. ASSUME NEW c, NEW r, r = Abstract!Entry(c, FALSE)
            PROVE  [r EXCEPT !.verified = TRUE] = Abstract!Entry(c, TRUE)
        BY <3>0, MarkedEntry, ZenonT(30)
      <3>1. [store[f] EXCEPT !.verified = TRUE] = Abstract!Entry(disk[f], TRUE)
        BY <2>2, <3>0, Zenon
      <3>2. StoreOf(f)' = [store[f] EXCEPT !.verified = TRUE]
        BY <1>7, <3>1 DEF Marks
      <3>3. QED BY <1>3, <3>2
    <2>4. /\ verdict[p] # None /\ verdict[p].do = "mark" /\ verdict[p].path = f
          /\ verdict[p].cksum = cksum[p]
      <3>1. f \in Paths /\ cksum[p] \in {Cksum[b] : b \in Blobs}
        BY <1>0, <1>1, <1>7, AtWorkFacts DEF Marks, MarkVerified, AtFile, Unconfirmed
      <3>2. Mark(f, cksum[p]) \in Abstract!Verdicts
        BY <3>1 DEF Mark, Abstract!Verdicts
      <3>3. QED BY <2>1, <3>2, NoneIsNoVerdict DEF Mark
    <2>5. Abstract!Mark(p)
      BY <1>0, <2>1, <2>2, <2>3, <2>4 DEF Abstract!Mark
    <2>6. QED BY <2>5 DEF AbstractStep, Abstract!Next
  <1>8. CASE Discards(p, f)
    <2>1. /\ verdict[p] = Discard(f)
          /\ verdict' = [verdict EXCEPT ![p] = None]
      BY <1>0, <1>8, HandlerOnVerdict DEF Discards, Judging
    <2>2. Abstract!Stored(f)
      <3>1. store[f] = Abstract!Entry(disk[f], FALSE)
        BY <1>1, <1>8 DEF Discards
      <3>2. store[f].is = "stored"
        BY <3>1 DEF Abstract!Entry
      <3>3. QED BY <3>2 DEF Abstract!Stored
    <2>3. store' = [store EXCEPT ![f] = Abstract!Absent]
      BY <1>3, <1>8 DEF Discards
    <2>4. verdict[p] # None /\ verdict[p].do = "discard" /\ verdict[p].path = f
      <3>1. Discard(f) \in Abstract!Verdicts
        BY <1>1 DEF Discard, Abstract!Verdicts
      <3>2. QED BY <2>1, <3>1, NoneIsNoVerdict DEF Discard
    <2>5. Abstract!Discard(p)
      BY <1>0, <2>1, <2>2, <2>3, <2>4 DEF Abstract!Discard
    <2>6. QED BY <2>5 DEF AbstractStep, Abstract!Next
  <1>9. QED
    BY <1>0, <1>4, <1>5, <1>6, <1>7, <1>8, UploadOnStore, ClosingOnStore

\* Any other is nothing to it.
LEMMA HandlerImplements ==
  ASSUME ~DbFaults, Overlap # "any", RefInv, RefInv', NEW p \in Runs, SessionMoves(p),
         HandlerStep(p)
  PROVE  AbstractStep
  <1>1. CASE spc[p] \notin Uploading \cup Closing
    <2>1. UNCHANGED store
      BY <1>1, OtherFilesOnStore, NoFileMoves
    <2>2. VerdictOf(p)' = VerdictOf(p)
      BY <1>1, HandlerOnVerdict DEF MarkVerified, RemoveFile, Uploading, Closing, Deleting
    <2>3. QED BY <2>1, <2>2, SessionOnRuns DEF AbstractStep
  <1>2. QED BY <1>1, HandlerOnFile

\* So is every step of a session.
LEMMA SessionImplements ==
  ASSUME ~DbFaults, Overlap # "any", RefInv, RefInv', NEW p \in Runs, SessionMoves(p)
  PROVE  AbstractStep
  <1>0. /\ UNCHANGED <<target, offer, tries, outcome>>
        /\ verdict' = [verdict EXCEPT ![p] = VerdictOf(p)']
        /\ VerdictOf(p)' = VerdictOf(p) => UNCHANGED verdict
        /\ verdict[p] = VerdictOf(p) /\ outcome[p] = OutcomeOf(p)
        /\ SessionStep(p)
    BY SessionOnRuns, Views DEF SessionMoves
  <1>1. ASSUME Receive(p) \/ CloseSession(p)
        PROVE  UNCHANGED store
    <2>1. ~HandlerStep(p)
      BY <1>1, ServesOn DEF Receive, CloseSession
    <2>2. QED BY <2>1, OtherFilesOnStore, NoFileMoves
  <1>2. CASE Receive(p)
    BY <1>0, <1>1, <1>2, ReceiveKeepsVerdict DEF AbstractStep
  <1>3. CASE CloseSession(p)
    <2>1. VerdictOf(p)' = None /\ (VerdictOf(p) # None => outcome[p] = "stopped")
      BY <1>0, <1>3, CloseLosesVerdict
    <2>2. CASE VerdictOf(p) = None
      BY <1>0, <1>1, <1>3, <2>1, <2>2 DEF AbstractStep
    <2>3. CASE VerdictOf(p) # None
      <3>1. Abstract!Lose(p)
        BY <1>0, <1>1, <1>3, <2>1, <2>3 DEF Abstract!Lose
      <3>2. QED BY <3>1 DEF AbstractStep, Abstract!Next
    <2>4. QED BY <2>2, <2>3
  <1>4. QED BY <1>0, <1>2, <1>3, HandlerImplements DEF SessionStep

-----------------------------------------------------------------------------
(* The steps of clients *)

\* What the store has of the file of a client whose session waits.
LEMMA MyFileInStore ==
  ASSUME Overlap # "any", RefInv, NEW p \in Runs, cpc[p] \in Targeting,
         spc[p] \in {"none", "recv"}, NEW f, f = MyFile(p)
  PROVE  /\ f \in Paths /\ target[p] = f
         /\ store[f] = IF disk[f] = None THEN Abstract!Absent
                       ELSE Abstract!Entry(disk[f], files[f] = "verified")
  <1>1. /\ MineInv /\ OfferIn(p) /\ Consistent(f) /\ f \in Paths /\ AtHome(p, f)
        /\ UnderWay(p)
    <2>1. MineInv /\ OfferIn(p)
      BY RefFacts
    <2>2. AtHome(p, f)
      BY <2>1, FilesAtHome DEF Targeting, Offering
    <2>3. UnderWay(p)
      BY DEF UnderWay, Targeting, Offering, Ended
    <2>4. QED BY <2>1, <2>2, <2>3 DEF AtHome, RefInv
  <1>2. target[p] = f
    BY <1>1, Views DEF OfferIn, TargetOf, MyFile
  <1>3. ~AtWork(f, Storing)
    <2>1. ASSUME NEW q \in Runs, spc[q] \in Storing, Path(q) = f
          PROVE  FALSE
      <3>1. q = p
        BY <1>1, <2>1, AloneAtFile DEF Uploading
      <3>2. QED BY <2>1, <3>1 DEF Storing
    <2>2. QED BY <2>1 DEF AtWork
  <1>4. QED BY <1>1, <1>2, <1>3, StoreIs, Views

\* What the abstract store sees of a client before its step, and of the others.
LEMMA ClientOnStore ==
  ASSUME RefInv, RefInv', NEW p \in Runs,
         Connect(p) \/ ClientMoves(p) \/ (Kill(p) /\ UNCHANGED server)
  PROVE  /\ UNCHANGED store
         /\ target' = [target EXCEPT ![p] = TargetOf(p)']
         /\ tries' = [tries EXCEPT ![p] = TriesOf(p)']
         /\ verdict' = [verdict EXCEPT ![p] = VerdictOf(p)']
         /\ outcome' = [outcome EXCEPT ![p] = OutcomeOf(p)']
         /\ offer' = [offer EXCEPT ![p] = loaded'[p]]
         /\ RunStays(p) => UNCHANGED <<target, offer, tries, verdict, outcome>>
  <1>1. TypeInv /\ TypeInv'
    BY DEF RefInv, FileInv, AboutInv, MineInv, StepInv, IdInv, OwnInv
  <1>2. \A q \in Runs \ {p} : RunStays(q)
    BY <1>1, ClientIsLocal, StartIsLocal, StillStays
  <1>3. UNCHANGED store
    BY ClientsIdle, IdleOnStore, NoFileMoves
  <1>4. RunStays(p) => UNCHANGED <<target, offer, tries, verdict, outcome>>
    BY <1>1, <1>2, NoRunMoves
  <1>5. QED BY <1>1, <1>2, <1>3, <1>4, OneRunMoves

\* A client takes its steps without a verdict.
LEMMA ClientHasNone ==
  ASSUME RefInv, RefInv', NEW p \in Runs, ClientMoves(p)
  PROVE  /\ c2s[p] = <<>> /\ spc[p] \in {"none", "recv"} /\ spc'[p] = spc[p]
         /\ cksum'[p] = cksum[p] /\ req'[p] = req[p]
         /\ VerdictOf(p) = None /\ OutcomeOf(p) = "open" /\ "client" \in open[p]
         /\ c2s'[p] = <<>> => VerdictOf(p)' = None
  <1>0. FileInv /\ FileInv' /\ StepInv /\ cpc \in [Runs -> ClientStates]
    BY RefFacts DEF RefInv
  <1>1. /\ c2s[p] = <<>> /\ spc[p] \in {"none", "recv"} /\ spc'[p] = spc[p]
        /\ cksum'[p] = cksum[p] /\ req'[p] = req[p] /\ "client" \in open[p]
    BY <1>0, ClientAsks DEF ClientMoves, Quiet, server, locals
  <1>2. VerdictOf(p) = None
    BY <1>0, <1>1, ServedVerdict
  <1>3. c2s'[p] = <<>> => VerdictOf(p)' = None
    BY <1>0, <1>1, ServedVerdictNext
  <1>4. OutcomeOf(p) = "open"
    BY ClientIsAlive DEF ClientMoves, OutcomeOf, Ended
  <1>5. QED BY <1>1, <1>2, <1>3, <1>4

\* The verdict of a client that sends a request.
LEMMA SentVerdict ==
  ASSUME RefInv, RefInv', NEW p \in Runs, ClientMoves(p), NEW m, Send(p, m),
         NEW f, f = <<m.id, m.file>>
  PROVE  /\ m.code = 1104 /\ "server" \in open[p] => VerdictOf(p)' = Mark(f, cksum[p])
         /\ m.code = 1106 /\ "server" \in open[p] => VerdictOf(p)' = Discard(f)
         /\ m.code \notin {1104, 1106} => VerdictOf(p)' = None
  <1>1. /\ c2s[p] = <<>> /\ spc'[p] = spc[p] /\ spc[p] \in {"none", "recv"}
        /\ cksum'[p] = cksum[p] /\ (c2s'[p] = <<>> => VerdictOf(p)' = None)
    BY ClientHasNone
  <1>2. /\ Connected(p) /\ c2s \in [Runs -> Seq(Request)]
        /\ c2s' \in [Runs -> Seq(Request)]
    <2>1. c2s' \in [Runs -> Seq(Request)]
      BY DEF RefInv, FileInv, AboutInv, MineInv, StepInv, IdInv, OwnInv, TypeInv, TypeOK,
             NetTypeOK
    <2>2. QED BY <2>1, RefFacts
  <1>3. c2s'[p] = IF "server" \in open[p] THEN <<m>> ELSE <<>>
    BY <1>1, <1>2 DEF Send
  <1>4. CASE "server" \notin open[p]
    BY <1>1, <1>3, <1>4
  <1>5. CASE "server" \in open[p]
    <2>1. spc'[p] = "recv"
      BY <1>1, <1>2, <1>5 DEF Connected
    <2>2. c2s'[p] \in Seq(Request) /\ Len(c2s'[p]) = 1 /\ m = c2s'[p][1]
      <3>1. c2s'[p] \in Seq(Request)
        BY <1>2
      <3>2. c2s'[p] = <<m>>
        BY <1>3, <1>5
      <3>3. Len(<<m>>) = 1 /\ <<m>>[1] = m
        OBVIOUS
      <3>4. QED BY <3>1, <3>2, <3>3
    <2>3. VerdictOf(p)' = CASE m.code = 1104 -> Mark(<<m.id, m.file>>, cksum'[p])
                            [] m.code = 1106 -> Discard(<<m.id, m.file>>)
                            [] OTHER -> None
      BY <2>1, <2>2, AskedVerdictNext
    <2>4. CASE m.code = 1104
      BY <1>1, <1>5, <2>3, <2>4
    <2>5. CASE m.code = 1106
      BY <1>1, <1>5, <2>3, <2>5
    <2>6. CASE m.code \notin {1104, 1106}
      BY <2>3, <2>6
    <2>7. QED BY <2>4, <2>5, <2>6
  <1>6. QED BY <1>4, <1>5

\* A client that neither confirms a checksum nor gives up has none.
LEMMA SentNone ==
  ASSUME RefInv, RefInv', NEW p \in Runs, ClientMoves(p), NEW m, Send(p, m),
         m.code \notin {1104, 1106}
  PROVE  VerdictOf(p)' = None
  <1> DEFINE f == <<m.id, m.file>>
  <1>1. f = <<m.id, m.file>>
    OBVIOUS
  <1> HIDE DEF f
  <1>2. QED BY <1>1, SentVerdict

\* What a client that is told a checksum knows of the store.
LEMMA ToldOfStore ==
  ASSUME Overlap # "any", RefInv, RefInv', NEW p \in Runs, ClientMoves(p), ReceiveCksum(p),
         NEW f, f = MyFile(p)
  PROVE  /\ f \in Paths /\ target[p] = f /\ f = <<cid[p], cfile[p]>>
         /\ Abstract!Stored(f) /\ store[f].content = disk[f] /\ "server" \in open[p]
         /\ ResponseTo(p).file = cfile[p] /\ ResponseTo(p).cksum = cksum[p]
         /\ Cksum[disk[f]] = cksum[p]
         /\ SameCksum(p) <=> Abstract!Same(p)
  <1>1. /\ FileInv /\ MineInv /\ OfferIn(p) /\ Connected(p) /\ Told(p) /\ AboutIn(p)
    BY RefFacts
  <1>2. spc[p] \in {"none", "recv"} /\ "client" \in open[p]
    BY ClientHasNone
  <1>3. /\ cpc[p] = "await_file" /\ ResponseTo(p) = s2c[p][1]
        /\ 1 \in 1..Len(s2c[p]) /\ s2c[p][1].code = 2103
    BY <1>1, CksumReceived
  <1>4. spc[p] # "none" /\ "server" \in open[p]
    BY <1>1, <1>2 DEF OfferIn, Connected
  <1>5. Unconfirmed(p, f) /\ ResponseTo(p).cksum = cksum[p]
    BY <1>1, <1>3, <1>4 DEF Told, CksumIsSo
  <1>6. ResponseTo(p).file = cfile[p]
    BY <1>1, <1>2, <1>3 DEF AboutIn
  <1>7. /\ f \in Paths /\ target[p] = f
        /\ store[f] = Abstract!Entry(disk[f], files[f] = "verified")
    BY <1>2, <1>3, <1>5, MyFileInStore DEF Targeting, Offering, Unconfirmed
  <1>8. Abstract!Stored(f) /\ store[f].content = disk[f]
    BY <1>7 DEF Abstract!Entry, Abstract!Stored
  <1>9. SameCksum(p) <=> Abstract!Same(p)
    BY <1>5, <1>7, <1>8 DEF SameCksum, Abstract!Same, Unconfirmed, offer
  <1>10. QED BY <1>4, <1>5, <1>6, <1>7, <1>8, <1>9 DEF MyFile, Unconfirmed

\* A client that goes on without its file is not seen to.
LEMMA GoingOnStutters ==
  ASSUME ~DbFaults, Overlap # "any", RefInv, RefInv', NEW p \in Runs, ClientMoves(p),
         UNCHANGED <<cfile, loaded, trials>>, cpc[p] \notin Targeting,
         cpc'[p] \notin Targeting \cup Ended, c2s'[p] = <<>> \/ VerdictOf(p)' = None
  PROVE  AbstractStep
  <1>1. OfferIn(p) /\ OfferIn(p)'
    BY RefFacts DEF RefInv
  <1>2. TargetOf(p) = None /\ TargetOf(p)' = None
    BY <1>1 DEF OfferIn, TargetOf
  <1>3. TriesOf(p) = 0 /\ TriesOf(p)' = 0
    BY DEF TriesOf, Targeting, Offering
  <1>4. OutcomeOf(p)' = "open"
    BY DEF OutcomeOf, Ended
  <1>5. RunStays(p)
    BY <1>2, <1>3, <1>4, ClientHasNone DEF RunStays
  <1>6. QED BY <1>5, ClientOnStore DEF AbstractStep

\* The steps of a client before it has its file.
LEMMA PreparingStutters ==
  ASSUME ~DbFaults, Overlap # "any", RefInv, RefInv', NEW p \in Runs, ClientMoves(p),
         \/ ReceiveRegistration(p) \/ SaveName(p) \/ SaveId(p) \/ GenerateRSAKeyPair(p)
         \/ TruncateMeInfo(p) \/ WriteMeInfo(p) \/ SendPublicKey(p) \/ ReceiveKey(p)
  PROVE  AbstractStep
  <1>0. cpc \in [Runs -> ClientStates] /\ c2s[p] = <<>>
    BY RefFacts, ClientHasNone
  <1> USE DEF Enter, Targeting, Offering, Ended
  <1>1. UNCHANGED <<cfile, loaded, trials>>
    BY DEF ReceiveRegistration, SaveName, SaveId, AppendLine, GenerateRSAKeyPair,
           TruncateMeInfo, WriteMeInfo, SendPublicKey, ReceiveKey, memory
  <1>2. cpc[p] \notin Targeting /\ cpc'[p] \notin Targeting \cup Ended
    BY <1>0
       DEF ReceiveRegistration, SaveName, SaveId, AppendLine, GenerateRSAKeyPair,
           TruncateMeInfo, WriteMeInfo, SendPublicKey, ReceiveKey, Await
  <1>3. CASE SendPublicKey(p)
    <2>1. \A m : Send(p, m) /\ m.code = 1101 => VerdictOf(p)' = None
      BY SentNone
    <2>2. VerdictOf(p)' = None
      BY <1>3, <2>1
         DEF SendPublicKey, PublicKeyRequest, RequestOf, CLIENT_CODE_SEND_PUBLIC_KEY
    <2>3. QED BY <1>1, <1>2, <2>2, GoingOnStutters
  <1>4. CASE ~SendPublicKey(p)
    <2>1. UNCHANGED c2s
      BY <1>4
         DEF ReceiveRegistration, SaveName, SaveId, AppendLine, GenerateRSAKeyPair,
             TruncateMeInfo, WriteMeInfo, ReceiveKey, net
    <2>2. QED BY <1>0, <1>1, <1>2, <2>1, GoingOnStutters
  <1>5. QED BY <1>3, <1>4

\* What a run that ends makes of the abstract store.
LEMMA Finishes ==
  ASSUME RefInv, RefInv', NEW p \in Runs,
         ClientMoves(p) \/ (Kill(p) /\ UNCHANGED server),
         NEW how, End(p, how), how \in Ended, NEW end, end = OutcomeOf(p)'
  PROVE  Abstract!Finish(p, end)
  <1>0. /\ cpc \in [Runs -> ClientStates] /\ cfile \in [Runs -> Files \cup {None}]
        /\ loaded \in [Runs -> Contents \cup {None}] /\ UNCHANGED server
        /\ cid \in [Runs -> Ids \cup {None}]
    BY RefFacts DEF ClientMoves
  <1>1. /\ cpc'[p] = how /\ cfile'[p] = None /\ loaded'[p] = None /\ UNCHANGED c2s
    BY <1>0 DEF End, Enter
  <1>2. cpc[p] \notin Ended \cup {"off"}
    BY ClientIsAlive DEF ClientMoves, Kill
  <1>3. Abstract!Open(p)
    BY <1>2, Views DEF OutcomeOf, Ended, Abstract!Open
  <1>4. TargetOf(p)' = None /\ TriesOf(p)' = 0
    BY <1>1 DEF TargetOf, TriesOf, Ended
  <1>5. VerdictOf(p)' = VerdictOf(p)
    BY <1>0, <1>1 DEF VerdictOf, VerdictPath, Pending, Path, server, locals
  <1>6. verdict' = verdict
    BY <1>5, ClientOnStore DEF verdict
  <1>7. QED
    BY <1>1, <1>3, <1>4, <1>6, ClientOnStore DEF Abstract!Finish

\* A run may always be stopped.
LEMMA StopImplements ==
  ASSUME RefInv, RefInv', NEW p \in Runs,
         ClientMoves(p) \/ (Kill(p) /\ UNCHANGED server), End(p, "stopped")
  PROVE  AbstractStep
  <1>1. cpc'[p] = "stopped"
    BY RefFacts DEF End, Enter
  <1>2. OutcomeOf(p)' = "stopped"
    BY <1>1 DEF OutcomeOf
  <1>3. Abstract!Stop(p)
    BY <1>2, Finishes DEF Ended, Abstract!Stop
  <1>4. QED BY <1>3 DEF AbstractStep, Abstract!Next

\* The first offer of a file.
LEMMA SendFileOffers ==
  ASSUME Overlap # "any", RefInv, RefInv', NEW p \in Runs, ClientMoves(p), SendFile(p)
  PROVE  AbstractStep
  <1>0. /\ cpc \in [Runs -> ClientStates] /\ cfile \in [Runs -> Files \cup {None}]
        /\ loaded \in [Runs -> Contents \cup {None}] /\ OfferIn(p)
        /\ trials \in [Runs -> 1..NUMBER_OF_FILE_SENDING] /\ TypeInv
    BY RefFacts
  <1>1. PICK file \in Files, content \in Contents :
            /\ cfile' = [cfile EXCEPT ![p] = file]
            /\ loaded' = [loaded EXCEPT ![p] = content]
            /\ Send(p, FileRequest(cid[p], file, ckey[p], content))
    BY DEF SendFile
  <1>2. cpc[p] = "load" /\ cpc'[p] = "await_file" /\ UNCHANGED <<cid, trials>>
    BY <1>0 DEF SendFile, Enter
  <1>3. cid[p] \in Ids
    BY <1>0, <1>2 DEF TypeInv, ClientFits, Knows
  <1>4. cfile'[p] = file /\ loaded'[p] = content /\ file # None
    BY <1>0, <1>1, NoneAssumption
  <1> DEFINE f == <<cid[p], file>>
  <1>5. f \in Paths
    BY <1>3 DEF Paths
  <1>6. TargetOf(p)' = f
    BY <1>2, <1>4 DEF TargetOf
  <1> HIDE DEF f
  <1>7. TriesOf(p) = 0 /\ TriesOf(p)' = 1
    BY <1>0, <1>2 DEF TriesOf, OfferIn, Offering
  <1>8. OutcomeOf(p) = "open" /\ OutcomeOf(p)' = "open"
    BY <1>2 DEF OutcomeOf
  <1>9. VerdictOf(p) = None /\ VerdictOf(p)' = None
    <2>1. \A m : Send(p, m) /\ m.code = 1103 => VerdictOf(p)' = None
      BY SentNone
    <2>2. QED
      BY <1>1, <2>1, ClientHasNone DEF FileRequest, RequestOf, CLIENT_CODE_SEND_FILE
  <1>10. /\ UNCHANGED <<store, verdict, outcome>>
         /\ target' = [target EXCEPT ![p] = f]
         /\ offer' = [offer EXCEPT ![p] = content]
         /\ tries' = [tries EXCEPT ![p] = 1]
    <2>1. UNCHANGED verdict
      BY <1>9, ClientOnStore DEF verdict
    <2>2. UNCHANGED outcome
      BY <1>8, ClientOnStore DEF outcome
    <2>3. QED BY <1>4, <1>6, <1>7, <2>1, <2>2, ClientOnStore
  <1>11. Abstract!Open(p) /\ tries[p] = 0
    BY <1>7, <1>8, Views DEF Abstract!Open
  <1>12. Abstract!Offer(p)
    <2>1. tries' = [tries EXCEPT ![p] = tries[p] + 1]
      BY <1>10, <1>11
    <2>2. tries[p] < NUMBER_OF_FILE_SENDING
      BY <1>11 DEF NUMBER_OF_FILE_SENDING
    <2>3. QED BY <1>5, <1>10, <1>11, <2>1, <2>2 DEF Abstract!Offer
  <1>13. QED BY <1>12 DEF AbstractStep, Abstract!Next

\* A file sent again is another offer.
LEMMA RetryOffers ==
  ASSUME Overlap # "any", RefInv, RefInv', NEW p \in Runs, ClientMoves(p), CksumFailed(p)
  PROVE  AbstractStep
  <1>0. /\ cpc \in [Runs -> ClientStates]
        /\ loaded \in [Runs -> Contents \cup {None}] /\ OfferIn(p) /\ Connected(p)
        /\ trials \in [Runs -> 1..NUMBER_OF_FILE_SENDING] /\ c2s \in [Runs -> Seq(Request)]
    BY RefFacts
  <1>1. PICK content \in Contents \cup {None} :
            /\ loaded' = [loaded EXCEPT ![p] = IF content = None THEN @ ELSE content]
            /\ c2s' = [c2s EXCEPT ![p] =
                          IF "server" \notin open[p] THEN @
                          ELSE @ \o <<CksumRequest(CLIENT_CODE_CKSUM_ERR, cid[p],
                                                   ResponseTo(p).file),
                                      FileRequest(cid[p], cfile[p], ckey[p], content)>>]
    BY DEF CksumFailed
  <1>2. /\ cpc[p] = "await_file" /\ cpc'[p] = "await_file" /\ UNCHANGED <<cid, cfile>>
        /\ trials'[p] = trials[p] + 1 /\ trials[p] < NUMBER_OF_FILE_SENDING
        /\ ReceiveCksum(p) /\ ~SameCksum(p)
    BY <1>0 DEF CksumFailed, Enter, ReceiveCksum, Await, TrialsLeft
  <1> DEFINE f == MyFile(p)
  <1>3. /\ f \in Paths /\ target[p] = f
        /\ Abstract!Stored(f) /\ "server" \in open[p] /\ ~Abstract!Same(p)
    BY <1>2, ToldOfStore
  <1>4. loaded'[p] \in Contents
    BY <1>0, <1>1, <1>2 DEF OfferIn, Offering
  <1>5. TargetOf(p)' = TargetOf(p)
    BY <1>2 DEF TargetOf
  <1>6. TriesOf(p) = trials[p] /\ TriesOf(p)' = trials[p] + 1 /\ trials[p] \in Nat
    BY <1>0, <1>2 DEF TriesOf
  <1>7. OutcomeOf(p) = "open" /\ OutcomeOf(p)' = "open"
    BY <1>2 DEF OutcomeOf
  <1>8. VerdictOf(p) = None /\ VerdictOf(p)' = None
    <2> DEFINE m == CksumRequest(CLIENT_CODE_CKSUM_ERR, cid[p], ResponseTo(p).file)
    <2> DEFINE n == FileRequest(cid[p], cfile[p], ckey[p], content)
    <2>1. m.code = 1105 /\ n.code = 1103
      BY DEF CksumRequest, FileRequest, RequestOf, CLIENT_CODE_CKSUM_ERR, CLIENT_CODE_SEND_FILE
    <2>2. c2s[p] = <<>> /\ spc[p] \in {"none", "recv"} /\ spc'[p] = spc[p]
              /\ VerdictOf(p) = None
      BY ClientHasNone
    <2>3. c2s'[p] = <<m, n>>
      BY <1>0, <1>1, <1>3, <2>2
    <2>4. spc'[p] = "recv"
      BY <1>0, <1>3, <2>2 DEF Connected
    <2> HIDE DEF m, n
    <2>5. VerdictOf(p)' = None
      BY <2>1, <2>3, <2>4, RetryVerdictNext
    <2>6. QED BY <2>2, <2>5
  <1>9. /\ UNCHANGED <<store, verdict, outcome, target>>
        /\ offer' = [offer EXCEPT ![p] = loaded'[p]]
        /\ tries' = [tries EXCEPT ![p] = tries[p] + 1]
    <2>1. UNCHANGED verdict
      BY <1>8, ClientOnStore DEF verdict
    <2>2. UNCHANGED outcome
      BY <1>7, ClientOnStore DEF outcome
    <2>3. UNCHANGED target
      BY <1>5, ClientOnStore DEF target
    <2>4. QED BY <1>6, <2>1, <2>2, <2>3, ClientOnStore, Views
  <1>10. target' = [target EXCEPT ![p] = f]
    BY <1>3, <1>9 DEF target
  <1>11. Abstract!Open(p) /\ tries[p] < NUMBER_OF_FILE_SENDING
    BY <1>2, <1>6, <1>7, Views DEF Abstract!Open
  <1> HIDE DEF f
  <1>12. Abstract!Offer(p)
    BY <1>3, <1>4, <1>9, <1>10, <1>11 DEF Abstract!Offer
  <1>13. QED BY <1>12 DEF AbstractStep, Abstract!Next

\* A client that finds its checksum accepts what the store has.
LEMMA OkAccepts ==
  ASSUME Overlap # "any", RefInv, RefInv', NEW p \in Runs, ClientMoves(p), CksumSucceeded(p)
  PROVE  AbstractStep
  <1>0. /\ cpc \in [Runs -> ClientStates]
        /\ trials \in [Runs -> 1..NUMBER_OF_FILE_SENDING]
    BY RefFacts
  <1>1. /\ cpc[p] = "await_file" /\ cpc'[p] = "await_ack"
        /\ UNCHANGED <<cid, cfile, loaded, trials>>
        /\ ReceiveCksum(p) /\ SameCksum(p)
        /\ Send(p, CksumRequest(CLIENT_CODE_CKSUM_OK, cid[p], ResponseTo(p).file))
    BY <1>0 DEF CksumSucceeded, Enter, ReceiveCksum, Await, memory
  <1>2. PICK f : f = MyFile(p)
    OBVIOUS
  <1>3. /\ target[p] = f /\ f = <<cid[p], cfile[p]>>
        /\ Abstract!Stored(f) /\ Abstract!Same(p) /\ "server" \in open[p]
        /\ ResponseTo(p).file = cfile[p] /\ Cksum[loaded[p]] = cksum[p]
    BY <1>1, <1>2, ToldOfStore DEF SameCksum
  <1>4. TriesOf(p)' = TriesOf(p) /\ TriesOf(p) \in Nat /\ TriesOf(p) > 0
    BY <1>0, <1>1 DEF TriesOf
  <1>5. OutcomeOf(p) = "open" /\ OutcomeOf(p)' = "open"
    BY <1>1 DEF OutcomeOf
  <1>6. VerdictOf(p)' = Mark(f, cksum[p])
    <2>1. \A m : Send(p, m) /\ m.code = 1104 /\ f = <<m.id, m.file>>
                     => VerdictOf(p)' = Mark(f, cksum[p])
      BY <1>3, SentVerdict
    <2>2. QED
      BY <1>1, <1>3, <2>1 DEF CksumRequest, RequestOf, CLIENT_CODE_CKSUM_OK
  <1>7. TargetOf(p)' = TargetOf(p)
    BY <1>1 DEF TargetOf
  <1>8. UNCHANGED <<store, target, offer, tries, outcome>>
    <2>1. UNCHANGED target
      BY <1>7, ClientOnStore DEF target
    <2>2. UNCHANGED tries
      BY <1>4, ClientOnStore DEF tries
    <2>3. UNCHANGED outcome
      BY <1>5, ClientOnStore DEF outcome
    <2>4. QED BY <1>1, <2>1, <2>2, <2>3, ClientOnStore DEF offer
  <1>9. verdict' = [verdict EXCEPT ![p] =
                        [do |-> "mark", path |-> f, cksum |-> Cksum[offer[p]]]]
    BY <1>3, <1>6, ClientOnStore DEF Mark, offer
  <1>10. Abstract!Open(p) /\ tries[p] > 0
    BY <1>4, <1>5, Views DEF Abstract!Open
  <1>11. Abstract!Accept(p)
    BY <1>3, <1>8, <1>9, <1>10 DEF Abstract!Accept
  <1>12. QED BY <1>11 DEF AbstractStep, Abstract!Next

\* A client that has no try left rejects it.
LEMMA FinalErrRejects ==
  ASSUME Overlap # "any", RefInv, RefInv', NEW p \in Runs, ClientMoves(p),
         CksumFailedFinally(p)
  PROVE  AbstractStep
  <1>0. /\ cpc \in [Runs -> ClientStates] /\ OfferIn(p)
        /\ loaded \in [Runs -> Contents \cup {None}]
        /\ trials \in [Runs -> 1..NUMBER_OF_FILE_SENDING]
    BY RefFacts
  <1>1. /\ cpc[p] = "await_file" /\ cpc'[p] = "await_final"
        /\ UNCHANGED <<cid, cfile>> /\ loaded'[p] = None
        /\ ~(trials[p] < NUMBER_OF_FILE_SENDING)
        /\ ReceiveCksum(p) /\ ~SameCksum(p)
        /\ Send(p, CksumRequest(CLIENT_CODE_CKSUM_ERR_FINAL, cid[p], ResponseTo(p).file))
    BY <1>0 DEF CksumFailedFinally, Enter, ReceiveCksum, Await, TrialsLeft
  <1>2. PICK f : f = MyFile(p)
    OBVIOUS
  <1>3. /\ target[p] = f /\ f = <<cid[p], cfile[p]>>
        /\ Abstract!Stored(f) /\ ~Abstract!Same(p) /\ "server" \in open[p]
        /\ ResponseTo(p).file = cfile[p]
    BY <1>1, <1>2, ToldOfStore
  <1>4. TriesOf(p)' = NUMBER_OF_FILE_SENDING /\ TriesOf(p) = NUMBER_OF_FILE_SENDING
    BY <1>0, <1>1 DEF TriesOf, NUMBER_OF_FILE_SENDING
  <1>5. OutcomeOf(p) = "open" /\ OutcomeOf(p)' = "open"
    BY <1>1 DEF OutcomeOf
  <1>6. VerdictOf(p)' = Discard(f)
    <2>1. \A m : Send(p, m) /\ m.code = 1106 /\ f = <<m.id, m.file>>
                     => VerdictOf(p)' = Discard(f)
      BY <1>3, SentVerdict
    <2>2. QED
      BY <1>1, <1>3, <2>1 DEF CksumRequest, RequestOf, CLIENT_CODE_CKSUM_ERR_FINAL
  <1>7. TargetOf(p)' = TargetOf(p)
    BY <1>1 DEF TargetOf
  <1>8. UNCHANGED <<store, target, tries, outcome>>
    <2>1. UNCHANGED target
      BY <1>7, ClientOnStore DEF target
    <2>2. UNCHANGED tries
      BY <1>4, ClientOnStore DEF tries
    <2>3. UNCHANGED outcome
      BY <1>5, ClientOnStore DEF outcome
    <2>4. QED BY <2>1, <2>2, <2>3, ClientOnStore
  <1>9. /\ verdict' = [verdict EXCEPT ![p] = [do |-> "discard", path |-> f]]
        /\ offer' = [offer EXCEPT ![p] = None]
    BY <1>1, <1>6, ClientOnStore DEF Discard
  <1>10. /\ Abstract!Open(p) /\ tries[p] = NUMBER_OF_FILE_SENDING /\ offer[p] # None
    BY <1>0, <1>1, <1>4, <1>5, Views DEF Abstract!Open, OfferIn, Offering
  <1>11. Abstract!Reject(p)
    BY <1>3, <1>8, <1>9, <1>10 DEF Abstract!Reject
  <1>12. QED BY <1>11 DEF AbstractStep, Abstract!Next

\* A client that has its 2104 has its file stored and marked ...
LEMMA AckFinishes ==
  ASSUME Overlap # "any", RefInv, RefInv', NEW p \in Runs, ClientMoves(p), ReceiveAck(p)
  PROVE  AbstractStep
  <1>0. /\ cpc \in [Runs -> ClientStates] /\ Told(p) /\ cpc[p] = "await_ack"
        /\ OfferIn(p)
    BY RefFacts DEF ReceiveAck, ReceiveConfirmation, Await
  <1>1. CASE ResponseTo(p).code # SERVER_CODE_MESSAGE_RECEIVED
    <2>1. End(p, "stopped")
      BY <1>1 DEF ReceiveAck, ReceiveConfirmation
    <2>2. QED BY <2>1, StopImplements
  <1>2. CASE ResponseTo(p).code = SERVER_CODE_MESSAGE_RECEIVED
    <2>1. End(p, "acked")
      BY <1>2 DEF ReceiveAck, ReceiveConfirmation
    <2>2. OutcomeOf(p)' = "stored"
      BY <1>0, <2>1 DEF End, Enter, OutcomeOf
    <2>3. Abstract!Finish(p, "stored")
      BY <2>1, <2>2, Finishes DEF Ended
    <2>4. s2c[p] # <<>>
      BY <1>2 DEF ResponseTo, NoResponse, Status, ResponseOf, SERVER_CODE_MESSAGE_RECEIVED
    <2>5. PICK f : f = MyFile(p)
      OBVIOUS
    <2>6. Confirmed(f, Cksum[loaded[p]])
      BY <1>0, <2>4, <2>5 DEF Told, EndIsSo
    <2>7. /\ f \in Paths /\ target[p] = f
          /\ store[f] = Abstract!Entry(disk[f], files[f] = "verified")
      BY <1>0, <2>5, <2>6, ClientHasNone, MyFileInStore DEF Targeting, Offering, Confirmed
    <2>8. Abstract!Stored(f) /\ store[f].content = disk[f] /\ store[f].verified
      <3>1. store[f] = Abstract!Entry(disk[f], TRUE)
        BY <2>6, <2>7 DEF Confirmed
      <3>2. store[f].verified = TRUE
        BY <3>1 DEF Abstract!Entry
      <3>3. Abstract!Stored(f) /\ store[f].content = disk[f]
        BY <3>1 DEF Abstract!Entry, Abstract!Stored
      <3>4. QED BY <3>2, <3>3
    <2>9. Abstract!Same(p)
      BY <1>0, <2>6, <2>7, <2>8
         DEF Confirmed, Abstract!Same, offer, OfferIn, Offering
    <2>10. target[p] # None
      BY <2>7, NoneIsNoVerdict
    <2>11. Abstract!FinishStored(p)
      BY <2>3, <2>7, <2>8, <2>9, <2>10 DEF Abstract!FinishStored
    <2>12. QED BY <2>11 DEF AbstractStep, Abstract!Next
  <1>3. QED BY <1>1, <1>2

\* ... or, after four tries, discarded.
LEMMA FinalAckFinishes ==
  ASSUME Overlap # "any", RefInv, RefInv', NEW p \in Runs, ClientMoves(p), ReceiveFinalAck(p)
  PROVE  AbstractStep
  <1>0. /\ cpc \in [Runs -> ClientStates] /\ Told(p) /\ cpc[p] = "await_final"
    BY RefFacts DEF ReceiveFinalAck, ReceiveConfirmation, Await
  <1>1. CASE ResponseTo(p).code # SERVER_CODE_MESSAGE_RECEIVED
    <2>1. End(p, "stopped")
      BY <1>1 DEF ReceiveFinalAck, ReceiveConfirmation
    <2>2. QED BY <2>1, StopImplements
  <1>2. CASE ResponseTo(p).code = SERVER_CODE_MESSAGE_RECEIVED
    <2>1. End(p, "gaveup")
      BY <1>2 DEF ReceiveFinalAck, ReceiveConfirmation
    <2>2. OutcomeOf(p)' = "discarded"
      BY <1>0, <2>1 DEF End, Enter, OutcomeOf
    <2>3. Abstract!Finish(p, "discarded")
      BY <2>1, <2>2, Finishes DEF Ended
    <2>4. s2c[p] # <<>>
      BY <1>2 DEF ResponseTo, NoResponse, Status, ResponseOf, SERVER_CODE_MESSAGE_RECEIVED
    <2>5. PICK f : f = MyFile(p)
      OBVIOUS
    <2>6. Gone(f)
      BY <1>0, <2>4, <2>5 DEF Told, EndIsSo
    <2>7. target[p] = f /\ store[f] = Abstract!Absent
      BY <1>0, <2>5, <2>6, ClientHasNone, MyFileInStore DEF Targeting, Gone
    <2>8. tries[p] = NUMBER_OF_FILE_SENDING
      BY <1>0, Views DEF TriesOf
    <2>9. Abstract!FinishDiscarded(p)
      BY <2>3, <2>7, <2>8 DEF Abstract!FinishDiscarded
    <2>10. QED BY <2>9 DEF AbstractStep, Abstract!Next
  <1>3. QED BY <1>1, <1>2

\* Every step of a client is one of the abstract store, or nothing to it.
LEMMA ClientImplements ==
  ASSUME ~DbFaults, Overlap # "any", RefInv, RefInv', NEW p \in Runs, ClientMoves(p)
  PROVE  AbstractStep
  <1>1. CASE NotRegistered(p) \/ NothingToSend(p) \/ NoCksum(p)
    <2>1. End(p, "stopped")
      BY <1>1 DEF NotRegistered, NothingToSend, NoCksum
    <2>2. QED BY <2>1, StopImplements
  <1>2. QED
    BY <1>1, PreparingStutters, SendFileOffers, RetryOffers, OkAccepts, FinalErrRejects,
       AckFinishes, FinalAckFinishes
       DEF ClientMoves, ClientStep

\* The start of a run is nothing to it.
LEMMA ConnectStutters ==
  ASSUME ~DbFaults, Overlap # "any", RefInv, RefInv', NEW p \in Runs, Connect(p)
  PROVE  AbstractStep
  <1>0. /\ cpc \in [Runs -> ClientStates] /\ spc \in [Runs -> SessionStates]
        /\ c2s \in [Runs -> Seq(Request)] /\ Connected(p) /\ Queued(p) /\ OfferIn(p)
        /\ OfferIn(p)' /\ FileInv /\ FileInv'
    BY RefFacts DEF RefInv
  <1>1. /\ cpc[p] = "off" /\ cpc'[p] = "await_reg" /\ spc[p] = "none" /\ spc'[p] = "recv"
        /\ UNCHANGED <<loaded, trials>> /\ c2s[p] = <<>>
        /\ c2s'[p] = <<RegisterRequest(NameOf[HostOf[p]])>>
    BY <1>0 DEF Connect, Start, Accept, Enter, Goto, Connected, Queued
  <1>2. TargetOf(p) = None /\ TargetOf(p)' = None
    BY <1>0, <1>1 DEF OfferIn, TargetOf, Targeting, Offering
  <1>3. TriesOf(p)' = TriesOf(p) /\ OutcomeOf(p)' = OutcomeOf(p)
    BY <1>1 DEF TriesOf, OutcomeOf
  <1>4. VerdictOf(p) = None
    BY <1>0, <1>1, ServedVerdict
  <1>5. VerdictOf(p)' = None
    <2>1. DOMAIN c2s'[p] = {1} /\ c2s'[p][1].code = 1100
      BY <1>1 DEF RegisterRequest, RequestOf, CLIENT_CODE_REGISTER
    <2>2. /\ ~Pending(p, 1104, {"verify"})'
          /\ ~Pending(p, 1106, {"file_check", "file_remove"})'
      BY <1>1, <2>1 DEF Pending
    <2>3. QED
      BY <2>2 DEF VerdictOf, CLIENT_CODE_CKSUM_OK, CLIENT_CODE_CKSUM_ERR_FINAL
  <1>6. RunStays(p)
    BY <1>1, <1>2, <1>3, <1>4, <1>5 DEF RunStays
  <1>7. QED BY <1>6, ClientOnStore DEF AbstractStep

-----------------------------------------------------------------------------
\* Every step of the system is one of the abstract store, or nothing to it.
LEMMA NextImplements ==
  ASSUME ~DbFaults, ~Crashes, Overlap # "any", RefInv, RefInv', [Next]_vars
  PROVE  AbstractStep
  <1>1. ASSUME NEW p \in Runs, Kill(p) /\ UNCHANGED server
        PROVE  AbstractStep
    <2>1. End(p, "stopped")
      BY <1>1 DEF Kill
    <2>2. QED BY <1>1, <2>1, StopImplements
  <1>2. CASE UNCHANGED vars
    <2>1. \A q \in Runs : RunStays(q)
      BY <1>2
         DEF vars, server, locals, client, memory, net, RunStays, TargetOf, TriesOf,
             VerdictOf, VerdictPath, Pending, Path, OutcomeOf
    <2>2. \A f \in Paths : StoreOf(f)' = StoreOf(f)
      BY <1>2, IdleOnStore DEF vars, server, stored, locals, SessionsIdle
    <2>3. TypeInv /\ TypeInv'
      BY DEF RefInv, FileInv, AboutInv, MineInv, StepInv, IdInv, OwnInv
    <2>4. QED BY <2>1, <2>2, <2>3, NoRunMoves, NoFileMoves DEF AbstractStep
  <1>3. ~Crash /\ ~Restart /\ \A p \in Runs : ~ConnectInVain(p)
    BY DEF RefInv, Crash, Restart, ConnectInVain
  <1>4. QED
    BY <1>1, <1>2, <1>3, ConnectStutters, SessionImplements, ClientImplements DEF Next

\* The system starts as an empty store.
LEMMA InitImplements == Init => Abstract!Init
  <1>1. SUFFICES ASSUME Init PROVE Abstract!Init
    OBVIOUS
  <1>2. /\ \A f \in Paths : disk[f] = None /\ files[f] = None
        /\ \A p \in Runs : /\ spc[p] = "none" /\ c2s[p] = <<>> /\ cpc[p] = "off"
                           /\ cfile[p] = None
    BY <1>1 DEF Init, NetInit, ServerInit, ClientInit
  <1>3. store = [f \in Paths |-> Abstract!Absent]
    BY <1>2 DEF store, StoreOf, AtWork, Storing, Abstract!Absent
  <1>4. target = [p \in Runs |-> None]
    BY <1>2 DEF target, TargetOf
  <1>5. tries = [p \in Runs |-> 0]
    BY <1>2 DEF tries, TriesOf
  <1>6. verdict = [p \in Runs |-> None]
    <2>1. \A p \in Runs : VerdictOf(p) = None
      <3>1. ASSUME NEW p \in Runs
            PROVE  DOMAIN c2s[p] = {} /\ spc[p] = "none"
        BY <1>2
      <3>2. QED BY <3>1 DEF VerdictOf, Pending
    <2>2. QED BY <2>1 DEF verdict
  <1>7. outcome = [p \in Runs |-> "open"]
    BY <1>2 DEF outcome, OutcomeOf
  <1>8. offer = [p \in Runs |-> None]
    BY <1>1 DEF Init, ClientInit, offer
  <1>9. QED BY <1>3, <1>4, <1>5, <1>6, <1>7, <1>8 DEF Abstract!Init

\* Runs of different directories, however many, however interleaved and
\* whoever of the clients is killed, use the server as one store that replaces,
\* saves, marks and discards whole files, and answers only for what it has done.
THEOREM SystemImplementsStore ==
  ASSUME ~DbFaults, ~Crashes, Overlap # "any"
  PROVE  Spec => ImplementsStore
  <1>1. RefInv /\ [Next]_vars => RefInv'
    BY NextKeepsRef
  <1>2. RefInv /\ RefInv' /\ [Next]_vars => [Abstract!Next]_(Abstract!vars)
    BY NextImplements DEF AbstractStep, Abstract!vars
  <1>3. QED
    BY <1>1, <1>2, InitRef, InitImplements, PTL DEF Spec, ImplementsStore, Abstract!Spec
=============================================================================
