------------------------------ MODULE Content -------------------------------
(***************************************************************************)
(* The content of a file on its way from disk to disk: what ContentSize    *)
(* leaves of it, and the checksum that each program takes of its part, by  *)
(* which the client decides whether the upload is verified.                *)
(***************************************************************************)
EXTENDS ContentSize, Crc

CONSTANTS
    Files,   \* files, as sequences of bytes
    Edits    \* what another run of the client may send of an edited file: this
             \* byte in this place

ASSUME FilesAssumption ==
    /\ \A f \in Files : f \in Seq(0..255) /\ Len(f) \in Sizes
    /\ Edits \subseteq [place : Nat \ {0}, byte : 0..255]

VARIABLE file   \* the file of the client

contentVars == <<file, vars, crcVars>>

\* The first bytes of the file.
First(count) == SubSeq(file, 1, count)

ContentInit ==
    /\ file \in Files
    /\ size = Len(file)
    /\ Init
    /\ CrcInit

\* loadFileContent: the checksum is of what has been encrypted.
Prepare == Encrypt /\ Begin("client", First(fileSize))

\* What the file of the server may hold when it is read for its checksum: what
\* has been written, or what the session of another run of the client has
\* written to the same path since.
ReadBack(written) ==
    {written} \cup
    {[written EXCEPT ![e.place] = e.byte] : e \in {e \in Edits : e.place <= Len(written)}}

\* process_file_content: the checksum is of what is on the disk by then.
Store ==
    /\ Decrypt
    /\ IF pc' = "stored"
       THEN \E bytes \in ReadBack(First(stored')) : Begin("server", bytes)
       ELSE UNCHANGED crcVars

ContentNext ==
    /\ \/ ReadFile /\ UNCHANGED crcVars
       \/ Prepare
       \/ step = "none" /\ SendItem /\ UNCHANGED crcVars
       \/ Store
       \/ CrcStep /\ UNCHANGED vars
    /\ UNCHANGED file

ContentSpec == ContentInit /\ [][ContentNext]_contentVars

-----------------------------------------------------------------------------
ContentTypeOK == TypeOK /\ CrcTypeOK /\ file \in Files

\* When a program has its checksum, it is the POSIX cksum of what it read, the
\* client its part of the file, whatever the end of a buffer of the server falls
\* on: a difference would make every upload fail four times.
CksumExact ==
    step = "none" /\ cksum[who] # Unknown =>
        cksum[who] = Cksum(IF who = "client" THEN First(fileSize) ELSE input)

\* The two checksums agree, and the client verifies its upload
\* (handleFileResponse 607), when the server has read back what the client has
\* encrypted, and only then: one byte that another session changed between the
\* write (server.py:561) and the checksum (server.py:570) makes them differ,
\* wherever it is.
VerifiedIsRead ==
    Unknown \notin {cksum["client"], cksum["server"]} =>
        (cksum["client"] = cksum["server"] <=> input = First(fileSize))
=============================================================================
