----------------------------- MODULE ContentSize -----------------------------
(***************************************************************************)
(* The size of a file on its way: cut to 32 bits, padded to whole AES      *)
(* blocks, cut to 32 bits again, and then how much the server receives.    *)
(***************************************************************************)
EXTENDS Integers

CONSTANTS
    Word,    \* how many values a uint32_t has
    Block,   \* bytes of an AES block
    Sizes    \* sizes that files have

ASSUME SizesAssumption ==
    /\ Block \in Nat /\ Word \in Nat
    /\ 0 < Block /\ 0 < Word
    /\ Word % Block = 0
    /\ Sizes \subseteq Nat

VARIABLES
    pc,           \* what happens next
    size,         \* of the file of the client
    fileSize,     \* of what is read, encrypted and checksummed
    encrypted,    \* length of encryptedFileContent
    contentSize,  \* of the FileItem: what is sent and received
    stored        \* size of the file of the server, -1 for none

vars == <<pc, size, fileSize, encrypted, contentSize, stored>>

Init ==
    /\ pc = "read"
    /\ size \in Sizes
    /\ fileSize = 0 /\ encrypted = 0 /\ contentSize = 0
    /\ stored = -1

\* A conversion to uint32_t.
Cut(n) == n % Word

\* loadFileContent and readFile: the file up to its size.
ReadFile ==
    /\ pc = "read"
    /\ fileSize' = Cut(size)
    /\ pc' = "encrypt"
    /\ UNCHANGED <<size, encrypted, contentSize, stored>>

\* AESWrapper::encrypt adds 1 to Block bytes of padding.
Padded(n) == (n \div Block + 1) * Block

Encrypt ==
    /\ pc = "encrypt"
    /\ encrypted' = Padded(fileSize)
    /\ pc' = "send"
    /\ UNCHANGED <<size, fileSize, contentSize, stored>>

SendItemOfFileSize ==
    /\ pc = "send"
    /\ contentSize' = fileSize
    /\ pc' = "decrypt"
    /\ UNCHANGED <<size, fileSize, encrypted, stored>>

\* FileItem::FileItem, and sending that much of the content.
SendItem ==
    /\ pc = "send"
    /\ contentSize' = Cut(encrypted)
    /\ pc' = "decrypt"
    /\ UNCHANGED <<size, fileSize, encrypted, stored>>

DecryptLosingBlock ==
    /\ pc = "decrypt"
    /\ stored' = fileSize - Block
    /\ pc' = "stored"
    /\ UNCHANGED <<size, fileSize, encrypted, contentSize>>

\* The server decrypts what it got.  Without its last block there is no
\* padding to remove; then the client waits for ever.
Decrypt ==
    /\ pc = "decrypt"
    /\ \/ /\ contentSize = encrypted
          /\ stored' = fileSize
          /\ pc' = "stored"
       \/ /\ contentSize # encrypted
          /\ pc' = "unanswered"
          /\ UNCHANGED stored
    /\ UNCHANGED <<size, fileSize, encrypted, contentSize>>

Next == ReadFile \/ Encrypt \/ SendItem \/ Decrypt

Spec == Init /\ [][Next]_vars

-----------------------------------------------------------------------------
\* Every variable has its type.
TypeOK ==
    /\ pc \in {"read", "encrypt", "send", "decrypt", "stored", "unanswered"}
    /\ size \in Sizes
    /\ fileSize \in 0 .. Word - 1
    /\ encrypted \in Nat
    /\ contentSize \in 0 .. Word - 1
    /\ stored \in Nat \cup {-1}

\* A file that fits.
Fits(n) == n < Word - Block

\* A file that fits with its padding is stored whole: the client "encrypts a
\* file he wants to send to server with AES key, and sends the encypted file"
\* (README.md:11).  Above that the code cuts the file, and both ends agree on
\* the checksum of its beginning (client.cpp:382), or what is announced is too
\* short to be decrypted (fileitem.cpp:29).  That the one recv of the server
\* (server.py:506) gets all that was sent is assumed here; Framing has that it
\* may get less.
FittingStored ==
    Fits(size) => /\ pc = "stored" => stored = size
                  /\ pc # "unanswered"
=============================================================================
