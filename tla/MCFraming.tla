------------------------------ MODULE MCFraming ------------------------------
(***************************************************************************)
(* Small instances of Framing for TLC.  As in the program, a file name is  *)
(* longer than a header, and the content is longer than either.            *)
(***************************************************************************)
EXTENDS Framing

FewBytes == [part \in Parts |->
    CASE part \in Requests -> 2
      [] part \in {"name", "badname", "filename", "otherfile", "samename"} -> 3
      [] part = "content" -> 4
      [] part \in Responses -> 3
      [] part \in {"payload", "cipher", "sum", "othersum"} -> 2
      [] OTHER -> 1]

\* Nothing is split, but keys and files are lost.
Whole == [split |-> FALSE, short |-> {}, faults |-> {"key", "reload"}]
\* Responses are read in part.
ShortResponses == [split |-> FALSE, short |-> ClientReads, faults |-> {"key", "reload"}]
\* Handlers end before they have read their request.
Unread == [split |-> FALSE, short |-> {}, faults |-> {"name", "reload", "key", "select"}]
\* Everything goes wrong that may.
Anything == [split |-> TRUE, short |-> SessionReads \cup ClientReads \cup {"write"},
             faults |-> {"name", "reload", "key", "select"}]

SomeNetworks == {Whole, ShortResponses, Unread, Anything}
=============================================================================
