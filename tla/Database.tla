------------------------------ MODULE Database ------------------------------
(***************************************************************************)
(* The SQLite database of the server, src/server/database.py.  Each method *)
(* opens a connection of its own and runs one transaction, so each is one  *)
(* operator on a table, applied in one step.                               *)
(*                                                                         *)
(* A table maps every possible primary key to its row or to None.  The     *)
(* columns public_key and last_seen are left out: no code reads them.      *)
(***************************************************************************)
EXTENDS Protocol

CONSTANT DbFaults   \* may a transaction fail?

ASSUME DbFaultsAssumption == DbFaults \in BOOLEAN

\* A missing row of "files" is not a row.
ASSUME RowAssumption == None \notin {"unverified", "verified"}

\* Every method swallows the exceptions of its transaction (those of connect get
\* out of it, see Server!Unreachable).  A failed SELECT makes the method return
\* None, which its callers take for False ...
Selected(found) == IF DbFaults THEN {found, FALSE} ELSE {found}

\* ... and a failed INSERT, UPDATE or DELETE is reported to nobody.
Committed(new, old) == IF DbFaults THEN {new, old} ELSE {new}

-----------------------------------------------------------------------------
(* TABLE clients, by client_id *)

NamedRows(clients, name) ==
    {i \in Ids : clients[i] # None /\ clients[i].name = name}

client_exists_unchecked(clients, name) == {FALSE}

client_exists_by_name(clients, name) == Selected(NamedRows(clients, name) # {})

client_exists_by_id(clients, id) == Selected(clients[id] # None)

insert_uncommitted(clients, id, name) == {clients}

insert_replacing(clients, id, name) ==
    {[i \in Ids |-> IF i = id THEN [name |-> name, AES_key |-> None]
                    ELSE IF i \in NamedRows(clients, name) THEN None ELSE clients[i]]}

\* The table has no UNIQUE constraint on client_name.
insert_new_client(clients, id, name) ==
    Committed([clients EXCEPT ![id] = [name |-> name, AES_key |-> None]], clients)

insert_keys_once(clients, name, key) ==
    {[i \in Ids |-> IF i \in NamedRows(clients, name) /\ clients[i].AES_key = None
                    THEN [name |-> name, AES_key |-> key] ELSE clients[i]]}

\* The UPDATE selects by name, not by client id.
insert_keys_of_client(clients, name, key) ==
    Committed([i \in Ids |-> IF i \in NamedRows(clients, name)
                             THEN [name |-> name, AES_key |-> key]
                             ELSE clients[i]],
              clients)

get_aes_key_of_client(clients, id) ==
    (IF DbFaults THEN {None} ELSE {}) \cup
    {IF clients[id] = None THEN None ELSE clients[id].AES_key}

-----------------------------------------------------------------------------
(* TABLE files, by pathname *)

file_exists(files, path) == Selected(files[path] # None)

\* The pathname is the primary key: a second INSERT of it fails.
insert_file_details(files, path) ==
    Committed([files EXCEPT ![path] = IF @ = None THEN "unverified" ELSE @], files)

update_uncommitted(files, path, verified) == {files}

update_always_verified(files, path, verified) ==
    {[files EXCEPT ![path] = IF @ = None THEN None ELSE "verified"]}

update_cksum_verification(files, path, verified) ==
    Committed([files EXCEPT ![path] = IF @ = None THEN None ELSE verified], files)

delete_uncommitted(files, path) == {files}

delete_file_of_client(files, path) ==
    Committed([files EXCEPT ![path] = None], files)

DbTypeOK(clients, files) ==
    /\ clients \in [Ids -> ClientRow \cup {None}]
    /\ files \in [Paths -> {"unverified", "verified", None}]
=============================================================================
