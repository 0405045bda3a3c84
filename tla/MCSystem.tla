------------------------------ MODULE MCSystem ------------------------------
(***************************************************************************)
(* Small instances of System for TLC: the values that its configurations   *)
(* give to the constants.                                                  *)
(***************************************************************************)
EXTENDS StoreRefinement, TLC

CONSTANTS r1, r2, r3, h1, h2, alice, bob, f1, c1, c2

\* Which directory each run is started in.
OneHost == [p \in Runs |-> h1]
TwoHosts == [p \in Runs |-> IF p = r2 THEN h2 ELSE h1]

\* The name in the transfer.info of each directory.
SameName == [h \in Hosts |-> alice]
OwnName == [h \in Hosts |-> IF h = h1 THEN alice ELSE bob]

\* With one host and one name the runs are interchangeable.
AnyOrder == Permutations(Runs)

\* No collisions: a checksum is represented by what it is computed from.
AllSums == Blobs
NoCollision == [b \in Blobs |-> b]
=============================================================================
