------------------------------ MODULE MCContent ------------------------------
(***************************************************************************)
(* An instance of Content for TLC, with words of 320 values.  Files: the   *)
(* empty one; every file of one byte, which takes the register through the *)
(* whole table; some that end on, before and after a buffer of the server; *)
(* some whose length takes a second byte; the last that fits with its      *)
(* padding, and some that are too long, one by a padding and one by far.   *)
(* Edits: of the first and the last byte of a buffer of the server, and of *)
(* one that is far from both.                                              *)
(***************************************************************************)
EXTENDS Content

Lengths == {0, 1, 2, 99, 100, 101, 200, 255, 256, 257, 300, 303, 304, 319, 320, 321, 420}

Ramp(len) == [i \in 1..len |-> (i * 7) % 256]

SomeFiles == {<<byte>> : byte \in 0..255} \cup {Ramp(len) : len \in Lengths}

SomeEdits == [place : {1, 100, 101, 256}, byte : {0, 173}]
=============================================================================
