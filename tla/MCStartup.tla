------------------------------ MODULE MCStartup ------------------------------
(***************************************************************************)
(* An instance of Startup for TLC: every kind of port text at its bounds,  *)
(* and transfer.info cut off after each of its lines, with and without the *)
(* last line end.  Ports end at 15 and the numbers of stoi at 40.          *)
(***************************************************************************)
EXTENDS Startup

SomeTexts ==
    {Text(n, FALSE) : n \in {None, -3, 0, 5, 7, 15, 16, 40, 41}} \cup {Text(n, TRUE) : n \in {None, 5, 16}}

SomePortInfos == SomeTexts \cup Unusable \cup {None}

SomeAddresses ==
    {Address(h, TRUE, t) : h \in {"local", "malformed"}, t \in SomeTexts}
      \cup {Address("remote", TRUE, Text(5, FALSE))}
      \cup {Address("malformed", FALSE, Text(n, FALSE)) : n \in {None, -21, -3, 5, 57, 400}}
      \cup {Address("local", FALSE, Text(12, TRUE))}

\* No port, the default one, another one, and all of them.
SomeTaken == {{}, {7}, {5}, 1..MAX_PORT}

SomeTransferInfos ==
    {None} \cup UNION {{<<a>>, <<a, Nothing>>, <<a, Name>>, <<a, Name, Nothing>>,
                        <<a, Name, Path(TRUE)>>, <<a, Name, Path(TRUE), Nothing>>} : a \in SomeAddresses}
=============================================================================
