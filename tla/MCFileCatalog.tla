---------------------------- MODULE MCFileCatalog ----------------------------
(* A small tree for FileCatalog: an image in the root, a text and an image in *)
(* a directory, two names that differ in case only, and the catalog beside    *)
(* the files it lists.                                                        *)
EXTENDS FileCatalog

CONSTANTS leaf, ca

MCX509 ==
    leaf :> [subject |-> "leaf", issuer |-> "ca", ca |-> FALSE, code |-> TRUE] @@
    ca :> [subject |-> "ca", issuer |-> "ca", ca |-> TRUE, code |-> TRUE]

Text(x) == [fmt |-> "text", data |-> <<Cell("code", x)>>]

(* An image of n cells behind its header.                                     *)
Image(n) == [fmt |-> "pe", hdr |-> "mz", ptr |-> 0, size |-> 0,
             data |-> [i \in 1..n |-> Cell("code", "i")]]

(* An image with a cell of its owner's behind its table.                      *)
Trailed(x) == [fmt |-> "pe", hdr |-> "mz", ptr |-> 4, size |-> 2,
               data |-> <<Cell("code", "i"), Cell("code", "i"), Cell("fill", ""), Cell("fill", ""),
                          Cell("code", x)>>]

MCDirs == {<<>>, <<"d">>}
MCCwd == <<>>
MCCatPath == <<"d", "cat">>
MCToLower == [n \in {"a", "b", "A", "d", "cat"} |-> IF n = "A" THEN "a" ELSE n]
MCTree ==
    <<"a">> :> Image(2) @@ <<"d", "A">> :> Text("x") @@ <<"d", "b">> :> Image(1)
MCTexts == {Text("y"), Image(2), Trailed("x"), Trailed("y")}
MCPathLists ==
    {<<>>, <<<<"d">>>>, <<<<"a">>, <<"d">>>>, <<<<"a">>>>, <<<<"d", "A">>, <<"d", "b">>>>,
     <<<<"a">>, <<"d", "b">>>>, <<<<"a">>, <<"a">>>>}
MCSkipLists == {{}, {<<"d", "b">>}, {<<"a">>}}

MCRequests ==
    {[alg |-> "sha256", append |-> FALSE, skip |-> FALSE, tsa |-> tsa,
      material |-> [given |-> {"artifact"}, form |-> "pkcs7", layers |-> 0, bag |-> {leaf, ca},
                    chain |-> <<>>, key |-> leaf]] : tsa \in {"granted", "refused"}}
=============================================================================
