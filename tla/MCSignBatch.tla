------------------------------ MODULE MCSignBatch ------------------------------
(* Three entries over two files, one of which has two spellings: a file may   *)
(* be signed twice, by equal or by different paths, next to another one.      *)
EXTENDS SignBatch, TLC

CONSTANTS a, alias, b, fileA, fileB

MCIdentity == a :> fileA @@ alias :> fileA @@ b :> fileB

Once(p) == [path |-> p, once |-> TRUE]
Each(p) == [path |-> p, once |-> FALSE]
MCRequests ==
    {<<Each(a), Each(alias), Each(b)>>, <<Each(a), Each(b), Each(a)>>,
     <<Once(a), Once(b), Once(alias)>>, <<Once(alias), Each(a), Once(a)>>}

Arg(route, skip, append, cont, azure, width) ==
    [route |-> route, skipSigned |-> skip, append |-> append,
     continueOnError |-> cont, azureExit |-> azure, width |-> width]
MCOptions ==
    {Arg(r, s, ap, c, TRUE, 2) : r \in {"local", "artifact"}, s, ap, c \in BOOLEAN}
        \cup {Arg("local", FALSE, TRUE, FALSE, FALSE, 1), Arg("local", TRUE, FALSE, TRUE, FALSE, 0),
              Arg("artifact", TRUE, FALSE, TRUE, FALSE, 1)}

Plain == [whole |-> TRUE, by |-> {}, bound |-> FALSE]
Good == [whole |-> TRUE, by |-> {Prior}, bound |-> TRUE]
Stale == [whole |-> TRUE, by |-> {Prior}, bound |-> FALSE]

MCDisks ==
    {fileA :> x @@ fileB :> y :
        x \in [format : {"pe", "peother", "msix"}, content : {Plain, Good, Stale}]
              \cup [format : {"cab", "appinstaller"}, content : {Plain, Stale}],
        y \in [format : {"vsix", "script", "unsupported"}, content : {Plain}]
              \cup [format : {"pe"}, content : {Plain, Good}]}
=============================================================================
