-------------------------------- MODULE MCWinSign --------------------------------
(* Command blocks that use the shared slot and the shared variable, alone and *)
(* in a row: one after the other, two threads, and a width of 0.              *)
EXTENDS WinSign

Arg(kv, pinned, nph, cont, width) ==
    [parses |-> "yes", keyVault |-> kv, pinned |-> pinned, noPageHashes |-> nph,
     skipSigned |-> cont, continueOnError |-> cont, azureExit |-> TRUE, width |-> width]

(* A block that clap answers itself after one that may have failed.           *)
Answered(p) == [Arg(FALSE, FALSE, FALSE, FALSE, 1) EXCEPT !.parses = p]

MCScripts ==
    {<<Arg(TRUE, p, TRUE, FALSE, w)>> : p \in BOOLEAN, w \in {1, 2}}
        \cup {<<Arg(FALSE, FALSE, TRUE, TRUE, w), Arg(k, FALSE, FALSE, FALSE, 1)>> :
                w \in {0, 1, 2}, k \in BOOLEAN}
        \cup {<<Arg(TRUE, FALSE, FALSE, TRUE, 1), Arg(FALSE, FALSE, TRUE, TRUE, 1)>>}
        \cup {<<Arg(FALSE, FALSE, FALSE, TRUE, 1), Answered(p), Arg(FALSE, FALSE, TRUE, TRUE, 1)>> :
                p \in {"usage", "help"}}
=============================================================================
