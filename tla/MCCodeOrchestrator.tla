-------------------------- MODULE MCCodeOrchestrator --------------------------
(* Three inputs: a container with a nested package that holds a payload and  *)
(* a loose entry beside it, and two leaves; chunks of one or two workers.    *)
EXTENDS CodeOrchestrator, TLC

CONSTANTS pack, inner, payload, loose, second, third

MCParent ==
    pack :> NoNode @@ second :> NoNode @@ third :> NoNode
    @@ inner :> pack @@ loose :> pack @@ payload :> inner
MCRank ==
    pack :> 1 @@ second :> 2 @@ third :> 3 @@ inner :> 1 @@ loose :> 2 @@ payload :> 1

Arg(skip, over, cont, pub, ts, sha, width) ==
    [skipSigned |-> skip, overwrite |-> over, continueOnError |-> cont, recurse |-> TRUE,
     publisher |-> pub, timestamp |-> ts, sha256 |-> sha, maxConcurrency |-> width]

MCOptions ==
    {Arg(TRUE, FALSE, TRUE, TRUE, FALSE, TRUE, 2),
     Arg(FALSE, TRUE, FALSE, TRUE, FALSE, TRUE, 2),
     Arg(FALSE, FALSE, FALSE, FALSE, TRUE, TRUE, 1),
     [Arg(FALSE, FALSE, TRUE, FALSE, FALSE, FALSE, 2) EXCEPT !.recurse = FALSE],
     Arg(TRUE, FALSE, TRUE, TRUE, FALSE, TRUE, 0)}

Files(formats, traits) == [format : formats, trait : traits]

MCInputs ==
    {pack :> p @@ inner :> i @@ payload :> y @@ loose :> l @@ second :> s @@ third :> t :
        p \in Files({"Zip", "Msix", "Nuget"}, {"plain"}),
        i \in Files({"Nuget", "Vsix"}, {"plain", "signed"})
                \cup Files({"Upload"}, {"plain", "corrupt"}) \cup Files({"Bundle", "Zip"}, {"plain"}),
        y \in Files({"Pe"}, {"plain"}),
        l \in Files({"AppInstaller", "Manifest"}, {"plain", "signed"})
                \cup Files({"Pe"}, {"excluded"}),
        s \in Files({"AppInstaller"}, {"plain"}),
        t \in Files({"Deploy", "Unsupported"}, {"plain"})}
=============================================================================
