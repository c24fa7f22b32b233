--------------------------- MODULE CodeOrchestrator ---------------------------
(***************************************************************************)
(* `psign-tool code` (src/src/code.rs): plan a forest of files and archive  *)
(* entries, then sign it inside-out.  Top-level inputs run in batches of    *)
(* --max-concurrency worker threads; inside one input the entries of every  *)
(* archive are visited in archive order, and an archive is sealed (hashed,  *)
(* signed, repacked) after its entries.                                     *)
(*                                                                          *)
(* Bytes are abstracted to revisions: rev[n] = 0 is the input, 1 the bytes  *)
(* after this run rewrote them.  Formats of code.rs that take the same path *)
(* share a name here: "Pe" (Pe, Winmd), "Nuget" (Nuget, Snupkg), "Manifest" *)
(* (ClickOnceApplication, Vsto, Manifest), "Msix" (flat packages, whose     *)
(* block map lists every payload), "Bundle" (block map lists the bundle     *)
(* manifest only), "Upload" (a wrapper without a block map), "Unsupported"  *)
(* (everything that is recognised and refused: Cab, Msi, Script, encrypted  *)
(* packages, Business Central, .deploy of a non-PE file).                   *)
(***************************************************************************)
EXTENDS Integers, FiniteSets

CONSTANTS
    Node,      \* the selected files and the entries of their archives
    NoNode,    \* the parent of a selected file
    Parent,    \* Parent[n] is the archive that holds n
    Rank,      \* position of n in its archive, or of a selected file in the plan
    Inputs,    \* the forests to sign: format and trait of every node
    Options    \* the argument records the command may be called with

Top == {n \in Node : Parent[n] = NoNode}
Entries(n) == {c \in Node : Parent[c] = n}

CodeFormat == {"Pe", "Deploy", "Manifest", "AppInstaller", "Nuget", "Vsix", "Zip",
               "Msix", "Bundle", "Upload", "Unsupported", "Unknown"}
Container == {"Nuget", "Vsix", "Zip", "Msix", "Bundle", "Upload"}
AppxFamily == {"Msix", "Bundle", "Upload"}

(* "signed": carries a signature of its own kind (for an App Installer entry, *)
(* its .p7 companion); "corrupt": does not parse; "excluded": an entry that a *)
(* `!` pattern matches.                                                       *)
FileTrait == {"plain", "signed", "corrupt", "excluded"}

ArgsType == [skipSigned : BOOLEAN, overwrite : BOOLEAN, continueOnError : BOOLEAN,
             recurse : BOOLEAN, publisher : BOOLEAN, timestamp : BOOLEAN,
             sha256 : BOOLEAN, maxConcurrency : Nat]

ASSUME ForestAssumption ==
    /\ NoNode \notin Node
    /\ Parent \in [Node -> Node \cup {NoNode}]
    /\ \A n \in Node : Parent[n] # n
    /\ Rank \in [Node -> Nat \ {0}]

(* The selected files come out of a BTreeSet (code.rs:2899): the plan numbers *)
(* them without gaps, and the entries of an archive have distinct indices.    *)
ASSUME RankAssumption ==
    /\ IsFiniteSet(Top)
    /\ {Rank[n] : n \in Top} = 1 .. Cardinality(Top)
    /\ \A m, n \in Node : (m # n /\ Parent[m] = Parent[n]) => Rank[m] # Rank[n]

FileType == [format : CodeFormat, trait : FileTrait]

ASSUME InputAssumption ==
    /\ Inputs \subseteq [Node -> FileType]
    /\ \A f \in Inputs, n \in Top : f[n].trait # "excluded"
    /\ \A f \in Inputs, n \in Node : Entries(n) # {} => f[n].format \in Container

(* clap refuses --overwrite together with --skip-signed (cli.rs:128).         *)
ASSUME OptionsAssumption ==
    /\ Options \subseteq ArgsType
    /\ \A o \in Options : ~(o.skipSigned /\ o.overwrite)

VARIABLES
    args,      \* the CodeArgs of this run
    file,      \* format and trait of every node
    phase,     \* "start" | "planned" | "sign" | "exited"
    exit,      \* "none" | "zero" | "one" | "error" (an Err returned to main)
    planned,   \* the nodes listed in the plan
    next,      \* top-level nodes up to this rank have been collected
    st,        \* progress of every node
    rev,       \* revision of the bytes of every node
    own,       \* revision of the publisher manifest inside n (or of n itself)
    cover,     \* cover[n][m]: revision of m that n's signature or block map hashes
    out,       \* what is at the output path of a top-level node
    lines      \* the report line pushed for a top-level node

vars == <<args, file, phase, exit, planned, next, st, rev, own, cover, out, lines>>
input == <<args, file>>
content == <<rev, own, cover>>

NodeState == {"idle", "queued", "open", "signed", "kept", "left", "failed"}
Done == {"signed", "kept", "left"}
Uncovered == 2

TypeOK ==
    /\ args \in ArgsType
    /\ file \in [Node -> FileType]
    /\ phase \in {"start", "planned", "sign", "exited"}
    /\ exit \in {"none", "zero", "one", "error"}
    /\ planned \subseteq Node
    /\ next \in Nat
    /\ st \in [Node -> NodeState]
    /\ rev \in [Node -> {0, 1}]
    /\ own \in [Node -> {0, 1}]
    /\ cover \in [Node -> [Node -> {0, 1, Uncovered}]]
    /\ out \in [Top -> {"none", "descriptor", "partial", "written"}]
    /\ lines \in [Top -> {"none", "ok", "failed"}]

Init ==
    /\ args \in Options
    /\ file \in Inputs
    /\ phase = "start"
    /\ exit = "none"
    /\ planned = {}
    /\ next = 0
    /\ st = [n \in Node |-> "idle"]
    /\ rev = [n \in Node |-> 0]
    /\ own = [n \in Node |-> 0]
    /\ cover = [n \in Node |-> [m \in Node |-> Uncovered]]
    /\ out = [n \in Top |-> "none"]
    /\ lines = [n \in Top |-> "none"]

-----------------------------------------------------------------------------
(* Planning.                                                                *)

Nested(n) == Parent[n] # NoNode
Is(n, formats) == file[n].format \in formats
Has(n, trait) == file[n].trait = trait

(* The archives around n, from the inside out.                              *)
Ancestors[n \in Node] ==
    IF Parent[n] = NoNode THEN {} ELSE {Parent[n]} \cup Ancestors[Parent[n]]

(* inspect_zip_entries lists an entry unless a pattern excludes it or its   *)
(* format is unknown; a selected file is always listed.                     *)
Lists(n) == Nested(n) => ~Has(n, "excluded") /\ ~Is(n, {"Unknown"})

(* add_node_from_reader descends into every container it lists, a nested    *)
(* .zip included.                                                           *)
PlanNodes ==
    {n \in Node : /\ Lists(n)
                  /\ \A a \in Ancestors[n] : args.recurse /\ Is(a, Container) /\ Lists(a)}

PlanUnreadable ==
    args.recurse /\ \E n \in PlanNodes : Is(n, Container) /\ Has(n, "corrupt")

(* build_code_plan.  --dry-run would print the plan and stop here.          *)
BuildPlan ==
    /\ phase = "start"
    /\ args.maxConcurrency # 0
    /\ ~PlanUnreadable
    /\ planned' = PlanNodes
    /\ phase' = "planned"
    /\ UNCHANGED <<input, exit, next, st, content, out, lines>>

(* `?` on the first container that cannot be listed ends the command, with  *)
(* or without --continue-on-error.                                          *)
PlanFails ==
    /\ phase = "start"
    /\ args.maxConcurrency = 0 \/ PlanUnreadable
    /\ phase' = "exited"
    /\ exit' = "error"
    /\ UNCHANGED <<input, planned, next, st, content, out, lines>>

(* The head of execute_code_plan: one signer, an --output, a supported      *)
(* digest.                                                                  *)
ResolveSigner ==
    /\ phase = "planned"
    /\ \/ phase' = "sign" /\ exit' = exit
       \/ phase' = "exited" /\ exit' = "error"
    /\ UNCHANGED <<input, planned, next, st, content, out, lines>>

-----------------------------------------------------------------------------
(* One worker: execute_node and, below it, sign_nested_package_entries.     *)

(* n is what its worker looks at next: the input itself once spawned, or the *)
(* first unfinished entry of an open archive.                               *)
Ready(n) ==
    IF Nested(n)
    THEN /\ st[n] = "idle"
         /\ st[Parent[n]] = "open"
         /\ \A m \in Entries(Parent[n]) : Rank[m] < Rank[n] => st[m] \in Done
    ELSE st[n] = "queued"

(* Entries the match of sign_nested_package_entries does not name.          *)
Ignored(n) == Nested(n) /\ (Has(n, "excluded") \/ Is(n, {"Unknown", "Zip"}))

(* --skip-signed returns the bytes as they are for these formats; an entry  *)
(* that is a signed manifest is not among them.                             *)
Keeps(n) ==
    /\ args.skipSigned
    /\ Has(n, "signed")
    /\ Is(n, {"Pe", "Nuget", "Vsix"}) \/ (Is(n, {"Manifest"}) /\ ~Nested(n))

(* Conditions that fail a node before anything below it is signed.          *)
Refused(n) ==
    \/ Has(n, "corrupt")
    \/ Is(n, {"Unsupported", "Unknown"})
    \/ Is(n, AppxFamily) /\ Has(n, "signed")
    \/ Is(n, {"Manifest"}) /\ args.timestamp
    \/ Is(n, {"Manifest"}) /\ Nested(n) /\ args.skipSigned /\ Has(n, "signed")
    \/ Is(n, {"Pe", "Deploy"}) /\ ~args.sha256
    \/ Is(n, {"AppInstaller"}) /\ Nested(n) /\ Has(n, "signed") /\ ~args.overwrite

(* --publisher-name is handed down through ZIP and MSIX archives, but the    *)
(* NuGet and VSIX signers pass None to their entries.                       *)
PublisherReaches(n) ==
    args.publisher /\ \A a \in Ancestors[n] : ~Is(a, {"Nuget", "Vsix"})

Signable(n) == ~Ignored(n) /\ ~Keeps(n) /\ ~Refused(n)

Leave(n) ==
    /\ phase = "sign"
    /\ Ready(n)
    /\ Ignored(n)
    /\ st' = [st EXCEPT ![n] = "left"]
    /\ UNCHANGED <<input, phase, exit, planned, next, content, out, lines>>

Keep(n) ==
    /\ phase = "sign"
    /\ Ready(n)
    /\ ~Ignored(n)
    /\ Keeps(n)
    /\ st' = [st EXCEPT ![n] = "kept"]
    /\ UNCHANGED <<input, phase, exit, planned, next, content, out, lines>>

Refuse(n) ==
    /\ phase = "sign"
    /\ Ready(n)
    /\ ~Ignored(n) /\ ~Keeps(n) /\ Refused(n)
    /\ st' = [st EXCEPT ![n] = "failed"]
    /\ UNCHANGED <<input, phase, exit, planned, next, content, out, lines>>

(* A selected .appinstaller with --publisher-name: the updated descriptor is *)
(* written to the output directory before the companion is signed.          *)
WritesDescriptor(n) ==
    ~Nested(n) /\ Is(n, {"AppInstaller"}) /\ args.publisher

WriteDescriptor(n) ==
    /\ phase = "sign"
    /\ Ready(n)
    /\ Signable(n)
    /\ WritesDescriptor(n)
    /\ out[n] = "none"
    /\ out' = [out EXCEPT ![n] = "descriptor"]
    /\ own' = [own EXCEPT ![n] = 1]
    /\ UNCHANGED <<input, phase, exit, planned, next, st, rev, cover, lines>>

(* What the detached signature of an App Installer descriptor hashes.       *)
DescriptorRevision(n) == IF PublisherReaches(n) THEN 1 ELSE 0

(* sign_pe_bytes, sign_clickonce_deploy_bytes, sign_clickonce_manifest_bytes *)
(* and the App Installer companion, timestamp included.                     *)
SignLeaf(n) ==
    /\ phase = "sign"
    /\ Ready(n)
    /\ Signable(n)
    /\ ~Is(n, Container)
    /\ ~Nested(n) /\ WritesDescriptor(n) => out[n] = "descriptor"
    /\ st' = [st EXCEPT ![n] = "signed"]
    /\ IF Is(n, {"AppInstaller"})
       THEN /\ own' = [own EXCEPT ![n] = DescriptorRevision(n)]
            /\ rev' = [rev EXCEPT ![n] = 1]
            /\ cover' = [cover EXCEPT ![n][n] = DescriptorRevision(n)]
       ELSE /\ rev' = [rev EXCEPT ![n] = 1]
            /\ UNCHANGED <<own, cover>>
    /\ UNCHANGED <<input, phase, exit, planned, next, out, lines>>

Open(n) ==
    /\ phase = "sign"
    /\ Ready(n)
    /\ Signable(n)
    /\ Is(n, Container)
    /\ st' = [st EXCEPT ![n] = "open"]
    /\ UNCHANGED <<input, phase, exit, planned, next, content, out, lines>>

(* Bug: the archive is sealed while later entries are still to be visited.   *)
BugVisitedEarly(n) == st[n] = "open" /\ \A c \in Entries(n) : st[c] \notin {"open", "failed"}

(* Every entry of the open archive n has been visited.                      *)
Visited(n) == st[n] = "open" /\ \A c \in Entries(n) : st[c] \in Done

(* The package signature that would have to be replaced.                    *)
AlreadySigned(n) ==
    Is(n, {"Nuget", "Vsix"}) /\ Has(n, "signed") /\ ~args.overwrite

(* What the signature or block map written by Seal hashes: the NuGet and     *)
(* VSIX signatures and the flat block map cover every entry as it is after  *)
(* nested signing, the bundle block map the bundle manifest only.           *)
Hashed(n) ==
    IF Is(n, {"Nuget", "Vsix", "Msix"}) THEN Entries(n) ELSE {}

(* update_msix_manifest_publisher_bytes runs before the block map is built.  *)
ManifestRevision(n) ==
    IF Is(n, AppxFamily) /\ PublisherReaches(n) THEN 1 ELSE own[n]

(* Bug: the block map is built before the publisher of the manifest changes. *)
BugBlockMapFirst(n, m) == IF m = n THEN own[n] ELSE rev[m]

(* The revision of m that the signature or block map of n hashes.            *)
HashedRevision(n, m) == IF m = n THEN ManifestRevision(n) ELSE rev[m]

(* An archive with no update is returned as it is: sign_zip_container_bytes, *)
(* or an upload wrapper without publisher.                                  *)
Repacked(n) ==
    \/ Is(n, {"Nuget", "Vsix", "Msix", "Bundle"})
    \/ ManifestRevision(n) # own[n]
    \/ \E c \in Entries(n) : st[c] \in {"signed", "kept"}

Seal(n) ==
    /\ phase = "sign"
    /\ Visited(n)
    /\ ~AlreadySigned(n)
    /\ st' = [st EXCEPT ![n] = "signed"]
    /\ own' = [own EXCEPT ![n] = ManifestRevision(n)]
    /\ rev' = [rev EXCEPT ![n] = IF Repacked(n) THEN 1 ELSE 0]
    /\ cover' = [cover EXCEPT ![n] =
                    [m \in Node |-> IF m \in Hashed(n) \cup {n}
                                    THEN HashedRevision(n, m)
                                    ELSE Uncovered]]
    /\ UNCHANGED <<input, phase, exit, planned, next, out, lines>>

(* The signer or the timestamp service fails, a package signature exists and *)
(* --overwrite was not given, or an entry below failed: `?` returns the Err *)
(* and the remaining entries are not visited.                               *)
SignFails(n) ==
    /\ phase = "sign"
    /\ \/ Ready(n) /\ Signable(n) /\ ~Is(n, Container)
       \/ Visited(n)
       \/ st[n] = "open" /\ \E c \in Entries(n) : st[c] = "failed"
    /\ st' = [st EXCEPT ![n] = "failed"]
    /\ UNCHANGED <<input, phase, exit, planned, next, content, out, lines>>

-----------------------------------------------------------------------------
(* Outputs, batches and the exit code.                                      *)

(* execute_node has the bytes of the whole input in memory.                  *)
Finished(n) == st[n] \in {"signed", "kept"}

WriteOutput(n) ==
    /\ phase = "sign"
    /\ Finished(n)
    /\ out[n] \in {"none", "descriptor"}
    /\ out' = [out EXCEPT ![n] = "written"]
    /\ UNCHANGED <<input, phase, exit, planned, next, st, content, lines>>

(* std::fs::write fails part way.                                           *)
WriteFails(n) ==
    /\ phase = "sign"
    /\ Finished(n)
    /\ out[n] \in {"none", "descriptor"}
    /\ out' = [out EXCEPT ![n] = "partial"]
    /\ st' = [st EXCEPT ![n] = "failed"]
    /\ UNCHANGED <<input, phase, exit, planned, next, content, lines>>

(* top_nodes.chunks(max_concurrency): one chunk at a time.                  *)
Chunk == {n \in Top : next < Rank[n] /\ Rank[n] <= next + args.maxConcurrency}

Spawn ==
    /\ phase = "sign"
    /\ Chunk # {}
    /\ \A n \in Chunk : st[n] = "idle"
    /\ st' = [n \in Node |-> IF n \in Chunk THEN "queued" ELSE st[n]]
    /\ UNCHANGED <<input, phase, exit, planned, next, content, out, lines>>

(* Bug: a worker is taken as finished before its output is written.          *)
BugReturnedUnjoined(n) == st[n] \in {"failed", "signed", "kept"}
(* Bug: a worker that failed never reports back.                             *)
BugReturnedOkOnly(n) == out[n] = "written"
Returned(n) == st[n] = "failed" \/ out[n] = "written"

(* Bug: the raw state of the node is reported.                               *)
BugOutcomeRaw(n) == st[n]
Outcome(n) == IF st[n] = "failed" THEN "failed" ELSE "ok"

(* Bug: only the first result of the chunk is inspected.                     *)
BugChunkFailedFirst == \E n \in Chunk : Rank[n] = next + 1 /\ st[n] = "failed"
ChunkFailed == \E n \in Chunk : st[n] = "failed"

(* join of every handle of the chunk, then the results in plan order.       *)
Collect ==
    /\ phase = "sign"
    /\ Chunk # {}
    /\ \A n \in Chunk : Returned(n)
    /\ ChunkFailed => args.continueOnError
    /\ lines' = [n \in Top |-> IF n \in Chunk THEN Outcome(n) ELSE lines[n]]
    /\ next' = next + args.maxConcurrency
    /\ UNCHANGED <<input, phase, exit, planned, st, content, out>>

(* Without --continue-on-error the first Err of the chunk is returned, and  *)
(* the lines already pushed are dropped with it.                            *)
Abort ==
    /\ phase = "sign"
    /\ Chunk # {}
    /\ \A n \in Chunk : Returned(n)
    /\ ChunkFailed
    /\ ~args.continueOnError
    /\ phase' = "exited"
    /\ exit' = "error"
    /\ lines' = [n \in Top |-> "none"]
    /\ UNCHANGED <<input, planned, next, st, content, out>>

Finish ==
    /\ phase = "sign"
    /\ Chunk = {}
    /\ phase' = "exited"
    /\ exit' = IF \E n \in Top : lines[n] = "failed" THEN "one" ELSE "zero"
    /\ UNCHANGED <<input, planned, next, st, content, out, lines>>

Worker(n) ==
    \/ Leave(n) \/ Keep(n) \/ Refuse(n)
    \/ WriteDescriptor(n) \/ SignLeaf(n) \/ Open(n) \/ Seal(n) \/ SignFails(n)
Main == BuildPlan \/ PlanFails \/ ResolveSigner \/ Spawn \/ Collect \/ Abort \/ Finish
Next ==
    \/ Main
    \/ \E n \in Node : Worker(n)
    \/ \E n \in Top : WriteOutput(n) \/ WriteFails(n)

(* Worker threads are joined and every step of one is a bounded computation *)
(* or a blocking call with a timeout: each keeps running until it returns.  *)
Fairness ==
    /\ WF_vars(Main)
    /\ \A n \in Node : WF_vars(Worker(n))
    /\ \A n \in Top : WF_vars(WriteOutput(n) \/ WriteFails(n))

Spec == Init /\ [][Next]_vars
FairSpec == Spec /\ Fairness
-----------------------------------------------------------------------------
(* Properties.                                                              *)

(* Every package signature, block map and detached companion hashes the     *)
(* bytes its entries and its manifest end up with (inside-out signing by    *)
(* sign_nuget_bytes, sign_vsix_bytes, prepare_msix_family_bytes).           *)
InsideOut ==
    \A n \in Node : st[n] = "signed" =>
        /\ \A c \in Hashed(n) : cover[n][c] = rev[c]
        /\ Is(n, {"Msix", "Bundle", "AppInstaller"}) => cover[n][n] = own[n]

(* An archive is sealed only after each of its entries was signed, kept, or  *)
(* is one the executor ignores by rule: no entry is forgotten on any of the *)
(* early exits of sign_nested_package_entries.                              *)
NoEntryForgotten ==
    \A n \in Node : st[n] = "signed" =>
        \A c \in Entries(n) : st[c] \in {"signed", "kept"} \/ (st[c] = "left" /\ Ignored(c))

(* A package kept under --skip-signed keeps its own bytes and those of       *)
(* everything nested in it, so the signature it carries stays valid: its    *)
(* entries are idle, and an idle archive is untouched down to its leaves.   *)
KeptIsUntouched ==
    \A n \in Node : st[n] \in {"kept", "idle"} =>
        /\ rev[n] = 0 /\ own[n] = 0
        /\ \A c \in Entries(n) : st[c] = "idle"

(* A package-native signature present in the input is replaced only under   *)
(* --overwrite, although the check for it runs after nested signing.        *)
NoSilentReplacement ==
    \A n \in Node : (/\ Has(n, "signed")
                     /\ Is(n, {"Nuget", "Vsix"} \cup AppxFamily)
                     /\ rev[n] = 1) => args.overwrite

(* Every entry of a package comes to the end the options ask for: none is   *)
(* forgotten, a kept one is untouched, and a signature that was there is    *)
(* replaced under --overwrite only (sign_nested_package_entries).           *)
EveryEntryAccounted == NoEntryForgotten /\ KeptIsUntouched /\ NoSilentReplacement

(* Without --continue-on-error nothing of a later chunk is started once a    *)
(* top-level input failed; inputs of the same chunk may still finish.       *)
NoStartAfterFailure ==
    \A m, n \in Top :
        (~args.continueOnError /\ st[n] = "failed" /\ Rank[n] < Rank[m] /\ st[m] # "idle")
            => m \in Chunk /\ n \in Chunk

(* A normal return reports every input, "failed" exactly when it has no     *)
(* written output, and exits 0 exactly when none failed.                    *)
ReportIsFaithful ==
    exit \in {"zero", "one"} =>
        /\ \A n \in Top : lines[n] = (IF out[n] = "written" THEN "ok" ELSE "failed")
        /\ exit = "zero" <=> \A n \in Top : out[n] = "written"

(* A failed input has no finished output; only the updated descriptor of an  *)
(* App Installer file may be left without its companion.                    *)
FailureLeavesNoOutput ==
    \A n \in Top : st[n] = "failed" =>
        /\ out[n] # "written"
        /\ out[n] = "descriptor" => WritesDescriptor(n)

(* What the command says is what it did: the report and the exit code agree *)
(* with the outputs on disk, a failed input leaves no finished output, and  *)
(* without --continue-on-error a failure starts nothing new.                *)
OutcomesAreTrue == ReportIsFaithful /\ FailureLeavesNoOutput /\ NoStartAfterFailure

(* The command always returns: no order of worker steps leaves the join     *)
(* waiting.                                                                 *)
Terminates == <>(phase = "exited")

(* The command implements the batch contract, stopping early.               *)
BatchStatus ==
    [n \in Top |-> CASE st[n] = "idle" -> "pending"
                     [] st[n] = "failed" -> "failed"
                     [] st[n] \notin {"idle", "failed"} /\ out[n] = "written" -> "ok"
                     [] OTHER -> "busy"]
BatchResult ==
    CASE exit = "none" -> "running"
      [] exit = "zero" -> "success"
      [] exit = "one" -> "partial"
      [] exit = "error" -> "error"
Batch == INSTANCE BatchSigning WITH
            items <- Top, StopsEarly <- TRUE,
            continue <- args.continueOnError, status <- BatchStatus, result <- BatchResult
ImplementsBatch == Batch!BatchSpec

(* "Recurse into ZIP/OPC containers such as VSIX and NuGet packages."        *)
(* (cli.rs:94): when the command exits 0, whatever the plan lists, the plain *)
(* ZIP wrappers aside, was signed or kept, or is inside a package that was. *)
PlanIsCarriedOut ==
    exit = "zero" =>
        \A n \in planned :
            \/ Is(n, {"Zip"})
            \/ st[n] \in {"signed", "kept"}
            \/ \E a \in Ancestors[n] : st[a] = "kept"
=============================================================================
