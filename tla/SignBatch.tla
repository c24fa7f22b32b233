------------------------------- MODULE SignBatch -------------------------------
(***************************************************************************)
(* `psign-tool --mode portable sign` (src/src/portable_sign.rs over          *)
(* crates/psign-portable-core): targets are signed in place by a pool of     *)
(* threads.  Each one goes through a temporary file beside the target:       *)
(* skip check, sign into the temporary, self-check, copy over the target     *)
(* (truncate, then write), remove the temporary.                             *)
(*                                                                          *)
(* An operation is a position of the target list; the same file may be       *)
(* named several times and through several paths.  A file is abstracted to   *)
(* whether it is whole, which operations' signatures it carries (0 is one    *)
(* it had before the run) and whether its digests match them.                *)
(***************************************************************************)
EXTENDS Naturals, FiniteSets

CONSTANTS
    Path,        \* spellings of target paths
    File,        \* the files they name
    Identity,    \* Identity[p]: what std::fs::canonicalize makes of p
    MaxTargets,  \* bound: entries of the file list and the command line
    Requests,    \* the target lists the command may be given
    Options,     \* the argument records it may be given
    Disks        \* the files it may find

Entry == 1 .. MaxTargets
Prior == 0

(* Formats that take the same way share a name: "pe" (the extensions of      *)
(* is_pe_winmd_extension), "peother" (.scr, .cpl, .mui: PE for infer_format  *)
(* only), "loose" (ClickOnce manifest) and "appinstaller" are self-checked   *)
(* by presence only, "nuget" (NuGet, ZIP), "unsupported" (catalog, WSH,      *)
(* uploads, encrypted, unknown).                                             *)
Format == {"pe", "peother", "cab", "msi", "msix", "vsix", "nuget", "script", "loose",
           "appinstaller", "unsupported"}

(* Azure Key Vault takes the local way with another provider.                *)
ArgsType == [route : {"local", "artifact"}, skipSigned : BOOLEAN, append : BOOLEAN,
             continueOnError : BOOLEAN, azureExit : BOOLEAN, width : Nat]
Content == [whole : BOOLEAN, by : SUBSET (Entry \cup {Prior}), bound : BOOLEAN]
FileType == [format : Format, content : Content]
Temp == [made : BOOLEAN, skipped : BOOLEAN, content : Content]

Gone == [whole |-> FALSE, by |-> {}, bound |-> FALSE]
NoTemp == [made |-> FALSE, skipped |-> FALSE, content |-> Gone]

(* Hard links are outside the model: canonicalize gives each its own name.   *)
ASSUME PathAssumption == Identity \in [Path -> File]
ASSUME RequestAssumption ==
    /\ MaxTargets \in Nat
    /\ Requests \subseteq [Entry -> [path : Path, once : BOOLEAN]]
    /\ Options \subseteq ArgsType
    /\ Disks \subseteq [File -> FileType]
    /\ \A d \in Disks, f \in File :
        d[f].content.whole /\ d[f].content.by \subseteq {Prior}

VARIABLES
    args,     \* SignArgs
    request,  \* the listed paths; once: from a list file or a glob
    found,    \* format and content of every file when the command starts
    disk,     \* the content of every file now
    tmp,      \* tmp[p]: the file at temporary_output_path(p)
    stuck,    \* ghost: the paths whose temporary file could not be removed
    pc,       \* where each operation is
    res,      \* what it returned
    phase,    \* "start" | "run" | "exited"
    exit      \* "none" | "zero" | "one" | "partial" | "allFailed" | "error"

vars == <<args, request, found, disk, tmp, stuck, pc, res, phase, exit>>
given == <<args, request, found>>

Pc == {"waiting", "skip", "sign", "check", "copy", "copying", "companion",
       "companionCopying", "cleanup", "done"}

TypeOK ==
    /\ args \in ArgsType
    /\ request \in [Entry -> [path : Path, once : BOOLEAN]]
    /\ found \in [File -> FileType]
    /\ disk \in [File -> Content]
    /\ tmp \in [Path -> Temp]
    /\ stuck \subseteq Path
    /\ pc \in [Entry -> Pc]
    /\ res \in [Entry -> {"none", "skipped", "signed", "failed"}]
    /\ phase \in {"start", "run", "exited"}
    /\ exit \in {"none", "zero", "one", "partial", "allFailed", "error"}

Init ==
    /\ args \in Options
    /\ request \in Requests
    /\ found \in Disks
    /\ disk = [f \in File |-> found[f].content]
    /\ tmp = [p \in Path |-> NoTemp]
    /\ stuck = {}
    /\ pc = [o \in Entry |-> "waiting"]
    /\ res = [o \in Entry |-> "none"]
    /\ phase = "start"
    /\ exit = "none"

-----------------------------------------------------------------------------
(* The batch.                                                                *)

PathOf(o) == request[o].path
Target(o) == Identity[PathOf(o)]
Is(o, formats) == found[Target(o)].format \in formats

(* expand_sign_targets: listed and globbed files once each, paths of the     *)
(* command line as often as they are given.                                  *)
Ops == {o \in Entry : request[o].once =>
            ~\E i \in Entry : i < o /\ request[i].once /\ Target(i) = Target(o)}

HasDuplicates == \E o, i \in Ops : i # o /\ Target(i) = Target(o)

(* Bug: targets are compared as they are spelled.                            *)
BugParallelBySpelling ==
    args.width # 1 /\ ~\E o, i \in Ops : i # o /\ PathOf(i) = PathOf(o)

(* execute_sign_batch: a file named twice makes the whole batch sequential.  *)
Parallel == args.width # 1 /\ ~HasDuplicates

Running == {o \in Ops : pc[o] \notin {"waiting", "done"}}

(* sign_file: options are validated and the identity resolved, or the        *)
(* command fails before any target is touched.                               *)
Prepare ==
    /\ phase = "start"
    /\ \/ args.width # 0 /\ phase' = "run" /\ exit' = exit
       \/ phase' = "exited" /\ exit' = "error"
    /\ UNCHANGED <<given, disk, tmp, stuck, pc, res>>

Begin(o) ==
    /\ phase = "run"
    /\ o \in Ops
    /\ pc[o] = "waiting"
    /\ IF Parallel
       THEN Cardinality(Running) < args.width
       ELSE \A i \in Ops : i < o => pc[i] = "done"
    /\ pc' = [pc EXCEPT ![o] = "skip"]
    /\ UNCHANGED <<given, disk, tmp, stuck, res, phase, exit>>

Signed(c) == c.whole /\ c.by # {}
Consistent(c) == Signed(c) /\ c.bound

(* Bug: packages are never looked at, as for the formats without a check.    *)
BugSkipsTarget(o) ==
    /\ args.skipSigned
    /\ Is(o, {"pe"}) /\ Consistent(disk[Target(o)])

(* target_should_skip_signed.  A PE whose signature does not match is an     *)
(* error, and so is one that does not parse.                                 *)
SkipsTarget(o) ==
    /\ args.skipSigned
    /\ \/ Is(o, {"pe", "msix"}) /\ Consistent(disk[Target(o)])
       \/ Is(o, {"cab", "msi"}) /\ Signed(disk[Target(o)])
SkipCheckFails(o) ==
    /\ args.skipSigned
    /\ Is(o, {"pe"})
    /\ ~disk[Target(o)].whole \/ (Signed(disk[Target(o)]) /\ ~disk[Target(o)].bound)

Return(o, r) ==
    /\ pc' = [pc EXCEPT ![o] = "done"]
    /\ res' = [res EXCEPT ![o] = r]

SkipCheck(o) ==
    /\ pc[o] = "skip"
    /\ CASE SkipsTarget(o) -> Return(o, "skipped")
         [] SkipCheckFails(o) -> Return(o, "failed")
         [] OTHER -> pc' = [pc EXCEPT ![o] = "sign"] /\ res' = res
    /\ UNCHANGED <<given, disk, tmp, stuck, phase, exit>>

-----------------------------------------------------------------------------
(* One target.                                                               *)

Artifact == args.route = "artifact"

(* validate_portable_core_target and the match of                            *)
(* sign_one_target_artifact_signing.                                         *)
Supported(o) ==
    /\ ~Is(o, {"unsupported"})
    /\ args.append => Is(o, {"pe", "peother"})
    /\ Artifact => Is(o, {"pe", "cab", "msi", "msix", "script"})

(* sign_pe and sign_msix look again when the request carries skip_signed,    *)
(* which the Artifact Signing request does not; MSIX by presence only.       *)
CoreLooks == args.skipSigned /\ ~Artifact
CoreSkips(o) ==
    /\ CoreLooks
    /\ \/ Is(o, {"pe", "peother"}) /\ Consistent(disk[Target(o)])
       \/ Is(o, {"msix"}) /\ Signed(disk[Target(o)])

(* Embedders that refuse a file with a signature, and sign_pe one that does  *)
(* not match; a torn file does not parse.                                    *)
Embeddable(o) ==
    LET c == disk[Target(o)] IN
    /\ c.whole
    /\ Is(o, {"cab", "vsix"}) \/ (CoreLooks /\ Is(o, {"pe", "peother"})) => c.by = {}

SignedBy(o) == {o} \cup (IF args.append THEN disk[Target(o)].by ELSE {})

(* portable_sign up to the temporary output.  Whether the digests of what    *)
(* was embedded match is for the self-check to find out.                     *)
SignTemp(o) ==
    /\ pc[o] = "sign"
    /\ Supported(o)
    /\ \/ /\ CoreSkips(o)
          /\ tmp' = [tmp EXCEPT ![PathOf(o)] =
                [made |-> TRUE, skipped |-> TRUE, content |-> disk[Target(o)]]]
       \/ /\ ~CoreSkips(o)
          /\ Embeddable(o)
          /\ \E ok \in BOOLEAN : tmp' = [tmp EXCEPT ![PathOf(o)] =
                [made |-> TRUE, skipped |-> FALSE,
                 content |-> [whole |-> TRUE, by |-> SignedBy(o), bound |-> ok]]]
    /\ pc' = [pc EXCEPT ![o] = "check"]
    /\ UNCHANGED <<given, disk, stuck, res, phase, exit>>

(* An Err goes on to the removal of the temporary file.                      *)
Fail(o) ==
    /\ pc' = [pc EXCEPT ![o] = "cleanup"]
    /\ res' = [res EXCEPT ![o] = "failed"]
    /\ tmp' = tmp

(* Unsupported, already signed where that is refused, or the provider, the   *)
(* timestamp service or the write of the temporary fails.                    *)
SignFails(o) ==
    /\ pc[o] = "sign"
    /\ \/ Fail(o)
       \/ /\ Supported(o)
          /\ pc' = [pc EXCEPT ![o] = "cleanup"]
          /\ res' = [res EXCEPT ![o] = "failed"]
          /\ tmp' = [tmp EXCEPT ![PathOf(o)].made = TRUE]
    /\ UNCHANGED <<given, disk, stuck, phase, exit>>

(* The digest-cli runners of PE, CAB and MSI have no self-check.             *)
SelfChecked(o) == Artifact => Is(o, {"msix", "script"})

(* ensure_valid_signature_response over portable_get_signature.              *)
ValidResponse(o) ==
    \/ tmp[PathOf(o)].content.bound
    \/ Is(o, {"loose", "appinstaller"})
    \/ ~SelfChecked(o)

SelfCheck(o) ==
    /\ pc[o] = "check"
    /\ IF ValidResponse(o)
       THEN pc' = [pc EXCEPT ![o] = "copy"] /\ UNCHANGED <<res, tmp>>
       ELSE Fail(o)
    /\ UNCHANGED <<given, disk, stuck, phase, exit>>

(* std::fs::copy truncates the target before it writes; a failure to open    *)
(* leaves it as it was, a failure to write leaves it torn.                   *)
CopyOpen(o) ==
    /\ pc[o] = "copy"
    /\ \/ /\ pc' = [pc EXCEPT ![o] = "copying"]
          /\ disk' = [disk EXCEPT ![Target(o)].whole = FALSE]
          /\ UNCHANGED <<res, tmp>>
       \/ Fail(o) /\ disk' = disk
    /\ UNCHANGED <<given, stuck, phase, exit>>

(* Bug: the result of the copy is ignored.                                   *)
BugCopyIgnored(o) ==
    /\ pc[o] = "copying"
    /\ pc' = [pc EXCEPT ![o] = "cleanup"]
    /\ disk' = disk \/ disk' = [disk EXCEPT ![Target(o)] = tmp[PathOf(o)].content]
    /\ res' = [res EXCEPT ![o] = "signed"]
    /\ UNCHANGED <<given, tmp, stuck, phase, exit>>

(* An App Installer descriptor is copied unchanged; its signature is in the  *)
(* companion copied next.                                                    *)
CopyWrite(o) ==
    /\ pc[o] = "copying"
    /\ \/ /\ pc' = [pc EXCEPT ![o] = IF Is(o, {"appinstaller"}) THEN "companion" ELSE "cleanup"]
          /\ disk' = [disk EXCEPT ![Target(o)] =
                IF Is(o, {"appinstaller"}) THEN [@ EXCEPT !.whole = TRUE]
                ELSE tmp[PathOf(o)].content]
          /\ res' = [res EXCEPT ![o] = IF Is(o, {"appinstaller"}) THEN "none" ELSE "signed"]
          /\ tmp' = tmp
       \/ Fail(o) /\ disk' = disk
    /\ UNCHANGED <<given, stuck, phase, exit>>

CompanionOpen(o) ==
    /\ pc[o] = "companion"
    /\ \/ /\ pc' = [pc EXCEPT ![o] = "companionCopying"]
          /\ disk' = [disk EXCEPT ![Target(o)].whole = FALSE]
          /\ UNCHANGED <<res, tmp>>
       \/ Fail(o) /\ disk' = disk
    /\ UNCHANGED <<given, stuck, phase, exit>>

CompanionWrite(o) ==
    /\ pc[o] = "companionCopying"
    /\ \/ /\ pc' = [pc EXCEPT ![o] = "cleanup"]
          /\ disk' = [disk EXCEPT ![Target(o)] = tmp[PathOf(o)].content]
          /\ res' = [res EXCEPT ![o] = "signed"]
          /\ tmp' = tmp
       \/ Fail(o) /\ disk' = disk
    /\ UNCHANGED <<given, stuck, phase, exit>>

(* remove_file of the temporary, which may fail.  The error is dropped; on   *)
(* the Artifact Signing way it turns a success into an error, and the        *)
(* removal is tried again.                                                   *)
Cleanup(o) ==
    /\ pc[o] = "cleanup"
    /\ pc' = [pc EXCEPT ![o] = "done"]
    /\ \/ /\ tmp' = [tmp EXCEPT ![PathOf(o)] = NoTemp] /\ stuck' = stuck \ {PathOf(o)}
          /\ res' = res \/ (Artifact /\ res' = [res EXCEPT ![o] = "failed"])
       \/ /\ tmp[PathOf(o)].made
          /\ tmp' = tmp /\ stuck' = stuck \cup {PathOf(o)}
          /\ res' = IF Artifact THEN [res EXCEPT ![o] = "failed"] ELSE res
    /\ UNCHANGED <<given, disk, phase, exit>>

-----------------------------------------------------------------------------
(* The result.                                                               *)

Failed == {o \in Ops : res[o] = "failed"}

(* Bug: with Azure exit codes one success hides the failures.                *)
BugBatchExitCode ==
    IF Failed # {} /\ ~args.azureExit THEN "one"
    ELSE IF Failed # {} /\ Failed = Ops THEN "allFailed" ELSE "zero"

(* Bug: a batch in which everything was skipped has an exit code of its own. *)
BugExitSkipped ==
    IF \A o \in Ops : res[o] = "skipped" THEN "skipped" ELSE "zero"

(* resolved_sign_exit_codes and batch_exit_code.                             *)
BatchExitCode ==
    CASE Failed = {} -> "zero"
      [] Failed # {} /\ ~args.azureExit -> "one"
      [] Failed # {} /\ args.azureExit /\ Failed = Ops -> "allFailed"
      [] OTHER -> "partial"

(* All rows are collected first; then, without --continue-on-error, the      *)
(* first Err is returned.                                                    *)
Finish ==
    /\ phase = "run"
    /\ \A o \in Ops : pc[o] = "done"
    /\ phase' = "exited"
    /\ exit' = IF Failed # {} /\ ~args.continueOnError THEN "error" ELSE BatchExitCode
    /\ UNCHANGED <<given, disk, tmp, stuck, pc, res>>

Work(o) ==
    \/ SkipCheck(o) \/ SignTemp(o) \/ SignFails(o) \/ SelfCheck(o)
    \/ CopyOpen(o) \/ CopyWrite(o) \/ CompanionOpen(o) \/ CompanionWrite(o)
    \/ Cleanup(o)
Next == Prepare \/ Finish \/ \E o \in Entry : Begin(o) \/ Work(o)
Spec == Init /\ [][Next]_vars

-----------------------------------------------------------------------------
(* Properties.                                                               *)

Landed(f) == {o \in Ops : Target(o) = f /\ res[o] = "signed"}

(* Files of which sign_pe finds out that they are signed already: its        *)
(* skipped copy is put in place and reported as Signed.                      *)
CoreKeeps(f) == CoreLooks /\ found[f].format = "peother"

(* No successful operation is lost: whatever paths and threads were used, a  *)
(* whole file ends with the signature of every --append operation that       *)
(* reported success on top of the ones it had, and otherwise with one of the *)
(* last of them (has_duplicate_target_identities in execute_sign_batch).  A  *)
(* success that added none is reported only where sign_pe found a signature  *)
(* made before it, which the file still has.                                 *)
NothingLost ==
    phase = "exited" => \A f \in File : (disk[f].whole /\ Landed(f) # {}) =>
        IF args.append
        THEN /\ found[f].content.by \subseteq disk[f].by
             /\ \A o \in Landed(f) : o \in disk[f].by
                    \/ (CoreKeeps(f) /\ \E i \in disk[f].by : i < o)
        ELSE \E o \in disk[f].by : CoreKeeps(f) \/ \A i \in Landed(f) : i <= o

(* A file is left torn only when an operation on it failed, so a zero exit   *)
(* means that every target is whole.                                         *)
TornIsReported ==
    phase = "exited" => \A f \in File : ~disk[f].whole =>
        \E o \in Failed : Target(o) = f

(* A self-checked operation never replaces its target by a file whose        *)
(* digests do not match, a skipped copy included (the guard of               *)
(* ensure_valid_signature_response).                                         *)
NeverShipsMismatch ==
    \A o \in Ops : (/\ SelfChecked(o) /\ ~Is(o, {"loose", "appinstaller"})
                    /\ res[o] = "signed"
                    /\ \A i \in Ops : Target(i) = Target(o) => i <= o \/ pc[i] = "waiting")
        => disk[Target(o)].bound

(* A temporary file stays behind only when removing it failed, and then with *)
(* a reported failure on the Artifact Signing way.                           *)
NoTempLeft ==
    phase = "exited" => \A p \in Path : tmp[p].made =>
        /\ p \in stuck
        /\ Artifact => \E o \in Failed : PathOf(o) = p

(* A target ends as it was, or with a signature that was checked, unless its *)
(* failure is reported, and nothing stays beside it that could be removed:   *)
(* on every path of the in-place routes, whichever of their steps fails.     *)
TargetsAreSound == TornIsReported /\ NeverShipsMismatch /\ NoTempLeft

(* With --skip-signed a file that carries a matching signature keeps it,     *)
(* whichever operation names it: a PE or MSIX file that                      *)
(* target_should_skip_signed knows is not written to any more, and a PE of   *)
(* another extension, which is copied over itself, never gets another        *)
(* signature on the way.                                                     *)
ValidIsKept ==
    [][\A f \in File : args.skipSigned =>
        /\ (found[f].format \in {"pe", "msix"} /\ Consistent(disk[f])) => disk'[f] = disk[f]
        /\ (found[f].format = "peother" /\ disk[f].by # {} /\ disk[f].bound) =>
               disk'[f].by = disk[f].by /\ disk'[f].bound]_vars

(* The command implements the batch contract without stopping early.         *)
BatchStatus ==
    [o \in Ops |-> CASE pc[o] = "waiting" -> "pending"
                     [] pc[o] = "done" /\ res[o] = "failed" -> "failed"
                     [] pc[o] = "done" /\ res[o] # "failed" -> "ok"
                     [] OTHER -> "busy"]
BatchResult ==
    CASE exit = "none" -> "running"
      [] exit = "zero" -> "success"
      [] exit = "error" -> "error"
      [] OTHER -> "partial"
Batch == INSTANCE BatchSigning WITH
            items <- Ops, StopsEarly <- FALSE,
            continue <- args.continueOnError, status <- BatchStatus, result <- BatchResult
ImplementsBatch == Batch!BatchSpec

=============================================================================
