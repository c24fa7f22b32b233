------------------------------- MODULE CertStore -------------------------------
(***************************************************************************)
(* The portable certificate store (src/src/cert_store.rs): a directory with  *)
(* <SHA1>.der and <SHA1>.key per certificate, used by several psign-tool     *)
(* processes at once.  There is no lock: every exists(), open, write and     *)
(* remove is a step of its own, a write may fail part way, and a process may *)
(* die between two steps.                                                    *)
(*                                                                          *)
(* A .der is "absent", "partial" (created or truncated, bytes not yet all    *)
(* written) or "whole"; a .key is "absent", "partial", "match" or "other"    *)
(* (a complete key of a different certificate).  Unix semantics: a file      *)
(* removed while open loses its name but the writer does not notice, and     *)
(* the key is opened with create_new.                                        *)
(***************************************************************************)
EXTENDS Naturals

CONSTANTS
    Process,    \* psign-tool processes that use the store
    Thumb,      \* SHA-1 thumbprints
    MaxOps,     \* bound: commands started in a run
    MaxCrashes  \* bound: processes killed in a run

ASSUME BoundsAssumption == MaxOps \in Nat /\ MaxCrashes \in Nat

KeyArg == {"none", "match", "other"}

VARIABLES
    cert,       \* cert[t]: the .der file
    key,        \* key[t]: the .key file
    pc,         \* where each process is
    op,         \* the thumbprint and key argument of its command
    linked,     \* the file it is writing still has its name
    todo,       \* directory entries a list or print has still to report
    seen,       \* what a command that reads the store has read or reported
    outcome,    \* how its last command ended
    imported,   \* ghost: t was imported with its key and not removed since
    raced,      \* ghost: a remove overlapped this import of t, or the converse
    cut,        \* ghost: the files of t whose write a failure or a kill cut short
    ops, crashes

vars == <<cert, key, pc, op, linked, todo, seen, outcome, imported, raced, cut, ops, crashes>>
files == <<cert, key>>
ghosts == <<imported, raced, cut>>

Pc == {"idle", "certCheck", "certOpen", "certWrite", "keyLoad", "keyCheck", "keyOpen",
       "keyWrite", "rmCheck", "rmCert", "rmKeyCheck", "rmKey", "rdCert", "rdKey",
       "exCert", "exKeyCheck", "exWrite", "exKey", "lsDir", "lsCert", "lsKey"}
Seen == {"nothing", "cert", "identity", "badKey", "noKey", "hasKey", "hasBadKey"}
Importing == {"certCheck", "certOpen", "certWrite", "keyLoad", "keyCheck", "keyOpen", "keyWrite"}
Removing == {"rmCheck", "rmCert", "rmKeyCheck", "rmKey"}

TypeOK ==
    /\ cert \in [Thumb -> {"absent", "partial", "whole"}]
    /\ key \in [Thumb -> {"absent", "partial", "match", "other"}]
    /\ pc \in [Process -> Pc]
    /\ op \in [Process -> [t : Thumb, key : KeyArg]]
    /\ linked \in [Process -> BOOLEAN]
    /\ todo \in [Process -> SUBSET Thumb]
    /\ seen \in [Process -> Seen]
    /\ outcome \in [Process -> {"none", "ok", "error", "killed"}]
    /\ imported \in [Thumb -> BOOLEAN]
    /\ raced \in [Process -> BOOLEAN]
    /\ cut \in [Thumb -> SUBSET {"cert", "key"}]
    /\ ops \in Nat
    /\ crashes \in Nat

Init ==
    /\ cert = [t \in Thumb |-> "absent"]
    /\ key = [t \in Thumb |-> "absent"]
    /\ pc = [p \in Process |-> "idle"]
    /\ op \in [Process -> [t : Thumb, key : {"none"}]]
    /\ linked = [p \in Process |-> FALSE]
    /\ todo = [p \in Process |-> {}]
    /\ seen = [p \in Process |-> "nothing"]
    /\ outcome = [p \in Process |-> "none"]
    /\ imported = [t \in Thumb |-> FALSE]
    /\ raced = [p \in Process |-> FALSE]
    /\ cut = [t \in Thumb |-> {}]
    /\ ops = 0
    /\ crashes = 0

T(p) == op[p].t
At(p, l) == pc[p] = l
Goto(p, l) == pc' = [pc EXCEPT ![p] = l]
Return(p, r) == Goto(p, "idle") /\ outcome' = [outcome EXCEPT ![p] = r]
Continue(p, l) == Goto(p, l) /\ outcome' = outcome

(* A removed file keeps being written by those who have it open.             *)
Unlink(t, phase) ==
    linked' = [q \in Process |-> linked[q] /\ ~(At(q, phase) /\ T(q) = t)]

(* What p has open now keeps the bytes it has; a file of that name that      *)
(* another process has completed since is not harmed.                        *)
CutShort(p) ==
    cut' = [cut EXCEPT ![T(p)] = @ \cup
        {f \in {"cert", "key"} : /\ linked[p]
                               /\ \/ f = "cert" /\ At(p, "certWrite") /\ cert[T(p)] = "partial"
                                  \/ f = "key" /\ At(p, "keyWrite")}]

(* A file that is gone or complete is no longer cut short.                   *)
Renewed(t, f) == cut' = [cut EXCEPT ![t] = @ \ {f}]

Overlaps(t, labels) == \E q \in Process : pc[q] \in labels /\ T(q) = t

(* Commands that may undo the one that starts at label l.                    *)
Rivals(l) == CASE l = "certCheck" -> Removing [] l = "rmCheck" -> Importing [] OTHER -> {}

(* One command of a process.  import-pfx is import with a key that matches:  *)
(* load_pfx_cert_and_key pairs them before anything is written.              *)
Start(p, l, t, k) ==
    /\ At(p, "idle")
    /\ ops < MaxOps
    /\ ops' = ops + 1
    /\ op' = [op EXCEPT ![p] = [t |-> t, key |-> k]]
    /\ todo' = [todo EXCEPT ![p] = IF l = "lsCert" THEN {t} ELSE {}]
    /\ seen' = [seen EXCEPT ![p] = "nothing"]
    /\ outcome' = [outcome EXCEPT ![p] = "none"]
    /\ Goto(p, l)
    /\ raced' = [q \in Process |-> IF q = p THEN Overlaps(t, Rivals(l))
                                  ELSE raced[q] \/ (pc[q] \in Rivals(l) /\ T(q) = t)]
    /\ imported' = IF l = "rmCheck" THEN [imported EXCEPT ![t] = FALSE] ELSE imported
    /\ UNCHANGED <<files, linked, cut, crashes>>

StartCommand(p) ==
    \E t \in Thumb :
        \/ \E k \in KeyArg : Start(p, "certCheck", t, k)
        \/ Start(p, "rmCheck", t, "none")
        \/ \E l \in {"rdCert", "lsCert", "lsDir"} : Start(p, l, t, "none")
        \/ \E k \in {"none", "match"} : Start(p, "exCert", t, k)

-----------------------------------------------------------------------------
(* import_cert and import_pfx.                                               *)

(* load_cert_der has parsed the argument; path.exists() decides.             *)
CheckCert(p) ==
    /\ At(p, "certCheck")
    /\ Continue(p, IF cert[T(p)] = "absent" THEN "certOpen" ELSE "keyLoad")
    /\ UNCHANGED <<files, op, linked, todo, seen, ghosts, ops, crashes>>

(* std::fs::write creates the file or truncates the one that appeared since. *)
OpenCert(p) ==
    /\ At(p, "certOpen")
    /\ \/ /\ cert' = [cert EXCEPT ![T(p)] = "partial"]
          /\ linked' = [linked EXCEPT ![p] = TRUE]
          /\ Continue(p, "certWrite")
       \/ UNCHANGED <<cert, linked>> /\ Return(p, "error")
    /\ UNCHANGED <<key, op, todo, seen, ghosts, ops, crashes>>

WriteCert(p) ==
    /\ At(p, "certWrite")
    /\ IF linked[p]
       THEN cert' = [cert EXCEPT ![T(p)] = "whole"] /\ Renewed(T(p), "cert")
       ELSE UNCHANGED <<cert, cut>>
    /\ linked' = [linked EXCEPT ![p] = FALSE]
    /\ Continue(p, "keyLoad")
    /\ UNCHANGED <<key, op, todo, seen, imported, raced, ops, crashes>>

(* A full disk or an I/O error ends the import with what is already written  *)
(* under the final name.                                                     *)
WriteFails(p) ==
    /\ pc[p] \in {"certWrite", "keyWrite"}
    /\ Return(p, "error")
    /\ linked' = [linked EXCEPT ![p] = FALSE]
    /\ CutShort(p)
    /\ UNCHANGED <<files, op, todo, seen, imported, raced, ops, crashes>>

(* Bug: the key is written before it is compared with the certificate.       *)
BugLoadKeyUnchecked(p) ==
    /\ At(p, "keyLoad")
    /\ Continue(p, "keyCheck")
    /\ UNCHANGED <<files, op, linked, todo, seen, ghosts, ops, crashes>>

(* No --key ends the command; ensure_key_matches_cert refuses another one,   *)
(* and the certificate written above stays.                                  *)
LoadKey(p) ==
    /\ At(p, "keyLoad")
    /\ CASE op[p].key = "none" -> Return(p, "ok")
         [] op[p].key = "other" -> Return(p, "error")
         [] OTHER -> Continue(p, "keyCheck")
    /\ UNCHANGED <<files, op, linked, todo, seen, ghosts, ops, crashes>>

RecordImport(p) == imported' = [imported EXCEPT ![T(p)] = @ \/ ~raced[p]]

(* Bug: the test for an existing key looks at the certificate's path.        *)
BugCheckKeyPath(p) ==
    /\ At(p, "keyCheck")
    /\ IF cert[T(p)] = "absent"
       THEN Continue(p, "keyOpen") /\ imported' = imported
       ELSE Return(p, "ok") /\ RecordImport(p)
    /\ UNCHANGED <<files, op, linked, todo, seen, raced, cut, ops, crashes>>

CheckKey(p) ==
    /\ At(p, "keyCheck")
    /\ IF key[T(p)] = "absent"
       THEN Continue(p, "keyOpen") /\ imported' = imported
       ELSE Return(p, "ok") /\ RecordImport(p)
    /\ UNCHANGED <<files, op, linked, todo, seen, raced, cut, ops, crashes>>

(* Bug: the key is opened with truncation instead of create_new.             *)
BugOpenKeyTruncate(p) ==
    /\ At(p, "keyOpen")
    /\ key' = [key EXCEPT ![T(p)] = "partial"]
    /\ linked' = [linked EXCEPT ![p] = TRUE]
    /\ Continue(p, "keyWrite")
    /\ UNCHANGED <<cert, op, todo, seen, ghosts, ops, crashes>>

(* create_new: an importer that lost the race gets an error.                 *)
OpenKey(p) ==
    /\ At(p, "keyOpen")
    /\ \/ /\ key[T(p)] = "absent"
          /\ key' = [key EXCEPT ![T(p)] = "partial"]
          /\ linked' = [linked EXCEPT ![p] = TRUE]
          /\ Continue(p, "keyWrite")
       \/ UNCHANGED <<key, linked>> /\ Return(p, "error")
    /\ UNCHANGED <<cert, op, todo, seen, ghosts, ops, crashes>>

WriteKey(p) ==
    /\ At(p, "keyWrite")
    /\ IF linked[p]
       THEN key' = [key EXCEPT ![T(p)] = op[p].key] /\ Renewed(T(p), "key")
       ELSE UNCHANGED <<key, cut>>
    /\ linked' = [linked EXCEPT ![p] = FALSE]
    /\ Return(p, "ok")
    /\ RecordImport(p)
    /\ UNCHANGED <<cert, op, todo, seen, raced, ops, crashes>>

-----------------------------------------------------------------------------
(* remove_cert: the certificate first, then the key.  Either removal fails   *)
(* when the file is gone, and may fail when it is not.                       *)

CheckRemove(p) ==
    /\ At(p, "rmCheck")
    /\ IF cert[T(p)] = "absent" THEN Return(p, "error") ELSE Continue(p, "rmCert")
    /\ UNCHANGED <<files, op, linked, todo, seen, ghosts, ops, crashes>>

RemoveCert(p) ==
    /\ At(p, "rmCert")
    /\ \/ UNCHANGED <<cert, linked, cut>> /\ Return(p, "error")
       \/ /\ cert[T(p)] # "absent"
          /\ cert' = [cert EXCEPT ![T(p)] = "absent"]
          /\ Unlink(T(p), "certWrite")
          /\ Renewed(T(p), "cert")
          /\ Continue(p, "rmKeyCheck")
    /\ UNCHANGED <<key, op, todo, seen, imported, raced, ops, crashes>>

CheckRemoveKey(p) ==
    /\ At(p, "rmKeyCheck")
    /\ IF key[T(p)] = "absent" THEN Return(p, "ok") ELSE Continue(p, "rmKey")
    /\ UNCHANGED <<files, op, linked, todo, seen, ghosts, ops, crashes>>

RemoveKey(p) ==
    /\ At(p, "rmKey")
    /\ \/ UNCHANGED <<key, linked, cut>> /\ Return(p, "error")
       \/ /\ key[T(p)] # "absent"
          /\ key' = [key EXCEPT ![T(p)] = "absent"]
          /\ Unlink(T(p), "keyWrite")
          /\ Renewed(T(p), "key")
          /\ Return(p, "ok")
    /\ UNCHANGED <<cert, op, todo, seen, imported, raced, ops, crashes>>

-----------------------------------------------------------------------------
(* resolve_signing_identity, used by sign and code, and export_cert.         *)

ReadCert(p) ==
    /\ At(p, "rdCert")
    /\ IF cert[T(p)] = "whole"
       THEN seen' = [seen EXCEPT ![p] = "cert"] /\ Continue(p, "rdKey")
       ELSE seen' = seen /\ Return(p, "error")
    /\ UNCHANGED <<files, op, linked, todo, ghosts, ops, crashes>>

(* The key is parsed and compared with the certificate read before.          *)
ReadKey(p) ==
    /\ At(p, "rdKey")
    /\ IF key[T(p)] = "match"
       THEN seen' = [seen EXCEPT ![p] = "identity"] /\ Return(p, "ok")
       ELSE seen' = seen /\ Return(p, "error")
    /\ UNCHANGED <<files, op, linked, todo, ghosts, ops, crashes>>

ExportReadCert(p) ==
    /\ At(p, "exCert")
    /\ IF cert[T(p)] = "whole"
       THEN seen' = [seen EXCEPT ![p] = "cert"] /\ Continue(p, "exKeyCheck")
       ELSE seen' = seen /\ Return(p, "error")
    /\ UNCHANGED <<files, op, linked, todo, ghosts, ops, crashes>>

ExportCheckKey(p) ==
    /\ At(p, "exKeyCheck")
    /\ IF op[p].key # "none" /\ key[T(p)] = "absent"
       THEN Return(p, "error")
       ELSE Continue(p, "exWrite")
    /\ UNCHANGED <<files, op, linked, todo, seen, ghosts, ops, crashes>>

(* The output file exists without --force, or the certificate is written.    *)
ExportWriteCert(p) ==
    /\ At(p, "exWrite")
    /\ \/ Return(p, "error")
       \/ op[p].key = "none" /\ Return(p, "ok")
       \/ op[p].key # "none" /\ Continue(p, "exKey")
    /\ UNCHANGED <<files, op, linked, todo, seen, ghosts, ops, crashes>>

(* The key bytes are copied as they are: neither parsed nor compared.        *)
ExportKey(p) ==
    /\ At(p, "exKey")
    /\ IF key[T(p)] = "absent"
       THEN seen' = seen /\ Return(p, "error")
       ELSE /\ seen' = [seen EXCEPT ![p] = IF key[T(p)] = "match" THEN "identity" ELSE "badKey"]
            /\ Return(p, "ok")
    /\ UNCHANGED <<files, op, linked, todo, ghosts, ops, crashes>>

(* list_certs walks the directory entries with extension der; print_cert     *)
(* starts at lsCert with its one entry.                                      *)
ListDir(p) ==
    /\ At(p, "lsDir")
    /\ todo' = [todo EXCEPT ![p] = {t \in Thumb : cert[t] # "absent"}]
    /\ IF todo'[p] = {} THEN Return(p, "ok") ELSE Continue(p, "lsCert")
    /\ UNCHANGED <<files, op, linked, seen, ghosts, ops, crashes>>

(* An entry that is gone or does not parse fails the whole command.          *)
ListCert(p) ==
    /\ At(p, "lsCert")
    /\ \E t \in todo[p] :
        /\ op' = [op EXCEPT ![p].t = t]
        /\ todo' = [todo EXCEPT ![p] = @ \ {t}]
        /\ IF cert[t] = "whole" THEN Continue(p, "lsKey") ELSE Return(p, "error")
    /\ UNCHANGED <<files, linked, seen, ghosts, ops, crashes>>

(* has_private_key = key_path.exists().                                      *)
ListKey(p) ==
    /\ At(p, "lsKey")
    /\ seen' = [seen EXCEPT ![p] = CASE key[T(p)] = "absent" -> "noKey"
                                    [] key[T(p)] = "match" -> "hasKey"
                                    [] OTHER -> "hasBadKey"]
    /\ IF todo[p] = {} THEN Return(p, "ok") ELSE Continue(p, "lsCert")
    /\ UNCHANGED <<files, op, linked, todo, ghosts, ops, crashes>>

(* A process killed between two steps; what it had written stays.            *)
Crash(p) ==
    /\ ~At(p, "idle")
    /\ crashes < MaxCrashes
    /\ crashes' = crashes + 1
    /\ Return(p, "killed")
    /\ linked' = [linked EXCEPT ![p] = FALSE]
    /\ CutShort(p)
    /\ UNCHANGED <<files, op, todo, seen, imported, raced, ops>>

Step(p) ==
    \/ CheckCert(p) \/ OpenCert(p) \/ WriteCert(p) \/ WriteFails(p) \/ LoadKey(p)
    \/ CheckKey(p) \/ OpenKey(p) \/ WriteKey(p)
    \/ CheckRemove(p) \/ RemoveCert(p) \/ CheckRemoveKey(p) \/ RemoveKey(p)
    \/ ReadCert(p) \/ ReadKey(p)
    \/ ExportReadCert(p) \/ ExportCheckKey(p) \/ ExportWriteCert(p) \/ ExportKey(p)
    \/ ListDir(p) \/ ListCert(p) \/ ListKey(p)

Next == \E p \in Process : StartCommand(p) \/ Step(p) \/ Crash(p)
Spec == Init /\ [][Next]_vars

-----------------------------------------------------------------------------
(* Properties.                                                               *)

(* No interleaving or crash leaves a complete private key beside a           *)
(* certificate it does not belong to (ensure_key_matches_cert comes before   *)
(* every write of a key).                                                    *)
NoForeignKey == \A t \in Thumb : key[t] # "other"

(* A complete key file is never truncated or rewritten: it only disappears   *)
(* by a remove (create_new in write_private_key_file).                       *)
KeyIsStable == [][\A t \in Thumb : key[t] = "match" => key'[t] \in {"match", "absent"}]_vars

(* This step is no successful end of an unraced remove that leaves a file.   *)
RemovedClean(p) ==
    (pc[p] \in Removing /\ outcome'[p] = "ok" /\ ~raced[p])
        => cert'[T(p)] = "absent" /\ key'[T(p)] = "absent"

(* A remove that succeeds with no import of the same certificate running     *)
(* beside it leaves neither file behind, whatever earlier crashes left there *)
(* and whoever else removes at the same time.                                *)
RemoveLeavesNothing == [][\A p \in Process : RemovedClean(p)]_vars

(* Nothing that races or is killed spoils a stored key: it belongs to its    *)
(* certificate, it is never rewritten, and an unraced remove takes it away.  *)
StoreIsSound == []NoForeignKey /\ KeyIsStable /\ RemoveLeavesNothing

(* An import is writing a file of t at this moment.                          *)
BeingWritten(t) ==
    \E q \in Process : pc[q] \in {"certWrite", "keyWrite"} /\ linked[q] /\ T(q) = t

(* When the store is quiet, both files of a certificate imported with its    *)
(* key and not removed since are there, and each is usable unless its write  *)
(* was cut short by a failure or a kill: import_cert and write_key_if_needed *)
(* report success over a file that merely exists.                            *)
ImportIsUsable ==
    (\A p \in Process : At(p, "idle")) =>
        \A t \in Thumb : imported[t] =>
            /\ cert[t] = "whole" \/ (cert[t] = "partial" /\ "cert" \in cut[t])
            /\ key[t] = "match" \/ (key[t] = "partial" /\ "key" \in cut[t])

(* resolve_signing_identity fails for an imported certificate, and           *)
(* export --with-key hands out something that is not its key, only when an   *)
(* import of the same certificate is in the middle of a write or a write was *)
(* cut short before: no other step of another process comes between their    *)
(* reads.                                                                    *)
ReadExplained(p) ==
    \/ (pc[p] \in {"rdCert", "rdKey"} /\ imported[T(p)]) => outcome'[p] # "error"
    \/ BeingWritten(T(p)) \/ cut[T(p)] # {}
ExportExplained(p) ==
    \/ (pc[p] = "exKey" /\ outcome'[p] = "ok") => seen'[p] = "identity"
    \/ BeingWritten(T(p)) \/ cut[T(p)] # {}
ReadsAreSound == [][\A p \in Process : ReadExplained(p) /\ ExportExplained(p)]_vars

=============================================================================
