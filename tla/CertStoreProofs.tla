---------------------------- MODULE CertStoreProofs ----------------------------
(***************************************************************************)
(* Safety of the portable certificate store for any number of processes,     *)
(* thumbprints, commands and crashes.                                        *)
(***************************************************************************)
EXTENDS CertStore, TLAPS

USE DEF At, T, Goto, Return, Continue

(* The three kinds of step.                                                  *)
ImportStep(p) ==
    \/ CheckCert(p) \/ OpenCert(p) \/ WriteCert(p) \/ WriteFails(p) \/ LoadKey(p)
    \/ CheckKey(p) \/ OpenKey(p) \/ WriteKey(p)
RemoveStep(p) == CheckRemove(p) \/ RemoveCert(p) \/ CheckRemoveKey(p) \/ RemoveKey(p)
ReadStep(p) ==
    \/ ReadCert(p) \/ ReadKey(p)
    \/ ExportReadCert(p) \/ ExportCheckKey(p) \/ ExportWriteCert(p) \/ ExportKey(p)
    \/ ListDir(p) \/ ListCert(p) \/ ListKey(p)

(* A start is an import, a remove or a command that only reads.              *)
LEMMA StartKinds ==
    ASSUME NEW p \in Process, StartCommand(p)
    PROVE  \E t \in Thumb, k \in KeyArg, l \in Pc : Start(p, l, t, k)
BY DEF StartCommand, KeyArg, Pc

(* A process about to write a key holds a matching one: what makes the type  *)
(* of the key files inductive.                                               *)
KeyHeld == \A p \in Process : pc[p] \in {"keyCheck", "keyOpen", "keyWrite"} => op[p].key = "match"
TypeInv == TypeOK /\ KeyHeld

(* The labels of cert_store.rs, as facts: the provers need no enumeration.   *)
LEMMA Labels ==
    /\ "idle" \in Pc /\ "certOpen" \in Pc /\ "certWrite" \in Pc /\ "keyLoad" \in Pc
    /\ "keyCheck" \in Pc /\ "keyOpen" \in Pc /\ "keyWrite" \in Pc /\ "rmCert" \in Pc
    /\ "rmKeyCheck" \in Pc /\ "rmKey" \in Pc /\ "rdKey" \in Pc /\ "exKeyCheck" \in Pc
    /\ "exWrite" \in Pc /\ "exKey" \in Pc /\ "lsCert" \in Pc /\ "lsKey" \in Pc
BY DEF Pc

(* Starting a command keeps the types.                                       *)
LEMMA StartKeepsTypes ==
    ASSUME TypeInv, NEW p \in Process, StartCommand(p)
    PROVE  TypeInv'
<1>1. PICK t \in Thumb, k \in KeyArg, l \in {"certCheck", "rmCheck", "rdCert", "lsCert", "lsDir", "exCert"} :
          Start(p, l, t, k)
  BY DEF StartCommand, KeyArg
<1>2. /\ op' \in [Process -> [t : Thumb, key : KeyArg]]
      /\ todo' \in [Process -> SUBSET Thumb]
      /\ seen' \in [Process -> Seen]
      /\ outcome' \in [Process -> {"none", "ok", "error", "killed"}]
      /\ ops' \in Nat
  BY <1>1 DEF TypeInv, TypeOK, Start, Seen
<1>3. raced' \in [Process -> BOOLEAN]
  BY <1>1, Zenon DEF TypeInv, TypeOK, Start, Overlaps
<1>4. imported' \in [Thumb -> BOOLEAN]
  BY <1>1 DEF TypeInv, TypeOK, Start
<1>5. l \in Pc
  BY <1>1 DEF Pc
<1>6. pc' \in [Process -> Pc]
  BY <1>1, <1>5 DEF TypeInv, TypeOK, Start
<1>7. TypeOK'
  BY <1>1, <1>2, <1>3, <1>4, <1>6 DEF TypeInv, TypeOK, Start, files
<1>8. KeyHeld'
  BY <1>1 DEF TypeInv, TypeOK, KeyHeld, Start
<1> QED
  BY <1>7, <1>8 DEF TypeInv

(* What CutShort and Renewed make of the ghost.                              *)
LEMMA CutTypes ==
    ASSUME TypeOK, NEW p \in Process,
           \/ cut' = cut \/ CutShort(p) \/ Renewed(T(p), "cert") \/ Renewed(T(p), "key")
    PROVE  cut' \in [Thumb -> SUBSET {"cert", "key"}]
<1>0. cut \in [Thumb -> SUBSET {"cert", "key"}]
  BY DEF TypeOK
<1>1. CASE CutShort(p)
  <2> DEFINE more == {f \in {"cert", "key"} :
                        /\ linked[p]
                        /\ \/ f = "cert" /\ pc[p] = "certWrite" /\ cert[T(p)] = "partial"
                           \/ f = "key" /\ pc[p] = "keyWrite"}
  <2>1. cut' = [cut EXCEPT ![T(p)] = @ \cup more]
    BY <1>1 DEF CutShort
  <2>2. more \subseteq {"cert", "key"}
    OBVIOUS
  <2> HIDE DEF more
  <2> QED
    BY <1>0, <2>1, <2>2
<1>2. CASE cut' = cut \/ Renewed(T(p), "cert") \/ Renewed(T(p), "key")
  BY <1>0, <1>2 DEF Renewed
<1> QED
  BY <1>1, <1>2

(* Every step moves its process to a label and may set its outcome.          *)
LEMMA MoveTypes ==
    ASSUME TypeOK, NEW p \in Process,
           ImportStep(p) \/ RemoveStep(p) \/ ReadStep(p) \/ Crash(p)
    PROVE  /\ pc' \in [Process -> Pc]
           /\ outcome' \in [Process -> {"none", "ok", "error", "killed"}]
<1> USE Labels
<1>0. /\ pc \in [Process -> Pc]
      /\ outcome \in [Process -> {"none", "ok", "error", "killed"}]
  BY DEF TypeOK
<1>1. CASE CheckCert(p)
  BY <1>0, <1>1 DEF CheckCert
<1>2. CASE OpenCert(p)
  BY <1>0, <1>2 DEF OpenCert
<1>3. CASE WriteCert(p)
  BY <1>0, <1>3 DEF WriteCert
<1>4. CASE LoadKey(p) \/ WriteFails(p)
  BY <1>0, <1>4 DEF LoadKey, WriteFails
<1>5. CASE CheckKey(p)
  BY <1>0, <1>5 DEF CheckKey
<1>6. CASE OpenKey(p)
  BY <1>0, <1>6 DEF OpenKey
<1>7. CASE WriteKey(p)
  BY <1>0, <1>7 DEF WriteKey
<1>8. CASE CheckRemove(p)
  BY <1>0, <1>8 DEF CheckRemove
<1>9. CASE RemoveCert(p)
  BY <1>0, <1>9 DEF RemoveCert
<1>10. CASE CheckRemoveKey(p)
  BY <1>0, <1>10 DEF CheckRemoveKey
<1>11. CASE RemoveKey(p)
  BY <1>0, <1>11 DEF RemoveKey
<1>12. CASE ReadCert(p)
  BY <1>0, <1>12 DEF ReadCert
<1>13. CASE ReadKey(p)
  BY <1>0, <1>13 DEF ReadKey
<1>14. CASE ExportReadCert(p)
  BY <1>0, <1>14 DEF ExportReadCert
<1>15. CASE ExportCheckKey(p)
  BY <1>0, <1>15 DEF ExportCheckKey
<1>16. CASE ExportWriteCert(p)
  BY <1>0, <1>16 DEF ExportWriteCert
<1>17. CASE ExportKey(p)
  BY <1>0, <1>17 DEF ExportKey
<1>18. CASE ListDir(p)
  BY <1>0, <1>18 DEF ListDir
<1>19. CASE ListCert(p)
  BY <1>0, <1>19 DEF ListCert
<1>20. CASE ListKey(p)
  BY <1>0, <1>20 DEF ListKey
<1>21. CASE Crash(p)
  BY <1>0, <1>21 DEF Crash
<1> QED
  BY <1>1, <1>2, <1>3, <1>4, <1>5, <1>6, <1>7, <1>8, <1>9, <1>10, <1>11, <1>12,
     <1>13, <1>14, <1>15, <1>16, <1>17, <1>18, <1>19, <1>20, <1>21
  DEF ImportStep, RemoveStep, ReadStep

(* An import step keeps the types: a key that is written is a matching one.  *)
LEMMA ImportKeepsTypes ==
    ASSUME TypeInv, NEW p \in Process, ImportStep(p)
    PROVE  TypeOK'
<1>1. /\ cert' \in [Thumb -> {"absent", "partial", "whole"}]
      /\ UNCHANGED <<op, todo, seen, raced, ops, crashes>>
  BY DEF ImportStep, CheckCert, OpenCert, WriteCert, WriteFails, LoadKey, CheckKey, OpenKey, WriteKey,
         files, ghosts, TypeInv, TypeOK
<1>2. key' \in [Thumb -> {"absent", "partial", "match", "other"}]
  <2>1. /\ key \in [Thumb -> {"absent", "partial", "match", "other"}]
        /\ op \in [Process -> [t : Thumb, key : KeyArg]]
    BY DEF TypeInv, TypeOK
  <2>2. CASE WriteKey(p)
    BY <2>1, <2>2 DEF WriteKey, TypeInv, KeyHeld
  <2>3. CASE OpenKey(p)
    BY <2>1, <2>3 DEF OpenKey
  <2>4. CASE CheckCert(p) \/ OpenCert(p) \/ WriteCert(p) \/ WriteFails(p) \/ LoadKey(p) \/ CheckKey(p)
    BY <2>1, <2>4 DEF CheckCert, OpenCert, WriteCert, WriteFails, LoadKey, CheckKey, files
  <2> QED
    BY <2>2, <2>3, <2>4 DEF ImportStep
<1>3. linked' \in [Process -> BOOLEAN]
  BY DEF ImportStep, CheckCert, OpenCert, WriteCert, WriteFails, LoadKey, CheckKey, OpenKey, WriteKey,
         TypeInv, TypeOK
<1>4. imported' \in [Thumb -> BOOLEAN]
  BY DEF ImportStep, CheckCert, OpenCert, WriteCert, WriteFails, LoadKey, CheckKey, OpenKey, WriteKey,
         RecordImport, ghosts, TypeInv, TypeOK
<1>5. cut' = cut \/ CutShort(p) \/ Renewed(T(p), "cert") \/ Renewed(T(p), "key")
  BY DEF ImportStep, CheckCert, OpenCert, WriteCert, WriteFails, LoadKey, CheckKey, OpenKey,
         WriteKey, ghosts
<1> QED
  BY <1>1, <1>2, <1>3, <1>4, <1>5, CutTypes, MoveTypes DEF TypeInv, TypeOK

(* A remove step keeps the types.                                            *)
LEMMA RemoveKeepsTypes ==
    ASSUME TypeInv, NEW p \in Process, RemoveStep(p)
    PROVE  TypeOK'
<1>1. /\ cert' \in [Thumb -> {"absent", "partial", "whole"}]
      /\ key' \in [Thumb -> {"absent", "partial", "match", "other"}]
      /\ UNCHANGED <<op, todo, seen, imported, raced, ops, crashes>>
  BY DEF RemoveStep, CheckRemove, RemoveCert, CheckRemoveKey, RemoveKey, files, ghosts,
         TypeInv, TypeOK
<1>2. linked' \in [Process -> BOOLEAN]
  <2>1. linked \in [Process -> BOOLEAN]
    BY DEF TypeInv, TypeOK
  <2> QED
    BY <2>1 DEF RemoveStep, CheckRemove, RemoveCert, CheckRemoveKey, RemoveKey, Unlink
<1>3. cut' = cut \/ Renewed(T(p), "cert") \/ Renewed(T(p), "key")
  BY DEF RemoveStep, CheckRemove, RemoveCert, CheckRemoveKey, RemoveKey, ghosts
<1> QED
  BY <1>1, <1>2, <1>3, CutTypes, MoveTypes DEF TypeInv, TypeOK

(* A step of resolve, export, list or print, and a crash, keep the types.    *)
LEMMA OthersKeepTypes ==
    ASSUME TypeInv, NEW p \in Process, ReadStep(p) \/ Crash(p)
    PROVE  TypeOK'
<1> USE DEF ReadStep, ReadCert, ReadKey, ExportReadCert, ExportCheckKey, ExportWriteCert,
            ExportKey, ListDir, ListCert, ListKey, Crash
<1>0. /\ op \in [Process -> [t : Thumb, key : KeyArg]]
      /\ linked \in [Process -> BOOLEAN]
      /\ todo \in [Process -> SUBSET Thumb]
      /\ seen \in [Process -> Seen]
      /\ crashes \in Nat
  BY DEF TypeInv, TypeOK
<1>1. UNCHANGED <<cert, key, imported, raced, ops>>
  BY DEF files, ghosts
<1>2. linked' \in [Process -> BOOLEAN]
  BY <1>0
<1>6. crashes' \in Nat
  <2>1. crashes' = crashes \/ crashes' = crashes + 1
    OBVIOUS
  <2> QED
    BY <1>0, <2>1
<1>3. op' \in [Process -> [t : Thumb, key : KeyArg]]
  BY <1>0
<1>4. todo' \in [Process -> SUBSET Thumb]
  <2>1. CASE ListDir(p)
    <3>1. {t \in Thumb : cert[t] # "absent"} \in SUBSET Thumb
      OBVIOUS
    <3>2. todo' = [todo EXCEPT ![p] = {t \in Thumb : cert[t] # "absent"}]
      BY <2>1
    <3> QED
      BY <1>0, <3>1, <3>2
  <2>2. CASE ListCert(p)
    <3>1. PICK t \in todo[p] : todo' = [todo EXCEPT ![p] = @ \ {t}]
      BY <2>2
    <3>2. todo[p] \ {t} \in SUBSET Thumb
      BY <1>0
    <3> QED
      BY <1>0, <3>1, <3>2
  <2>3. CASE UNCHANGED todo
    BY <1>0, <2>3
  <2> QED
    BY <2>1, <2>2, <2>3
<1>5. seen' \in [Process -> Seen]
  BY <1>0 DEF Seen
<1>7. cut' = cut \/ CutShort(p)
  BY DEF ghosts
<1> QED
  BY <1>1, <1>2, <1>3, <1>4, <1>5, <1>6, <1>7, CutTypes, MoveTypes DEF TypeInv, TypeOK

(* A step of p leaves the labels and outcomes of the other processes alone.  *)
LEMMA OnlyPMoves ==
    ASSUME TypeOK, NEW p \in Process,
           ImportStep(p) \/ RemoveStep(p) \/ ReadStep(p) \/ Crash(p)
    PROVE  \A q \in Process \ {p} : pc'[q] = pc[q] /\ outcome'[q] = outcome[q] /\ op'[q] = op[q]
<1>1. CASE ImportStep(p)
  BY <1>1 DEF TypeOK, ImportStep, CheckCert, OpenCert, WriteCert, WriteFails, LoadKey, CheckKey, OpenKey,
              WriteKey
<1>2. CASE RemoveStep(p)
  BY <1>2 DEF TypeOK, RemoveStep, CheckRemove, RemoveCert, CheckRemoveKey, RemoveKey
<1>3. CASE ReadStep(p)
  BY <1>3 DEF TypeOK, ReadStep, ReadCert, ReadKey, ExportReadCert, ExportCheckKey,
              ExportWriteCert, ExportKey, ListDir, ListCert, ListKey
<1>4. CASE Crash(p)
  BY <1>4 DEF TypeOK, Crash
<1> QED
  BY <1>1, <1>2, <1>3, <1>4

(* Where a step that is no import takes p.                                   *)
LEMMA OthersMove ==
    ASSUME TypeOK, NEW p \in Process, RemoveStep(p) \/ ReadStep(p) \/ Crash(p)
    PROVE  pc'[p] \in {"idle", "rmCert", "rmKeyCheck", "rmKey", "rdKey", "exKeyCheck",
                       "exWrite", "exKey", "lsCert", "lsKey"}
<1>1. CASE RemoveStep(p)
  BY <1>1 DEF TypeOK, RemoveStep, CheckRemove, RemoveCert, CheckRemoveKey, RemoveKey
<1>2. CASE ReadStep(p)
  BY <1>2 DEF TypeOK, ReadStep, ReadCert, ReadKey, ExportReadCert, ExportCheckKey,
              ExportWriteCert, ExportKey, ListDir, ListCert, ListKey
<1>3. CASE Crash(p)
  BY <1>3 DEF TypeOK, Crash
<1> QED
  BY <1>1, <1>2, <1>3

(* Only LoadKey takes a process towards the key file, with a matching key.   *)
LEMMA KeyHeldStep ==
    ASSUME TypeInv, NEW p \in Process,
           ImportStep(p) \/ RemoveStep(p) \/ ReadStep(p) \/ Crash(p)
    PROVE  KeyHeld'
<1>1. \A q \in Process \ {p} : pc'[q] = pc[q] /\ op'[q] = op[q]
  BY OnlyPMoves DEF TypeInv
<1>2. pc'[p] \in {"keyCheck", "keyOpen", "keyWrite"} => op'[p].key = "match"
  <2>1. CASE ImportStep(p)
    <3>1. op[p].key \in {"none", "match", "other"}
      BY DEF TypeInv, TypeOK, KeyArg
    <3>2. CASE LoadKey(p)
      BY <3>1, <3>2 DEF LoadKey, TypeInv, TypeOK
    <3>3. CASE CheckCert(p) \/ OpenCert(p) \/ WriteCert(p) \/ WriteFails(p)
      BY <3>3 DEF CheckCert, OpenCert, WriteCert, WriteFails, TypeInv, TypeOK
    <3>4. CASE CheckKey(p) \/ OpenKey(p) \/ WriteKey(p)
      BY <3>4 DEF CheckKey, OpenKey, WriteKey, TypeInv, TypeOK, KeyHeld
    <3> QED
      BY <2>1, <3>2, <3>3, <3>4 DEF ImportStep
  <2>2. CASE RemoveStep(p) \/ ReadStep(p) \/ Crash(p)
    BY <2>2, OthersMove DEF TypeInv
  <2> QED
    BY <2>1, <2>2
<1> QED
  BY <1>1, <1>2 DEF TypeInv, KeyHeld

(* Every step is of one of these kinds.                                      *)
LEMMA StepKinds ==
    ASSUME Next
    PROVE  \E p \in Process : \/ StartCommand(p) \/ ImportStep(p) \/ RemoveStep(p)
                              \/ ReadStep(p) \/ Crash(p)
BY DEF Next, Step, ImportStep, RemoveStep, ReadStep

(* TypeInv is inductive.                                                     *)
LEMMA TypeInvariance == Spec => []TypeInv
<1>1. Init => TypeInv
  BY DEF Init, TypeInv, TypeOK, KeyHeld, Pc, KeyArg, Seen
<1>2. TypeInv /\ [Next]_vars => TypeInv'
  <2> SUFFICES ASSUME TypeInv, [Next]_vars PROVE TypeInv'
    OBVIOUS
  <2>1. CASE Next
    BY <2>1, StepKinds, StartKeepsTypes, ImportKeepsTypes, RemoveKeepsTypes, OthersKeepTypes,
       KeyHeldStep DEF TypeInv
  <2>2. CASE UNCHANGED vars
    BY <2>2 DEF TypeInv, TypeOK, KeyHeld, vars
  <2> QED
    BY <2>1, <2>2
<1> QED
  BY <1>1, <1>2, PTL DEF Spec

(* The store's files and the processes' bookkeeping keep their types in      *)
(* every interleaving of the commands of cert_store.rs.                      *)
THEOREM TypeCorrect == Spec => []TypeOK
BY TypeInvariance, PTL DEF TypeInv

-----------------------------------------------------------------------------
(* The key file.  What a process about to write a key has open is still      *)
(* partial and nobody else's.                                                *)

Writing(p) == pc[p] = "keyWrite" /\ linked[p]
KeyOpened == \A p \in Process : Writing(p) => key[T(p)] = "partial"
OneWriter == \A p, q \in Process : (Writing(p) /\ Writing(q) /\ T(p) = T(q)) => p = q
KeyInv == TypeOK /\ KeyHeld /\ KeyOpened /\ OneWriter /\ NoForeignKey

(* The types the proofs about the key file use.                              *)
LEMMA KeyTypes ==
    ASSUME TypeOK
    PROVE  /\ pc \in [Process -> Pc]
           /\ linked \in [Process -> BOOLEAN]
           /\ key \in [Thumb -> {"absent", "partial", "match", "other"}]
           /\ \A q \in Process : op[q].t \in Thumb
BY DEF TypeOK

(* A step of p that leaves the keys alone and does not make p a writer of    *)
(* its key keeps the invariant.                                              *)
LEMMA KeyFrame ==
    ASSUME KeyInv, TypeOK', KeyHeld', NEW p \in Process,
           key' = key,
           \A q \in Process \ {p} : pc'[q] = pc[q] /\ op'[q] = op[q] /\ (linked'[q] => linked[q]),
           pc'[p] # "keyWrite"
    PROVE  KeyInv'
<1>1. \A q \in Process : Writing(q)' => Writing(q) /\ T(q)' = T(q) /\ q # p
  BY DEF Writing
<1>2. KeyOpened' /\ OneWriter' /\ NoForeignKey'
  BY <1>1 DEF KeyInv, KeyOpened, OneWriter, NoForeignKey
<1> QED
  BY <1>2 DEF KeyInv

(* An import step keeps KeyInv and touches a key only when it is partial or  *)
(* absent.                                                                   *)
LEMMA ImportKeepsKey ==
    ASSUME KeyInv, TypeOK', KeyHeld', NEW p \in Process, ImportStep(p)
    PROVE  /\ KeyInv'
           /\ \A t \in Thumb : key[t] = "match" => key'[t] = "match"
<1> USE DEF files, ghosts
<1>0. /\ pc \in [Process -> Pc] /\ linked \in [Process -> BOOLEAN]
      /\ key \in [Thumb -> {"absent", "partial", "match", "other"}]
      /\ \A q \in Process : op[q].t \in Thumb
  BY KeyTypes DEF KeyInv
<1>1. CASE CheckCert(p) \/ OpenCert(p) \/ WriteCert(p) \/ WriteFails(p) \/ LoadKey(p) \/ CheckKey(p)
  <2>1. /\ key' = key /\ op' = op /\ pc'[p] # "keyWrite"
        /\ \A q \in Process \ {p} : pc'[q] = pc[q] /\ (linked'[q] => linked[q])
    BY <1>0, <1>1 DEF CheckCert, OpenCert, WriteCert, WriteFails, LoadKey, CheckKey
  <2> QED
    BY <2>1, KeyFrame
<1>2. CASE OpenKey(p) /\ key' = key /\ linked' = linked /\ pc'[p] = "idle"
  <2>1. /\ key' = key /\ op' = op /\ linked' = linked /\ pc'[p] # "keyWrite"
        /\ \A q \in Process \ {p} : pc'[q] = pc[q]
    BY <1>0, <1>2 DEF OpenKey
  <2> QED
    BY <2>1, KeyFrame
<1>3. CASE /\ OpenKey(p) /\ key[T(p)] = "absent" /\ key' = [key EXCEPT ![T(p)] = "partial"]
           /\ linked' = [linked EXCEPT ![p] = TRUE] /\ pc' = [pc EXCEPT ![p] = "keyWrite"]
  <2>1. /\ key' = [key EXCEPT ![T(p)] = "partial"] /\ op' = op
        /\ \A q \in Process \ {p} : pc'[q] = pc[q] /\ linked'[q] = linked[q]
    BY <1>0, <1>3 DEF OpenKey
  <2>2. \A q \in Process \ {p} : Writing(q)' => Writing(q) /\ T(q) # T(p)
    BY <1>3, <2>1 DEF Writing, KeyInv, KeyOpened
  <2>3. KeyOpened' /\ OneWriter' /\ NoForeignKey'
    BY <1>0, <2>1, <2>2 DEF KeyInv, Writing, KeyOpened, OneWriter, NoForeignKey
  <2> QED
    BY <1>0, <1>3, <2>1, <2>3 DEF KeyInv
<1>4. CASE WriteKey(p)
  <2>1. /\ key' = (IF linked[p] THEN [key EXCEPT ![T(p)] = "match"] ELSE key)
        /\ op' = op /\ pc'[p] # "keyWrite"
        /\ \A q \in Process \ {p} : pc'[q] = pc[q] /\ linked'[q] = linked[q]
    BY <1>0, <1>4 DEF WriteKey, KeyInv, KeyHeld
  <2>2. \A q \in Process : Writing(q)' => Writing(q) /\ q # p
    BY <2>1 DEF Writing
  <2>3. linked[p] => Writing(p)
    BY <1>4 DEF Writing, WriteKey
  <2>4. KeyOpened' /\ OneWriter' /\ NoForeignKey'
    BY <1>0, <2>1, <2>2, <2>3 DEF KeyInv, KeyOpened, OneWriter, NoForeignKey
  <2> QED
    BY <1>0, <2>1, <2>4 DEF KeyInv
<1>5. OpenKey(p) => \/ key' = key /\ linked' = linked /\ pc'[p] = "idle"
                    \/ /\ key[T(p)] = "absent" /\ key' = [key EXCEPT ![T(p)] = "partial"]
                       /\ linked' = [linked EXCEPT ![p] = TRUE] /\ pc' = [pc EXCEPT ![p] = "keyWrite"]
  BY <1>0 DEF OpenKey
<1> QED
  BY <1>1, <1>2, <1>3, <1>4, <1>5 DEF ImportStep

(* Removing the key also takes the name from whoever is writing it.          *)
LEMMA RemoveKeepsKey ==
    ASSUME KeyInv, TypeOK', KeyHeld', NEW p \in Process, RemoveStep(p)
    PROVE  /\ KeyInv'
           /\ \A t \in Thumb : key[t] = "match" => key'[t] \in {"match", "absent"}
<1> USE DEF files, ghosts
<1>0. /\ pc \in [Process -> Pc] /\ linked \in [Process -> BOOLEAN]
      /\ key \in [Thumb -> {"absent", "partial", "match", "other"}]
      /\ \A q \in Process : op[q].t \in Thumb
  BY KeyTypes DEF KeyInv
<1>1. op' = op /\ pc'[p] # "keyWrite" /\ \A q \in Process \ {p} : pc'[q] = pc[q]
  BY <1>0 DEF RemoveStep, CheckRemove, RemoveCert, CheckRemoveKey, RemoveKey
<1>2. \A q \in Process : linked'[q] => linked[q]
  BY <1>0 DEF RemoveStep, CheckRemove, RemoveCert, CheckRemoveKey, RemoveKey, Unlink
<1>3. CASE key' = key
  BY <1>1, <1>2, <1>3, KeyFrame
<1>4. CASE key' # key
  <2>1. /\ key' = [key EXCEPT ![T(p)] = "absent"]
        /\ \A q \in Process : (pc[q] = "keyWrite" /\ linked'[q]) => T(q) # T(p)
    BY <1>0, <1>4 DEF RemoveStep, CheckRemove, RemoveCert, CheckRemoveKey, RemoveKey, Unlink
  <2>2. \A q \in Process : Writing(q)' => Writing(q) /\ T(q) # T(p)
    BY <1>1, <1>2, <2>1 DEF Writing
  <2>3. KeyOpened' /\ OneWriter' /\ NoForeignKey'
    BY <1>0, <1>1, <2>1, <2>2 DEF KeyInv, KeyOpened, OneWriter, NoForeignKey
  <2> QED
    BY <1>0, <2>1, <2>3 DEF KeyInv
<1> QED
  BY <1>3, <1>4

(* The other steps leave every key alone.                                    *)
LEMMA OthersKeepKey ==
    ASSUME KeyInv, TypeOK', KeyHeld', NEW p \in Process, StartCommand(p) \/ ReadStep(p) \/ Crash(p)
    PROVE  KeyInv' /\ key' = key
<1>0. pc \in [Process -> Pc] /\ linked \in [Process -> BOOLEAN] /\ DOMAIN op = Process
  BY DEF KeyInv, TypeOK
<1>1. CASE StartCommand(p)
  <2>1. PICK t \in Thumb, k \in KeyArg,
             l \in {"certCheck", "rmCheck", "rdCert", "lsCert", "lsDir", "exCert"} : Start(p, l, t, k)
    BY <1>1 DEF StartCommand, KeyArg
  <2>2. /\ key' = key /\ linked' = linked
        /\ \A q \in Process \ {p} : pc'[q] = pc[q] /\ op'[q] = op[q]
        /\ pc'[p] # "keyWrite"
    BY <1>0, <2>1 DEF Start, files
  <2> QED
    BY <2>2, KeyFrame
<1>2. CASE ReadStep(p) \/ Crash(p)
  <2>1. key' = key
    BY <1>2 DEF ReadStep, ReadCert, ReadKey, ExportReadCert, ExportCheckKey, ExportWriteCert,
                ExportKey, ListDir, ListCert, ListKey, Crash, files
  <2>2. \A q \in Process \ {p} : linked'[q] => linked[q]
    BY <1>0, <1>2 DEF ReadStep, ReadCert, ReadKey, ExportReadCert, ExportCheckKey, ExportWriteCert,
                      ExportKey, ListDir, ListCert, ListKey, Crash
  <2>3. /\ pc'[p] # "keyWrite"
        /\ \A q \in Process \ {p} : pc'[q] = pc[q] /\ op'[q] = op[q]
    BY <1>2, OnlyPMoves, OthersMove DEF KeyInv
  <2> QED
    BY <2>1, <2>2, <2>3, KeyFrame
<1> QED
  BY <1>1, <1>2

(* KeyInv is an invariant of the store.                                      *)
LEMMA KeyInvariance == Spec => []KeyInv
<1>1. Init => KeyInv
  BY DEF Init, KeyInv, TypeOK, KeyHeld, Writing, KeyOpened, OneWriter, NoForeignKey, Pc, KeyArg, Seen
<1>2. KeyInv /\ TypeInv' /\ [Next]_vars => KeyInv'
  <2> SUFFICES ASSUME KeyInv, TypeInv', [Next]_vars PROVE KeyInv'
    OBVIOUS
  <2>1. CASE Next
    BY <2>1, StepKinds, ImportKeepsKey, RemoveKeepsKey, OthersKeepKey DEF TypeInv
  <2>2. CASE UNCHANGED vars
    BY <2>2 DEF KeyInv, TypeInv, KeyHeld, Writing, KeyOpened, OneWriter, NoForeignKey, vars
  <2> QED
    BY <2>1, <2>2
<1> QED
  BY <1>1, <1>2, TypeInvariance, PTL DEF Spec

(* No complete key ever lies beside a certificate it does not belong to:     *)
(* ensure_key_matches_cert guards every path to write_private_key_file.      *)
THEOREM NoForeignKeyAlways == Spec => []NoForeignKey
BY KeyInvariance, PTL DEF KeyInv

(* create_new makes a complete key immutable until a remove deletes it, with *)
(* any number of importers racing for the same thumbprint.                   *)
THEOREM KeyIsStableAlways == Spec => KeyIsStable
<1>1. KeyInv /\ TypeInv' /\ [Next]_vars =>
        [\A t \in Thumb : key[t] = "match" => key'[t] \in {"match", "absent"}]_vars
  <2> SUFFICES ASSUME KeyInv, TypeInv', Next
               PROVE  \A t \in Thumb : key[t] = "match" => key'[t] \in {"match", "absent"}
    OBVIOUS
  <2> QED
    BY StepKinds, ImportKeepsKey, RemoveKeepsKey, OthersKeepKey DEF TypeInv
<1> QED
  BY <1>1, KeyInvariance, TypeInvariance, PTL DEF Spec, KeyIsStable

-----------------------------------------------------------------------------
(* Removal.  A remove that no import overlaps is alone with its certificate, *)
(* which is gone once RemoveCert was taken.                                  *)

Pending == \A p \in Process : pc[p] # "idle" => outcome[p] = "none"
Unrivalled ==
    \A p, q \in Process :
        (pc[p] \in Removing /\ ~raced[p] /\ pc[q] \in Importing) => T(q) # T(p)
CertGone ==
    \A p \in Process :
        (pc[p] \in {"rmKeyCheck", "rmKey"} /\ ~raced[p]) => cert[T(p)] = "absent"
RemoveInv == TypeOK /\ Pending /\ Unrivalled /\ CertGone

(* A step of p that keeps every other process where it is, does not bring p  *)
(* into an import or a remove, and leaves the certificates alone.            *)
LEMMA RemoveFrame ==
    ASSUME RemoveInv, TypeOK', NEW p \in Process,
           cert' = cert, raced' = raced,
           \A q \in Process \ {p} : pc'[q] = pc[q] /\ op'[q] = op[q] /\ outcome'[q] = outcome[q],
           pc'[p] \notin Importing \union Removing,
           pc'[p] # "idle" => outcome'[p] = "none"
    PROVE  RemoveInv'
<1>1. Pending'
  BY DEF RemoveInv, Pending
<1>2. \A q \in Process : pc'[q] \in Importing \union Removing => q # p /\ T(q)' = T(q)
  OBVIOUS
<1>3. Unrivalled'
  BY <1>2 DEF RemoveInv, Unrivalled
<1>4. CertGone'
  BY <1>2 DEF RemoveInv, CertGone, Removing
<1> QED
  BY <1>1, <1>3, <1>4 DEF RemoveInv

(* A new import marks the removes it overlaps, a new remove marks itself.    *)
LEMMA StartKeepsRemove ==
    ASSUME RemoveInv, TypeOK', NEW p \in Process, StartCommand(p)
    PROVE  RemoveInv'
<1>1. PICK t \in Thumb, k \in KeyArg, l \in {"certCheck", "rmCheck", "rdCert", "lsCert", "lsDir", "exCert"} :
          Start(p, l, t, k)
  BY DEF StartCommand, KeyArg
<1>2. /\ pc[p] = "idle"
      /\ pc' = [pc EXCEPT ![p] = l]
      /\ op' = [op EXCEPT ![p] = [t |-> t, key |-> k]]
      /\ outcome' = [outcome EXCEPT ![p] = "none"]
      /\ cert' = cert
      /\ raced' = [q \in Process |-> IF q = p THEN Overlaps(t, Rivals(l))
                                     ELSE raced[q] \/ (pc[q] \in Rivals(l) /\ T(q) = t)]
  BY <1>1 DEF Start, files
<1>3. \A q \in Process \ {p} :
        /\ pc'[q] = pc[q] /\ op'[q] = op[q] /\ outcome'[q] = outcome[q]
        /\ ~raced'[q] => ~raced[q] /\ ~(pc[q] \in Rivals(l) /\ T(q) = t)
  BY <1>2 DEF RemoveInv, TypeOK
<1>4. pc'[p] = l /\ T(p)' = t /\ outcome'[p] = "none"
  BY <1>2 DEF RemoveInv, TypeOK
<1>5. ~raced'[p] => \A q \in Process : ~(pc[q] \in Rivals(l) /\ T(q) = t)
  BY <1>2 DEF Overlaps
<1>6. Pending'
  BY <1>3, <1>4 DEF RemoveInv, Pending
<1>7. CertGone'
  BY <1>1, <1>2, <1>3, <1>4 DEF RemoveInv, CertGone
<1>8. Unrivalled'
  <2> SUFFICES ASSUME NEW r \in Process, NEW q \in Process,
                      pc'[r] \in Removing, ~raced'[r], pc'[q] \in Importing
               PROVE  T(q)' # T(r)'
    BY DEF Unrivalled
  <2>1. CASE r = p
    <3>1. l = "rmCheck" /\ q # p
      BY <2>1, <1>1, <1>4 DEF Removing, Importing
    <3> QED
      BY <3>1, <2>1, <1>3, <1>4, <1>5 DEF Rivals
  <2>2. CASE r # p /\ q = p
    <3>1. l = "certCheck"
      BY <2>2, <1>1, <1>4 DEF Importing
    <3> QED
      BY <3>1, <2>2, <1>3, <1>4 DEF Rivals
  <2>3. CASE r # p /\ q # p
    BY <2>3, <1>3 DEF RemoveInv, Unrivalled
  <2> QED
    BY <2>1, <2>2, <2>3
<1> QED
  BY <1>6, <1>7, <1>8 DEF RemoveInv

(* An import step stays away from the certificate of an unraced remove.      *)
LEMMA ImportKeepsRemove ==
    ASSUME RemoveInv, TypeOK', NEW p \in Process, ImportStep(p)
    PROVE  RemoveInv'
<1>0. /\ pc \in [Process -> Pc] /\ cert \in [Thumb -> {"absent", "partial", "whole"}]
      /\ outcome \in [Process -> {"none", "ok", "error", "killed"}]
      /\ \A q \in Process : op[q].t \in Thumb
  BY DEF RemoveInv, TypeOK
<1> USE DEF ImportStep, CheckCert, OpenCert, WriteCert, WriteFails, LoadKey, CheckKey, OpenKey, WriteKey
<1>1. pc[p] \in Importing /\ op' = op /\ raced' = raced
  BY DEF ghosts, Importing
<1>2. pc'[p] \in Importing \union {"idle"}
  BY <1>0 DEF Importing
<1>3. pc'[p] # "idle" => outcome'[p] = outcome[p]
  BY <1>0
<1>4. \A t \in Thumb : t # T(p) => cert'[t] = cert[t]
  BY <1>0 DEF files
<1>5. \A q \in Process \ {p} : pc'[q] = pc[q] /\ outcome'[q] = outcome[q]
  BY OnlyPMoves DEF RemoveInv
<1>6. Pending'
  BY <1>1, <1>3, <1>5 DEF RemoveInv, Pending, Importing
<1>7. \A q \in Process : pc'[q] \in Removing => q # p /\ pc[q] \in Removing
  BY <1>2, <1>5 DEF Importing, Removing
<1>8. \A q \in Process : pc'[q] \in Importing => pc[q] \in Importing
  BY <1>1, <1>5
<1>9. Unrivalled'
  BY <1>1, <1>7, <1>8 DEF RemoveInv, Unrivalled
<1>10. CertGone'
  <2> SUFFICES ASSUME NEW q \in Process, pc'[q] \in {"rmKeyCheck", "rmKey"}, ~raced'[q]
               PROVE  cert'[T(q)'] = "absent"
    BY DEF CertGone
  <2>1. pc[q] = pc'[q] /\ pc[q] \in Removing
    BY <1>5, <1>7 DEF Removing
  <2>2. T(q)' = T(q) /\ T(p) # T(q)
    BY <1>1, <2>1 DEF RemoveInv, Unrivalled
  <2> QED
    BY <1>0, <1>1, <1>4, <2>1, <2>2 DEF RemoveInv, CertGone
<1> QED
  BY <1>6, <1>9, <1>10 DEF RemoveInv

(* A remove step only deletes, and ends with both files gone.                *)
LEMMA RemoveKeepsRemove ==
    ASSUME RemoveInv, TypeOK', NEW p \in Process, RemoveStep(p)
    PROVE  RemoveInv' /\ RemovedClean(p)
<1>0. /\ pc \in [Process -> Pc] /\ cert \in [Thumb -> {"absent", "partial", "whole"}]
      /\ key \in [Thumb -> {"absent", "partial", "match", "other"}]
      /\ outcome \in [Process -> {"none", "ok", "error", "killed"}]
      /\ \A q \in Process : op[q].t \in Thumb
  BY DEF RemoveInv, TypeOK
<1>a. outcome[p] = "none"
  BY DEF RemoveInv, Pending, RemoveStep, CheckRemove, RemoveCert, CheckRemoveKey, RemoveKey
<1> USE DEF RemoveStep, CheckRemove, RemoveCert, CheckRemoveKey, RemoveKey
<1>1. pc[p] \in Removing /\ op' = op /\ raced' = raced
  BY DEF ghosts, Removing
<1>2. pc'[p] \in {"rmCert", "rmKeyCheck", "rmKey", "idle"}
  BY <1>0
<1>3. pc'[p] # "idle" => outcome'[p] = outcome[p]
  BY <1>0
<1>4. \A t \in Thumb : cert'[t] = cert[t] \/ cert'[t] = "absent"
  BY <1>0 DEF files
<1>5. \A q \in Process \ {p} : pc'[q] = pc[q] /\ outcome'[q] = outcome[q]
  BY OnlyPMoves DEF RemoveInv
<1>6. Pending'
  BY <1>a, <1>3, <1>5 DEF RemoveInv, Pending
<1>7. \A q \in Process : /\ pc'[q] \in Removing => pc[q] \in Removing
                         /\ pc'[q] \in Importing => pc[q] \in Importing
  BY <1>1, <1>2, <1>5 DEF Importing
<1>8. Unrivalled'
  BY <1>1, <1>7 DEF RemoveInv, Unrivalled
<1>9. pc'[p] \in {"rmKeyCheck", "rmKey"} /\ ~raced[p] => cert'[T(p)] = "absent"
  BY <1>0 DEF RemoveInv, CertGone, files
<1>10. CertGone'
  BY <1>0, <1>1, <1>4, <1>5, <1>9 DEF RemoveInv, CertGone
<1>11. RemovedClean(p)
  BY <1>0, <1>a DEF RemoveInv, CertGone, RemovedClean, files
<1> QED
  BY <1>6, <1>8, <1>10, <1>11 DEF RemoveInv

(* A command that only reads, and a crash, keep the invariant.               *)
LEMMA OthersKeepRemove ==
    ASSUME RemoveInv, TypeOK', NEW p \in Process, ReadStep(p) \/ Crash(p)
    PROVE  RemoveInv' /\ ~(pc[p] \in Removing /\ outcome'[p] = "ok")
<1>0. /\ pc \in [Process -> Pc]
      /\ outcome \in [Process -> {"none", "ok", "error", "killed"}]
  BY DEF RemoveInv, TypeOK
<1>1. \A q \in Process \ {p} : pc'[q] = pc[q] /\ outcome'[q] = outcome[q] /\ op'[q] = op[q]
  BY OnlyPMoves DEF RemoveInv
<1> USE DEF ReadStep, ReadCert, ReadKey, ExportReadCert, ExportCheckKey, ExportWriteCert,
            ExportKey, ListDir, ListCert, ListKey, Crash
<1>2. cert' = cert /\ raced' = raced
  BY DEF files, ghosts
<1>3. pc'[p] \in {"idle", "rdKey", "exKeyCheck", "exWrite", "exKey", "lsCert", "lsKey"}
  BY <1>0
<1>4. pc'[p] # "idle" => outcome'[p] = outcome[p] /\ pc[p] # "idle"
  BY <1>0
<1>5. RemoveInv'
  <2>1. pc'[p] \notin Importing \union Removing
    BY <1>3 DEF Importing, Removing
  <2>2. pc'[p] # "idle" => outcome'[p] = "none"
    BY <1>4 DEF RemoveInv, Pending
  <2> QED
    BY <1>1, <1>2, <2>1, <2>2, RemoveFrame
<1>6. ~(pc[p] \in Removing /\ outcome'[p] = "ok")
  BY <1>0 DEF Removing
<1> QED
  BY <1>5, <1>6

(* RemoveInv is an invariant of the store.                                   *)
LEMMA RemoveInvariance == Spec => []RemoveInv
<1>1. Init => RemoveInv
  BY DEF Init, RemoveInv, TypeOK, Pending, Unrivalled, CertGone, Pc, KeyArg, Seen, Removing
<1>2. RemoveInv /\ TypeOK' /\ [Next]_vars => RemoveInv'
  <2> SUFFICES ASSUME RemoveInv, TypeOK', [Next]_vars PROVE RemoveInv'
    OBVIOUS
  <2>1. CASE Next
    BY <2>1, StepKinds, StartKeepsRemove, ImportKeepsRemove, RemoveKeepsRemove, OthersKeepRemove
  <2>2. CASE UNCHANGED vars
    BY <2>2 DEF RemoveInv, TypeOK, Pending, Unrivalled, CertGone, vars
  <2> QED
    BY <2>1, <2>2
<1> QED
  BY <1>1, <1>2, TypeCorrect, PTL DEF Spec

(* A remove_cert that reports success with no import of the same thumbprint  *)
(* beside it has left neither file, after any history of crashes and with    *)
(* any number of other removes.                                              *)
THEOREM RemoveLeavesNothingAlways == Spec => RemoveLeavesNothing
<1>1. RemoveInv /\ TypeOK' /\ [Next]_vars => [\A p \in Process : RemovedClean(p)]_vars
  <2> SUFFICES ASSUME RemoveInv, TypeOK', Next, NEW p \in Process
               PROVE  RemovedClean(p)
    OBVIOUS
  <2>1. PICK q \in Process : \/ StartCommand(q) \/ ImportStep(q) \/ RemoveStep(q)
                             \/ ReadStep(q) \/ Crash(q)
    BY StepKinds
  <2>2. CASE p # q
    <3>0. outcome \in [Process -> {"none", "ok", "error", "killed"}]
      BY DEF RemoveInv, TypeOK
    <3>a. StartCommand(q) => outcome'[p] = outcome[p]
      BY <2>2, <3>0 DEF StartCommand, Start
    <3>1. outcome'[p] = outcome[p]
      BY <2>1, <2>2, <3>a, OnlyPMoves DEF RemoveInv
    <3> QED
      BY <3>1 DEF RemovedClean, RemoveInv, Pending, Removing
  <2>3. CASE p = q /\ (RemoveStep(q) \/ ReadStep(q) \/ Crash(q))
    BY <2>3, RemoveKeepsRemove, OthersKeepRemove DEF RemovedClean
  <2>4. CASE p = q /\ (StartCommand(q) \/ ImportStep(q))
    <3>1. pc[q] \notin Removing
      BY <2>4 DEF StartCommand, Start, ImportStep, CheckCert, OpenCert, WriteCert, WriteFails, LoadKey,
                  CheckKey, OpenKey, WriteKey, Removing
    <3> QED
      BY <3>1, <2>4 DEF RemovedClean
  <2> QED
    BY <2>1, <2>2, <2>3, <2>4
<1> QED
  BY <1>1, RemoveInvariance, TypeCorrect, PTL DEF Spec, RemoveLeavesNothing

(* The stored keys are sound, for any number of processes and kills.         *)
THEOREM StoreIsSoundAlways == Spec => StoreIsSound
BY NoForeignKeyAlways, KeyIsStableAlways, RemoveLeavesNothingAlways, PTL DEF StoreIsSound

-----------------------------------------------------------------------------
(* Imports.  An import that no remove overlaps is alone with its thumbprint, *)
(* and so is a thumbprint once such an import has ended: nobody takes its    *)
(* files away.  A partial file has a writer at work, or its write was cut     *)
(* short.                                                                    *)

ImportAlone ==
    \A p, q \in Process :
        (pc[p] \in Importing /\ ~raced[p] /\ pc[q] \in Removing) => T(q) # T(p)
ImportedAlone ==
    \A t \in Thumb, q \in Process : (imported[t] /\ pc[q] \in Removing) => T(q) # t
FilesThere ==
    \A p \in Process : ~raced[p] =>
        /\ pc[p] \in Importing \ {"certCheck", "certOpen"} => cert[T(p)] # "absent"
        /\ pc[p] = "keyWrite" => key[T(p)] # "absent"
ImportedThere == \A t \in Thumb : imported[t] => cert[t] # "absent" /\ key[t] # "absent"
CertCompleted ==
    \A t \in Thumb : cert[t] = "partial" =>
        \/ "cert" \in cut[t]
        \/ \E q \in Process : pc[q] = "certWrite" /\ linked[q] /\ T(q) = t
KeyCompleted ==
    \A t \in Thumb : key[t] = "partial" =>
        \/ "key" \in cut[t]
        \/ \E q \in Process : Writing(q) /\ T(q) = t
UsableInv == ImportAlone /\ ImportedAlone /\ FilesThere /\ ImportedThere
                /\ CertCompleted /\ KeyCompleted

(* A new remove marks the imports it overlaps and takes back what was        *)
(* imported, a new import marks itself.                                      *)
LEMMA StartKeepsUsable ==
    ASSUME TypeOK, UsableInv, NEW p \in Process, StartCommand(p)
    PROVE  UsableInv'
<1>1. PICK t \in Thumb, k \in KeyArg, l \in {"certCheck", "rmCheck", "rdCert", "lsCert", "lsDir", "exCert"} :
          Start(p, l, t, k)
  BY DEF StartCommand, KeyArg
<1>2. /\ pc[p] = "idle" /\ cert' = cert /\ key' = key /\ linked' = linked /\ cut' = cut
      /\ raced' = [q \in Process |-> IF q = p THEN Overlaps(t, Rivals(l))
                                     ELSE raced[q] \/ (pc[q] \in Rivals(l) /\ T(q) = t)]
      /\ imported' = IF l = "rmCheck" THEN [imported EXCEPT ![t] = FALSE] ELSE imported
  BY <1>1 DEF Start, files
<1>3. \A q \in Process \ {p} :
        /\ pc'[q] = pc[q] /\ op'[q] = op[q]
        /\ ~raced'[q] => ~raced[q] /\ ~(pc[q] \in Rivals(l) /\ T(q) = t)
  BY <1>1, <1>2 DEF TypeOK, Start
<1>4. pc'[p] = l /\ T(p)' = t
  BY <1>1 DEF TypeOK, Start
<1>5. ~raced'[p] => \A q \in Process : ~(pc[q] \in Rivals(l) /\ T(q) = t)
  BY <1>2 DEF Overlaps
<1>6. ImportAlone'
  <2> SUFFICES ASSUME NEW r \in Process, NEW q \in Process,
                      pc'[r] \in Importing, ~raced'[r], pc'[q] \in Removing
               PROVE  T(q)' # T(r)'
    BY DEF ImportAlone
  <2>1. CASE r = p
    <3>1. l = "certCheck" /\ q # p
      BY <2>1, <1>1, <1>4 DEF Removing, Importing
    <3> QED
      BY <3>1, <2>1, <1>3, <1>4, <1>5 DEF Rivals
  <2>2. CASE r # p /\ q = p
    <3>1. l = "rmCheck"
      BY <2>2, <1>1, <1>4 DEF Removing
    <3> QED
      BY <3>1, <2>2, <1>3, <1>4 DEF Rivals
  <2>3. CASE r # p /\ q # p
    BY <2>3, <1>3 DEF UsableInv, ImportAlone
  <2> QED
    BY <2>1, <2>2, <2>3
<1>7. \A s \in Thumb : imported'[s] => imported[s] /\ ~(l = "rmCheck" /\ s = t)
  BY <1>2 DEF TypeOK
<1>8. ImportedAlone'
  <2> SUFFICES ASSUME NEW s \in Thumb, NEW q \in Process, imported'[s], pc'[q] \in Removing
               PROVE  T(q)' # s
    BY DEF ImportedAlone
  <2>1. CASE q = p
    BY <1>1, <1>4, <1>7, <2>1 DEF Removing
  <2>2. CASE q # p
    BY <1>3, <1>7, <2>2 DEF UsableInv, ImportedAlone
  <2> QED
    BY <2>1, <2>2
<1>9. FilesThere'
  <2>1. pc'[p] \notin Importing \ {"certCheck", "certOpen"} /\ pc'[p] # "keyWrite"
    BY <1>1, <1>4 DEF Importing
  <2> QED
    BY <1>2, <1>3, <2>1 DEF UsableInv, FilesThere
<1>10. ImportedThere'
  BY <1>2, <1>7 DEF UsableInv, ImportedThere
<1>11. CertCompleted' /\ KeyCompleted'
  <2>1. \A q \in Process : pc[q] \in {"certWrite", "keyWrite"} => pc'[q] = pc[q] /\ op'[q] = op[q]
    BY <1>2, <1>3
  <2> QED
    BY <1>2, <2>1 DEF UsableInv, CertCompleted, KeyCompleted, Writing
<1> QED
  BY <1>6, <1>8, <1>9, <1>10, <1>11 DEF UsableInv

(* CutShort records what p has open.                                         *)
LEMMA CutNow ==
    ASSUME TypeOK, NEW p \in Process, CutShort(p)
    PROVE  /\ (pc[p] = "certWrite" /\ linked[p] /\ cert[T(p)] = "partial") => "cert" \in cut'[T(p)]
           /\ (pc[p] = "keyWrite" /\ linked[p]) => "key" \in cut'[T(p)]
           /\ \A t \in Thumb : cut[t] \subseteq cut'[t]
<1>0. cut \in [Thumb -> SUBSET {"cert", "key"}] /\ T(p) \in Thumb
  BY DEF TypeOK
<1> DEFINE more == {f \in {"cert", "key"} :
                     /\ linked[p]
                     /\ \/ f = "cert" /\ pc[p] = "certWrite" /\ cert[T(p)] = "partial"
                        \/ f = "key" /\ pc[p] = "keyWrite"}
<1>1. cut' = [cut EXCEPT ![T(p)] = @ \cup more]
  BY DEF CutShort
<1>2. /\ (pc[p] = "certWrite" /\ linked[p] /\ cert[T(p)] = "partial") => "cert" \in more
      /\ (pc[p] = "keyWrite" /\ linked[p]) => "key" \in more
  OBVIOUS
<1> HIDE DEF more
<1> QED
  BY <1>0, <1>1, <1>2

(* The mark of a file cut short goes only when the file is no longer partial. *)
LEMMA CutStays ==
    ASSUME KeyInv, NEW p \in Process, ImportStep(p) \/ RemoveStep(p) \/ ReadStep(p) \/ Crash(p),
           NEW t \in Thumb
    PROVE  /\ ("cert" \in cut[t] /\ cert'[t] = "partial") => "cert" \in cut'[t]
           /\ ("key" \in cut[t] /\ key'[t] = "partial") => "key" \in cut'[t]
<1>0. /\ TypeOK /\ KeyHeld /\ cut \in [Thumb -> SUBSET {"cert", "key"}]
      /\ cert \in [Thumb -> {"absent", "partial", "whole"}]
      /\ key \in [Thumb -> {"absent", "partial", "match", "other"}]
      /\ T(p) \in Thumb
  BY DEF KeyInv, TypeOK
<1>1. CASE CutShort(p)
  BY <1>0, <1>1, CutNow
<1>2. CASE cut' = cut
  BY <1>2
<1>3. CASE Renewed(T(p), "cert") /\ cert'[T(p)] # "partial"
  BY <1>0, <1>3 DEF Renewed
<1>4. CASE Renewed(T(p), "key") /\ key'[T(p)] # "partial"
  BY <1>0, <1>4 DEF Renewed
<1>5. WriteCert(p) => cut' = cut \/ (Renewed(T(p), "cert") /\ cert'[T(p)] # "partial")
  BY <1>0 DEF WriteCert
<1>6. WriteKey(p) => cut' = cut \/ (Renewed(T(p), "key") /\ key'[T(p)] # "partial")
  <2>1. WriteKey(p) => op[p].key = "match"
    BY <1>0 DEF WriteKey, KeyHeld
  <2> QED
    BY <1>0, <2>1 DEF WriteKey
<1>7. RemoveStep(p) => \/ cut' = cut
                       \/ Renewed(T(p), "cert") /\ cert'[T(p)] # "partial"
                       \/ Renewed(T(p), "key") /\ key'[T(p)] # "partial"
  BY <1>0 DEF RemoveStep, CheckRemove, RemoveCert, CheckRemoveKey, RemoveKey, ghosts
<1>8. ImportStep(p) => \/ WriteCert(p) \/ WriteKey(p) \/ CutShort(p) \/ cut' = cut
  BY DEF ImportStep, CheckCert, OpenCert, WriteFails, LoadKey, CheckKey, OpenKey, ghosts
<1>9. ReadStep(p) \/ Crash(p) => CutShort(p) \/ cut' = cut
  BY DEF ReadStep, ReadCert, ReadKey, ExportReadCert, ExportCheckKey, ExportWriteCert,
         ExportKey, ListDir, ListCert, ListKey, Crash, ghosts
<1> QED
  BY <1>1, <1>2, <1>3, <1>4, <1>5, <1>6, <1>7, <1>8, <1>9

(* What an import step does to the files of its thumbprint.                  *)
LEMMA ImportFlow ==
    ASSUME TypeOK, KeyHeld, NEW p \in Process, ImportStep(p)
    PROVE  /\ pc[p] \in Importing /\ UNCHANGED <<op, raced, crashes>>
           /\ \A t \in Thumb : t # T(p) => cert'[t] = cert[t] /\ key'[t] = key[t]
           /\ \A q \in Process \ {p} : linked'[q] = linked[q]
           /\ cert'[T(p)] = "absent" => cert[T(p)] = "absent"
           /\ key'[T(p)] = "absent" => key[T(p)] = "absent"
           /\ \/ pc'[p] = "idle" \/ pc'[p] = "certOpen"
              \/ pc'[p] = "certWrite" /\ cert'[T(p)] = "partial" /\ linked'[p]
              \/ pc'[p] = "keyLoad" /\ (cert'[T(p)] # "absent" \/ pc[p] = "certWrite")
              \/ pc'[p] \in {"keyCheck", "keyOpen"} /\ pc[p] \in {"keyLoad", "keyCheck"}
              \/ pc'[p] = "keyWrite" /\ key'[T(p)] = "partial" /\ linked'[p] /\ pc[p] = "keyOpen"
           /\ \/ imported' = imported
              \/ /\ pc[p] \in {"keyCheck", "keyWrite"}
                 /\ pc[p] = "keyCheck" => key'[T(p)] # "absent"
                 /\ \A t \in Thumb : imported'[t] => imported[t] \/ (t = T(p) /\ ~raced[p])
           /\ cert' = cert \/ (pc'[p] = "certWrite" /\ linked'[p])
                \/ (pc[p] = "certWrite" /\ linked[p] /\ cert'[T(p)] = "whole")
           /\ key' = key \/ (pc'[p] = "keyWrite" /\ linked'[p])
                \/ (pc[p] = "keyWrite" /\ linked[p] /\ key'[T(p)] = "match")
           /\ (pc[p] = "certWrite" /\ linked[p])
                => (cert'[T(p)] = "partial" => "cert" \in cut'[T(p)])
           /\ (pc[p] = "keyWrite" /\ linked[p])
                => (key'[T(p)] = "partial" => "key" \in cut'[T(p)])
<1>0. /\ pc \in [Process -> Pc] /\ linked \in [Process -> BOOLEAN]
      /\ cert \in [Thumb -> {"absent", "partial", "whole"}]
      /\ key \in [Thumb -> {"absent", "partial", "match", "other"}]
      /\ imported \in [Thumb -> BOOLEAN] /\ raced[p] \in BOOLEAN
      /\ \A q \in Process : op[q].t \in Thumb
  BY DEF TypeOK
<1> USE DEF files, ghosts, Importing
<1>1. CASE CheckCert(p)
  BY <1>0, <1>1 DEF CheckCert
<1>2. CASE OpenCert(p)
  BY <1>0, <1>2 DEF OpenCert
<1>3. CASE WriteCert(p)
  BY <1>0, <1>3 DEF WriteCert
<1>4. CASE LoadKey(p)
  BY <1>0, <1>4 DEF LoadKey
<1>8. CASE WriteFails(p)
  <2>1. /\ pc'[p] = "idle" /\ cert' = cert /\ key' = key /\ pc[p] \in {"certWrite", "keyWrite"}
        /\ imported' = imported
        /\ UNCHANGED <<op, raced, crashes>> /\ \A q \in Process \ {p} : linked'[q] = linked[q]
    BY <1>0, <1>8 DEF WriteFails
  <2>2. /\ (pc[p] = "certWrite" /\ linked[p] /\ cert[T(p)] = "partial") => "cert" \in cut'[T(p)]
        /\ (pc[p] = "keyWrite" /\ linked[p]) => "key" \in cut'[T(p)]
    BY <1>8, CutNow DEF WriteFails
  <2> QED
    BY <2>1, <2>2
<1>5. CASE CheckKey(p)
  BY <1>0, <1>5 DEF CheckKey, RecordImport
<1>6. CASE OpenKey(p)
  BY <1>0, <1>6 DEF OpenKey
<1>7. CASE WriteKey(p)
  <2>1. op[p].key = "match"
    BY <1>7 DEF WriteKey, KeyHeld
  <2> QED
    BY <1>0, <1>7, <2>1 DEF WriteKey, RecordImport
<1> QED
  BY <1>1, <1>2, <1>3, <1>4, <1>5, <1>6, <1>7, <1>8 DEF ImportStep

LEMMA ImportKeepsUsable ==
    ASSUME KeyInv, UsableInv, NEW p \in Process, ImportStep(p)
    PROVE  UsableInv'
<1>0. TypeOK /\ KeyHeld /\ \A q \in Process : op[q].t \in Thumb
  BY DEF KeyInv, TypeOK
<1>1. \A q \in Process \ {p} : pc'[q] = pc[q] /\ op'[q] = op[q]
  BY <1>0, OnlyPMoves
<1>2. pc[p] \in Importing /\ pc'[p] \in Importing \cup {"idle"} /\ UNCHANGED <<op, raced, crashes>>
  BY <1>0, ImportFlow DEF Importing
<1>3. \A q \in Process : /\ pc'[q] \in Removing => pc[q] \in Removing
                         /\ pc'[q] \in Importing => pc[q] \in Importing
  BY <1>1, <1>2 DEF Importing, Removing
<1>4. ImportAlone'
  BY <1>2, <1>3 DEF UsableInv, ImportAlone
<1>5. ImportedAlone'
  <2>1. SUFFICES ASSUME NEW t \in Thumb, NEW q \in Process, imported'[t], pc'[q] \in Removing
                 PROVE  T(q) # t
    BY <1>2 DEF ImportedAlone
  <2>2. imported[t] \/ (t = T(p) /\ ~raced[p])
    BY <1>0, <2>1, ImportFlow
  <2> QED
    BY <1>2, <1>3, <2>1, <2>2 DEF UsableInv, ImportAlone, ImportedAlone
<1>6. \A t \in Thumb : /\ cert'[t] = "absent" => cert[t] = "absent"
                       /\ key'[t] = "absent" => key[t] = "absent"
  BY <1>0, ImportFlow
<1>7. FilesThere'
  <2>1. SUFFICES ASSUME NEW q \in Process, ~raced[q]
                 PROVE  /\ pc'[q] \in Importing \ {"certCheck", "certOpen"} => cert'[T(q)] # "absent"
                        /\ pc'[q] = "keyWrite" => key'[T(q)] # "absent"
    BY <1>2 DEF FilesThere
  <2>2. /\ pc[q] \in Importing \ {"certCheck", "certOpen"} => cert[T(q)] # "absent"
        /\ pc[q] = "keyWrite" => key[T(q)] # "absent"
    BY <2>1 DEF UsableInv, FilesThere
  <2>3. CASE q # p
    BY <1>0, <1>1, <1>6, <2>2, <2>3
  <2>4. CASE q = p
    BY <1>0, <1>2, <1>6, <2>2, <2>4, ImportFlow DEF Importing
  <2> QED
    BY <2>3, <2>4
<1>8. ImportedThere'
  <2>1. SUFFICES ASSUME NEW t \in Thumb, imported'[t]
                 PROVE  cert'[t] # "absent" /\ key'[t] # "absent"
    BY DEF ImportedThere
  <2>2. CASE imported[t]
    BY <1>6, <2>2 DEF UsableInv, ImportedThere
  <2>3. CASE ~imported[t]
    <3>1. /\ t = T(p) /\ ~raced[p] /\ pc[p] \in {"keyCheck", "keyWrite"}
          /\ pc[p] = "keyCheck" => key'[T(p)] # "absent"
      BY <1>0, <2>1, <2>3, ImportFlow
    <3>2. cert[T(p)] # "absent" /\ (pc[p] = "keyWrite" => key[T(p)] # "absent")
      BY <3>1 DEF UsableInv, FilesThere, Importing
    <3> QED
      BY <1>0, <1>6, <3>1, <3>2
  <2> QED
    BY <2>2, <2>3
<1>9. CertCompleted'
  <2>1. SUFFICES ASSUME NEW t \in Thumb, cert'[t] = "partial", "cert" \notin cut'[t]
                 PROVE  \E q \in Process : pc'[q] = "certWrite" /\ linked'[q] /\ T(q) = t
    BY <1>2 DEF CertCompleted
  <2>0. "cert" \notin cut[t]
    BY <2>1, CutStays
  <2>2. CASE t = T(p) /\ pc'[p] = "certWrite" /\ linked'[p]
    BY <2>2
  <2>3. CASE ~(t = T(p) /\ pc'[p] = "certWrite" /\ linked'[p])
    <3>1. cert[t] = "partial" /\ ~(t = T(p) /\ pc[p] = "certWrite" /\ linked[p])
      BY <1>0, <2>1, <2>3, ImportFlow
    <3>2. PICK q \in Process : pc[q] = "certWrite" /\ linked[q] /\ T(q) = t
      BY <2>0, <2>1, <3>1 DEF UsableInv, CertCompleted
    <3>3. q # p
      BY <3>1, <3>2
    <3>4. linked'[q] = linked[q]
      BY <1>0, <3>3, ImportFlow
    <3> QED
      BY <1>1, <3>2, <3>3, <3>4
  <2> QED
    BY <2>2, <2>3
<1>10. KeyCompleted'
  <2>1. SUFFICES ASSUME NEW t \in Thumb, key'[t] = "partial", "key" \notin cut'[t]
                 PROVE  \E q \in Process : pc'[q] = "keyWrite" /\ linked'[q] /\ T(q) = t
    BY <1>2 DEF KeyCompleted, Writing
  <2>0. "key" \notin cut[t]
    BY <2>1, CutStays
  <2>2. CASE t = T(p) /\ pc'[p] = "keyWrite" /\ linked'[p]
    BY <2>2
  <2>3. CASE ~(t = T(p) /\ pc'[p] = "keyWrite" /\ linked'[p])
    <3>1. key[t] = "partial" /\ ~(t = T(p) /\ pc[p] = "keyWrite" /\ linked[p])
      BY <1>0, <2>1, <2>3, ImportFlow
    <3>2. PICK q \in Process : pc[q] = "keyWrite" /\ linked[q] /\ T(q) = t
      BY <2>0, <2>1, <3>1 DEF UsableInv, KeyCompleted, Writing
    <3>3. q # p
      BY <3>1, <3>2
    <3>4. linked'[q] = linked[q]
      BY <1>0, <3>3, ImportFlow
    <3> QED
      BY <1>1, <3>2, <3>3, <3>4
  <2> QED
    BY <2>2, <2>3
<1> QED
  BY <1>4, <1>5, <1>7, <1>8, <1>9, <1>10 DEF UsableInv

(* A remove step stays away from what was imported and from the imports that *)
(* rely on their files.                                                      *)
LEMMA RemoveKeepsUsable ==
    ASSUME KeyInv, UsableInv, NEW p \in Process, RemoveStep(p)
    PROVE  UsableInv'
<1>0. /\ TypeOK /\ pc \in [Process -> Pc] /\ linked \in [Process -> BOOLEAN]
      /\ cert \in [Thumb -> {"absent", "partial", "whole"}]
      /\ key \in [Thumb -> {"absent", "partial", "match", "other"}]
      /\ \A q \in Process : op[q].t \in Thumb
  BY DEF KeyInv, TypeOK
<1>1. \A q \in Process \ {p} : pc'[q] = pc[q] /\ op'[q] = op[q]
  BY <1>0, OnlyPMoves
<1>2. /\ pc[p] \in Removing /\ pc'[p] \in Removing \cup {"idle"}
      /\ UNCHANGED <<op, raced, crashes, imported>>
      /\ \A t \in Thumb : t # T(p) => cert'[t] = cert[t] /\ key'[t] = key[t]
      /\ cert'[T(p)] \in {cert[T(p)], "absent"} /\ key'[T(p)] \in {key[T(p)], "absent"}
  BY <1>0 DEF RemoveStep, CheckRemove, RemoveCert, CheckRemoveKey, RemoveKey, files, ghosts, Removing
<1>3. \A q \in Process :
        /\ (pc[q] = "certWrite" /\ linked[q] /\ ~linked'[q]) => T(q) = T(p) /\ cert'[T(p)] = "absent"
        /\ (pc[q] = "keyWrite" /\ linked[q] /\ ~linked'[q]) => T(q) = T(p) /\ key'[T(p)] = "absent"
  BY <1>0 DEF RemoveStep, CheckRemove, RemoveCert, CheckRemoveKey, RemoveKey, Unlink
<1>4. \A q \in Process : /\ pc'[q] \in Removing => pc[q] \in Removing
                         /\ pc'[q] \in Importing => pc[q] \in Importing /\ q # p
                         /\ pc[q] \in Importing => pc'[q] = pc[q] /\ q # p
  BY <1>1, <1>2 DEF Importing, Removing
<1>5. ImportAlone' /\ ImportedAlone'
  BY <1>2, <1>4 DEF UsableInv, ImportAlone, ImportedAlone
<1>6. FilesThere'
  <2>1. SUFFICES ASSUME NEW q \in Process, ~raced[q], pc'[q] \in Importing
                 PROVE  /\ pc'[q] \in Importing \ {"certCheck", "certOpen"} => cert'[T(q)] # "absent"
                        /\ pc'[q] = "keyWrite" => key'[T(q)] # "absent"
    BY <1>2 DEF FilesThere, Importing
  <2>2. pc[q] = pc'[q] /\ T(q) # T(p)
    BY <1>1, <1>2, <1>4, <2>1 DEF UsableInv, ImportAlone
  <2> QED
    BY <1>0, <1>2, <2>1, <2>2 DEF UsableInv, FilesThere
<1>7. ImportedThere'
  BY <1>2 DEF UsableInv, ImportedThere, ImportedAlone
<1>8. CertCompleted'
  <2>1. SUFFICES ASSUME NEW t \in Thumb, cert'[t] = "partial", "cert" \notin cut'[t]
                 PROVE  \E q \in Process : pc'[q] = "certWrite" /\ linked'[q] /\ T(q) = t
    BY <1>2 DEF CertCompleted
  <2>0. "cert" \notin cut[t]
    BY <2>1, CutStays
  <2>2. PICK q \in Process : pc[q] = "certWrite" /\ linked[q] /\ T(q) = t
    BY <1>2, <2>0, <2>1 DEF UsableInv, CertCompleted
  <2> QED
    BY <1>3, <1>4, <2>1, <2>2 DEF Importing
<1>9. KeyCompleted'
  <2>1. SUFFICES ASSUME NEW t \in Thumb, key'[t] = "partial", "key" \notin cut'[t]
                 PROVE  \E q \in Process : pc'[q] = "keyWrite" /\ linked'[q] /\ T(q) = t
    BY <1>2 DEF KeyCompleted, Writing
  <2>0. "key" \notin cut[t]
    BY <2>1, CutStays
  <2>2. PICK q \in Process : pc[q] = "keyWrite" /\ linked[q] /\ T(q) = t
    BY <1>2, <2>0, <2>1 DEF UsableInv, KeyCompleted, Writing
  <2> QED
    BY <1>3, <1>4, <2>1, <2>2 DEF Importing
<1> QED
  BY <1>5, <1>6, <1>7, <1>8, <1>9 DEF UsableInv

LEMMA OthersKeepUsable ==
    ASSUME KeyInv, UsableInv, NEW p \in Process, ReadStep(p) \/ Crash(p)
    PROVE  UsableInv'
<1>0. TypeOK /\ pc \in [Process -> Pc] /\ linked \in [Process -> BOOLEAN]
  BY DEF KeyInv, TypeOK
<1>1. \A q \in Process \ {p} : pc'[q] = pc[q] /\ op'[q] = op[q]
  BY <1>0, OnlyPMoves
<1> USE DEF ReadStep, ReadCert, ReadKey, ExportReadCert, ExportCheckKey, ExportWriteCert,
            ExportKey, ListDir, ListCert, ListKey, Crash
<1>2. UNCHANGED <<cert, key, imported, raced>>
  BY DEF files, ghosts
<1>3. pc'[p] \notin Importing \cup Removing
  BY <1>0 DEF Importing, Removing
<1>4. \/ linked' = linked /\ cut' = cut /\ pc[p] \notin {"certWrite", "keyWrite"}
      \/ CutShort(p) /\ \A q \in Process \ {p} : linked'[q] = linked[q]
  BY <1>0 DEF ghosts
<1> HIDE DEF ReadStep, Crash
<1>5. ImportAlone' /\ ImportedAlone' /\ FilesThere' /\ ImportedThere'
  <2>1. \A q \in Process : pc'[q] \in Importing \cup Removing => pc'[q] = pc[q] /\ op'[q] = op[q]
    BY <1>1, <1>3
  <2>2. ImportAlone'
    BY <1>2, <2>1 DEF UsableInv, ImportAlone
  <2>3. ImportedAlone' /\ ImportedThere'
    BY <1>2, <2>1 DEF UsableInv, ImportedAlone, ImportedThere
  <2>4. FilesThere'
    BY <1>2, <2>1 DEF UsableInv, FilesThere, Importing
  <2> QED
    BY <2>2, <2>3, <2>4
<1>6. CertCompleted' /\ KeyCompleted'
  <2>1. CASE linked' = linked /\ cut' = cut /\ pc[p] \notin {"certWrite", "keyWrite"}
    BY <1>1, <1>2, <2>1 DEF UsableInv, CertCompleted, KeyCompleted, Writing
  <2>2. CASE CutShort(p) /\ \A q \in Process \ {p} : linked'[q] = linked[q]
    <3>1. /\ (pc[p] = "certWrite" /\ linked[p] /\ cert[T(p)] = "partial") => "cert" \in cut'[T(p)]
          /\ (pc[p] = "keyWrite" /\ linked[p]) => "key" \in cut'[T(p)]
          /\ \A t \in Thumb : cut[t] \subseteq cut'[t]
      BY <1>0, <2>2, CutNow
    <3>2. CertCompleted'
      BY <1>1, <1>2, <2>2, <3>1 DEF UsableInv, CertCompleted
    <3>3. KeyCompleted'
      BY <1>1, <1>2, <2>2, <3>1 DEF UsableInv, KeyCompleted, Writing
    <3> QED
      BY <3>2, <3>3
  <2> QED
    BY <1>4, <2>1, <2>2
<1> QED
  BY <1>5, <1>6 DEF UsableInv

LEMMA UsableInvariance == Spec => []UsableInv
<1>1. Init => UsableInv
  BY DEF Init, UsableInv, ImportAlone, ImportedAlone, FilesThere, ImportedThere, CertCompleted,
         KeyCompleted, Importing, Removing
<1>2. KeyInv /\ UsableInv /\ [Next]_vars => UsableInv'
  <2> SUFFICES ASSUME KeyInv, UsableInv, [Next]_vars PROVE UsableInv'
    OBVIOUS
  <2>1. CASE Next
    BY <2>1, StepKinds, StartKeepsUsable, ImportKeepsUsable, RemoveKeepsUsable, OthersKeepUsable
       DEF KeyInv
  <2>2. CASE UNCHANGED vars
    BY <2>2 DEF UsableInv, ImportAlone, ImportedAlone, FilesThere, ImportedThere, CertCompleted,
                KeyCompleted, Writing, vars
  <2> QED
    BY <2>1, <2>2
<1> QED
  BY <1>1, <1>2, KeyInvariance, PTL DEF Spec

(* However many processes import and remove at once, and whatever fails or   *)
(* is killed: when the store is quiet, what was imported with its key and    *)
(* not removed since is there, and usable but for the files whose write was  *)
(* cut short.                                                                *)
THEOREM ImportIsUsableAlways == Spec => []ImportIsUsable
<1>1. KeyInv /\ UsableInv => ImportIsUsable
  <2> SUFFICES ASSUME KeyInv, UsableInv, \A p \in Process : pc[p] = "idle",
                      NEW t \in Thumb, imported[t]
               PROVE  /\ cert[t] = "whole" \/ (cert[t] = "partial" /\ "cert" \in cut[t])
                      /\ key[t] = "match" \/ (key[t] = "partial" /\ "key" \in cut[t])
    BY DEF ImportIsUsable
  <2>1. cert[t] # "absent" /\ key[t] # "absent"
    BY DEF UsableInv, ImportedThere
  <2>2. cert[t] = "partial" => "cert" \in cut[t]
    BY DEF UsableInv, CertCompleted
  <2>3. key[t] = "partial" => "key" \in cut[t]
    BY DEF UsableInv, KeyCompleted, Writing
  <2> QED
    BY <2>1, <2>2, <2>3 DEF KeyInv, TypeOK, NoForeignKey
<1> QED
  BY <1>1, KeyInvariance, UsableInvariance, PTL

(* Only the two steps that read the key, and a kill, end a command there.    *)
LEMMA ReadersEnd ==
    ASSUME RemoveInv, Next, NEW p \in Process, pc[p] \in {"rdCert", "rdKey", "exKey"},
           outcome'[p] \in {"ok", "error"}
    PROVE  ReadCert(p) \/ ReadKey(p) \/ ExportKey(p)
<1>0. /\ outcome \in [Process -> {"none", "ok", "error", "killed"}] /\ outcome[p] = "none"
  BY DEF RemoveInv, TypeOK, Pending
<1>1. PICK q \in Process : \/ StartCommand(q) \/ ImportStep(q) \/ RemoveStep(q)
                           \/ ReadStep(q) \/ Crash(q)
  BY StepKinds
<1>2. q = p
  <2>1. SUFFICES ASSUME q # p PROVE outcome'[p] = outcome[p]
    BY <1>0
  <2>2. StartCommand(q) => outcome'[p] = outcome[p]
    BY <1>0, <2>1 DEF StartCommand, Start
  <2> QED
    BY <1>1, <2>1, <2>2, OnlyPMoves DEF RemoveInv
<1>3. ~StartCommand(p) /\ ~ImportStep(p) /\ ~RemoveStep(p)
  BY DEF StartCommand, Start, ImportStep, CheckCert, OpenCert, WriteCert, WriteFails, LoadKey,
      CheckKey, OpenKey, WriteKey, RemoveStep, CheckRemove, RemoveCert, CheckRemoveKey, RemoveKey
<1>4. ~Crash(p)
  BY <1>0 DEF Crash
<1> QED
  BY <1>1, <1>2, <1>3, <1>4 DEF ReadStep, ExportReadCert, ExportCheckKey, ExportWriteCert,
      ListDir, ListCert, ListKey

(* For any number of processes: a resolve of an imported certificate fails,  *)
(* and an export hands out a key that is none, only while one of its files   *)
(* is being written or because a write of it was cut short.                  *)
THEOREM ReadsAreSoundAlways == Spec => ReadsAreSound
<1>1. KeyInv /\ UsableInv /\ RemoveInv /\ [Next]_vars =>
        [\A p \in Process : ReadExplained(p) /\ ExportExplained(p)]_vars
  <2> SUFFICES ASSUME KeyInv, UsableInv, RemoveInv, Next, NEW p \in Process,
                      ~BeingWritten(T(p)), cut[T(p)] = {}
               PROVE  /\ (pc[p] \in {"rdCert", "rdKey"} /\ imported[T(p)]) => outcome'[p] # "error"
                      /\ (pc[p] = "exKey" /\ outcome'[p] = "ok") => seen'[p] = "identity"
    BY DEF ReadExplained, ExportExplained
  <2>0. /\ outcome \in [Process -> {"none", "ok", "error", "killed"}] /\ seen \in [Process -> Seen]
        /\ pc[p] # "idle" => outcome[p] = "none"
        /\ T(p) \in Thumb /\ key[T(p)] \in {"absent", "partial", "match"}
        /\ cert[T(p)] \in {"absent", "partial", "whole"}
    BY DEF RemoveInv, TypeOK, Pending, KeyInv, NoForeignKey
  <2>1. cert[T(p)] # "partial" /\ key[T(p)] # "partial"
    BY <2>0 DEF UsableInv, CertCompleted, KeyCompleted, Writing, BeingWritten
  <2>2. ASSUME pc[p] \in {"rdCert", "rdKey"}, imported[T(p)], outcome'[p] = "error"
        PROVE  FALSE
    <3>1. cert[T(p)] = "whole" /\ key[T(p)] = "match"
      BY <2>0, <2>1, <2>2 DEF UsableInv, ImportedThere
    <3>2. ReadCert(p) \/ ReadKey(p)
      BY <2>2, ReadersEnd DEF ExportKey
    <3> QED
      BY <2>0, <2>2, <3>1, <3>2 DEF ReadCert, ReadKey
  <2>3. ASSUME pc[p] = "exKey", outcome'[p] = "ok"
        PROVE  seen'[p] = "identity"
    <3>1. ExportKey(p)
      BY <2>3, ReadersEnd DEF ReadCert, ReadKey
    <3> QED
      BY <2>0, <2>1, <2>3, <3>1 DEF ExportKey
  <2> QED
    BY <2>2, <2>3
<1> QED
  BY <1>1, KeyInvariance, UsableInvariance, RemoveInvariance, PTL DEF Spec, ReadsAreSound
=============================================================================
