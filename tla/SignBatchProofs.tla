---------------------------- MODULE SignBatchProofs ----------------------------
(***************************************************************************)
(* What the portable sign batch promises, for any number of targets, paths,  *)
(* files and threads: targets are left whole or reported, nothing that       *)
(* succeeded is lost, and the command implements the batch contract.         *)
(***************************************************************************)
EXTENDS SignBatch, TLAPS

(* Labels at which the temporary file of the target holds its new content,   *)
(* and those at which the temporary file may exist.                          *)
Staged == {"check", "copy", "copying", "companion", "companionCopying"}
Open == Staged \cup {"cleanup"}

(* Entries that the expansion dropped never start, and the phase says which  *)
(* targets may be at work.                                                   *)
Phases ==
    /\ \A o \in Entry : o \notin Ops => pc[o] = "waiting"
    /\ phase = "start" => \A o \in Entry : pc[o] = "waiting"
    /\ phase = "exited" => \A o \in Ops : pc[o] \in {"waiting", "done"}
    /\ phase # "exited" => exit = "none"

(* What an operation has returned, by where it is.                           *)
Returns ==
    \A o \in Entry : /\ pc[o] \notin {"cleanup", "done"} => res[o] = "none"
                     /\ pc[o] = "cleanup" => res[o] \in {"signed", "failed"}

(* Operations on one file take turns, in the order of the list: with two of  *)
(* them the batch is sequential.                                             *)
InTurn ==
    \A o, i \in Ops :
        (i < o /\ Target(i) = Target(o) /\ pc[o] # "waiting") => pc[i] = "done"

(* A temporary file has an operation that will come to its removal, or its   *)
(* removal failed, which the Artifact Signing way reports.                   *)
LeftOver(p) == p \in stuck /\ (Artifact => \E o \in Failed : PathOf(o) = p)
TempHeld ==
    \A p \in Path : tmp[p].made =>
        (\E o \in Ops : PathOf(o) = p /\ pc[o] \in Open) \/ LeftOver(p)

(* A skipped copy on its way: an MSIX package whose digests do not match is  *)
(* turned down by the self-check, a signed PE is copied over itself.         *)
SkippedIsSound(o) ==
    LET new == tmp[PathOf(o)] IN
    /\ ~Artifact
    /\ new.content.by = disk[Target(o)].by
    /\ \/ Is(o, {"msix"}) /\ ~new.content.bound /\ pc[o] = "check"
       \/ CoreKeeps(Target(o)) /\ new.content.bound /\ new.content.by # {}

(* The content an operation is about to put in place of its target.          *)
StagedIsSound(o) ==
    LET new == tmp[PathOf(o)] IN
    /\ new.content.whole
    /\ new.skipped => SkippedIsSound(o)
    /\ ~new.skipped => o \in new.content.by
    /\ new.content.by \subseteq {o} \cup disk[Target(o)].by
    /\ args.append => disk[Target(o)].by \subseteq new.content.by
    /\ (~new.skipped /\ args.skipSigned /\ Is(o, {"peother"})) => disk[Target(o)].by = {}
    /\ pc[o] # "check" => ValidResponse(o)

(* What an operation still knows about its target when it writes it.         *)
TargetKnown(o) ==
    /\ (pc[o] \in {"sign", "check", "copy"} /\ args.skipSigned /\ Is(o, {"pe", "msix"}))
            => ~Consistent(disk[Target(o)])
    /\ pc[o] \in {"copying", "companionCopying"} => ~disk[Target(o)].whole
    /\ pc[o] \in {"companion", "companionCopying"} => Is(o, {"appinstaller"})

Steady == \A o \in Ops : TargetKnown(o) /\ (pc[o] \in Staged => StagedIsSound(o))

(* A torn file is being written, or its writer failed.                       *)
TornHeld ==
    \A f \in File : ~disk[f].whole =>
        \E o \in Ops : /\ Target(o) = f
                       /\ pc[o] \in {"copying", "companionCopying"} \/ res[o] = "failed"

(* Whose signatures a file carries.                                          *)
Signers ==
    \A f \in File : \A i \in disk[f].by \ {Prior} :
        i \in Ops /\ Target(i) = f /\ pc[i] \in {"cleanup", "done"}

(* Signatures of the operations that have landed, before and after the exit. *)
AllKept(f) ==
    /\ found[f].content.by \subseteq disk[f].by
    /\ \A o \in Landed(f) : o \in disk[f].by \/ (CoreKeeps(f) /\ \E i \in disk[f].by : i < o)
LastKept(f) ==
    Landed(f) # {} => \E o \in disk[f].by : CoreKeeps(f) \/ \A i \in Landed(f) : i <= o
Kept == \A f \in File : IF args.append THEN AllKept(f) ELSE LastKept(f)

Turns == TypeOK /\ Phases /\ Returns /\ InTurn
BatchInv ==
    Turns /\ TempHeld /\ Steady /\ TornHeld /\ Signers /\ Kept /\ NeverShipsMismatch

-----------------------------------------------------------------------------
LEMMA PlaceType ==
    ASSUME TypeOK, NEW o \in Entry
    PROVE  PathOf(o) \in Path /\ Target(o) \in File
BY PathAssumption DEF TypeOK, PathOf, Target

LEMMA SameRequest ==
    ASSUME UNCHANGED given
    PROVE  /\ Ops' = Ops
           /\ \A o : PathOf(o)' = PathOf(o) /\ Target(o)' = Target(o)
           /\ \A o, s : Is(o, s)' = Is(o, s)
           /\ args' = args /\ request' = request /\ found' = found
           /\ Artifact' = Artifact
           /\ \A o : SelfChecked(o)' = SelfChecked(o)
           /\ \A f : CoreKeeps(f)' = CoreKeeps(f)
<1>1. args' = args /\ request' = request /\ found' = found
  BY DEF given
<1>2. Ops' = Ops /\ \A o : PathOf(o)' = PathOf(o) /\ Target(o)' = Target(o)
  BY <1>1 DEF Ops, PathOf, Target
<1>3. \A o, s : Is(o, s)' = Is(o, s)
  BY <1>1 DEF Is, Target, PathOf
<1> QED
  BY <1>1, <1>2, <1>3 DEF Artifact, SelfChecked, CoreKeeps, CoreLooks

LEMMA OpsAreEntries == Ops \subseteq Entry
BY DEF Ops

(* A step of an operation touches its own target and its own temporary file. *)
LEMMA Frame ==
    ASSUME TypeOK, NEW o \in Entry, Begin(o) \/ Work(o)
    PROVE  /\ UNCHANGED <<given, phase, exit>>
           /\ \A i \in Entry : i # o => pc'[i] = pc[i] /\ res'[i] = res[i]
           /\ \A f \in File : f # Target(o) => disk'[f] = disk[f]
           /\ \A p \in Path : p # PathOf(o) => tmp'[p] = tmp[p]
           /\ \A p \in Path : p # PathOf(o) => (p \in stuck' <=> p \in stuck)
           /\ pc[o] # "done" /\ pc'[o] # "waiting"
<1> USE PlaceType
<1>0. /\ disk \in [File -> Content] /\ tmp \in [Path -> Temp]
      /\ pc \in [Entry -> Pc]
      /\ res \in [Entry -> {"none", "skipped", "signed", "failed"}]
  BY DEF TypeOK
<1>1. CASE Begin(o)
  BY <1>0, <1>1 DEF Begin
<1>2. CASE SkipCheck(o)
  BY <1>0, <1>2 DEF SkipCheck, Return
<1>3. CASE SignTemp(o)
  BY <1>0, <1>3 DEF SignTemp
<1>4. CASE SignFails(o)
  BY <1>0, <1>4 DEF SignFails, Fail
<1>5. CASE SelfCheck(o)
  BY <1>0, <1>5 DEF SelfCheck, Fail
<1>6. CASE CopyOpen(o) \/ CompanionOpen(o)
  BY <1>0, <1>6 DEF CopyOpen, CompanionOpen, Fail
<1>7. CASE CopyWrite(o) \/ CompanionWrite(o)
  BY <1>0, <1>7 DEF CopyWrite, CompanionWrite, Fail
<1>8. CASE Cleanup(o)
  BY <1>0, <1>8 DEF Cleanup
<1> QED
  BY <1>1, <1>2, <1>3, <1>4, <1>5, <1>6, <1>7, <1>8 DEF Work

LEMMA StepType ==
    ASSUME TypeOK, NEW o \in Entry, Begin(o) \/ Work(o)
    PROVE  TypeOK'
<1> DEFINE Results == {"none", "skipped", "signed", "failed"}
<1>0. /\ disk \in [File -> Content] /\ tmp \in [Path -> Temp]
      /\ pc \in [Entry -> Pc] /\ res \in [Entry -> Results]
      /\ PathOf(o) \in Path /\ Target(o) \in File
  BY PlaceType DEF TypeOK
<1>1. /\ args' \in ArgsType
      /\ request' \in [Entry -> [path : Path, once : BOOLEAN]]
      /\ found' \in [File -> FileType]
      /\ phase' \in {"start", "run", "exited"}
      /\ exit' \in {"none", "zero", "one", "partial", "allFailed", "error"}
  BY Frame DEF TypeOK, given
<1>3. stuck' \subseteq Path
  <2>1. stuck' \subseteq stuck \cup {PathOf(o)}
    BY <1>0 DEF Begin, Work, SkipCheck, SignTemp, SignFails, SelfCheck, CopyOpen, CopyWrite,
        CompanionOpen, CompanionWrite, Cleanup
  <2> QED
    BY <1>0, <2>1 DEF TypeOK
<1>2. disk' \in [File -> Content] /\ tmp' \in [Path -> Temp] /\ pc' \in [Entry -> Pc]
        /\ res' \in [Entry -> Results]
  <2>1. CASE Begin(o)
    BY <1>0, <2>1 DEF Begin, Pc
  <2>2. CASE SkipCheck(o)
    BY <1>0, <2>2 DEF SkipCheck, Return, Pc
  <2>3. CASE SignTemp(o)
    <3>1. disk[Target(o)] \in Content /\ SignedBy(o) \subseteq Entry \cup {Prior}
      BY <1>0 DEF SignedBy, Content
    <3>2. [made |-> TRUE, skipped |-> TRUE, content |-> disk[Target(o)]] \in Temp
      BY <3>1 DEF Temp
    <3>3. ASSUME NEW ok \in BOOLEAN
          PROVE  [made |-> TRUE, skipped |-> FALSE,
                  content |-> [whole |-> TRUE, by |-> SignedBy(o), bound |-> ok]] \in Temp
      BY <3>1 DEF Temp, Content
    <3>4. tmp' \in [Path -> Temp]
      BY <1>0, <2>3, <3>2, <3>3 DEF SignTemp
    <3> QED
      BY <1>0, <2>3, <3>4 DEF SignTemp, Pc
  <2>4. CASE SignFails(o)
    <3>1. [tmp[PathOf(o)] EXCEPT !.made = TRUE] \in Temp
      BY <1>0 DEF Temp
    <3>2. tmp' \in [Path -> Temp]
      BY <1>0, <2>4, <3>1 DEF SignFails, Fail
    <3> QED
      BY <1>0, <2>4, <3>2 DEF SignFails, Fail, Pc
  <2>5. CASE SelfCheck(o)
    BY <1>0, <2>5 DEF SelfCheck, Fail, Pc
  <2>6. CASE CopyOpen(o) \/ CompanionOpen(o)
    <3>1. disk' \in [File -> Content]
      <4>1. [disk[Target(o)] EXCEPT !.whole = FALSE] \in Content
        BY <1>0 DEF Content
      <4> QED
        BY <1>0, <2>6, <4>1 DEF CopyOpen, CompanionOpen
    <3>2. pc' \in [Entry -> Pc] /\ tmp' = tmp
      BY <1>0, <2>6 DEF CopyOpen, CompanionOpen, Fail, Pc
    <3>3. res' \in [Entry -> Results]
      BY <1>0, <2>6 DEF CopyOpen, CompanionOpen, Fail
    <3> QED
      BY <1>0, <3>1, <3>2, <3>3
  <2>7. CASE CopyWrite(o) \/ CompanionWrite(o)
    <3>1. disk' \in [File -> Content]
      <4>1. tmp[PathOf(o)].content \in Content /\ [disk[Target(o)] EXCEPT !.whole = TRUE] \in Content
        BY <1>0 DEF Temp, Content
      <4> QED
        BY <1>0, <2>7, <4>1 DEF CopyWrite, CompanionWrite
    <3>2. pc' \in [Entry -> Pc] /\ tmp' = tmp
      BY <1>0, <2>7 DEF CopyWrite, CompanionWrite, Fail, Pc
    <3>3. res' \in [Entry -> Results]
      BY <1>0, <2>7 DEF CopyWrite, CompanionWrite, Fail
    <3> QED
      BY <1>0, <3>1, <3>2, <3>3
  <2>8. CASE Cleanup(o)
    <3>1. NoTemp \in Temp
      BY DEF NoTemp, Temp, Gone, Content
    <3> QED
      BY <1>0, <2>8, <3>1 DEF Cleanup, Pc
  <2> QED
    BY <2>1, <2>2, <2>3, <2>4, <2>5, <2>6, <2>7, <2>8 DEF Work
<1> QED
  BY <1>1, <1>2, <1>3 DEF TypeOK

LEMMA TypeStep ==
    ASSUME TypeOK, [Next]_vars
    PROVE  TypeOK'
<1>1. CASE Prepare
  BY <1>1 DEF TypeOK, Prepare, given
<1>2. CASE Finish
  <2>1. BatchExitCode \in {"zero", "one", "partial", "allFailed"}
    BY DEF BatchExitCode
  <2> QED
    BY <1>2, <2>1 DEF TypeOK, Finish, given
<1>3. CASE \E o \in Entry : Begin(o) \/ Work(o)
  BY <1>3, StepType
<1>4. CASE UNCHANGED vars
  BY <1>4 DEF TypeOK, vars
<1> QED
  BY <1>1, <1>2, <1>3, <1>4 DEF Next

LEMMA TypeInit ==
    ASSUME Init
    PROVE  TypeOK
<1>1. NoTemp \in Temp
  BY DEF NoTemp, Temp, Gone, Content
<1>2. found \in [File -> FileType] /\ disk \in [File -> Content]
  BY RequestAssumption DEF Init, FileType
<1> QED
  BY <1>1, <1>2, RequestAssumption DEF Init, TypeOK, Pc

(* Files, temporary files and the records of the operations keep their types *)
(* for any list of targets and any number of threads.                        *)
THEOREM TypeCorrect == Spec => []TypeOK
<1>1. Init => TypeOK
  BY TypeInit
<1>2. TypeOK /\ [Next]_vars => TypeOK'
  BY TypeStep
<1> QED
  BY <1>1, <1>2, PTL DEF Spec

-----------------------------------------------------------------------------
(* The way of one operation: where a step leads from each label, and what it *)
(* leaves in its result, its target and its temporary file.                  *)
Course(o) ==
    LET old == disk[Target(o)]     new == disk'[Target(o)]
        temp == tmp[PathOf(o)]     temp2 == tmp'[PathOf(o)]
        Same == new = old /\ temp2 = temp
        Fails == pc'[o] = "cleanup" /\ res'[o] = "failed"
    IN  /\ pc[o] # "cleanup" => stuck' = stuck
        /\ \/ /\ pc[o] = "waiting" /\ pc'[o] = "skip" /\ res'[o] = res[o] /\ Same
              /\ o \in Ops /\ phase = "run"
           \/ /\ pc[o] = "skip" /\ Same
              /\ \/ pc'[o] = "done" /\ res'[o] \in {"skipped", "failed"}
                 \/ pc'[o] = "sign" /\ res'[o] = res[o] /\ ~SkipsTarget(o)
           \/ /\ pc[o] = "sign" /\ pc'[o] = "check" /\ res'[o] = res[o] /\ new = old
              /\ Supported(o)
              /\ \/ /\ CoreSkips(o) /\ temp2.skipped /\ temp2.content = old
                 \/ /\ Embeddable(o)
                    /\ ~temp2.skipped /\ temp2.content.whole /\ temp2.content.by = SignedBy(o)
           \/ pc[o] = "sign" /\ Fails /\ new = old
           \/ /\ pc[o] = "check" /\ Same
              /\ Fails \/ (pc'[o] = "copy" /\ res'[o] = res[o] /\ ValidResponse(o))
           \/ pc[o] \in {"copy", "companion"} /\ Fails /\ Same
           \/ /\ res'[o] = res[o] /\ temp2 = temp /\ ~new.whole /\ new.by = old.by /\ new.bound = old.bound
              /\ \/ pc[o] = "copy" /\ pc'[o] = "copying"
                 \/ pc[o] = "companion" /\ pc'[o] = "companionCopying"
           \/ pc[o] \in {"copying", "companionCopying"} /\ Fails /\ Same
           \/ /\ pc[o] = "copying" /\ Is(o, {"appinstaller"}) /\ pc'[o] = "companion"
              /\ res'[o] = "none" /\ temp2 = temp
              /\ new.whole /\ new.by = old.by /\ new.bound = old.bound
           \/ /\ \/ pc[o] = "copying" /\ ~Is(o, {"appinstaller"})
                 \/ pc[o] = "companionCopying"
              /\ pc'[o] = "cleanup" /\ res'[o] = "signed" /\ temp2 = temp /\ new = temp.content
           \/ /\ pc[o] = "cleanup" /\ pc'[o] = "done" /\ new = old
              /\ res'[o] \in {res[o], "failed"}
              /\ \/ temp2 = NoTemp
                 \/ PathOf(o) \in stuck' /\ (Artifact => res'[o] = "failed")

LEMMA StepCourse ==
    ASSUME TypeOK, NEW o \in Entry, Begin(o) \/ Work(o)
    PROVE  Course(o)
<1>0. /\ disk \in [File -> Content] /\ tmp \in [Path -> Temp]
      /\ pc \in [Entry -> Pc]
      /\ res \in [Entry -> {"none", "skipped", "signed", "failed"}]
      /\ PathOf(o) \in Path /\ Target(o) \in File
      /\ disk[Target(o)] \in Content
  BY PlaceType DEF TypeOK
<1>1. CASE Begin(o)
  BY <1>0, <1>1 DEF Begin, Course
<1>2. CASE SkipCheck(o)
  BY <1>0, <1>2 DEF SkipCheck, Return, Course
<1>3. CASE SignTemp(o)
  BY <1>0, <1>3 DEF SignTemp, Course
<1>4. CASE SignFails(o)
  BY <1>0, <1>4 DEF SignFails, Fail, Course
<1>5. CASE SelfCheck(o)
  BY <1>0, <1>5 DEF SelfCheck, Fail, Course
<1>6. CASE CopyOpen(o) \/ CompanionOpen(o)
  <2>1. CASE Fail(o) /\ disk' = disk
    BY <1>0, <1>6, <2>1 DEF CopyOpen, CompanionOpen, Fail, Course
  <2>2. CASE /\ disk' = [disk EXCEPT ![Target(o)].whole = FALSE]
             /\ pc' = [pc EXCEPT ![o] = IF pc[o] = "copy" THEN "copying" ELSE "companionCopying"]
             /\ UNCHANGED <<res, tmp>>
    BY <1>0, <1>6, <2>2 DEF CopyOpen, CompanionOpen, Content, Course
  <2> QED
    BY <1>6, <2>1, <2>2 DEF CopyOpen, CompanionOpen
<1>7. CASE CopyWrite(o)
  <2>1. CASE Fail(o) /\ disk' = disk
    BY <1>0, <1>7, <2>1 DEF CopyWrite, Fail, Course
  <2>2. CASE /\ Is(o, {"appinstaller"})
             /\ pc' = [pc EXCEPT ![o] = "companion"]
             /\ disk' = [disk EXCEPT ![Target(o)].whole = TRUE]
             /\ res' = [res EXCEPT ![o] = "none"] /\ tmp' = tmp
    BY <1>0, <1>7, <2>2 DEF CopyWrite, Content, Course
  <2>3. CASE /\ ~Is(o, {"appinstaller"})
             /\ pc' = [pc EXCEPT ![o] = "cleanup"]
             /\ disk' = [disk EXCEPT ![Target(o)] = tmp[PathOf(o)].content]
             /\ res' = [res EXCEPT ![o] = "signed"] /\ tmp' = tmp
    BY <1>0, <1>7, <2>3 DEF CopyWrite, Course
  <2> QED
    BY <1>7, <2>1, <2>2, <2>3 DEF CopyWrite
<1>8. CASE CompanionWrite(o)
  BY <1>0, <1>8 DEF CompanionWrite, Fail, Course
<1>9. CASE Cleanup(o)
  BY <1>0, <1>9 DEF Cleanup, Course
<1> QED
  BY <1>1, <1>2, <1>3, <1>4, <1>5, <1>6, <1>7, <1>8, <1>9 DEF Work

LEMMA TurnsStep ==
    ASSUME Turns, NEW o \in Entry, Begin(o) \/ Work(o)
    PROVE  Phases' /\ Returns' /\ InTurn'
<1>0. TypeOK /\ pc \in [Entry -> Pc] /\ o \in Ops /\ phase = "run"
  <2>1. pc[o] # "waiting" => o \in Ops /\ phase = "run"
    BY OpsAreEntries, StepCourse DEF Turns, TypeOK, Phases, Course
  <2> QED
    BY <2>1, StepCourse DEF Turns, TypeOK, Course
<1>1. /\ UNCHANGED <<given, phase, exit>> /\ Ops' = Ops
      /\ \A i \in Entry : i # o => pc'[i] = pc[i] /\ res'[i] = res[i]
      /\ \A i : Target(i)' = Target(i)
      /\ pc[o] # "done" /\ pc'[o] # "waiting"
  BY <1>0, Frame, SameRequest
<1>2. Phases'
  BY <1>0, <1>1, OpsAreEntries DEF Turns, Phases
<1>3. Returns'
  <2>1. /\ pc'[o] \notin {"cleanup", "done"} => res'[o] = "none"
        /\ pc'[o] = "cleanup" => res'[o] \in {"signed", "failed"}
    BY <1>0, StepCourse DEF Turns, Returns, Course
  <2> QED
    BY <1>1, <2>1 DEF Turns, Returns
<1>4. InTurn'
  <2>1. SUFFICES ASSUME NEW k \in Ops, NEW i \in Ops, i < k, Target(i) = Target(k), pc'[k] # "waiting"
                 PROVE  pc'[i] = "done"
    BY <1>1 DEF InTurn
  <2>2. i \in Entry /\ k \in Entry /\ i # k
    BY <2>1, OpsAreEntries DEF Entry
  <2>3. CASE k = o
    <3>1. pc[i] = "done"
      <4>1. CASE Begin(o)
        BY <2>1, <2>2, <2>3, <4>1 DEF Begin, Parallel, HasDuplicates
      <4>2. CASE Work(o)
        <5>1. pc[o] # "waiting"
          BY <4>2 DEF Work, SkipCheck, SignTemp, SignFails, SelfCheck, CopyOpen, CopyWrite,
                CompanionOpen, CompanionWrite, Cleanup
        <5> QED
          BY <2>1, <2>3, <5>1 DEF Turns, InTurn
      <4> QED
        BY <4>1, <4>2
    <3> QED
      BY <1>1, <2>2, <2>3, <3>1
  <2>4. CASE k # o
    <3>1. pc[i] = "done"
      BY <1>1, <2>1, <2>2, <2>4 DEF Turns, InTurn
    <3> QED
      BY <1>1, <2>2, <3>1
  <2> QED
    BY <2>3, <2>4
<1> QED
  BY <1>2, <1>3, <1>4

(* While an operation works, the others on its file have not begun or are    *)
(* done, and the later ones have not begun.                                  *)
LEMMA OthersRest ==
    ASSUME Turns, NEW o \in Ops, pc[o] \notin {"waiting", "done"},
           NEW i \in Ops, i # o, Target(i) = Target(o)
    PROVE  pc[i] = IF i < o THEN "done" ELSE "waiting"
<1>1. i < o \/ o < i
  BY OpsAreEntries DEF Entry
<1> QED
  BY <1>1, OpsAreEntries DEF Turns, InTurn, Entry

LEMMA TurnsNext ==
    ASSUME Turns, [Next]_vars
    PROVE  Turns'
<1>1. TypeOK'
  BY TypeStep DEF Turns
<1>2. CASE Prepare
  <2>1. UNCHANGED given /\ pc' = pc /\ res' = res /\ Ops' = Ops /\ \A i : Target(i)' = Target(i)
    BY <1>2, SameRequest DEF Prepare
  <2> QED
    BY <1>1, <1>2, <2>1, OpsAreEntries DEF Turns, Phases, Returns, InTurn, Prepare
<1>3. CASE Finish
  <2>1. UNCHANGED given /\ pc' = pc /\ res' = res /\ Ops' = Ops /\ \A i : Target(i)' = Target(i)
    BY <1>3, SameRequest DEF Finish
  <2> QED
    BY <1>1, <1>3, <2>1, OpsAreEntries DEF Turns, Phases, Returns, InTurn, Finish
<1>4. CASE \E o \in Entry : Begin(o) \/ Work(o)
  BY <1>1, <1>4, TurnsStep DEF Turns
<1>5. CASE UNCHANGED vars
  <2>1. UNCHANGED given /\ pc' = pc /\ res' = res /\ phase' = phase /\ exit' = exit
        /\ Ops' = Ops /\ \A i : Target(i)' = Target(i)
    BY <1>5, SameRequest DEF vars, given
  <2> QED
    BY <1>1, <2>1 DEF Turns, Phases, Returns, InTurn
<1> QED
  BY <1>2, <1>3, <1>4, <1>5 DEF Next

LEMMA TurnsInit ==
    ASSUME Init
    PROVE  Turns
<1>1. TypeOK
  BY TypeInit
<1> QED
  BY <1>1, OpsAreEntries DEF Init, Turns, Phases, Returns, InTurn

-----------------------------------------------------------------------------
(* A step of an operation, seen from the operations and files it is not      *)
(* about.                                                                    *)
LEMMA Setting ==
    ASSUME Turns, NEW o \in Entry, Begin(o) \/ Work(o)
    PROVE  /\ TypeOK /\ TypeOK' /\ Course(o) /\ o \in Ops /\ phase = "run"
           /\ PathOf(o) \in Path /\ Target(o) \in File
           /\ \A i \in Ops : (i # o /\ Target(i) = Target(o)) =>
                    pc[i] \in {"waiting", "done"} \/ (disk' = disk /\ tmp' = tmp)
<1>1. TypeOK /\ TypeOK' /\ Course(o) /\ PathOf(o) \in Path /\ Target(o) \in File
  BY StepType, StepCourse, PlaceType DEF Turns
<1>2. o \in Ops /\ phase = "run"
  BY <1>1, OpsAreEntries DEF Turns, Phases, TypeOK, Course
<1>3. CASE Begin(o)
  BY <1>1, <1>2, <1>3 DEF Begin
<1>4. CASE Work(o)
  <2>1. pc[o] \notin {"waiting", "done"}
    BY <1>4 DEF Work, SkipCheck, SignTemp, SignFails, SelfCheck, CopyOpen, CopyWrite,
        CompanionOpen, CompanionWrite, Cleanup
  <2> QED
    BY <1>1, <1>2, <2>1, OthersRest
<1> QED
  BY <1>3, <1>4

LEMMA TempHeldStep ==
    ASSUME Turns, TempHeld, NEW o \in Entry, Begin(o) \/ Work(o)
    PROVE  TempHeld'
<1>1. TypeOK /\ Course(o) /\ o \in Ops /\ PathOf(o) \in Path
  BY Setting
<1>2. /\ Ops' = Ops /\ \A i : PathOf(i)' = PathOf(i)
      /\ \A i \in Entry : i # o => pc'[i] = pc[i]
      /\ \A p \in Path : p # PathOf(o) => tmp'[p] = tmp[p]
  BY <1>1, Frame, SameRequest
<1>3. /\ \A p \in Path : p # PathOf(o) => (p \in stuck' <=> p \in stuck)
      /\ \A i \in Entry : i # o => res'[i] = res[i]
      /\ Artifact' = Artifact
      /\ res[o] = "failed" => res'[o] = "failed"
  BY <1>1, Frame, SameRequest DEF Turns, Returns, Course
<1>4. SUFFICES ASSUME NEW p \in Path, tmp'[p].made
               PROVE  (\E i \in Ops : PathOf(i) = p /\ pc'[i] \in Open) \/ LeftOver(p)'
  BY <1>2 DEF TempHeld
<1>5. ASSUME p \in stuck', Artifact => \E i \in Ops : res'[i] = "failed" /\ PathOf(i) = p
      PROVE  LeftOver(p)'
  <2>1. Failed' = {i \in Ops : res'[i] = "failed"}
    BY <1>2 DEF Failed
  <2> QED
    BY <1>2, <1>3, <1>5, <2>1 DEF LeftOver
<1>6. CASE p = PathOf(o) /\ pc'[o] \in Open
  BY <1>1, <1>6
<1>7. CASE p = PathOf(o) /\ pc[o] = "cleanup" /\ pc'[o] = "done"
  <2>1. p \in stuck' /\ (Artifact => res'[o] = "failed")
    BY <1>1, <1>4, <1>7 DEF Course, NoTemp
  <2> QED
    BY <1>1, <1>5, <1>7, <2>1
<1>8. CASE p # PathOf(o) \/ pc[o] \in {"waiting", "skip"}
  <2>1. tmp[p].made /\ (p \in stuck' <=> p \in stuck) /\ (p = PathOf(o) => pc[o] \notin Open)
    BY <1>1, <1>2, <1>3, <1>4, <1>8 DEF Course, Open, Staged
  <2>2. CASE \E i \in Ops : PathOf(i) = p /\ pc[i] \in Open
    BY <1>2, <2>1, <2>2, OpsAreEntries
  <2>3. CASE LeftOver(p)
    <3>1. p \in stuck' /\ (Artifact => \E i \in Ops : res'[i] = "failed" /\ PathOf(i) = p)
      BY <1>3, <2>1, <2>3, OpsAreEntries DEF LeftOver, Failed
    <3> QED
      BY <1>5, <3>1
  <2> QED
    BY <2>1, <2>2, <2>3 DEF TempHeld
<1>9. \/ pc'[o] \in Open
      \/ pc[o] = "cleanup" /\ pc'[o] = "done"
      \/ pc[o] \in {"waiting", "skip"}
  BY <1>1 DEF Course, Open, Staged
<1> QED
  BY <1>6, <1>7, <1>8, <1>9

LEMMA SteadyOthers ==
    ASSUME Turns, Steady, NEW o \in Entry, Begin(o) \/ Work(o), NEW i \in Ops, i # o
    PROVE  TargetKnown(i)' /\ (pc'[i] \in Staged => StagedIsSound(i)')
<1>1. /\ UNCHANGED given
      /\ pc'[i] = pc[i]
      /\ \A f \in File : f # Target(o) => disk'[f] = disk[f]
      /\ \A p \in Path : p # PathOf(o) => tmp'[p] = tmp[p]
      /\ i \in Entry /\ Target(i) \in File /\ PathOf(i) \in Path
  BY Frame, PlaceType, OpsAreEntries DEF Turns
<1>2. CASE disk'[Target(i)] = disk[Target(i)] /\ tmp'[PathOf(i)] = tmp[PathOf(i)]
  <2>1. TargetKnown(i)' = TargetKnown(i)
    BY <1>1, <1>2, SameRequest DEF TargetKnown, Consistent, Signed
  <2>2. StagedIsSound(i)' = StagedIsSound(i)
    BY <1>1, <1>2, SameRequest DEF StagedIsSound, SkippedIsSound, ValidResponse
  <2> QED
    BY <1>1, <2>1, <2>2 DEF Steady
<1>3. CASE pc[i] \in {"waiting", "done"}
  BY <1>1, <1>3 DEF TargetKnown, Staged
<1>4. Target(i) # Target(o) => PathOf(i) # PathOf(o)
  BY DEF Target
<1> QED
  BY <1>1, <1>2, <1>3, <1>4, Setting

LEMMA SteadyOwn ==
    ASSUME Turns, Steady, NEW o \in Entry, Begin(o) \/ Work(o)
    PROVE  TargetKnown(o)' /\ (pc'[o] \in Staged => StagedIsSound(o)')
<1>1. TypeOK /\ TypeOK' /\ Course(o) /\ o \in Ops /\ PathOf(o) \in Path /\ Target(o) \in File
  BY Setting
<1>2. UNCHANGED given
  BY <1>1, Frame
<1>3. /\ disk[Target(o)] \in Content /\ disk'[Target(o)] \in Content
      /\ tmp[PathOf(o)] \in Temp /\ tmp'[PathOf(o)] \in Temp
      /\ tmp[PathOf(o)].content \in Content
  BY <1>1, <1>2, SameRequest DEF TypeOK, Temp
<1>4. TargetKnown(o) /\ (pc[o] \in Staged => StagedIsSound(o))
  BY <1>1 DEF Steady
<1>5. TargetKnown(o)'
  <2>1. (pc'[o] \in {"sign", "check", "copy"} /\ args.skipSigned /\ Is(o, {"pe", "msix"}))
            => ~Consistent(disk'[Target(o)])
    <3>1. CASE pc[o] = "skip"
      <4>1. (~SkipsTarget(o) /\ args.skipSigned /\ Is(o, {"pe", "msix"})) => ~Consistent(disk[Target(o)])
        BY DEF SkipsTarget
      <4> QED
        BY <1>1, <3>1, <4>1 DEF Course
    <3>2. CASE pc[o] # "skip"
      BY <1>1, <1>4, <3>2 DEF Course, TargetKnown
    <3> QED
      BY <3>1, <3>2
  <2>2. pc'[o] \in {"copying", "companionCopying"} => ~disk'[Target(o)].whole
    BY <1>1 DEF Course
  <2>3. pc'[o] \in {"companion", "companionCopying"} => Is(o, {"appinstaller"})
    BY <1>1, <1>4 DEF Course, TargetKnown
  <2> QED
    BY <1>2, <2>1, <2>2, <2>3, SameRequest DEF TargetKnown, Consistent, Signed
<1>6. ASSUME pc'[o] \in Staged
      PROVE  StagedIsSound(o)'
  <2>1. CASE pc[o] = "sign"
    <3>1. pc'[o] = "check" /\ disk'[Target(o)] = disk[Target(o)]
      BY <1>1, <1>6, <2>1 DEF Course, Staged
    <3>2. CASE CoreSkips(o) /\ tmp'[PathOf(o)].skipped /\ tmp'[PathOf(o)].content = disk[Target(o)]
      <4>1. Signed(disk[Target(o)]) /\ ~Artifact /\ CoreLooks
        BY <3>2 DEF CoreSkips, Consistent, CoreLooks
      <4>2. \/ Is(o, {"msix"}) /\ ~disk[Target(o)].bound
            \/ CoreKeeps(Target(o)) /\ disk[Target(o)].bound
        <5>1. args.skipSigned /\ (Is(o, {"pe", "msix"}) => ~Consistent(disk[Target(o)]))
          BY <1>4, <2>1, <3>2 DEF CoreSkips, CoreLooks, TargetKnown
        <5>2. CASE Is(o, {"pe", "peother"}) /\ Consistent(disk[Target(o)])
          BY <4>1, <5>1, <5>2 DEF Is, CoreKeeps, Consistent
        <5>3. CASE Is(o, {"msix"})
          BY <4>1, <5>1, <5>3 DEF Is, Consistent
        <5> QED
          BY <3>2, <5>2, <5>3 DEF CoreSkips
      <4>3. disk[Target(o)].whole /\ disk[Target(o)].by # {}
        BY <4>1 DEF Signed
      <4>4. SkippedIsSound(o)'
        BY <1>2, <3>1, <3>2, <4>1, <4>2, <4>3, SameRequest DEF SkippedIsSound
      <4> QED
        BY <1>2, <3>1, <3>2, <4>3, <4>4, SameRequest DEF StagedIsSound
    <3>3. CASE Embeddable(o) /\ ~tmp'[PathOf(o)].skipped /\ tmp'[PathOf(o)].content.whole
               /\ tmp'[PathOf(o)].content.by = SignedBy(o)
      <4>1. SignedBy(o) \subseteq {o} \cup disk[Target(o)].by /\ o \in SignedBy(o)
            /\ (args.append => disk[Target(o)].by \subseteq SignedBy(o))
        BY DEF SignedBy
      <4>2. (args.skipSigned /\ Is(o, {"peother"})) => disk[Target(o)].by = {}
        BY <1>1, <2>1, <3>1, <3>3 DEF Course, Supported, Embeddable, CoreLooks, Is
      <4> QED
        BY <1>2, <3>1, <3>3, <4>1, <4>2, SameRequest DEF StagedIsSound
    <3> QED
      BY <1>1, <1>6, <2>1, <3>2, <3>3 DEF Course, Staged
  <2>2. CASE pc[o] = "check"
    <3>1. pc'[o] = "copy" /\ ValidResponse(o) /\ disk'[Target(o)] = disk[Target(o)]
          /\ tmp'[PathOf(o)] = tmp[PathOf(o)]
      BY <1>1, <1>6, <2>2 DEF Course, Staged
    <3>2. StagedIsSound(o)
      BY <1>4, <2>2 DEF Staged
    <3>3. tmp[PathOf(o)].skipped => SkippedIsSound(o)'
      <4>1. ~(Is(o, {"msix"}) /\ Is(o, {"loose", "appinstaller"}))
        BY DEF Is
      <4>2. tmp[PathOf(o)].skipped =>
                /\ ~Artifact /\ CoreKeeps(Target(o)) /\ tmp[PathOf(o)].content.bound
                /\ tmp[PathOf(o)].content.by = disk[Target(o)].by /\ disk[Target(o)].by # {}
        BY <3>1, <3>2, <4>1 DEF StagedIsSound, SkippedIsSound, ValidResponse, SelfChecked
      <4> QED
        BY <1>2, <3>1, <4>2, SameRequest DEF SkippedIsSound
    <3> QED
      BY <1>2, <3>1, <3>2, <3>3, SameRequest DEF StagedIsSound, ValidResponse
  <2>3. CASE pc[o] \notin {"sign", "check"}
    <3>1. /\ pc[o] \in Staged /\ pc[o] # "check" /\ pc'[o] # "check"
          /\ tmp'[PathOf(o)] = tmp[PathOf(o)]
          /\ disk'[Target(o)].by = disk[Target(o)].by
      BY <1>1, <1>6, <2>3 DEF Course, Staged
    <3>2. StagedIsSound(o)
      BY <1>4, <3>1
    <3>3. tmp[PathOf(o)].skipped => SkippedIsSound(o)'
      BY <1>2, <3>1, <3>2, SameRequest DEF StagedIsSound, SkippedIsSound
    <3> QED
      BY <1>2, <3>1, <3>2, <3>3, SameRequest DEF StagedIsSound, ValidResponse
  <2> QED
    BY <2>1, <2>2, <2>3
<1> QED
  BY <1>5, <1>6

LEMMA SteadyStep ==
    ASSUME Turns, Steady, NEW o \in Entry, Begin(o) \/ Work(o)
    PROVE  Steady'
<1>1. Ops' = Ops
  BY Frame, SameRequest DEF Turns
<1> QED
  BY <1>1, SteadyOthers, SteadyOwn DEF Steady

LEMMA TornHeldStep ==
    ASSUME Turns, Steady, TornHeld, NEW o \in Entry, Begin(o) \/ Work(o)
    PROVE  TornHeld'
<1>1. TypeOK /\ Course(o) /\ o \in Ops /\ Target(o) \in File
  BY Setting
<1>2. /\ Ops' = Ops /\ \A i : Target(i)' = Target(i)
      /\ \A i \in Entry : i # o => pc'[i] = pc[i] /\ res'[i] = res[i]
      /\ \A f \in File : f # Target(o) => disk'[f] = disk[f]
  BY <1>1, Frame, SameRequest
<1>3. res[o] = "failed" => res'[o] = "failed"
  BY <1>1 DEF Turns, Returns, Course
<1>4. SUFFICES ASSUME NEW f \in File, ~disk'[f].whole
               PROVE  \E i \in Ops : /\ Target(i) = f
                                     /\ pc'[i] \in {"copying", "companionCopying"} \/ res'[i] = "failed"
  BY <1>2 DEF TornHeld
<1>5. CASE /\ f = Target(o)
           /\ pc'[o] \in {"copying", "companionCopying"} \/ res'[o] = "failed"
  BY <1>1, <1>5
<1>6. CASE f # Target(o) \/ ~(pc'[o] \in {"copying", "companionCopying"} \/ res'[o] = "failed")
  <2>1. ~disk[f].whole /\ (f = Target(o) => pc[o] \notin {"copying", "companionCopying"})
    <3>1. CASE f # Target(o)
      BY <1>2, <1>4, <3>1
    <3>2. CASE f = Target(o)
      <4>1. pc[o] \in {"copying", "companionCopying"} => tmp[PathOf(o)].content.whole
        BY <1>1 DEF Steady, Staged, StagedIsSound
      <4> QED
        BY <1>1, <1>4, <1>6, <3>2, <4>1 DEF Course
    <3> QED
      BY <3>1, <3>2
  <2>2. PICK i \in Ops : /\ Target(i) = f
                         /\ pc[i] \in {"copying", "companionCopying"} \/ res[i] = "failed"
    BY <2>1 DEF TornHeld
  <2>3. CASE i = o
    BY <1>3, <2>1, <2>2, <2>3
  <2>4. CASE i # o
    BY <1>2, <2>2, <2>4, OpsAreEntries
  <2> QED
    BY <2>3, <2>4
<1> QED
  BY <1>5, <1>6

(* An operation lands when its copy is complete; nothing else adds to the    *)
(* signatures of its target, or takes one away.                              *)
LEMMA Landing ==
    ASSUME Turns, Steady, NEW o \in Entry, Begin(o) \/ Work(o)
    PROVE  \/ /\ res'[o] = "signed"
              /\ disk'[Target(o)] = tmp[PathOf(o)].content
              /\ \/ o \in disk'[Target(o)].by
                 \/ /\ CoreKeeps(Target(o)) /\ disk[Target(o)].by # {}
                    /\ disk'[Target(o)].by = disk[Target(o)].by
              /\ disk'[Target(o)].by \subseteq {o} \cup disk[Target(o)].by
              /\ args.append => disk[Target(o)].by \subseteq disk'[Target(o)].by
              /\ pc[o] \notin {"waiting", "cleanup", "done"} /\ pc'[o] = "cleanup"
              /\ ValidResponse(o)
           \/ /\ res'[o] = "signed" => res[o] = "signed"
              /\ disk'[Target(o)].by = disk[Target(o)].by
              /\ res'[o] = "signed" => disk'[Target(o)] = disk[Target(o)]
<1>1. Course(o) /\ o \in Ops
  BY Setting
<1>2. pc[o] \in {"copying", "companionCopying"} => StagedIsSound(o)
  BY <1>1 DEF Steady, Staged
<1>3. (res[o] = "signed" => pc[o] \in {"cleanup", "done"}) /\ pc[o] # "done"
  BY Frame DEF Turns, Returns
<1> QED
  BY <1>1, <1>2, <1>3 DEF Course, StagedIsSound, SkippedIsSound

LEMMA SignersStep ==
    ASSUME Turns, Steady, Signers, NEW o \in Entry, Begin(o) \/ Work(o)
    PROVE  Signers'
<1>1. TypeOK /\ Course(o) /\ o \in Ops /\ Target(o) \in File
  BY Setting
<1>2. /\ Ops' = Ops /\ \A i : Target(i)' = Target(i)
      /\ \A i \in Entry : i # o => pc'[i] = pc[i]
      /\ \A f \in File : f # Target(o) => disk'[f] = disk[f]
  BY <1>1, Frame, SameRequest
<1>3. pc[o] \in {"cleanup", "done"} => pc'[o] \in {"cleanup", "done"}
  BY <1>1 DEF Course
<1>4. SUFFICES ASSUME NEW f \in File, NEW i \in disk'[f].by \ {Prior}
               PROVE  i \in Ops /\ Target(i) = f /\ pc'[i] \in {"cleanup", "done"}
  BY <1>2 DEF Signers
<1>5. CASE i \in disk[f].by
  BY <1>2, <1>3, <1>5, OpsAreEntries DEF Signers
<1>6. CASE i \notin disk[f].by
  <2>1. f = Target(o) /\ i = o /\ pc'[o] = "cleanup"
    BY <1>2, <1>4, <1>6, Landing
  <2> QED
    BY <1>1, <2>1
<1> QED
  BY <1>5, <1>6

(* The signatures on the target of an operation at work are older than it.   *)
LEMMA SignersAreEarlier ==
    ASSUME Turns, Signers, NEW o \in Ops, pc[o] \notin {"waiting", "cleanup", "done"},
           NEW i \in disk[Target(o)].by
    PROVE  i < o
<1>1. o \in Entry /\ Target(o) \in File
  BY OpsAreEntries, PlaceType DEF Turns
<1>2. CASE i = Prior
  BY <1>1, <1>2 DEF Prior, Entry
<1>3. CASE i # Prior
  <2>1. i \in Ops /\ i # o /\ Target(i) = Target(o) /\ pc[i] # "waiting"
    BY <1>1, <1>3 DEF Signers
  <2> QED
    BY <2>1, OthersRest
<1> QED
  BY <1>2, <1>3

LEMMA KeptStep ==
    ASSUME Turns, Steady, Signers, Kept, NEW o \in Entry, Begin(o) \/ Work(o)
    PROVE  Kept'
<1>1. TypeOK /\ o \in Ops /\ Target(o) \in File
  BY Setting
<1>2. /\ Ops' = Ops /\ args' = args /\ found' = found
      /\ \A i : Target(i)' = Target(i)
      /\ \A f : CoreKeeps(f)' = CoreKeeps(f)
      /\ \A i \in Entry : i # o => res'[i] = res[i]
      /\ \A f \in File : f # Target(o) => disk'[f] = disk[f]
  BY <1>1, Frame, SameRequest
<1>3. SUFFICES ASSUME NEW f \in File
               PROVE  IF args.append THEN AllKept(f)' ELSE LastKept(f)'
  BY <1>2 DEF Kept
<1>4. IF args.append THEN AllKept(f) ELSE LastKept(f)
  BY DEF Kept
<1>5. Landed(f)' = {i \in Ops : Target(i) = f /\ res'[i] = "signed"}
  BY <1>2 DEF Landed
<1>6. Landed(f) = {i \in Ops : Target(i) = f /\ res[i] = "signed"}
  BY DEF Landed
<1>7. CASE disk'[f].by = disk[f].by /\ Landed(f)' \subseteq Landed(f)
  BY <1>2, <1>4, <1>7 DEF AllKept, LastKept
<1>8. CASE f # Target(o)
  <2>1. disk'[f].by = disk[f].by /\ Landed(f)' \subseteq Landed(f)
    BY <1>2, <1>5, <1>6, <1>8, OpsAreEntries
  <2> QED
    BY <1>7, <2>1
<1>9. CASE /\ f = Target(o) /\ pc[o] \notin {"waiting", "cleanup", "done"}
           /\ o \in disk'[f].by \/ (CoreKeeps(f) /\ disk[f].by # {} /\ disk'[f].by = disk[f].by)
           /\ args.append => disk[f].by \subseteq disk'[f].by
  <2>1. Landed(f)' \subseteq Landed(f) \cup {o}
    BY <1>2, <1>5, <1>6, OpsAreEntries
  <2>2. ASSUME NEW k \in Landed(f)'
        PROVE  k <= o
    <3>1. k \in Entry /\ k \in Ops /\ Target(k) = Target(o) /\ (k # o => res[k] = "signed")
      BY <1>2, <1>5, <1>9, <2>2, OpsAreEntries
    <3>2. k # o => pc[k] # "waiting"
      BY <3>1 DEF Turns, Returns
    <3> QED
      BY <1>1, <1>9, <3>1, <3>2, OthersRest DEF Entry
  <2>3. o \in disk'[f].by \/ (CoreKeeps(f) /\ \E i \in disk'[f].by : i < o)
    BY <1>1, <1>9, SignersAreEarlier
  <2>4. CASE args.append
    <3>1. found[f].content.by \subseteq disk'[f].by
      BY <1>4, <1>9, <2>4 DEF AllKept
    <3>2. \A k \in Landed(f)' : k \in disk'[f].by \/ (CoreKeeps(f) /\ \E i \in disk'[f].by : i < k)
      BY <1>4, <1>9, <2>1, <2>3, <2>4 DEF AllKept
    <3> QED
      BY <1>2, <2>4, <3>1, <3>2 DEF AllKept
  <2>5. CASE ~args.append
    <3>1. \E k \in disk'[f].by : CoreKeeps(f) \/ \A i \in Landed(f)' : i <= k
      BY <2>2, <2>3
    <3> QED
      BY <1>2, <2>5, <3>1 DEF LastKept
  <2> QED
    BY <2>4, <2>5
<1>10. CASE f = Target(o) /\ disk'[f].by = disk[f].by /\ (res'[o] = "signed" => res[o] = "signed")
  <2>1. Landed(f)' \subseteq Landed(f)
    BY <1>2, <1>5, <1>6, <1>10, OpsAreEntries
  <2> QED
    BY <1>7, <1>10, <2>1
<1> QED
  BY <1>8, <1>9, <1>10, Landing

LEMMA MismatchStep ==
    ASSUME Turns, Steady, NeverShipsMismatch, NEW o \in Entry, Begin(o) \/ Work(o)
    PROVE  NeverShipsMismatch'
<1>1. TypeOK /\ o \in Ops /\ Target(o) \in File
  BY Setting
<1>2. /\ Ops' = Ops
      /\ \A i : Target(i)' = Target(i) /\ SelfChecked(i)' = SelfChecked(i)
      /\ \A i, s : Is(i, s)' = Is(i, s)
      /\ \A i \in Entry : i # o => pc'[i] = pc[i] /\ res'[i] = res[i]
      /\ \A f \in File : f # Target(o) => disk'[f] = disk[f]
      /\ pc[o] # "done" /\ pc'[o] # "waiting"
  BY <1>1, Frame, SameRequest
<1>3. SUFFICES ASSUME NEW i \in Ops,
                      SelfChecked(i), ~Is(i, {"loose", "appinstaller"}), res'[i] = "signed",
                      \A k \in Ops : Target(k) = Target(i) => k <= i \/ pc'[k] = "waiting"
               PROVE  disk'[Target(i)].bound
  BY <1>2 DEF NeverShipsMismatch
<1>4. i \in Entry /\ Target(i) \in File
  BY <1>1, OpsAreEntries, PlaceType
<1>5. CASE i = o
  <2>1. CASE res[o] = "signed" /\ disk'[Target(o)] = disk[Target(o)]
    <3>1. \A k \in Ops : Target(k) = Target(i) => k <= i \/ pc[k] = "waiting"
      BY <1>2, <1>3, <1>5, OpsAreEntries DEF Entry
    <3> QED
      BY <1>3, <1>5, <2>1, <3>1 DEF NeverShipsMismatch
  <2>2. CASE disk'[Target(o)] = tmp[PathOf(o)].content /\ ValidResponse(o)
    BY <1>3, <1>5, <2>2 DEF ValidResponse
  <2> QED
    BY <1>3, <1>5, <2>1, <2>2, Landing
<1>6. CASE i # o
  <2>1. res[i] = "signed" /\ pc[i] # "waiting"
    BY <1>2, <1>3, <1>4, <1>6 DEF Turns, Returns
  <2>2. Target(o) # Target(i)
    <3>1. SUFFICES ASSUME Target(o) = Target(i) PROVE FALSE
      OBVIOUS
    <3>2. o < i
      BY <1>1, <1>2, <1>3, <1>4, <1>6, <3>1 DEF Entry
    <3> QED
      BY <1>1, <1>2, <2>1, <3>1, <3>2 DEF Turns, InTurn
  <2>3. \A k \in Ops : Target(k) = Target(i) => k <= i \/ pc[k] = "waiting"
    BY <1>2, <1>3, <2>2, OpsAreEntries
  <2> QED
    BY <1>2, <1>3, <1>4, <2>1, <2>2, <2>3 DEF NeverShipsMismatch
<1> QED
  BY <1>5, <1>6

LEMMA BatchInvNext ==
    ASSUME BatchInv, [Next]_vars
    PROVE  BatchInv'
<1>1. Turns'
  BY TurnsNext DEF BatchInv
<1>2. CASE Prepare \/ Finish \/ UNCHANGED vars
  <2>1. UNCHANGED <<given, disk, tmp, stuck, pc, res>>
    BY <1>2 DEF Prepare, Finish, vars, given
  <2>2. TempHeld' /\ TornHeld' /\ NeverShipsMismatch'
    BY <2>1, SameRequest DEF BatchInv, TempHeld, LeftOver, Failed, TornHeld, NeverShipsMismatch
  <2>3. Steady'
    BY <2>1, SameRequest DEF BatchInv, Steady, TargetKnown, StagedIsSound, SkippedIsSound,
        ValidResponse, Consistent, Signed
  <2>4. Signers' /\ Kept'
    BY <2>1, SameRequest DEF BatchInv, Signers, Kept, AllKept, LastKept, Landed
  <2> QED
    BY <1>1, <2>2, <2>3, <2>4 DEF BatchInv
<1>3. CASE \E o \in Entry : Begin(o) \/ Work(o)
  BY <1>1, <1>3, TempHeldStep, SteadyStep, TornHeldStep, SignersStep, KeptStep, MismatchStep DEF BatchInv
<1> QED
  BY <1>2, <1>3 DEF Next

LEMMA BatchInvInit ==
    ASSUME Init
    PROVE  BatchInv
<1>1. Turns
  BY TurnsInit
<1>2. /\ \A o \in Ops : pc[o] = "waiting" /\ res[o] = "none"
      /\ \A p \in Path : ~tmp[p].made
  BY OpsAreEntries DEF Init, NoTemp
<1>3. \A f \in File : disk[f].whole /\ disk[f] = found[f].content
  BY RequestAssumption DEF Init
<1>4. TempHeld /\ Steady /\ NeverShipsMismatch
  BY <1>2 DEF TempHeld, Steady, TargetKnown, Staged, NeverShipsMismatch
<1>5. TornHeld
  BY <1>3 DEF TornHeld
<1>6. Signers /\ Kept
  <2>1. \A f \in File : Landed(f) = {}
    BY <1>2 DEF Landed
  <2>2. \A f \in File : disk[f].by \subseteq {Prior}
    BY RequestAssumption DEF Init
  <2> QED
    BY <1>3, <2>1, <2>2 DEF Signers, Kept, AllKept, LastKept
<1> QED
  BY <1>1, <1>4, <1>5, <1>6 DEF BatchInv

LEMMA BatchInvAlways == Spec => []BatchInv
<1>1. Init => BatchInv
  BY BatchInvInit
<1>2. BatchInv /\ [Next]_vars => BatchInv'
  BY BatchInvNext
<1> QED
  BY <1>1, <1>2, PTL DEF Spec

(* A target of an in-place run is torn only when its failure is reported, a  *)
(* self-checked one never gets digests that do not match, and a temporary    *)
(* file stays only when its removal failed, which the Artifact Signing way   *)
(* reports; for any targets, paths and threads.                              *)
THEOREM TargetsAreSoundAlways == Spec => []TargetsAreSound
<1>1. BatchInv => TargetsAreSound
  <2>1. BatchInv => TornIsReported
    BY DEF BatchInv, Turns, Phases, TornHeld, TornIsReported, Failed
  <2>2. BatchInv => NoTempLeft
    BY DEF BatchInv, Turns, Phases, TempHeld, LeftOver, NoTempLeft, Open, Staged
  <2> QED
    BY <2>1, <2>2 DEF BatchInv, TargetsAreSound
<1> QED
  BY <1>1, BatchInvAlways, PTL

(* Whatever spellings and threads were used, no operation that reported      *)
(* success is missing from its target when the command returns, unless       *)
(* sign_pe found a signature made before it, which is still there.           *)
THEOREM NothingLostAlways == Spec => []NothingLost
<1>1. BatchInv => NothingLost
  BY DEF BatchInv, Kept, AllKept, LastKept, NothingLost
<1> QED
  BY <1>1, BatchInvAlways, PTL

(* With --skip-signed a signed PE or MSIX file that the check before signing  *)
(* knows is not written to, and a PE of another extension keeps exactly the  *)
(* signature it carries, although check and copy are several steps apart.    *)
THEOREM ValidIsKeptAlways == Spec => ValidIsKept
<1> DEFINE Kind(f) == found[f].format
           Stays == \A f \in File : args.skipSigned =>
               /\ (Kind(f) \in {"pe", "msix"} /\ Consistent(disk[f])) => disk'[f] = disk[f]
               /\ (Kind(f) = "peother" /\ disk[f].by # {} /\ disk[f].bound) =>
                      disk'[f].by = disk[f].by /\ disk'[f].bound
<1>1. BatchInv /\ [Next]_vars => [Stays]_vars
  <2>1. SUFFICES ASSUME BatchInv, Next, NEW f \in File, args.skipSigned
                 PROVE  /\ (Kind(f) \in {"pe", "msix"} /\ Consistent(disk[f])) => disk'[f] = disk[f]
                        /\ (Kind(f) = "peother" /\ disk[f].by # {} /\ disk[f].bound) =>
                               disk'[f].by = disk[f].by /\ disk'[f].bound
    OBVIOUS
  <2>2. CASE Prepare \/ Finish
    BY <2>2 DEF Prepare, Finish
  <2>3. CASE \E o \in Entry : Begin(o) \/ Work(o)
    <3>1. PICK o \in Entry : Begin(o) \/ Work(o)
      BY <2>3
    <3>2. CASE f # Target(o)
      BY <2>1, <3>1, <3>2, Frame DEF BatchInv, Turns
    <3>3. CASE f = Target(o)
      <4>1. Course(o) /\ TargetKnown(o) /\ (pc[o] \in Staged => StagedIsSound(o))
        BY <2>1, <3>1, Setting DEF BatchInv, Steady
      <4>2. ASSUME Kind(f) \in {"pe", "msix"}, Consistent(disk[f])
            PROVE  disk'[f] = disk[f]
        <5>1. Is(o, {"pe", "msix"}) /\ ~Is(o, {"appinstaller"}) /\ disk[f].whole
          BY <3>3, <4>2 DEF Is, Consistent, Signed
        <5> QED
          BY <2>1, <3>3, <4>1, <4>2, <5>1 DEF Course, TargetKnown
      <4>3. ASSUME Kind(f) = "peother", disk[f].by # {}, disk[f].bound
            PROVE  disk'[f].by = disk[f].by /\ disk'[f].bound
        <5>1. Is(o, {"peother"}) /\ ~Is(o, {"appinstaller"}) /\ ~Is(o, {"msix"})
          BY <3>3, <4>3 DEF Is
        <5>2. pc[o] = "copying" => tmp[PathOf(o)].content.by = disk[f].by /\ tmp[PathOf(o)].content.bound
          BY <2>1, <3>3, <4>1, <4>3, <5>1 DEF Staged, StagedIsSound, SkippedIsSound
        <5> QED
          BY <3>3, <4>1, <4>3, <5>1, <5>2 DEF Course, TargetKnown
      <4> QED
        BY <4>2, <4>3
    <3> QED
      BY <3>2, <3>3
  <2> QED
    BY <2>1, <2>2, <2>3 DEF Next
<1>2. ValidIsKept <=> [][Stays]_vars
  BY DEF ValidIsKept
<1> QED
  BY <1>1, <1>2, BatchInvAlways, PTL DEF Spec

-----------------------------------------------------------------------------
(* The refinement.  An operation of the command is an item of the batch; its *)
(* first step begins the item, the step that makes it "done" settles it, and *)
(* the steps between stutter.                                                *)

LEMMA StatusStep ==
    ASSUME Turns, NEW o \in Entry, Begin(o) \/ Work(o)
    PROVE  /\ BatchStatus' = [i \in Ops |-> IF i = o THEN BatchStatus'[o] ELSE BatchStatus[i]]
           /\ BatchResult' = BatchResult /\ BatchResult = "running"
           /\ Ops' = Ops /\ args' = args /\ o \in Ops
           /\ \/ BatchStatus[o] = "pending" /\ BatchStatus'[o] = "busy"
              \/ BatchStatus[o] = "busy" /\ BatchStatus'[o] \in {"busy", "ok", "failed"}
<1>1. TypeOK /\ Course(o) /\ o \in Ops /\ phase = "run"
  BY Setting
<1>2. /\ Ops' = Ops /\ args' = args /\ exit' = exit
      /\ \A i \in Entry : i # o => pc'[i] = pc[i] /\ res'[i] = res[i]
  BY <1>1, Frame, SameRequest
<1>3. BatchResult' = BatchResult /\ BatchResult = "running"
  BY <1>1, <1>2 DEF Turns, Phases, BatchResult
<1>4. BatchStatus' = [i \in Ops |-> CASE pc'[i] = "waiting" -> "pending"
                                      [] pc'[i] = "done" /\ res'[i] = "failed" -> "failed"
                                      [] pc'[i] = "done" /\ res'[i] # "failed" -> "ok"
                                      [] OTHER -> "busy"]
  BY <1>2 DEF BatchStatus
<1>5. \A i \in Ops : i # o => BatchStatus'[i] = BatchStatus[i]
  BY <1>2, <1>4, OpsAreEntries DEF BatchStatus
<1>6. BatchStatus' = [i \in Ops |-> IF i = o THEN BatchStatus'[o] ELSE BatchStatus[i]]
  BY <1>4, <1>5
<1>7. \/ BatchStatus[o] = "pending" /\ BatchStatus'[o] = "busy"
      \/ BatchStatus[o] = "busy" /\ BatchStatus'[o] \in {"busy", "ok", "failed"}
  <2>1. CASE pc[o] = "waiting"
    BY <1>1, <1>4, <2>1 DEF BatchStatus, Course
  <2>2. CASE pc[o] # "waiting"
    <3>1. pc[o] # "done" /\ pc'[o] # "waiting"
      BY <1>1, Frame
    <3> QED
      BY <1>1, <1>4, <2>2, <3>1 DEF BatchStatus
  <2> QED
    BY <2>1, <2>2
<1> QED
  BY <1>1, <1>2, <1>3, <1>6, <1>7

LEMMA OperationRefines ==
    ASSUME Turns, NEW o \in Entry, Begin(o) \/ Work(o)
    PROVE  Batch!BatchNext \/ UNCHANGED Batch!batch
<1>0. /\ BatchStatus' = [i \in Ops |-> IF i = o THEN BatchStatus'[o] ELSE BatchStatus[i]]
      /\ BatchResult' = BatchResult /\ BatchResult = "running"
      /\ Ops' = Ops /\ args' = args /\ o \in Ops
      /\ \/ BatchStatus[o] = "pending" /\ BatchStatus'[o] = "busy"
         \/ BatchStatus[o] = "busy" /\ BatchStatus'[o] \in {"busy", "ok", "failed"}
  BY StatusStep
<1>1. CASE BatchStatus[o] = "pending"
  <2>1. BatchStatus' = [i \in Ops |-> IF i \in {o} THEN "busy" ELSE BatchStatus[i]]
    BY <1>0, <1>1
  <2>2. {o} \subseteq {i \in Ops : BatchStatus[i] = "pending"}
    BY <1>0, <1>1
  <2>3. Batch!Begin({o})
    BY <1>0, <2>1, <2>2 DEF Batch!Begin
  <2> QED
    BY <1>0, <2>3 DEF Batch!BatchNext
<1>2. CASE BatchStatus[o] = "busy" /\ BatchStatus'[o] = "busy"
  <2>1. BatchStatus' = BatchStatus
    BY <1>0, <1>2 DEF BatchStatus
  <2> QED
    BY <1>0, <2>1 DEF Batch!batch
<1>3. CASE BatchStatus[o] = "busy" /\ BatchStatus'[o] \in {"ok", "failed"}
  <2>1. BatchStatus' = [BatchStatus EXCEPT ![o] = BatchStatus'[o]]
    <3>1. BatchStatus = [i \in Ops |-> BatchStatus[i]]
      BY DEF BatchStatus
    <3> HIDE DEF BatchStatus
    <3> QED
      BY <1>0, <3>1
  <2>2. Batch!Settle(o)
    BY <1>0, <1>3, <2>1 DEF Batch!Settle
  <2> QED
    BY <1>0, <2>2 DEF Batch!BatchNext
<1> QED
  BY <1>0, <1>1, <1>2, <1>3

LEMMA FinishRefines ==
    ASSUME Turns, Finish
    PROVE  Batch!BatchNext
<1>1. Ops' = Ops /\ args' = args /\ pc' = pc /\ res' = res
  BY SameRequest DEF Finish
<1>2. BatchStatus' = BatchStatus
  BY <1>1 DEF BatchStatus
<1>3. BatchResult = "running"
  BY DEF Turns, Phases, Finish, BatchResult
<1>4. \A o \in Ops : BatchStatus[o] = IF res[o] = "failed" THEN "failed" ELSE "ok"
  BY DEF Finish, BatchStatus
<1>5. Batch!Failed = Failed /\ Batch!Settled = Ops
  BY <1>4 DEF Batch!Failed, Batch!Settled, Failed
<1>6. CASE Failed # {} /\ ~args.continueOnError
  <2>1. BatchResult' = "error"
    BY <1>6 DEF Finish, BatchResult
  <2>2. Batch!GiveUp
    BY <1>1, <1>2, <1>3, <1>4, <1>5, <1>6, <2>1 DEF Batch!GiveUp
  <2> QED
    BY <2>2 DEF Batch!BatchNext
<1>7. CASE Failed = {}
  <2>1. BatchResult' = "success"
    BY <1>7 DEF Finish, BatchResult, BatchExitCode
  <2>2. Batch!Return
    BY <1>1, <1>2, <1>3, <1>5, <1>7, <2>1 DEF Batch!Return
  <2> QED
    BY <2>2 DEF Batch!BatchNext
<1>8. CASE Failed # {} /\ args.continueOnError
  <2>1. exit' \in {"one", "allFailed", "partial"}
    BY <1>8 DEF Finish, BatchExitCode
  <2>2. BatchResult' = "partial"
    BY <2>1 DEF BatchResult
  <2>3. Batch!Return
    BY <1>1, <1>2, <1>3, <1>5, <1>8, <2>2 DEF Batch!Return
  <2> QED
    BY <2>3 DEF Batch!BatchNext
<1> QED
  BY <1>6, <1>7, <1>8

LEMMA PrepareRefines ==
    ASSUME Turns, Prepare
    PROVE  Batch!BatchNext \/ UNCHANGED Batch!batch
<1>1. Ops' = Ops /\ args' = args /\ pc' = pc /\ res' = res
  BY SameRequest DEF Prepare
<1>2. BatchStatus' = BatchStatus
  BY <1>1 DEF BatchStatus
<1>3. BatchResult = "running" /\ \A o \in Ops : BatchStatus[o] = "pending"
  BY OpsAreEntries DEF Turns, Phases, Prepare, BatchResult, BatchStatus
<1>4. CASE exit' = exit
  BY <1>1, <1>2, <1>4 DEF Batch!batch, BatchResult
<1>5. CASE exit' = "error"
  <2>1. Batch!Reject
    BY <1>1, <1>2, <1>3, <1>5 DEF Batch!Reject, BatchResult
  <2> QED
    BY <2>1 DEF Batch!BatchNext
<1> QED
  BY <1>4, <1>5 DEF Prepare

(* The portable sign batch implements the batch contract: every item is      *)
(* settled once, nothing is touched by a command that refuses to start, and  *)
(* the exit code says success exactly when every item was settled and none   *)
(* failed.                                                                   *)
THEOREM ImplementsBatchAlways == Spec => ImplementsBatch
<1>1. Init => Batch!BatchInit
  <2> SUFFICES ASSUME Init PROVE Batch!BatchInit
    OBVIOUS
  <2>1. args.continueOnError \in BOOLEAN
    BY TypeInit DEF TypeOK, ArgsType
  <2>2. BatchStatus = [o \in Ops |-> "pending"] /\ BatchResult = "running"
    BY OpsAreEntries DEF Init, BatchStatus, BatchResult
  <2> QED
    BY <2>1, <2>2 DEF Batch!BatchInit
<1>2. Turns /\ [Next]_vars => [Batch!BatchNext]_(Batch!batch)
  <2> SUFFICES ASSUME Turns, [Next]_vars
               PROVE  Batch!BatchNext \/ UNCHANGED Batch!batch
    OBVIOUS
  <2>1. CASE UNCHANGED vars
    <3>1. Ops' = Ops /\ args' = args
      BY <2>1, SameRequest DEF vars, given
    <3> QED
      BY <2>1, <3>1 DEF vars, Batch!batch, BatchStatus, BatchResult
  <2> QED
    BY <2>1, PrepareRefines, FinishRefines, OperationRefines DEF Next
<1>3. BatchInv => Turns
  BY DEF BatchInv
<1> QED
  BY <1>1, <1>2, <1>3, BatchInvAlways, PTL DEF Spec, ImplementsBatch, Batch!BatchSpec
=============================================================================
