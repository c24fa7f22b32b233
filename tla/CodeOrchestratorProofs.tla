------------------------ MODULE CodeOrchestratorProofs ------------------------
(***************************************************************************)
(* Invariance proofs for CodeOrchestrator, for every forest, every argument  *)
(* record and every concurrency.                                            *)
(***************************************************************************)
EXTENDS CodeOrchestrator, FiniteSetTheorems, TLAPS

(* What the constants promise of the initial values.                        *)
LEMMA InputTypes == Options \subseteq ArgsType /\ Inputs \subseteq [Node -> FileType]
  BY OptionsAssumption, InputAssumption

(* The planning and start-up steps of code_command keep the types.          *)
LEMMA MainKeepsTypes == ASSUME TypeOK, Main PROVE TypeOK'
<1>1. CASE BuildPlan
  BY <1>1 DEF TypeOK, BuildPlan, input, content, PlanNodes
<1>2. CASE PlanFails
  BY <1>2 DEF TypeOK, PlanFails, input, content
<1>3. CASE ResolveSigner
  BY <1>3 DEF TypeOK, ResolveSigner, input, content
<1>4. CASE Spawn
  BY <1>4 DEF TypeOK, Spawn, input, content, NodeState
<1>5. CASE Collect
  BY <1>5 DEF TypeOK, Collect, input, content, Outcome, ArgsType
<1>6. CASE Abort
  BY <1>6 DEF TypeOK, Abort, input, content
<1>7. CASE Finish
  BY <1>7 DEF TypeOK, Finish, input, content
<1> QED BY <1>1, <1>2, <1>3, <1>4, <1>5, <1>6, <1>7 DEF Main

(* So do the steps of a worker (execute_node and what it calls).            *)
LEMMA WorkerKeepsTypes == ASSUME TypeOK, NEW n \in Node, Worker(n) PROVE TypeOK'
<1>1. CASE Leave(n)
  BY <1>1 DEF TypeOK, Leave, input, content, NodeState
<1>2. CASE Keep(n)
  BY <1>2 DEF TypeOK, Keep, input, content, NodeState
<1>3. CASE Refuse(n)
  BY <1>3 DEF TypeOK, Refuse, input, content, NodeState
<1>4. CASE WriteDescriptor(n)
  BY <1>4 DEF TypeOK, WriteDescriptor, input
<1>5. CASE SignLeaf(n)
  <2>1. DescriptorRevision(n) \in {0, 1}
    BY DEF DescriptorRevision
  <2>2. CASE Is(n, {"AppInstaller"})
    <3>1. cover' \in [Node -> [Node -> {0, 1, Uncovered}]]
      BY <1>5, <2>1, <2>2 DEF TypeOK, SignLeaf
    <3> QED BY <1>5, <2>1, <2>2, <3>1 DEF TypeOK, SignLeaf, input, NodeState
  <2>3. CASE ~Is(n, {"AppInstaller"})
    BY <1>5, <2>3 DEF TypeOK, SignLeaf, input, NodeState
  <2> QED BY <2>2, <2>3
<1>6. CASE Open(n)
  BY <1>6 DEF TypeOK, Open, input, content, NodeState
<1>7. CASE Seal(n)
  <2>1. ManifestRevision(n) \in {0, 1}
    BY DEF TypeOK, ManifestRevision
  <2>2. \A m \in Node : HashedRevision(n, m) \in {0, 1}
    BY <2>1 DEF TypeOK, HashedRevision
  <2>3. cover' \in [Node -> [Node -> {0, 1, Uncovered}]]
    BY <1>7, <2>2 DEF TypeOK, Seal
  <2> QED BY <1>7, <2>1, <2>3 DEF TypeOK, Seal, input, NodeState
<1>8. CASE SignFails(n)
  BY <1>8 DEF TypeOK, SignFails, input, content, NodeState
<1> QED
  BY <1>1, <1>2, <1>3, <1>4, <1>5, <1>6, <1>7, <1>8 DEF Worker

(* Every reachable state of the orchestrator is well typed.                 *)
THEOREM TypeCorrect == Spec => []TypeOK
<1>1. Init => TypeOK
  BY InputTypes DEF Init, TypeOK, NodeState
<1>2. TypeOK /\ [Next]_vars => TypeOK'
  <2> SUFFICES ASSUME TypeOK, [Next]_vars PROVE TypeOK'
    OBVIOUS
  <2>1. CASE Main
    BY <2>1, MainKeepsTypes
  <2>2. CASE \E n \in Node : Worker(n)
    BY <2>2, WorkerKeepsTypes
  <2>3. ASSUME NEW n \in Top, WriteOutput(n) PROVE TypeOK'
    BY <2>3 DEF TypeOK, WriteOutput, input, content
  <2>4. ASSUME NEW n \in Top, WriteFails(n) PROVE TypeOK'
    BY <2>4 DEF TypeOK, WriteFails, input, content, NodeState
  <2>5. CASE UNCHANGED vars
    BY <2>5 DEF TypeOK, vars
  <2> QED BY <2>1, <2>2, <2>3, <2>4, <2>5 DEF Next
<1> QED BY <1>1, <1>2, PTL DEF Spec
-----------------------------------------------------------------------------
(* Sealing.  InsideOut is not inductive: that a later step cannot change an  *)
(* entry under a sealed archive needs NoEntryForgotten, and that a kept      *)
(* archive has untouched entries needs the same of one still to be visited. *)
Fresh ==
    \A n \in Node : st[n] \in {"idle", "queued", "kept"} =>
        /\ rev[n] = 0
        /\ \A c \in Entries(n) : st[c] = "idle"
        /\ own[n] = 0 \/ (st[n] = "queued" /\ Is(n, {"AppInstaller"}))

LeftIsIgnored == \A n \in Node : st[n] = "left" => Ignored(n)

SealInv == TypeOK /\ file \in Inputs /\ LeftIsIgnored /\ Fresh /\ NoEntryForgotten /\ InsideOut

(* A node is visited while its archive is open, and only once.              *)
LEMMA ReadyFacts ==
    ASSUME NEW n \in Node, Ready(n)
    PROVE  /\ st[n] \in {"idle", "queued"}
           /\ \A p \in Node : n \in Entries(p) => st[p] = "open"
  BY ForestAssumption DEF Ready, Entries, Nested

(* Entries are nodes other than their archive, and not top-level.           *)
LEMMA EntryFacts ==
    ASSUME NEW n \in Node, NEW c \in Entries(n)
    PROVE  c \in Node /\ c # n /\ c \notin Top
  BY ForestAssumption DEF Entries, Top

(* A step that moves one unfinished node x, whose archive is still open      *)
(* unless x itself is, keeps the invariant if it does so for x.             *)
LEMMA OneNodeStep ==
    ASSUME SealInv, TypeOK', file' = file, args' = args, NEW x \in Node, NEW s,
           st' = [st EXCEPT ![x] = s], s # "idle", st[x] \notin Done,
           \A p \in Node : (x \in Entries(p) /\ st[x] \in {"idle", "queued"}) => st[p] = "open",
           \A m \in Node \ {x} : rev'[m] = rev[m] /\ own'[m] = own[m] /\ cover'[m] = cover[m],
           s = "left" => Ignored(x),
           s \in {"queued", "kept"} => /\ rev'[x] = 0
                                       /\ \A c \in Entries(x) : st[c] = "idle"
                                       /\ own'[x] = 0,
           s = "signed" => /\ \A c \in Entries(x) : st[c] \in {"signed", "kept"}
                                                      \/ (st[c] = "left" /\ Ignored(c))
                           /\ \A c \in Hashed(x) : cover'[x][c] = rev[c]
                           /\ Is(x, {"Msix", "Bundle", "AppInstaller"}) => cover'[x][x] = own'[x]
    PROVE  SealInv'
<1> USE DEF SealInv
<1>1. Fresh'
  <2> SUFFICES ASSUME NEW n \in Node, st'[n] \in {"idle", "queued", "kept"}
               PROVE  /\ rev'[n] = 0
                      /\ \A c \in Entries(n) : st'[c] = "idle"
                      /\ own'[n] = 0 \/ (st'[n] = "queued" /\ Is(n, {"AppInstaller"})')
    BY DEF Fresh, Entries
  <2>1. CASE n = x
    <3>1. s \in {"queued", "kept"}
      BY <2>1 DEF TypeOK
    <3>2. \A c \in Entries(n) : c \in Node /\ c # x
      BY <2>1, EntryFacts
    <3> QED BY <2>1, <3>1, <3>2 DEF TypeOK
  <2>2. CASE n # x
    <3>1. st'[n] = st[n]
      BY <2>2 DEF TypeOK
    <3>2. x \notin Entries(n)
      BY <3>1 DEF Fresh
    <3>3. \A c \in Entries(n) : c \in Node /\ c # x
      BY <3>2, EntryFacts
    <3> QED BY <2>2, <3>1, <3>3 DEF Fresh, TypeOK, Is
  <2> QED BY <2>1, <2>2
<1>2. ASSUME NEW n \in Node, st'[n] = "signed", n # x
      PROVE  st[n] = "signed" /\ \A c \in Entries(n) : c \in Node /\ c # x /\ st[c] \in Done
  <2>1. st[n] = "signed"
    BY <1>2 DEF TypeOK
  <2>2. \A c \in Entries(n) : st[c] \in Done
    BY <2>1 DEF NoEntryForgotten, Done
  <2> QED BY <2>1, <2>2, EntryFacts
<1>3. NoEntryForgotten'
  <2> SUFFICES ASSUME NEW n \in Node, st'[n] = "signed", NEW c \in Entries(n)
               PROVE  st'[c] \in {"signed", "kept"} \/ (st'[c] = "left" /\ Ignored(c)')
    BY DEF NoEntryForgotten, Entries
  <2>0. c \in Node /\ c # n
    BY EntryFacts
  <2>1. Ignored(c)' <=> Ignored(c)
    BY DEF Ignored, Nested, Has, Is
  <2>2. CASE n = x
    BY <2>0, <2>1, <2>2 DEF TypeOK
  <2>3. CASE n # x
    BY <1>2, <2>1, <2>3 DEF NoEntryForgotten, TypeOK
  <2> QED BY <2>2, <2>3
<1>4. InsideOut'
  <2> SUFFICES ASSUME NEW n \in Node, st'[n] = "signed"
               PROVE  /\ \A c \in Hashed(n)' : cover'[n][c] = rev'[c]
                      /\ Is(n, {"Msix", "Bundle", "AppInstaller"})' => cover'[n][n] = own'[n]
    BY DEF InsideOut
  <2>1. Hashed(n)' = Hashed(n) /\ Hashed(n) \subseteq Entries(n)
    BY DEF Hashed, Entries, Is
  <2>2. \A c \in Hashed(n) : c \in Node /\ c # n
    BY <2>1, EntryFacts
  <2>3. CASE n = x
    BY <2>1, <2>2, <2>3 DEF TypeOK, Is
  <2>4. CASE n # x
    <3>1. \A c \in Hashed(n) : c # x /\ rev'[c] = rev[c]
      BY <1>2, <2>1, <2>4
    <3> QED BY <1>2, <2>1, <2>4, <3>1 DEF InsideOut, Is
  <2> QED BY <2>3, <2>4
<1>5. LeftIsIgnored'
  BY DEF LeftIsIgnored, TypeOK, Ignored, Nested, Has, Is
<1> QED BY <1>1, <1>3, <1>4, <1>5

(* Each worker step moves one node and satisfies OneNodeStep.               *)
LEMMA WorkerKeepsSeals == ASSUME SealInv, NEW n \in Node, Worker(n) PROVE SealInv'
<1> USE DEF SealInv
<1>0. TypeOK'
  BY WorkerKeepsTypes
<1>1. CASE Leave(n)
  <2>1. Ready(n) /\ Ignored(n) /\ st' = [st EXCEPT ![n] = "left"]
    BY <1>1 DEF Leave
  <2>2. st[n] \in {"idle", "queued"} /\ \A p \in Node : n \in Entries(p) => st[p] = "open"
    BY <2>1, ReadyFacts
  <2>3. file' = file /\ args' = args /\ rev' = rev /\ own' = own /\ cover' = cover
    BY <1>1 DEF Leave, input, content
  <2> QED BY <1>0, <2>1, <2>2, <2>3, OneNodeStep DEF Done
<1>2. CASE Keep(n)
  <2>1. Ready(n) /\ st' = [st EXCEPT ![n] = "kept"]
    BY <1>2 DEF Keep
  <2>2. st[n] \in {"idle", "queued"} /\ \A p \in Node : n \in Entries(p) => st[p] = "open"
    BY <2>1, ReadyFacts
  <2>3. file' = file /\ args' = args /\ rev' = rev /\ own' = own /\ cover' = cover
    BY <1>2 DEF Keep, input, content
  <2>4. ~Is(n, {"AppInstaller"})
    BY <1>2 DEF Keep, Keeps, Is
  <2>5. rev[n] = 0 /\ own[n] = 0 /\ \A c \in Entries(n) : st[c] = "idle"
    BY <2>2, <2>4 DEF Fresh
  <2> QED BY <1>0, <2>1, <2>2, <2>3, <2>5, OneNodeStep DEF Done
<1>3. CASE Refuse(n)
  <2>1. Ready(n) /\ st' = [st EXCEPT ![n] = "failed"]
    BY <1>3 DEF Refuse
  <2>2. st[n] \in {"idle", "queued"} /\ \A p \in Node : n \in Entries(p) => st[p] = "open"
    BY <2>1, ReadyFacts
  <2>3. file' = file /\ args' = args /\ rev' = rev /\ own' = own /\ cover' = cover
    BY <1>3 DEF Refuse, input, content
  <2> QED BY <1>0, <2>1, <2>2, <2>3, OneNodeStep DEF Done
<1>4. CASE WriteDescriptor(n)
  <2>1. Ready(n) /\ ~Nested(n) /\ Is(n, {"AppInstaller"}) /\ own' = [own EXCEPT ![n] = 1]
    BY <1>4 DEF WriteDescriptor, WritesDescriptor
  <2>2. st[n] = "queued"
    BY <2>1 DEF Ready
  <2>3. file' = file /\ args' = args /\ st' = st /\ rev' = rev /\ cover' = cover
    BY <1>4 DEF WriteDescriptor, input
  <2>4. Fresh'
    BY <2>1, <2>2, <2>3 DEF Fresh, TypeOK, Is, Entries
  <2>5. NoEntryForgotten'
    BY <2>3 DEF NoEntryForgotten, Entries, Ignored, Nested, Has, Is
  <2>6. InsideOut'
    BY <2>1, <2>2, <2>3 DEF InsideOut, TypeOK, Is, Hashed, Entries
  <2>7. LeftIsIgnored'
    BY <2>3 DEF LeftIsIgnored, Ignored, Nested, Has, Is
  <2> QED BY <1>0, <2>3, <2>4, <2>5, <2>6, <2>7
<1>5. CASE SignLeaf(n)
  <2>1. Ready(n) /\ st' = [st EXCEPT ![n] = "signed"] /\ ~Is(n, Container)
    BY <1>5 DEF SignLeaf
  <2>2. st[n] \in {"idle", "queued"} /\ \A p \in Node : n \in Entries(p) => st[p] = "open"
    BY <2>1, ReadyFacts
  <2>3. file' = file /\ args' = args
    BY <1>5 DEF SignLeaf, input
  <2>4. \A m \in Node \ {n} : rev'[m] = rev[m] /\ own'[m] = own[m] /\ cover'[m] = cover[m]
    BY <1>5 DEF SignLeaf, TypeOK
  <2>5. Hashed(n) = {} /\ ~Is(n, {"Msix", "Bundle"})
    BY <2>1 DEF Hashed, Is, Container
  <2>6. Is(n, {"AppInstaller"}) => cover'[n][n] = own'[n]
    BY <1>5 DEF SignLeaf, TypeOK
  <2>7. Is(n, {"Msix", "Bundle", "AppInstaller"}) => cover'[n][n] = own'[n]
    BY <2>5, <2>6 DEF Is
  <2>8. \A c \in Entries(n) : st[c] \in {"signed", "kept"} \/ (st[c] = "left" /\ Ignored(c))
    BY <2>1, InputAssumption DEF Is
  <2> QED BY <1>0, <2>1, <2>2, <2>3, <2>4, <2>5, <2>7, <2>8, OneNodeStep DEF Done
<1>6. CASE Open(n)
  <2>1. Ready(n) /\ st' = [st EXCEPT ![n] = "open"]
    BY <1>6 DEF Open
  <2>2. st[n] \in {"idle", "queued"} /\ \A p \in Node : n \in Entries(p) => st[p] = "open"
    BY <2>1, ReadyFacts
  <2>3. file' = file /\ args' = args /\ rev' = rev /\ own' = own /\ cover' = cover
    BY <1>6 DEF Open, input, content
  <2> QED BY <1>0, <2>1, <2>2, <2>3, OneNodeStep DEF Done
<1>7. CASE Seal(n)
  <2>1. Visited(n) /\ st' = [st EXCEPT ![n] = "signed"]
    BY <1>7 DEF Seal
  <2>2. st[n] = "open" /\ \A c \in Entries(n) : st[c] \in Done
    BY <2>1 DEF Visited
  <2>3. file' = file /\ args' = args
    BY <1>7 DEF Seal, input
  <2>4. \A m \in Node \ {n} : rev'[m] = rev[m] /\ own'[m] = own[m] /\ cover'[m] = cover[m]
    BY <1>7 DEF Seal, TypeOK
  <2>5. \A c \in Entries(n) : st[c] \in {"signed", "kept"} \/ (st[c] = "left" /\ Ignored(c))
    BY <2>2, EntryFacts DEF LeftIsIgnored, Done
  <2>6. \A c \in Hashed(n) : c \in Node /\ c # n
    BY EntryFacts DEF Hashed
  <2>7. \A c \in Hashed(n) : cover'[n][c] = rev[c]
    BY <1>7, <2>6 DEF Seal, TypeOK, HashedRevision
  <2>8. cover'[n][n] = own'[n]
    BY <1>7 DEF Seal, TypeOK, HashedRevision
  <2> QED BY <1>0, <2>1, <2>2, <2>3, <2>4, <2>5, <2>7, <2>8, OneNodeStep DEF Done
<1>8. CASE SignFails(n)
  <2>1. st' = [st EXCEPT ![n] = "failed"]
    BY <1>8 DEF SignFails
  <2>2. \/ Ready(n)
        \/ st[n] = "open"
    BY <1>8 DEF SignFails, Visited
  <2>3. /\ st[n] \in {"idle", "queued", "open"}
        /\ \A p \in Node : (n \in Entries(p) /\ st[n] \in {"idle", "queued"}) => st[p] = "open"
    BY <2>2, ReadyFacts
  <2>4. file' = file /\ args' = args /\ rev' = rev /\ own' = own /\ cover' = cover
    BY <1>8 DEF SignFails, input, content
  <2> QED BY <1>0, <2>1, <2>3, <2>4, OneNodeStep DEF Done
<1> QED
  BY <1>1, <1>2, <1>3, <1>4, <1>5, <1>6, <1>7, <1>8 DEF Worker

(* Steps of the main thread: the contents do not change, Spawn moves         *)
(* top-level nodes from "idle" to "queued".                                  *)
LEMMA MainKeepsSeals == ASSUME SealInv, Main PROVE SealInv'
<1> USE DEF SealInv
<1>0. TypeOK'
  BY MainKeepsTypes
<1>1. file' = file /\ args' = args /\ rev' = rev /\ own' = own /\ cover' = cover
  BY DEF Main, BuildPlan, PlanFails, ResolveSigner, Spawn, Collect, Abort, Finish, input, content
<1>2. CASE Spawn
  <2>1. \A n \in Node : st'[n] = st[n] \/ (n \in Top /\ st[n] = "idle" /\ st'[n] = "queued")
    BY <1>2 DEF Spawn, Chunk
  <2>2. Fresh'
    <3> SUFFICES ASSUME NEW n \in Node, st'[n] \in {"idle", "queued", "kept"}
                 PROVE  /\ rev'[n] = 0
                        /\ \A c \in Entries(n) : st'[c] = "idle"
                        /\ own'[n] = 0 \/ (st'[n] = "queued" /\ Is(n, {"AppInstaller"})')
      BY DEF Fresh, Entries
    <3>1. st[n] \in {"idle", "queued", "kept"}
      BY <2>1
    <3>2. \A c \in Entries(n) : c \in Node /\ c \notin Top
      BY EntryFacts
    <3> QED BY <1>1, <2>1, <3>1, <3>2 DEF Fresh, Is
  <2>3. \A n \in Node : (st'[n] \in Done \/ st[n] \in Done) => st'[n] = st[n]
    BY <2>1 DEF Done
  <2>4. LeftIsIgnored'
    BY <1>1, <2>3 DEF LeftIsIgnored, Ignored, Nested, Has, Is, Done
  <2>5. NoEntryForgotten'
    BY <1>1, <2>3, EntryFacts DEF NoEntryForgotten, Entries, Ignored, Nested, Has, Is, Done
  <2>6. InsideOut'
    BY <1>1, <2>3 DEF InsideOut, Hashed, Is, Done, Entries
  <2> QED BY <1>0, <1>1, <2>2, <2>4, <2>5, <2>6
<1>3. CASE ~Spawn
  <2>1. st' = st
    BY <1>3 DEF Main, BuildPlan, PlanFails, ResolveSigner, Collect, Abort, Finish
  <2> QED
    BY <1>0, <1>1, <2>1 DEF LeftIsIgnored, Fresh, NoEntryForgotten, InsideOut, Hashed, Is,
                            Entries, Ignored, Nested, Has
<1> QED BY <1>2, <1>3

(* Writing an output changes no node but, on failure, a top-level one.       *)
LEMMA WriteKeepsSeals ==
    ASSUME SealInv, NEW n \in Top, WriteOutput(n) \/ WriteFails(n) PROVE SealInv'
<1> USE DEF SealInv
<1>0. TypeOK' /\ n \in Node
  BY DEF TypeOK, WriteOutput, WriteFails, input, content, NodeState, Top
<1>1. file' = file /\ args' = args /\ rev' = rev /\ own' = own /\ cover' = cover
  BY DEF WriteOutput, WriteFails, input, content
<1>2. \A m \in Node : st'[m] = st[m] \/ (m \in Top /\ st'[m] = "failed")
  BY <1>0 DEF TypeOK, WriteOutput, WriteFails
<1>3. \A m \in Node : \A c \in Entries(m) : c \in Node /\ st'[c] = st[c]
  BY <1>2, EntryFacts
<1>4. \A m \in Node : st'[m] # "failed" => st'[m] = st[m]
  BY <1>2
<1>5. Fresh'
  <2> SUFFICES ASSUME NEW m \in Node, st'[m] \in {"idle", "queued", "kept"}
               PROVE  /\ rev'[m] = 0
                      /\ \A c \in Entries(m) : st'[c] = "idle"
                      /\ own'[m] = 0 \/ (st'[m] = "queued" /\ Is(m, {"AppInstaller"})')
    BY DEF Fresh, Entries
  <2> QED BY <1>1, <1>3, <1>4 DEF Fresh, Is
<1>6. LeftIsIgnored'
  BY <1>1, <1>4 DEF LeftIsIgnored, Ignored, Nested, Has, Is
<1>7. NoEntryForgotten'
  BY <1>1, <1>3, <1>4 DEF NoEntryForgotten, Entries, Ignored, Nested, Has, Is
<1>8. InsideOut'
  BY <1>1, <1>4 DEF InsideOut, Hashed, Is, Entries
<1> QED BY <1>0, <1>1, <1>5, <1>6, <1>7, <1>8

(* The sealing invariant holds in every reachable state.                     *)
LEMMA SealInvariance == Spec => []SealInv
<1>1. Init => SealInv
  <2> SUFFICES ASSUME Init PROVE SealInv
    OBVIOUS
  <2>1. TypeOK
    BY InputTypes DEF Init, TypeOK, NodeState
  <2>2. \A n \in Node : Entries(n) \subseteq Node
    BY DEF Entries
  <2> QED
    BY <2>1, <2>2 DEF Init, SealInv, Fresh, LeftIsIgnored, NoEntryForgotten, InsideOut
<1>2. SealInv /\ [Next]_vars => SealInv'
  <2> SUFFICES ASSUME SealInv, [Next]_vars PROVE SealInv'
    OBVIOUS
  <2>1. CASE UNCHANGED vars
    <3>1. TypeOK'
      BY <2>1 DEF SealInv, TypeOK, vars
    <3> QED
      BY <2>1, <3>1 DEF SealInv, Fresh, LeftIsIgnored, NoEntryForgotten, InsideOut, Hashed, Is,
                        Entries, Ignored, Nested, Has, vars
  <2> QED BY <2>1, MainKeepsSeals, WorkerKeepsSeals, WriteKeepsSeals DEF Next
<1> QED BY <1>1, <1>2, PTL DEF Spec

(* Whatever the forest and the interleaving, every signature and block map   *)
(* this command writes hashes the final bytes of the entries it covers.     *)
THEOREM InsideOutAlways == Spec => []InsideOut
<1>1. SealInv => InsideOut
  BY DEF SealInv
<1> QED BY <1>1, SealInvariance, PTL

(* No archive is sealed with an entry left out that the rules do not ignore. *)
THEOREM NoEntryForgottenAlways == Spec => []NoEntryForgotten
<1>1. SealInv => NoEntryForgotten
  BY DEF SealInv
<1> QED BY <1>1, SealInvariance, PTL

(* A package kept by --skip-signed is untouched at every depth.              *)
THEOREM KeptIsUntouchedAlways == Spec => []KeptIsUntouched
<1>1. SealInv => KeptIsUntouched
  BY DEF SealInv, Fresh, KeptIsUntouched
<1> QED BY <1>1, SealInvariance, PTL

(* A signed MSIX package is refused before it is opened, so an open archive   *)
(* is none: what Seal asks of NuGet and VSIX packages is enough.              *)
ReplaceInv ==
    /\ NoSilentReplacement
    /\ \A n \in Node : st[n] = "open" => ~(Is(n, AppxFamily) /\ Has(n, "signed"))

(* What one step may do to the bytes and the state of a node.                 *)
LEMMA RevisionFrame ==
    ASSUME TypeOK, [Next]_vars
    PROVE  /\ args' = args /\ file' = file
           /\ \A m \in Node :
                 /\ \/ rev'[m] = rev[m] \/ rev'[m] = 0
                    \/ ~Is(m, Container)
                    \/ st[m] = "open" /\ ~AlreadySigned(m)
                 /\ st'[m] = "open" => st[m] = "open" \/ ~Refused(m)
<1>1. args' = args /\ file' = file
  BY DEF Next, Main, BuildPlan, PlanFails, ResolveSigner, Spawn, Collect, Abort, Finish,
         Worker, Leave, Keep, Refuse, WriteDescriptor, SignLeaf, Open, Seal, SignFails,
         WriteOutput, WriteFails, input, vars
<1>2. ASSUME NEW n \in Node, Worker(n), NEW m \in Node
      PROVE  /\ \/ rev'[m] = rev[m] \/ rev'[m] = 0
                \/ ~Is(m, Container)
                \/ st[m] = "open" /\ ~AlreadySigned(m)
             /\ st'[m] = "open" => st[m] = "open" \/ ~Refused(m)
  <2>1. CASE SignLeaf(n)
    BY <1>2, <2>1 DEF SignLeaf, TypeOK
  <2>2. CASE Seal(n)
    BY <1>2, <2>2 DEF Seal, TypeOK, Visited
  <2>3. CASE Open(n)
    BY <1>2, <2>3 DEF Open, TypeOK, Signable, content
  <2>4. CASE Leave(n) \/ Keep(n) \/ Refuse(n) \/ WriteDescriptor(n) \/ SignFails(n)
    BY <1>2, <2>4 DEF Leave, Keep, Refuse, WriteDescriptor, SignFails, TypeOK, content
  <2> QED BY <1>2, <2>1, <2>2, <2>3, <2>4 DEF Worker
<1>3. ASSUME Main \/ (\E n \in Top : WriteOutput(n) \/ WriteFails(n)) \/ UNCHANGED vars
      PROVE  rev' = rev /\ \A m \in Node : st'[m] = "open" => st[m] = "open"
  BY <1>3 DEF Main, BuildPlan, PlanFails, ResolveSigner, Spawn, Collect, Abort, Finish,
              WriteOutput, WriteFails, content, vars, TypeOK
<1> QED BY <1>1, <1>2, <1>3 DEF Next

(* A package signature that was there is replaced under --overwrite only.     *)
THEOREM NoSilentReplacementAlways == Spec => []NoSilentReplacement
<1>1. Init => ReplaceInv
  BY DEF Init, ReplaceInv, NoSilentReplacement
<1>2. TypeOK /\ ReplaceInv /\ [Next]_vars => ReplaceInv'
  <2> SUFFICES ASSUME TypeOK, ReplaceInv, [Next]_vars, NEW n \in Node
               PROVE  /\ (Has(n, "signed") /\ Is(n, {"Nuget", "Vsix"} \cup AppxFamily) /\ rev[n] = 1
                             => args.overwrite)'
                      /\ (st[n] = "open" => ~(Is(n, AppxFamily) /\ Has(n, "signed")))'
    BY DEF ReplaceInv, NoSilentReplacement
  <2>1. args' = args /\ file' = file
    BY RevisionFrame
  <2>2. Is(n, {"Nuget", "Vsix"} \cup AppxFamily) => Is(n, Container)
    BY DEF Is, Container, AppxFamily
  <2>3. st[n] = "open" /\ ~AlreadySigned(n) /\ Has(n, "signed")
          /\ Is(n, {"Nuget", "Vsix"} \cup AppxFamily) => args.overwrite
    BY DEF ReplaceInv, AlreadySigned, Is
  <2>4. st'[n] = "open" => ~(Is(n, AppxFamily) /\ Has(n, "signed"))
    BY RevisionFrame DEF ReplaceInv, Refused
  <2>5. \/ rev'[n] = rev[n] \/ rev'[n] = 0
        \/ ~Is(n, Container)
        \/ st[n] = "open" /\ ~AlreadySigned(n)
    BY RevisionFrame
  <2> QED BY <2>1, <2>2, <2>3, <2>4, <2>5 DEF ReplaceInv, NoSilentReplacement, Is, Has
<1>3. ReplaceInv => NoSilentReplacement
  BY DEF ReplaceInv
<1> QED BY <1>1, <1>2, <1>3, TypeCorrect, PTL DEF Spec

(* Every entry of every package comes to the end its options ask for.         *)
THEOREM EveryEntryAccountedAlways == Spec => []EveryEntryAccounted
<1>1. NoEntryForgotten /\ KeptIsUntouched /\ NoSilentReplacement => EveryEntryAccounted
  BY DEF EveryEntryAccounted
<1> QED BY <1>1, NoEntryForgottenAlways, KeptIsUntouchedAlways, NoSilentReplacementAlways, PTL
-----------------------------------------------------------------------------
(* Batches and the report.  `next` splits the top-level nodes: those up to   *)
(* it have returned and are reported, those beyond the chunk are idle, and   *)
(* without --continue-on-error none up to it failed.                         *)
BatchInv ==
    /\ phase \in {"planned", "sign", "exited"} /\ exit # "error" => args.maxConcurrency > 0
    /\ phase # "exited" <=> exit = "none"
    /\ \A n \in Top :
          /\ phase \in {"start", "planned"} => next = 0 /\ st[n] = "idle"
          /\ out[n] = "written" => st[n] \in {"signed", "kept"}
          /\ out[n] = "descriptor" => WritesDescriptor(n)
          /\ st[n] = "idle" => out[n] = "none"
          /\ next + args.maxConcurrency < Rank[n] => st[n] = "idle"
          /\ Rank[n] <= next => Returned(n)
          /\ Rank[n] <= next /\ exit # "error" => lines[n] = Outcome(n)
          /\ next < Rank[n] /\ exit # "error" => lines[n] = "none"
          /\ st[n] = "failed" /\ ~args.continueOnError => next < Rank[n]
    /\ exit \in {"zero", "one"} =>
          /\ \A n \in Top : Rank[n] <= next
          /\ exit = "zero" <=> \A n \in Top : lines[n] # "failed"

(* Between Spawn and its return a top-level node belongs to the chunk.       *)
LEMMA BusyIsInChunk ==
    ASSUME TypeOK, BatchInv, NEW n \in Top, st[n] \in {"queued", "open"}
    PROVE  next < Rank[n] /\ out[n] # "written"
  BY ForestAssumption, SMTT(60) DEF TypeOK, BatchInv, Returned, Top

(* Ranks have no gaps: when the chunk is empty every input was collected.    *)
LEMMA EmptyChunk ==
    ASSUME TypeOK, args.maxConcurrency > 0, Chunk = {}
    PROVE  \A n \in Top : Rank[n] <= next
<1> SUFFICES ASSUME NEW n \in Top, next < Rank[n] PROVE FALSE
  BY ForestAssumption DEF TypeOK, Top
<1>1. Cardinality(Top) \in Nat
  BY RankAssumption, FS_CardinalityType
<1>2. Rank[n] \in 1 .. Cardinality(Top)
  BY RankAssumption
<1>3. next + 1 \in 1 .. Cardinality(Top)
  BY <1>1, <1>2 DEF TypeOK
<1>4. PICK m \in Top : Rank[m] = next + 1
  BY <1>3, RankAssumption
<1>5. next < Rank[m] /\ Rank[m] <= next + args.maxConcurrency
  BY <1>4 DEF TypeOK, ArgsType
<1> QED BY <1>5 DEF Chunk

(* The main thread.                                                          *)
LEMMA MainKeepsBatch == ASSUME TypeOK, BatchInv, Main PROVE BatchInv'
<1> USE ForestAssumption DEF Top
<1>1. CASE BuildPlan
  BY <1>1 DEF BatchInv, BuildPlan, TypeOK, ArgsType, input, content, Returned, Outcome, WritesDescriptor, Is
<1>2. CASE PlanFails
  BY <1>2 DEF BatchInv, PlanFails, TypeOK, input, content, Returned, Outcome, WritesDescriptor, Is
<1>3. CASE ResolveSigner
  BY <1>3 DEF BatchInv, ResolveSigner, TypeOK, input, content, Returned, Outcome, WritesDescriptor, Is
<1>4. CASE Spawn
  <2>1. \A n \in Top : st'[n] = st[n] \/ (n \in Chunk /\ st[n] = "idle" /\ st'[n] = "queued")
    BY <1>4 DEF Spawn
  <2> QED
    BY <1>4, <2>1 DEF BatchInv, Spawn, TypeOK, input, content, Returned, Outcome, WritesDescriptor,
                      Is, Chunk, Nested, ArgsType
<1>5. CASE Collect
  <2>1. /\ st' = st /\ out' = out /\ phase' = phase /\ exit' = exit /\ args' = args /\ file' = file
        /\ next' = next + args.maxConcurrency
        /\ phase = "sign"
    BY <1>5 DEF Collect, input, content
  <2>2. \A n \in Top : n \in Chunk <=> next < Rank[n] /\ Rank[n] <= next'
    BY <2>1 DEF Chunk
  <2>3. exit = "none" /\ args.maxConcurrency > 0 /\ next \in Nat /\ args.maxConcurrency \in Nat
    BY <2>1 DEF BatchInv, TypeOK, ArgsType
  <2>4. \A n \in Chunk : Returned(n) /\ lines'[n] = Outcome(n)
    BY <1>5 DEF Collect, Chunk
  <2>5. \A n \in Top : n \notin Chunk => lines'[n] = lines[n]
    BY <1>5 DEF Collect
  <2>6. \A n \in Chunk : st[n] = "failed" => args.continueOnError
    BY <1>5 DEF Collect, ChunkFailed
  <2> SUFFICES ASSUME NEW n \in Top
               PROVE  /\ (next + args.maxConcurrency < Rank[n] => st[n] = "idle")'
                      /\ (Rank[n] <= next => Returned(n))'
                      /\ (Rank[n] <= next /\ exit # "error" => lines[n] = Outcome(n))'
                      /\ (next < Rank[n] /\ exit # "error" => lines[n] = "none")'
                      /\ (st[n] = "failed" /\ ~args.continueOnError => next < Rank[n])'
    BY <2>1, <2>3 DEF BatchInv, WritesDescriptor, Is
  <2>7. Returned(n)' = Returned(n) /\ Outcome(n)' = Outcome(n) /\ Rank[n] \in Nat
    BY <2>1 DEF Returned, Outcome
  <2>8. CASE n \in Chunk
    BY <2>1, <2>2, <2>3, <2>4, <2>6, <2>7, <2>8
  <2>9. CASE n \notin Chunk /\ Rank[n] <= next
    BY <2>1, <2>2, <2>3, <2>5, <2>7, <2>9 DEF BatchInv
  <2>10. CASE n \notin Chunk /\ next' < Rank[n]
    BY <2>1, <2>2, <2>3, <2>5, <2>7, <2>10 DEF BatchInv
  <2> QED BY <2>1, <2>2, <2>3, <2>7, <2>8, <2>9, <2>10
<1>6. CASE Abort
  BY <1>6 DEF BatchInv, Abort, TypeOK, input, content, Returned, WritesDescriptor, Is
<1>7. CASE Finish
  <2>1. args.maxConcurrency > 0 /\ exit = "none"
    BY <1>7 DEF BatchInv, Finish
  <2>2. \A n \in Top : Rank[n] <= next
    BY <1>7, <2>1, EmptyChunk DEF Finish
  <2> QED
    BY <1>7, <2>1, <2>2 DEF BatchInv, Finish, TypeOK, input, content, Returned, Outcome,
                            WritesDescriptor, Is
<1> QED BY <1>1, <1>2, <1>3, <1>4, <1>5, <1>6, <1>7 DEF Main

(* What a worker step can do to the batch: it moves one node that is neither *)
(* idle nor settled, and never writes a finished output.                     *)
LEMMA WorkerFrame ==
    ASSUME TypeOK, NEW x \in Node, Worker(x)
    PROVE  /\ phase = "sign" /\ phase' = phase /\ exit' = exit /\ next' = next
           /\ lines' = lines /\ args' = args /\ file' = file
           /\ \A n \in Top : st'[n] # st[n] =>
                 /\ st[n] \in {"queued", "open"}
                 /\ st'[n] \notin {"idle", "queued"}
           /\ \A n \in Top : out'[n] # out[n] =>
                 /\ st[n] = "queued" /\ st'[n] = st[n]
                 /\ out'[n] = "descriptor" /\ WritesDescriptor(n)
<1>1. /\ phase = "sign" /\ phase' = phase /\ exit' = exit /\ next' = next
      /\ lines' = lines /\ args' = args /\ file' = file
  BY DEF Worker, Leave, Keep, Refuse, WriteDescriptor, SignLeaf, Open, Seal, SignFails, input
<1>2. CASE WriteDescriptor(x)
  BY <1>1, <1>2 DEF WriteDescriptor, WritesDescriptor, TypeOK, Ready, Nested, Top
<1>3. CASE ~WriteDescriptor(x)
  <2>1. out' = out
    BY <1>3 DEF Worker, Leave, Keep, Refuse, SignLeaf, Open, Seal, SignFails
  <2>2. \E s \in {"left", "kept", "failed", "signed", "open"} : st' = [st EXCEPT ![x] = s]
    BY <1>3 DEF Worker, Leave, Keep, Refuse, SignLeaf, Open, Seal, SignFails
  <2>3. Ready(x) \/ st[x] = "open"
    BY <1>3 DEF Worker, Leave, Keep, Refuse, SignLeaf, Open, Seal, SignFails, Visited
  <2>4. x \in Top => st[x] \in {"queued", "open"}
    BY <2>3 DEF Ready, Nested, Top
  <2> QED BY <1>1, <2>1, <2>2, <2>4 DEF TypeOK, Top
<1> QED BY <1>2, <1>3

LEMMA WorkerKeepsBatch == ASSUME TypeOK, BatchInv, NEW x \in Node, Worker(x) PROVE BatchInv'
<1>1. /\ phase = "sign" /\ phase' = phase /\ exit' = exit /\ next' = next
      /\ lines' = lines /\ args' = args /\ file' = file
  BY WorkerFrame
<1>2. exit = "none"
  BY <1>1 DEF BatchInv
<1>3. ASSUME NEW n \in Top
      PROVE  /\ out'[n] = "written" => st'[n] \in {"signed", "kept"}
             /\ (out[n] = "descriptor" => WritesDescriptor(n))'
             /\ st'[n] = "idle" => out'[n] = "none"
             /\ next + args.maxConcurrency < Rank[n] => st'[n] = "idle"
             /\ Rank[n] <= next => Returned(n)' /\ lines[n] = Outcome(n)'
             /\ st'[n] = "failed" /\ ~args.continueOnError => next < Rank[n]
  <2>0. Rank[n] \in Nat /\ next \in Nat /\ args.maxConcurrency \in Nat
    BY ForestAssumption DEF TypeOK, Top, ArgsType
  <2>1. WritesDescriptor(n)' <=> WritesDescriptor(n)
    BY <1>1 DEF WritesDescriptor, Nested, Is
  <2>2. CASE st'[n] = st[n] /\ out'[n] = out[n]
    BY <1>1, <1>2, <2>1, <2>2 DEF BatchInv, Returned, Outcome
  <2>3. CASE st'[n] # st[n]
    <3>1. st[n] \in {"queued", "open"} /\ st'[n] \notin {"idle", "queued"} /\ out'[n] = out[n]
      BY <2>3, WorkerFrame
    <3>2. next < Rank[n] /\ out[n] # "written"
      BY <3>1, BusyIsInChunk
    <3> QED BY <1>1, <2>0, <2>1, <3>1, <3>2 DEF BatchInv
  <2>4. CASE out'[n] # out[n]
    <3>1. st[n] = "queued" /\ st'[n] = st[n] /\ out'[n] = "descriptor" /\ WritesDescriptor(n)
      BY <2>4, WorkerFrame
    <3>2. next < Rank[n] /\ out[n] # "written"
      BY <3>1, BusyIsInChunk
    <3> QED BY <1>1, <2>0, <2>1, <3>1, <3>2 DEF BatchInv
  <2> QED BY <2>2, <2>3, <2>4
<1> QED BY <1>1, <1>2, <1>3 DEF BatchInv

LEMMA WriteKeepsBatch ==
    ASSUME TypeOK, BatchInv, NEW x \in Top, WriteOutput(x) \/ WriteFails(x) PROVE BatchInv'
<1>0. x \in Node
  BY DEF Top
<1>1. /\ phase = "sign" /\ phase' = phase /\ exit' = exit /\ next' = next
      /\ lines' = lines /\ args' = args /\ file' = file
  BY DEF WriteOutput, WriteFails, input
<1>2. exit = "none"
  BY <1>1 DEF BatchInv
<1>3. \A n \in Top \ {x} : st'[n] = st[n] /\ out'[n] = out[n]
  BY DEF WriteOutput, WriteFails, TypeOK, Top
<1>4. /\ st[x] \in {"signed", "kept"} /\ out[x] # "written"
      /\ \/ st'[x] = st[x] /\ out'[x] = "written"
         \/ st'[x] = "failed" /\ out'[x] = "partial"
  BY <1>0 DEF WriteOutput, WriteFails, Finished, TypeOK
<1>5. next < Rank[x] /\ ~(next + args.maxConcurrency < Rank[x])
  BY <1>0, <1>4, ForestAssumption DEF BatchInv, Returned, TypeOK
<1>6. ASSUME NEW n \in Top
      PROVE  /\ out'[n] = "written" => st'[n] \in {"signed", "kept"}
             /\ (out[n] = "descriptor" => WritesDescriptor(n))'
             /\ st'[n] = "idle" => out'[n] = "none"
             /\ next + args.maxConcurrency < Rank[n] => st'[n] = "idle"
             /\ Rank[n] <= next => Returned(n)' /\ lines[n] = Outcome(n)'
             /\ st'[n] = "failed" /\ ~args.continueOnError => next < Rank[n]
  <2>1. WritesDescriptor(n)' <=> WritesDescriptor(n)
    BY <1>1 DEF WritesDescriptor, Nested, Is
  <2>2. CASE n = x
    <3>1. ~(Rank[n] <= next)
      BY <1>0, <1>5, <2>2, ForestAssumption DEF TypeOK
    <3> QED BY <1>4, <1>5, <2>1, <2>2, <3>1
  <2>3. CASE n # x
    BY <1>1, <1>2, <1>3, <2>1, <2>3 DEF BatchInv, Returned, Outcome
  <2> QED BY <2>2, <2>3
<1> QED BY <1>1, <1>2, <1>6 DEF BatchInv

(* The batch invariant holds in every reachable state.                       *)
LEMMA BatchInvariance == Spec => []BatchInv
<1>1. Init => BatchInv
  BY ForestAssumption, InputTypes DEF Init, BatchInv, ArgsType, Top
<1>2. TypeOK /\ BatchInv /\ [Next]_vars => BatchInv'
  <2> SUFFICES ASSUME TypeOK, BatchInv, [Next]_vars PROVE BatchInv'
    OBVIOUS
  <2>1. CASE UNCHANGED vars
    BY <2>1 DEF BatchInv, vars, Returned, Outcome, WritesDescriptor, Is
  <2> QED BY <2>1, MainKeepsBatch, WorkerKeepsBatch, WriteKeepsBatch DEF Next
<1> QED BY <1>1, <1>2, TypeCorrect, PTL DEF Spec

(* Without --continue-on-error a failed input stops the run at its chunk.    *)
THEOREM NoStartAfterFailureAlways == Spec => []NoStartAfterFailure
<1>1. TypeOK /\ BatchInv => NoStartAfterFailure
  <2> SUFFICES ASSUME TypeOK, BatchInv, NEW m \in Top, NEW n \in Top,
                      ~args.continueOnError, st[n] = "failed", Rank[n] < Rank[m], st[m] # "idle"
               PROVE  m \in Chunk /\ n \in Chunk
    BY DEF NoStartAfterFailure
  <2>1. Rank[m] \in Nat /\ Rank[n] \in Nat /\ next \in Nat /\ args.maxConcurrency \in Nat
    BY ForestAssumption DEF TypeOK, ArgsType, Top
  <2>2. next < Rank[n] /\ ~(next + args.maxConcurrency < Rank[m])
    BY DEF BatchInv
  <2> QED BY <2>1, <2>2 DEF Chunk
<1> QED BY <1>1, TypeCorrect, BatchInvariance, PTL

(* A normal return reports each input truthfully, for every batch width.     *)
THEOREM ReportIsFaithfulAlways == Spec => []ReportIsFaithful
<1>1. TypeOK /\ BatchInv => ReportIsFaithful
  <2> SUFFICES ASSUME TypeOK, BatchInv, exit \in {"zero", "one"} PROVE ReportIsFaithful
    BY DEF ReportIsFaithful
  <2>1. ASSUME NEW n \in Top
        PROVE  /\ lines[n] = (IF out[n] = "written" THEN "ok" ELSE "failed")
               /\ lines[n] # "failed" <=> out[n] = "written"
    BY DEF BatchInv, Returned, Outcome
  <2> QED BY <2>1 DEF ReportIsFaithful, BatchInv
<1> QED BY <1>1, TypeCorrect, BatchInvariance, PTL

(* A failed input leaves no finished output behind.                          *)
THEOREM FailureLeavesNoOutputAlways == Spec => []FailureLeavesNoOutput
<1>1. BatchInv => FailureLeavesNoOutput
  BY DEF BatchInv, FailureLeavesNoOutput
<1> QED BY <1>1, BatchInvariance, PTL

(* What the command says is what it did, for every forest and batch width.    *)
THEOREM OutcomesAreTrueAlways == Spec => []OutcomesAreTrue
<1>1. ReportIsFaithful /\ FailureLeavesNoOutput /\ NoStartAfterFailure => OutcomesAreTrue
  BY DEF OutcomesAreTrue
<1> QED BY <1>1, ReportIsFaithfulAlways, FailureLeavesNoOutputAlways, NoStartAfterFailureAlways, PTL
-----------------------------------------------------------------------------
(* The batch contract.  A step of the main thread or of one worker is seen    *)
(* by BatchSigning as one of its steps, or not at all.                        *)

(* The abstract status of an input, case by case.                             *)
LEMMA StatusValues ==
    ASSUME BatchInv, NEW n \in Top
    PROVE  /\ BatchStatus[n] \in {"pending", "busy", "ok", "failed"}
           /\ BatchStatus[n] = "pending" <=> st[n] = "idle"
           /\ BatchStatus[n] = "failed" <=> st[n] = "failed"
           /\ BatchStatus[n] = "ok" <=> out[n] = "written"
           /\ Returned(n) <=> BatchStatus[n] \in {"ok", "failed"}
  BY DEF BatchInv, BatchStatus, Returned

(* While the command runs its result is open.                                 *)
LEMMA ResultRunning == ASSUME BatchInv, phase # "exited" PROVE BatchResult = "running"
  BY DEF BatchInv, BatchResult

(* A step that moves one busy input leaves it busy or settles it.             *)
LEMMA OneInputRefines ==
    ASSUME TypeOK, BatchInv, BatchInv', NEW x \in Top,
           phase = "sign", exit' = exit, args' = args,
           \A n \in Top \ {x} : st'[n] = st[n] /\ out'[n] = out[n],
           BatchStatus[x] = "busy", BatchStatus'[x] # "pending"
    PROVE  Batch!BatchNext \/ UNCHANGED Batch!batch
<1>1. BatchResult = "running" /\ BatchResult' = BatchResult
  BY ResultRunning DEF BatchResult
<1>2. BatchStatus' = [n \in Top |-> BatchStatus'[n]] /\ BatchStatus = [n \in Top |-> BatchStatus[n]]
  BY DEF BatchStatus
<1>3. \A n \in Top \ {x} : BatchStatus'[n] = BatchStatus[n]
  BY DEF BatchStatus
<1>4. BatchStatus'[x] \in {"busy", "ok", "failed"}
  BY DEF BatchStatus
<1> HIDE DEF BatchStatus
<1>5. CASE BatchStatus'[x] = "busy"
  <2>1. BatchStatus' = BatchStatus
    BY <1>2, <1>3, <1>5
  <2> QED BY <1>1, <2>1 DEF Batch!batch
<1>6. CASE BatchStatus'[x] \in {"ok", "failed"}
  <2>1. BatchStatus' = [BatchStatus EXCEPT ![x] = BatchStatus'[x]]
    BY <1>2, <1>3
  <2>2. Batch!Settle(x)
    BY <1>1, <1>6, <2>1 DEF Batch!Settle
  <2> QED BY <2>2 DEF Batch!BatchNext
<1> QED BY <1>4, <1>5, <1>6

(* A worker of an input is invisible until it fails; one of an entry always. *)
LEMMA WorkerRefines ==
    ASSUME TypeOK, BatchInv, BatchInv', NEW x \in Node, Worker(x)
    PROVE  Batch!BatchNext \/ UNCHANGED Batch!batch
<1>1. phase = "sign" /\ exit' = exit /\ args' = args
  BY WorkerFrame
<1>2. /\ \A n \in Node \ {x} : st'[n] = st[n]
      /\ \A n \in Top \ {x} : out'[n] = out[n]
  BY DEF Worker, Leave, Keep, Refuse, WriteDescriptor, SignLeaf, Open, Seal, SignFails, TypeOK
<1>3. CASE x \in Top
  <2>1. Ready(x) \/ st[x] = "open"
    BY DEF Worker, Leave, Keep, Refuse, WriteDescriptor, SignLeaf, Open, Seal, SignFails, Visited
  <2>2. st[x] \in {"queued", "open"}
    BY <1>3, <2>1 DEF Ready, Nested, Top
  <2>3. BatchStatus[x] = "busy"
    BY <1>3, <2>2 DEF BatchStatus, BatchInv
  <2>4. st'[x] # "idle"
    BY <1>3, <2>2, WorkerFrame
  <2>5. BatchStatus'[x] # "pending"
    BY <1>3, <2>4 DEF BatchStatus
  <2>6. \A n \in Top \ {x} : st'[n] = st[n] /\ out'[n] = out[n]
    BY <1>2 DEF Top
  <2> QED BY <1>1, <1>3, <2>3, <2>5, <2>6, OneInputRefines
<1>4. CASE x \notin Top
  <2>1. \A n \in Top : st'[n] = st[n] /\ out'[n] = out[n]
    BY <1>2, <1>4 DEF Top
  <2>2. BatchStatus' = BatchStatus /\ BatchResult' = BatchResult
    BY <1>1, <2>1 DEF BatchStatus, BatchResult
  <2> QED BY <1>1, <2>2 DEF Batch!batch
<1> QED BY <1>3, <1>4

(* Writing the output settles the input, one way or the other.                *)
LEMMA WriteRefines ==
    ASSUME TypeOK, BatchInv, BatchInv', NEW x \in Top, WriteOutput(x) \/ WriteFails(x)
    PROVE  Batch!BatchNext \/ UNCHANGED Batch!batch
<1>1. phase = "sign" /\ exit' = exit /\ args' = args
  BY DEF WriteOutput, WriteFails, input
<1>2. \A n \in Top \ {x} : st'[n] = st[n] /\ out'[n] = out[n]
  BY DEF WriteOutput, WriteFails, TypeOK, Top
<1>3. st[x] \in {"signed", "kept"} /\ out[x] # "written" /\ st'[x] # "idle"
  BY DEF WriteOutput, WriteFails, Finished, TypeOK, Top
<1>4. BatchStatus[x] = "busy" /\ BatchStatus'[x] # "pending"
  BY <1>3 DEF BatchStatus
<1> QED BY <1>1, <1>2, <1>4, OneInputRefines

(* A chunk is begun whole, and only when nothing before it stopped the run.   *)
LEMMA SpawnRefines ==
    ASSUME TypeOK, BatchInv, Spawn
    PROVE  Batch!BatchNext
<1>1. phase = "sign" /\ exit' = exit /\ args' = args /\ out' = out
  BY DEF Spawn, input
<1>2. BatchResult = "running" /\ BatchResult' = BatchResult
  BY <1>1, ResultRunning DEF BatchResult
<1>3. Chunk \subseteq Top /\ \A n \in Chunk : st[n] = "idle"
  BY DEF Chunk, Spawn
<1>4. Chunk \subseteq {n \in Top : BatchStatus[n] = "pending"}
  BY <1>3 DEF BatchStatus
<1>5. ASSUME ~args.continueOnError, NEW n \in Top, BatchStatus[n] = "failed" PROVE FALSE
  <2>1. st[n] = "failed"
    BY <1>5 DEF BatchStatus
  <2>2. Rank[n] \in Nat /\ next \in Nat /\ args.maxConcurrency \in Nat
    BY ForestAssumption DEF TypeOK, ArgsType, Top
  <2>3. next < Rank[n] /\ ~(next + args.maxConcurrency < Rank[n])
    BY <1>5, <2>1 DEF BatchInv
  <2>4. n \in Chunk
    BY <2>2, <2>3 DEF Chunk
  <2> QED BY <1>3, <2>1, <2>4
<1>6. BatchStatus' = [n \in Top |-> IF n \in Chunk THEN "busy" ELSE BatchStatus[n]]
  <2>1. \A n \in Top : BatchStatus'[n] = IF n \in Chunk THEN "busy" ELSE BatchStatus[n]
    <3> SUFFICES ASSUME NEW n \in Top
                 PROVE  BatchStatus'[n] = IF n \in Chunk THEN "busy" ELSE BatchStatus[n]
      OBVIOUS
    <3>1. st'[n] = IF n \in Chunk THEN "queued" ELSE st[n]
      BY DEF Spawn, Top
    <3>2. n \in Chunk => out[n] # "written"
      BY <1>3 DEF BatchInv
    <3> QED BY <1>1, <3>1, <3>2 DEF BatchStatus
  <2>2. BatchStatus' = [n \in Top |-> BatchStatus'[n]]
    BY DEF BatchStatus
  <2> HIDE DEF BatchStatus
  <2> QED BY <2>1, <2>2
<1>7. Batch!Failed = {} \/ args.continueOnError
  BY <1>5 DEF Batch!Failed
<1>8. Batch!Begin(Chunk)
  BY <1>1, <1>2, <1>4, <1>6, <1>7 DEF Batch!Begin
<1> QED BY <1>3, <1>8 DEF Batch!BatchNext

(* A command that fails before the first chunk rejects the batch untouched.   *)
LEMMA StartRefines ==
    ASSUME TypeOK, BatchInv, BuildPlan \/ PlanFails \/ ResolveSigner
    PROVE  Batch!BatchNext \/ UNCHANGED Batch!batch
<1>1. phase \in {"start", "planned"} /\ args' = args /\ BatchStatus' = BatchStatus
  BY DEF BuildPlan, PlanFails, ResolveSigner, input, BatchStatus
<1>2. BatchResult = "running"
  BY <1>1, ResultRunning
<1>3. \A n \in Top : BatchStatus[n] = "pending"
  BY <1>1 DEF BatchInv, BatchStatus
<1>4. CASE exit' = exit
  BY <1>1, <1>4 DEF Batch!batch, BatchResult
<1>5. CASE exit' = "error"
  <2>1. BatchResult' = "error"
    BY <1>5 DEF BatchResult
  <2>2. Batch!Reject
    BY <1>1, <1>2, <1>3, <2>1 DEF Batch!Reject
  <2> QED BY <2>2 DEF Batch!BatchNext
<1> QED BY <1>4, <1>5 DEF BuildPlan, PlanFails, ResolveSigner

(* The command gives up only when no worker is left running.                  *)
LEMMA AbortRefines ==
    ASSUME TypeOK, BatchInv, Abort
    PROVE  Batch!BatchNext
<1>1. args' = args /\ BatchStatus' = BatchStatus /\ phase # "exited"
  BY DEF Abort, input, BatchStatus
<1>2. BatchResult = "running" /\ BatchResult' = "error"
  BY <1>1, ResultRunning DEF Abort, BatchResult
<1>3. Batch!Failed # {}
  BY StatusValues DEF Batch!Failed, Abort, ChunkFailed, Chunk
<1>4. \A n \in Top : BatchStatus[n] # "busy"
  <2> SUFFICES ASSUME NEW n \in Top PROVE Returned(n) \/ st[n] = "idle"
    BY StatusValues
  <2>1. Rank[n] \in Nat /\ next \in Nat /\ args.maxConcurrency \in Nat
    BY ForestAssumption DEF TypeOK, ArgsType, Top
  <2>2. CASE n \in Chunk
    BY <2>2 DEF Abort
  <2>3. CASE n \notin Chunk
    <3>1. Rank[n] <= next \/ next + args.maxConcurrency < Rank[n]
      BY <2>1, <2>3 DEF Chunk
    <3> QED BY <3>1 DEF BatchInv
  <2> QED BY <2>2, <2>3
<1>5. Batch!GiveUp
  BY <1>1, <1>2, <1>3, <1>4 DEF Batch!GiveUp, Abort
<1> QED BY <1>5 DEF Batch!BatchNext

(* A normal return settled every input, and its exit code tells which.        *)
LEMMA FinishRefines ==
    ASSUME TypeOK, BatchInv, Finish
    PROVE  Batch!BatchNext
<1>1. args' = args /\ BatchStatus' = BatchStatus /\ phase = "sign"
  BY DEF Finish, input, BatchStatus
<1>2. BatchResult = "running" /\ exit = "none" /\ args.maxConcurrency > 0
  BY <1>1, ResultRunning DEF BatchInv
<1>3. \A n \in Top : Rank[n] <= next
  BY <1>2, EmptyChunk DEF Finish
<1>4. \A n \in Top : /\ Returned(n)
                     /\ lines[n] = "failed" <=> BatchStatus[n] = "failed"
                     /\ BatchStatus[n] = "failed" => args.continueOnError
  <2> SUFFICES ASSUME NEW n \in Top
               PROVE  /\ Returned(n)
                      /\ lines[n] = "failed" <=> BatchStatus[n] = "failed"
                      /\ BatchStatus[n] = "failed" => args.continueOnError
    OBVIOUS
  <2>1. Rank[n] \in Nat /\ next \in Nat
    BY ForestAssumption DEF TypeOK, Top
  <2>2. Returned(n) /\ lines[n] = Outcome(n)
    BY <1>2, <1>3 DEF BatchInv
  <2>3. st[n] = "failed" => args.continueOnError
    BY <1>3, <2>1 DEF BatchInv
  <2> QED BY <2>2, <2>3, StatusValues DEF Outcome
<1>5. Batch!Settled = Top
  BY <1>4, StatusValues DEF Batch!Settled
<1>6. Batch!Failed = {} <=> \A n \in Top : lines[n] # "failed"
  BY <1>4 DEF Batch!Failed
<1>7. args.continueOnError \/ Batch!Failed = {}
  BY <1>4 DEF Batch!Failed
<1>8. BatchResult' = IF Batch!Failed = {} THEN "success" ELSE "partial"
  BY <1>6 DEF BatchResult, Finish
<1>9. Batch!Return
  BY <1>1, <1>2, <1>5, <1>7, <1>8 DEF Batch!Return
<1> QED BY <1>9 DEF Batch!BatchNext

LEMMA MainRefines ==
    ASSUME TypeOK, BatchInv, Main
    PROVE  Batch!BatchNext \/ UNCHANGED Batch!batch
<1>1. CASE Collect
  <2>1. args' = args /\ BatchStatus' = BatchStatus /\ BatchResult' = BatchResult
    BY <1>1 DEF Collect, input, BatchStatus, BatchResult
  <2> QED BY <2>1 DEF Batch!batch
<1> QED BY <1>1, StartRefines, SpawnRefines, AbortRefines, FinishRefines DEF Main

(* `psign-tool code` implements the batch contract, for every forest, every   *)
(* batch width and every interleaving of the workers: an input is settled     *)
(* once, nothing is begun after a failure unless --continue-on-error was      *)
(* given, and the exit code says success exactly when every input was signed. *)
THEOREM ImplementsBatchAlways == Spec => ImplementsBatch
<1>1. Init => Batch!BatchInit
  <2> SUFFICES ASSUME Init PROVE Batch!BatchInit
    OBVIOUS
  <2>1. args.continueOnError \in BOOLEAN
    BY InputTypes DEF Init, ArgsType
  <2>2. BatchStatus = [n \in Top |-> "pending"] /\ BatchResult = "running"
    BY DEF Init, BatchStatus, BatchResult, Top
  <2> QED BY <2>1, <2>2 DEF Batch!BatchInit
<1>2. TypeOK /\ BatchInv /\ BatchInv' /\ [Next]_vars => [Batch!BatchNext]_(Batch!batch)
  <2> SUFFICES ASSUME TypeOK, BatchInv, BatchInv', [Next]_vars
               PROVE  Batch!BatchNext \/ UNCHANGED Batch!batch
    OBVIOUS
  <2>1. CASE UNCHANGED vars
    BY <2>1 DEF vars, Batch!batch, BatchStatus, BatchResult
  <2> QED BY <2>1, MainRefines, WorkerRefines, WriteRefines DEF Next
<1> QED
  BY <1>1, <1>2, TypeCorrect, BatchInvariance, PTL DEF Spec, ImplementsBatch, Batch!BatchSpec
=============================================================================
