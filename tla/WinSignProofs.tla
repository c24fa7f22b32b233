----------------------------- MODULE WinSignProofs -----------------------------
(***************************************************************************)
(* What the Windows signer's threads do to the shared Key Vault slot and to  *)
(* the shared environment variable, for any number of targets, commands,     *)
(* certificate versions and any width.                                       *)
(***************************************************************************)
EXTENDS WinSign, TLAPS

(* The labels between the installation of the slot and its removal.          *)
Holding == {"guard", "set", "hash", "callback", "restore", "take"}

LEMMA Labels ==
    /\ Holding \subseteq Pc /\ "waiting" \in Pc /\ "fetch" \in Pc /\ "install" \in Pc
    /\ "post" \in Pc /\ "done" \in Pc
BY DEF Holding, Pc

LEMMA ArgsType ==
    ASSUME TypeOK, Active
    PROVE  Args \in Command
BY DEF TypeOK, Active, Args

(* A step of a target changes its own record only, and to one of its type.   *)
LEMMA OneRecord ==
    ASSUME TypeOK, ConstantAssumption, NEW o \in Op, Begin(o) \/ Sign(o)
    PROVE  /\ op' \in [Op -> OpType]
           /\ \A i \in Op : i # o => op'[i] = op[i]
           /\ UNCHANGED <<script, at, inherited, vault, batchExit>>
           /\ env' \in EnvValue
           /\ slot' \in Version \cup {None}
<1> USE Labels DEF Holding
<1>0. /\ op \in [Op -> OpType] /\ env \in EnvValue /\ slot \in Version \cup {None}
      /\ vault \in Version /\ 1 \in Version /\ "0" \in EnvValue
  BY DEF TypeOK, EnvValue, Version, ConstantAssumption
<1>1. CASE Begin(o)
  BY <1>0, <1>1 DEF Begin, Failing, Goto, OpType
<1>2. CASE Fetch(o)
  BY <1>0, <1>2 DEF Fetch, Failing, OpType
<1>3. CASE Install(o)
  BY <1>0, <1>3 DEF Install, Goto, OpType
<1>4. CASE GuardRead(o)
  <2>1. [op[o] EXCEPT !.pc = "hash"] \in OpType
    BY <1>0 DEF OpType
  <2>2. [op[o] EXCEPT !.pc = "set", !.saved = env] \in OpType
    BY <1>0 DEF OpType
  <2>3. op' \in [Op -> OpType] /\ \A i \in Op : i # o => op'[i] = op[i]
    BY <1>0, <1>4, <2>1, <2>2 DEF GuardRead
  <2> QED
    BY <1>0, <1>4, <2>3 DEF GuardRead
<1>5. CASE GuardSet(o)
  BY <1>0, <1>5 DEF GuardSet, Goto, OpType
<1>6. CASE Hash(o)
  BY <1>0, <1>6 DEF Hash, Failing, OpType
<1>7. CASE Callback(o)
  BY <1>0, <1>7 DEF Callback, Failing, OpType
<1>8. CASE GuardDrop(o)
  BY <1>0, <1>8 DEF GuardDrop, Goto, AfterReturn, OpType
<1>9. CASE Take(o)
  BY <1>0, <1>9 DEF Take, Goto, OpType
<1>10. CASE Post(o)
  BY <1>0, <1>10 DEF Post, Failing, OpType
<1> QED
  BY <1>1, <1>2, <1>3, <1>4, <1>5, <1>6, <1>7, <1>8, <1>9, <1>10 DEF Sign

LEMMA WaitingType == Waiting \in OpType
BY Labels DEF Waiting, OpType, EnvValue

LEMMA CombineType ==
    ASSUME NEW a \in Exit, NEW b \in Exit
    PROVE  Combine(a, b) \in Exit
BY DEF Combine

LEMMA TypeStep ==
    ASSUME TypeOK, ConstantAssumption, [Next]_vars
    PROVE  TypeOK'
<1>1. CASE EndCommand
  <2>1. ExitCode \in Exit
    BY DEF ExitCode, Exit
  <2>2. batchExit' \in Exit
    BY <1>1, <2>1, CombineType DEF TypeOK, EndCommand
  <2>3. op' \in [Op -> OpType]
    BY <1>1, WaitingType DEF EndCommand
  <2> QED
    BY <1>1, <2>2, <2>3 DEF TypeOK, EndCommand, Active
<1>2. CASE RefuseCommand
  <2>1. batchExit' \in Exit
    BY <1>2, CombineType DEF TypeOK, RefuseCommand, Exit
  <2> QED
    BY <1>2, <2>1 DEF TypeOK, RefuseCommand, Active
<1>6. CASE ParserExit
  <2>1. Len(script) \in Nat
    BY DEF TypeOK
  <2>2. batchExit' \in Exit /\ at' \in 1 .. Len(script') + 1
    BY <1>6, <2>1 DEF ParserExit, Exit
  <2> QED
    BY <1>6, <2>2 DEF TypeOK, ParserExit
<1>3. CASE Rotate
  BY <1>3 DEF TypeOK, Rotate, Version, ConstantAssumption
<1>4. CASE \E o \in Op : Begin(o) \/ Sign(o)
  BY <1>4, OneRecord DEF TypeOK
<1>5. CASE UNCHANGED vars
  BY <1>5 DEF TypeOK, vars
<1> QED
  BY <1>1, <1>2, <1>3, <1>4, <1>5, <1>6 DEF Next

LEMMA TypeInit ==
    ASSUME ConstantAssumption, Init
    PROVE  TypeOK
BY WaitingType DEF Init, TypeOK, ConstantAssumption, Exit, Version

(* The process-wide state and the records of the targets keep their types,   *)
(* for any number of targets and any width (TypeOK of the run).              *)
THEOREM TypeCorrect == Spec => []TypeOK
<1>1. Init => TypeOK
  BY TypeInit, ConstantAssumption
<1>2. TypeOK /\ [Next]_vars => TypeOK'
  BY TypeStep, ConstantAssumption
<1> QED
  BY <1>1, <1>2, PTL DEF Spec

-----------------------------------------------------------------------------
(* Only a target of the current command is anywhere but at the ends, and     *)
(* only one of a Key Vault command is where the slot is installed or taken.  *)
Placed ==
    \A o \in Op :
        /\ op[o].pc \notin {"waiting", "done"} => Active
        /\ op[o].pc \in {"fetch", "install", "take"} => Args.keyVault

(* A full slot belongs to some target that will still come to its Take.      *)
SlotHeld == slot # None => Active /\ Args.keyVault /\ \E o \in Op : op[o].pc \in Holding

SlotInv == TypeOK /\ Placed /\ SlotHeld

LEMMA SameCommand ==
    ASSUME UNCHANGED <<script, at>>
    PROVE  Active' = Active /\ Args' = Args
BY DEF Active, Args

LEMMA PlacedStep ==
    ASSUME SlotInv, ConstantAssumption, NEW o \in Op, Begin(o) \/ Sign(o)
    PROVE  Placed'
<1>1. /\ \A i \in Op : i # o => op'[i] = op[i]
      /\ Active' = Active /\ Args' = Args
  BY OneRecord, SameCommand DEF SlotInv
<1>2. /\ op'[o].pc \notin {"waiting", "done"} => Active
      /\ op'[o].pc \in {"fetch", "install", "take"} => Args.keyVault
  <2>0. op \in [Op -> OpType]
    BY DEF SlotInv, TypeOK
  <2>1. CASE Begin(o)
    BY <2>0, <2>1 DEF Begin, Failing, Goto, OpType
  <2>2. CASE Sign(o)
    <3>1. /\ Active
          /\ op[o].pc \in {"fetch", "install", "take"} => Args.keyVault
      BY <2>2 DEF SlotInv, Placed, Sign, Fetch, Install, GuardRead, GuardSet, Hash,
                  Callback, GuardDrop, Take, Post
    <3> QED
      BY <2>0, <2>2, <3>1 DEF Sign, Fetch, Install, GuardRead, GuardSet, Hash, Callback,
            GuardDrop, Take, Post, Goto, Failing, AfterReturn, OpType
  <2> QED
    BY <2>1, <2>2
<1> QED
  BY <1>1, <1>2 DEF Placed, SlotInv

LEMMA SlotHeldStep ==
    ASSUME SlotInv, ConstantAssumption, NEW o \in Op, Begin(o) \/ Sign(o)
    PROVE  SlotHeld'
<1>0. op \in [Op -> OpType]
  BY DEF SlotInv, TypeOK
<1>1. /\ op' \in [Op -> OpType]
      /\ \A i \in Op : i # o => op'[i] = op[i]
      /\ Active' = Active /\ Args' = Args
  BY OneRecord, SameCommand DEF SlotInv
<1>2. CASE Install(o)
  <2>1. op'[o].pc \in Holding
    BY <1>0, <1>2 DEF Install, Goto, Holding
  <2> QED
    BY <1>1, <1>2, <2>1 DEF SlotInv, SlotHeld, Placed, Install
<1>3. CASE Take(o)
  BY <1>3 DEF Take, SlotHeld
<1>4. CASE ~Install(o) /\ ~Take(o)
  <2>1. slot' = slot
    BY <1>4 DEF Begin, Sign, Fetch, GuardRead, GuardSet, Hash, Callback, GuardDrop, Post
  <2>2. (op[o].pc \in Holding /\ Args.keyVault) => op'[o].pc \in Holding
    BY <1>0, <1>4 DEF Begin, Sign, Fetch, GuardRead, GuardSet, Hash, Callback, GuardDrop,
            Post, Goto, Failing, AfterReturn, Holding, OpType
  <2> QED
    BY <1>1, <2>1, <2>2 DEF SlotInv, SlotHeld
<1> QED
  BY <1>2, <1>3, <1>4

LEMMA SlotInvStep ==
    ASSUME SlotInv, ConstantAssumption, [Next]_vars
    PROVE  SlotInv'
<1>1. TypeOK'
  BY TypeStep DEF SlotInv
<1>2. CASE EndCommand \/ RefuseCommand \/ ParserExit
  <2>1. slot = None
    BY <1>2 DEF EndCommand, RefuseCommand, ParserExit, SlotInv, SlotHeld, Holding, Waiting
  <2>2. op' = [i \in Op |-> Waiting] /\ slot' = slot
    BY <1>2 DEF EndCommand, RefuseCommand, ParserExit
  <2> QED
    BY <1>1, <2>1, <2>2 DEF SlotInv, Placed, SlotHeld, Waiting
<1>3. CASE Rotate \/ UNCHANGED vars
  BY <1>1, <1>3, SameCommand DEF Rotate, vars, SlotInv, Placed, SlotHeld
<1>4. CASE \E o \in Op : Begin(o) \/ Sign(o)
  BY <1>1, <1>4, PlacedStep, SlotHeldStep DEF SlotInv
<1> QED
  BY <1>2, <1>3, <1>4 DEF Next

LEMMA SlotInvInit ==
    ASSUME ConstantAssumption, Init
    PROVE  SlotInv
<1>1. TypeOK
  BY TypeInit
<1> QED
  BY <1>1 DEF Init, SlotInv, Placed, SlotHeld, Waiting

(* However many threads overwrite and take each other's Key Vault state, the *)
(* process keeps none when no target is being signed.                        *)
THEOREM SlotClearedAlways == Spec => []SlotCleared
<1>1. Init => SlotInv
  BY SlotInvInit, ConstantAssumption
<1>2. SlotInv /\ [Next]_vars => SlotInv'
  BY SlotInvStep, ConstantAssumption
<1>3. SlotInv => SlotCleared
  BY DEF SlotInv, SlotHeld, SlotCleared, Idle, Holding
<1> QED
  BY <1>1, <1>2, <1>3, PTL DEF Spec

-----------------------------------------------------------------------------
(* Without threads the targets are taken in order, one at a time.            *)
InOrder ==
    (Active /\ Sequential(Args)) =>
        \A o, i \in Op : (i < o /\ op[o].pc # "waiting") => op[i].pc = "done"

Fresh == \A o \in Op : op[o].pc = "waiting" => op[o] = Waiting

(* A target that fetched its certificate has one, a pinned command has only  *)
(* one, and without threads the slot of the target at work is its own.       *)
Fetched ==
    \A o \in Op : (Active /\ Args.keyVault /\ op[o].pc \in Holding \cup {"install"})
        => op[o].cert # None
Pinned ==
    (Active /\ Args.pinned) =>
        /\ slot \in {None, 1}
        /\ \A o \in Op : /\ op[o].cert \in {None, 1}
                         /\ op[o].key # None => op[o].key = op[o].cert
Owned ==
    (Active /\ Args.keyVault /\ Sequential(Args)) =>
        \A o \in Op : op[o].pc \in Holding => slot = op[o].cert
KeyInv == SlotInv /\ InOrder /\ Fresh /\ Fetched /\ Pinned /\ Owned /\ OwnKey

(* A target that has not been to the callback has no key.                    *)
NoKeyYet == \A o \in Op : op[o].pc \in {"waiting", "fetch", "install", "guard", "set", "hash", "callback"}
                => op[o].key = None

KInv == KeyInv /\ NoKeyYet

LEMMA InOrderStep ==
    ASSUME KInv, ConstantAssumption, NEW o \in Op, Begin(o) \/ Sign(o)
    PROVE  InOrder' /\ Fresh'
<1>0. op \in [Op -> OpType]
  BY DEF KInv, KeyInv, SlotInv, TypeOK
<1>1. /\ op' \in [Op -> OpType]
      /\ \A i \in Op : i # o => op'[i] = op[i]
      /\ Active' = Active /\ Args' = Args
  BY OneRecord, SameCommand DEF KInv, KeyInv, SlotInv
<1>2. op'[o].pc # "waiting" /\ op[o].pc # "done"
  BY <1>0 DEF Begin, Sign, Fetch, Install, GuardRead, GuardSet, Hash, Callback, GuardDrop,
        Take, Post, Goto, Failing, AfterReturn, OpType
<1>3. (Active /\ Sequential(Args)) =>
        \A i \in Op : i < o => op[i].pc = "done"
  <2>1. CASE Begin(o)
    BY <2>1 DEF Begin
  <2>2. CASE Sign(o)
    <3>1. op[o].pc # "waiting"
      BY <2>2 DEF Sign, Fetch, Install, GuardRead, GuardSet, Hash, Callback, GuardDrop, Take, Post
    <3> QED
      BY <3>1 DEF KInv, KeyInv, InOrder
  <2> QED
    BY <2>1, <2>2
<1>4. (Active /\ Sequential(Args)) => \A i \in Op : o < i => op[i].pc = "waiting"
  BY <1>2 DEF KInv, KeyInv, InOrder
<1>5. InOrder'
  <2>1. SUFFICES ASSUME Active, Sequential(Args), NEW k \in Op, NEW i \in Op,
                        i < k, op'[k].pc # "waiting"
                 PROVE  op'[i].pc = "done"
    BY <1>1 DEF InOrder, Sequential
  <2>2. CASE k = o
    BY <1>1, <1>3, <2>1, <2>2 DEF Op
  <2>3. CASE k # o
    <3>1. op[k].pc # "waiting"
      BY <1>1, <2>1, <2>3
    <3>2. i # o
      BY <1>4, <2>1, <3>1
    <3> QED
      BY <1>1, <2>1, <3>1, <3>2 DEF KInv, KeyInv, InOrder
  <2> QED
    BY <2>2, <2>3
<1>6. Fresh'
  BY <1>1, <1>2 DEF KInv, KeyInv, Fresh
<1> QED
  BY <1>5, <1>6

(* Without threads a target at work is the only one.                         *)
LEMMA Alone ==
    ASSUME KInv, Active, Sequential(Args), NEW o \in Op, op[o].pc \notin {"waiting", "done"},
           NEW i \in Op, i # o
    PROVE  op[i].pc \in {"waiting", "done"}
<1>1. i < o \/ o < i
  BY DEF Op
<1> QED
  BY <1>1 DEF KInv, KeyInv, InOrder

(* What a step does to the certificate and the key of its target, and to the *)
(* slot.                                                                     *)
LEMMA KeyFlow ==
    ASSUME KInv, ConstantAssumption, NEW o \in Op, Begin(o) \/ Sign(o)
    PROVE  \/ Fetch(o) /\ op'[o].key = op[o].key /\ slot' = slot
               /\ \/ op'[o].cert = (IF Args.pinned THEN 1 ELSE vault) /\ op'[o].pc = "install"
                  \/ op'[o].cert = op[o].cert /\ op'[o].pc = "done"
           \/ Install(o) /\ op'[o].key = op[o].key /\ op'[o].cert = op[o].cert
                /\ slot' = op[o].cert /\ op'[o].pc = "guard"
           \/ Callback(o) /\ op'[o].cert = op[o].cert /\ slot' = slot /\ op'[o].pc = "restore"
               /\ \/ op'[o].key = op[o].key
                  \/ op'[o].key = IF Args.keyVault THEN slot ELSE None
           \/ Take(o) /\ op'[o].key = op[o].key /\ op'[o].cert = op[o].cert /\ op'[o].pc = "post"
                /\ slot' = None
           \/ /\ op'[o].key = op[o].key /\ op'[o].cert = op[o].cert /\ slot' = slot
              /\ op[o].pc \notin {"fetch", "install", "callback", "take"}
              /\ op'[o].pc # "install"
              /\ op'[o].pc \in Holding => op[o].pc \in Holding \/ ~Args.keyVault
              /\ op[o].pc \in {"restore", "post", "done"} => op'[o].pc \in {"take", "post", "done"}
<1>0. op \in [Op -> OpType]
  BY DEF KInv, KeyInv, SlotInv, TypeOK
<1>1. CASE Begin(o)
  BY <1>0, <1>1 DEF Begin, Failing, Goto, OpType, Holding
<1>2. CASE Fetch(o)
  BY <1>0, <1>2 DEF Fetch, Failing, OpType
<1>3. CASE Install(o)
  BY <1>0, <1>3 DEF Install, Goto, OpType
<1>4. CASE GuardRead(o) \/ GuardSet(o) \/ Hash(o)
  BY <1>0, <1>4 DEF GuardRead, GuardSet, Hash, Goto, Failing, OpType, Holding
<1>5. CASE Callback(o)
  BY <1>0, <1>5 DEF Callback, Failing, OpType
<1>6. CASE GuardDrop(o) \/ Post(o)
  BY <1>0, <1>6 DEF GuardDrop, Post, Goto, Failing, AfterReturn, OpType, Holding
<1>7. CASE Take(o)
  BY <1>0, <1>7 DEF Take, Goto, OpType
<1> QED
  BY <1>1, <1>2, <1>3, <1>4, <1>5, <1>6, <1>7 DEF Sign

LEMMA KeyStep ==
    ASSUME KInv, ConstantAssumption, NEW o \in Op, Begin(o) \/ Sign(o)
    PROVE  Fetched' /\ Pinned' /\ Owned' /\ OwnKey' /\ NoKeyYet'
<1>0. op \in [Op -> OpType] /\ vault \in Version /\ None \notin Version
  BY DEF KInv, KeyInv, SlotInv, TypeOK, Version, None
<1>1. /\ op' \in [Op -> OpType]
      /\ \A i \in Op : i # o => op'[i] = op[i]
      /\ Active' = Active /\ Args' = Args
  BY OneRecord, SameCommand DEF KInv, KeyInv, SlotInv
<1>2. Sequential(Args)' = Sequential(Args)
  BY <1>1 DEF Sequential
<1>3. op[o].pc \notin {"waiting", "done"} => Active
  BY DEF KInv, KeyInv, SlotInv, Placed
<1>4. NoKeyYet'
  <2>1. op'[o].pc \in {"waiting", "fetch", "install", "guard", "set", "hash", "callback"}
            => op'[o].key = None
    BY <1>0 DEF KInv, NoKeyYet, Begin, Sign, Fetch, Install, GuardRead, GuardSet, Hash,
         Callback, GuardDrop, Take, Post, Goto, Failing, AfterReturn, OpType
  <2> QED
    BY <1>1, <2>1 DEF KInv, NoKeyYet
<1>5. Fetched'
  <2>1. SUFFICES ASSUME Active, Args.keyVault, op'[o].pc \in Holding \cup {"install"}
                 PROVE  op'[o].cert # None
    BY <1>1 DEF KInv, KeyInv, Fetched
  <2>2. 1 # None
    BY DEF None
  <2> QED
    BY <1>0, <2>1, <2>2, KeyFlow DEF KInv, KeyInv, Fetched, Holding, Fetch, Install, Callback, Take
<1>6. Pinned'
  <2>1. SUFFICES ASSUME Active, Args.pinned
                 PROVE  /\ slot' \in {None, 1}
                        /\ op'[o].cert \in {None, 1}
                        /\ op'[o].key # None => op'[o].key = op'[o].cert
    BY <1>1 DEF KInv, KeyInv, Pinned
  <2>2. /\ slot \in {None, 1}
        /\ op[o].cert \in {None, 1}
        /\ op[o].key # None => op[o].key = op[o].cert
    BY <2>1 DEF KInv, KeyInv, Pinned
  <2>3. CASE Fetch(o)
    <3>1. op[o].key = None
      BY <2>3 DEF KInv, NoKeyYet, Fetch
    <3> QED
      BY <2>1, <2>2, <2>3, <3>1, KeyFlow DEF Fetch, Install, Callback, Take
  <2>4. CASE Callback(o)
    <3>1. Args.keyVault => op[o].cert # None
      BY <2>1, <2>4 DEF KInv, KeyInv, Fetched, Holding, Callback
    <3> QED
      BY <2>1, <2>2, <2>4, <3>1, KeyFlow DEF Fetch, Install, Callback, Take
  <2> QED
    BY <2>2, <2>3, <2>4, KeyFlow
<1>7. Owned'
  <2>1. SUFFICES ASSUME Active, Args.keyVault, Sequential(Args), NEW i \in Op, op'[i].pc \in Holding
                 PROVE  slot' = op'[i].cert
    BY <1>1, <1>2 DEF Owned
  <2>2. op[o].pc \in Holding => slot = op[o].cert
    BY <2>1 DEF KInv, KeyInv, Owned
  <2>3. CASE i = o
    BY <2>1, <2>2, <2>3, KeyFlow DEF Holding, Fetch, Install, Callback, Take
  <2>4. CASE i # o
    <3>1. op[i].pc \in Holding /\ op'[i] = op[i]
      BY <1>1, <2>1, <2>4
    <3>2. op[o].pc \in {"waiting", "done"}
      BY <2>1, <2>4, <3>1, Alone DEF Holding
    <3>3. slot' = slot
      BY <3>2, KeyFlow DEF Fetch, Install, Callback, Take
    <3> QED
      BY <2>1, <3>1, <3>3 DEF KInv, KeyInv, Owned
  <2> QED
    BY <2>3, <2>4
<1>8. OwnKey'
  <2>1. SUFFICES ASSUME Active, op'[o].key # None, Sequential(Args) \/ Args.pinned
                 PROVE  op'[o].key = op'[o].cert
    BY <1>1, <1>2 DEF KInv, KeyInv, OwnKey
  <2>2. CASE Args.pinned
    BY <1>1, <1>6, <2>1, <2>2 DEF Pinned
  <2>3. CASE Sequential(Args)
    <3>1. op[o].key # None => op[o].key = op[o].cert
      BY <2>1, <2>3 DEF KInv, KeyInv, OwnKey
    <3>2. CASE Fetch(o)
      <4>1. op[o].key = None
        BY <3>2 DEF KInv, NoKeyYet, Fetch
      <4> QED
        BY <2>1, <3>2, <4>1, KeyFlow DEF Fetch, Install, Callback, Take
    <3>3. CASE Callback(o)
      <4>1. Args.keyVault => slot = op[o].cert
        BY <2>1, <2>3, <3>3 DEF KInv, KeyInv, Owned, Holding, Callback
      <4> QED
        BY <2>1, <3>1, <3>3, <4>1, KeyFlow DEF Fetch, Install, Callback, Take
    <3> QED
      BY <2>1, <3>1, <3>2, <3>3, KeyFlow
  <2> QED
    BY <2>1, <2>2, <2>3
<1> QED
  BY <1>4, <1>5, <1>6, <1>7, <1>8

LEMMA KInvStep ==
    ASSUME KInv, ConstantAssumption, [Next]_vars
    PROVE  KInv'
<1>1. SlotInv'
  BY SlotInvStep DEF KInv, KeyInv
<1>2. CASE EndCommand \/ RefuseCommand \/ ParserExit
  <2>1. slot' = None
    BY <1>2 DEF EndCommand, RefuseCommand, ParserExit, KInv, KeyInv, SlotInv, SlotHeld, Holding, Waiting
  <2>2. op' = [i \in Op |-> Waiting]
    BY <1>2 DEF EndCommand, RefuseCommand, ParserExit
  <2> QED
    BY <1>1, <2>1, <2>2 DEF KInv, KeyInv, InOrder, Fresh, Fetched, Pinned, Owned, OwnKey,
        NoKeyYet, Holding, Waiting
<1>3. CASE Rotate \/ UNCHANGED vars
  <2>1. UNCHANGED <<script, at, slot, op>>
    BY <1>3 DEF Rotate, vars
  <2> QED
    BY <1>1, <2>1, SameCommand DEF KInv, KeyInv, InOrder, Fresh, Fetched, Pinned, Owned,
        OwnKey, NoKeyYet, Sequential
<1>4. CASE \E o \in Op : Begin(o) \/ Sign(o)
  BY <1>1, <1>4, InOrderStep, KeyStep DEF KInv, KeyInv
<1> QED
  BY <1>2, <1>3, <1>4 DEF Next

LEMMA KInvInit ==
    ASSUME ConstantAssumption, Init
    PROVE  KInv
<1>1. SlotInv
  BY SlotInvInit
<1> QED
  BY <1>1 DEF Init, KInv, KeyInv, InOrder, Fresh, Fetched, Pinned, Owned, OwnKey, NoKeyYet,
      Holding, Waiting

(* For any number of targets, commands and rotations: targets signed one by  *)
(* one, or with a pinned certificate version by any number of threads, are   *)
(* signed with the key of the certificate they embed.                        *)
THEOREM OwnKeyAlways == Spec => []OwnKey
<1>1. Init => KInv
  BY KInvInit, ConstantAssumption
<1>2. KInv /\ [Next]_vars => KInv'
  BY KInvStep, ConstantAssumption
<1>3. KInv => OwnKey
  BY DEF KInv, KeyInv
<1> QED
  BY <1>1, <1>2, <1>3, PTL DEF Spec

(* The exit code of the process gets no milder from one command to the next, *)
(* and a command with a failed target is not forgotten; a block with a usage *)
(* error, which ends the process, leaves it non-zero.                        *)
THEOREM FailureIsRememberedAlways == Spec => FailureIsRemembered
<1>1. TypeOK /\ [Next]_vars =>
        [(Active => Args.parses # "help") =>
            /\ batchExit # "zero" => batchExit' # "zero"
            /\ (at' # at /\ Failed # {}) => batchExit' # "zero"
            /\ (Active => Args.parses = "yes") => Severity(batchExit) <= Severity(batchExit')]_vars
  <2> SUFFICES ASSUME TypeOK, Next, Active => Args.parses # "help"
               PROVE  /\ batchExit # "zero" => batchExit' # "zero"
                      /\ (at' # at /\ Failed # {}) => batchExit' # "zero"
                      /\ (Active => Args.parses = "yes") =>
                             Severity(batchExit) <= Severity(batchExit')
    BY DEF TypeOK
  <2>1. batchExit \in Exit /\ ExitCode \in Exit /\ "one" \in Exit
    BY DEF TypeOK, ExitCode, Exit
  <2>2. \A x, y \in Exit : /\ Severity(x) <= Severity(Combine(x, y))
                           /\ (x # "zero" \/ y # "zero") => Combine(x, y) # "zero"
    BY DEF Exit, Combine, Severity
  <2>3. CASE EndCommand
    <3>1. Failed # {} => ExitCode # "zero"
      BY DEF ExitCode
    <3> QED
      BY <2>1, <2>2, <2>3, <3>1 DEF EndCommand
  <2>4. CASE RefuseCommand
    BY <2>1, <2>2, <2>4 DEF RefuseCommand
  <2>6. CASE ParserExit
    <3>1. batchExit' = "usage" /\ Active /\ Args.parses # "yes"
      BY <2>6, ArgsType DEF ParserExit, Command
    <3> QED
      BY <3>1
  <2>5. CASE Rotate \/ \E o \in Op : Begin(o) \/ Sign(o)
    <3>1. UNCHANGED <<at, batchExit>>
      BY <2>5, OneRecord, ConstantAssumption DEF Rotate
    <3> QED
      BY <2>1, <3>1 DEF Exit, Severity
  <2> QED
    BY <2>3, <2>4, <2>5, <2>6 DEF Next
<1> QED
  BY <1>1, TypeCorrect, PTL DEF Spec, FailureIsRemembered

(* The shared Key Vault slot is sound, for any number of threads.            *)
THEOREM SlotIsSoundAlways == Spec => []SlotIsSound
<1>1. SlotCleared /\ OwnKey => SlotIsSound
  BY DEF SlotIsSound
<1> QED
  BY <1>1, SlotClearedAlways, OwnKeyAlways, PTL
-----------------------------------------------------------------------------
(* SIGNTOOL_PAGE_HASHES.  The labels between the guard's set and its drop,   *)
(* and those behind a call of SignerSignEx3 that has hashed the subject.     *)
Bracket == {"hash", "callback", "restore"}
Hashed == {"callback", "restore", "take", "post", "done"}

(* Every command up to the current one takes its targets one by one.         *)
Calm == \A i \in 1 .. Len(script) : i <= at => Sequential(script[i])

(* Only --no-page-hashes leads to the guard's set.                           *)
SetOnly == \A o \in Op : op[o].pc = "set" => Active /\ Args.noPageHashes

(* In a sequential command with the option, the variable is 0 for the whole  *)
(* call and the SIP has seen it, unless the target has failed.               *)
EnvHeld ==
    (Active /\ Sequential(Args) /\ Args.noPageHashes) =>
        \A o \in Op : /\ op[o].pc \in Bracket => env = "0"
                      /\ (op[o].pc \in Hashed /\ op[o].res \notin {"failed", "skipped"})
                            => op[o].seen = "0"
                      /\ op[o].res \in {"signed", "skipped"} => op[o].pc = "done"

(* What a guard will restore is what the process inherited, and nothing else *)
(* than a guard that is still up keeps the variable from it.                 *)
SavedIsInherited ==
    Calm => \A o \in Op :
        (Active /\ Args.noPageHashes /\ op[o].pc \in {"set"} \cup Bracket) => op[o].saved = inherited
EnvClean ==
    (Calm /\ env # inherited) =>
        Active /\ Args.noPageHashes /\ \E o \in Op : op[o].pc \in Bracket

PageInv == SetOnly /\ EnvHeld /\ SavedIsInherited /\ EnvClean

LEMMA SameScript ==
    ASSUME UNCHANGED <<script, at>>
    PROVE  Calm' = Calm /\ Sequential(Args)' = Sequential(Args)
BY DEF Calm, Sequential, Args

LEMMA CalmIsSequential ==
    ASSUME TypeOK, Active, Calm
    PROVE  Sequential(Args)
BY DEF TypeOK, Active, Calm, Args

(* What a step does to the variable and to what its target knows of it.      *)
LEMMA EnvFlow ==
    ASSUME KInv, ConstantAssumption, NEW o \in Op, Begin(o) \/ Sign(o)
    PROVE  \/ /\ GuardRead(o) /\ Args.noPageHashes /\ env' = env
              /\ op'[o].pc = "set" /\ op'[o].saved = env /\ op'[o].res = op[o].res
           \/ /\ GuardRead(o) /\ ~Args.noPageHashes /\ env' = env
              /\ op'[o].pc = "hash" /\ op'[o].res = op[o].res
           \/ /\ GuardSet(o) /\ env' = "0" /\ op'[o].pc = "hash"
              /\ op'[o].saved = op[o].saved /\ op'[o].res = op[o].res
           \/ /\ Hash(o) /\ env' = env /\ op'[o].saved = op[o].saved
              /\ \/ op'[o].pc = "callback" /\ op'[o].seen = env /\ op'[o].res = op[o].res
                 \/ op'[o].pc = "restore" /\ op'[o].res = "failed"
           \/ /\ Callback(o) /\ env' = env /\ op'[o].saved = op[o].saved /\ op'[o].pc = "restore"
              /\ op'[o].seen = op[o].seen /\ op'[o].res \in {op[o].res, "failed"}
           \/ /\ GuardDrop(o) /\ env' = (IF Args.noPageHashes THEN op[o].saved ELSE env)
              /\ op'[o].pc \in {"take", "post"} /\ op'[o].seen = op[o].seen /\ op'[o].res = op[o].res
           \/ /\ op[o].pc \in {"take", "post"} /\ env' = env /\ op'[o].seen = op[o].seen
              /\ \/ op'[o].pc = "post" /\ op'[o].res = op[o].res
                 \/ op'[o].pc = "done" /\ op'[o].res \in {"signed", "failed"}
                       /\ (op[o].res = "failed" => op'[o].res = "failed")
           \/ /\ op[o].pc \in {"waiting", "fetch", "install"} /\ env' = env
              /\ \/ op'[o].pc = "done" /\ op'[o].res \in {"skipped", "failed"}
                 \/ op'[o].pc \in {"fetch", "install", "guard"} /\ op'[o].res = op[o].res
<1>0. op \in [Op -> OpType]
  BY DEF KInv, KeyInv, SlotInv, TypeOK
<1>1. CASE Begin(o)
  BY <1>0, <1>1 DEF Begin, Failing, Goto, OpType
<1>2. CASE Fetch(o) \/ Install(o)
  BY <1>0, <1>2 DEF Fetch, Install, Failing, Goto, OpType
<1>3. CASE GuardRead(o)
  BY <1>0, <1>3 DEF GuardRead, OpType
<1>4. CASE GuardSet(o)
  BY <1>0, <1>4 DEF GuardSet, Goto, OpType
<1>5. CASE Hash(o)
  BY <1>0, <1>5 DEF Hash, Failing, OpType
<1>6. CASE Callback(o)
  BY <1>0, <1>6 DEF Callback, Failing, OpType
<1>7. CASE GuardDrop(o)
  BY <1>0, <1>7 DEF GuardDrop, Goto, AfterReturn, OpType
<1>8. CASE Take(o) \/ Post(o)
  BY <1>0, <1>8 DEF Take, Post, Failing, Goto, OpType
<1> QED
  BY <1>1, <1>2, <1>3, <1>4, <1>5, <1>6, <1>7, <1>8 DEF Sign

LEMMA PageStep ==
    ASSUME KInv, PageInv, ConstantAssumption, NEW o \in Op, Begin(o) \/ Sign(o)
    PROVE  PageInv'
<1>0. TypeOK /\ op \in [Op -> OpType] /\ (op[o].pc \notin {"waiting", "done"} => Active)
  BY DEF KInv, KeyInv, SlotInv, Placed, TypeOK
<1>1. /\ op' \in [Op -> OpType]
      /\ \A i \in Op : i # o => op'[i] = op[i]
      /\ UNCHANGED <<script, at, inherited>>
  BY <1>0, OneRecord
<1>2. Active' = Active /\ Args' = Args /\ Calm' = Calm /\ Sequential(Args)' = Sequential(Args)
  BY <1>1, SameCommand, SameScript
<1>3. SetOnly'
  <2>1. op'[o].pc = "set" => Active /\ Args.noPageHashes
    BY <1>0, EnvFlow DEF GuardRead
  <2> QED
    BY <1>1, <1>2, <2>1 DEF PageInv, SetOnly
<1>4. ASSUME Active, Sequential(Args), NEW i \in Op, i # o, op[i].pc \in Bracket
      PROVE  env' = env
  <2>1. op[o].pc \in {"waiting", "done"}
    BY <1>4, Alone DEF Bracket
  <2> QED
    BY <2>1, EnvFlow DEF GuardSet, GuardDrop
<1>5. EnvHeld'
  <2>1. SUFFICES ASSUME Active, Sequential(Args), Args.noPageHashes, NEW i \in Op
                 PROVE  /\ op'[i].pc \in Bracket => env' = "0"
                        /\ (op'[i].pc \in Hashed /\ op'[i].res \notin {"failed", "skipped"})
                                => op'[i].seen = "0"
                        /\ op'[i].res \in {"signed", "skipped"} => op'[i].pc = "done"
    BY <1>2 DEF EnvHeld
  <2>2. /\ op[i].pc \in Bracket => env = "0"
        /\ (op[i].pc \in Hashed /\ op[i].res \notin {"failed", "skipped"}) => op[i].seen = "0"
        /\ op[i].res \in {"signed", "skipped"} => op[i].pc = "done"
    BY <2>1 DEF PageInv, EnvHeld
  <2>3. CASE i # o
    BY <1>1, <1>4, <2>1, <2>2, <2>3
  <2>4. CASE i = o
    BY <2>1, <2>2, <2>4, EnvFlow DEF GuardRead, GuardSet, Hash, Callback, GuardDrop, Bracket, Hashed
  <2> QED
    BY <2>3, <2>4
<1>6. (Calm /\ Active) => Sequential(Args)
  BY <1>0, CalmIsSequential
<1>7. (Calm /\ op[o].pc = "guard") => env = inherited
  <2>1. SUFFICES ASSUME Calm, op[o].pc = "guard", env # inherited
                 PROVE  FALSE
    OBVIOUS
  <2>2. PICK i \in Op : op[i].pc \in Bracket
    BY <2>1 DEF PageInv, EnvClean
  <2>3. i # o
    BY <2>1, <2>2 DEF Bracket
  <2> QED
    BY <1>0, <1>6, <2>1, <2>2, <2>3, Alone DEF Bracket
<1>8. SavedIsInherited'
  <2>1. SUFFICES ASSUME Calm, Active, Args.noPageHashes, op'[o].pc \in {"set"} \cup Bracket
                 PROVE  op'[o].saved = inherited
    BY <1>1, <1>2 DEF PageInv, SavedIsInherited
  <2>2. op[o].pc \in {"set"} \cup Bracket => op[o].saved = inherited
    BY <2>1 DEF PageInv, SavedIsInherited
  <2> QED
    BY <1>7, <2>1, <2>2, EnvFlow DEF GuardRead, GuardSet, Hash, Callback, GuardDrop, Bracket
<1>9. EnvClean'
  <2>1. SUFFICES ASSUME Calm, env' # inherited
                 PROVE  Active /\ Args.noPageHashes /\ \E i \in Op : op'[i].pc \in Bracket
    BY <1>1, <1>2 DEF EnvClean
  <2>2. CASE GuardSet(o)
    <3>1. op'[o].pc \in Bracket
      BY <1>0, <2>2 DEF GuardSet, Goto, Bracket
    <3> QED
      BY <2>2, <3>1 DEF PageInv, SetOnly, GuardSet
  <2>3. CASE GuardDrop(o)
    <3>1. env' = IF Args.noPageHashes THEN op[o].saved ELSE env
      BY <2>3 DEF GuardDrop
    <3>2. Args.noPageHashes => op[o].saved = inherited
      BY <1>0, <2>1, <2>3 DEF PageInv, SavedIsInherited, GuardDrop, Bracket
    <3> QED
      BY <2>1, <3>1, <3>2 DEF PageInv, EnvClean
  <2>4. CASE ~GuardSet(o) /\ ~GuardDrop(o)
    <3>1. env' = env /\ (op[o].pc \in Bracket => op'[o].pc \in Bracket)
      BY <2>4, EnvFlow DEF GuardRead, Hash, Callback, Bracket
    <3>2. PICK i \in Op : op[i].pc \in Bracket
      BY <2>1, <3>1 DEF PageInv, EnvClean
    <3>3. op'[i].pc \in Bracket
      BY <1>1, <3>1, <3>2
    <3> QED
      BY <2>1, <3>1, <3>3 DEF PageInv, EnvClean
  <2> QED
    BY <2>2, <2>3, <2>4
<1> QED
  BY <1>3, <1>5, <1>8, <1>9 DEF PageInv

LEMMA PageInvStep ==
    ASSUME KInv, PageInv, ConstantAssumption, [Next]_vars
    PROVE  PageInv'
<1>0. script \in Seq(Command) /\ Len(script) \in Nat /\ at \in 1 .. Len(script) + 1
  BY DEF KInv, KeyInv, SlotInv, TypeOK
<1>1. CASE EndCommand \/ RefuseCommand \/ ParserExit
  <2>1. /\ op' = [i \in Op |-> Waiting]
        /\ UNCHANGED <<script, inherited, env>>
        /\ at' \in Nat /\ at <= at'
    BY <1>0, <1>1 DEF EndCommand, RefuseCommand, ParserExit, Active
  <2>2. \A o \in Op : op[o].pc \notin Bracket
    BY <1>1 DEF EndCommand, RefuseCommand, ParserExit, Waiting, Bracket
  <2>3. Calm' => Calm
    BY <1>0, <2>1 DEF Calm, Sequential
  <2> QED
    BY <2>1, <2>2, <2>3 DEF PageInv, SetOnly, EnvHeld, SavedIsInherited, EnvClean, Waiting,
        Bracket, Hashed
<1>2. CASE Rotate \/ UNCHANGED vars
  <2>1. UNCHANGED <<script, at, inherited, env, op>>
    BY <1>2 DEF Rotate, vars
  <2> QED
    BY <2>1, SameCommand, SameScript DEF PageInv, SetOnly, EnvHeld, SavedIsInherited, EnvClean
<1>3. CASE \E o \in Op : Begin(o) \/ Sign(o)
  BY <1>3, PageStep
<1> QED
  BY <1>1, <1>2, <1>3 DEF Next

LEMMA PageInvInit ==
    ASSUME Init
    PROVE  PageInv
BY DEF Init, PageInv, SetOnly, EnvHeld, SavedIsInherited, EnvClean, Waiting, Bracket, Hashed

(* Whatever the process inherited, however many commands, targets and        *)
(* failures: one by one, --no-page-hashes reaches the SIP, and after it the  *)
(* process has the environment it was started with.                          *)
THEOREM PageHashesHeldAlways == Spec => []PageHashesHeld
<1>1. Init => KInv /\ PageInv
  BY KInvInit, PageInvInit, ConstantAssumption
<1>2. KInv /\ PageInv /\ [Next]_vars => (KInv /\ PageInv)'
  BY KInvStep, PageInvStep, ConstantAssumption
<1>3. KInv /\ PageInv => PageHashesHeld
  <2>1. PageInv => NphHonoured
    BY DEF PageInv, EnvHeld, NphHonoured, Hashed
  <2>2. PageInv => EnvRestored
    BY DEF PageInv, EnvClean, EnvRestored, Calm, Idle, Bracket
  <2> QED
    BY <2>1, <2>2 DEF PageHashesHeld
<1> QED
  BY <1>1, <1>2, <1>3, PTL DEF Spec
=============================================================================
