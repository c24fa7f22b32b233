-------------------------- MODULE TrustVerifyProofs --------------------------
(* The AuthRoot cache for any number of processes of the tool and of the      *)
(* PowerShell module, every age limit, every duration of a refresh and every  *)
(* error of the wall clock; and on top of it portable trust verification for  *)
(* every certificate hierarchy, every file and every choice of options, any   *)
(* number of clients, any days and any answers of responders.  The invariant  *)
(* of the cache is shown to survive the steps of a verification, which leave  *)
(* the cache alone.                                                           *)
EXTENDS TrustVerify, FiniteSetTheorems, WellFoundedInduction, TLAPS

(* A file that exists is a download; one that is whole exists.                *)
LEMMA Files ==
    /\ NoFile \in File /\ ~Exists(NoFile)
    /\ Download \subseteq File
    /\ \A f \in File : Exists(f) => f \in Download
    /\ \A f \in File : f.content # "part" => Exists(f)
    /\ \A f \in Download : Exists(f)
<1>1. /\ NoFile \in File /\ ~Exists(NoFile) /\ Download \subseteq File
      /\ \A f \in File : Exists(f) => f \in Download
  BY DEF File, Exists, Download
<1>2. NoFile.content = "part" /\ NoFile.day = -1
  BY DEF NoFile, NoDay
<1>3. \A f \in Download : f.day \in 0..MaxDay
  BY DEF Download
<1>4. -1 \notin 0..MaxDay
  BY CacheAssumption
<1> QED
  BY <1>1, <1>2, <1>3, <1>4 DEF Exists

LEMMA SpreadIsMost == Spread \in Nat /\ \A k \in Skews : k \in Nat /\ k <= Spread
BY CacheAssumption DEF Spread

LEMMA LateIsLater == \A f : Late(f) \in Nat /\ MaxLag <= Late(f)
BY CacheAssumption DEF Late

(* A process of the tool has a temporary file of its own, the processes of    *)
(* the module have one together.                                              *)
LEMMA OwnSlot ==
    /\ \A p \in Clients : Slot(p) \in Slots
    /\ \A p \in Tools, q \in Clients : Slot(p) = Slot(q) => p = q
    /\ \A p \in Tools : Slot(p) = p
    /\ \A p \in Clients : p \notin Tools => p \in Modules /\ Slot(p) = "shared"
BY CacheAssumption DEF Clients, Slot, Slots

LEMMA Labels ==
    /\ \A l \in Refreshing : l \in PCs
    /\ "idle" \in PCs /\ "judge" \in PCs /\ "fetch" \in PCs /\ "read" \in PCs
    /\ "verify" \in PCs /\ "failed" \in PCs /\ "away" \in PCs
BY DEF Refreshing, PCs

Part(f) == [f EXCEPT !.content = "part"]

LEMMA Parts ==
    ASSUME NEW f \in Download
    PROVE  /\ Part(f) \in Download /\ Part(f).content = "part"
           /\ Part(f).day = f.day /\ Part(f).by = f.by
BY DEF Download, Part

(* What may become the CAB.                                                   *)
Proper(f) ==
    /\ f.by = "tool" => f.content = "cab"
    /\ f.by # "shared" => f.content # "part"

(* A refresh carries a finished answer of its own download, which is not long *)
(* ago, and one of the tool has a file nobody else knows.                     *)
Carries(p) ==
    pc[p] \in Refreshing =>
        /\ got[p] \in Download /\ got[p].content \in {"cab", "empty"}
        /\ got[p].by \in {Kind(p), "shared"}
        /\ p \in Tools => got[p].content = "cab" /\ got[p].by = "tool"
        /\ got[p].day <= now /\ now <= got[p].day + MaxLag

(* The client has the temporary file open that has this name now.             *)
Writes(p) == pc[p] = "writing" /\ held[p] = "temp"

(* Who uses the temporary file finds its own bytes in it, or those of another *)
(* who opened it later and found it in use.                                   *)
Opened(p) ==
    /\ held[p] # "temp" => pc[p] = "writing"
    /\ Writes(p) => tmp[Slot(p)] = Part(got[p])
    /\ pc[p] \in UsingTemp /\ ~Writes(p) /\ Exists(tmp[Slot(p)]) =>
          \/ pc[p] # "writing" /\ tmp[Slot(p)] = got[p]
          \/ /\ tmp[Slot(p)].by = "shared"
             /\ tmp[Slot(p)].day <= now /\ got[p].day <= tmp[Slot(p)].day + MaxLag

(* Nobody else has opened that file as long as it is being written.           *)
Alone(p) == \A q \in Clients : Writes(p) /\ Writes(q) /\ Slot(p) = Slot(q) => p = q

(* The times a client holds are not ahead of what the wall clock can show.    *)
Timely(p) ==
    /\ fresh[p] <= now
    /\ stamp[p] <= now + Spread
    /\ pc[p] = "recording" => stamp[p] <= got[p].day + MaxLag + Spread

(* What a client may conclude from the CAB it will find or has read.          *)
Recent(p) ==
    /\ pc[p] \in {"record", "recording"} /\ Exists(cab) => got[p].day <= cab.day + Late(cab)
    /\ pc[p] = "read" /\ fresh[p] # NoDay /\ Exists(cab) =>
          fresh[p] <= cab.day + MaxAge + MaxLag + Late(cab) + Spread
    /\ pc[p] = "verify" /\ fresh[p] # NoDay =>
          fresh[p] <= got[p].day + MaxAge + MaxLag + Late(got[p]) + Spread

(* The two files: the CAB is proper and no newer than today, its metadata no  *)
(* later than the clients of one CAB may have been.                           *)
Stored ==
    /\ Exists(cab) => Proper(cab) /\ cab.day <= now
    /\ meta <= now + Spread
    /\ Exists(cab) /\ meta # NoMeta => meta <= cab.day + MaxLag + Late(cab) + Spread

CacheInv ==
    /\ CacheTypeOK
    /\ Stored
    /\ \A p \in Clients : Carries(p) /\ Opened(p) /\ Alone(p) /\ Timely(p) /\ Recent(p)

(* The values of one client in a well-typed state.                            *)
LEMMA Types ==
    ASSUME CacheTypeOK
    PROVE  /\ now \in Nat /\ skew \in Nat /\ skew <= Spread /\ meta \in Int
           /\ now <= MaxDay /\ MaxDay \in Nat /\ MaxAge \in Nat /\ MaxLag \in Nat /\ Spread \in Nat
           /\ DOMAIN pc = Clients /\ DOMAIN got = Clients /\ DOMAIN held = Clients
           /\ DOMAIN stamp = Clients /\ DOMAIN fresh = Clients /\ DOMAIN tmp = Slots
           /\ \A p \in Clients : /\ pc[p] \in PCs /\ got[p] \in File /\ stamp[p] \in Int
                                /\ fresh[p] \in Int /\ got[p].day \in Int
           /\ cab \in File /\ cab.day \in Int
           /\ \A s \in Slots : tmp[s] \in File /\ tmp[s].day \in Int
<1>1. \A f \in File : f.day \in Int
  BY CacheAssumption DEF File, Download, NoFile, NoDay
<1> QED
  BY <1>1, SpreadIsMost, CacheAssumption DEF CacheTypeOK, NoDay

(* How a client leaves the refresh.                                           *)
Settled(p) ==
    /\ got'[p] = NoFile /\ stamp'[p] = 0 /\ fresh'[p] = NoDay /\ held'[p] = "temp"
    /\ pc'[p] \in {"idle", "read", "failed"}

LEMMA SettleTypes ==
    ASSUME CacheTypeOK, NEW p \in Clients, NEW l \in {"idle", "read", "failed"}, Settle(p, l)
    PROVE  /\ pc' \in [Clients -> PCs] /\ got' \in [Clients -> File]
           /\ stamp' \in [Clients -> Int] /\ fresh' \in [Clients -> {NoDay} \cup 0..MaxDay]
           /\ held' \in [Clients -> {"temp", "cab", "gone"}]
           /\ Settled(p)
BY Files, Labels DEF CacheTypeOK, Settle, Goto, Settled

LEMMA GotoTypes ==
    ASSUME CacheTypeOK, NEW p \in Clients, NEW l \in PCs, Goto(p, l)
    PROVE  pc' \in [Clients -> PCs] /\ pc'[p] = l
BY DEF CacheTypeOK, Goto

(* What the opener of the temporary file carries from then on.                *)
LEMMA OwnFacts ==
    ASSUME NEW p \in Clients, got[p] \in Download
    PROVE  /\ Own(p) \in Download /\ Own(p).content = got[p].content /\ Own(p).day = got[p].day
           /\ Own(p).by \in {got[p].by, "shared"}
           /\ p \in Tools => Own(p) = got[p]
           /\ Sharers(p) # {} => Own(p).by = "shared"
<1>1. p \in Tools => Sharers(p) = {}
  BY OwnSlot DEF Sharers
<1>2. CASE Sharers(p) = {}
  BY <1>2 DEF Own
<1>3. CASE Sharers(p) # {}
  <2>1. Own(p) = [got[p] EXCEPT !.by = "shared"]
    BY <1>3 DEF Own
  <2>2. "shared" \in {"tool", "module", "shared"}
    OBVIOUS
  <2> QED
    BY <1>1, <1>3, <2>1 DEF Download
<1> QED
  BY <1>2, <1>3

(* Every step keeps the types; a download is of today.                        *)
LEMMA TypeStep ==
    ASSUME CacheInv, [CacheNext]_cacheVars
    PROVE  CacheTypeOK'
<1> USE DEF CacheInv
<1>0. /\ pc \in [Clients -> PCs] /\ got \in [Clients -> File] /\ stamp \in [Clients -> Int]
      /\ fresh \in [Clients -> {NoDay} \cup 0..MaxDay] /\ tmp \in [Slots -> File]
      /\ cab \in File /\ now \in 0..MaxDay /\ held \in [Clients -> {"temp", "cab", "gone"}]
  BY DEF CacheTypeOK
<1>1. ASSUME NEW p \in Clients, Look(p) \/ Judge(p) PROVE CacheTypeOK'
  BY <1>0, <1>1, Labels DEF Look, Judge, Goto, CacheTypeOK
<1>2. ASSUME NEW p \in Clients, Fetch(p) PROVE CacheTypeOK'
  <2>1. \A c \in {"cab", "empty"} : [day |-> now, content |-> c, by |-> Kind(p)] \in File
    BY <1>0 DEF File, Download, Kind
  <2>2. "write" \in PCs
    BY DEF PCs, Refreshing
  <2> QED
    BY <1>0, <1>2, <2>1, <2>2 DEF Fetch, Answered, Goto, CacheTypeOK
<1>3. ASSUME NEW p \in Clients,
             FetchFails(p) \/ WriteTempFails(p) \/ ReplaceFails(p) \/ WriteMetaFails(p)
             \/ Leave(p) \/ Kill(p)
      PROVE  CacheTypeOK'
  <2>1. \E l \in {"idle", "read", "failed"} : Settle(p, l)
    BY <1>3 DEF FetchFails, WriteTempFails, ReplaceFails, WriteMetaFails, Leave, Kill, GiveUp, Forget
  <2>2. UNCHANGED <<now, skew, cab, meta>> /\ tmp' \in [Slots -> File]
    BY <1>0, <1>3, Files DEF FetchFails, WriteTempFails, ReplaceFails, WriteMetaFails, Leave, Kill, GiveUp, Forget
  <2> QED
    BY <2>1, <2>2, SettleTypes DEF CacheTypeOK
<1>4. ASSUME NEW p \in Clients, OpenTemp(p) PROVE CacheTypeOK'
  <2>1. got[p] \in Download
    BY <1>4 DEF OpenTemp, Carries, Refreshing
  <2>2. Own(p) \in File /\ Part(Own(p)) \in File
    BY <2>1, OwnFacts, Parts, Files
  <2>3. tmp' \in [Slots -> File] /\ got' \in [Clients -> File]
    BY <1>0, <1>4, <2>2, OwnSlot DEF OpenTemp, Part
  <2>4. pc' \in [Clients -> PCs]
    BY <1>0, <1>4 DEF OpenTemp, Goto, PCs, Refreshing, UsingTemp
  <2> QED
    BY <1>4, <2>3, <2>4 DEF OpenTemp, CacheTypeOK
<1>5. ASSUME NEW p \in Clients, WriteTemp(p) PROVE CacheTypeOK'
  <2>1. got[p] \in File /\ Slot(p) \in Slots
    BY <1>0, OwnSlot
  <2>2. tmp' \in [Slots -> File] /\ cab' \in File /\ held' \in [Clients -> {"temp", "cab", "gone"}]
    BY <1>0, <1>5, <2>1 DEF WriteTemp
  <2>3. pc' \in [Clients -> PCs]
    BY <1>0, <1>5 DEF WriteTemp, Goto, PCs, Refreshing, UsingTemp
  <2> QED
    BY <1>5, <2>2, <2>3 DEF WriteTemp, CacheTypeOK
<1>6. ASSUME NEW p \in Clients, Rename(p) \/ RenameAgain(p) PROVE CacheTypeOK'
  <2>1. Slot(p) \in Slots
    BY OwnSlot
  <2>2. tmp' \in [Slots -> File] /\ cab' \in File
    BY <1>0, <1>6, <2>1, Files DEF Rename, RenameAgain, Move
  <2>3. held' \in [Clients -> {"temp", "cab", "gone"}]
    BY <1>0, <1>6 DEF Rename, RenameAgain, Move
  <2>4. pc' \in [Clients -> PCs]
    BY <1>0, <1>6 DEF Rename, RenameAgain, Move, Goto, PCs, Refreshing
  <2> QED
    BY <1>6, <2>2, <2>3, <2>4 DEF Rename, RenameAgain, CacheTypeOK
<1>7. ASSUME NEW p \in Clients, RenameFails(p) PROVE CacheTypeOK'
  <2>1. CASE p \in Tools /\ Exists(cab)
    BY <1>0, <1>7, <2>1 DEF RenameFails, Goto, CacheTypeOK, PCs, Refreshing, UsingTemp
  <2>2. CASE ~(p \in Tools /\ Exists(cab))
    BY <1>7, <2>2, SettleTypes DEF RenameFails, GiveUp, CacheTypeOK
  <2> QED
    BY <2>1, <2>2
<1>8. ASSUME NEW p \in Clients, RemoveOld(p) PROVE CacheTypeOK'
  <2>1. held' \in [Clients -> {"temp", "cab", "gone"}] /\ cab' \in File
    BY <1>0, <1>8, Files DEF RemoveOld
  <2>2. pc' \in [Clients -> PCs]
    BY <1>0, <1>8 DEF RemoveOld, Goto, PCs, Refreshing, UsingTemp
  <2> QED
    BY <1>8, <2>1, <2>2 DEF RemoveOld, CacheTypeOK
<1>9. ASSUME NEW p \in Clients, OpenMeta(p) PROVE CacheTypeOK'
  <2>1. wall \in Int /\ NoMeta \in Int
    BY Types DEF wall, NoMeta
  <2> QED
    BY <1>0, <1>9, <2>1 DEF OpenMeta, Goto, CacheTypeOK, PCs, Refreshing
<1>10. ASSUME NEW p \in Clients, WriteMeta(p) PROVE CacheTypeOK'
  BY <1>0, <1>10, SettleTypes DEF WriteMeta, CacheTypeOK
<1>11. ASSUME NEW p \in Clients, ReadCab(p) PROVE CacheTypeOK'
  <2>1. CASE cab.content = "cab"
    BY <1>0, <1>11, <2>1, Labels DEF ReadCab, Goto, CacheTypeOK
  <2>2. CASE cab.content # "cab"
    BY <1>11, <2>2, SettleTypes DEF ReadCab, CacheTypeOK
  <2> QED
    BY <2>1, <2>2
<1>12. CASE CacheWorld
  BY <1>12, CacheAssumption DEF CacheWorld, Tick, SetClock, CacheTypeOK
<1>13. CASE UNCHANGED cacheVars
  BY <1>13 DEF cacheVars, CacheTypeOK
<1> QED
  BY <1>1, <1>2, <1>3, <1>4, <1>5, <1>6, <1>7, <1>8, <1>9, <1>10, <1>11, <1>12, <1>13
  DEF CacheNext, CacheStep
-----------------------------------------------------------------------------
(* What the CAB may become in one step: nothing, or a download of a refresh   *)
(* that is not over, or one that such a refresh has moved into place.         *)
Renewed ==
    \/ cab' = cab
    \/ cab' = NoFile
    \/ /\ cab' \in Download /\ Proper(cab')
       /\ cab'.day <= now /\ now <= cab'.day + Late(cab')

Mover(p) == CacheStep(p) \/ Leave(p) \/ Kill(p)

(* A step of p leaves the clock and what the other clients know alone.        *)
LEMMA Frame ==
    ASSUME CacheTypeOK, NEW p \in Clients, Mover(p), NEW q \in Clients, q # p
    PROVE  /\ now' = now /\ skew' = skew
           /\ pc'[q] = pc[q] /\ got'[q] = got[q] /\ stamp'[q] = stamp[q] /\ fresh'[q] = fresh[q]
<1>1. now' = now /\ skew' = skew
  BY DEF Mover, CacheStep, Leave, Kill, Look, Judge, Fetch, FetchFails, OpenTemp, WriteTemp,
         WriteTempFails, Rename, RenameFails, RemoveOld, RenameAgain, ReplaceFails, OpenMeta,
         WriteMeta, WriteMetaFails, ReadCab, Forget, GiveUp
<1>2. /\ pc'[q] = pc[q] /\ got'[q] = got[q] /\ stamp'[q] = stamp[q] /\ fresh'[q] = fresh[q]
  BY Types DEF Mover, CacheStep, Leave, Kill, Look, Judge, Fetch, FetchFails, OpenTemp, WriteTemp,
         WriteTempFails, Rename, RenameFails, RemoveOld, RenameAgain, ReplaceFails, OpenMeta,
         WriteMeta, WriteMetaFails, ReadCab, Forget, GiveUp, Goto, Settle, Move, Answered
<1> QED
  BY <1>1, <1>2

(* What a step does to the temporary files and to who holds them open: it     *)
(* leaves those of q alone, or it opens, fills or moves the one q shares.     *)
LEMMA TempFrame ==
    ASSUME CacheTypeOK, NEW p \in Clients, Mover(p), NEW q \in Clients, q # p
    PROVE  \/ tmp'[Slot(q)] = tmp[Slot(q)] /\ (held'[q] = "temp" <=> held[q] = "temp")
           \/ OpenTemp(p) /\ Slot(p) = Slot(q)
           \/ WriteTemp(p) /\ Slot(p) = Slot(q) /\ held[p] = "temp"
           \/ (Rename(p) \/ RenameAgain(p)) /\ Slot(p) = Slot(q)
<1>1. /\ DOMAIN tmp = Slots /\ DOMAIN held = Clients /\ Slot(p) \in Slots /\ Slot(q) \in Slots
  BY Types, OwnSlot
<1>2. CASE \/ Look(p) \/ Judge(p) \/ Fetch(p) \/ OpenMeta(p)
           \/ FetchFails(p) \/ WriteTempFails(p) \/ ReplaceFails(p) \/ WriteMetaFails(p)
           \/ RenameFails(p) \/ WriteMeta(p) \/ ReadCab(p)
  BY <1>1, <1>2 DEF Look, Judge, Fetch, OpenMeta, FetchFails, WriteTempFails, ReplaceFails,
     WriteMetaFails, RenameFails, WriteMeta, ReadCab, GiveUp, Settle
<1>3. CASE Leave(p) \/ Kill(p)
  <2>1. Slot(q) # p
    BY OwnSlot, CacheAssumption DEF Clients, Slot
  <2>2. /\ tmp' = [s \in Slots |-> IF s = p THEN NoFile ELSE tmp[s]]
        /\ held' = [held EXCEPT ![p] = "temp"]
    BY <1>3 DEF Leave, Kill, Forget, Settle
  <2> QED
    BY <1>1, <2>1, <2>2
<1>4. CASE OpenTemp(p)
  BY <1>1, <1>4 DEF OpenTemp
<1>5. CASE WriteTemp(p)
  BY <1>1, <1>5 DEF WriteTemp
<1>6. CASE Rename(p) \/ RenameAgain(p)
  <2>1. CASE Slot(p) = Slot(q)
    BY <1>6, <2>1
  <2>2. CASE Slot(p) # Slot(q)
    <3>1. q \notin Writers(Slot(p))
      BY <2>2 DEF Writers
    <3>2. held'[q] = IF held[q] = "cab" THEN "gone" ELSE held[q]
      BY <1>6, <3>1 DEF Rename, RenameAgain, Move
    <3>3. tmp'[Slot(q)] = tmp[Slot(q)]
      BY <1>1, <1>6, <2>2 DEF Rename, RenameAgain, Move
    <3> QED
      BY <3>2, <3>3
  <2> QED
    BY <2>1, <2>2
<1>7. CASE RemoveOld(p)
  BY <1>1, <1>7 DEF RemoveOld
<1> QED
  BY <1>2, <1>3, <1>4, <1>5, <1>6, <1>7 DEF Mover, CacheStep

(* Only the opening of the temporary file makes a client write to it.         *)
LEMMA WritersFrame ==
    ASSUME CacheTypeOK, NEW p \in Clients, Mover(p), NEW q \in Clients, Writes(q)'
    PROVE  Writes(q) \/ (q = p /\ OpenTemp(p))
<1>1. CASE q = p
  <2>1. pc'[p] = "writing"
    BY <1>1 DEF Writes
  <2>2. DOMAIN pc = Clients
    BY Types
  <2> QED
    BY <1>1, <2>1, <2>2 DEF Mover, CacheStep, Leave, Kill, Look, Judge, Fetch, FetchFails, WriteTemp,
         WriteTempFails, Rename, RenameFails, RemoveOld, RenameAgain, ReplaceFails, OpenMeta,
         WriteMeta, WriteMetaFails, ReadCab, Forget, GiveUp, Goto, Settle, Move
<1>2. CASE q # p
  <2>1. pc[q] = "writing" /\ held'[q] = "temp"
    BY <1>2, Frame DEF Writes
  <2>2. held[q] = "temp" \/ OpenTemp(p) \/ WriteTemp(p) \/ Rename(p) \/ RenameAgain(p)
    BY <1>2, <2>1, TempFrame
  <2>3. DOMAIN held = Clients
    BY Types
  <2>4. held[q] = "temp"
    <3>1. CASE OpenTemp(p)
      BY <2>1, <3>1 DEF OpenTemp
    <3>2. CASE WriteTemp(p)
      BY <1>2, <2>1, <2>3, <3>2 DEF WriteTemp
    <3>3. CASE Rename(p) \/ RenameAgain(p)
      <4>1. held'[q] = CASE held[q] = "cab" -> "gone"
                         [] q \in Writers(Slot(p)) -> "cab"
                         [] OTHER -> held[q]
        BY <3>3 DEF Rename, RenameAgain, Move
      <4>2. CASE held[q] = "cab"
        BY <2>1, <4>1, <4>2 DEF Writers
      <4>3. CASE held[q] # "cab"
        BY <2>1, <4>1, <4>3
      <4> QED
        BY <4>2, <4>3
    <3> QED
      BY <2>2, <3>1, <3>2, <3>3
  <2> QED
    BY <2>1, <2>4 DEF Writes
<1> QED
  BY <1>1, <1>2

LEMMA AloneStep ==
    ASSUME CacheInv, NEW p \in Clients, Mover(p), NEW q \in Clients
    PROVE  Alone(q)'
<1> SUFFICES ASSUME NEW r \in Clients, Writes(q)', Writes(r)', Slot(q) = Slot(r) PROVE q = r
  BY DEF Alone, Slot
<1>1. CacheTypeOK /\ Alone(q) /\ Alone(r)
  BY DEF CacheInv
<1>2. /\ Writes(q) \/ (q = p /\ OpenTemp(p))
      /\ Writes(r) \/ (r = p /\ OpenTemp(p))
  BY <1>1, WritersFrame
<1>3. CASE Writes(q) /\ Writes(r)
  BY <1>1, <1>3 DEF Alone
<1>4. CASE q = p /\ OpenTemp(p) /\ Writes(r)
  BY <1>4 DEF OpenTemp, Writers, Writes
<1>5. CASE r = p /\ OpenTemp(p) /\ Writes(q)
  BY <1>5 DEF OpenTemp, Writers, Writes
<1> QED
  BY <1>2, <1>3, <1>4, <1>5

(* Who finds another's bytes in the temporary file finds them marked.         *)
LEMMA OthersOpen ==
    ASSUME CacheInv, NEW p \in Clients, Mover(p), NEW q \in Clients, q # p
    PROVE  Opened(q)'
<1>0. /\ CacheTypeOK /\ Opened(q) /\ Carries(q) /\ Opened(p) /\ Carries(p) /\ Alone(p)
  BY DEF CacheInv
<1>1. /\ now' = now /\ pc'[q] = pc[q] /\ got'[q] = got[q]
  BY <1>0, Frame
<1>2. /\ DOMAIN tmp = Slots /\ Slot(q) \in Slots /\ now \in Nat /\ MaxLag \in Nat
      /\ got[p].day \in Int /\ got[q].day \in Int
      /\ Slot(q)' = Slot(q) /\ Writes(q)' = (pc[q] = "writing" /\ held'[q] = "temp")
  BY <1>0, <1>1, Types, OwnSlot DEF Slot, Writes
<1>3. held'[q] # "temp" => pc[q] = "writing"
  <2>1. CASE held'[q] = "temp" <=> held[q] = "temp"
    BY <1>0, <2>1 DEF Opened
  <2>2. CASE OpenTemp(p) \/ WriteTemp(p)
    BY <1>0, <2>2, Types DEF Opened, OpenTemp, WriteTemp
  <2>3. CASE Rename(p) \/ RenameAgain(p)
    <3>1. held'[q] = CASE held[q] = "cab" -> "gone"
                       [] q \in Writers(Slot(p)) -> "cab"
                       [] OTHER -> held[q]
      BY <2>3 DEF Rename, RenameAgain, Move
    <3>2. q \in Writers(Slot(p)) => pc[q] = "writing"
      BY DEF Writers
    <3>3. CASE held[q] = "cab"
      BY <1>0, <3>3 DEF Opened
    <3>4. CASE held[q] # "cab"
      BY <1>0, <3>1, <3>2, <3>4 DEF Opened
    <3> QED
      BY <3>3, <3>4
  <2> QED
    BY <1>0, <2>1, <2>2, <2>3, TempFrame
<1>4. CASE tmp'[Slot(q)] = tmp[Slot(q)] /\ (held'[q] = "temp" <=> held[q] = "temp")
  BY <1>0, <1>1, <1>2, <1>3, <1>4 DEF Opened, Writes
<1>5. CASE OpenTemp(p) /\ Slot(p) = Slot(q)
  <2>1. /\ pc[p] = "write" /\ Writers(Slot(p)) = {} /\ held' = held
        /\ tmp'[Slot(q)] = Part(Own(p))
    BY <1>2, <1>5 DEF OpenTemp, Part
  <2>2. ~Writes(q) /\ ~Writes(q)'
    BY <1>1, <1>5, <2>1 DEF Writers, Writes
  <2>3. got[p] \in Download /\ now <= got[p].day + MaxLag /\ got[p].day <= now
    BY <1>0, <2>1 DEF Carries, Refreshing
  <2>4. pc[q] \in UsingTemp => Sharers(p) # {}
    BY <1>5 DEF Sharers
  <2>5. /\ Own(p) \in Download /\ Own(p).day = got[p].day
        /\ pc[q] \in UsingTemp => Own(p).by = "shared"
    BY <2>3, <2>4, OwnFacts
  <2>6. /\ tmp'[Slot(q)].day = got[p].day
        /\ pc[q] \in UsingTemp => tmp'[Slot(q)].by = "shared"
    BY <2>1, <2>5, Parts
  <2>7. pc[q] \in UsingTemp => got[q].day <= now
    BY <1>0 DEF Carries, Refreshing
  <2>8. pc[q] \in UsingTemp => got[q].day <= got[p].day + MaxLag
    BY <1>2, <2>3, <2>7
  <2> QED
    BY <1>1, <1>2, <1>3, <2>2, <2>3, <2>6, <2>8 DEF Opened
<1>6. CASE WriteTemp(p) /\ Slot(p) = Slot(q) /\ held[p] = "temp"
  <2>1. /\ Writes(p) /\ held'[q] = held[q] /\ tmp'[Slot(q)] = got[p]
    BY <1>0, <1>2, <1>6, Types DEF WriteTemp, Writes
  <2>2. ~Writes(q) /\ ~Writes(q)'
    BY <1>0, <1>1, <1>6, <2>1 DEF Alone, Writes
  <2>3. tmp[Slot(q)] = Part(got[p])
    BY <1>0, <1>6, <2>1 DEF Opened
  <2>4. got[p] \in Download /\ got[p].content # "part"
    BY <1>0, <2>1 DEF Carries, Refreshing, UsingTemp, Writes
  <2>5. /\ Part(got[p]) \in Download /\ Part(got[p]).content = "part"
        /\ Part(got[p]).day = got[p].day /\ Part(got[p]).by = got[p].by
    BY <2>4, Parts
  <2>6. Exists(tmp[Slot(q)])
    BY <2>3, <2>5, Files
  <2>7. pc[q] \in UsingTemp => got[q].content # "part"
    BY <1>0 DEF Carries, Refreshing
  <2>8. pc[q] \in UsingTemp =>
          /\ got[p].by = "shared" /\ got[p].day <= now /\ got[q].day <= got[p].day + MaxLag
    BY <1>0, <2>2, <2>3, <2>5, <2>6, <2>7 DEF Opened
  <2> QED
    BY <1>1, <1>2, <1>3, <2>1, <2>2, <2>8 DEF Opened
<1>7. CASE (Rename(p) \/ RenameAgain(p)) /\ Slot(p) = Slot(q)
  <2>1. /\ tmp'[Slot(q)] = NoFile
        /\ held'[q] = CASE held[q] = "cab" -> "gone"
                       [] q \in Writers(Slot(p)) -> "cab"
                       [] OTHER -> held[q]
    BY <1>2, <1>7 DEF Rename, RenameAgain, Move
  <2>2. ~Writes(q)'
    <3>1. SUFFICES ASSUME pc[q] = "writing" PROVE held'[q] # "temp"
      BY <1>2
    <3>2. CASE held[q] = "cab"
      BY <2>1, <3>2
    <3>3. CASE held[q] = "temp"
      <4>1. q \in Writers(Slot(p))
        BY <1>7, <3>1, <3>3 DEF Writers
      <4> QED
        BY <2>1, <3>3, <4>1
    <3>4. CASE held[q] \notin {"cab", "temp"}
      <4>1. q \notin Writers(Slot(p))
        BY <3>4 DEF Writers
      <4> QED
        BY <2>1, <3>4, <4>1
    <3> QED
      BY <3>2, <3>3, <3>4
  <2>3. ~Exists(tmp'[Slot(q)])
    BY <2>1, Files
  <2> QED
    BY <1>1, <1>2, <1>3, <2>2, <2>3 DEF Opened, Exists
<1> QED
  BY <1>0, <1>4, <1>5, <1>6, <1>7, TempFrame
-----------------------------------------------------------------------------
(* Another client's renewal of the CAB takes nothing from what q relies on.   *)
LEMMA OthersKeep ==
    ASSUME CacheInv, NEW q \in Clients, Renewed, now' = now,
           pc'[q] = pc[q], got'[q] = got[q], stamp'[q] = stamp[q], fresh'[q] = fresh[q]
    PROVE  Carries(q)' /\ Timely(q)' /\ Recent(q)'
<1>0. Carries(q) /\ Timely(q) /\ Recent(q)
  BY DEF CacheInv
<1>1. /\ now \in Nat /\ MaxAge \in Nat /\ MaxLag \in Nat /\ Spread \in Nat
      /\ got[q].day \in Int /\ fresh[q] \in Int /\ cab.day \in Int
  BY Types DEF CacheInv
<1>2. cab' \in Download => cab'.day \in Int
  BY CacheAssumption DEF Download
<1>3. Carries(q)' /\ Timely(q)'
  BY <1>0 DEF Carries, Timely, Kind
<1>4. Recent(q)'
  <2>0. pc[q] = "verify" /\ fresh[q] # NoDay =>
          fresh[q] <= got[q].day + MaxAge + MaxLag + Late(got[q]) + Spread
    BY <1>0 DEF Recent
  <2>1. CASE cab' = cab
    BY <1>0, <2>0, <2>1 DEF Recent
  <2>2. CASE cab' = NoFile
    BY <2>0, <2>2, Files DEF Recent
  <2>3. CASE cab' \in Download /\ cab'.day <= now /\ now <= cab'.day + Late(cab')
    <3>0. Late(cab') \in Nat
      BY LateIsLater
    <3>1. pc[q] \in {"record", "recording"} => got[q].day <= cab'.day + Late(cab')
      BY <1>0, <1>1, <1>2, <2>3, <3>0 DEF Carries, Refreshing
    <3>2. fresh[q] <= cab'.day + MaxAge + MaxLag + Late(cab') + Spread
      BY <1>0, <1>1, <1>2, <2>3, <3>0 DEF Timely
    <3> QED
      BY <2>0, <3>1, <3>2 DEF Recent
  <2> QED
    BY <2>1, <2>2, <2>3 DEF Renewed
<1> QED
  BY <1>3, <1>4

(* Renewing the CAB under the metadata of an older one is harmless.           *)
LEMMA StoredKeeps ==
    ASSUME CacheInv, Renewed, now' = now, meta' = meta \/ meta' = NoMeta
    PROVE  Stored'
<1>0. Stored
  BY DEF CacheInv
<1>1. /\ now \in Nat /\ MaxLag \in Nat /\ Spread \in Nat /\ meta \in Int /\ cab.day \in Int
  BY Types DEF CacheInv
<1>2. cab' \in Download => cab'.day \in Int
  BY CacheAssumption DEF Download
<1>3. meta' <= now + Spread
  BY <1>0, <1>1 DEF Stored, NoMeta
<1>4. CASE cab' = cab
  BY <1>0, <1>3, <1>4 DEF Stored
<1>5. CASE cab' = NoFile
  BY <1>3, <1>5, Files DEF Stored
<1>6. CASE cab' \in Download /\ Proper(cab') /\ cab'.day <= now /\ now <= cab'.day + Late(cab')
  <2>0. Late(cab') \in Nat
    BY LateIsLater
  <2>1. meta' # NoMeta => meta' <= cab'.day + MaxLag + Late(cab') + Spread
    BY <1>1, <1>2, <1>3, <1>6, <2>0
  <2> QED
    BY <1>3, <1>6, <2>1 DEF Stored
<1> QED
  BY <1>4, <1>5, <1>6 DEF Renewed

Keeps(p) == Carries(p)' /\ Opened(p)' /\ Timely(p)' /\ Recent(p)'

(* A client that settled relies on nothing.                                   *)
LEMMA SettledKeeps ==
    ASSUME CacheTypeOK, NEW p \in Clients, Settled(p), now' = now
    PROVE  Keeps(p)
<1>1. pc'[p] \notin Refreshing /\ pc'[p] \notin UsingTemp /\ pc'[p] # "writing"
  BY DEF Settled, Refreshing, UsingTemp
<1>2. now \in Nat /\ Spread \in Nat
  BY Types
<1> QED
  BY <1>1, <1>2 DEF Keeps, Settled, Carries, Opened, Writes, Timely, Recent, Refreshing, NoDay

(* Steps that only read, or that download.                                    *)
LEMMA SearchKeeps ==
    ASSUME CacheInv, NEW p \in Clients,
           Look(p) \/ Judge(p) \/ Fetch(p) \/ ReadCab(p)
    PROVE  Renewed /\ meta' = meta /\ Keeps(p)
<1>0. /\ Carries(p) /\ Timely(p) /\ Recent(p) /\ Stored /\ CacheTypeOK
      /\ now' = now /\ cab' = cab /\ meta' = meta /\ tmp' = tmp
  BY DEF CacheInv, Look, Judge, Fetch, ReadCab
<1>1. /\ now \in Nat /\ skew \in Nat /\ MaxAge \in Nat /\ MaxLag \in Nat /\ Spread \in Nat
      /\ now <= MaxDay /\ MaxDay \in Nat /\ meta \in Int
      /\ got[p].day \in Int /\ fresh[p] \in Int /\ cab.day \in Int /\ stamp[p] \in Int
      /\ DOMAIN pc = Clients /\ DOMAIN got = Clients /\ DOMAIN fresh = Clients
      /\ Late(cab) \in Nat
  BY <1>0, Types, LateIsLater
<1>2. Renewed
  BY <1>0 DEF Renewed
<1>3. held[p] = "temp"
  BY DEF CacheInv, Opened, Look, Judge, Fetch, ReadCab
<1>4. CASE Look(p)
  <2>1. /\ pc'[p] \in {"judge", "fetch"} /\ UNCHANGED <<got, stamp, fresh, held>>
    BY <1>1, <1>4 DEF Look, Goto
  <2> QED
    BY <1>0, <1>2, <1>3, <2>1 DEF Keeps, Carries, Opened, Writes, Timely, Recent, Refreshing, UsingTemp
<1>5. CASE Judge(p)
  <2>1. CASE is_stale(p)
    <3>1. /\ pc'[p] = "fetch" /\ UNCHANGED <<got, stamp, fresh, held>>
      BY <1>1, <1>5, <2>1 DEF Judge, Goto
    <3> QED
      BY <1>0, <1>2, <1>3, <3>1 DEF Keeps, Carries, Opened, Writes, Timely, Recent, Refreshing, UsingTemp
  <2>2. CASE ~is_stale(p)
    <3>1. meta # NoMeta /\ now + skew <= MaxAge + meta
      BY <1>1, <2>2 DEF is_stale, wall
    <3>2. Exists(cab) => now <= cab.day + MaxAge + MaxLag + Late(cab) + Spread
      BY <1>0, <1>1, <3>1 DEF Stored
    <3>3. /\ pc'[p] = "read" /\ fresh'[p] = now /\ UNCHANGED <<got, stamp, held>>
      BY <1>1, <1>5, <2>2 DEF Judge, Goto
    <3> QED
      BY <1>0, <1>1, <1>2, <1>3, <3>2, <3>3
      DEF Keeps, Carries, Opened, Writes, Timely, Recent, Refreshing, UsingTemp
  <2> QED
    BY <2>1, <2>2
<1>6. CASE Fetch(p)
  <2>1. /\ pc'[p] = "write" /\ fresh' = fresh /\ stamp' = stamp /\ held' = held
        /\ \E c \in {"cab", "empty"} : /\ got'[p] = [day |-> now, content |-> c, by |-> Kind(p)]
                                       /\ c = "empty" => p \in Modules
    BY <1>1, <1>6 DEF Fetch, Answered, Goto
  <2>0. Kind(p) \in {"tool", "module"} /\ (p \in Tools => Kind(p) = "tool") /\ ~(p \in Tools /\ p \in Modules)
    BY CacheAssumption DEF Kind
  <2>2. /\ got'[p] \in Download /\ got'[p].content \in {"cab", "empty"} /\ got'[p].by = Kind(p)
        /\ got'[p].day = now
        /\ p \in Tools => got'[p].content = "cab" /\ got'[p].by = "tool"
    <3>1. PICK c \in {"cab", "empty"} : /\ got'[p] = [day |-> now, content |-> c, by |-> Kind(p)]
                                        /\ c = "empty" => p \in Modules
      BY <2>1
    <3>2. now \in 0..MaxDay
      BY <1>1
    <3>3. c \in {"cab", "part", "empty"} /\ Kind(p) \in {"tool", "module", "shared"}
      BY <2>0, <3>1
    <3>4. got'[p] \in Download
      BY <3>1, <3>2, <3>3 DEF Download
    <3>5. got'[p].day = now /\ got'[p].content = c /\ got'[p].by = Kind(p)
      BY <3>1
    <3> QED
      BY <2>0, <3>1, <3>4, <3>5
  <2>3. Carries(p)'
    BY <1>0, <1>1, <2>2 DEF Carries, Kind
  <2> QED
    BY <1>0, <1>2, <1>3, <2>1, <2>3 DEF Keeps, Opened, Writes, Timely, Recent, UsingTemp
<1>7. CASE ReadCab(p)
  <2>1. CASE cab.content = "cab"
    <3>1. Exists(cab)
      BY <1>0, <2>1, Files DEF CacheTypeOK
    <3>2. /\ pc[p] = "read" /\ pc'[p] = "verify" /\ UNCHANGED <<stamp, fresh, held>>
          /\ got'[p] = cab
      BY <1>1, <1>7, <2>1 DEF ReadCab, Goto
    <3>3. Carries(p)' /\ Opened(p)' /\ Timely(p)'
      BY <1>0, <1>3, <3>2 DEF Carries, Opened, Writes, Timely, Refreshing, UsingTemp
    <3>4. Recent(p)'
      BY <1>0, <3>1, <3>2 DEF Recent
    <3> QED
      BY <1>0, <1>2, <3>3, <3>4 DEF Keeps
  <2>2. CASE cab.content # "cab"
    <3>1. Settled(p)
      BY <1>0, <1>7, <2>2, SettleTypes DEF ReadCab
    <3> QED
      BY <1>0, <1>2, <3>1, SettledKeeps
  <2> QED
    BY <2>1, <2>2
<1> QED
  BY <1>4, <1>5, <1>6, <1>7

(* Steps that give up, end or are killed.                                     *)
LEMMA EndKeeps ==
    ASSUME CacheInv, NEW p \in Clients,
           \/ FetchFails(p) \/ WriteTempFails(p) \/ ReplaceFails(p) \/ WriteMetaFails(p)
           \/ Leave(p) \/ Kill(p)
    PROVE  Renewed /\ meta' = meta /\ Keeps(p)
<1>0. CacheTypeOK
  BY DEF CacheInv
<1>1. /\ \E l \in {"idle", "read", "failed"} : Settle(p, l)
      /\ now' = now /\ cab' = cab /\ meta' = meta
  BY DEF FetchFails, WriteTempFails, ReplaceFails, WriteMetaFails, Leave, Kill, GiveUp, Forget
<1>2. Settled(p)
  BY <1>0, <1>1, SettleTypes
<1> QED
  BY <1>0, <1>1, <1>2, SettledKeeps DEF Renewed

(* The temporary file is opened and filled: under its name, as the CAB that   *)
(* another client has made of it, or as nothing that has a name.              *)
LEMMA FillKeeps ==
    ASSUME CacheInv, NEW p \in Clients, OpenTemp(p) \/ WriteTemp(p)
    PROVE  Renewed /\ meta' = meta /\ Keeps(p)
<1>0. Carries(p) /\ Opened(p) /\ Timely(p) /\ Recent(p) /\ CacheTypeOK /\ now' = now /\ meta' = meta
  BY DEF CacheInv, OpenTemp, WriteTemp
<1>1. /\ DOMAIN pc = Clients /\ DOMAIN tmp = Slots /\ Slot(p) \in Slots /\ DOMAIN held = Clients
      /\ DOMAIN got = Clients
      /\ got[p].day \in Int /\ MaxLag \in Nat /\ now \in Nat
  BY <1>0, Types, OwnSlot
<1>2. /\ got[p] \in Download /\ got[p].content \in {"cab", "empty"} /\ got[p].by \in {Kind(p), "shared"}
      /\ p \in Tools => got[p].content = "cab" /\ got[p].by = "tool"
      /\ got[p].day <= now /\ now <= got[p].day + MaxLag
  BY <1>0 DEF OpenTemp, WriteTemp, Carries, Refreshing, UsingTemp
<1>3. Slot(p)' = Slot(p) /\ Kind(p)' = Kind(p)
  BY DEF Slot, Kind
<1>4. CASE OpenTemp(p)
  <2>1. /\ pc'[p] = "writing" /\ cab' = cab /\ stamp' = stamp /\ fresh' = fresh /\ held' = held
        /\ got'[p] = Own(p) /\ tmp'[Slot(p)] = Part(Own(p))
        /\ held[p] = "temp"
    BY <1>0, <1>1, <1>4 DEF OpenTemp, Goto, Part, Opened
  <2>2. /\ Own(p) \in Download /\ Own(p).content = got[p].content /\ Own(p).day = got[p].day
        /\ Own(p).by \in {got[p].by, "shared"}
        /\ p \in Tools => Own(p) = got[p]
    BY <1>2, OwnFacts
  <2>3. Carries(p)'
    BY <1>0, <1>2, <1>3, <2>1, <2>2 DEF Carries
  <2>4. Opened(p)'
    BY <1>3, <2>1 DEF Opened, Writes
  <2>5. Timely(p)' /\ Recent(p)' /\ Renewed
    BY <1>0, <2>1 DEF Timely, Recent, Renewed
  <2> QED
    BY <1>0, <2>3, <2>4, <2>5 DEF Keeps
<1>5. CASE WriteTemp(p)
  <2>1. /\ pc[p] = "writing" /\ pc'[p] = "rename" /\ got' = got /\ stamp' = stamp /\ fresh' = fresh
        /\ held'[p] = "temp"
        /\ held[p] = "temp" => tmp'[Slot(p)] = got[p] /\ cab' = cab
        /\ held[p] # "temp" => tmp' = tmp /\ cab' \in {cab, got[p]}
    BY <1>1, <1>5 DEF WriteTemp, Goto
  <2>2. Renewed
    <3>1. Late(got[p]) \in Nat /\ MaxLag <= Late(got[p])
      BY LateIsLater
    <3>2. got[p].by = "tool" => p \in Tools
      BY <1>2 DEF Kind
    <3>3. Proper(got[p]) /\ now <= got[p].day + Late(got[p])
      BY <1>1, <1>2, <3>1, <3>2 DEF Proper
    <3> QED
      BY <1>2, <2>1, <3>3 DEF Renewed
  <2>3. Carries(p)' /\ Timely(p)' /\ Recent(p)'
    BY <1>0, <1>3, <2>1 DEF Carries, Timely, Recent, Refreshing, UsingTemp
  <2>4. Opened(p)'
    BY <1>0, <1>3, <2>1 DEF Opened, Writes, UsingTemp, Exists
  <2> QED
    BY <1>0, <2>2, <2>3, <2>4 DEF Keeps
<1> QED
  BY <1>4, <1>5

(* Steps of replace_file.                                                     *)
LEMMA ReplaceKeeps ==
    ASSUME CacheInv, NEW p \in Clients,
           Rename(p) \/ RenameFails(p) \/ RemoveOld(p) \/ RenameAgain(p)
    PROVE  Renewed /\ meta' = meta /\ Keeps(p)
<1>0. Carries(p) /\ Opened(p) /\ Timely(p) /\ Recent(p) /\ CacheTypeOK
  BY DEF CacheInv
<1>1. /\ DOMAIN pc = Clients /\ DOMAIN tmp = Slots /\ Slot(p) \in Slots /\ DOMAIN held = Clients
      /\ got[p].day \in Int /\ MaxLag \in Nat /\ now \in Nat
      /\ tmp[Slot(p)] \in File /\ tmp[Slot(p)].day \in Int
  BY <1>0, Types, OwnSlot
<1>2. Slot(p)' = Slot(p) /\ Kind(p)' = Kind(p)
  BY DEF Slot, Kind
<1>3. CASE RenameFails(p) /\ ~(p \in Tools /\ Exists(cab))
  <2>1. Settled(p) /\ now' = now /\ cab' = cab /\ meta' = meta
    BY <1>0, <1>3, SettleTypes DEF RenameFails, GiveUp
  <2> QED
    BY <1>0, <2>1, SettledKeeps DEF Renewed
<1>4. CASE RenameFails(p) /\ p \in Tools /\ Exists(cab)
  <2>1. /\ UNCHANGED <<now, cab, meta, tmp, got, stamp, fresh, held>>
        /\ pc[p] = "rename" /\ pc'[p] = "remove"
    BY <1>1, <1>4 DEF RenameFails, Goto
  <2> QED
    BY <1>0, <1>2, <2>1 DEF Keeps, Renewed, Carries, Opened, Writes, Timely, Recent, Refreshing, UsingTemp
<1>5. CASE RemoveOld(p)
  <2>1. /\ cab' = NoFile /\ UNCHANGED <<now, meta, tmp, got, stamp, fresh>>
        /\ pc[p] = "remove" /\ pc'[p] = "again" /\ held[p] = "temp" /\ held'[p] = "temp"
    BY <1>0, <1>1, <1>5 DEF RemoveOld, Goto, Opened
  <2> QED
    BY <1>0, <1>2, <2>1 DEF Keeps, Renewed, Carries, Opened, Writes, Timely, Recent, Refreshing, UsingTemp
<1>6. CASE Rename(p) \/ RenameAgain(p)
  <2>1. /\ Exists(tmp[Slot(p)]) /\ cab' = tmp[Slot(p)] /\ UNCHANGED <<now, meta, got, stamp, fresh>>
        /\ pc[p] \in {"rename", "again"} /\ pc'[p] = "record"
        /\ held[p] = "temp"
    BY <1>0, <1>1, <1>6 DEF Rename, RenameAgain, Move, Goto, Opened
  <2>2. held'[p] = "temp"
    <3>1. p \notin Writers(Slot(p))
      BY <2>1 DEF Writers
    <3>2. held'[p] = CASE held[p] = "cab" -> "gone"
                       [] p \in Writers(Slot(p)) -> "cab"
                       [] OTHER -> held[p]
      BY <1>6 DEF Rename, RenameAgain, Move
    <3> QED
      BY <2>1, <3>1, <3>2
  <2>3. /\ got[p] \in Download /\ got[p].content \in {"cab", "empty"}
        /\ got[p].by \in {Kind(p), "shared"}
        /\ p \in Tools => got[p].content = "cab" /\ got[p].by = "tool"
        /\ got[p].day <= now /\ now <= got[p].day + MaxLag
    BY <1>0, <2>1 DEF Carries, Refreshing, UsingTemp
  <2>4. /\ cab' \in Download /\ Proper(cab') /\ cab'.day <= now
        /\ now <= cab'.day + Late(cab') /\ got[p].day <= cab'.day + Late(cab')
    <3>1. \/ tmp[Slot(p)] = got[p]
          \/ /\ tmp[Slot(p)].by = "shared"
             /\ tmp[Slot(p)].day <= now /\ got[p].day <= tmp[Slot(p)].day + MaxLag
      BY <1>0, <2>1 DEF Opened, Writes, UsingTemp
    <3>2. CASE tmp[Slot(p)] = got[p]
      <4>1. Late(got[p]) \in Nat /\ MaxLag <= Late(got[p])
        BY LateIsLater
      <4>2. got[p].by = "tool" => p \in Tools
        BY <2>3 DEF Kind
      <4>3. Proper(got[p])
        BY <2>3, <4>2 DEF Proper
      <4>4. now <= got[p].day + Late(got[p]) /\ got[p].day <= got[p].day + Late(got[p])
        BY <1>1, <2>3, <4>1
      <4> QED
        BY <2>1, <2>3, <3>2, <4>3, <4>4
    <3>3. CASE /\ tmp[Slot(p)].by = "shared"
               /\ tmp[Slot(p)].day <= now /\ got[p].day <= tmp[Slot(p)].day + MaxLag
      <4>1. Late(tmp[Slot(p)]) = 2 * MaxLag
        BY <3>3 DEF Late
      <4>2. Proper(tmp[Slot(p)]) /\ tmp[Slot(p)] \in Download
        BY <1>1, <2>1, <3>3, Files DEF Proper
      <4>3. /\ now <= tmp[Slot(p)].day + 2 * MaxLag /\ got[p].day <= tmp[Slot(p)].day + 2 * MaxLag
        BY <1>1, <2>3, <3>3
      <4> QED
        BY <2>1, <3>3, <4>1, <4>2, <4>3
    <3> QED
      BY <3>1, <3>2, <3>3
  <2>5. Renewed
    BY <2>4 DEF Renewed
  <2>6. Carries(p)'
    BY <1>2, <2>1, <2>3 DEF Carries
  <2>7. Opened(p)' /\ Timely(p)' /\ Recent(p)'
    BY <1>0, <2>1, <2>2, <2>4 DEF Opened, Writes, Timely, Recent, UsingTemp
  <2> QED
    BY <2>1, <2>5, <2>6, <2>7 DEF Keeps
<1> QED
  BY <1>3, <1>4, <1>5, <1>6

(* The metadata is emptied and written with the time of the wall clock, which *)
(* is at most the length of a refresh after the download it is about; another *)
(* client may have put an older download in place by then.                    *)
LEMMA RecordKeeps ==
    ASSUME CacheInv, NEW p \in Clients, OpenMeta(p) \/ WriteMeta(p)
    PROVE  Renewed /\ Stored' /\ Keeps(p)
<1>0. /\ Carries(p) /\ Opened(p) /\ Timely(p) /\ Recent(p) /\ Stored /\ CacheTypeOK
      /\ now' = now /\ cab' = cab /\ tmp' = tmp
  BY DEF CacheInv, OpenMeta, WriteMeta
<1>1. /\ now \in Nat /\ skew \in Nat /\ skew <= Spread /\ MaxLag \in Nat /\ Spread \in Nat
      /\ got[p].day \in Int /\ cab.day \in Int /\ stamp[p] \in Int /\ meta \in Int
      /\ DOMAIN pc = Clients /\ DOMAIN stamp = Clients /\ Late(cab) \in Nat
  BY <1>0, Types, LateIsLater
<1>2. Renewed
  BY <1>0 DEF Renewed
<1>3. CASE OpenMeta(p)
  <2>1. Stored'
    BY <1>0, <1>2, <1>3, StoredKeeps DEF OpenMeta
  <2>2. /\ pc[p] = "record" /\ pc'[p] = "recording" /\ stamp'[p] = now + skew
        /\ got' = got /\ fresh' = fresh /\ held' = held /\ held[p] = "temp"
    BY <1>0, <1>1, <1>3 DEF OpenMeta, Goto, wall, Opened
  <2>3. now <= got[p].day + MaxLag
    BY <1>0, <2>2 DEF Carries, Refreshing
  <2>4. stamp'[p] <= now + Spread /\ stamp'[p] <= got[p].day + MaxLag + Spread
    BY <1>1, <2>2, <2>3
  <2>5. Carries(p)'
    BY <1>0, <2>2 DEF Carries, Refreshing, Kind
  <2>6. Opened(p)'
    BY <2>2 DEF Opened, Writes, UsingTemp
  <2>7. Timely(p)' /\ Recent(p)'
    BY <1>0, <2>2, <2>4 DEF Timely, Recent
  <2> QED
    BY <1>2, <2>1, <2>5, <2>6, <2>7 DEF Keeps
<1>4. CASE WriteMeta(p)
  <2>1. pc[p] = "recording" /\ meta' = stamp[p] /\ Settled(p)
    BY <1>0, <1>4, SettleTypes DEF WriteMeta
  <2>2. stamp[p] <= now + Spread /\ stamp[p] <= got[p].day + MaxLag + Spread
    BY <1>0, <2>1 DEF Timely
  <2>3. Exists(cab) => got[p].day <= cab.day + Late(cab)
    BY <1>0, <2>1 DEF Recent
  <2>4. Exists(cab) => stamp[p] <= cab.day + MaxLag + Late(cab) + Spread
    BY <1>1, <2>2, <2>3
  <2>5. Stored'
    BY <1>0, <2>1, <2>2, <2>4 DEF Stored
  <2> QED
    BY <1>0, <1>2, <2>1, <2>5, SettledKeeps
<1> QED
  BY <1>3, <1>4

(* A day passes, or the wall clock jumps.                                     *)
LEMMA WorldKeeps ==
    ASSUME CacheInv, CacheWorld
    PROVE  Stored' /\ \A p \in Clients : Keeps(p) /\ Alone(p)'
<1>0. /\ now \in Nat /\ MaxLag \in Nat /\ Spread \in Nat /\ meta \in Int
      /\ cab.day \in Int /\ Stored
      /\ \A p \in Clients : /\ got[p].day \in Int /\ fresh[p] \in Int /\ stamp[p] \in Int
                           /\ Carries(p) /\ Opened(p) /\ Alone(p) /\ Timely(p) /\ Recent(p)
                           /\ tmp[Slot(p)].day \in Int
  BY Types, OwnSlot DEF CacheInv
<1>1. /\ UNCHANGED <<cab, meta, tmp, pc, got, stamp, fresh, held>>
      /\ now' = now \/ now' = now + 1
      /\ \A p \in Clients : pc[p] \in Refreshing => now' <= got[p].day + MaxLag
  <2>1. CASE Tick
    BY <1>0, <2>1 DEF Tick
  <2>2. CASE SetClock
    BY <1>0, <2>2 DEF SetClock, Carries
  <2> QED
    BY <2>1, <2>2 DEF CacheWorld
<1>2. Stored'
  BY <1>0, <1>1 DEF Stored
<1>3. ASSUME NEW p \in Clients PROVE Keeps(p) /\ Alone(p)'
  <2>0. Slot(p)' = Slot(p) /\ Kind(p)' = Kind(p) /\ now <= now' /\ now' \in Nat
    BY <1>0, <1>1 DEF Slot, Kind
  <2>1. Carries(p)'
    BY <1>0, <1>1, <2>0 DEF Carries
  <2>2. Timely(p)' /\ Recent(p)'
    BY <1>0, <1>1, <2>0 DEF Timely, Recent
  <2>3. tmp[Slot(p)].day <= now => tmp[Slot(p)].day <= now'
    BY <1>0, <2>0
  <2>4. Opened(p)'
    BY <1>0, <1>1, <2>0, <2>3 DEF Opened, Writes, Exists
  <2>5. Alone(p)'
    BY <1>0, <1>1 DEF Alone, Writes, Slot
  <2> QED
    BY <2>1, <2>2, <2>4, <2>5 DEF Keeps
<1> QED
  BY <1>2, <1>3

LEMMA InvStep ==
    ASSUME CacheInv, [CacheNext]_cacheVars
    PROVE  CacheInv'
<1>0. CacheTypeOK' /\ CacheTypeOK
  BY TypeStep DEF CacheInv
<1>1. ASSUME NEW p \in Clients, Mover(p)
      PROVE  CacheInv'
  <2>1. Renewed /\ Keeps(p)
    BY <1>1, SearchKeeps, EndKeeps, FillKeeps, ReplaceKeeps, RecordKeeps DEF Mover, CacheStep
  <2>2. now' = now
    BY <1>1 DEF Mover, CacheStep, Leave, Kill, Look, Judge, Fetch, FetchFails, OpenTemp, WriteTemp,
           WriteTempFails, Rename, RenameFails, RemoveOld, RenameAgain, ReplaceFails, OpenMeta,
           WriteMeta, WriteMetaFails, ReadCab, Forget, GiveUp
  <2>3. Stored'
    <3>1. CASE OpenMeta(p) \/ WriteMeta(p)
      BY <3>1, RecordKeeps
    <3>2. CASE ~(OpenMeta(p) \/ WriteMeta(p))
      <4>1. meta' = meta
        BY <1>1, <3>2, SearchKeeps, EndKeeps, FillKeeps, ReplaceKeeps DEF Mover, CacheStep
      <4> QED
        BY <2>1, <2>2, <4>1, StoredKeeps
    <3> QED
      BY <3>1, <3>2
  <2>4. ASSUME NEW q \in Clients, q # p PROVE Carries(q)' /\ Timely(q)' /\ Recent(q)' /\ Opened(q)'
    BY <1>0, <1>1, <2>1, <2>4, Frame, OthersKeep, OthersOpen
  <2>5. ASSUME NEW q \in Clients PROVE Alone(q)'
    BY <1>1, AloneStep
  <2>6. Carries(p)' /\ Timely(p)' /\ Recent(p)' /\ Opened(p)'
    BY <2>1 DEF Keeps
  <2> QED
    BY <1>0, <2>3, <2>4, <2>5, <2>6 DEF CacheInv
<1>2. CASE CacheWorld
  BY <1>0, <1>2, WorldKeeps DEF CacheInv, Keeps
<1>3. CASE UNCHANGED cacheVars
  BY <1>0, <1>3 DEF CacheInv, Stored, Carries, Opened, Alone, Writes, Slot, Kind, Exists, Timely, Recent, cacheVars
<1> QED
  BY <1>1, <1>2, <1>3 DEF CacheNext, Mover

LEMMA InvInit == CacheInit => CacheInv
<1> SUFFICES ASSUME CacheInit PROVE CacheInv
  OBVIOUS
<1>0. pc \in [Clients -> {"idle", "away"}]
  BY DEF CacheInit
<1>1. CacheTypeOK
  BY <1>0, Files, Labels, CacheAssumption DEF CacheInit, CacheTypeOK, NoMeta
<1>2. Stored
  BY Files, SpreadIsMost DEF CacheInit, Stored, NoMeta
<1>3. ASSUME NEW p \in Clients PROVE Carries(p) /\ Opened(p) /\ Alone(p) /\ Timely(p) /\ Recent(p)
  <2>1. pc[p] \in {"idle", "away"}
    BY <1>0
  <2> QED
    BY <2>1, SpreadIsMost
    DEF CacheInit, Carries, Opened, Alone, Writes, Timely, Recent, Refreshing, UsingTemp, NoDay
<1> QED
  BY <1>1, <1>2, <1>3 DEF CacheInv

LEMMA CacheInvariance == CacheSpec => []CacheInv
BY InvInit, InvStep, PTL DEF CacheSpec

(* The type invariant: also that a download bears the day it was made.        *)
THEOREM CacheTypeCorrect == CacheSpec => []CacheTypeOK
<1>1. CacheInv => CacheTypeOK
  BY DEF CacheInv
<1> QED
  BY <1>1, CacheInvariance, PTL

LEMMA InvIsSound == CacheInv => CacheIsSound
<1> SUFFICES ASSUME CacheInv PROVE CabIsWhole /\ FreshRoots
  BY DEF CacheIsSound
<1>1. CabIsWhole
  BY DEF CacheInv, Stored, Proper, CabIsWhole
<1>2. ASSUME NEW p \in Clients, pc[p] = "verify", fresh[p] # NoDay
      PROVE  got[p].day + MaxAge + MaxLag + Late(got[p]) + Spread >= fresh[p]
  <2>1. fresh[p] <= got[p].day + MaxAge + MaxLag + Late(got[p]) + Spread
    BY <1>2 DEF CacheInv, Recent
  <2>2. /\ fresh[p] \in Int /\ got[p].day \in Int /\ MaxAge \in Nat /\ MaxLag \in Nat
        /\ Spread \in Nat /\ Late(got[p]) \in Nat
    BY Types, LateIsLater DEF CacheInv
  <2> QED
    BY <2>1, <2>2
<1> QED
  BY <1>1, <1>2 DEF FreshRoots

(* For any number of processes of the tool and of the module: however their   *)
(* refreshes interleave, fail and are killed, what the tool put into the      *)
(* cache is a whole CAB, only processes of the module that had their one      *)
(* temporary file open together leave part of a CAB there, and a CAB that     *)
(* is_stale lets pass is no older than the age limit and the allowances.      *)
THEOREM CacheIsSoundAlways == CacheSpec => []CacheIsSound
BY InvIsSound, CacheInvariance, PTL

(* No refresh puts a CAB in place of one that is newer by more than the time  *)
(* a refresh may take, or two that share a temporary file.                    *)
THEOREM NoRollbackAlways == CacheSpec => NoRollback
<1>1. CacheInv /\ [CacheNext]_cacheVars =>
        [Exists(cab) /\ Exists(cab') => cab'.day + Late(cab') >= cab.day]_cacheVars
  <2> SUFFICES ASSUME CacheInv, CacheNext, Exists(cab), Exists(cab')
               PROVE  cab'.day + Late(cab') >= cab.day
    OBVIOUS
  <2>1. /\ now \in Nat /\ cab.day \in Int /\ cab.day <= now /\ Late(cab) \in Nat /\ Late(cab') \in Nat
    BY Types, LateIsLater DEF CacheInv, Stored
  <2>2. Renewed
    BY SearchKeeps, EndKeeps, FillKeeps, ReplaceKeeps, RecordKeeps
    DEF CacheNext, CacheStep, CacheWorld, Tick, SetClock, Renewed
  <2>3. cab' \in Download => cab'.day \in Int
    BY CacheAssumption DEF Download
  <2> QED
    BY <2>1, <2>2, <2>3, Files DEF Renewed
<1> QED
  BY <1>1, CacheInvariance, PTL DEF CacheSpec, NoRollback
-----------------------------------------------------------------------------
(* The steps of a verification that are about one signature, those of them    *)
(* that walk from a certificate to an anchor, those after the anchor was      *)
(* found, and those after the chain of the signer was verified.               *)
Closing == {"report", "passed", "trusted"}
Anchored == {"ocsp", "crl", "check"} \cup Closing
Walking == {"walk", "aia", "anchor"} \cup Anchored
Judging == {"entry", "instant", "tsa", "signer"} \cup Walking

Verification ==
    [phase : Phases, file : FileType \cup {None}, opts : OptionsType \cup {None},
     started : Day, entry : Nat, anchors : SUBSET Certs, anchorCerts : Seq(Certs),
     instant : Int, role : {"signer", "tsa"}, leaf : Certs \cup {None},
     pool : Seq(Certs), chain : Seq(Certs), subject : Nat]

(* The verification is one of a job, which began on a day that was.           *)
OnJob(p) ==
    /\ v[p].phase # None => [file |-> v[p].file, opts |-> v[p].opts] \in Jobs
    /\ v[p].started <= now
    /\ Len(v[p].chain) <= MaxChain

GivenTo(p) == v[p].opts.anchors \cup v[p].opts.additional

(* What was loaded is what the options and the CAB in memory say.             *)
Loaded(p) ==
    /\ pc[p] = "verify" => got[p] \in Download
    /\ v[p].phase \in {"resolve", "load"} => v[p].entry = 0
    /\ v[p].phase = "load" => ~UsesCache(Opts(p))
    /\ v[p].phase \in Judging =>
          /\ v[p].entry \in 1..Len(v[p].file.entries)
          /\ ~Artifact(p) => v[p].anchors = Vouchers(p)
          /\ ~Artifact(p) /\ Opts(p).anchors # {} => Range(v[p].anchorCerts) = GivenTo(p)
          /\ v[p].phase # "entry" => Entry(p).digestMatches

(* A token is looked at when there is one and the options want it.            *)
AtToken(p) == v[p].phase = "tsa" \/ (v[p].phase \in Walking /\ v[p].role = "tsa")
TokenWanted(p) ==
    AtToken(p) => Token(p) # None /\ (~Artifact(p) => Opts(p).preferTimestamp)

(* The walk began at the right certificate and goes from name to name; past   *)
(* the anchor it ends in one.                                                 *)
Linked(p) ==
    \A i \in 1..Len(v[p].chain) : X509[Path(p)[i]].issuer = X509[Path(p)[i + 1]].subject
OnTheWay(p) ==
    v[p].phase \in Walking =>
        /\ v[p].role = "tsa" => v[p].leaf = Token(p).leaf /\ token_is_genuine(p)
        /\ v[p].role = "signer" => v[p].leaf = Entry(p).leaf /\ Entry(p).signatureVerifies
        /\ Linked(p)
        /\ v[p].phase \in Anchored => Current(p) \in Anchors(p)
        /\ v[p].phase \in Closing =>
              v[p].role = "signer" /\ (AnchoredSigner(p) \/ ChainVerifies(p, v[p].instant))

(* Once the instant is chosen, and until the next signature, it is one the    *)
(* signature has a right to.                                                  *)
Insists(p) ==
    IF Artifact(p) THEN Opts(p).artifact.requireTimestamp
    ELSE Opts(p).preferTimestamp /\ Opts(p).requireTimestamp
TokenHolds(p) ==
    /\ Token(p) # None /\ Token(p).imprintMatches
    /\ Token(p).leaf \in Leads(v[p].anchors, Token(p).time)
    /\ v[p].instant = Token(p).time
AtSigner(p) == v[p].phase = "signer" \/ (v[p].phase \in Walking /\ v[p].role = "signer")
InTime(p) ==
    AtSigner(p) /\ Opts(p).asOf = None =>
        /\ ~Artifact(p) /\ ~Opts(p).preferTimestamp => v[p].instant \in Days(p)
        /\ Insists(p) => TokenHolds(p)

(* The certificates looked up so far were not revoked too long ago.           *)
StillGood(p, i) == revokedOn[Path(p)[i]] + Window > v[p].started
Unrevoked(p) ==
    /\ v[p].phase \in {"ocsp", "crl"} =>
          /\ v[p].subject \in 1..Len(Path(p))
          /\ v[p].phase = "crl" => v[p].subject < Len(Path(p))
          /\ Opts(p).revocation = "require" =>
                \A i \in 1..(v[p].subject - 1) : StillGood(p, i)
    /\ v[p].phase \in {"check"} \cup Closing /\ Opts(p).revocation = "require" =>
          \A i \in 1..(Len(Path(p)) - 1) : StillGood(p, i)

(* The walk of an honest signature follows every path of names to an anchor,  *)
(* and stops where the path does.                                             *)
AtHand(p) == Range(embedded_certs(Entry(p).embedded)) \cup GivenTo(p)
NamePath(p, n, path) ==
    /\ path[1] = Entry(p).leaf /\ path[n] \in GivenTo(p)
    /\ \A i \in 1..(n - 1) : X509[path[i]].issuer = X509[path[i + 1]].subject
Follows(p) ==
    \A n \in 1..(MaxChain + 1) : \A path \in [1..n -> AtHand(p)] :
        NamePath(p, n, path) =>
            /\ Len(Path(p)) <= n
            /\ \A i \in 1..Len(Path(p)) : Path(p)[i] = path[i]
HonestWalk(p) ==
    v[p].phase # None /\ v[p].entry > 0 /\ Honest(p) =>
        /\ v[p].phase \notin {"rejected", "tsa", "aia", "ocsp", "crl", "report"}
        /\ v[p].phase \in {"walk", "anchor", "check"} =>
              /\ v[p].role = "signer"
              /\ Range(v[p].pool) = AtHand(p)
              /\ Follows(p)
        /\ v[p].phase = "walk" => ~SelfIssued(Current(p)) /\ Current(p) \notin GivenTo(p)
        /\ v[p].phase = "anchor" => Current(p) \in GivenTo(p)

ClientInv(p) ==
    /\ OnJob(p) /\ Loaded(p) /\ TokenWanted(p) /\ OnTheWay(p) /\ InTime(p)
    /\ Unrevoked(p) /\ HonestWalk(p)

TrustInv ==
    /\ CacheInv
    /\ revokedOn \in [Certs -> 0..Never]
    /\ v \in [Clients -> Verification]
    /\ \A p \in Clients : ClientInv(p)
-----------------------------------------------------------------------------
(* The data: first elements, recursion, filters and the sequences of a set.   *)
(* Induction is by the least number that would be a counterexample.           *)

LEMMA LeastElement ==
    ASSUME NEW T, T \subseteq Nat, T # {}
    PROVE  \E x \in T : \A y \in T : x <= y
<1>1. PICK x \in T : \A y \in T : <<y, x>> \notin OpToRel(<, Nat)
  BY WFMin, NatLessThanWellFounded
<1>2. \A y \in T : ~(y < x)
  BY <1>1 DEF OpToRel
<1> QED
  BY <1>2

LEMMA MinIsFirst ==
    ASSUME NEW T, T \subseteq Nat, T # {}
    PROVE  Min(T) \in T /\ \A y \in T : Min(T) <= y
BY LeastElement DEF Min

(* A function defined by recursion over an interval is there.                 *)
LEMMA Recursion ==
    ASSUME NEW X, NEW base \in X, NEW n \in Nat, NEW g \in [1..n -> [X -> X]]
    PROVE  \E f \in [0..n -> X] : f[0] = base /\ \A i \in 1..n : f[i] = g[i][f[i - 1]]
<1> DEFINE Good(k, f) == f[0] = base /\ \A i \in 1..k : f[i] = g[i][f[i - 1]]
           Bad == {k \in 0..n : ~\E f \in [0..k -> X] : Good(k, f)}
<1>1. SUFFICES Bad = {}
  <2>1. n \in 0..n
    OBVIOUS
  <2>2. \E f \in [0..n -> X] : Good(n, f)
    BY <1>1, <2>1
  <2> QED
    BY <2>2
<1>2. SUFFICES ASSUME Bad # {} PROVE FALSE
  OBVIOUS
<1>3. PICK k \in Bad : \A j \in Bad : k <= j
  <2>1. Bad \subseteq Nat
    OBVIOUS
  <2> QED
    BY <1>2, <2>1, LeastElement
<1>4. k \in 0..n /\ ~\E f \in [0..k -> X] : Good(k, f)
  BY <1>3
<1>5. CASE k = 0
  <2>1. \E f \in [0..0 -> X] : Good(0, f)
    <3>1. [i \in 0..0 |-> base] \in [0..0 -> X] /\ Good(0, [i \in 0..0 |-> base])
      OBVIOUS
    <3> QED
      BY <3>1
  <2> QED
    BY <1>4, <1>5, <2>1
<1>6. CASE k # 0
  <2>1. k - 1 \in 0..n /\ k - 1 \notin Bad
    <3>1. k - 1 \in 0..n /\ ~(k <= k - 1)
      BY <1>4, <1>6
    <3> HIDE DEF Bad
    <3> QED
      BY <1>3, <3>1
  <2>2. PICK f \in [0..(k - 1) -> X] : Good(k - 1, f)
    BY <2>1
  <2> DEFINE h == [i \in 0..k |-> IF i = k THEN g[k][f[k - 1]] ELSE f[i]]
  <2>3. k \in 1..n /\ k - 1 \in 0..(k - 1) /\ \A i \in 0..k : i # k => i \in 0..(k - 1)
    BY <1>4, <1>6
  <2>4. g[k] \in [X -> X] /\ f[k - 1] \in X
    BY <2>3
  <2>5. h \in [0..k -> X]
    BY <2>3, <2>4
  <2>6. h[0] = base
    BY <1>4, <1>6, <2>2
  <2>7. ASSUME NEW i \in 1..k PROVE h[i] = g[i][h[i - 1]]
    <3>1. i - 1 \in 0..k /\ i - 1 # k /\ i \in 0..k
      BY <1>4
    <3>2. h[i - 1] = f[i - 1]
      BY <3>1
    <3>3. CASE i = k
      BY <3>1, <3>2, <3>3
    <3>4. CASE i # k
      <4>1. i \in 1..(k - 1)
        BY <1>4, <3>4
      <4>2. f[i] = g[i][f[i - 1]]
        BY <2>2, <4>1
      <4> QED
        BY <3>1, <3>2, <3>4, <4>2
    <3> QED
      BY <3>3, <3>4
  <2> HIDE DEF h
  <2> QED
    BY <1>4, <2>5, <2>6, <2>7
<1> QED
  BY <1>5, <1>6

(* What Keep keeps, one element after the other.                              *)
LEMMA KeepSteps ==
    ASSUME NEW S, NEW s \in Seq(S), NEW I
    PROVE  \E left : /\ Keep(s, I) = left[Len(s)]
                     /\ left[0] = <<>>
                     /\ \A i \in 1..Len(s) :
                           left[i] = IF i \in I THEN Append(left[i - 1], s[i]) ELSE left[i - 1]
<1> DEFINE n == Len(s)
           X == Seq(S)
           Body(f) == [i \in 0..n |-> IF i = 0 THEN <<>>
                                      ELSE IF i \in I THEN Append(f[i - 1], s[i]) ELSE f[i - 1]]
           g == [i \in 1..n |-> [x \in X |-> IF i \in I THEN Append(x, s[i]) ELSE x]]
           chosen == CHOOSE f : f = Body(f)
<1>1. n \in Nat /\ \A i \in 1..n : s[i] \in S
  OBVIOUS
<1>2. <<>> \in X /\ g \in [1..n -> [X -> X]]
  BY <1>1
<1>3. PICK f \in [0..n -> X] : f[0] = <<>> /\ \A i \in 1..n : f[i] = g[i][f[i - 1]]
  <2> DEFINE empty == <<>>
  <2>1. n \in Nat /\ empty \in X /\ g \in [1..n -> [X -> X]]
    BY <1>1, <1>2
  <2> HIDE DEF X, g, n, empty, Body, chosen
  <2>2. \E f \in [0..n -> X] : f[0] = empty /\ \A i \in 1..n : f[i] = g[i][f[i - 1]]
    BY <2>1, Recursion, SMTT(60)
  <2> QED
    BY <2>2 DEF empty
<1>4. f = Body(f)
  <2>1. ASSUME NEW i \in 0..n
        PROVE  f[i] = IF i = 0 THEN <<>>
                      ELSE IF i \in I THEN Append(f[i - 1], s[i]) ELSE f[i - 1]
    <3>1. CASE i = 0
      BY <1>3, <3>1
    <3>2. CASE i # 0
      <4>1. i \in 1..n /\ i - 1 \in 0..n
        BY <1>1, <3>2
      <4>2. f[i - 1] \in X
        BY <4>1
      <4> QED
        BY <1>3, <3>2, <4>1, <4>2
    <3> QED
      BY <3>1, <3>2
  <2> QED
    BY <2>1
<1>5. chosen = Body(chosen)
  <2> HIDE DEF Body
  <2> QED
    BY <1>4
<1>6. Keep(s, I) = chosen[n]
  BY DEF Keep
<1>7. \A i \in 0..n : chosen[i] = IF i = 0 THEN <<>>
                      ELSE IF i \in I THEN Append(chosen[i - 1], s[i]) ELSE chosen[i - 1]
  <2>1. \A i \in 0..n : Body(chosen)[i] = IF i = 0 THEN <<>>
                      ELSE IF i \in I THEN Append(chosen[i - 1], s[i]) ELSE chosen[i - 1]
    <3> HIDE DEF chosen
    <3> QED
      OBVIOUS
  <2> HIDE DEF Body, chosen
  <2> QED
    BY <1>5, <2>1
<1> HIDE DEF chosen
<1>8. /\ chosen[0] = <<>>
      /\ \A i \in 1..n : chosen[i] = IF i \in I THEN Append(chosen[i - 1], s[i])
                                                  ELSE chosen[i - 1]
  BY <1>1, <1>7
<1> QED
  BY <1>6, <1>8

(* The result is a sequence of the members of s at the positions in I.        *)
LEMMA KeepFacts ==
    ASSUME NEW S, NEW s \in Seq(S), NEW I
    PROVE  /\ Keep(s, I) \in Seq(S)
           /\ Range(Keep(s, I)) = {s[j] : j \in I \cap DOMAIN s}
<1>1. PICK left : /\ Keep(s, I) = left[Len(s)]
                  /\ left[0] = <<>>
                  /\ \A i \in 1..Len(s) :
                        left[i] = IF i \in I THEN Append(left[i - 1], s[i]) ELSE left[i - 1]
  BY KeepSteps
<1> DEFINE n == Len(s)
           Right(i) == /\ left[i] \in Seq(S)
                       /\ Range(left[i]) = {s[j] : j \in I \cap 1..i}
           Bad == {i \in 0..n : ~Right(i)}
<1>2. n \in Nat /\ \A i \in 1..n : s[i] \in S
  OBVIOUS
<1>3. Bad = {}
  <2> SUFFICES ASSUME Bad # {} PROVE FALSE
    OBVIOUS
  <2>1. PICK k \in Bad : \A j \in Bad : k <= j
    <3>1. Bad \subseteq Nat
      OBVIOUS
    <3> HIDE DEF Bad
    <3> QED
      BY <3>1, LeastElement
  <2>2. k \in 0..n /\ ~Right(k)
    BY <2>1
  <2>3. Right(0)
    BY <1>1 DEF Range
  <2>4. k # 0 /\ k - 1 \in 0..n /\ k \in 1..n
    BY <1>2, <2>2, <2>3
  <2>5. Right(k - 1)
    <3>1. ~(k <= k - 1)
      BY <2>4
    <3>2. k - 1 \notin Bad
      <4> HIDE DEF Bad
      <4> QED
        BY <2>1, <3>1
    <3> QED
      BY <2>4, <3>2
  <2>6. 1..k = 1..(k - 1) \cup {k}
    BY <2>4
  <2>7. CASE k \in I
    <3>1. left[k] = Append(left[k - 1], s[k])
      BY <1>1, <2>4, <2>7
    <3>2. s[k] \in S
      BY <1>2, <2>4, <2>7
    <3>3. left[k] \in Seq(S)
      BY <2>5, <3>1, <3>2
    <3>4. Range(left[k]) = Range(left[k - 1]) \cup {s[k]}
      <4> DEFINE t == left[k - 1]
      <4>1. t \in Seq(S)
        BY <2>5
      <4>2. Range(Append(t, s[k])) = Range(t) \cup {s[k]}
        <5> HIDE DEF t
        <5>1. /\ Len(Append(t, s[k])) = Len(t) + 1 /\ Append(t, s[k])[Len(t) + 1] = s[k]
              /\ \A i \in 1..Len(t) : Append(t, s[k])[i] = t[i]
              /\ DOMAIN t = 1..Len(t) /\ Len(t) \in Nat
              /\ DOMAIN Append(t, s[k]) = 1..(Len(t) + 1)
          BY <3>2, <4>1
        <5>2. 1..(Len(t) + 1) = 1..Len(t) \cup {Len(t) + 1}
          BY <5>1
        <5> QED
          BY <5>1, <5>2 DEF Range
      <4> QED
        BY <3>1, <4>2
    <3> QED
      BY <2>2, <2>5, <2>6, <2>7, <3>3, <3>4
  <2>8. CASE k \notin I
    <3>1. left[k] = left[k - 1]
      BY <1>1, <2>4, <2>8
    <3> QED
      BY <2>2, <2>5, <2>6, <2>8, <3>1
  <2> QED
    BY <2>7, <2>8
<1>4. Right(n)
  <2>1. n \in 0..n
    BY <1>2
  <2>2. n \notin Bad
    BY <1>3
  <2> QED
    BY <2>1, <2>2
<1>5. DOMAIN s = 1..n
  OBVIOUS
<1> QED
  BY <1>1, <1>4, <1>5

(* SetToSeq lists a finite set.                                               *)
LEMMA SetToSeqFacts ==
    ASSUME NEW S, IsFiniteSet(S)
    PROVE  SetToSeq(S) \in Seq(S) /\ Range(SetToSeq(S)) = S
<1> DEFINE n == Cardinality(S)
           f == SetToSeq(S)
<1>1. n \in Nat
  BY FS_CardinalityType
<1>2. \E h \in [1..n -> S] : IsInjective(h)
  <2>1. ExistsBijection(1..n, S)
    BY FS_CardinalityType
  <2> QED
    BY <2>1 DEF ExistsBijection, Bijection, Injection, IsInjective
<1>3. f \in [1..n -> S] /\ IsInjective(f)
  BY <1>2 DEF SetToSeq
<1>4. \A t \in S : \E i \in 1..n : f[i] = t
  <2>1. IsFiniteSet(1..n) /\ Cardinality(1..n) = n
    <3>1. Cardinality(1..n) = IF 1 > n THEN 0 ELSE n - 1 + 1
      BY <1>1, FS_Interval
    <3> QED
      BY <1>1, <3>1, FS_Interval
  <2>2. f \in Injection(1..n, S)
    BY <1>3 DEF Injection
  <2>3. f \in Surjection(1..n, S)
    BY <2>1, <2>2, FS_Injection
  <2> QED
    BY <2>3 DEF Surjection
<1>5. f \in Seq(S) /\ DOMAIN f = 1..n
  BY <1>1, <1>3
<1> HIDE DEF f
<1>6. Range(f) = S
  BY <1>3, <1>4, <1>5 DEF Range
<1> QED
  BY <1>5, <1>6 DEF f

(* The stages of Leads.                                                       *)
LEMMA LeadsSteps ==
    ASSUME NEW A \in SUBSET Certs, NEW day
    PROVE  \E led : /\ Leads(A, day) = led[MaxChain]
                    /\ led[0] = {c \in A : ValidAt(c, day)}
                    /\ \A i \in 1..MaxChain : led[i] = led[i - 1] \cup Below(led[i - 1], day)
<1> DEFINE X == SUBSET Certs
           base == {c \in A : ValidAt(c, day)}
           Body(f) == [i \in 0..MaxChain |->
                          IF i = 0 THEN base ELSE LET S == f[i - 1] IN S \cup Below(S, day)]
           g == [i \in 1..MaxChain |-> [x \in X |-> x \cup Below(x, day)]]
           chosen == CHOOSE f : f = Body(f)
<1>0. MaxChain \in Nat
  BY TrustAssumption
<1>1. base \in X
  OBVIOUS
<1>2. g \in [1..MaxChain -> [X -> X]]
  BY DEF Below
<1>3. PICK f \in [0..MaxChain -> X] : f[0] = base /\ \A i \in 1..MaxChain : f[i] = g[i][f[i - 1]]
  <2> HIDE DEF X, g, base
  <2> QED
    BY <1>0, <1>1, <1>2, Recursion, SMTT(60)
<1> HIDE DEF base
<1>4. f = Body(f)
  <2>1. ASSUME NEW i \in 0..MaxChain
        PROVE  f[i] = IF i = 0 THEN base ELSE f[i - 1] \cup Below(f[i - 1], day)
    <3>1. CASE i = 0
      BY <1>3, <3>1
    <3>2. CASE i # 0
      <4>1. i \in 1..MaxChain /\ i - 1 \in 0..MaxChain
        BY <1>0, <3>2
      <4>2. f[i - 1] \in X
        BY <4>1
      <4>3. g[i][f[i - 1]] = f[i - 1] \cup Below(f[i - 1], day)
        BY <4>1, <4>2
      <4> QED
        BY <1>3, <3>2, <4>1, <4>3
    <3> QED
      BY <3>1, <3>2
  <2> QED
    BY <2>1
<1>5. chosen = Body(chosen)
  <2> HIDE DEF Body
  <2> QED
    BY <1>4
<1>6. Leads(A, day) = chosen[MaxChain]
  BY DEF Leads, base
<1>7. \A i \in 0..MaxChain :
         chosen[i] = IF i = 0 THEN base ELSE chosen[i - 1] \cup Below(chosen[i - 1], day)
  <2>1. \A i \in 0..MaxChain :
           Body(chosen)[i] = IF i = 0 THEN base ELSE chosen[i - 1] \cup Below(chosen[i - 1], day)
    <3> HIDE DEF chosen
    <3> QED
      OBVIOUS
  <2> HIDE DEF Body, chosen
  <2> QED
    BY <1>5, <2>1
<1> HIDE DEF chosen
<1>8. /\ chosen[0] = base
      /\ \A i \in 1..MaxChain : chosen[i] = chosen[i - 1] \cup Below(chosen[i - 1], day)
  <2>1. 0 \in 0..MaxChain /\ \A i \in 1..MaxChain : i \in 0..MaxChain /\ i # 0
    BY <1>0
  <2> QED
    BY <1>7, <2>1, Zenon
<1> QED
  BY <1>6, <1>8 DEF base

(* A path of valid certificates, each signed by the next and with its name,   *)
(* leads from its first one to its last.                                      *)
LEMMA PathLeads ==
    ASSUME NEW A \in SUBSET Certs, NEW day, NEW n \in 0..MaxChain, NEW t \in Seq(Certs),
           Len(t) = n + 1, t[n + 1] \in A,
           \A i \in 1..(n + 1) : ValidAt(t[i], day),
           \A i \in 1..n : SignedBy(t[i], t[i + 1]) /\ X509[t[i]].issuer = X509[t[i + 1]].subject
    PROVE  t[1] \in Leads(A, day)
<1>0. MaxChain \in Nat /\ n \in Nat /\ \A i \in 1..(n + 1) : t[i] \in Certs
  <2>1. MaxChain \in Nat
    BY TrustAssumption
  <2>2. \A i \in 1..Len(t) : t[i] \in Certs
    OBVIOUS
  <2> QED
    BY <2>1, <2>2
<1>1. PICK led : /\ Leads(A, day) = led[MaxChain]
                 /\ led[0] = {c \in A : ValidAt(c, day)}
                 /\ \A i \in 1..MaxChain : led[i] = led[i - 1] \cup Below(led[i - 1], day)
  BY LeadsSteps, Zenon
<1> DEFINE Right(k) == t[IF k <= n THEN n + 1 - k ELSE 1] \in led[k]
           Bad == {k \in 0..MaxChain : ~Right(k)}
<1>2. Bad = {}
  <2> SUFFICES ASSUME Bad # {} PROVE FALSE
    OBVIOUS
  <2>1. PICK k \in Bad : \A j \in Bad : k <= j
    <3>1. Bad \subseteq Nat
      OBVIOUS
    <3> HIDE DEF Bad
    <3> QED
      BY <3>1, LeastElement
  <2>2. k \in 0..MaxChain /\ ~Right(k)
    BY <2>1
  <2>3. Right(0)
    <3>1. n + 1 \in 1..(n + 1) /\ 0 <= n /\ n + 1 - 0 = n + 1
      BY <1>0
    <3>2. ValidAt(t[n + 1], day)
      BY <3>1
    <3> QED
      BY <1>1, <3>1, <3>2
  <2>4. k # 0 /\ k - 1 \in 0..MaxChain /\ k \in 1..MaxChain
    BY <1>0, <2>2, <2>3
  <2>5. Right(k - 1)
    <3>1. ~(k <= k - 1)
      BY <2>4
    <3>2. k - 1 \notin Bad
      <4> HIDE DEF Bad
      <4> QED
        BY <2>1, <3>1
    <3> QED
      BY <2>4, <3>2
  <2>6. led[k] = led[k - 1] \cup Below(led[k - 1], day)
    BY <1>1, <2>4
  <2>7. CASE k <= n
    <3> DEFINE i == n + 1 - k
    <3>1. i \in 1..n /\ i + 1 = n + 1 - (k - 1) /\ k - 1 <= n /\ i \in 1..(n + 1) /\ i + 1 \in 1..(n + 1)
      BY <1>0, <2>4, <2>7
    <3>2. t[i + 1] \in led[k - 1]
      BY <2>5, <3>1
    <3> HIDE DEF i
    <3>3. t[i] \in Below(led[k - 1], day)
      BY <1>0, <3>1, <3>2 DEF Below
    <3> QED
      BY <2>2, <2>6, <2>7, <3>3 DEF i
  <2>8. CASE ~(k <= n)
    <3>1. t[1] \in led[k - 1]
      <4>1. CASE k - 1 <= n
        <5>1. n + 1 - (k - 1) = 1
          BY <2>4, <2>8, <4>1
        <5> QED
          BY <2>5, <4>1, <5>1
      <4>2. CASE ~(k - 1 <= n)
        BY <2>5, <4>2
      <4> QED
        BY <4>1, <4>2
    <3> QED
      BY <2>2, <2>6, <2>8, <3>1
  <2> QED
    BY <2>7, <2>8
<1>3. Right(MaxChain)
  <2>1. MaxChain \in 0..MaxChain
    BY <1>0
  <2>2. MaxChain \notin Bad
    BY <1>2
  <2> QED
    BY <2>1, <2>2
<1>4. t[1] \in led[MaxChain]
  <2>1. CASE MaxChain <= n
    <3>1. n + 1 - MaxChain = 1
      BY <1>0, <2>1
    <3> QED
      BY <1>3, <2>1, <3>1
  <2>2. CASE ~(MaxChain <= n)
    BY <1>3, <2>2
  <2> QED
    BY <2>1, <2>2
<1> QED
  BY <1>1, <1>4
-----------------------------------------------------------------------------
(* One client: the types of what it looks at, and what a step leaves alone.   *)

LEMMA JobTypes ==
    ASSUME NEW p \in Clients, OnJob(p), v[p].phase # None
    PROVE  v[p].file \in FileType /\ v[p].opts \in OptionsType
BY TrustAssumption DEF OnJob

LEMMA EntryTypes ==
    ASSUME NEW p \in Clients, OnJob(p), v[p].phase # None, v[p].entry \in 1..Len(v[p].file.entries)
    PROVE  /\ Entry(p) \in SignatureType
           /\ Token(p) # None => Token(p) \in TokenType
<1>1. v[p].file.entries \in Seq(SignatureType)
  BY JobTypes DEF FileType
<1>2. Entry(p) \in SignatureType
  BY <1>1 DEF Entry
<1>3. ASSUME Token(p) # None PROVE Token(p) \in TokenType
  <2> DEFINE attrs == Entry(p).attrs
             holding == {i \in DOMAIN attrs : attrs[i].token # None}
             known == {i \in holding : attrs[i].known}
             these == IF known # {} THEN known ELSE holding
             Attr == [known : BOOLEAN, token : TokenType \cup {None}]
  <2>1. attrs \in Seq(Attr)
    BY <1>2 DEF SignatureType
  <2>2. holding # {} /\ Token(p) = attrs[Min(these)].token
    BY <1>3 DEF Token
  <2>3. DOMAIN attrs = 1..Len(attrs) /\ Len(attrs) \in Nat
    BY <2>1
  <2>4. these # {} /\ these \subseteq holding /\ holding \subseteq 1..Len(attrs)
    BY <2>2, <2>3
  <2>5. Min(these) \in these
    <3>1. these \subseteq Nat
      BY <2>3, <2>4
    <3> HIDE DEF these
    <3> QED
      BY <2>4, <3>1, MinIsFirst
  <2> HIDE DEF these
  <2>6. Min(these) \in holding
    BY <2>4, <2>5
  <2>7. Min(these) \in 1..Len(attrs) /\ attrs[Min(these)].token # None
    BY <2>3, <2>6
  <2> HIDE DEF attrs, holding
  <2>8. attrs[Min(these)] \in Attr
    <3> HIDE DEF Attr
    <3> QED
      BY <2>1, <2>7
  <2>9. attrs[Min(these)].token \in TokenType \cup {None}
    BY <2>8
  <2> QED
    BY <2>2, <2>7, <2>9
<1> QED
  BY <1>2, <1>3

(* The path of a walk: its first certificate, and the chain.                  *)
LEMMA PathFacts ==
    ASSUME NEW p \in Clients, v[p].leaf \in Certs, v[p].chain \in Seq(Certs)
    PROVE  /\ Path(p) \in Seq(Certs) /\ Len(Path(p)) = Len(v[p].chain) + 1
           /\ Len(v[p].chain) \in Nat
           /\ Path(p)[1] = v[p].leaf
           /\ Current(p) = Path(p)[Len(v[p].chain) + 1] /\ Current(p) \in Certs
           /\ \A i \in 1..Len(Path(p)) : Path(p)[i] \in Certs
<1>1. Path(p) \in Seq(Certs) /\ Len(Path(p)) = Len(v[p].chain) + 1 /\ Len(v[p].chain) \in Nat
  BY DEF Path
<1>2. Path(p)[1] = v[p].leaf
  BY DEF Path
<1>3. \A i \in 1..Len(Path(p)) : Path(p)[i] \in Certs
  BY <1>1
<1>4. Current(p) = Path(p)[Len(v[p].chain) + 1]
  BY <1>1 DEF Current, Last
<1> QED
  BY <1>1, <1>2, <1>3, <1>4

(* Appending to the chain appends to the path.                                *)
LEMMA PathGrows ==
    ASSUME NEW p \in Clients, v[p].leaf \in Certs, v[p].chain \in Seq(Certs), NEW c \in Certs,
           v'[p].leaf = v[p].leaf, v'[p].chain = Append(v[p].chain, c)
    PROVE  /\ Path(p)' = Append(Path(p), c)
           /\ Len(Path(p)') = Len(v[p].chain) + 2
           /\ \A i \in 1..(Len(v[p].chain) + 1) : Path(p)'[i] = Path(p)[i]
           /\ Path(p)'[Len(v[p].chain) + 2] = c
           /\ Current(p)' = c
<1>1. Path(p)' = Append(Path(p), c)
  BY SMTT(60) DEF Path
<1>2. Path(p) \in Seq(Certs) /\ Len(Path(p)) = Len(v[p].chain) + 1 /\ Len(v[p].chain) \in Nat
  BY PathFacts
<1>3. /\ Len(Append(Path(p), c)) = Len(v[p].chain) + 2
      /\ \A i \in 1..(Len(v[p].chain) + 1) : Append(Path(p), c)[i] = Path(p)[i]
      /\ Append(Path(p), c)[Len(v[p].chain) + 2] = c
  BY <1>2
<1>4. Current(p)' = c
  BY <1>1, <1>3 DEF Current, Last
<1> QED
  BY <1>1, <1>3, <1>4

(* A step about the same signature of the same job sees the same of it.       *)
SameJob(p) ==
    /\ v'[p].file = v[p].file /\ v'[p].opts = v[p].opts /\ v'[p].entry = v[p].entry
    /\ v'[p].started = v[p].started /\ v'[p].anchors = v[p].anchors
    /\ v'[p].anchorCerts = v[p].anchorCerts
SameWalk(p) ==
    /\ v'[p].role = v[p].role /\ v'[p].leaf = v[p].leaf /\ v'[p].chain = v[p].chain
SamePool(p) == v'[p].pool = v[p].pool /\ v'[p].instant = v[p].instant

LEMMA JobFrame ==
    ASSUME NEW p \in Clients, v'[p].file = v[p].file, v'[p].opts = v[p].opts, v'[p].entry = v[p].entry
    PROVE  /\ Entry(p)' = Entry(p) /\ Opts(p)' = Opts(p) /\ Artifact(p)' = Artifact(p)
           /\ Token(p)' = Token(p) /\ token_is_genuine(p)' = token_is_genuine(p)
           /\ GivenTo(p)' = GivenTo(p) /\ AtHand(p)' = AtHand(p)
           /\ Insists(p)' = Insists(p)
<1>1. Entry(p)' = Entry(p) /\ Opts(p)' = Opts(p)
  BY DEF Entry, Opts
<1>2. Token(p)' = Token(p) /\ Artifact(p)' = Artifact(p)
  BY <1>1 DEF Token, Artifact
<1> QED
  BY <1>1, <1>2 DEF token_is_genuine, GivenTo, AtHand, Insists

(* What an honest signature is does not change while its days do not.         *)
LEMMA HonestFrame ==
    ASSUME NEW p \in Clients, v'[p].file = v[p].file, v'[p].opts = v[p].opts,
           v'[p].entry = v[p].entry, v'[p].started = v[p].started, now' = now
    PROVE  /\ Days(p)' = Days(p) /\ Honest(p)' = Honest(p)
           /\ \A all, A, day, path :
                 GoodPath(p, all, A, day, path)' = GoodPath(p, all, A, day, path)
<1>1. Entry(p)' = Entry(p)
  BY JobFrame
<1>2. Days(p)' = Days(p)
  BY DEF Days
<1>3. \A all, A, day, path : GoodPath(p, all, A, day, path)' = GoodPath(p, all, A, day, path)
  BY <1>1 DEF GoodPath
<1> QED
  BY <1>1, <1>2, <1>3 DEF Honest, GoodPath

LEMMA WalkFrame ==
    ASSUME NEW p \in Clients, SameJob(p), SameWalk(p)
    PROVE  /\ Path(p)' = Path(p) /\ Current(p)' = Current(p) /\ Linked(p)' = Linked(p)
           /\ Anchors(p)' = Anchors(p) /\ AnchoredSigner(p)' = AnchoredSigner(p)
<1>1. Entry(p)' = Entry(p) /\ Opts(p)' = Opts(p) /\ Artifact(p)' = Artifact(p)
  BY JobFrame DEF SameJob
<1>2. Path(p)' = Path(p) /\ Current(p)' = Current(p)
  BY DEF Path, Current, SameWalk
<1>3. SignerAnchors(p)' = SignerAnchors(p)
  BY <1>1 DEF SignerAnchors, SameJob
<1> QED
  BY <1>2, <1>3 DEF Linked, Anchors, AnchoredSigner, SameJob, SameWalk

(* The ways a step changes the record of its client.                          *)
Typed == v \in [Clients -> Verification]
Others(p) == Typed' /\ \A q \in Clients \ {p} : v'[q] = v[q]

LEMMA SetFacts ==
    ASSUME Typed, NEW p \in Clients, NEW r \in Verification, Set(p, r)
    PROVE  Others(p) /\ v'[p] = r
BY DEF Typed, Set, Others

LEMMA FreshType ==
    /\ Fresh \in Verification /\ Fresh.phase = None /\ Fresh.chain = <<>> /\ Fresh.started = 0
    /\ Fresh.entry = 0
BY CacheAssumption DEF Fresh, Verification, Phases, Day

LEMMA BecomeFacts ==
    ASSUME Typed, NEW p \in Clients, NEW ph \in Phases, Become(p, ph)
    PROVE  /\ Others(p) /\ v'[p].phase = ph
           /\ SameJob(p) /\ SameWalk(p) /\ SamePool(p) /\ v'[p].subject = v[p].subject
<1>1. v[p] \in Verification
  BY DEF Typed
<1>2. [v[p] EXCEPT !.phase = ph] \in Verification
  BY <1>1 DEF Verification
<1>3. Others(p) /\ v'[p] = [v[p] EXCEPT !.phase = ph]
  BY <1>2, SetFacts DEF Become
<1> QED
  BY <1>1, <1>3 DEF Verification, SameJob, SameWalk, SamePool

LEMMA JudgedFacts ==
    ASSUME Typed, NEW p \in Clients, NEW day \in Int, Judged(p, day)
    PROVE  /\ Others(p) /\ v'[p].phase = "signer" /\ v'[p].instant = day
           /\ SameJob(p) /\ SameWalk(p)
<1>1. v[p] \in Verification
  BY DEF Typed
<1>2. [v[p] EXCEPT !.phase = "signer", !.instant = day] \in Verification
  BY <1>1 DEF Verification, Phases, Steps
<1>3. Others(p) /\ v'[p] = [v[p] EXCEPT !.phase = "signer", !.instant = day]
  BY <1>2, SetFacts DEF Judged
<1> QED
  BY <1>1, <1>3 DEF Verification, SameJob, SameWalk

LEMMA RejectFacts ==
    ASSUME Typed, NEW p \in Clients, Reject(p)
    PROVE  /\ Others(p) /\ v'[p].phase = "rejected" /\ v'[p].chain = <<>>
           /\ v'[p].file = v[p].file /\ v'[p].opts = v[p].opts
           /\ v'[p].started = v[p].started /\ v'[p].entry = v[p].entry
<1> DEFINE r == [Fresh EXCEPT !.phase = "rejected", !.file = v[p].file, !.opts = v[p].opts,
                              !.started = v[p].started, !.entry = v[p].entry]
<1>1. v[p] \in Verification
  BY DEF Typed
<1>2. r \in Verification
  <2> DEFINE a == [Fresh EXCEPT !.phase = "rejected", !.file = v[p].file]
             b == [a EXCEPT !.opts = v[p].opts, !.started = v[p].started]
  <2>0. "rejected" \in Phases /\ Fresh \in Verification
    BY FreshType DEF Phases, Steps
  <2>1. a \in Verification
    BY <1>1, <2>0 DEF Verification
  <2>2. b \in Verification
    <3> HIDE DEF a
    <3> QED
      BY <1>1, <2>1 DEF Verification
  <2>3. [b EXCEPT !.entry = v[p].entry] \in Verification
    <3> HIDE DEF b
    <3> QED
      BY <1>1, <2>2 DEF Verification
  <2>4. r = [b EXCEPT !.entry = v[p].entry]
    OBVIOUS
  <2> QED
    BY <2>3, <2>4
<1>3. Others(p) /\ v'[p] = r
  BY <1>2, SetFacts DEF Reject
<1>4. /\ r.phase = "rejected" /\ r.chain = <<>> /\ r.file = v[p].file /\ r.opts = v[p].opts
      /\ r.started = v[p].started /\ r.entry = v[p].entry
  BY DEF Fresh
<1> QED
  BY <1>3, <1>4

LEMMA StartWalkFacts ==
    ASSUME Typed, NEW p \in Clients, NEW role \in {"signer", "tsa"}, NEW leaf \in Certs,
           NEW pool \in Seq(Certs), StartWalk(p, role, leaf, pool)
    PROVE  /\ Others(p) /\ SameJob(p) /\ v'[p].instant = v[p].instant
           /\ v'[p].phase = (IF SelfIssued(leaf) THEN "anchor" ELSE "walk")
           /\ v'[p].role = role /\ v'[p].leaf = leaf /\ v'[p].pool = pool /\ v'[p].chain = <<>>
<1> DEFINE ph == IF SelfIssued(leaf) THEN "anchor" ELSE "walk"
           r == [v[p] EXCEPT !.phase = ph, !.role = role, !.leaf = leaf, !.pool = pool, !.chain = <<>>]
<1>1. v[p] \in Verification /\ ph \in Phases
  BY DEF Typed, Phases, Steps
<1> HIDE DEF ph
<1>2. r \in Verification
  <2> DEFINE empty == <<>>
  <2>1. empty \in Seq(Certs)
    OBVIOUS
  <2> HIDE DEF empty
  <2>2. [v[p] EXCEPT !.phase = ph, !.role = role, !.leaf = leaf, !.pool = pool, !.chain = empty]
          \in Verification
    BY <1>1, <2>1 DEF Verification
  <2> QED
    BY <2>2 DEF empty
<1>3. Others(p) /\ v'[p] = r
  <2> HIDE DEF r
  <2> QED
    BY <1>2, SetFacts DEF StartWalk, r, ph
<1>4. /\ r.phase = ph /\ r.role = role /\ r.leaf = leaf /\ r.pool = pool /\ r.chain = <<>>
      /\ r.file = v[p].file /\ r.opts = v[p].opts /\ r.started = v[p].started
      /\ r.entry = v[p].entry /\ r.anchors = v[p].anchors /\ r.anchorCerts = v[p].anchorCerts
      /\ r.instant = v[p].instant
  BY <1>1 DEF Verification
<1> HIDE DEF r
<1> QED
  BY <1>3, <1>4 DEF SameJob, ph
-----------------------------------------------------------------------------
(* The steps of one client keep its part of the invariant.                    *)
Base == CacheInv /\ revokedOn \in [Certs -> 0..Never] /\ Typed

(* What the step of a client on its own leaves alone.                         *)
LEMMA LocalFacts ==
    ASSUME Base, Local
    PROVE  /\ now' = now /\ skew' = skew /\ pc' = pc /\ got' = got /\ revokedOn' = revokedOn
           /\ CacheInv' /\ (revokedOn \in [Certs -> 0..Never])'
<1>1. UNCHANGED cacheVars /\ revokedOn' = revokedOn
  BY DEF Local
<1>2. CacheInv'
  BY <1>1, InvStep DEF Base
<1> QED
  BY <1>1, <1>2 DEF cacheVars, Base, Never

LEMMA Clock ==
    ASSUME Base, NEW p \in Clients, ClientInv(p)
    PROVE  /\ now \in Nat /\ wall \in Nat /\ Spread \in Nat /\ v[p].started \in Nat
           /\ now <= wall /\ wall \in Days(p) /\ v[p].started \in Days(p) /\ v[p].started <= now
           /\ Days(p) \subseteq Int
<1>1. now \in Nat /\ skew \in Nat /\ skew <= Spread /\ Spread \in Nat
  BY Types DEF Base, CacheInv
<1>2. v[p].started \in Nat /\ v[p].started <= now
  BY CacheAssumption DEF Base, Typed, Verification, Day, ClientInv, OnJob
<1> QED
  BY <1>1, <1>2 DEF wall, Days

LEMMA PhaseNames ==
    /\ Judging \subseteq Steps /\ "rejected" \in Steps /\ "rejected" \notin Judging
    /\ Walking \subseteq Judging /\ Anchored \subseteq Walking /\ Closing \subseteq Anchored
    /\ "entry" \notin Walking /\ "instant" \notin Walking /\ "tsa" \notin Walking
    /\ "signer" \notin Walking /\ "resolve" \notin Judging /\ "load" \notin Judging
    /\ None \notin Judging /\ Steps \subseteq Phases
BY NoneIsNoStep DEF Judging, Walking, Anchored, Closing, Steps, Phases

(* A verification that is turned down, when it is not an honest one.          *)
LEMMA RejectKeeps ==
    ASSUME Base, NEW p \in Clients, ClientInv(p), Reject(p), now' = now, v[p].phase # None,
           pc'[p] = "verify" => got'[p] \in Download,
           v[p].entry > 0 => ~Honest(p)
    PROVE  Others(p) /\ ClientInv(p)'
<1>1. /\ Others(p) /\ v'[p].phase = "rejected" /\ v'[p].chain = <<>>
      /\ v'[p].file = v[p].file /\ v'[p].opts = v[p].opts
      /\ v'[p].started = v[p].started /\ v'[p].entry = v[p].entry
  BY RejectFacts DEF Base
<1>2. Honest(p)' = Honest(p)
  BY <1>1, HonestFrame
<1>3. OnJob(p)'
  <2>1. Len(v'[p].chain) = 0 /\ 0 <= MaxChain
    BY <1>1, TrustAssumption
  <2> QED
    BY <1>1, <2>1 DEF OnJob, ClientInv
<1>4. v'[p].phase \notin Judging /\ v'[p].phase \notin Walking
  BY <1>1, PhaseNames
<1>5. Loaded(p)'
  BY <1>1, <1>4 DEF Loaded
<1>6. TokenWanted(p)' /\ OnTheWay(p)' /\ InTime(p)'
  BY <1>1, <1>4 DEF TokenWanted, AtToken, OnTheWay, InTime, AtSigner
<1>7. Unrevoked(p)'
  BY <1>1 DEF Unrevoked, Closing
<1>8. HonestWalk(p)'
  BY <1>1, <1>2 DEF HonestWalk
<1> QED
  BY <1>1, <1>3, <1>5, <1>6, <1>7, <1>8 DEF ClientInv

(* What is known of the job of a verification that goes on.                   *)
LEMMA JobKeeps ==
    ASSUME Base, NEW p \in Clients, ClientInv(p), SameJob(p), now' = now, pc' = pc, got' = got,
           v[p].phase \in Judging, v'[p].phase \in Judging, Len(v'[p].chain) <= MaxChain,
           Entry(p).digestMatches
    PROVE  OnJob(p)' /\ Loaded(p)'
<1>1. v[p].phase # None /\ v'[p].phase # None
  BY PhaseNames
<1>2. OnJob(p)'
  BY <1>1 DEF OnJob, ClientInv, SameJob
<1>3. /\ Entry(p)' = Entry(p) /\ Opts(p)' = Opts(p) /\ Artifact(p)' = Artifact(p)
      /\ GivenTo(p)' = GivenTo(p)
  BY JobFrame DEF SameJob
<1>4. Vouchers(p)' = Vouchers(p)
  BY <1>3 DEF Vouchers, SameJob
<1>5. v'[p].phase \notin {"resolve", "load"}
  BY PhaseNames
<1> QED
  BY <1>2, <1>3, <1>4, <1>5 DEF Loaded, ClientInv, SameJob

(* The certificates and options of a verification under way.                  *)
LEMMA JudgingTypes ==
    ASSUME Base, NEW p \in Clients, ClientInv(p), v[p].phase \in Judging
    PROVE  /\ Entry(p) \in SignatureType /\ Opts(p) \in OptionsType /\ v[p].file \in FileType
           /\ Token(p) # None => Token(p) \in TokenType
           /\ v[p] \in Verification /\ v[p].phase # None /\ v[p].entry > 0
<1>1. v[p].phase # None
  BY PhaseNames
<1>2. v[p].entry \in 1..Len(v[p].file.entries) /\ OnJob(p)
  BY DEF ClientInv, Loaded
<1>3. v[p].file \in FileType /\ v[p].opts \in OptionsType
  BY <1>1, <1>2, JobTypes
<1>4. Len(v[p].file.entries) \in Nat
  BY <1>3 DEF FileType
<1> QED
  BY <1>1, <1>2, <1>3, <1>4, EntryTypes DEF Opts, Base, Typed

LEMMA WalkingTypes ==
    ASSUME Base, NEW p \in Clients, ClientInv(p), v[p].phase \in Walking
    PROVE  v[p].leaf \in Certs /\ v[p].chain \in Seq(Certs) /\ v[p].pool \in Seq(Certs)
<1>1. v[p].phase \in Judging
  BY PhaseNames
<1>2. /\ Entry(p) \in SignatureType /\ v[p] \in Verification
      /\ Token(p) # None => Token(p) \in TokenType
  BY <1>1, JudgingTypes
<1>3. CASE v[p].role = "tsa"
  BY <1>2, <1>3 DEF ClientInv, OnTheWay, TokenWanted, AtToken, Verification, TokenType
<1>4. CASE v[p].role = "signer"
  BY <1>2, <1>4 DEF ClientInv, OnTheWay, Verification, SignatureType
<1> QED
  BY <1>2, <1>3, <1>4 DEF Verification

(* What an honest signature has.                                              *)
LEMMA HonestFacts ==
    ASSUME NEW p \in Clients, Honest(p)
    PROVE  /\ Opts(p).anchors # {} /\ ~Artifact(p) /\ Opts(p).revocation = "off"
           /\ ~Opts(p).preferTimestamp /\ Opts(p).asOf = None
           /\ Entry(p).digestMatches /\ Entry(p).signatureVerifies
           /\ has_code_signing_eku(Entry(p).leaf)
           /\ Entry(p).leaf \in GivenTo(p) => SelfIssued(Entry(p).leaf)
           /\ \A c, d \in AtHand(p) : X509[c].subject = X509[d].subject => c = d
           /\ \A day \in Days(p) : \E n \in 1..(MaxChain + 1) : \E path \in [1..n -> AtHand(p)] :
                 GoodPath(p, AtHand(p), GivenTo(p), day, path)
BY DEF Honest, Opts, Artifact, AtHand, GivenTo

LEMMA GoodPathIsNamePath ==
    ASSUME NEW p \in Clients, NEW day, NEW n \in Nat \ {0}, NEW path \in [1..n -> AtHand(p)],
           GoodPath(p, AtHand(p), GivenTo(p), day, path)
    PROVE  NamePath(p, n, path)
<1>1. Len(path) = n
  OBVIOUS
<1> QED
  BY <1>1 DEF GoodPath, NamePath

(* Where names are unique, a path does not leave a self-issued certificate:   *)
(* it ends in it.                                                             *)
LEMMA PathStays ==
    ASSUME NEW p \in Clients, NEW n \in Nat \ {0}, NEW path \in [1..n -> AtHand(p)],
           \A c, d \in AtHand(p) : X509[c].subject = X509[d].subject => c = d,
           NamePath(p, n, path), NEW k \in 1..n, SelfIssued(path[k])
    PROVE  path[k] \in GivenTo(p)
<1> DEFINE Bad == {i \in k..n : path[i] # path[k]}
<1>1. Bad = {}
  <2> SUFFICES ASSUME Bad # {} PROVE FALSE
    OBVIOUS
  <2>1. PICK i \in Bad : \A j \in Bad : i <= j
    <3>1. Bad \subseteq Nat
      OBVIOUS
    <3> HIDE DEF Bad
    <3> QED
      BY <3>1, LeastElement
  <2>2. i \in k..n /\ path[i] # path[k] /\ i # k
    BY <2>1
  <2>3. i - 1 \in k..n /\ i - 1 \in 1..(n - 1) /\ (i - 1) + 1 = i /\ ~(i <= i - 1) /\ i \in 1..n
        /\ i - 1 \in 1..n
    BY <2>2
  <2>4. path[i - 1] = path[k]
    <3>1. i - 1 \notin Bad
      <4> HIDE DEF Bad
      <4> QED
        BY <2>1, <2>3
    <3> QED
      BY <2>3, <3>1
  <2>5. X509[path[i - 1]].issuer = X509[path[i]].subject
    BY <2>3 DEF NamePath
  <2>6. X509[path[i]].subject = X509[path[k]].subject
    BY <2>4, <2>5 DEF SelfIssued
  <2>7. path[i] \in AtHand(p) /\ path[k] \in AtHand(p)
    BY <2>3
  <2> QED
    BY <2>2, <2>6, <2>7
<1>2. n \in k..n
  OBVIOUS
<1>3. path[n] = path[k]
  BY <1>1, <1>2
<1> QED
  BY <1>3 DEF NamePath

(* For an honest signature, the anchors of the signer are the ones given.     *)
LEMMA HonestAnchors ==
    ASSUME Base, NEW p \in Clients, ClientInv(p), v[p].phase \in Judging, ~Artifact(p),
           Opts(p).anchors # {}
    PROVE  SignerAnchors(p) = GivenTo(p) /\ Range(SignerCerts(p)) = GivenTo(p)
<1>1. v[p].anchors = Vouchers(p) /\ Range(v[p].anchorCerts) = GivenTo(p)
  BY DEF ClientInv, Loaded
<1>2. Vouchers(p) = GivenTo(p)
  BY DEF Vouchers, GivenTo, Opts
<1> QED
  BY <1>1, <1>2 DEF SignerAnchors, SignerCerts

(* Where no walk is under way there is little to keep.                        *)
LEMMA QuietKeeps ==
    ASSUME NEW p \in Clients, OnJob(p)', Loaded(p)',
           v'[p].phase \in {"resolve", "load", "entry", "instant"}
    PROVE  ClientInv(p)'
<1>1. v'[p].phase \notin Walking
  BY DEF Walking, Anchored, Closing
<1>2. TokenWanted(p)' /\ OnTheWay(p)' /\ InTime(p)'
  BY <1>1 DEF TokenWanted, AtToken, OnTheWay, InTime, AtSigner
<1>3. Unrevoked(p)'
  BY DEF Unrevoked, Closing
<1>4. HonestWalk(p)'
  BY DEF HonestWalk
<1> QED
  BY <1>2, <1>3, <1>4 DEF ClientInv

LEMMA CheckDigestKeeps ==
    ASSUME Base, NEW p \in Clients, ClientInv(p), CheckDigest(p)
    PROVE  Others(p) /\ ClientInv(p)'
<1>1. v[p].phase = "entry" /\ v[p].phase \in Judging /\ v[p].phase # None
  BY NoneIsNoStep DEF CheckDigest, At, Judging, Steps
<1>2. now' = now /\ pc' = pc /\ got' = got
  BY LocalFacts DEF CheckDigest
<1>3. CASE Entry(p).digestMatches /\ (Artifact(p) => checked_identity(p))
  <2>1. Become(p, "instant") /\ "instant" \in Phases /\ "instant" \in Judging
    BY <1>3 DEF CheckDigest, Phases, Steps, Judging
  <2>2. Others(p) /\ v'[p].phase = "instant" /\ SameJob(p) /\ SameWalk(p)
    BY <2>1, BecomeFacts DEF Base
  <2>3. Len(v'[p].chain) <= MaxChain
    BY <2>2 DEF SameWalk, ClientInv, OnJob
  <2>4. OnJob(p)' /\ Loaded(p)'
    BY <1>1, <1>2, <1>3, <2>1, <2>2, <2>3, JobKeeps
  <2> QED
    BY <2>2, <2>4, QuietKeeps
<1>4. CASE ~(Entry(p).digestMatches /\ (Artifact(p) => checked_identity(p)))
  <2>1. Reject(p)
    BY <1>4 DEF CheckDigest
  <2>2. ~Honest(p)
    BY <1>4, HonestFacts
  <2>3. pc'[p] = "verify" => got'[p] \in Download
    BY <1>2 DEF ClientInv, Loaded
  <2> QED
    BY <1>1, <1>2, <2>1, <2>2, <2>3, RejectKeeps
<1> QED
  BY <1>3, <1>4

(* The ways an instant is chosen, of all the formats and policies.            *)
LEMMA ChooseFacts ==
    ASSUME Base, NEW p \in Clients, ClientInv(p), ChooseInstant(p)
    PROVE  \/ \E day \in Int :
                 /\ Judged(p, day)
                 /\ Opts(p).asOf = None =>
                       ~Insists(p) /\ (~Artifact(p) /\ ~Opts(p).preferTimestamp => day = wall)
           \/ Become(p, "tsa") /\ Token(p) # None /\ (~Artifact(p) => Opts(p).preferTimestamp)
           \/ Reject(p) /\ (Artifact(p) \/ Opts(p).preferTimestamp)
<1>1. v[p].phase \in Judging
  BY DEF ChooseInstant, At, Judging
<1>2. /\ Opts(p) \in OptionsType /\ Entry(p) \in SignatureType
      /\ Token(p) # None => Token(p) \in TokenType
  BY <1>1, JudgingTypes
<1>3. wall \in Int
  BY Clock
<1>4. CASE Opts(p).asOf # None
  BY <1>2, <1>4 DEF ChooseInstant, OptionsType
<1>5. CASE Opts(p).asOf = None /\ Artifact(p)
  BY <1>3, <1>5 DEF ChooseInstant, artifact_signing_instant, Insists, HasToken
<1>6. CASE Opts(p).asOf = None /\ ~Artifact(p) /\ Vsix(p)
  BY <1>3, <1>6 DEF ChooseInstant, vsix_instant, Insists, HasToken
<1>7. CASE Opts(p).asOf = None /\ ~Artifact(p) /\ ~Vsix(p)
  <2>1. Token(p) # None => Token(p).time \in Int
    BY <1>2 DEF TokenType
  <2>2. SigningTime(p) # None => SigningTime(p) \in Int
    BY <1>2 DEF SigningTime, SignatureType
  <2> QED
    BY <1>3, <1>7, <2>1, <2>2
    DEF ChooseInstant, resolve_verification_instant_for_pkcs7_with_trust, Insists, HasToken
<1> QED
  BY <1>4, <1>5, <1>6, <1>7

(* What a signature without a walk under way has to keep: its instant.        *)
LEMMA SignerKeeps ==
    ASSUME NEW p \in Clients, OnJob(p)', Loaded(p)', InTime(p)', v'[p].phase = "signer"
    PROVE  ClientInv(p)'
<1>1. v'[p].phase \notin Walking
  BY PhaseNames
<1>2. TokenWanted(p)' /\ OnTheWay(p)'
  BY <1>1 DEF TokenWanted, AtToken, OnTheWay
<1>3. Unrevoked(p)'
  BY DEF Unrevoked, Closing
<1>4. HonestWalk(p)'
  BY DEF HonestWalk
<1> QED
  BY <1>2, <1>3, <1>4 DEF ClientInv

LEMMA ChooseInstantKeeps ==
    ASSUME Base, NEW p \in Clients, ClientInv(p), ChooseInstant(p)
    PROVE  Others(p) /\ ClientInv(p)'
<1>1. v[p].phase = "instant" /\ v[p].phase \in Judging /\ v[p].phase # None
  BY NoneIsNoStep DEF ChooseInstant, At, Judging, Steps
<1>2. now' = now /\ pc' = pc /\ got' = got
  BY LocalFacts DEF ChooseInstant
<1>3. Entry(p).digestMatches /\ Len(v[p].chain) <= MaxChain
  BY <1>1 DEF ClientInv, Loaded, OnJob
<1>4. ASSUME NEW day \in Int, Judged(p, day),
             Opts(p).asOf = None =>
                 ~Insists(p) /\ (~Artifact(p) /\ ~Opts(p).preferTimestamp => day = wall)
      PROVE  Others(p) /\ ClientInv(p)'
  <2>1. Others(p) /\ v'[p].phase = "signer" /\ v'[p].instant = day /\ SameJob(p) /\ SameWalk(p)
    BY <1>4, JudgedFacts DEF Base
  <2>2. OnJob(p)' /\ Loaded(p)'
    BY <1>1, <1>2, <1>3, <2>1, JobKeeps DEF SameWalk, Judging
  <2>3. /\ Opts(p)' = Opts(p) /\ Artifact(p)' = Artifact(p) /\ Insists(p)' = Insists(p)
    BY <2>1, JobFrame DEF SameJob
  <2>4. Days(p)' = Days(p) /\ wall \in Days(p)
    BY <1>2, <2>1, Clock DEF SameJob, Days
  <2>5. InTime(p)'
    BY <1>4, <2>1, <2>3, <2>4 DEF InTime
  <2> QED
    BY <2>1, <2>2, <2>5, SignerKeeps
<1>5. ASSUME Become(p, "tsa"), Token(p) # None, ~Artifact(p) => Opts(p).preferTimestamp
      PROVE  Others(p) /\ ClientInv(p)'
  <2>1. "tsa" \in Phases /\ "tsa" \in Judging
    BY DEF Phases, Steps, Judging
  <2>2. Others(p) /\ v'[p].phase = "tsa" /\ SameJob(p) /\ SameWalk(p)
    BY <1>5, <2>1, BecomeFacts DEF Base
  <2>3. OnJob(p)' /\ Loaded(p)'
    BY <1>1, <1>2, <1>3, <2>1, <2>2, JobKeeps DEF SameWalk
  <2>4. Opts(p)' = Opts(p) /\ Artifact(p)' = Artifact(p) /\ Token(p)' = Token(p)
    BY <2>2, JobFrame DEF SameJob
  <2>5. Honest(p)' = Honest(p)
    BY <1>2, <2>2, HonestFrame DEF SameJob
  <2>6. ~Honest(p)
    BY <1>5, HonestFacts
  <2>7. TokenWanted(p)'
    BY <1>5, <2>4 DEF TokenWanted
  <2>8. OnTheWay(p)' /\ InTime(p)' /\ Unrevoked(p)' /\ HonestWalk(p)'
    BY <2>2, <2>5, <2>6, PhaseNames DEF OnTheWay, InTime, AtSigner, Unrevoked, HonestWalk, Closing
  <2> QED
    BY <2>2, <2>3, <2>7, <2>8 DEF ClientInv
<1>6. ASSUME Reject(p), Artifact(p) \/ Opts(p).preferTimestamp
      PROVE  Others(p) /\ ClientInv(p)'
  <2>1. ~Honest(p)
    BY <1>6, HonestFacts
  <2>2. pc'[p] = "verify" => got'[p] \in Download
    BY <1>2 DEF ClientInv, Loaded
  <2> QED
    BY <1>1, <1>2, <1>6, <2>1, <2>2, RejectKeeps
<1> QED
  BY <1>4, <1>5, <1>6, ChooseFacts

LEMMA EmbeddedCerts ==
    ASSUME NEW s \in Seq(Certs \cup {None})
    PROVE  embedded_certs(s) \in Seq(Certs)
<1> DEFINE I == {i \in DOMAIN s : s[i] \in Certs}
           u == Keep(s, I)
<1>1. u \in Seq(Certs \cup {None}) /\ Range(u) = {s[j] : j \in I \cap DOMAIN s}
  <2> HIDE DEF I
  <2> QED
    BY KeepFacts
<1>2. \A i \in 1..Len(u) : u[i] \in Range(u)
  <2> HIDE DEF u
  <2> QED
    BY <1>1 DEF Range
<1>3. u \in Seq(Certs)
  <2>1. \A i \in 1..Len(u) : u[i] \in Certs
    <3> HIDE DEF u
    <3> QED
      BY <1>1, <1>2
  <2> HIDE DEF u
  <2> QED
    BY <1>1, <2>1
<1> QED
  BY <1>3 DEF embedded_certs

LEMMA ConcatFacts ==
    ASSUME NEW s \in Seq(Certs), NEW t \in Seq(Certs)
    PROVE  s \o t \in Seq(Certs) /\ Range(s \o t) = Range(s) \cup Range(t)
<1> DEFINE w == s \o t
<1>1. /\ w \in Seq(Certs) /\ DOMAIN w = 1..(Len(s) + Len(t))
      /\ DOMAIN s = 1..Len(s) /\ DOMAIN t = 1..Len(t) /\ Len(s) \in Nat /\ Len(t) \in Nat
      /\ \A i \in 1..(Len(s) + Len(t)) : w[i] = IF i <= Len(s) THEN s[i] ELSE t[i - Len(s)]
  OBVIOUS
<1> HIDE DEF w
<1>2. ASSUME NEW i \in DOMAIN w PROVE w[i] \in Range(s) \cup Range(t)
  <2>1. CASE i <= Len(s)
    BY <1>1, <2>1 DEF Range
  <2>2. CASE ~(i <= Len(s))
    <3>1. i - Len(s) \in DOMAIN t /\ w[i] = t[i - Len(s)]
      BY <1>1, <2>2
    <3> QED
      BY <3>1 DEF Range
  <2> QED
    BY <2>1, <2>2
<1>3. ASSUME NEW i \in DOMAIN s PROVE s[i] \in Range(w)
  <2>1. i \in DOMAIN w /\ w[i] = s[i]
    BY <1>1
  <2> QED
    BY <2>1 DEF Range
<1>4. ASSUME NEW i \in DOMAIN t PROVE t[i] \in Range(w)
  <2>1. i + Len(s) \in DOMAIN w /\ w[i + Len(s)] = t[i]
    BY <1>1
  <2> QED
    BY <2>1 DEF Range
<1>5. Range(w) = Range(s) \cup Range(t)
  BY <1>2, <1>3, <1>4 DEF Range
<1> QED
  BY <1>1, <1>5 DEF w

LEMMA MergeFacts ==
    ASSUME NEW s \in Seq(Certs), NEW t \in Seq(Certs)
    PROVE  /\ merge_unique_certs(s, t) \in Seq(Certs)
           /\ Range(merge_unique_certs(s, t)) = Range(s) \cup Range(t)
<1> DEFINE I == {i \in DOMAIN t : t[i] \notin Range(s)}
           u == Keep(t, I)
<1>1. u \in Seq(Certs) /\ Range(u) = {t[j] : j \in I \cap DOMAIN t}
  <2> HIDE DEF I
  <2> QED
    BY KeepFacts
<1>2. {t[j] : j \in I \cap DOMAIN t} \cup Range(s) = Range(t) \cup Range(s)
  BY DEF Range
<1> HIDE DEF u
<1>3. s \o u \in Seq(Certs) /\ Range(s \o u) = Range(s) \cup Range(u)
  BY <1>1, ConcatFacts
<1> QED
  BY <1>1, <1>2, <1>3 DEF merge_unique_certs, u

(* The pool of the signer holds the anchors and what the signature embeds.    *)
LEMMA SignerPoolFacts ==
    ASSUME Base, NEW p \in Clients, ClientInv(p), v[p].phase \in Judging
    PROVE  /\ SignerPool(p) \in Seq(Certs)
           /\ ~Artifact(p) /\ Opts(p).anchors # {} => Range(SignerPool(p)) = AtHand(p)
<1>1. Entry(p) \in SignatureType /\ Opts(p) \in OptionsType /\ v[p] \in Verification
  BY JudgingTypes
<1>2. embedded_certs(Entry(p).embedded) \in Seq(Certs)
  BY <1>1, EmbeddedCerts DEF SignatureType
<1>3. SignerCerts(p) \in Seq(Certs)
  <2>1. CASE ~Artifact(p)
    BY <1>1, <2>1 DEF SignerCerts, Verification
  <2>2. CASE Artifact(p)
    <3>1. Opts(p).artifact \in PolicyType
      BY <1>1, <2>2 DEF Artifact, OptionsType
    <3>2. SignerAnchors(p) \subseteq Certs
      BY <2>2, <3>1, TrustAssumption DEF SignerAnchors, PolicyType
    <3>3. IsFiniteSet(SignerAnchors(p))
      BY <3>2, TrustAssumption, FS_Subset
    <3>4. SetToSeq(SignerAnchors(p)) \in Seq(SignerAnchors(p))
      BY <3>3, SetToSeqFacts
    <3>5. SetToSeq(SignerAnchors(p)) \in Seq(Certs)
      BY <3>2, <3>4
    <3> QED
      BY <2>2, <3>5 DEF SignerCerts
  <2> QED
    BY <2>1, <2>2
<1>4. /\ SignerPool(p) \in Seq(Certs)
      /\ Range(SignerPool(p)) =
             Range(embedded_certs(Entry(p).embedded)) \cup Range(SignerCerts(p))
  <2> DEFINE s == embedded_certs(Entry(p).embedded)
             t == SignerCerts(p)
  <2>1. s \in Seq(Certs) /\ t \in Seq(Certs)
    BY <1>2, <1>3
  <2>2. SignerPool(p) \in {merge_unique_certs(s, t), merge_unique_certs(t, s)}
    BY DEF SignerPool
  <2> HIDE DEF s, t
  <2>3. SignerPool(p) \in Seq(Certs) /\ Range(SignerPool(p)) = Range(s) \cup Range(t)
    BY <2>1, <2>2, MergeFacts
  <2> QED
    BY <2>3 DEF s, t
<1> QED
  BY <1>4, HonestAnchors DEF AtHand

LEMMA VerifyTokenKeeps ==
    ASSUME Base, NEW p \in Clients, ClientInv(p), VerifyToken(p)
    PROVE  Others(p) /\ ClientInv(p)'
<1>1. v[p].phase = "tsa" /\ v[p].phase \in Judging /\ v[p].phase # None
  BY NoneIsNoStep DEF VerifyToken, At, Judging, Steps
<1>2. now' = now /\ pc' = pc /\ got' = got
  BY LocalFacts DEF VerifyToken
<1>3. ~Honest(p)
  BY <1>1, JudgingTypes DEF ClientInv, HonestWalk
<1>4. CASE ~token_is_genuine(p)
  <2>1. Reject(p)
    BY <1>4 DEF VerifyToken
  <2>2. pc'[p] = "verify" => got'[p] \in Download
    BY <1>2 DEF ClientInv, Loaded
  <2> QED
    BY <1>1, <1>2, <1>3, <2>1, <2>2, RejectKeeps
<1>5. CASE token_is_genuine(p)
  <2> DEFINE pool == merge_unique_certs(v[p].anchorCerts, embedded_certs(Token(p).embedded))
  <2>1. Token(p) # None /\ (~Artifact(p) => Opts(p).preferTimestamp)
    BY <1>1 DEF ClientInv, TokenWanted, AtToken
  <2>2. Token(p) \in TokenType /\ v[p] \in Verification
    BY <1>1, <2>1, JudgingTypes
  <2>3. Token(p).leaf \in Certs /\ embedded_certs(Token(p).embedded) \in Seq(Certs)
    BY <2>2, EmbeddedCerts DEF TokenType
  <2>4. pool \in Seq(Certs)
    BY <2>2, <2>3, MergeFacts DEF Verification
  <2>5. StartWalk(p, "tsa", Token(p).leaf, pool)
    BY <1>5 DEF VerifyToken
  <2> HIDE DEF pool
  <2>6. /\ Others(p) /\ SameJob(p) /\ v'[p].instant = v[p].instant
        /\ v'[p].phase \in {"anchor", "walk"}
        /\ v'[p].role = "tsa" /\ v'[p].leaf = Token(p).leaf /\ v'[p].chain = <<>>
    BY <2>3, <2>4, <2>5, StartWalkFacts DEF Base
  <2>7. Len(v'[p].chain) = 0 /\ 0 <= MaxChain
    BY <2>6, TrustAssumption
  <2>8. v'[p].phase \in Walking /\ v'[p].phase \in Judging /\ v'[p].phase \notin Anchored
        /\ v'[p].phase \notin Closing
    BY <2>6 DEF Walking, Judging, Anchored, Closing
  <2>9. Entry(p).digestMatches
    BY <1>1 DEF ClientInv, Loaded
  <2>10. OnJob(p)' /\ Loaded(p)'
    BY <1>1, <1>2, <2>6, <2>7, <2>8, <2>9, JobKeeps
  <2>11. /\ Opts(p)' = Opts(p) /\ Artifact(p)' = Artifact(p) /\ Token(p)' = Token(p)
         /\ token_is_genuine(p)' = token_is_genuine(p)
    BY <2>6, JobFrame DEF SameJob
  <2>12. Honest(p)' = Honest(p)
    BY <1>2, <2>6, HonestFrame DEF SameJob
  <2>13. Linked(p)'
    BY <2>7 DEF Linked
  <2>14. TokenWanted(p)'
    BY <2>1, <2>11 DEF TokenWanted
  <2>15. OnTheWay(p)'
    BY <1>5, <2>6, <2>8, <2>11, <2>13 DEF OnTheWay
  <2>16. InTime(p)' /\ Unrevoked(p)' /\ HonestWalk(p)'
    BY <1>3, <2>6, <2>8, <2>12 DEF InTime, AtSigner, Unrevoked, HonestWalk
  <2> QED
    BY <2>6, <2>10, <2>14, <2>15, <2>16 DEF ClientInv
<1> QED
  BY <1>4, <1>5

LEMMA VerifySignerKeeps ==
    ASSUME Base, NEW p \in Clients, ClientInv(p), VerifySigner(p)
    PROVE  Others(p) /\ ClientInv(p)'
<1>1. v[p].phase = "signer" /\ v[p].phase \in Judging /\ v[p].phase # None
  BY NoneIsNoStep DEF VerifySigner, At, Judging, Steps
<1>2. now' = now /\ pc' = pc /\ got' = got
  BY LocalFacts DEF VerifySigner
<1>3. Entry(p) \in SignatureType
  BY <1>1, JudgingTypes
<1> DEFINE sound == /\ Entry(p).signatureVerifies
                    /\ StrictEku(p) => has_code_signing_eku(Entry(p).leaf)
                    /\ SignerAnchors(p) # {}
<1>4. CASE ~sound
  <2>1. Reject(p)
    BY <1>4 DEF VerifySigner
  <2>2. ~Honest(p)
    <3> SUFFICES ASSUME Honest(p) PROVE FALSE
      OBVIOUS
    <3>1. SignerAnchors(p) = GivenTo(p)
      BY <1>1, HonestFacts, HonestAnchors
    <3> QED
      BY <1>4, <3>1, HonestFacts DEF GivenTo, Opts
  <2>3. pc'[p] = "verify" => got'[p] \in Download
    BY <1>2 DEF ClientInv, Loaded
  <2> QED
    BY <1>1, <1>2, <2>1, <2>2, <2>3, RejectKeeps
<1>5. CASE sound
  <2> DEFINE leaf == Entry(p).leaf
  <2>1. leaf \in Certs /\ SignerPool(p) \in Seq(Certs)
    BY <1>1, <1>3, SignerPoolFacts DEF SignatureType
  <2>2. StartWalk(p, "signer", leaf, SignerPool(p)) /\ Entry(p).signatureVerifies
    BY <1>5 DEF VerifySigner
  <2> HIDE DEF sound
  <2>3. /\ Others(p) /\ SameJob(p) /\ v'[p].instant = v[p].instant
        /\ v'[p].phase = IF SelfIssued(leaf) THEN "anchor" ELSE "walk"
        /\ v'[p].role = "signer" /\ v'[p].leaf = leaf /\ v'[p].chain = <<>>
        /\ v'[p].pool = SignerPool(p)
    BY <2>1, <2>2, StartWalkFacts DEF Base
  <2>4. Len(v'[p].chain) = 0 /\ 0 <= MaxChain
    BY <2>3, TrustAssumption
  <2>5. v'[p].phase \in Walking /\ v'[p].phase \in Judging /\ v'[p].phase \notin Anchored
        /\ v'[p].phase \notin Closing /\ v'[p].phase \in {"anchor", "walk"}
    BY <2>3 DEF Walking, Judging, Anchored, Closing
  <2>6. Entry(p).digestMatches
    BY <1>1 DEF ClientInv, Loaded
  <2>7. OnJob(p)' /\ Loaded(p)'
    BY <1>1, <1>2, <2>3, <2>4, <2>5, <2>6, JobKeeps
  <2>8. /\ Opts(p)' = Opts(p) /\ Artifact(p)' = Artifact(p) /\ Token(p)' = Token(p)
        /\ Entry(p)' = Entry(p) /\ Insists(p)' = Insists(p)
        /\ GivenTo(p)' = GivenTo(p) /\ AtHand(p)' = AtHand(p)
    BY <2>3, JobFrame DEF SameJob
  <2>9. Honest(p)' = Honest(p) /\ Days(p)' = Days(p)
    BY <1>2, <2>3, HonestFrame DEF SameJob
  <2>10. Linked(p)'
    BY <2>4 DEF Linked
  <2>11. OnTheWay(p)' /\ TokenWanted(p)'
    BY <2>2, <2>3, <2>5, <2>8, <2>10 DEF OnTheWay, TokenWanted, AtToken
  <2>12. InTime(p)'
    <3>1. TokenHolds(p)' = TokenHolds(p)
      BY <2>3, <2>8 DEF TokenHolds, SameJob
    <3> QED
      BY <1>1, <2>3, <2>8, <2>9, <3>1 DEF InTime, AtSigner, ClientInv
  <2>13. Unrevoked(p)'
    BY <2>5 DEF Unrevoked
  <2>14. Path(p)' = <<leaf>> /\ Len(<<leaf>>) = 1 /\ <<leaf>>[1] = leaf /\ Current(p)' = leaf
    <3>1. Path(p)' = <<leaf>>
      BY <2>3 DEF Path
    <3> QED
      BY <3>1 DEF Current, Last
  <2>15. ASSUME Honest(p) PROVE HonestWalk(p)'
    <3>1. Range(v'[p].pool) = AtHand(p)
      BY <1>1, <2>3, <2>15, HonestFacts, SignerPoolFacts
    <3>2. Follows(p)'
      <4>1. ASSUME NEW n \in 1..(MaxChain + 1), NEW path \in [1..n -> AtHand(p)],
                   NamePath(p, n, path)'
            PROVE  Len(<<leaf>>) <= n /\ \A i \in 1..Len(<<leaf>>) : <<leaf>>[i] = path[i]
        BY <2>8, <2>14, <4>1 DEF NamePath
      <4> QED
        BY <2>8, <2>14, <4>1 DEF Follows
    <3>3. v'[p].phase = "walk" => ~SelfIssued(leaf) /\ leaf \notin GivenTo(p)
      BY <2>3, <2>15, HonestFacts
    <3>4. v'[p].phase = "anchor" => leaf \in GivenTo(p)
      <4> SUFFICES ASSUME SelfIssued(leaf) PROVE leaf \in GivenTo(p)
        BY <2>3
      <4>1. v[p].started \in Days(p)
        BY Clock
      <4>2. PICK n \in 1..(MaxChain + 1) : \E path \in [1..n -> AtHand(p)] :
                GoodPath(p, AtHand(p), GivenTo(p), v[p].started, path)
        BY <2>15, <4>1, HonestFacts
      <4>3. PICK path \in [1..n -> AtHand(p)] :
                GoodPath(p, AtHand(p), GivenTo(p), v[p].started, path)
        BY <4>2
      <4>4. n \in Nat \ {0} /\ 1 \in 1..n
        BY <4>2
      <4>5. NamePath(p, n, path)
        BY <4>3, <4>4, GoodPathIsNamePath
      <4>6. path[1] = leaf
        BY <4>5 DEF NamePath
      <4> QED
        BY <2>15, <4>4, <4>5, <4>6, HonestFacts, PathStays
    <3> QED
      BY <2>3, <2>5, <2>8, <2>14, <3>1, <3>2, <3>3, <3>4 DEF HonestWalk
  <2>16. HonestWalk(p)'
    BY <2>9, <2>15 DEF HonestWalk
  <2> QED
    BY <2>3, <2>7, <2>11, <2>12, <2>13, <2>16 DEF ClientInv
<1> QED
  BY <1>4, <1>5
-----------------------------------------------------------------------------
(* The walk.                                                                  *)

(* A step along the walk of the same signature.                               *)
LEMMA WalkKeeps ==
    ASSUME Base, NEW p \in Clients, ClientInv(p), SameJob(p), v'[p].instant = v[p].instant,
           v'[p].role = v[p].role, v'[p].leaf = v[p].leaf,
           now' = now, pc' = pc, got' = got, v[p].phase \in Walking, v'[p].phase \in Walking,
           Len(v'[p].chain) <= MaxChain, Linked(p)',
           v'[p].phase \in Anchored => (Current(p) \in Anchors(p))',
           v'[p].phase \in Closing =>
              v[p].role = "signer" /\ (AnchoredSigner(p) \/ ChainVerifies(p, v[p].instant))',
           Unrevoked(p)', Honest(p) => HonestWalk(p)'
    PROVE  ClientInv(p)'
<1>1. v[p].phase \in Judging /\ v'[p].phase \in Judging /\ v[p].phase # "entry"
  BY PhaseNames
<1>2. OnJob(p)' /\ Loaded(p)'
  BY <1>1, JobKeeps DEF ClientInv, Loaded
<1>3. /\ Opts(p)' = Opts(p) /\ Artifact(p)' = Artifact(p) /\ Token(p)' = Token(p)
      /\ Entry(p)' = Entry(p) /\ Insists(p)' = Insists(p)
      /\ token_is_genuine(p)' = token_is_genuine(p)
  BY JobFrame DEF SameJob
<1>4. Honest(p)' = Honest(p) /\ Days(p)' = Days(p)
  BY HonestFrame DEF SameJob
<1>5. TokenWanted(p)'
  BY <1>3, PhaseNames DEF TokenWanted, AtToken, ClientInv
<1>6. OnTheWay(p)'
  BY <1>3 DEF OnTheWay, ClientInv
<1>7. InTime(p)'
  <2>1. TokenHolds(p)' = TokenHolds(p)
    BY <1>3 DEF TokenHolds, SameJob
  <2>2. AtSigner(p)' => AtSigner(p)
    BY PhaseNames DEF AtSigner
  <2> QED
    BY <1>3, <1>4, <2>1, <2>2 DEF InTime, ClientInv
<1>8. HonestWalk(p)'
  BY <1>4 DEF HonestWalk
<1> QED
  BY <1>2, <1>5, <1>6, <1>7, <1>8 DEF ClientInv

(* The same, when nothing of the walk changes but where it stands.            *)
LEMMA StayKeeps ==
    ASSUME Base, NEW p \in Clients, ClientInv(p), SameJob(p), SameWalk(p),
           v'[p].instant = v[p].instant,
           now' = now, pc' = pc, got' = got, v[p].phase \in Walking, v'[p].phase \in Walking,
           v'[p].phase \in Anchored => Current(p) \in Anchors(p),
           v'[p].phase \in Closing =>
              v[p].role = "signer" /\ (AnchoredSigner(p) \/ ChainVerifies(p, v[p].instant)),
           Unrevoked(p)', Honest(p) => HonestWalk(p)'
    PROVE  ClientInv(p)'
<1>1. /\ Path(p)' = Path(p) /\ Current(p)' = Current(p) /\ Linked(p)' = Linked(p)
      /\ Anchors(p)' = Anchors(p) /\ AnchoredSigner(p)' = AnchoredSigner(p)
  BY WalkFrame
<1>2. ChainVerifies(p, v[p].instant)' = ChainVerifies(p, v[p].instant)
  BY <1>1 DEF ChainVerifies, SameWalk
<1>3. Linked(p)'
  BY <1>1 DEF ClientInv, OnTheWay
<1>4. Len(v'[p].chain) <= MaxChain
  BY DEF ClientInv, OnJob, SameWalk
<1> QED
  BY <1>1, <1>2, <1>3, <1>4, WalkKeeps DEF SameWalk

(* The first certificate of the pool with the name of the issuer.             *)
LEMMA IssuerFacts ==
    ASSUME NEW pool \in Seq(Certs), NEW c \in Certs, Issuers(pool, c) # {}
    PROVE  /\ Issuer(pool, c) \in Certs /\ Issuer(pool, c) \in Range(pool)
           /\ X509[Issuer(pool, c)].subject = X509[c].issuer
<1>1. Issuers(pool, c) \subseteq Nat
  BY DEF Issuers
<1>2. Min(Issuers(pool, c)) \in Issuers(pool, c)
  BY <1>1, MinIsFirst
<1> DEFINE i == Min(Issuers(pool, c))
<1> HIDE DEF i
<1>3. i \in DOMAIN pool /\ X509[pool[i]].subject = X509[c].issuer
  BY <1>2 DEF i, Issuers
<1>4. pool[i] \in Certs /\ pool[i] \in Range(pool)
  BY <1>3 DEF Range
<1> QED
  BY <1>3, <1>4 DEF Issuer, i

(* An honest walk goes on, to the next certificate of every path of names.    *)
LEMMA WalkOn ==
    ASSUME Base, NEW p \in Clients, ClientInv(p), v[p].phase = "walk", Honest(p),
           NEW n \in 1..(MaxChain + 1), NEW path \in [1..n -> AtHand(p)], NamePath(p, n, path)
    PROVE  /\ Issuers(v[p].pool, Current(p)) # {}
           /\ Len(v[p].chain) < MaxChain
           /\ Len(Path(p)) + 1 <= n
           /\ Issuer(v[p].pool, Current(p)) = path[Len(Path(p)) + 1]
<1>0. v[p].phase \in Walking /\ v[p].phase \in Judging
  BY DEF Walking, Judging
<1>1. v[p].leaf \in Certs /\ v[p].chain \in Seq(Certs) /\ v[p].pool \in Seq(Certs)
      /\ v[p].phase # None /\ v[p].entry > 0
  BY <1>0, WalkingTypes, JudgingTypes
<1> DEFINE k == Len(Path(p))
<1>2. /\ k = Len(v[p].chain) + 1 /\ Len(v[p].chain) \in Nat
      /\ Current(p) = Path(p)[k] /\ Current(p) \in Certs
  BY <1>1, PathFacts
<1>3. /\ Range(v[p].pool) = AtHand(p) /\ Follows(p) /\ Current(p) \notin GivenTo(p)
  BY <1>1 DEF ClientInv, HonestWalk
<1>4. k <= n /\ \A i \in 1..k : Path(p)[i] = path[i]
  BY <1>3 DEF Follows
<1> HIDE DEF k
<1>5. Current(p) = path[k] /\ k \in Nat \ {0} /\ n \in Nat
  BY <1>2, <1>4
<1>6. k # n
  BY <1>3, <1>5 DEF NamePath
<1>7. k + 1 <= n /\ k \in 1..(n - 1) /\ k + 1 \in 1..n
  BY <1>4, <1>5, <1>6
<1>8. X509[Current(p)].issuer = X509[path[k + 1]].subject /\ path[k + 1] \in AtHand(p)
  BY <1>5, <1>7 DEF NamePath
<1>9. PICK i \in DOMAIN v[p].pool : v[p].pool[i] = path[k + 1]
  BY <1>3, <1>8 DEF Range
<1>10. Issuers(v[p].pool, Current(p)) # {}
  BY <1>8, <1>9 DEF Issuers
<1>11. /\ Issuer(v[p].pool, Current(p)) \in AtHand(p)
       /\ X509[Issuer(v[p].pool, Current(p))].subject = X509[Current(p)].issuer
  BY <1>1, <1>2, <1>3, <1>10, IssuerFacts
<1>12. Issuer(v[p].pool, Current(p)) = path[k + 1]
  BY <1>8, <1>11, HonestFacts
<1>13. Len(v[p].chain) < MaxChain
  BY <1>2, <1>7, TrustAssumption
<1> QED
  BY <1>7, <1>10, <1>12, <1>13 DEF k

(* An honest signature has such a path.                                       *)
LEMMA HonestHasPath ==
    ASSUME Base, NEW p \in Clients, ClientInv(p), Honest(p)
    PROVE  \E n \in 1..(MaxChain + 1) : \E path \in [1..n -> AtHand(p)] : NamePath(p, n, path)
<1>1. v[p].started \in Days(p)
  BY Clock
<1>2. PICK n \in 1..(MaxChain + 1) : \E path \in [1..n -> AtHand(p)] :
         GoodPath(p, AtHand(p), GivenTo(p), v[p].started, path)
  BY <1>1, HonestFacts
<1>3. PICK path \in [1..n -> AtHand(p)] : GoodPath(p, AtHand(p), GivenTo(p), v[p].started, path)
  BY <1>2
<1>4. n \in Nat \ {0}
  BY <1>2
<1> QED
  BY <1>3, <1>4, GoodPathIsNamePath

(* What the honest walk knows after one more certificate.                     *)
LEMMA HonestGrows ==
    ASSUME Base, NEW p \in Clients, ClientInv(p), v[p].phase = "walk", Honest(p),
           SameJob(p), v'[p].role = v[p].role, v'[p].pool = v[p].pool, v'[p].leaf = v[p].leaf,
           v'[p].chain = Append(v[p].chain, Issuer(v[p].pool, Current(p))),
           v'[p].phase = IF \/ Issuer(v[p].pool, Current(p)) \in Anchors(p)
                            \/ SelfIssued(Issuer(v[p].pool, Current(p)))
                         THEN "anchor" ELSE "walk"
    PROVE  HonestWalk(p)'
<1> DEFINE parent == Issuer(v[p].pool, Current(p))
<1>0. v[p].phase \in Walking /\ v[p].phase \in Judging
  BY DEF Walking, Judging
<1>1. v[p].leaf \in Certs /\ v[p].chain \in Seq(Certs) /\ v[p].pool \in Seq(Certs)
      /\ v[p].phase # None /\ v[p].entry > 0
  BY <1>0, WalkingTypes, JudgingTypes
<1>2. Len(Path(p)) = Len(v[p].chain) + 1 /\ Len(v[p].chain) \in Nat /\ Current(p) \in Certs
  BY <1>1, PathFacts
<1>3. /\ v[p].role = "signer" /\ Range(v[p].pool) = AtHand(p) /\ Follows(p)
  BY <1>1 DEF ClientInv, HonestWalk
<1>4. Anchors(p) = GivenTo(p)
  BY <1>0, <1>3, HonestFacts, HonestAnchors DEF Anchors
<1>5. Issuers(v[p].pool, Current(p)) # {}
  BY HonestHasPath, WalkOn
<1>6. parent \in Certs
  BY <1>1, <1>2, <1>5, IssuerFacts
<1>7. /\ GivenTo(p)' = GivenTo(p) /\ AtHand(p)' = AtHand(p) /\ Entry(p)' = Entry(p)
  BY JobFrame DEF SameJob
<1>8. ASSUME NEW n \in 1..(MaxChain + 1), NEW path \in [1..n -> AtHand(p)], NamePath(p, n, path)
      PROVE  Len(Path(p)) + 1 <= n /\ parent = path[Len(Path(p)) + 1]
             /\ \A i \in 1..Len(Path(p)) : Path(p)[i] = path[i]
  <2>1. \A i \in 1..Len(Path(p)) : Path(p)[i] = path[i]
    BY <1>3, <1>8 DEF Follows
  <2> QED
    BY <1>8, <2>1, WalkOn
<1> HIDE DEF parent
<1>9. /\ Len(Path(p)') = Len(Path(p)) + 1
      /\ \A i \in 1..Len(Path(p)) : Path(p)'[i] = Path(p)[i]
      /\ Path(p)'[Len(Path(p)) + 1] = parent /\ Current(p)' = parent
  <2>1. v'[p].chain = Append(v[p].chain, parent)
    BY DEF parent
  <2>2. /\ Len(Path(p)') = Len(v[p].chain) + 2
        /\ \A i \in 1..(Len(v[p].chain) + 1) : Path(p)'[i] = Path(p)[i]
        /\ Path(p)'[Len(v[p].chain) + 2] = parent /\ Current(p)' = parent
    BY <1>1, <1>6, <2>1, PathGrows
  <2>3. Len(v[p].chain) + 2 = Len(Path(p)) + 1
    BY <1>2
  <2> QED
    BY <1>2, <2>2, <2>3
<1>10. Follows(p)'
  <2>1. ASSUME NEW n \in 1..(MaxChain + 1), NEW path \in [1..n -> AtHand(p)],
               NamePath(p, n, path)'
        PROVE  Len(Path(p)') <= n /\ \A i \in 1..Len(Path(p)') : Path(p)'[i] = path[i]
    <3>1. NamePath(p, n, path)
      BY <1>7, <2>1 DEF NamePath
    <3>2. /\ Len(Path(p)) + 1 <= n /\ parent = path[Len(Path(p)) + 1]
          /\ \A i \in 1..Len(Path(p)) : Path(p)[i] = path[i]
      BY <1>8, <3>1
    <3>3. \A i \in 1..(Len(Path(p)) + 1) : i \in 1..Len(Path(p)) \/ i = Len(Path(p)) + 1
      BY <1>2
    <3> QED
      BY <1>9, <3>2, <3>3
  <2> QED
    BY <1>7, <2>1 DEF Follows
<1>11. ASSUME SelfIssued(parent) PROVE parent \in GivenTo(p)
  <2>1. PICK n \in 1..(MaxChain + 1) : \E path \in [1..n -> AtHand(p)] : NamePath(p, n, path)
    BY HonestHasPath
  <2>2. PICK path \in [1..n -> AtHand(p)] : NamePath(p, n, path)
    BY <2>1
  <2>3. Len(Path(p)) + 1 <= n /\ parent = path[Len(Path(p)) + 1]
    BY <1>8, <2>2
  <2>4. Len(Path(p)) + 1 \in 1..n /\ n \in Nat \ {0}
    BY <1>2, <2>3
  <2> QED
    BY <1>11, <2>2, <2>3, <2>4, HonestFacts, PathStays
<1>12. v'[p].phase = IF parent \in GivenTo(p) \/ SelfIssued(parent) THEN "anchor" ELSE "walk"
  BY <1>4 DEF parent
<1> QED
  BY <1>3, <1>7, <1>9, <1>10, <1>11, <1>12 DEF HonestWalk

LEMMA WalkStepKeeps ==
    ASSUME Base, NEW p \in Clients, ClientInv(p), Walk(p)
    PROVE  Others(p) /\ ClientInv(p)'
<1> DEFINE parent == Issuer(v[p].pool, Current(p))
           issuers == Issuers(v[p].pool, Current(p))
<1>1. v[p].phase = "walk" /\ v[p].phase \in Judging /\ v[p].phase # None /\ v[p].phase \in Walking
  BY NoneIsNoStep DEF Walk, At, Judging, Walking, Steps
<1>2. now' = now /\ pc' = pc /\ got' = got
  BY LocalFacts DEF Walk
<1>3. v[p].leaf \in Certs /\ v[p].chain \in Seq(Certs) /\ v[p].pool \in Seq(Certs)
      /\ v[p] \in Verification
  BY <1>1, WalkingTypes, JudgingTypes
<1>4. Len(Path(p)) = Len(v[p].chain) + 1 /\ Len(v[p].chain) \in Nat /\ Current(p) \in Certs
      /\ Current(p) = Path(p)[Len(v[p].chain) + 1]
  BY <1>3, PathFacts
<1>5. Honest(p) => issuers # {} /\ Len(v[p].chain) < MaxChain
  BY <1>1, HonestHasPath, WalkOn
<1>6. Len(v[p].chain) <= MaxChain /\ MaxChain \in Nat
  BY TrustAssumption DEF ClientInv, OnJob
<1>7. CASE issuers = {}
  <2>1. Become(p, "aia") /\ "aia" \in Phases /\ "aia" \in Walking /\ "aia" \notin Anchored
        /\ "aia" \notin Closing
    BY <1>7 DEF Walk, Phases, Steps, Walking, Anchored, Closing
  <2>2. Others(p) /\ v'[p].phase = "aia" /\ SameJob(p) /\ SameWalk(p) /\ SamePool(p)
    BY <2>1, BecomeFacts DEF Base
  <2>3. Unrevoked(p)'
    BY <2>2 DEF Unrevoked, Closing
  <2> QED
    BY <1>1, <1>2, <1>5, <1>7, <2>1, <2>2, <2>3, StayKeeps DEF SamePool
<1>8. CASE issuers # {} /\ Len(v[p].chain) = MaxChain
  <2>1. Reject(p)
    BY <1>8 DEF Walk
  <2>2. ~Honest(p)
    BY <1>5, <1>6, <1>8
  <2>3. pc'[p] = "verify" => got'[p] \in Download
    BY <1>2 DEF ClientInv, Loaded
  <2> QED
    BY <1>1, <1>2, <2>1, <2>2, <2>3, RejectKeeps
<1>9. CASE issuers # {} /\ Len(v[p].chain) # MaxChain
  <2> DEFINE ph == IF parent \in Anchors(p) \/ SelfIssued(parent) THEN "anchor" ELSE "walk"
             r == [v[p] EXCEPT !.chain = Append(v[p].chain, parent), !.phase = ph]
  <2>1. parent \in Certs /\ X509[parent].subject = X509[Current(p)].issuer
    BY <1>3, <1>4, <1>9, IssuerFacts
  <2>2. Set(p, r)
    BY <1>3, <1>9 DEF Walk, Verification
  <2>3. ph \in {"anchor", "walk"} /\ ph \in Phases /\ ph \in Walking /\ ph \notin Anchored
        /\ ph \notin Closing
    BY DEF Phases, Steps, Walking, Anchored, Closing
  <2> HIDE DEF parent, issuers
  <2>4. Append(v[p].chain, parent) \in Seq(Certs) /\ Len(Append(v[p].chain, parent)) <= MaxChain
    BY <1>3, <1>4, <1>6, <1>9, <2>1
  <2>5. r \in Verification
    <3> DEFINE longer == Append(v[p].chain, parent)
    <3> HIDE DEF longer, ph
    <3>1. [v[p] EXCEPT !.chain = longer, !.phase = ph] \in Verification
      BY <1>3, <2>3, <2>4 DEF Verification, longer
    <3> QED
      BY <3>1 DEF longer
  <2>6. Others(p) /\ v'[p] = r
    <3> HIDE DEF r
    <3> QED
      BY <2>2, <2>5, SetFacts DEF Base
  <2>7. /\ v'[p].phase = ph /\ v'[p].chain = Append(v[p].chain, parent)
        /\ v'[p].role = v[p].role /\ v'[p].leaf = v[p].leaf /\ v'[p].pool = v[p].pool
        /\ v'[p].instant = v[p].instant /\ SameJob(p)
    <3> HIDE DEF ph
    <3> QED
      BY <1>3, <2>6 DEF Verification, SameJob
  <2>8. Honest(p) => HonestWalk(p)'
    BY <1>1, <2>7, HonestGrows DEF parent
  <2> HIDE DEF ph, r
  <2>9. Linked(p)'
    <3>1. /\ \A i \in 1..(Len(v[p].chain) + 1) : Path(p)'[i] = Path(p)[i]
          /\ Path(p)'[Len(v[p].chain) + 2] = parent
      BY <1>3, <2>1, <2>7, PathGrows
    <3>2. Len(v'[p].chain) = Len(v[p].chain) + 1
      BY <1>3, <2>1, <2>7
    <3>3. \A i \in 1..Len(v[p].chain) : X509[Path(p)[i]].issuer = X509[Path(p)[i + 1]].subject
      BY <1>1 DEF ClientInv, OnTheWay, Linked
    <3>4. ASSUME NEW i \in 1..(Len(v[p].chain) + 1)
          PROVE  X509[Path(p)'[i]].issuer = X509[Path(p)'[i + 1]].subject
      <4>1. CASE i = Len(v[p].chain) + 1
        <5>1. i + 1 = Len(v[p].chain) + 2
          BY <1>4, <4>1
        <5> QED
          BY <1>4, <2>1, <3>1, <4>1, <5>1
      <4>2. CASE i # Len(v[p].chain) + 1
        <5>1. i \in 1..Len(v[p].chain) /\ i + 1 \in 1..(Len(v[p].chain) + 1)
          BY <1>4, <4>2
        <5> QED
          BY <3>1, <3>3, <5>1
      <4> QED
        BY <4>1, <4>2
    <3> QED
      BY <3>2, <3>4 DEF Linked
  <2>10. Unrevoked(p)'
    BY <2>3, <2>7 DEF Unrevoked
  <2> QED
    BY <1>1, <1>2, <2>3, <2>4, <2>6, <2>7, <2>8, <2>9, <2>10, WalkKeeps
<1> QED
  BY <1>7, <1>8, <1>9

(* More issuers from AIA: never asked for by an honest signature.             *)
LEMMA FetchIssuersKeeps ==
    ASSUME Base, NEW p \in Clients, ClientInv(p), FetchIssuers(p) \/ FetchIssuersFails(p)
    PROVE  Others(p) /\ ClientInv(p)'
<1>1. v[p].phase = "aia" /\ v[p].phase \in Judging /\ v[p].phase # None /\ v[p].phase \in Walking
  BY NoneIsNoStep DEF FetchIssuers, FetchIssuersFails, At, Judging, Walking, Steps
<1>2. now' = now /\ pc' = pc /\ got' = got
  BY LocalFacts DEF FetchIssuers, FetchIssuersFails
<1>3. ~Honest(p)
  BY <1>1, JudgingTypes DEF ClientInv, HonestWalk
<1>4. CASE Reject(p)
  <2>1. pc'[p] = "verify" => got'[p] \in Download
    BY <1>2 DEF ClientInv, Loaded
  <2> QED
    BY <1>1, <1>2, <1>3, <1>4, <2>1, RejectKeeps
<1>5. CASE FetchIssuers(p) /\ ~Reject(p)
  <2> DEFINE more == merge_unique_certs(v[p].pool, AiaServed(p))
             r == [v[p] EXCEPT !.pool = more, !.phase = "walk"]
  <2>1. v[p].leaf \in Certs /\ v[p].chain \in Seq(Certs) /\ v[p].pool \in Seq(Certs)
        /\ v[p] \in Verification /\ Opts(p) \in OptionsType
    BY <1>1, WalkingTypes, JudgingTypes
  <2>2. Set(p, r)
    BY <1>5, <2>1 DEF FetchIssuers, Verification
  <2>3. AiaServed(p) \in Seq(Certs)
    <3>1. Current(p) \in Certs
      BY <2>1, PathFacts
    <3>2. X509[Current(p)].aia \in Seq(Certs) /\ Opts(p).aiaOverride \in Seq(Certs)
      BY <2>1, <3>1, TrustAssumption DEF OptionsType
    <3>3. CASE Opts(p).aia \/ UsesCache(Opts(p))
      BY <3>2, <3>3 DEF AiaServed
    <3>4. CASE ~(Opts(p).aia \/ UsesCache(Opts(p)))
      BY <3>2, <3>4 DEF AiaServed
    <3> QED
      BY <3>3, <3>4
  <2>4. more \in Seq(Certs)
    BY <2>1, <2>3, MergeFacts
  <2>5. "walk" \in Phases /\ "walk" \in Walking /\ "walk" \notin Anchored /\ "walk" \notin Closing
    BY DEF Phases, Steps, Walking, Anchored, Closing
  <2> HIDE DEF more
  <2>6. r \in Verification
    BY <2>1, <2>4, <2>5 DEF Verification
  <2>7. Others(p) /\ v'[p] = r
    <3> HIDE DEF r
    <3> QED
      BY <2>2, <2>6, SetFacts DEF Base
  <2>8. v'[p].phase = "walk" /\ v'[p].instant = v[p].instant /\ SameJob(p) /\ SameWalk(p)
    BY <2>1, <2>7 DEF Verification, SameJob, SameWalk
  <2> HIDE DEF r
  <2>9. Unrevoked(p)'
    BY <2>8 DEF Unrevoked, Closing
  <2> QED
    BY <1>1, <1>2, <1>3, <2>5, <2>7, <2>8, <2>9, StayKeeps
<1> QED
  BY <1>4, <1>5 DEF FetchIssuersFails

LEMMA RequireAnchorKeeps ==
    ASSUME Base, NEW p \in Clients, ClientInv(p), RequireAnchor(p)
    PROVE  Others(p) /\ ClientInv(p)'
<1>1. v[p].phase = "anchor" /\ v[p].phase \in Judging /\ v[p].phase # None
      /\ v[p].phase \in Walking
  BY NoneIsNoStep DEF RequireAnchor, At, Judging, Walking, Steps
<1>2. now' = now /\ pc' = pc /\ got' = got
  BY LocalFacts DEF RequireAnchor
<1>3. v[p] \in Verification /\ v[p].entry > 0 /\ v[p].leaf \in Certs /\ v[p].chain \in Seq(Certs)
  BY <1>1, JudgingTypes, WalkingTypes
<1>4. Honest(p) => /\ v[p].role = "signer" /\ Range(v[p].pool) = AtHand(p) /\ Follows(p)
                   /\ Current(p) \in GivenTo(p)
  BY <1>1, <1>3 DEF ClientInv, HonestWalk
<1>5. Honest(p) => Current(p) \in Anchors(p)
  BY <1>1, <1>4, HonestFacts, HonestAnchors DEF Anchors
<1>6. CASE Current(p) \notin Anchors(p)
  <2>1. Reject(p)
    BY <1>6 DEF RequireAnchor
  <2>2. pc'[p] = "verify" => got'[p] \in Download
    BY <1>2 DEF ClientInv, Loaded
  <2> QED
    BY <1>1, <1>2, <1>5, <1>6, <2>1, <2>2, RejectKeeps
<1>7. CASE Current(p) \in Anchors(p) /\ Opts(p).revocation = "off"
  <2>1. Become(p, "check") /\ "check" \in Phases /\ "check" \in Walking /\ "check" \notin Closing
    BY <1>7 DEF RequireAnchor, Phases, Steps, Walking, Anchored, Closing
  <2>2. Others(p) /\ v'[p].phase = "check" /\ SameJob(p) /\ SameWalk(p) /\ SamePool(p)
    BY <2>1, BecomeFacts DEF Base
  <2>3. Opts(p)' = Opts(p) /\ GivenTo(p)' = GivenTo(p) /\ AtHand(p)' = AtHand(p) /\ Entry(p)' = Entry(p)
    BY <2>2, JobFrame DEF SameJob
  <2>4. Unrevoked(p)'
    BY <1>7, <2>2, <2>3 DEF Unrevoked
  <2>5. ASSUME Honest(p) PROVE HonestWalk(p)'
    <3>1. Path(p)' = Path(p)
      BY <2>2, WalkFrame
    <3>2. Follows(p)'
      BY <1>4, <2>3, <2>5, <3>1 DEF Follows, NamePath
    <3> QED
      BY <1>4, <2>2, <2>3, <2>5, <3>2 DEF HonestWalk, SameWalk, SamePool
  <2> QED
    BY <1>1, <1>2, <1>7, <2>1, <2>2, <2>4, <2>5, StayKeeps DEF SamePool
<1>8. CASE Current(p) \in Anchors(p) /\ Opts(p).revocation # "off"
  <2> DEFINE r == [v[p] EXCEPT !.phase = "ocsp", !.subject = 1]
  <2>1. Set(p, r) /\ "ocsp" \in Phases /\ "ocsp" \in Walking /\ "ocsp" \notin Closing
    BY <1>8 DEF RequireAnchor, Phases, Steps, Walking, Anchored, Closing
  <2>2. r \in Verification
    BY <1>3, <2>1 DEF Verification
  <2>3. Others(p) /\ v'[p] = r
    <3> HIDE DEF r
    <3> QED
      BY <2>1, <2>2, SetFacts DEF Base
  <2>4. /\ v'[p].phase = "ocsp" /\ v'[p].subject = 1 /\ v'[p].instant = v[p].instant
        /\ SameJob(p) /\ SameWalk(p)
    BY <1>3, <2>3 DEF Verification, SameJob, SameWalk
  <2>5. Path(p)' = Path(p) /\ Len(Path(p)) >= 1 /\ Len(Path(p)) \in Nat
    BY <1>3, <2>4, WalkFrame, PathFacts
  <2>6. Unrevoked(p)'
    <3>1. 1 \in 1..Len(Path(p)) /\ 1..(1 - 1) = {}
      BY <2>5
    <3> QED
      BY <2>4, <2>5, <3>1 DEF Unrevoked, Closing
  <2>7. ~Honest(p)
    BY <1>8, HonestFacts
  <2> QED
    BY <1>1, <1>2, <1>8, <2>1, <2>3, <2>4, <2>6, <2>7, StayKeeps
<1> QED
  BY <1>6, <1>7, <1>8
-----------------------------------------------------------------------------
(* Revocation.                                                                *)

(* A certificate passes when an answer that counts does not say revoked, or   *)
(* when the lookup need not succeed.                                          *)
LEMMA NextSubjectKeeps ==
    ASSUME Base, NEW p \in Clients, ClientInv(p), NextSubject(p), now' = now, pc' = pc, got' = got,
           revokedOn' = revokedOn, v[p].phase \in {"ocsp", "crl"}, HasIssuer(p),
           Opts(p).revocation = "require" => StillGood(p, v[p].subject), ~Honest(p)
    PROVE  Others(p) /\ ClientInv(p)'
<1> DEFINE ph == IF v[p].subject + 1 < Len(Path(p)) THEN "ocsp" ELSE "check"
           r == [v[p] EXCEPT !.subject = v[p].subject + 1, !.phase = ph]
<1>1. v[p].phase \in Walking /\ v[p].phase \in Judging /\ v[p].phase \in Anchored
  BY DEF Walking, Judging, Anchored
<1>2. v[p] \in Verification /\ v[p].leaf \in Certs /\ v[p].chain \in Seq(Certs)
  BY <1>1, JudgingTypes, WalkingTypes
<1>3. ph \in Phases /\ ph \in Walking /\ ph \notin Closing /\ ph \in {"ocsp", "check"}
  BY DEF Phases, Steps, Walking, Anchored, Closing
<1>4. /\ v[p].subject \in 1..Len(Path(p)) /\ v[p].subject < Len(Path(p))
      /\ Opts(p).revocation = "require" => \A i \in 1..(v[p].subject - 1) : StillGood(p, i)
  BY DEF ClientInv, Unrevoked, HasIssuer
<1>5. Len(Path(p)) \in Nat /\ v[p].subject \in Nat
  BY <1>2, <1>4, PathFacts
<1>6. Set(p, r)
  BY <1>2 DEF NextSubject, Verification
<1>7. r \in Verification
  <2> DEFINE next == v[p].subject + 1
  <2>1. next \in Nat
    BY <1>5
  <2> HIDE DEF ph, next
  <2>2. [v[p] EXCEPT !.subject = next, !.phase = ph] \in Verification
    BY <1>2, <1>3, <2>1 DEF Verification
  <2> QED
    BY <2>2 DEF next
<1>8. Others(p) /\ v'[p] = r
  <2> HIDE DEF r
  <2> QED
    BY <1>6, <1>7, SetFacts DEF Base
<1>9. /\ v'[p].phase = ph /\ v'[p].subject = v[p].subject + 1 /\ v'[p].instant = v[p].instant
      /\ SameJob(p) /\ SameWalk(p)
  <2> HIDE DEF ph
  <2> QED
    BY <1>2, <1>8 DEF Verification, SameJob, SameWalk
<1> HIDE DEF r
<1>10. Path(p)' = Path(p) /\ Opts(p)' = Opts(p)
  BY <1>9, WalkFrame, JobFrame DEF SameJob
<1>11. \A i : StillGood(p, i)' = StillGood(p, i)
  BY <1>9, <1>10 DEF StillGood, SameJob
<1>12. Opts(p).revocation = "require" => \A i \in 1..v[p].subject : StillGood(p, i)
  <2>1. \A i \in 1..v[p].subject : i \in 1..(v[p].subject - 1) \/ i = v[p].subject
    BY <1>5
  <2> QED
    BY <1>4, <2>1
<1>13. Unrevoked(p)'
  <2>1. CASE v[p].subject + 1 < Len(Path(p))
    <3>1. v[p].subject + 1 \in 1..Len(Path(p)) /\ v[p].subject + 1 - 1 = v[p].subject
      BY <1>5, <2>1
    <3>2. v'[p].phase = "ocsp"
      BY <1>9, <2>1
    <3>3. /\ v'[p].subject \in 1..Len(Path(p)')
          /\ Opts(p)'.revocation = "require" =>
                \A i \in 1..(v'[p].subject - 1) : StillGood(p, i)'
      <4>1. v'[p].subject - 1 = v[p].subject
        BY <1>5, <1>9
      <4>2. Opts(p)'.revocation = "require" => \A i \in 1..v[p].subject : StillGood(p, i)'
        BY <1>10, <1>11, <1>12, Zenon
      <4>3. v'[p].subject \in 1..Len(Path(p)')
        BY <1>9, <1>10, <3>1
      <4> QED
        BY <4>1, <4>2, <4>3
    <3> QED
      BY <3>2, <3>3 DEF Unrevoked, Closing
  <2>2. CASE ~(v[p].subject + 1 < Len(Path(p)))
    <3>1. Len(Path(p)) - 1 = v[p].subject
      BY <1>4, <1>5, <2>2
    <3> QED
      BY <1>9, <1>10, <1>11, <1>12, <2>2, <3>1 DEF Unrevoked, Closing
  <2> QED
    BY <2>1, <2>2
<1>14. Current(p) \in Anchors(p)
  BY <1>1 DEF ClientInv, OnTheWay
<1> QED
  BY <1>1, <1>3, <1>8, <1>9, <1>13, <1>14, StayKeeps

(* An answer is current on a day of the verification, so it tells of a time   *)
(* no longer before its start than an answer stays current.                   *)
LEMMA AnswerCounts ==
    ASSUME Base, NEW p \in Clients, ClientInv(p), v[p].phase \in {"ocsp", "crl"}, HasIssuer(p),
           NEW a \in Answers, Usable(a), ~Revoked(Subject(p), a)
    PROVE  StillGood(p, v[p].subject)
<1>1. v[p].phase \in Walking
  BY DEF Walking, Anchored
<1>2. v[p].leaf \in Certs /\ v[p].chain \in Seq(Certs)
  BY <1>1, WalkingTypes
<1>3. v[p].subject \in 1..Len(Path(p))
  BY DEF ClientInv, Unrevoked
<1>4. Path(p)[v[p].subject] \in Certs
  BY <1>2, <1>3, PathFacts
<1>5. now \in Nat /\ wall \in Nat /\ now <= wall /\ v[p].started \in Nat /\ v[p].started <= now
  BY Clock
<1>6. a.day \in Int /\ wall <= a.day + Window
  BY <1>5 DEF Answers, Usable, ensure_time_window_fresh
<1>7. revokedOn[Path(p)[v[p].subject]] \in Int /\ ~(revokedOn[Path(p)[v[p].subject]] <= a.day)
  BY <1>4, CacheAssumption DEF Base, Never, Revoked, Subject
<1>8. Window \in Nat
  BY TrustAssumption
<1> QED
  BY <1>5, <1>6, <1>7, <1>8 DEF StillGood

LEMMA RevocationKeeps ==
    ASSUME Base, NEW p \in Clients, ClientInv(p),
           \/ OcspAnswered(p) \/ OcspUnknown(p) \/ OcspNotConfigured(p) \/ NothingToRevoke(p)
           \/ CrlAnswered(p) \/ CrlFails(p)
    PROVE  Others(p) /\ ClientInv(p)'
<1> USE DEF OcspAnswered, OcspUnknown, OcspNotConfigured, NothingToRevoke, CrlAnswered, CrlFails
<1>1. v[p].phase \in {"ocsp", "crl"} /\ Local
  BY DEF At
<1>2. v[p].phase \in Judging /\ v[p].phase # None /\ v[p].phase \in Walking /\ v[p].phase \in Anchored
  BY <1>1, NoneIsNoStep DEF Judging, Walking, Anchored, Steps
<1>3. now' = now /\ pc' = pc /\ got' = got /\ revokedOn' = revokedOn
  BY <1>1, LocalFacts
<1>4. ~Honest(p)
  BY <1>1, <1>2, JudgingTypes DEF ClientInv, HonestWalk
<1>5. v[p].phase = "crl" => HasIssuer(p)
  BY DEF ClientInv, Unrevoked, HasIssuer
<1>6. /\ v[p].leaf \in Certs /\ v[p].chain \in Seq(Certs) /\ Len(Path(p)) \in Nat
      /\ v[p].subject \in 1..Len(Path(p)) /\ Current(p) \in Anchors(p)
  BY <1>1, <1>2, WalkingTypes, PathFacts DEF ClientInv, Unrevoked, OnTheWay
<1>7. CASE Reject(p)
  <2>1. pc'[p] = "verify" => got'[p] \in Download
    BY <1>3 DEF ClientInv, Loaded
  <2> QED
    BY <1>2, <1>3, <1>4, <1>7, <2>1, RejectKeeps
<1>8. CASE NextSubject(p) /\ HasIssuer(p)
           /\ (Opts(p).revocation = "require" => StillGood(p, v[p].subject))
  BY <1>1, <1>3, <1>4, <1>8, NextSubjectKeeps
<1>9. CASE \/ Become(p, "crl") /\ v[p].phase = "ocsp" /\ HasIssuer(p)
           \/ Become(p, "check") /\ v[p].phase = "ocsp" /\ ~HasIssuer(p)
  <2>1. PICK ph \in {"crl", "check"} : /\ Become(p, ph) /\ (ph = "crl" => HasIssuer(p))
                                      /\ (ph = "check" => ~HasIssuer(p))
    BY <1>9
  <2>2. ph \in Phases /\ ph \in Walking /\ ph \notin Closing
    BY DEF Phases, Steps, Walking, Anchored, Closing
  <2>3. /\ Others(p) /\ v'[p].phase = ph /\ SameJob(p) /\ SameWalk(p) /\ SamePool(p)
        /\ v'[p].subject = v[p].subject
    BY <2>1, <2>2, BecomeFacts DEF Base
  <2>4. Path(p)' = Path(p) /\ Opts(p)' = Opts(p)
    BY <2>3, WalkFrame, JobFrame DEF SameJob
  <2>5. \A i : StillGood(p, i)' = StillGood(p, i)
    BY <1>3, <2>3, <2>4 DEF StillGood, SameJob
  <2>6. Opts(p).revocation = "require" => \A i \in 1..(v[p].subject - 1) : StillGood(p, i)
    BY <1>1 DEF ClientInv, Unrevoked
  <2>7. ph = "check" => v[p].subject = Len(Path(p))
    BY <1>6, <2>1 DEF HasIssuer
  <2>8. Unrevoked(p)'
    BY <1>6, <2>1, <2>3, <2>4, <2>5, <2>6, <2>7 DEF Unrevoked, Closing, HasIssuer
  <2> QED
    BY <1>2, <1>3, <1>4, <1>6, <2>2, <2>3, <2>8, StayKeeps DEF SamePool
<1>10. CASE OcspAnswered(p)
  BY <1>1, <1>7, <1>8, <1>10, AnswerCounts
<1>11. CASE CrlAnswered(p)
  <2>1. v[p].phase = "crl"
    BY <1>11 DEF At
  <2> QED
    BY <1>1, <1>5, <1>7, <1>8, <1>11, <2>1, AnswerCounts
<1>12. CASE CrlFails(p)
  <2>1. v[p].phase = "crl"
    BY <1>12 DEF At
  <2> QED
    BY <1>5, <1>7, <1>8, <1>12, <2>1 DEF BestEffort
<1>13. CASE OcspUnknown(p) \/ OcspNotConfigured(p) \/ NothingToRevoke(p)
  BY <1>7, <1>9, <1>13 DEF At
<1> QED
  BY <1>10, <1>11, <1>12, <1>13
-----------------------------------------------------------------------------
(* The verdict on one signature.                                              *)

(* A walk that ended in an anchor and whose chain verifies leads to it.       *)
LEMMA VerifiedLeads ==
    ASSUME Base, NEW p \in Clients, ClientInv(p), v[p].phase \in Anchored, NEW day,
           ChainVerifies(p, day), NEW A \in SUBSET Certs, Current(p) \in A
    PROVE  v[p].leaf \in Leads(A, day)
<1>1. v[p].phase \in Walking
  BY PhaseNames
<1>2. v[p].leaf \in Certs /\ v[p].chain \in Seq(Certs)
  BY <1>1, WalkingTypes
<1> DEFINE n == Len(v[p].chain)
           t == Path(p)
<1>3. /\ t \in Seq(Certs) /\ Len(t) = n + 1 /\ t[1] = v[p].leaf /\ Current(p) = t[n + 1]
      /\ n \in Nat
  BY <1>2, PathFacts
<1>4. n \in 0..MaxChain
  BY <1>3, TrustAssumption DEF ClientInv, OnJob
<1>5. \A i \in 1..(n + 1) : ValidAt(t[i], day)
  BY <1>3 DEF ChainVerifies
<1>6. \A i \in 1..n : SignedBy(t[i], t[i + 1]) /\ X509[t[i]].issuer = X509[t[i + 1]].subject
  BY <1>1 DEF ChainVerifies, ClientInv, OnTheWay, Linked
<1>7. t[n + 1] \in A
  BY <1>3
<1> HIDE DEF n, t
<1>8. t[1] \in Leads(A, day)
  BY <1>3, <1>4, <1>5, <1>6, <1>7, PathLeads
<1> QED
  BY <1>3, <1>8

(* The chain of an honest signature verifies on every day.                    *)
LEMMA HonestVerifies ==
    ASSUME Base, NEW p \in Clients, ClientInv(p), v[p].phase = "check", Honest(p)
    PROVE  v[p].role = "signer" /\ ChainVerifies(p, v[p].instant)
<1>1. v[p].phase \in Walking /\ v[p].phase \in Judging
  BY DEF Walking, Anchored, Judging
<1>2. v[p].leaf \in Certs /\ v[p].chain \in Seq(Certs) /\ v[p].phase # None /\ v[p].entry > 0
  BY <1>1, WalkingTypes, JudgingTypes
<1>3. v[p].role = "signer" /\ Follows(p)
  BY <1>2 DEF ClientInv, HonestWalk
<1>4. v[p].instant \in Days(p)
  BY <1>1, <1>3, HonestFacts DEF ClientInv, InTime, AtSigner
<1>5. PICK n \in 1..(MaxChain + 1) : \E path \in [1..n -> AtHand(p)] :
         GoodPath(p, AtHand(p), GivenTo(p), v[p].instant, path)
  BY <1>4, HonestFacts
<1>6. PICK path \in [1..n -> AtHand(p)] : GoodPath(p, AtHand(p), GivenTo(p), v[p].instant, path)
  BY <1>5
<1>7. n \in Nat \ {0}
  BY <1>5
<1>8. NamePath(p, n, path)
  BY <1>6, <1>7, GoodPathIsNamePath
<1>9. Len(Path(p)) <= n /\ \A i \in 1..Len(Path(p)) : Path(p)[i] = path[i]
  BY <1>3, <1>8 DEF Follows
<1>10. Len(Path(p)) = Len(v[p].chain) + 1 /\ Len(v[p].chain) \in Nat
  BY <1>2, PathFacts
<1>11. Len(path) = n /\ DOMAIN path = 1..n
  BY <1>7
<1>12. ASSUME NEW i \in 1..Len(Path(p)) PROVE ValidAt(Path(p)[i], v[p].instant)
  <2>1. i \in 1..n
    BY <1>7, <1>9, <1>10
  <2> QED
    BY <1>6, <1>9, <1>11, <2>1 DEF GoodPath
<1>13. ASSUME NEW i \in 1..Len(v[p].chain) PROVE SignedBy(Path(p)[i], Path(p)[i + 1])
  <2>1. i \in 1..(n - 1) /\ i \in 1..Len(Path(p)) /\ i + 1 \in 1..Len(Path(p))
    BY <1>7, <1>9, <1>10
  <2>2. SignedBy(path[i], path[i + 1])
    BY <1>6, <1>11, <2>1 DEF GoodPath
  <2> QED
    BY <1>9, <2>1, <2>2
<1> QED
  BY <1>3, <1>12, <1>13 DEF ChainVerifies

LEMMA CheckChainKeeps ==
    ASSUME Base, NEW p \in Clients, ClientInv(p), CheckChain(p)
    PROVE  Others(p) /\ ClientInv(p)'
<1>1. v[p].phase = "check" /\ v[p].phase \in Judging /\ v[p].phase # None
      /\ v[p].phase \in Walking /\ v[p].phase \in Anchored
  BY NoneIsNoStep DEF CheckChain, At, Judging, Walking, Anchored, Steps
<1>2. now' = now /\ pc' = pc /\ got' = got /\ revokedOn' = revokedOn
  BY LocalFacts DEF CheckChain
<1>3. v[p] \in Verification /\ Current(p) \in Anchors(p)
  BY <1>1, JudgingTypes DEF ClientInv, OnTheWay
<1>4. Honest(p) => v[p].role = "signer" /\ ChainVerifies(p, v[p].instant)
  BY <1>1, HonestVerifies
<1>5. CASE Reject(p) /\ ~Honest(p)
  <2>1. pc'[p] = "verify" => got'[p] \in Download
    BY <1>2 DEF ClientInv, Loaded
  <2> QED
    BY <1>1, <1>2, <1>5, <2>1, RejectKeeps
<1>6. CASE v[p].role = "tsa" /\ ChainVerifies(p, Token(p).time)
  <2>1. Judged(p, Token(p).time)
    BY <1>6 DEF CheckChain
  <2>2. Token(p) # None /\ (~Artifact(p) => Opts(p).preferTimestamp)
    BY <1>1, <1>6 DEF ClientInv, TokenWanted, AtToken
  <2>3. Token(p) \in TokenType
    BY <1>1, <2>2, JudgingTypes
  <2>4. Token(p).time \in Int
    BY <2>3 DEF TokenType
  <2>5. /\ Others(p) /\ v'[p].phase = "signer" /\ v'[p].instant = Token(p).time
        /\ SameJob(p) /\ SameWalk(p)
    BY <2>1, <2>4, JudgedFacts DEF Base
  <2>6. "signer" \in Judging /\ Entry(p).digestMatches /\ Len(v'[p].chain) <= MaxChain
    BY <1>1, <2>5 DEF Judging, ClientInv, Loaded, OnJob, SameWalk
  <2>7. OnJob(p)' /\ Loaded(p)'
    BY <1>1, <1>2, <2>5, <2>6, JobKeeps
  <2>8. v[p].leaf = Token(p).leaf /\ token_is_genuine(p)
    BY <1>1, <1>6 DEF ClientInv, OnTheWay
  <2>9. Token(p).leaf \in Leads(v[p].anchors, Token(p).time)
    <3>1. v[p].anchors \in SUBSET Certs /\ Current(p) \in v[p].anchors
      BY <1>3, <1>6 DEF Verification, Anchors
    <3> QED
      BY <1>1, <1>6, <2>8, <3>1, VerifiedLeads
  <2>10. /\ Opts(p)' = Opts(p) /\ Artifact(p)' = Artifact(p) /\ Token(p)' = Token(p)
    BY <2>5, JobFrame DEF SameJob
  <2>11. TokenHolds(p)'
    BY <2>2, <2>5, <2>8, <2>9, <2>10 DEF TokenHolds, SameJob, token_is_genuine
  <2>12. InTime(p)'
    BY <2>2, <2>10, <2>11 DEF InTime
  <2> QED
    BY <2>5, <2>7, <2>12, SignerKeeps
<1>7. CASE v[p].role # "tsa" /\ (AnchoredSigner(p) \/ ChainVerifies(p, v[p].instant))
  <2> DEFINE ph == IF Artifact(p) /\ ~Vsix(p) THEN "report" ELSE "passed"
  <2>1. Become(p, ph) /\ v[p].role = "signer"
    BY <1>3, <1>7 DEF CheckChain, Verification
  <2>2. ph \in Phases /\ ph \in Walking /\ ph \in Closing /\ (~Artifact(p) => ph = "passed")
    BY DEF Phases, Steps, Walking, Anchored, Closing
  <2> HIDE DEF ph
  <2>3. Others(p) /\ v'[p].phase = ph /\ SameJob(p) /\ SameWalk(p) /\ SamePool(p)
    BY <2>1, <2>2, BecomeFacts DEF Base
  <2>4. Path(p)' = Path(p) /\ Opts(p)' = Opts(p)
    BY <2>3, WalkFrame, JobFrame DEF SameJob
  <2>5. \A i : StillGood(p, i)' = StillGood(p, i)
    BY <1>2, <2>3, <2>4 DEF StillGood, SameJob
  <2>6. Opts(p).revocation = "require" => \A i \in 1..(Len(Path(p)) - 1) : StillGood(p, i)
    BY <1>1 DEF ClientInv, Unrevoked
  <2>7. Unrevoked(p)'
    <3>1. Opts(p)'.revocation = "require" => \A i \in 1..(Len(Path(p)') - 1) : StillGood(p, i)'
      BY <2>4, <2>5, <2>6
    <3>2. v'[p].phase \notin {"ocsp", "crl"}
      BY <2>2, <2>3 DEF Closing
    <3> QED
      BY <3>1, <3>2 DEF Unrevoked
  <2>8. Honest(p) => HonestWalk(p)'
    BY <2>2, <2>3, HonestFacts DEF HonestWalk
  <2> QED
    BY <1>1, <1>2, <1>3, <1>7, <2>1, <2>2, <2>3, <2>7, <2>8, StayKeeps DEF SamePool
<1> QED
  BY <1>4, <1>5, <1>6, <1>7 DEF CheckChain

(* The chain is reported, or the last signature was the last one.             *)
LEMMA ClosingKeeps ==
    ASSUME Base, NEW p \in Clients, ClientInv(p), Local, v[p].phase \in Closing,
           NEW ph \in {"passed", "trusted"}, Become(p, ph)
    PROVE  Others(p) /\ ClientInv(p)'
<1>1. v[p].phase \in Walking /\ v[p].phase \in Anchored
  BY PhaseNames
<1>2. now' = now /\ pc' = pc /\ got' = got /\ revokedOn' = revokedOn
  BY LocalFacts
<1>3. /\ Current(p) \in Anchors(p) /\ v[p].role = "signer"
      /\ AnchoredSigner(p) \/ ChainVerifies(p, v[p].instant)
  BY <1>1 DEF ClientInv, OnTheWay
<1>4. ph \in Phases /\ ph \in Walking /\ ph \in Closing
  BY DEF Phases, Steps, Walking, Anchored, Closing
<1>5. Others(p) /\ v'[p].phase = ph /\ SameJob(p) /\ SameWalk(p) /\ SamePool(p)
  BY <1>4, BecomeFacts DEF Base
<1>6. Path(p)' = Path(p) /\ Opts(p)' = Opts(p)
  BY <1>5, WalkFrame, JobFrame DEF SameJob
<1>7. \A i : StillGood(p, i)' = StillGood(p, i)
  BY <1>2, <1>5, <1>6 DEF StillGood, SameJob
<1>8. Unrevoked(p)'
  <2>1. Opts(p).revocation = "require" => \A i \in 1..(Len(Path(p)) - 1) : StillGood(p, i)
    BY DEF ClientInv, Unrevoked
  <2>2. Opts(p)'.revocation = "require" => \A i \in 1..(Len(Path(p)') - 1) : StillGood(p, i)'
    BY <1>6, <1>7, <2>1
  <2> QED
    BY <1>5, <2>2 DEF Unrevoked
<1>9. HonestWalk(p)'
  BY <1>5 DEF HonestWalk
<1> QED
  BY <1>1, <1>2, <1>3, <1>4, <1>5, <1>8, <1>9, StayKeeps DEF SamePool

LEMMA ReportRootKeeps ==
    ASSUME Base, NEW p \in Clients, ClientInv(p), ReportRoot(p)
    PROVE  Others(p) /\ ClientInv(p)'
<1>1. v[p].phase = "report" /\ v[p].phase \in Closing /\ v[p].phase # None
      /\ v[p].phase \in Judging /\ Local
  BY NoneIsNoStep DEF ReportRoot, At, Judging, Walking, Anchored, Closing, Steps
<1>2. CASE Rewalkable(p)
  BY <1>1, <1>2, ClosingKeeps DEF ReportRoot
<1>3. CASE ~Rewalkable(p)
  <2>1. now' = now /\ pc' = pc /\ got' = got
    BY <1>1, LocalFacts
  <2>2. ~Honest(p)
    BY <1>1, JudgingTypes DEF ClientInv, HonestWalk
  <2>3. pc'[p] = "verify" => got'[p] \in Download
    BY <2>1 DEF ClientInv, Loaded
  <2>4. Reject(p)
    BY <1>3 DEF ReportRoot
  <2> QED
    BY <1>1, <2>1, <2>2, <2>3, <2>4, RejectKeeps
<1> QED
  BY <1>2, <1>3

LEMMA NextEntryKeeps ==
    ASSUME Base, NEW p \in Clients, ClientInv(p), NextEntry(p)
    PROVE  Others(p) /\ ClientInv(p)'
<1>1. v[p].phase = "passed" /\ v[p].phase \in Closing /\ v[p].phase # None
      /\ v[p].phase \in Judging /\ Local
  BY NoneIsNoStep DEF NextEntry, At, Judging, Walking, Anchored, Closing, Steps
<1>2. CASE v[p].entry = Len(v[p].file.entries)
  BY <1>1, <1>2, ClosingKeeps DEF NextEntry
<1>3. CASE v[p].entry # Len(v[p].file.entries)
  <2> DEFINE k == v[p].entry + 1
             r == [v[p] EXCEPT !.phase = "entry", !.entry = k]
  <2>1. now' = now /\ pc' = pc /\ got' = got
    BY <1>1, LocalFacts
  <2>2. v[p] \in Verification /\ v[p].file \in FileType /\ v[p].entry \in 1..Len(v[p].file.entries)
    BY <1>1, JudgingTypes DEF ClientInv, Loaded
  <2>3. Len(v[p].file.entries) \in Nat
    BY <2>2 DEF FileType
  <2>4. k \in Nat /\ k \in 1..Len(v[p].file.entries)
    BY <1>3, <2>2, <2>3
  <2>5. Set(p, r)
    BY <1>3, <2>2 DEF NextEntry, Verification
  <2> HIDE DEF k
  <2>6. r \in Verification
    BY <2>2, <2>4 DEF Verification, Phases, Steps
  <2>7. Others(p) /\ v'[p] = r
    <3> HIDE DEF r
    <3> QED
      BY <2>5, <2>6, SetFacts DEF Base
  <2>8. /\ v'[p].phase = "entry" /\ v'[p].entry = k /\ v'[p].file = v[p].file
        /\ v'[p].opts = v[p].opts /\ v'[p].started = v[p].started
        /\ v'[p].anchors = v[p].anchors /\ v'[p].anchorCerts = v[p].anchorCerts
        /\ v'[p].chain = v[p].chain
    BY <2>2, <2>7 DEF Verification
  <2> HIDE DEF r
  <2>9. Opts(p)' = Opts(p) /\ Artifact(p)' = Artifact(p) /\ GivenTo(p)' = GivenTo(p)
    BY <2>8 DEF Opts, Artifact, GivenTo
  <2>10. ~Artifact(p) => Vouchers(p)' = Vouchers(p)
    BY <2>1, <2>8, <2>9 DEF Vouchers
  <2>11. OnJob(p)'
    BY <1>1, <2>1, <2>8 DEF OnJob, ClientInv
  <2>12. Loaded(p)'
    BY <1>1, <2>1, <2>4, <2>8, <2>9, <2>10 DEF Loaded, ClientInv
  <2> QED
    BY <2>7, <2>8, <2>11, <2>12, QuietKeeps
<1> QED
  BY <1>2, <1>3
-----------------------------------------------------------------------------
(* The cache under the verification.                                          *)

(* A client that leaves with its CAB in memory keeps nothing open.            *)
LEMMA IdleKeeps ==
    ASSUME CacheInv, NEW p \in Clients, pc[p] = "verify", Goto(p, "idle"),
           UNCHANGED <<now, skew, cab, meta, tmp, got, stamp, fresh, held>>
    PROVE  /\ CacheInv' /\ pc'[p] = "idle"
           /\ \A q \in Clients \ {p} : pc'[q] = pc[q] /\ got'[q] = got[q]
<1>0. CacheTypeOK
  BY DEF CacheInv
<1>1. pc'[p] = "idle" /\ pc' \in [Clients -> PCs]
  BY <1>0, GotoTypes, Labels
<1>2. CacheTypeOK'
  BY <1>0, <1>1 DEF CacheTypeOK
<1>3. \A q \in Clients \ {p} : pc'[q] = pc[q]
  BY <1>0, Types DEF Goto
<1>4. Renewed
  BY DEF Renewed
<1>5. Stored'
  BY <1>4, StoredKeeps
<1>6. ASSUME NEW q \in Clients \ {p} PROVE Carries(q)' /\ Timely(q)' /\ Recent(q)' /\ Opened(q)'
  <2>1. Carries(q)' /\ Timely(q)' /\ Recent(q)'
    BY <1>3, <1>4, OthersKeep
  <2>2. Opened(q)
    BY DEF CacheInv
  <2> QED
    BY <1>3, <2>1, <2>2 DEF Opened, Writes, Slot, Exists
<1>7. Carries(p)' /\ Timely(p)' /\ Recent(p)' /\ Opened(p)'
  <2>1. Timely(p) /\ held[p] = "temp"
    BY DEF CacheInv, Opened
  <2> QED
    BY <1>1, <2>1 DEF Carries, Opened, Writes, Timely, Recent, Refreshing, UsingTemp
<1>8. ASSUME NEW q \in Clients PROVE Alone(q)'
  <2>1. \A r \in Clients : Writes(r)' => Writes(r)
    BY <1>1, <1>3 DEF Writes
  <2>2. Alone(q)
    BY DEF CacheInv
  <2> QED
    BY <2>1, <2>2 DEF Alone, Slot
<1> QED
  BY <1>1, <1>2, <1>3, <1>5, <1>6, <1>7, <1>8 DEF CacheInv

(* One that ends, wherever it was, relies on nothing, and the file with the   *)
(* number of its process is nobody else's.                                    *)
LEMMA ForgetKeeps ==
    ASSUME CacheInv, NEW p \in Clients, Forget(p)
    PROVE  /\ CacheInv' /\ pc'[p] = "idle" /\ now' = now
           /\ \A q \in Clients \ {p} : pc'[q] = pc[q] /\ got'[q] = got[q]
<1>0. CacheTypeOK /\ Settle(p, "idle") /\ UNCHANGED <<now, skew, cab, meta>>
  BY DEF CacheInv, Forget
<1>1. /\ tmp' = [s \in Slots |-> IF s = p THEN NoFile ELSE tmp[s]]
      /\ DOMAIN pc = Clients /\ DOMAIN got = Clients /\ DOMAIN held = Clients
      /\ DOMAIN stamp = Clients /\ DOMAIN fresh = Clients /\ DOMAIN tmp = Slots
  BY <1>0, Types DEF Forget
<1>2. Settled(p) /\ pc'[p] = "idle" /\ CacheTypeOK'
  <2>1. tmp' \in [Slots -> File]
    BY <1>0, <1>1, Files DEF CacheTypeOK
  <2> QED
    BY <1>0, <1>1, <2>1, SettleTypes DEF CacheTypeOK, Settle, Goto
<1>3. \A q \in Clients \ {p} : /\ pc'[q] = pc[q] /\ got'[q] = got[q] /\ held'[q] = held[q]
                               /\ stamp'[q] = stamp[q] /\ fresh'[q] = fresh[q]
                               /\ tmp'[Slot(q)] = tmp[Slot(q)]
  <2>1. ASSUME NEW q \in Clients \ {p} PROVE Slot(q) # p /\ Slot(q) \in Slots
    BY <2>1, OwnSlot, CacheAssumption DEF Clients, Slot
  <2> QED
    BY <1>0, <1>1, <2>1 DEF Settle, Goto
<1>4. Renewed
  BY <1>0 DEF Renewed
<1>5. Stored'
  BY <1>0, <1>4, StoredKeeps
<1>6. ASSUME NEW q \in Clients \ {p} PROVE Carries(q)' /\ Timely(q)' /\ Recent(q)' /\ Opened(q)'
  <2>1. Carries(q)' /\ Timely(q)' /\ Recent(q)'
    BY <1>0, <1>3, <1>4, OthersKeep
  <2>2. Opened(q)
    BY DEF CacheInv
  <2>3. Slot(q)' = Slot(q)
    BY DEF Slot
  <2> QED
    BY <1>0, <1>3, <2>1, <2>2, <2>3 DEF Opened, Writes, Exists
<1>7. Carries(p)' /\ Timely(p)' /\ Recent(p)' /\ Opened(p)'
  BY <1>0, <1>2, SettledKeeps DEF Keeps
<1>8. ASSUME NEW q \in Clients PROVE Alone(q)'
  <2>1. \A r \in Clients : Writes(r)' => Writes(r)
    BY <1>2, <1>3 DEF Writes
  <2>2. Alone(q)
    BY DEF CacheInv
  <2> QED
    BY <2>1, <2>2 DEF Alone, Slot
<1> QED
  BY <1>0, <1>2, <1>3, <1>5, <1>6, <1>7, <1>8 DEF CacheInv

(* What a resolution hands over is a CAB of some day.                         *)
LEMMA ReadsWhole ==
    ASSUME CacheInv, NEW p \in Clients, CacheStep(p), pc'[p] = "verify"
    PROVE  got'[p] \in Download
<1>0. DOMAIN pc = Clients /\ DOMAIN got = Clients /\ cab \in File
  BY Types DEF CacheInv
<1>1. ReadCab(p) /\ cab.content = "cab"
  BY <1>0 DEF CacheStep, Look, Judge, Fetch, FetchFails, OpenTemp, WriteTemp, WriteTempFails,
         Rename, RenameFails, RemoveOld, RenameAgain, ReplaceFails, OpenMeta, WriteMeta,
         WriteMetaFails, ReadCab, GiveUp, Goto, Settle, Move, Answered
<1>2. got'[p] = cab
  BY <1>0, <1>1 DEF ReadCab
<1> QED
  BY <1>0, <1>1, <1>2, Files
-----------------------------------------------------------------------------
(* The rest of the steps: loading the trust, starting and returning.          *)

LEMMA StartKeeps ==
    ASSUME Base, NEW p \in Clients, ClientInv(p), Start(p)
    PROVE  Others(p) /\ ClientInv(p)'
<1>1. PICK j \in Jobs :
         /\ At(p, None) /\ pc[p] = "idle"
         /\ Set(p, [Fresh EXCEPT !.phase = IF UsesCache(j.opts) THEN "resolve" ELSE "load",
                                 !.file = j.file, !.opts = j.opts, !.started = now])
         /\ Local
  BY DEF Start
<1> DEFINE ph == IF UsesCache(j.opts) THEN "resolve" ELSE "load"
           r == [Fresh EXCEPT !.phase = ph, !.file = j.file, !.opts = j.opts, !.started = now]
<1>2. now' = now /\ pc' = pc /\ got' = got
  BY <1>1, LocalFacts
<1>3. j.file \in FileType /\ j.opts \in OptionsType /\ j = [file |-> j.file, opts |-> j.opts]
  BY TrustAssumption
<1>4. ph \in Phases /\ ph \in {"resolve", "load"} /\ (ph = "load" => ~UsesCache(j.opts))
  BY DEF Phases, Steps
<1>5. now \in Day
  BY DEF Base, CacheInv, CacheTypeOK, Day
<1>6. Set(p, r)
  BY <1>1
<1> HIDE DEF ph
<1>7. r \in Verification
  BY <1>3, <1>4, <1>5, FreshType DEF Verification
<1>8. Others(p) /\ v'[p] = r
  <2> HIDE DEF r
  <2> QED
    BY <1>6, <1>7, SetFacts DEF Base
<1>9. /\ v'[p].phase = ph /\ v'[p].file = j.file /\ v'[p].opts = j.opts /\ v'[p].started = now
      /\ v'[p].entry = 0 /\ v'[p].chain = <<>>
  BY <1>8 DEF Fresh
<1> HIDE DEF r
<1>10. OnJob(p)'
  <2>1. Len(v'[p].chain) = 0 /\ 0 <= MaxChain
    BY <1>9, TrustAssumption
  <2>2. now <= now'
    BY <1>2, Types DEF Base, CacheInv
  <2> QED
    BY <1>3, <1>9, <2>1, <2>2 DEF OnJob
<1>11. Loaded(p)'
  <2>1. v'[p].phase \notin Judging
    BY <1>4, <1>9, PhaseNames
  <2> QED
    BY <1>1, <1>2, <1>4, <1>9, <2>1 DEF Loaded, Opts
<1> QED
  BY <1>4, <1>8, <1>9, <1>10, <1>11, QuietKeeps

LEMMA ReturnKeeps ==
    ASSUME Base, NEW p \in Clients, ClientInv(p), Return(p)
    PROVE  Others(p) /\ ClientInv(p)'
<1>1. Set(p, Fresh) /\ Forget(p)
  BY DEF Return
<1>2. pc'[p] = "idle" /\ now' = now
  BY <1>1, ForgetKeeps DEF Base
<1>3. Others(p) /\ v'[p] = Fresh
  BY <1>1, FreshType, SetFacts DEF Base
<1>4. v'[p].phase = None /\ v'[p].started = 0 /\ v'[p].chain = <<>>
  BY <1>3, FreshType
<1>5. v'[p].phase \notin Steps /\ v'[p].phase \notin Judging /\ v'[p].phase \notin Walking
  BY <1>4, NoneIsNoStep, PhaseNames
<1>6. OnJob(p)'
  <2>1. Len(v'[p].chain) = 0 /\ 0 <= MaxChain /\ 0 <= now
    BY <1>4, TrustAssumption, Types DEF Base, CacheInv
  <2> QED
    BY <1>2, <1>4, <2>1 DEF OnJob
<1>7. Loaded(p)'
  BY <1>2, <1>5 DEF Loaded, Steps
<1>8. TokenWanted(p)' /\ OnTheWay(p)' /\ InTime(p)'
  BY <1>5 DEF TokenWanted, AtToken, OnTheWay, InTime, AtSigner, Steps
<1>9. Unrevoked(p)' /\ HonestWalk(p)'
  BY <1>4, <1>5 DEF Unrevoked, HonestWalk, Closing, Steps
<1> QED
  BY <1>3, <1>6, <1>7, <1>8, <1>9 DEF ClientInv

LEMMA ResolveFailsKeeps ==
    ASSUME Base, NEW p \in Clients, ClientInv(p), ResolveFails(p)
    PROVE  Others(p) /\ ClientInv(p)'
<1>1. v[p].phase = "resolve" /\ Forget(p) /\ Reject(p)
  BY DEF ResolveFails, At
<1>2. pc'[p] = "idle" /\ now' = now
  BY <1>1, ForgetKeeps DEF Base
<1>3. v[p].phase # None /\ v[p].entry = 0
  BY <1>1, NoneIsNoStep DEF Steps, ClientInv, Loaded
<1> QED
  BY <1>1, <1>2, <1>3, RejectKeeps

(* The anchors that are loaded are the ones the options let vouch.            *)
LEMMA TrustMaterial ==
    ASSUME NEW p \in Clients, Opts(p) \in OptionsType,
           UsesCache(Opts(p)) => got[p] \in Download
    PROVE  LET t == trust_material_for(p)
           IN /\ t.anchors \in SUBSET Certs /\ t.certs \in Seq(Certs)
              /\ ~Artifact(p) => t.anchors = Vouchers(p)
              /\ ~Artifact(p) /\ Opts(p).anchors # {} => Range(t.certs) = GivenTo(p)
<1> DEFINE given == SetToSeq(Opts(p).anchors)
           extra == SetToSeq(Opts(p).additional)
           named == given \o extra
<1>1. \A S \in SUBSET Certs : SetToSeq(S) \in Seq(Certs) /\ Range(SetToSeq(S)) = S
  <2>1. ASSUME NEW S \in SUBSET Certs
        PROVE  SetToSeq(S) \in Seq(Certs) /\ Range(SetToSeq(S)) = S
    <3>1. IsFiniteSet(S)
      BY TrustAssumption, FS_Subset
    <3>2. SetToSeq(S) \in Seq(S) /\ Range(SetToSeq(S)) = S
      BY <3>1, SetToSeqFacts
    <3>3. SetToSeq(S) \in Seq(Certs)
      BY <3>2
    <3> QED
      BY <3>2, <3>3
  <2> QED
    BY <2>1
<1>2. Opts(p).anchors \in SUBSET Certs /\ Opts(p).additional \in SUBSET Certs
  BY DEF OptionsType
<1>3. /\ given \in Seq(Certs) /\ Range(given) = Opts(p).anchors
      /\ extra \in Seq(Certs) /\ Range(extra) = Opts(p).additional
  BY <1>1, <1>2
<1>4. named \in Seq(Certs) /\ Range(named) = GivenTo(p)
  <2> HIDE DEF given, extra
  <2>1. given \o extra \in Seq(Certs) /\ Range(given \o extra) = Range(given) \cup Range(extra)
    BY <1>3, ConcatFacts
  <2> QED
    BY <1>3, <2>1 DEF GivenTo, Opts
<1>5. GivenTo(p) \subseteq Certs
  BY <1>2 DEF GivenTo, Opts
<1>6. CASE Artifact(p)
  <2>1. Pinned \in SUBSET Certs
    BY TrustAssumption
  <2>2. SetToSeq(Pinned) \in Seq(Certs) /\ Range(SetToSeq(Pinned)) = Pinned
    BY <1>1, <2>1
  <2> DEFINE s == SetToSeq(Pinned)
  <2>3. trust_material_for(p) = [anchors |-> Range(s) \cup {}, certs |-> s]
    BY <1>6 DEF trust_material_for, public_trust_anchors, AnchorStore
  <2> HIDE DEF s
  <2> QED
    BY <1>6, <2>1, <2>2, <2>3 DEF s
<1>7. CASE ~Artifact(p) /\ ~UsesCache(Opts(p))
  <2>1. Opts(p).anchors # {}
    BY <1>7 DEF UsesCache, Artifact
  <2>2. trust_material_for(p) = [anchors |-> Range(named) \cup {}, certs |-> named]
    BY <1>7 DEF trust_material_for, load_trust_material, AnchorStore
  <2>3. Vouchers(p) = GivenTo(p)
    BY <1>7, <2>1 DEF Vouchers, GivenTo, Opts
  <2> HIDE DEF named
  <2> QED
    BY <1>4, <1>5, <2>2, <2>3
<1>8. CASE ~Artifact(p) /\ UsesCache(Opts(p))
  <2>1. Opts(p).anchors = {}
    BY <1>8 DEF UsesCache
  <2>2. Program[got[p].day] \in CabType
    BY <1>8, TrustAssumption DEF Download, Day
  <2>3. CabCerts(p) \in Seq(Certs) /\ CabThumbs(p) \in SUBSET Certs
    BY <2>2 DEF CabCerts, CabThumbs, CabType
  <2> DEFINE all == named \o CabCerts(p)
  <2> HIDE DEF named
  <2>4. all \in Seq(Certs) /\ Range(all) = GivenTo(p) \cup Range(CabCerts(p))
    BY <1>4, <2>3, ConcatFacts
  <2>5. trust_material_for(p) = [anchors |-> Range(all) \cup CabThumbs(p), certs |-> all]
    BY <1>8 DEF trust_material_for, load_trust_material, AnchorStore, named
  <2>6. Vouchers(p) = GivenTo(p) \cup Range(CabCerts(p)) \cup CabThumbs(p)
    BY <1>8, <2>1 DEF Vouchers, GivenTo, Opts, CabCerts, CabThumbs
  <2>7. Range(all) \subseteq Certs
    BY <2>4 DEF Range
  <2> HIDE DEF all
  <2> QED
    BY <2>1, <2>3, <2>4, <2>5, <2>6, <2>7
<1> QED
  BY <1>6, <1>7, <1>8

LEMMA LoadTrustKeeps ==
    ASSUME Base, NEW p \in Clients, ClientInv(p), LoadTrust(p)
    PROVE  /\ Others(p) /\ ClientInv(p)' /\ CacheInv' /\ now' = now /\ revokedOn' = revokedOn
           /\ \A q \in Clients \ {p} : pc'[q] = pc[q] /\ got'[q] = got[q]
<1>1. v[p].phase \in {"resolve", "load"} /\ v[p].phase # None
  BY NoneIsNoStep DEF LoadTrust, At, Steps
<1>2. v[p].entry = 0 /\ OnJob(p) /\ (v[p].phase = "load" => ~UsesCache(Opts(p)))
  BY <1>1 DEF ClientInv, Loaded
<1>3. /\ CacheInv' /\ now' = now /\ got' = got
      /\ \A q \in Clients \ {p} : pc'[q] = pc[q] /\ got'[q] = got[q]
      /\ pc'[p] = "verify" => got'[p] \in Download
      /\ UsesCache(Opts(p)) => got[p] \in Download
  <2>1. CASE At(p, "load") /\ UNCHANGED cacheVars
    <3>1. CacheInv'
      BY <2>1, InvStep DEF Base
    <3> QED
      BY <1>2, <2>1, <3>1 DEF cacheVars, ClientInv, Loaded, At
  <2>2. CASE /\ At(p, "resolve") /\ pc[p] = "verify" /\ Goto(p, "idle")
             /\ UNCHANGED <<now, skew, cab, meta, tmp, got, stamp, fresh, held>>
    <3>1. /\ CacheInv' /\ pc'[p] = "idle"
          /\ \A q \in Clients \ {p} : pc'[q] = pc[q] /\ got'[q] = got[q]
      BY <2>2, IdleKeeps DEF Base
    <3> QED
      BY <2>2, <3>1 DEF ClientInv, Loaded
  <2> QED
    BY <2>1, <2>2 DEF LoadTrust
<1>4. revokedOn' = revokedOn
  BY DEF LoadTrust
<1> DEFINE t == trust_material_for(p)
           r == [v[p] EXCEPT !.phase = "entry", !.entry = 1,
                             !.anchors = t.anchors, !.anchorCerts = t.certs]
<1>5. CASE Reject(p)
  <2>1. Others(p) /\ ClientInv(p)'
    BY <1>1, <1>2, <1>3, <1>5, RejectKeeps
  <2> QED
    BY <1>3, <1>4, <2>1
<1>6. CASE Set(p, r) /\ v[p].file.entries # <<>>
  <2>1. v[p].file \in FileType /\ v[p].opts \in OptionsType /\ v[p] \in Verification
    BY <1>1, <1>2, JobTypes DEF Base, Typed
  <2>2. /\ t.anchors \in SUBSET Certs /\ t.certs \in Seq(Certs)
        /\ ~Artifact(p) => t.anchors = Vouchers(p)
        /\ ~Artifact(p) /\ Opts(p).anchors # {} => Range(t.certs) = GivenTo(p)
    <3>1. Opts(p) \in OptionsType
      BY <2>1 DEF Opts
    <3> QED
      BY <1>3, <3>1, TrustMaterial
  <2> HIDE DEF t
  <2>3. r \in Verification
    BY <2>1, <2>2 DEF Verification, Phases, Steps
  <2>4. Others(p) /\ v'[p] = r
    <3> HIDE DEF r
    <3> QED
      BY <1>6, <2>3, SetFacts DEF Base
  <2>5. /\ v'[p].phase = "entry" /\ v'[p].entry = 1 /\ v'[p].file = v[p].file
        /\ v'[p].opts = v[p].opts /\ v'[p].started = v[p].started
        /\ v'[p].anchors = t.anchors /\ v'[p].anchorCerts = t.certs
        /\ v'[p].chain = v[p].chain
    BY <2>1, <2>4 DEF Verification
  <2> HIDE DEF r
  <2>6. Opts(p)' = Opts(p) /\ Artifact(p)' = Artifact(p) /\ GivenTo(p)' = GivenTo(p)
    BY <2>5 DEF Opts, Artifact, GivenTo
  <2>7. ~Artifact(p) => Vouchers(p)' = Vouchers(p)
    BY <1>3, <2>5, <2>6 DEF Vouchers
  <2>8. OnJob(p)'
    BY <1>1, <1>2, <1>3, <2>5 DEF OnJob
  <2>9. 1 \in 1..Len(v[p].file.entries)
    BY <1>6, <2>1 DEF FileType
  <2>10. Loaded(p)'
    BY <1>3, <2>2, <2>5, <2>6, <2>7, <2>9 DEF Loaded
  <2>11. ClientInv(p)'
    BY <2>5, <2>8, <2>10, QuietKeeps
  <2> QED
    BY <1>3, <1>4, <2>4, <2>11
<1> QED
  BY <1>5, <1>6 DEF LoadTrust
-----------------------------------------------------------------------------
(* What other clients do, the days and the authorities.                       *)

LEMMA OtherKeeps ==
    ASSUME Base, NEW q \in Clients, ClientInv(q), v'[q] = v[q], now' \in Nat, now <= now',
           Loaded(q)', \A c \in Certs : revokedOn'[c] = revokedOn[c] \/ revokedOn'[c] = now
    PROVE  ClientInv(q)'
<1>1. SameJob(q) /\ SameWalk(q) /\ v'[q].phase = v[q].phase /\ v'[q].instant = v[q].instant
      /\ v'[q].pool = v[q].pool /\ v'[q].subject = v[q].subject
  BY DEF SameJob, SameWalk
<1>2. /\ now \in Nat /\ Spread \in Nat /\ v[q].started \in Nat /\ v[q].started <= now
  BY Clock
<1>3. OnJob(q)'
  BY <1>1, <1>2 DEF OnJob, ClientInv, SameJob, SameWalk
<1>4. /\ Entry(q)' = Entry(q) /\ Opts(q)' = Opts(q) /\ Artifact(q)' = Artifact(q)
      /\ Token(q)' = Token(q) /\ token_is_genuine(q)' = token_is_genuine(q)
      /\ GivenTo(q)' = GivenTo(q) /\ AtHand(q)' = AtHand(q) /\ Insists(q)' = Insists(q)
  BY <1>1, JobFrame DEF SameJob
<1>5. /\ Path(q)' = Path(q) /\ Current(q)' = Current(q) /\ Linked(q)' = Linked(q)
      /\ Anchors(q)' = Anchors(q) /\ AnchoredSigner(q)' = AnchoredSigner(q)
  BY <1>1, WalkFrame
<1>6. ChainVerifies(q, v[q].instant)' = ChainVerifies(q, v[q].instant)
  BY <1>5 DEF ChainVerifies
<1>7. Days(q) \subseteq Days(q)'
  BY <1>1, <1>2 DEF Days, SameJob
<1>8. TokenWanted(q)'
  BY <1>1, <1>4 DEF TokenWanted, AtToken, ClientInv
<1>9. OnTheWay(q)'
  BY <1>1, <1>4, <1>5, <1>6 DEF OnTheWay, ClientInv, SameWalk
<1>10. InTime(q)'
  <2>1. TokenHolds(q)' = TokenHolds(q)
    BY <1>1, <1>4 DEF TokenHolds, SameJob
  <2>2. AtSigner(q)' = AtSigner(q)
    BY <1>1 DEF AtSigner, SameWalk
  <2> QED
    BY <1>1, <1>4, <1>7, <2>1, <2>2 DEF InTime, ClientInv
<1>11. Unrevoked(q)'
  <2>1. ASSUME v[q].phase \in Walking, NEW i \in 1..Len(Path(q)), StillGood(q, i)
        PROVE  StillGood(q, i)'
    <3>1. Path(q)[i] \in Certs
      BY <2>1, WalkingTypes, PathFacts
    <3>2. Window \in Nat \ {0}
      BY TrustAssumption
    <3>3. CASE revokedOn'[Path(q)[i]] = revokedOn[Path(q)[i]]
      BY <1>1, <1>5, <2>1, <3>3 DEF StillGood, SameJob
    <3>4. CASE revokedOn'[Path(q)[i]] = now
      <4>1. now + Window > v[q].started
        BY <1>2, <3>2
      <4> QED
        BY <1>1, <1>5, <3>4, <4>1 DEF StillGood, SameJob
    <3> QED
      BY <3>1, <3>3, <3>4
  <2>2. CASE v[q].phase \in {"ocsp", "crl"}
    <3>1. v[q].phase \in Walking
      BY <2>2 DEF Walking, Anchored
    <3>2. /\ v[q].subject \in 1..Len(Path(q)) /\ Len(Path(q)) \in Nat
          /\ v[q].phase = "crl" => v[q].subject < Len(Path(q))
          /\ Opts(q).revocation = "require" => \A i \in 1..(v[q].subject - 1) : StillGood(q, i)
      BY <2>2, <3>1, WalkingTypes, PathFacts DEF ClientInv, Unrevoked
    <3>3. \A i \in 1..(v[q].subject - 1) : i \in 1..Len(Path(q))
      BY <3>2
    <3>4. Opts(q).revocation = "require" => \A i \in 1..(v[q].subject - 1) : StillGood(q, i)'
      BY <2>1, <3>1, <3>2, <3>3, Zenon
    <3> QED
      BY <1>1, <1>4, <1>5, <2>2, <3>2, <3>4 DEF Unrevoked, Closing
  <2>3. CASE v[q].phase \in {"check"} \cup Closing
    <3>1. v[q].phase \in Walking
      BY <2>3 DEF Walking, Anchored
    <3>2. /\ Len(Path(q)) \in Nat
          /\ Opts(q).revocation = "require" => \A i \in 1..(Len(Path(q)) - 1) : StillGood(q, i)
      BY <2>3, <3>1, WalkingTypes, PathFacts DEF ClientInv, Unrevoked
    <3>3. \A i \in 1..(Len(Path(q)) - 1) : i \in 1..Len(Path(q))
      BY <3>2
    <3>4. Opts(q).revocation = "require" => \A i \in 1..(Len(Path(q)) - 1) : StillGood(q, i)'
      BY <2>1, <3>1, <3>2, <3>3, Zenon
    <3> QED
      BY <1>1, <1>4, <1>5, <2>3, <3>4 DEF Unrevoked, Closing
  <2>4. CASE v[q].phase \notin {"ocsp", "crl", "check"} \cup Closing
    BY <1>1, <2>4 DEF Unrevoked
  <2> QED
    BY <2>2, <2>3, <2>4
<1>12. HonestWalk(q)'
  <2>1. Honest(q)' => Honest(q)
    <3> SUFFICES ASSUME Honest(q)' PROVE Honest(q)
      OBVIOUS
    <3>1. (\A day \in Days(q) : \E n \in 1..(MaxChain + 1) : \E path \in [1..n -> AtHand(q)] :
             GoodPath(q, AtHand(q), GivenTo(q), day, path))'
      BY DEF Honest, AtHand, GivenTo
    <3>2. \A day \in Days(q)' : \E n \in 1..(MaxChain + 1) : \E path \in [1..n -> AtHand(q)] :
             GoodPath(q, AtHand(q), GivenTo(q), day, path)
      <4>1. \A day, path : GoodPath(q, AtHand(q), GivenTo(q), day, path)' =
                            GoodPath(q, AtHand(q), GivenTo(q), day, path)
        BY <1>4 DEF GoodPath
      <4> QED
        BY <1>4, <3>1, <4>1
    <3>3. \A day \in Days(q) : \E n \in 1..(MaxChain + 1) : \E path \in [1..n -> AtHand(q)] :
             GoodPath(q, AtHand(q), GivenTo(q), day, path)
      BY <1>7, <3>2
    <3> QED
      BY <1>1, <1>4, <3>3 DEF Honest, AtHand, GivenTo, SameJob
  <2>2. Follows(q)' = Follows(q)
    BY <1>4, <1>5 DEF Follows, NamePath
  <2> QED
    BY <1>1, <1>4, <1>5, <2>1, <2>2 DEF HonestWalk, ClientInv, SameJob, SameWalk
<1> QED
  BY <1>3, <1>8, <1>9, <1>10, <1>11, <1>12 DEF ClientInv

LEMMA LoadedFrame ==
    ASSUME NEW q \in Clients, Loaded(q), v'[q] = v[q], pc'[q] = pc[q], got'[q] = got[q]
    PROVE  Loaded(q)'
<1>1. Entry(q)' = Entry(q) /\ Opts(q)' = Opts(q) /\ Artifact(q)' = Artifact(q)
      /\ GivenTo(q)' = GivenTo(q)
  BY JobFrame
<1>2. Vouchers(q)' = Vouchers(q)
  BY <1>1 DEF Vouchers
<1> QED
  BY <1>1, <1>2 DEF Loaded

LEMMA ResolveKeeps ==
    ASSUME Base, NEW p \in Clients, ClientInv(p), Resolve(p)
    PROVE  /\ Others(p) /\ ClientInv(p)' /\ CacheInv' /\ now' = now /\ revokedOn' = revokedOn
           /\ \A q \in Clients \ {p} : pc'[q] = pc[q] /\ got'[q] = got[q]
<1>1. v[p].phase = "resolve" /\ CacheStep(p) /\ revokedOn' = revokedOn /\ v' = v
  BY DEF Resolve, At
<1>2. CacheInv' /\ Mover(p) /\ CacheTypeOK
  BY <1>1, InvStep DEF Base, CacheNext, Mover, CacheInv
<1>3. now' = now
  BY <1>1 DEF CacheStep, Look, Judge, Fetch, FetchFails, OpenTemp, WriteTemp, WriteTempFails,
         Rename, RenameFails, RemoveOld, RenameAgain, ReplaceFails, OpenMeta, WriteMeta,
         WriteMetaFails, ReadCab, GiveUp
<1>4. \A q \in Clients \ {p} : pc'[q] = pc[q] /\ got'[q] = got[q]
  BY <1>2, Frame
<1>5. Others(p)
  BY <1>1 DEF Others, Base, Typed
<1>6. Loaded(p)'
  <2>1. pc'[p] = "verify" => got'[p] \in Download
    BY <1>1, ReadsWhole DEF Base
  <2>2. v'[p].phase \notin Judging /\ v'[p].phase # "load" /\ v'[p].entry = 0
    BY <1>1, PhaseNames DEF ClientInv, Loaded
  <2> QED
    BY <2>1, <2>2 DEF Loaded
<1>7. ClientInv(p)'
  BY <1>1, <1>3, <1>6, Clock, OtherKeeps
<1> QED
  BY <1>1, <1>2, <1>3, <1>4, <1>5, <1>7

(* A step of one client keeps all of the invariant.                           *)
LEMMA ClientStep ==
    ASSUME TrustInv, NEW p \in Clients, Start(p) \/ Verify(p)
    PROVE  TrustInv'
<1>0. Base /\ ClientInv(p)
  BY DEF TrustInv, Base, Typed
<1>1. /\ Others(p) /\ ClientInv(p)' /\ CacheInv' /\ now' = now /\ revokedOn' = revokedOn
      /\ \A q \in Clients \ {p} : pc'[q] = pc[q] /\ got'[q] = got[q]
  <2>1. CASE Resolve(p) \/ LoadTrust(p)
    BY <1>0, <2>1, ResolveKeeps, LoadTrustKeeps
  <2>2. CASE Return(p) \/ ResolveFails(p)
    <3>1. Forget(p) /\ revokedOn' = revokedOn
      BY <2>2 DEF Return, ResolveFails
    <3>2. /\ CacheInv' /\ now' = now
          /\ \A q \in Clients \ {p} : pc'[q] = pc[q] /\ got'[q] = got[q]
      BY <1>0, <3>1, ForgetKeeps DEF Base
    <3> QED
      BY <1>0, <2>2, <3>1, <3>2, ReturnKeeps, ResolveFailsKeeps
  <2>3. CASE Local /\ (Start(p) \/ Verify(p)) /\ ~(Resolve(p) \/ LoadTrust(p) \/ Return(p) \/ ResolveFails(p))
    <3>1. CacheInv' /\ now' = now /\ revokedOn' = revokedOn /\ pc' = pc /\ got' = got
      BY <1>0, <2>3, LocalFacts
    <3>2. Others(p) /\ ClientInv(p)'
      BY <1>0, <2>3, StartKeeps, CheckDigestKeeps, ChooseInstantKeeps, VerifyTokenKeeps,
         VerifySignerKeeps, WalkStepKeeps, FetchIssuersKeeps, RequireAnchorKeeps, RevocationKeeps,
         CheckChainKeeps, ReportRootKeeps, NextEntryKeeps DEF Verify
    <3> QED
      BY <3>1, <3>2
  <2>4. Resolve(p) \/ LoadTrust(p) \/ Return(p) \/ ResolveFails(p) \/ Local
    BY DEF Verify, Start, CheckDigest, ChooseInstant, VerifyToken, VerifySigner, Walk, FetchIssuers,
           FetchIssuersFails, RequireAnchor, OcspAnswered, OcspUnknown, OcspNotConfigured,
           NothingToRevoke, CrlAnswered, CrlFails, CheckChain, ReportRoot, NextEntry
  <2> QED
    BY <2>1, <2>2, <2>3, <2>4
<1>2. now \in Nat /\ now <= now'
  BY <1>0, <1>1, Clock
<1>3. ASSUME NEW q \in Clients \ {p} PROVE ClientInv(q)'
  <2>1. v'[q] = v[q] /\ pc'[q] = pc[q] /\ got'[q] = got[q]
    BY <1>1 DEF Others
  <2>2. ClientInv(q)
    BY DEF TrustInv
  <2>3. Loaded(q)'
    BY <2>1, <2>2, LoadedFrame DEF ClientInv
  <2> QED
    BY <1>0, <1>1, <1>2, <2>1, <2>2, <2>3, OtherKeeps
<1>4. revokedOn' \in [Certs -> 0..Never]
  BY <1>0, <1>1 DEF Base
<1> QED
  BY <1>1, <1>3, <1>4 DEF TrustInv, Others, Typed, Never

(* A day passes, the clock is set, a certificate is revoked.                  *)
LEMMA WorldStep ==
    ASSUME TrustInv, World
    PROVE  TrustInv'
<1>0. Base
  BY DEF TrustInv, Base, Typed
<1>1. v' = v
  BY DEF World, Revoke
<1>2. /\ CacheInv' /\ now \in Nat /\ now' \in Nat /\ now <= now' /\ pc' = pc /\ got' = got
  <2>1. CASE CacheWorld
    <3>1. CacheInv'
      BY <1>0, <2>1, InvStep DEF Base, CacheNext
    <3> QED
      BY <1>0, <2>1, <3>1, Types DEF Base, CacheInv, CacheWorld, Tick, SetClock
  <2>2. CASE Revoke
    <3>1. UNCHANGED cacheVars
      BY <2>2 DEF Revoke
    <3>2. CacheInv'
      BY <1>0, <3>1, InvStep DEF Base
    <3> QED
      BY <1>0, <3>1, <3>2, Types DEF Base, CacheInv, cacheVars
  <2> QED
    BY <2>1, <2>2 DEF World
<1>3. /\ revokedOn' \in [Certs -> 0..Never]
      /\ \A c \in Certs : revokedOn'[c] = revokedOn[c] \/ revokedOn'[c] = now
  <2>1. CASE revokedOn' = revokedOn
    BY <1>0, <2>1 DEF Base
  <2>2. CASE Revoke
    <3>1. now \in 0..Never
      BY <1>0, Types DEF Base, CacheInv, Never
    <3> QED
      BY <1>0, <2>2, <3>1 DEF Base, Revoke
  <2> QED
    BY <2>1, <2>2 DEF World
<1>4. ASSUME NEW q \in Clients PROVE ClientInv(q)'
  <2>1. ClientInv(q)
    BY DEF TrustInv
  <2>2. Loaded(q)'
    BY <1>1, <1>2, <2>1, LoadedFrame DEF ClientInv
  <2> QED
    BY <1>0, <1>1, <1>2, <1>3, <2>1, <2>2, OtherKeeps
<1>5. Typed'
  BY <1>0, <1>1 DEF Base, Typed
<1> QED
  BY <1>2, <1>3, <1>4, <1>5 DEF TrustInv, Typed, Never
-----------------------------------------------------------------------------
LEMMA TrustInvInit == Init => TrustInv
<1> SUFFICES ASSUME Init PROVE TrustInv
  OBVIOUS
<1>1. CacheInv
  BY InvInit DEF Init
<1>2. revokedOn \in [Certs -> 0..Never]
  BY CacheAssumption DEF Init, Never
<1>3. v \in [Clients -> Verification]
  BY FreshType DEF Init
<1>4. ASSUME NEW p \in Clients PROVE ClientInv(p)
  <2>0. pc[p] \in {"idle", "away"}
    BY DEF Init, CacheInit
  <2>1. v[p] = Fresh /\ pc[p] # "verify" /\ now = 0
    BY <2>0 DEF Init, CacheInit
  <2>2. v[p].phase = None /\ v[p].started = 0 /\ v[p].chain = <<>>
    BY <2>1, FreshType
  <2>3. v[p].phase \notin Steps /\ v[p].phase \notin Judging /\ v[p].phase \notin Walking
    BY <2>2, NoneIsNoStep, PhaseNames
  <2>4. OnJob(p)
    <3>1. Len(v[p].chain) = 0 /\ 0 <= MaxChain
      BY <2>2, TrustAssumption
    <3> QED
      BY <2>1, <2>2, <3>1 DEF OnJob
  <2>5. Loaded(p)
    BY <2>1, <2>3 DEF Loaded, Steps
  <2>6. TokenWanted(p) /\ OnTheWay(p) /\ InTime(p)
    BY <2>3 DEF TokenWanted, AtToken, OnTheWay, InTime, AtSigner, Steps
  <2>7. Unrevoked(p) /\ HonestWalk(p)
    BY <2>2, <2>3 DEF Unrevoked, HonestWalk, Closing, Steps
  <2> QED
    BY <2>4, <2>5, <2>6, <2>7 DEF ClientInv
<1> QED
  BY <1>1, <1>2, <1>3, <1>4 DEF TrustInv

LEMMA TrustInvStep == TrustInv /\ [Next]_vars => TrustInv'
<1> SUFFICES ASSUME TrustInv, [Next]_vars PROVE TrustInv'
  OBVIOUS
<1>1. CASE Next
  BY <1>1, ClientStep, WorldStep DEF Next
<1>2. CASE UNCHANGED vars
  <2>0. Base
    BY DEF TrustInv, Base, Typed
  <2>1. v' = v /\ revokedOn' = revokedOn /\ UNCHANGED cacheVars
    BY <1>2 DEF vars
  <2>2. CacheInv'
    BY <2>0, <2>1, InvStep DEF Base
  <2>3. now' = now /\ pc' = pc /\ got' = got /\ now \in Nat
    BY <2>0, <2>1, Types DEF cacheVars, Base, CacheInv
  <2>4. ASSUME NEW q \in Clients PROVE ClientInv(q)'
    <3>1. ClientInv(q)
      BY DEF TrustInv
    <3>2. Loaded(q)'
      BY <2>1, <2>3, <3>1, LoadedFrame DEF ClientInv
    <3> QED
      BY <2>0, <2>1, <2>3, <3>1, <3>2, OtherKeeps
  <2> QED
    BY <2>0, <2>1, <2>2, <2>4 DEF TrustInv, Base, Never
<1> QED
  BY <1>1, <1>2

LEMMA TrustInvariance == Spec => []TrustInv
BY TrustInvInit, TrustInvStep, PTL DEF Spec

(* The type invariant of the verification and of the cache under it.          *)
THEOREM TypeCorrect == Spec => []TypeOK
<1>1. TrustInv => TypeOK
  <2> SUFFICES ASSUME TrustInv PROVE TypeOK
    OBVIOUS
  <2>1. CacheTypeOK /\ revokedOn \in [Certs -> 0..Never]
    BY DEF TrustInv, CacheInv
  <2>2. ASSUME NEW p \in Clients
        PROVE  /\ v[p].phase \in Phases
               /\ v[p].anchors \subseteq Certs /\ v[p].anchorCerts \in Seq(Certs)
               /\ v[p].pool \in Seq(Certs) /\ v[p].chain \in Seq(Certs)
               /\ v[p].leaf \in Certs \cup {None}
               /\ Len(v[p].chain) <= MaxChain
               /\ v[p].phase # None => \E j \in Jobs : j.file = v[p].file /\ j.opts = v[p].opts
    <3>1. v[p] \in Verification /\ OnJob(p)
      BY DEF TrustInv, ClientInv
    <3>2. v[p].phase # None => \E j \in Jobs : j.file = v[p].file /\ j.opts = v[p].opts
      BY <3>1 DEF OnJob
    <3> QED
      BY <3>1, <3>2 DEF Verification, OnJob
  <2> QED
    BY <2>1, <2>2 DEF TypeOK
<1> QED
  BY <1>1, TrustInvariance, PTL

(* A CAB that a verification takes from the cache is as whole and as fresh as *)
(* CacheIsSound says also while verifications take their clients out of it at *)
(* every point.                                                               *)
THEOREM CacheIsSoundUnderVerification == Spec => []CacheIsSound
<1>1. TrustInv => CacheIsSound
  BY InvIsSound DEF TrustInv
<1> QED
  BY <1>1, TrustInvariance, PTL

(* Whatever certificates, files and options: a signature that passed verifies *)
(* and its signer is one of those the options let vouch, or is led to one.    *)
THEOREM TrustedIsSoundAlways == Spec => []TrustedIsSound
<1>1. TrustInv => TrustedIsSound
  <2> SUFFICES ASSUME TrustInv, NEW p \in Clients, At(p, "passed")
               PROVE  /\ Entry(p).digestMatches /\ Entry(p).signatureVerifies
                      /\ \/ Entry(p).leaf \in Vouchers(p)
                         \/ Entry(p).leaf \in Leads(Vouchers(p), v[p].instant)
    BY DEF TrustedIsSound
  <2>1. Base /\ ClientInv(p)
    BY DEF TrustInv, Base, Typed
  <2>2. v[p].phase = "passed" /\ v[p].phase \in Closing /\ v[p].phase \in Anchored
        /\ v[p].phase \in Walking /\ v[p].phase \in Judging
    BY DEF At, Closing, Anchored, Walking, Judging
  <2>3. /\ Entry(p).digestMatches /\ Entry(p).signatureVerifies /\ v[p].leaf = Entry(p).leaf
        /\ Current(p) \in Anchors(p) /\ v[p].role = "signer"
        /\ AnchoredSigner(p) \/ ChainVerifies(p, v[p].instant)
    BY <2>1, <2>2 DEF ClientInv, Loaded, OnTheWay
  <2>4. Anchors(p) = Vouchers(p)
    BY <2>1, <2>2, <2>3 DEF Anchors, SignerAnchors, Vouchers, ClientInv, Loaded, Opts
  <2>5. v[p].leaf \in Certs /\ v[p].chain \in Seq(Certs) /\ Opts(p) \in OptionsType
        /\ v[p] \in Verification
    BY <2>1, <2>2, WalkingTypes, JudgingTypes
  <2>6. CASE AnchoredSigner(p)
    <3>1. Current(p) = v[p].leaf
      <4>1. Len(v[p].chain) = 0
        BY <2>6 DEF AnchoredSigner
      <4>2. Current(p) = Path(p)[Len(v[p].chain) + 1] /\ Path(p)[1] = v[p].leaf
        BY <2>5, PathFacts
      <4> QED
        BY <4>1, <4>2
    <3> QED
      BY <2>3, <2>4, <3>1
  <2>7. CASE ChainVerifies(p, v[p].instant)
    <3>1. Vouchers(p) \in SUBSET Certs
      <4>1. CASE ~Artifact(p)
        BY <2>1, <2>2, <2>5, <4>1 DEF ClientInv, Loaded, Verification
      <4>2. CASE Artifact(p)
        <5>1. Opts(p).artifact \in PolicyType
          BY <2>5, <4>2 DEF Artifact, OptionsType
        <5> QED
          BY <4>2, <5>1, TrustAssumption DEF Vouchers, PolicyType, Opts
      <4> QED
        BY <4>1, <4>2
    <3>2. v[p].leaf \in Leads(Vouchers(p), v[p].instant)
      BY <2>1, <2>2, <2>3, <2>4, <2>7, <3>1, VerifiedLeads
    <3> QED
      BY <2>3, <3>2
  <2> QED
    BY <2>3, <2>6, <2>7
<1> QED
  BY <1>1, TrustInvariance, PTL

(* Whatever responders replay and however long the steps take: no instant but *)
(* the ones a signature has a right to, and no stale answer on revocation.    *)
THEOREM JudgedInTimeAlways == Spec => []JudgedInTime
<1>1. TrustInv => JudgedInTime
  <2> SUFFICES ASSUME TrustInv PROVE ExpiredNeedsTimestamp /\ RevocationHolds
    BY DEF JudgedInTime
  <2>1. ASSUME NEW p \in Clients, At(p, "passed")
        PROVE  InTime(p) /\ Unrevoked(p) /\ AtSigner(p) /\ v[p].phase \in Closing
    <3>1. v[p].phase \in Closing /\ v[p].phase \in Walking
      BY <2>1 DEF At, Closing, Anchored, Walking
    <3> QED
      BY <3>1 DEF TrustInv, ClientInv, OnTheWay, AtSigner
  <2>2. ExpiredNeedsTimestamp
    <3> SUFFICES ASSUME NEW p \in Clients, At(p, "passed"), v[p].opts.asOf = None
                 PROVE  /\ ~Artifact(p) /\ ~v[p].opts.preferTimestamp => v[p].instant \in Days(p)
                        /\ Insists(p) =>
                              /\ Token(p) # None /\ Token(p).imprintMatches
                              /\ Token(p).leaf \in Leads(v[p].anchors, Token(p).time)
                              /\ v[p].instant = Token(p).time
      BY DEF ExpiredNeedsTimestamp, Insists, Opts
    <3> QED
      BY <2>1 DEF InTime, TokenHolds, Opts
  <2>3. RevocationHolds
    BY <2>1 DEF RevocationHolds, Unrevoked, StillGood, Opts
  <2> QED
    BY <2>2, <2>3
<1> QED
  BY <1>1, TrustInvariance, PTL

(* A sound signature whose certificates are all at hand and have names of     *)
(* their own is never turned down, in whatever order the pool holds them.     *)
THEOREM NoFalseRejectionAlways == Spec => []NoFalseRejection
<1>1. TrustInv => NoFalseRejection
  <2> SUFFICES ASSUME TrustInv, NEW p \in Clients, At(p, "rejected"), v[p].entry > 0, Honest(p)
               PROVE  FALSE
    BY DEF NoFalseRejection
  <2>1. v[p].phase = "rejected" /\ v[p].phase # None
    BY NoneIsNoStep DEF At, Steps
  <2> QED
    BY <2>1 DEF TrustInv, ClientInv, HonestWalk
<1> QED
  BY <1>1, TrustInvariance, PTL
=============================================================================
