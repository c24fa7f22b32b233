---------------------------- MODULE AuthRootCache ----------------------------
(* The cache of the Microsoft AuthRoot CAB, ~/.psign/authroot: the CAB, the   *)
(* metadata file with its download time, and one temporary file per process   *)
(* of the command line tool.  The PowerShell module keeps the same two files  *)
(* in the same directory with code of its own, and one temporary name for all *)
(* of its processes.  No lock is taken: clients find out by looking at files  *)
(* that others replace, and any client may be killed between two steps.       *)
EXTENDS Integers, FiniteSets

CONSTANTS
    Tools,          \* processes of psign-tool
    Modules,        \* processes of the PowerShell module
    MaxAge,         \* PSIGN_AUTHROOT_MAX_AGE_DAYS
    MaxLag,         \* days between the download of a refresh and its end
    Skews,          \* how far the wall clock of the machine may be ahead, in days
    MaxDay,         \* bound: days that pass
    Rosters         \* bound: the sets of clients that may use one cache

Clients == Tools \cup Modules

ASSUME CacheAssumption ==
    /\ MaxAge \in Nat \ {0} /\ MaxLag \in Nat /\ MaxDay \in Nat /\ Rosters \subseteq SUBSET Clients
    /\ Skews \subseteq Nat /\ 0 \in Skews
    /\ \E m \in Skews : \A k \in Skews : k <= m
    /\ Tools \cap Modules = {} /\ "shared" \notin Clients

VARIABLES
    now,            \* the day, as it passes
    skew,           \* the wall clock shows now + skew
    cab,            \* authrootstl.cab
    meta,           \* the download time in authrootstl.cab.json
    tmp,            \* the temporary files
    pc,             \* where each client is
    got,            \* the bytes each client has in memory
    stamp,          \* the download time each client is about to record
    fresh,          \* the day each client took the CAB for fresh, if it did
    held            \* what the file each client has open for writing has become

cacheVars == <<now, skew, cab, meta, tmp, pc, got, stamp, fresh, held>>

NoDay == -1
NoMeta == -1        \* no metadata file, or one that cannot be parsed
(* A CAB is told by the day it was downloaded: the URL serves one at a time.  *)
(* by: who made the file; "shared" is a process of the module that opened the *)
(* temporary file while another one was using it.                             *)
NoFile == [day |-> NoDay, content |-> "part", by |-> "nobody"]
Download == [day : 0..MaxDay, content : {"cab", "part", "empty"}, by : {"tool", "module", "shared"}]
File == Download \cup {NoFile}

wall == now + skew
Exists(f) == f # NoFile

(* The name of the temporary file: authrootstl.cab.tmp-<pid> for the tool,    *)
(* authrootstl.cab.tmp for the module.                                        *)
Slot(p) == IF p \in Tools THEN p ELSE "shared"
Slots == Tools \cup {"shared"}
Kind(p) == IF p \in Tools THEN "tool" ELSE "module"

(* From the opening of the temporary file to its move.                        *)
UsingTemp == {"writing", "rename", "remove", "again"}
Refreshing == {"write", "record", "recording"} \cup UsingTemp
PCs == {"away", "idle", "judge", "fetch", "read", "verify", "failed"} \cup Refreshing

CacheTypeOK ==
    /\ now \in 0..MaxDay /\ skew \in Skews
    /\ cab \in File /\ meta \in Int
    /\ tmp \in [Slots -> File]
    /\ pc \in [Clients -> PCs]
    /\ got \in [Clients -> File]
    /\ stamp \in [Clients -> Int]
    /\ fresh \in [Clients -> {NoDay} \cup 0..MaxDay]
    /\ held \in [Clients -> {"temp", "cab", "gone"}]

CacheInit ==
    /\ now = 0 /\ skew \in Skews
    /\ cab = NoFile /\ meta = NoMeta
    /\ tmp = [s \in Slots |-> NoFile]
    /\ \E r \in Rosters : pc = [p \in Clients |-> IF p \in r THEN "idle" ELSE "away"]
    /\ got = [p \in Clients |-> NoFile]
    /\ stamp = [p \in Clients |-> 0]
    /\ fresh = [p \in Clients |-> NoDay]
    /\ held = [p \in Clients |-> "temp"]

Goto(p, l) == pc' = [pc EXCEPT ![p] = l]

(* What the client held in memory for a refresh is gone.                      *)
Settle(p, l) ==
    /\ Goto(p, l)
    /\ got' = [got EXCEPT ![p] = NoFile]
    /\ stamp' = [stamp EXCEPT ![p] = 0]
    /\ fresh' = [fresh EXCEPT ![p] = NoDay]
    /\ held' = [held EXCEPT ![p] = "temp"]

(* The process ends, or leaves the resolution.  What a process of the tool    *)
(* leaves behind has the name of its own number, which nobody asks for.       *)
Forget(p) ==
    /\ Settle(p, "idle")
    /\ tmp' = [s \in Slots |-> IF s = p THEN NoFile ELSE tmp[s]]
    /\ UNCHANGED <<now, skew, cab, meta>>

(* What is left of a refresh that fails after the download: an error of the   *)
(* tool; the module catches the exception and takes the CAB it finds.         *)
GiveUp(p) ==
    /\ Settle(p, IF p \in Modules /\ Exists(cab) THEN "read" ELSE "failed")
    /\ UNCHANGED <<now, skew, cab, meta, tmp>>

(* get_or_download_authroot_cab_with: cab_path.exists().                      *)
Look(p) ==
    /\ pc[p] = "idle"
    /\ Goto(p, IF Exists(cab) THEN "judge" ELSE "fetch")
    /\ UNCHANGED <<now, skew, cab, meta, tmp, got, stamp, fresh, held>>

(* A download time in the future has no age, and is not stale.                *)
is_stale(p) ==
    \/ p \in Tools /\ ~Exists(cab)
    \/ meta = NoMeta
    \/ wall - meta > MaxAge

Judge(p) ==
    /\ pc[p] = "judge"
    /\ IF is_stale(p) THEN Goto(p, "fetch") /\ UNCHANGED fresh
       ELSE Goto(p, "read") /\ fresh' = [fresh EXCEPT ![p] = now]
    /\ UNCHANGED <<now, skew, cab, meta, tmp, got, stamp, held>>

Answered(p, day, content) ==
    got' = [got EXCEPT ![p] = [day |-> day, content |-> content, by |-> Kind(p)]]

(* Bug: the download time is of the wall clock.                              *)
BugFetchWall(p) ==
    /\ pc[p] = "fetch"
    /\ Answered(p, wall, "cab")
    /\ Goto(p, "write")
    /\ UNCHANGED <<now, skew, cab, meta, tmp, stamp, fresh, held>>

(* Bug: a finished temporary file is taken up instead of a download.         *)
BugFetchResumes(p) ==
    /\ pc[p] = "fetch"
    /\ IF tmp[Slot(p)].content = "cab"
       THEN got' = [got EXCEPT ![p] = tmp[Slot(p)]] /\ Goto(p, "rename")
       ELSE Answered(p, now, "cab") /\ Goto(p, "write")
    /\ UNCHANGED <<now, skew, cab, meta, tmp, stamp, fresh, held>>

(* Only the tool turns an empty answer down.                                  *)
Fetch(p) ==
    /\ pc[p] = "fetch"
    /\ Answered(p, now, "cab") \/ (p \in Modules /\ Answered(p, now, "empty"))
    /\ Goto(p, "write")
    /\ UNCHANGED <<now, skew, cab, meta, tmp, stamp, fresh, held>>

(* No answer, or an empty one that the tool got.                              *)
FetchFails(p) ==
    /\ pc[p] = "fetch"
    /\ Settle(p, IF Exists(cab) THEN "read" ELSE "failed")
    /\ UNCHANGED <<now, skew, cab, meta, tmp>>

(* The temporary file is truncated and then filled.  The module's write is    *)
(* refused while another process has the file open for writing.               *)
Writers(s) == {q \in Clients : Slot(q) = s /\ pc[q] = "writing" /\ held[q] = "temp"}
Sharers(p) == {q \in Clients \ {p} : Slot(q) = Slot(p) /\ pc[q] \in UsingTemp}

Own(p) == IF Sharers(p) = {} THEN got[p] ELSE [got[p] EXCEPT !.by = "shared"]

OpenTemp(p) ==
    /\ pc[p] = "write" /\ Writers(Slot(p)) = {}
    /\ got' = [got EXCEPT ![p] = Own(p)]
    /\ tmp' = [tmp EXCEPT ![Slot(p)] = [Own(p) EXCEPT !.content = "part"]]
    /\ Goto(p, "writing")
    /\ UNCHANGED <<now, skew, cab, meta, stamp, fresh, held>>

(* The bytes go to the file that was opened, wherever it has been moved.      *)
WriteTemp(p) ==
    /\ pc[p] = "writing"
    /\ tmp' = IF held[p] = "temp" THEN [tmp EXCEPT ![Slot(p)] = got[p]] ELSE tmp
    /\ cab' = IF held[p] = "cab" THEN got[p] ELSE cab
    /\ held' = [held EXCEPT ![p] = "temp"]
    /\ Goto(p, "rename")
    /\ UNCHANGED <<now, skew, meta, got, stamp, fresh>>

WriteTempFails(p) ==
    /\ pc[p] \in {"write", "writing"}
    /\ GiveUp(p)

(* replace_file, and File.Move of the module: another process that has the    *)
(* file open goes on writing to what is now the CAB.                          *)
Move(p) ==
    /\ Exists(tmp[Slot(p)])
    /\ cab' = tmp[Slot(p)]
    /\ tmp' = [tmp EXCEPT ![Slot(p)] = NoFile]
    /\ held' = [q \in Clients |-> CASE held[q] = "cab" -> "gone"
                                   [] q \in Writers(Slot(p)) -> "cab"
                                   [] OTHER -> held[q]]
    /\ Goto(p, "record")

Rename(p) ==
    /\ pc[p] = "rename" /\ Move(p)
    /\ UNCHANGED <<now, skew, meta, got, stamp, fresh>>

(* Bug: a failed rename is recorded like one that succeeded.                 *)
BugRenameFails(p) ==
    /\ pc[p] = "rename" /\ Goto(p, "record")
    /\ UNCHANGED <<now, skew, cab, meta, tmp, got, stamp, fresh, held>>

RenameFails(p) ==
    /\ pc[p] = "rename"
    /\ IF p \in Tools /\ Exists(cab)
       THEN Goto(p, "remove") /\ UNCHANGED <<now, skew, cab, meta, tmp, got, stamp, fresh, held>>
       ELSE GiveUp(p)

RemoveOld(p) ==
    /\ pc[p] = "remove" /\ Exists(cab)
    /\ cab' = NoFile /\ Goto(p, "again")
    /\ held' = [q \in Clients |-> IF held[q] = "cab" THEN "gone" ELSE held[q]]
    /\ UNCHANGED <<now, skew, meta, tmp, got, stamp, fresh>>

RenameAgain(p) ==
    /\ pc[p] = "again" /\ Move(p)
    /\ UNCHANGED <<now, skew, meta, got, stamp, fresh>>

ReplaceFails(p) ==
    /\ pc[p] \in {"remove", "again"}
    /\ GiveUp(p)

(* The time is read when the metadata is written, not when the CAB came.      *)
OpenMeta(p) ==
    /\ pc[p] = "record"
    /\ stamp' = [stamp EXCEPT ![p] = wall]
    /\ meta' = NoMeta /\ Goto(p, "recording")
    /\ UNCHANGED <<now, skew, cab, tmp, got, fresh, held>>

WriteMeta(p) ==
    /\ pc[p] = "recording"
    /\ meta' = stamp[p] /\ Settle(p, "read")
    /\ UNCHANGED <<now, skew, cab, tmp>>

WriteMetaFails(p) ==
    /\ pc[p] \in {"record", "recording"}
    /\ GiveUp(p)

(* load_trust_material reads the file by its path: another client may have    *)
(* removed or replaced it since.  What is not a whole CAB does not open.      *)
ReadCab(p) ==
    /\ pc[p] = "read"
    /\ IF cab.content = "cab"
       THEN Goto(p, "verify") /\ got' = [got EXCEPT ![p] = cab] /\ UNCHANGED <<stamp, fresh, held>>
       ELSE Settle(p, "failed")
    /\ UNCHANGED <<now, skew, cab, meta, tmp>>

Kill(p) ==
    /\ pc[p] \notin {"away", "idle", "verify", "failed"}
    /\ Forget(p)

CacheStep(p) ==
    \/ Look(p) \/ Judge(p) \/ Fetch(p) \/ FetchFails(p)
    \/ OpenTemp(p) \/ WriteTemp(p) \/ WriteTempFails(p)
    \/ Rename(p) \/ RenameFails(p) \/ RemoveOld(p) \/ RenameAgain(p) \/ ReplaceFails(p)
    \/ OpenMeta(p) \/ WriteMeta(p) \/ WriteMetaFails(p)
    \/ ReadCab(p)

(* A refresh ends within MaxLag days of its download: requests have a timeout *)
(* and the rest is a handful of calls on local files.                         *)
Tick ==
    /\ now < MaxDay
    /\ \A p \in Clients : pc[p] \in Refreshing => now + 1 - got[p].day <= MaxLag
    /\ now' = now + 1
    /\ UNCHANGED <<skew, cab, meta, tmp, pc, got, stamp, fresh, held>>

SetClock ==
    /\ skew' \in Skews \ {skew}
    /\ UNCHANGED <<now, cab, meta, tmp, pc, got, stamp, fresh, held>>

CacheWorld == Tick \/ SetClock

(* The client is done with its CAB, or reports that it has none.              *)
Leave(p) ==
    /\ pc[p] \in {"verify", "failed"}
    /\ Forget(p)

CacheNext == (\E p \in Clients : CacheStep(p) \/ Leave(p) \/ Kill(p)) \/ CacheWorld

CacheSpec == CacheInit /\ [][CacheNext]_cacheVars
-----------------------------------------------------------------------------
(* What a process of the tool puts into the cache is a whole CAB, and a       *)
(* partly written one is found there only after two processes of the module   *)
(* have used their one temporary file at the same time: it is replaced by a   *)
(* rename of a finished file, also when clients race or are killed            *)
(* (cache_authroot_cab_bytes, replace_file).                                  *)
CabIsWhole ==
    Exists(cab) => /\ cab.by = "tool" => cab.content = "cab"
                   /\ cab.by # "shared" => cab.content # "part"

Spread == CHOOSE m \in Skews : \A k \in Skews : k <= m

(* How old a CAB may be when it is put into the cache: as old as a refresh    *)
(* may be, or as one whose file a refresh of that age has moved.              *)
Late(f) == IF f.by = "shared" THEN 2 * MaxLag ELSE MaxLag

(* A CAB taken from the cache without a refresh and without a warning was     *)
(* downloaded at most the age limit ago, plus what a refresh of one client    *)
(* and of another that races it may take, plus what the wall clock may have   *)
(* been ahead, wherever clients were killed (is_stale,                        *)
(* cache_authroot_cab_bytes).                                                 *)
FreshRoots == \A p \in Clients :
    pc[p] = "verify" /\ fresh[p] # NoDay =>
        got[p].day + MaxAge + MaxLag + Late(got[p]) + Spread >= fresh[p]

(* What a client finds is good: the tool never leaves less than a whole CAB   *)
(* in the cache, and one that is taken without a refresh is no older than     *)
(* the clients may be late.                                                   *)
CacheIsSound == CabIsWhole /\ FreshRoots

(* A refresh puts nothing older in place of what the cache holds by more than *)
(* the time one refresh may take, or two that share a temporary file          *)
(* (replace_file).                                                            *)
NoRollback == [][Exists(cab) /\ Exists(cab') => cab'.day + Late(cab') >= cab.day]_cacheVars
=============================================================================
