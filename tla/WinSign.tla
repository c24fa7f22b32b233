-------------------------------- MODULE WinSign --------------------------------
(***************************************************************************)
(* `psign-tool --mode windows sign` (src/src/win/sign.rs, sign_core.rs,      *)
(* azure_kv_sign.rs) run by run_tool_cli for every command block of a        *)
(* response file.  The targets of a command are signed by a thread pool.     *)
(* Two pieces of process-wide state lie between the threads and              *)
(* SignerSignEx3: the slot kv_callback_state, from which the digest callback *)
(* takes the Key Vault key, and the environment variable                     *)
(* SIGNTOOL_PAGE_HASHES, which the SIP consults and --no-page-hashes sets    *)
(* for the time of the call.                                                 *)
(*                                                                          *)
(* SignerSignEx3, the SIP and the vault are external: the call reads the     *)
(* variable, then runs the callback, then returns.                           *)
(***************************************************************************)
EXTENDS Naturals, Sequences, FiniteSets

CONSTANTS
    Targets,     \* number of targets of every command
    MaxVersion,  \* bound: versions of the vault's certificate
    Scripts      \* the lists of command blocks the process may be given

Op == 1 .. Targets
Version == 1 .. MaxVersion
None == 0
EnvValue == {"unset", "0", "1"}
Exit == {"zero", "partial", "allFailed", "one", "usage"}

(* SignArgs; pinned: --azure-key-vault-certificate-version names version 1.  *)
(* parses: what the argument parser makes of the block.                      *)
Command == [parses : {"yes", "usage", "help"}, keyVault : BOOLEAN, pinned : BOOLEAN,
            noPageHashes : BOOLEAN, skipSigned : BOOLEAN, continueOnError : BOOLEAN,
            azureExit : BOOLEAN, width : Nat]

ASSUME ConstantAssumption ==
    /\ Targets \in Nat \ {0}
    /\ MaxVersion \in Nat \ {0}
    /\ Scripts \subseteq Seq(Command)

VARIABLES
    script,     \* the command blocks
    at,         \* the block being executed
    inherited,  \* SIGNTOOL_PAGE_HASHES when the process starts
    env,        \* SIGNTOOL_PAGE_HASHES now
    slot,       \* kv_callback_state: a certificate version, or None
    vault,      \* the vault's current certificate version
    op,         \* the targets of the current command
    batchExit   \* the combined exit code

vars == <<script, at, inherited, env, slot, vault, op, batchExit>>

Pc == {"waiting", "fetch", "install", "guard", "set", "hash", "callback",
       "restore", "take", "post", "done"}

(* saved: what the guard restores; cert: the embedded certificate's version; *)
(* key: the version the digest was signed with; seen: the variable's value   *)
(* when the SIP consulted it.                                                *)
OpType == [pc : Pc, saved : EnvValue, cert : Version \cup {None},
           key : Version \cup {None}, seen : EnvValue,
           res : {"none", "skipped", "signed", "failed"}]
Waiting == [pc |-> "waiting", saved |-> "unset", cert |-> None, key |-> None,
            seen |-> "unset", res |-> "none"]

TypeOK ==
    /\ script \in Seq(Command)
    /\ at \in 1 .. Len(script) + 1
    /\ inherited \in EnvValue
    /\ env \in EnvValue
    /\ slot \in Version \cup {None}
    /\ vault \in Version
    /\ op \in [Op -> OpType]
    /\ batchExit \in Exit

Init ==
    /\ script \in Scripts
    /\ at = 1
    /\ inherited \in EnvValue
    /\ env = inherited
    /\ slot = None
    /\ vault = 1
    /\ op = [o \in Op |-> Waiting]
    /\ batchExit = "zero"

-----------------------------------------------------------------------------
Active == at <= Len(script)
Args == script[at]

Sequential(c) == c.width = 1 \/ Targets <= 1

(* Bug: a width of 0 is passed on as it is.                                  *)
BugThreads == Args.width

Threads == IF Args.width = 0 THEN 1 ELSE Args.width
Running == {o \in Op : op[o].pc \notin {"waiting", "done"}}
Idle == \A o \in Op : op[o].pc \in {"waiting", "done"}

Goto(o, l) == op' = [op EXCEPT ![o].pc = l]
Failing(o, l) == op' = [op EXCEPT ![o].pc = l, ![o].res = "failed"]

(* A worker takes the next target: skipped when it carries a signature,      *)
(* refused by the validation, or on to its provider.                         *)
Begin(o) ==
    /\ Active
    /\ Args.parses = "yes"
    /\ op[o].pc = "waiting"
    /\ IF Sequential(Args)
       THEN \A i \in Op : i < o => op[i].pc = "done"
       ELSE Cardinality(Running) < Threads
    /\ \/ /\ Args.skipSigned
          /\ op' = [op EXCEPT ![o].pc = "done", ![o].res = "skipped"]
       \/ Failing(o, "done")
       \/ Goto(o, IF Args.keyVault THEN "fetch" ELSE "guard")
    /\ UNCHANGED <<script, at, inherited, env, slot, vault, batchExit>>

(* Token, certificate and its constraints.                                   *)
Fetch(o) ==
    /\ op[o].pc = "fetch"
    /\ \/ op' = [op EXCEPT ![o].pc = "install",
                           ![o].cert = IF Args.pinned THEN 1 ELSE vault]
       \/ Failing(o, "done")
    /\ UNCHANGED <<script, at, inherited, env, slot, vault, batchExit>>

Install(o) ==
    /\ op[o].pc = "install"
    /\ slot' = op[o].cert
    /\ Goto(o, "guard")
    /\ UNCHANGED <<script, at, inherited, env, vault, batchExit>>

(* SignToolPageHashesEnvGuard::install reads the old value, then sets.       *)
GuardRead(o) ==
    /\ op[o].pc = "guard"
    /\ op' = IF Args.noPageHashes
             THEN [op EXCEPT ![o].pc = "set", ![o].saved = env]
             ELSE [op EXCEPT ![o].pc = "hash"]
    /\ UNCHANGED <<script, at, inherited, env, slot, vault, batchExit>>

(* Bug: the variable is set only when it was not set before.                 *)
BugGuardSet(o) ==
    /\ op[o].pc = "set"
    /\ env' = IF env = "unset" THEN "0" ELSE env
    /\ Goto(o, "hash")
    /\ UNCHANGED <<script, at, inherited, slot, vault, batchExit>>

GuardSet(o) ==
    /\ op[o].pc = "set"
    /\ env' = "0"
    /\ Goto(o, "hash")
    /\ UNCHANGED <<script, at, inherited, slot, vault, batchExit>>

(* SignerSignEx3 hashes the subject, or fails.                               *)
Hash(o) ==
    /\ op[o].pc = "hash"
    /\ \/ op' = [op EXCEPT ![o].pc = "callback", ![o].seen = env]
       \/ Failing(o, "restore")
    /\ UNCHANGED <<script, at, inherited, env, slot, vault, batchExit>>

(* azure_kv_digest_callback clones the slot and asks the vault; without Key  *)
(* Vault the provider of the certificate signs.  Then the call returns.      *)
Callback(o) ==
    /\ op[o].pc = "callback"
    /\ \/ /\ Args.keyVault => slot # None
          /\ op' = [op EXCEPT ![o].pc = "restore", ![o].key = IF Args.keyVault THEN slot ELSE None]
       \/ Failing(o, "restore")
    /\ UNCHANGED <<script, at, inherited, env, slot, vault, batchExit>>

AfterReturn == IF Args.keyVault THEN "take" ELSE "post"

GuardDrop(o) ==
    /\ op[o].pc = "restore"
    /\ env' = IF Args.noPageHashes THEN op[o].saved ELSE env
    /\ Goto(o, AfterReturn)
    /\ UNCHANGED <<script, at, inherited, slot, vault, batchExit>>

(* Bug: `report?` comes before the state is taken.                           *)
BugTake(o) ==
    /\ op[o].pc = "take"
    /\ slot' = IF op[o].res = "failed" THEN slot ELSE None
    /\ Goto(o, "post")
    /\ UNCHANGED <<script, at, inherited, env, vault, batchExit>>

Take(o) ==
    /\ op[o].pc = "take"
    /\ slot' = None
    /\ Goto(o, "post")
    /\ UNCHANGED <<script, at, inherited, env, vault, batchExit>>

(* post_sign_rust_sip, or the write of a ZIP comment, may still fail.        *)
Post(o) ==
    /\ op[o].pc = "post"
    /\ \/ /\ op[o].res # "failed"
          /\ op' = [op EXCEPT ![o].pc = "done", ![o].res = "signed"]
       \/ Failing(o, "done")
    /\ UNCHANGED <<script, at, inherited, env, slot, vault, batchExit>>

-----------------------------------------------------------------------------
Failed == {o \in Op : op[o].res = "failed"}

(* Bug: a command that skipped everything returns the warning code.          *)
BugExitCode == IF \A o \in Op : op[o].res = "skipped" THEN "warning" ELSE "zero"

ExitCode ==
    CASE Failed = {} -> "zero"
      [] Failed # {} /\ ~(Args.azureExit /\ Args.continueOnError) -> "one"
      [] Failed = Op /\ Args.azureExit /\ Args.continueOnError -> "allFailed"
      [] OTHER -> "partial"

(* The order of combine_batch_exit_codes: a 2 is the mildest of the others.  *)
Severity(x) == CASE x = "zero" -> 0 [] x = "usage" -> 1 [] x = "partial" -> 2
                 [] x = "allFailed" -> 3 [] OTHER -> 4

(* Bug: the last command decides.                                            *)
BugCombine(acc, next) == next

(* combine_batch_exit_codes.                                                 *)
Combine(acc, next) == IF Severity(acc) < Severity(next) THEN next ELSE acc

(* The rows are collected and the next block starts, whatever came out.      *)
EndCommand ==
    /\ Active
    /\ \A o \in Op : op[o].pc = "done"
    /\ at' = at + 1
    /\ batchExit' = Combine(batchExit, ExitCode)
    /\ op' = [o \in Op |-> Waiting]
    /\ UNCHANGED <<script, inherited, env, slot, vault>>

(* sign_file returns an error before the first target: options, an empty    *)
(* expansion, a --rust-sip backend that does not fit.                        *)
RefuseCommand ==
    /\ Active
    /\ Args.parses = "yes"
    /\ op = [o \in Op |-> Waiting]
    /\ at' = at + 1
    /\ batchExit' = Combine(batchExit, "one")
    /\ UNCHANGED <<script, inherited, env, slot, vault, op>>

(* `e.exit()`: clap answers a block it does not parse, and the process ends   *)
(* with clap's own code, 2 for a usage error and 0 for a request for help.   *)
ParserExit ==
    /\ Active
    /\ Args.parses # "yes"
    /\ op = [o \in Op |-> Waiting]
    /\ at' = Len(script) + 1
    /\ batchExit' = IF Args.parses = "usage" THEN "usage" ELSE "zero"
    /\ UNCHANGED <<script, inherited, env, slot, vault, op>>

(* A new version of the certificate in the vault.                            *)
Rotate ==
    /\ Active
    /\ vault < MaxVersion
    /\ vault' = vault + 1
    /\ UNCHANGED <<script, at, inherited, env, slot, op, batchExit>>

Sign(o) ==
    \/ Fetch(o) \/ Install(o) \/ GuardRead(o) \/ GuardSet(o) \/ Hash(o)
    \/ Callback(o) \/ GuardDrop(o) \/ Take(o) \/ Post(o)
Next == EndCommand \/ RefuseCommand \/ ParserExit \/ Rotate
            \/ \E o \in Op : Begin(o) \/ Sign(o)

(* The pool hands out targets and a started target goes on: every request    *)
(* of the HTTP client and of SignerSignEx3 ends or times out.                *)
Fairness == WF_vars(EndCommand \/ ParserExit) /\ WF_vars(\E o \in Op : Begin(o))
                /\ \A o \in Op : WF_vars(Sign(o))
Spec == Init /\ [][Next]_vars /\ Fairness

-----------------------------------------------------------------------------
(* Properties.                                                               *)

(* Between commands, and while no target is being signed, the process keeps  *)
(* no Key Vault token and key URL (state.take() in                           *)
(* sign_with_azure_key_vault), however many threads installed theirs.        *)
SlotCleared == Idle => slot = None

(* The digest is signed with the key of the certificate that is embedded,    *)
(* when targets are signed one by one or all use the pinned version: the     *)
(* slot is shared, so otherwise a rotation between two fetches may mix them. *)
OwnKey ==
    \A o \in Op : (/\ Active /\ op[o].key # None
                   /\ Sequential(Args) \/ Args.pinned) => op[o].key = op[o].cert

(* One by one, --no-page-hashes reaches the SIP whatever the process         *)
(* inherited and whatever the targets and commands before did.               *)
NphHonoured ==
    \A o \in Op : (/\ Active /\ Sequential(Args) /\ Args.noPageHashes
                   /\ op[o].res = "signed") => op[o].seen = "0"

(* A process whose commands were all sequential is left with the environment *)
(* it inherited after each of them, failed ones included.                    *)
EnvRestored ==
    (Idle /\ \A i \in 1 .. Len(script) : i <= at => Sequential(script[i])) => env = inherited

(* The Key Vault slot that all threads share hands the right key to whoever  *)
(* may rely on it, and is empty when nobody is signing.                      *)
SlotIsSound == SlotCleared /\ OwnKey

(* The environment variable the guard writes reaches the SIP it is meant for *)
(* and nothing after it, as long as targets are signed one by one.           *)
PageHashesHeld == NphHonoured /\ EnvRestored

(* No later command hides an earlier failure: the combined exit code never   *)
(* gets milder by the order of combine_batch_exit_codes, and a command with  *)
(* a failed target makes it non-zero.  A block that clap answers ends the    *)
(* process with clap's own code instead: after a usage error it is still     *)
(* non-zero, though milder than that of a failed block before; a request for *)
(* help ends with 0 whatever happened.                                       *)
FailureIsRemembered ==
    [][(Active => Args.parses # "help") =>
          /\ batchExit # "zero" => batchExit' # "zero"
          /\ (at' # at /\ Failed # {}) => batchExit' # "zero"
          /\ (Active => Args.parses = "yes") => Severity(batchExit) <= Severity(batchExit')]_vars

(* The process comes to its end, also with                                   *)
(* --max-degree-of-parallelism 0.                                            *)
Terminates == <>(at = Len(script) + 1)

(* win/sign_core.rs: "SAFETY: signing runs on the main thread; matches       *)
(* native SignTool `/nph` env semantics", and cli.rs: --no-page-hashes "sets *)
(* `SIGNTOOL_PAGE_HASHES=0` for `SignerSignEx3`".                            *)
NphReachesSip ==
    \A o \in Op : (Active /\ Args.noPageHashes /\ op[o].res = "signed") => op[o].seen = "0"
=============================================================================
