# psign: TLA+ models, checks and proofs

psign signs and verifies Authenticode, OPC, NuGet, MSIX and related files on
Windows and on other systems. This directory models the parts of it that keep
state, run in several threads or processes, depend on the order of commands, or
fail half way. It model-checks them with TLC on small instances, and proves the
most important properties with TLAPS for every size.

Paths below are relative to the repository.

## 1. Inventory

| component | source | state | operations | hard behaviour |
|---|---|---|---|---|
| code orchestrator (`psign-tool code`) | `src/code.rs` | plan (forest of inputs and archive entries), bytes of every node, outputs, report lines | plan, sign inside-out, write outputs, collect, exit | chunks of worker threads; errors at every level with several early exits; signatures that cover what nested signing rewrote |
| portable certificate store | `src/cert_store.rs` | `<SHA1>.der` and `<SHA1>.key` in a directory | import, import-pfx, remove, list, print, export, resolve for signing | no lock: several processes, writes that fail part way, kills between two file operations |
| portable sign batch (`--mode portable sign`) | `src/portable_sign.rs`, `crates/psign-portable-core` | targets, temporary files beside them, results | skip check, sign to temporary, self-check, copy over target, clean up | thread pool over targets that may name one file twice; truncating copy; every step may fail |
| Windows signer (`--mode windows sign`) | `src/win/sign.rs`, `sign_core.rs`, `azure_kv_sign.rs`, `zip_authenticode.rs` | a process-wide slot with the Key Vault key, an environment variable | sign the targets with `SignerSignEx3` and a digest callback | process-wide state under a thread pool; certificate rotation |
| command blocks | `src/lib.rs`, `src/response_argv.rs`, `src/native_argv.rs` | list of blocks, combined exit code | run each block, combine exit codes | a failure hidden by a later block |
| remote signing providers | `crates/psign-codesigning-rest`, `crates/psign-azure-kv-rest`, `src/signing_provider.rs` | token, long-running operation | acquire token, submit, poll | time-outs against a late success, token expiry, rotation between requests |
| AuthRoot cache | `crates/psign-authenticode-trust/src/authroot_cache.rs`, `dotnet/.../Trust/AuthRootCache.cs` | cached CAB, metadata with its download time, temporary files | look, judge the age, download, replace, record, read | two programs share the directory without a lock; kill between rename and metadata; a wall clock that is wrong |
| trust verification | the rest of `crates/psign-authenticode-trust` | anchors, pool of certificates, chain, instant | load anchors, check digest, choose instant, verify token, walk, fetch issuers, revocation, verify chain | replayed answers, namesakes, expiry against timestamps, loops in the walk |
| formats | `crates/psign-sip-digest`, `psign-opc-sign`, `psign-portable-core` | the bytes of the file | digest, sign, append, stamp, remove, verify, inspect | offsets, padding, order of regions; signing what is signed; a signing split over three commands |
| file catalogs | `crates/psign-portable-core`, `catalog_digest.rs`, `crates/psign-digest-cli` | the catalog file, the tree it lists | new, sign, verify, member check, test | names are flattened and lower-cased; the tree changes between commands |
| digest command line | `crates/psign-digest-cli` | files between commands | one command per step of the above | each command reads the file and the clock anew |
| other Windows commands | `src/win/verify*.rs`, `timestamp*.rs`, `catdb.rs`, `remove*.rs`, `rdp.rs` | none between calls | Win32 calls | decided outside the repository |
| FFI library, test server, PowerShell cmdlets | `crates/psign-portable-ffi`, `src/bin/psign-server.rs`, `dotnet`, `PowerShell` | none or test only | marshalling | none of their own |

Interaction: the command line (`src/lib.rs`) dispatches a block to the code
orchestrator, to the portable batch or to the Windows signer. All three call a
signer for one file, and the signer takes its identity from the certificate
store, a PFX, Key Vault or Artifact Signing. Verification takes its roots from
the AuthRoot cache (`TrustVerify` extends `AuthRootCache` and takes its steps).
Components share state only through the file system, except for the slot and
the variable of the Windows signer.

What makes each of them correct, in one line each:

* orchestrator: no signature over bytes that change later, no entry forgotten,
  nothing replaced silently, a truthful report, an end;
* certificate store: a key never beside a foreign certificate, never rewritten;
  what was imported can be used, unless a write of it was cut short;
* portable batch: no signature lost, nothing torn or mismatched without an
  error, no temporary file left that could be removed, an exit code that tells
  the truth;
* Windows signer: no key left in the process, the right key per target, the
  environment as it was, failures remembered;
* remote signing: signature, certificate and named certificate belong together
  whatever the service does meanwhile, no needless failure, an end;
* AuthRoot cache: never a torn CAB by the tool, never a stale one taken for
  fresh, no way back to a much older one;
* trust verification: nobody trusted whom the options do not let vouch, expiry
  and revocation judged at an instant the signature has a right to, no sound
  signature turned down, an end;
* formats: what is signed verifies, another content does not verify under the
  signature documents that were made, signing changes signatures only, and a
  reader is told what is so;
* catalogs: Valid means that the files are as listed, and files as listed are
  Valid.

`PROJECT.json` lists the hazards at their lines with the properties that cover
them.

## 2. Modules

| module | what it is |
|---|---|
| `BatchSigning` | abstract contract of a batch: an item is settled once, no failure is hidden, success means all settled; with `StopsEarly`, nothing begins after a failure |
| `CodeOrchestrator` (+ `MC`, `Proofs`) | `src/code.rs`; refines `BatchSigning` with `StopsEarly = TRUE` |
| `CertStore` (+ `MC`, `Proofs`) | `src/cert_store.rs` |
| `SignBatch` (+ `MC`, `Proofs`) | `src/portable_sign.rs` over `psign-portable-core`; refines `BatchSigning` with `StopsEarly = FALSE` |
| `WinSign` (+ `MC`, `Proofs`) | `src/win/sign.rs`, `sign_core.rs`, `azure_kv_sign.rs` under the block loop of `src/lib.rs` |
| `RemoteSigning` (+ `MC`) | the remote half of `CodeSigner` in `src/code.rs` over `psign-codesigning-rest` and `psign-azure-kv-rest`, with the services as environment |
| `AuthRootCache` (+ `MC`) | the cache of the AuthRoot CAB, of the tool and of the PowerShell module |
| `TrustVerify` (+ `MC`, `Proofs`) | `psign-authenticode-trust`; extends `AuthRootCache`, and its `Proofs` hold those of the cache |
| `Cms` | the PKCS#7 documents and the signing material, as operators |
| `FileFormats` | PE, CAB, MSI, PowerShell scripts, ZIP Authenticode, as operators over `Cms` |
| `PackageFormats` | MSIX and bundles, NuGet, VSIX, ClickOnce, App Installer |
| `Inspection` | verification of a file and the status a reader is told |
| `SignedFile` (+ `MC`, `Proofs`, `SignedVerifiesProofs`) | one file under the commands, built on the four above |
| `FileCatalog` (+ `MC`) | catalogs over a tree of files, built on `FileFormats` |
| `RemoteCatalogProofs` | the proofs about `RemoteSigning` and `FileCatalog` |

The `Bug...` operators are plausible mistakes; each stands in front of the
definition it would replace, and `PROJECT.json` names the property that finds
it.

### CodeOrchestrator

A node is a selected file or an archive entry; `Parent` and `Rank` give the
forest and the archive order. Bytes are revisions: `rev[n]` is 0 for the input
and 1 once rewritten, `own[n]` is the revision of the publisher manifest inside
`n`, `cover[n][m]` the revision of `m` that the signature or block map of `n`
hashes. `st[n]` is a worker's progress. `BuildPlan`/`PlanFails` are
`build_code_plan`, `ResolveSigner` the head of `execute_code_plan`,
`Spawn`/`Collect`/`Abort`/`Finish` its chunk loop, `Leave`, `Keep`, `Refuse`,
`WriteDescriptor`, `SignLeaf`, `Open`, `Seal`, `SignFails` the arms of
`execute_node` and `sign_nested_package_entries`, `WriteOutput`/`WriteFails` the
`fs::write` of an output. Formats that take the same path share a name. Glob
syntax, XML and ZIP bytes and the cryptography are not modelled.

### CertStore

Each `exists()`, open, write and remove is one step. A `.der` is absent, partial
or whole; a `.key` is absent, partial, the matching key or another one.
`linked[p]` says whether the file that `p` has open still has its name, so that
a remove during a write behaves as on Unix. `WriteFails` is a write of either
file that ends part way with an error, `Crash` kills a process between two
steps; both leave what is written under the final name. `imported` and `raced`
are ghosts that state what a user may expect, and `cut` that of the files whose
write was cut short and which nobody removed or completed since. That a read
fails by itself, and the branch without Unix permissions (`fs::write` of the
key), are not modelled.

### SignBatch

An operation is a position of the target list; `Identity` maps spellings to
files, as `canonicalize` does. A file's content is whether it is whole, which
operations' signatures it carries and whether its digests match. `tmp[p]` is the
file at `temporary_output_path(p)`. The two routes (`portable_sign` with its
self-check, and the Artifact Signing runners) share the actions and differ in
`Supported`, `CoreSkips`, `SelfChecked` and `Cleanup`. Format `pe` stands for
the extensions that both `infer_format` and `is_pe_winmd_extension` know,
`peother` for `.scr`, `.cpl` and `.mui`, which only the first knows. `Cleanup`
may fail to remove the temporary file, which puts its path in `stuck`. Copies
are two steps, truncate and write. A kill in the middle of a copy is outside: the truncating
copy then leaves a torn target, which no property promises otherwise.

### WinSign

`slot` is `kv_callback_state`, `env` the variable `SIGNTOOL_PAGE_HASHES`. The
steps of a target are the ones between which other threads get in: fetch the
certificate, install the slot, read and set the variable, hash, call back,
restore, take the slot, post-process. `Rotate` is a new certificate version in
the vault. `EndCommand`, `RefuseCommand` and `ParserExit` are `run_tool_cli`'s
loop. `SignerSignEx3` is external: it reads the variable, then calls back, then
returns.

### RemoteSigning

A job is one call of `sign_pkcs7_remote`. Certificates are numbers in the order
in which the service uses them; a digest is the certificate that the signed
attributes name, `None` when they name none, or the `Probe` of zero bytes.
`SignerToken` and `SignerCertificate` are `resolve_code_signer` for Key Vault,
`Start` takes the hint, `TryCredential` is one credential of
`acquire_codesigning_token`, `Submit` and `Poll` are the long-running operation,
`KvSign` the one request of Key Vault, `Check` the comparison of certificates
with its one repetition. `Complete` and `Rotate` belong to the services and may
happen, or not, at any time. A request that failed for the client may still have
started an operation. The same submit and poll code serves `portable_sign`,
where no attribute names the certificate: jobs outside `named`. URLs, the
download of a profile's root and option parsing are left out.

### AuthRootCache

A CAB is told by the day it was downloaded and whether it is whole. Every call
on a file is a step of its own: `Look` is `cab_path.exists()`, `Judge` is
`is_stale`, `Fetch` the download, `OpenTemp`/`WriteTemp` the truncating write,
`Rename`, `RemoveOld` and `RenameAgain` are `replace_file` with its fallback,
`OpenMeta`/`WriteMeta` the metadata, whose time is read after the CAB was moved.
Each may fail, and `GiveUp` is what then happens: the tool ends with an error,
the module takes the CAB it finds. The tool turns an empty answer down, the
module writes it into the cache. `Kill` may come between any two steps. `now`
is the day, `wall` what the machine shows; `SetClock` changes the difference.
The temporary file is named after the process for the tool and has one name for
all processes of the module (`Slot`). Of these one may move the file while
another writes it, which then goes on writing to what is the CAB now (`held`); a
second one that opens a file in use marks it as `shared`. `Rosters` are the sets
of clients that use the cache in one behaviour.

### TrustVerify

`v[p]` is one verification of client `p`: the phase it is in, the entry of the
file, anchors, instant, pool and chain. A certificate is its fields (`X509`), a
signature a record of what the code finds out about it (does its digest match,
does it parse, its attributes in order). `Resolve` takes the steps of the cache;
`LoadTrust`, `CheckDigest`, `ChooseInstant`, `VerifyToken`, `VerifySigner`,
`Walk`, `FetchIssuers`, `RequireAnchor`, `Ocsp...`, `Crl...`, `CheckChain`,
`ReportRoot` and `NextEntry` are the rest in the order of the code. A timestamp
token goes through the same walk with `role = "tsa"`. An OCSP or CRL answer is
of any day up to now and need not be authentic; `Revoke` may happen at any time.
The properties compare the result with definitions that do not look at the
steps: `Leads` (the certificates from which valid, signed links lead to a set),
`Vouchers` (whom the options let vouch), `Honest` (a signature that is sound).

### The formats and SignedFile

A file is a record of the fields its format is read by and a sequence of cells
(PE, CAB, script, ZIP, manifests), streams (MSI) or parts (packages). A digest
is the pair of algorithm and what it was taken of, so that two digests agree
only when what they cover does; an RSA value is the pair of key and digest. An
operator that can fail gives the set of its results, empty for an error.
Offsets, padding, the position of the certificate table, the reserve block of a
cabinet, the comment of a ZIP and the order of the parts are kept; lengths are
in cells, with `Align` and `MaxComment` for the constants of the code.

`Verify` has the two ways of the code: `picky`, which compares `messageDigest`
with the content, and the fallback, which does not and takes SHA-256 only
(`pkcs7.rs:1308-1407`). Detached documents (NuGet, App Installer) always go the
second way; an `SpcIndirectDataContent` goes it when `picky` cannot parse it.
What `picky` parses is decided outside the repository: `PickyKinds`, the kinds
with data of a type it has, is a constant, any subset of the kinds in the
theorems and `{"pe", "msi", "script", "msix"}` in the runs, which leaves
cabinets to the fallback, as the code's own comment observes
(`pkcs7.rs:1311-1313`).

`SignedFile` puts one file into the hands of the commands: `Sign` (one shot),
`Prehash`, `RemoteSign`, `FromSignature` and `Embed` (split signing; for the XML
documents `ClickOnceFromSignature` and `AppInstallerFromSignature`),
`TimestampPe`, `ClearSignature`, `ExtractPePkcs7`, `AppendPePkcs7`,
`SetPublisher`, the owner's `Edit`, and the clock. `sealed` is the ghost of the
contents somebody signed, `last` the ghost of what the last command was due to
do. `Content` is written apart from the digests: what the owner put in.
`Signable` says what signing is not meant for (see section 5), `Accepted` which
digest algorithms verification takes in the format. `Edit` changes cells, moves
bytes between the streams of an installer, changes, adds and takes out parts,
and takes a declaration out of the content types of an app package; a signature
document stays as a command made it, or goes as a whole. A session of a
split signing remembers as a ghost the `contents` its commands found.

The assumptions on the constants say where a behaviour starts: `OwnerFile` (in
`FilesAssumption`) that a file comes from its owner with content only and no
signature, in the fields its format has, with at most one part of a name;
`Complete` that it has what signing is refused without (a manifest, content
types, an end tag); `RequestsAssumption` and `SplitAssumption` what a request
can say, and that the certificate of the remote signer is the one of its key.

### FileCatalog

`disk` is a function from paths to files, a path a sequence of names, `ToLower`
the comparison of names. `NewFileCatalog` and `SignCatalog` collect subjects and
make the list; `EditFile`, `RemoveFile`, `SignFile` and `EditCatalog` are what
happens between commands. The commands that only read
(`portable_test_file_catalog`, `verify_catalog_member`, `catalog_signature`) are
operators that the invariants evaluate in every state, for every list of paths
and of files to skip. `listed` remembers the files a catalog was made of. The
PE files of the tree may be any; `IsImage` says of one that it is content and
padding, then the certificate table to the end of the file, and `SameHeld` when
a test may take a file for the one that was listed (see section 5).
`CatalogAssumption` says that no file lies below another and that no directory
is a file.

## 3. Runs

| run | what it shows |
|---|---|
| `CodeOrchestrator` | three inputs, one of them a container with a nested package and a loose entry, 1 or 2 workers: coverage, completeness, truthful outcomes, refinement and termination |
| `CertStore` | three processes, two certificates, four commands, writes that fail anywhere, one kill: keys never foreign, rewritten or left behind; what was imported is usable and its reads succeed, with the exceptions of section 5 |
| `SignBatch` | two or three entries over two files, one with two spellings, both routes, every combination of skip, append and continue, temporary files that cannot be removed: targets, signatures and skipped files are as reported; refinement |
| `WinSign` | two targets, one to three blocks, widths 0, 1 and 2, one rotation: the slot, the variable and the exit code; termination |
| `RemoteSigning` | one job with either provider, chains of 0 to 3 credentials, 3 polls, 3 rotations; every job ends |
| `AuthRootCache` | a process of the tool and one of the module, or two of the module, five days, a clock that may be a day ahead, empty answers, failures and kills anywhere |
| `TrustVerify` | ten certificates (a namesake authority, a self-issued signer, two Artifact Signing profiles), some forty combinations of file and options; every verification ends |
| `SignedFile` | thirteen files of ten formats, nine requests, four commands or edits in any order, content types included |
| `FileCatalog` | a tree with a directory, an image, images with bytes behind their table and names that differ in case, three changes |
| `CodePlanIsCarriedOut` | violated: a package in a nested `.zip` is planned, not signed, and the exit code is 0 |
| `WinSignNph` | violated: with two threads page hashes are not suppressed for some target |
| `SignedFileUtf16` | violated: a UTF-16LE script that the tool signed does not verify |

The three violated runs each check one sentence of a comment or a document; the
findings in `PROJECT.json` quote it.

Bounds. Nothing in the concurrent components counts beyond two of anything: a
race needs two processes or threads, a third one is the observer (`CertStore`)
or the unrelated neighbour (`SignBatch`, `CodeOrchestrator`). Nesting of depth
three is the least in which "entry of an entry" differs from "entry".

* `CertStore`: `MaxOps = 4` gives import, remove and import again with a reader
  beside; `MaxCrashes = 1` since what a kill leaves is an initial state for
  everyone else.
* `WinSign`: `MaxVersion = 2` is one rotation.
* `RemoteSigning`: one job, since jobs share nothing that one of them writes
  (its theorems are for any number), and three rotations, one more than what
  makes `sign_pkcs7_remote` give up; `MaxPolls = 3` stands for 90: found final
  at the first, at a later, or at no poll.
* `AuthRootCache`: `MaxAge = MaxLag = 1` and `MaxDay = 5` let a CAB age past
  the limit plus two late refreshes plus the error of the clock, the worst case
  of `CacheIsSound`. Two clients at a time are enough for that case and for the
  race on the module's temporary file; tool with tool is left to the theorems,
  in which it is like tool with module but for `GiveUp`. `View` takes
  states for one that differ in what somebody left in a temporary file nobody
  uses: `OpenTemp` truncates it before anybody reads it. The theorems are for
  every value and any number of both.
* `TrustVerify`: `MaxDay = 2` and `Window = 1` let a certificate expire and an
  answer become old; `MaxChain = 3` stands for 32: two links and one too many.
  One client, since clients share the cache only, which has its own run.
* `SignedFile`: `MaxOps = 4` is the length of prehash, sign again or edit,
  document, embed; `MaxTime = 2` lets the time of the second command differ from
  that of the first. `Align = 2` has files in line and out of line; `MaxComment
  = 2` has signatures that fit a ZIP comment and stamped ones that do not.
* `FileCatalog`: `MaxEdits = 3` is a file that changes, a catalog that changes,
  and one change back; the two trailed images have the same digest, so that one
  may take the place of the other.

The proofs below do not depend on any of these.

Fairness. `FairSpec` of `CodeOrchestrator` and `Spec` of `WinSign`,
`RemoteSigning` and `TrustVerify` assume weak fairness of every worker, of the
main thread, or of every step of a verification: rayon and `thread::scope`
schedule every started job, requests have time-outs (`reqwest` clients are built
with one, the sockets of `online.rs` have one for reading and writing), and
nothing waits for user input. No strong fairness, no fairness of failures,
kills, rotations, days or remote services. `CHECK_DEADLOCK FALSE` stands where
the modelled command or process ends, or the bound on commands is used up.

## 4. Proofs

All with no assumption but those on the constants, which TLC evaluates in the
runs.

* `CodeOrchestratorProofs` – types; `SealInv` (an untouched node has revision 0
  and idle entries, `left` only what is ignored by rule, no entry forgotten,
  coverage) gives `InsideOut` and `EveryEntryAccounted`. `Fresh` is what makes
  it inductive: without it, sealing an archive whose entry is still rewritten
  cannot be excluded. `BatchInv` relates chunks, states, outputs and lines and
  gives `OutcomesAreTrue` and the refinement: initial states map to initial
  states of `BatchSigning` and every step to one of its steps or a stutter
  (`ImplementsBatchAlways`). For every forest, option set and chunk width.
* `CertStoreProofs` – `KeyInv` (a process that writes a key holds a matching
  one, the file it opened is still partial, and it is the only writer) and
  `RemoveInv` give `StoreIsSound`; `UsableInv` (an import that nobody raced
  finds the files it has got past, and each of them is complete, being written
  by somebody, or `cut`) gives `ImportIsUsable` and, together with the keys'
  invariant, `ReadsAreSound`: the reads of a resolve or an export need no lock,
  since nothing but a write in progress or one cut short comes between them and
  an imported identity. For any number of processes, certificates, commands,
  failing writes and kills.
* `SignBatchProofs` – `BatchInv`: `Turns` (types, what each phase implies, and
  that of two operations on one file the later begins after the earlier has
  returned); a temporary file has an operation that will come to its removal, or
  one whose removal failed, which on the Artifact Signing way has failed with it
  (`TempHeld`); an operation knows the target it will replace, and what it has
  staged is whole, carries its signature and, when appending, those that were
  there (`Steady`); a torn target is being written or its writer failed
  (`TornHeld`); what operations have put in place is still there (`Kept`). Gives
  `TargetsAreSound`, `NothingLost`, `ValidIsKept` and the refinement of
  `BatchSigning`, for every target list, aliasing of names and batch of formats.
* `WinSignProofs` – `SlotInv` (a full slot belongs to a target that has still to
  take it) and `KInv` (in sequential commands at most one target is between its
  ends; a pinned command only ever installs version 1) give `SlotIsSound`;
  `PageInv` (with sequential commands only, a target that asked for no page
  hashes holds the inherited value to restore, and the variable differs from
  that value only between its set and its restore) gives `PageHashesHeld`;
  `FailureIsRemembered` follows from the order in which
  `combine_batch_exit_codes` ranks exit codes, in which 2 is the mildest failure.
  For any number of targets, blocks, threads and rotations.
* `RemoteCatalogProofs` – first `RemoteSigning`. `CmsInv` (the answer that waits for a job is one to
  its own last request, and its key and certificate agree) gives
  `CmsIsConsistent`; `RotationInv` adds that no certificate a job meets is older
  than the ones it has met before, and counts its requests, which with the
  exhaustion of the credential chain gives `GivesUpOnlyWhenForced`. For any
  number of jobs, credentials, polls and certificates.

  Then `FileCatalog`. `CatalogInv`: files on the disk are files of the tree
  (`DiskIsOfTree`), the signer's digest is of the list the catalog was made with
  (`CatalogIsVouched`), every member was made of a file that held what is noted
  (`MembersAreOfFiles`), and the list is that of the tree at that time
  (`ListIsKept`). `SameDigest` says that two images have the same digest exactly
  when content and padding are the same, the theorem `SignedImage` that signing
  an image gives an image again. Gives `CatalogIsHonest` and `UnchangedIsValid`
  for every tree, with any PE files in it, every list of paths and every
  alignment.
  The proof added a condition to `UnchangedIsValid` (see section 5).
* `TrustVerifyProofs` – first the cache alone. `CacheInv`: a client in a refresh
  carries a finished answer that is at most `MaxLag` days old (`Carries`); in its
  temporary file it finds those bytes, or those of another process of the module
  that opened the file while it was in use (`Opened`), and of a file that is open
  under its name there is one writer (`Alone`); the times it holds are none the
  clock could not show (`Timely`); what it concluded from the CAB still holds of
  the one it will read (`Recent`); and what lies in the cache is whole when the
  tool made it, and its metadata is not later than `Stored` says. The metadata
  may be newer than the CAB by two refreshes and the error of the clock, since
  its time is read after the move and another client may move in between; by one
  more where two processes of the module share a temporary file, since the file
  that is moved may be as old as a whole refresh already. These sums, with
  `Late` for the two cases, are the bounds in `FreshRoots` and `NoRollback`.
  Gives `CacheIsSound` and `NoRollback` for any number of processes of the tool
  and of the module, every age limit and every set of clock errors that has a
  greatest.

  Then the walk. `TrustInv` is `CacheInv`, carried over to the composition
  (`CacheIsSoundUnderVerification`), and for every client what its
  phase stands for: the job and the anchors that belong to it (`OnJob`,
  `Loaded`), whether a token is wanted (`TokenWanted`), a path of names from the
  leaf to where the walk stands, past the check one of valid and signed links to
  an anchor (`OnTheWay`), an instant the signature has a right to (`InTime`),
  answers young enough for every certificate already asked about (`Unrevoked`),
  and, for an honest signature, that the walk follows every path of names there
  is (`HonestWalk`). Gives `TrustedIsSound`, `JudgedInTime` and
  `NoFalseRejection` for every set of certificates, clients, options and
  responders. `Leads` is a recursive function; that it exists, and that a path
  leads where `Leads` says, is shown by a least counterexample, which needs no
  induction rule. The proof of `NoFalseRejection` corrected `Honest` twice:
  names have to be unique among the additional certificates too, and a signer
  that is itself an anchor without being self-issued is rejected
  (`chain.rs:16-141`).
* `SignedFileProofs` – `IInv`: whatever a verification could be satisfied with,
  in the file or beside it, speaks of a content somebody signed. It says so of
  every signature a file carries, found by a reader or not, of every document
  and RSA value of a split signing, and of a digest that is still to be signed
  that it is the one of the content the commands noted. `Sealed` proves it
  inductive; per format there is one lemma that the owner's files satisfy it,
  one that signing keeps it and adds the content to those signed, one for the
  other commands and for edits, and one that a file which satisfies it and
  verifies has a signed content. Gives `TamperIsDetected`, `StatusIsTrue` (with
  `inspect` taken apart by format), `ContentIsKept` and `TypeOK`, for every
  file, request, bound and alignment, and whatever `picky` parses. What is read
  from a digest is what the format hashes: the cells of kind `code` of an image, the parts of a package
  less those signing makes. What makes it inductive differs: of a PE row it is
  not enough to speak of the image it names, since a row that is taken out and
  put back into another image makes the table part of what is hashed
  (`PeVouched` speaks of the images with no document of themselves inside);
  a cabinet needs its extent to hold nothing but the signature; a script that
  its blocks stand apart; of the digest in the signature part of an MSIX that the
  parts it tells, less those signing makes, are a signed content, whatever types
  are declared by now; a NuGet package that the contents signed are the normal form of themselves. What recursive functions
  (`Only`, `FlattenSeq`, `Min`, `Max`) compute is shown by a least
  counterexample, where no induction rule is to be had.
* `SignedVerifiesProofs` – the other direction: what the commands write is what
  `Verify` reads. Per format a lemma that the writer and the reader find the
  same places (`PeReads`, `MsixReads`, `NuReads`, `VsReads`, `CoReads`), one that
  the signature is over what is read there, and from these that
  `PortableSign` of a signable file has a result and that every result verifies
  (`SignHolds`): by `picky`, since signing makes the attributes of the content,
  and by the fallback when the algorithm is one it takes (`Verifiable`,
  `Readable`). For a package the digests in the signature are those of the
  package with it (`MsixWithSame`: the pieces hashed do not depend on the
  signature part; `VsReads`: the references of the template are of the parts as
  they are written in the end). `WInv` makes it inductive: the file is still one
  that can be signed (`Proper`: no two parts of a name, the manifest and the
  types still there, the end tag still there), and `SplitInv`, that what a split
  signing left on disk is over the content it notes: a digest is the one asked
  for that content, whatever the clock said (`SplitAsks`), a value is by the key
  of the certificate it is noted with, and a document verifies in every package
  of that content and frame. The frame is what the references of an extension
  depend on besides its content, its types and relationships; edits and
  commands keep it (`EditKept`, `SignKept`). Gives `SignedVerifies`
  (`WhatIsSigned`) for every file, request, bound and sequence of commands. Its
  one hypothesis leaves out UTF-16LE scripts, of which `SignedFileUtf16` shows
  that they never verify; the run `SignedFile` has none either.

Only model-checked:

* liveness (`Terminates` of `CodeOrchestrator` and `WinSign`, `EveryJobEnds`,
  `EveryVerificationEnds`), which is outside the prover's reach (`BatchSigning`
  states no fairness, so the refinements are proved in full).

## 5. Known limits of the code that the models make visible

* With Key Vault and several threads, without a pinned certificate version, a
  target may be signed with the key of the version another thread fetched after
  a rotation, and a callback may find the slot already taken, which fails its
  target. `SlotIsSound` is stated for the cases in which the code prevents it.
* An import whose write fails or is killed leaves a partial file under its final
  name, and every later import of the certificate finds the name, writes nothing
  and reports success (`src/cert_store.rs:149-150`, `:187-188`, `:539-540`): the
  identity cannot be resolved until a `remove` takes the file away.
  `ImportIsUsable` and `ReadsAreSound` name these files as their exception, and
  the run contains them.
* A block of a response file that asks for help ends the process with 0
  whatever happened before. A usage error ends it with 2, which
  `combine_batch_exit_codes` ranks below the 1 of an earlier block that failed
  (`src/lib.rs:617`, `src/response_argv.rs:217-230`). `FailureIsRemembered` says
  that a failure never turns into success but for help, and that the combined
  code never gets milder among blocks that parse.
* A temporary file of the portable batch that cannot be removed stays beside its
  target without a word (`src/portable_sign.rs:713-716`, `:794`); on the Artifact
  Signing way the same failure turns the success of its target into an error.
* A signed `.scr`, `.cpl` or `.mui` is not recognised by `--skip-signed`
  beforehand, since `is_pe_winmd_extension` does not know these extensions
  (`src/portable_sign.rs:352-370`, `:807`): the file is copied over itself and
  reported as signed, without a signature of that operation. `NothingLost` and
  `ValidIsKept` speak of such files apart (`CoreKeeps`).
* A file that is hard-linked under two names escapes the duplicate check of the
  portable batch.
* Two processes of the PowerShell module share `authrootstl.cab.tmp`, and one
  may move into place what the other is still writing: a torn CAB in the cache,
  which its metadata calls fresh. The module also stores an empty answer as the
  CAB (`dotnet/.../Trust/AuthRootCache.cs:160-167`), which the tool turns down
  (`authroot_cache.rs:112`). Neither opens when it is read. `CabIsWhole` holds
  the tool to a whole CAB and a module that had the temporary file to itself to a
  finished answer.
* An AIA server that answers every request with a certificate of another name
  than the issuer's keeps the walk going: the loop counts only steps that found
  an issuer (`chain.rs:96-137`). `EveryVerificationEnds` names this exception as
  `Misled`, and the run contains it.
* `Signable` of `SignedFile` lists what signing is not meant for: a script that
  has a signature block gets a second one, of which verification reads the
  first; a signed cabinet or extension is refused; bytes behind a certificate
  table are lost when a signature is appended; a bundle cannot be signed with
  SHA-384.
* A catalog that is made over a list naming the catalog file itself reports it
  as `Missing` from then on, since a test never looks at the catalog;
  `UnchangedIsValid` excludes such a list.
* The digest of an image leaves out as many bytes from the end of the file as
  the table has, wherever the table is (`pe_digest.rs:86-161`): with bytes
  behind the table, it is the end of the file that is not hashed. A listed file
  may then be altered and still test Valid, and the run `FileCatalog` has such
  files; `CatalogIsHonest` relies on a test of an image whose table is at the
  end of the file now and was when it was listed, and `SignedImage` says that
  the tool makes no others of these. For the same reason the content
  `ContentIsKept` speaks of leaves out the bytes behind a table, which appending
  and stamping discard (`pe_embed.rs:278`, `:360`).
* On the fallback nobody compares `messageDigest`, the attribute the RSA value
  is over, with the content of the document, `SpcIndirectData`, which is compared
  with the file (`pkcs7.rs:1308-1326`). `TamperIsDetected` is about files whose
  signature documents are as a command made them, or those of another signing,
  put back or left over; a document that was rewritten inside is outside the
  model, so nothing here says that it is found out.
* Trust verification takes SHA-256 only for NuGet, App Installer and catalog
  documents and for what else the fallback reads (`pkcs7.rs:1377-1382`,
  `trust_pkcs7.rs:362-386`), while signing offers SHA-384 and SHA-512:
  such a signature is made and does not verify. `SignedVerifies` is about the
  algorithms in `Accepted`.
* A package that carries a signature and whose content types do not declare it
  (any more) is reported as `NotSigned` (`crates/psign-portable-core/src/lib.rs:3361-3372`);
  `StatusIsTrue` names it (`Undeclared`), and an edit of the run makes one.
* The status of ClickOnce and App Installer files tells of the presence of a
  signature only, and that of a NuGet package of its digest only; `StatusIsTrue`
  says so.

Disagreements between the code and its documents that have no run of their own:

* planning stops at the first unreadable input in spite of
  `--continue-on-error` (`src/code.rs:188`, `src/cli.rs:121`);
* `list` reports a private key by the existence of its file
  (`src/cert_store.rs:637`, `README.md:214`);
* an MSIX with a stale signature is signed again under `--skip-signed`
  (`src/portable_sign.rs:367`, `docs/migration-artifact-signing.md:130`);
* a catalog test that skips a file by its bare name may report the member of the
  same file as `Missing` when the member's name has a directory
  (`crates/psign-portable-core/src/lib.rs:849-861`,
  `PowerShell/tests/PsignFileCatalog.Cmdlets.Tests.ps1:48`);
* unsigned CAB, MSI and MSIX files are reported with another status than
  `NotSigned` when the words of the error are none of those looked for
  (`crates/psign-portable-core/src/lib.rs:3324`);
* `docs/authroot-linux-verify.md:102` calls AIA fetching bounded; the size of an
  answer is, the number of requests is not (see above).

## 6. Not modelled

* Scripts in UTF-16LE are left out of the run `SignedFile`, since
  `SignedFileUtf16` shows that they do not verify.
* The PE checksum, page hashes, WIM/ESD files, WSH scripts, RDP files and the
  layout of legacy VSIX signatures: variants of what is modelled, with bytes of
  their own and no new state.
* `RefreshAuthRootCab` of the PowerShell module
  (`dotnet/.../Trust/AuthRootCache.cs:86-98`), a refresh without a look first;
  the bytes of the CTL and of the CAB, canonical XML, X.509 and CMS libraries.
* The branch of the certificate store without Unix permissions, and a kill in
  the middle of a copy of the portable batch.
* Signature documents that somebody rewrote inside (see section 5), and an answer
  of the AuthRoot server that is neither empty nor a CAB.
* The Windows-only commands, the FFI library, the test server, the cmdlets, the
  packaging scripts, and the text of response files and native arguments (see
  the notes in `PROJECT.json`).

## 7. Plan

1. Liveness of the concurrent components for every value of the constants, once
   the prover has a rule for it.
2. What the notes of the partly modelled components in `PROJECT.json` leave
   out, where it keeps state.
