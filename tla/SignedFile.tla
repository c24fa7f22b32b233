------------------------------ MODULE SignedFile ------------------------------
(* One file in the hands of the portable tools: signed in one call, or in     *)
(* three commands around a remote signer, stamped, stripped and verified,     *)
(* while its owner keeps editing it.  Every command reads the file anew, so   *)
(* what a later one assumes of an earlier one is only what the bytes say.     *)
EXTENDS Inspection

CONSTANTS
    Files,          \* files as their owner made them
    Requests,       \* [alg, append, skip, tsa, material] of one-shot signing
    SplitMaterial,  \* the certificate and key of the remote signer
    Values,         \* contents and publishers an edit may put in
    MaxOps,         \* commands and edits of a behaviour
    MaxTime         \* ticks of the clock

(* Files as their owner makes them: cells and parts of content, in records    *)
(* that have no signature yet.                                                *)
IsSeq(s) == s \in Seq(ToSet(s))

OfCells(f, kinds) ==
    IsSeq(f.data) /\ \A c \in ToSet(f.data) : c = Cell(c[1], c[2]) /\ c[1] \in kinds

(* Parts with none of some names, and at most one of every other.             *)
OfParts(f, names) ==
    /\ IsSeq(f.parts)
    /\ \A p \in ToSet(f.parts) : p = Part(p.name, p.body) /\ p.name \notin names
    /\ \A i, j \in DOMAIN f.parts : i # j => f.parts[i].name # f.parts[j].name

OwnerFile(f) ==
    CASE f.fmt = "pe" ->
            /\ f = [fmt |-> "pe", hdr |-> f.hdr, ptr |-> 0, size |-> 0, data |-> f.data]
            /\ OfCells(f, {"code"})
      [] f.fmt = "cab" ->
            /\ f = [fmt |-> "cab", hdr |-> f.hdr, cb |-> f.cb, coffFiles |-> CabHeader,
                    coffCabStart |-> f.coffCabStart, reserve |-> FALSE, sigpos |-> 0,
                    siglen |-> 0, data |-> f.data]
            /\ f.cb \in Int /\ f.coffCabStart \in Int /\ OfCells(f, {"code"})
      [] f.fmt = "msi" ->
            /\ f = [fmt |-> "msi", meta |-> f.meta, streams |-> f.streams, ex |-> <<>>, sig |-> <<>>]
            /\ IsSeq(f.streams) /\ Len(f.streams) > 1 /\ \A s \in ToSet(f.streams) : IsSeq(s)
      [] f.fmt = "script" ->
            /\ f = [fmt |-> "script", enc |-> f.enc, data |-> f.data]
            /\ OfCells(f, {"code"} \cup LineEnds)
      [] f.fmt = "zip" ->
            f = [fmt |-> "zip", data |-> f.data, comment |-> <<>>] /\ OfCells(f, {"code"})
      [] f.fmt = "msix" ->
            /\ f = [fmt |-> "msix", ext |-> f.ext, gap |-> f.gap, parts |-> f.parts]
            /\ OfParts(f, {"signature"})
      [] f.fmt = "nuget" ->
            f = [fmt |-> "nuget", parts |-> f.parts] /\ OfParts(f, {"signature"})
      [] f.fmt = "vsix" ->
            f = [fmt |-> "vsix", parts |-> f.parts] /\ OfParts(f, SignatureParts)
      [] f.fmt = "clickonce" ->
            f = [fmt |-> "clickonce", data |-> f.data] /\ OfCells(f, {"code", "close"})
      [] OTHER ->
            /\ f = [fmt |-> "appinstaller", data |-> f.data, companion |-> <<>>]
            /\ OfCells(f, {"code"})

(* What signing a package or a manifest is refused without.                   *)
Complete(f) ==
    /\ f.fmt = "msix" => IF f.ext = "msixbundle"
                         THEN Has(f.parts, "bundleManifest") /\ ~Has(f.parts, "encrypted")
                         ELSE Has(f.parts, "manifest") /\ ~Has(f.parts, "bundleManifest")
    /\ f.fmt = "vsix" => /\ Has(f.parts, "types")
                         /\ \E t \in BodyOf(f.parts, "types")[2] : t[1] = "bin"
    /\ f.fmt = "clickonce" => Close \in ToSet(f.data)

ASSUME FilesAssumption == Align \in Nat \ {0} /\ \A f \in Files : OwnerFile(f)
ASSUME CompleteAssumption == MaxComment \in Nat \ {0} /\ \A f \in Files : Complete(f)
ASSUME RequestsAssumption ==
    \A req \in Requests :
        /\ req.alg \in {"sha256", "sha384", "sha512"}
        /\ req.tsa \in {"none", "granted", "refused"}
        /\ IsFiniteSet(req.material.bag) /\ IsSeq(req.material.chain)
ASSUME SplitAssumption ==
    \A s \in load_signing_provider(SplitMaterial) : s[1] = SplitMaterial.key
ASSUME BoundsAssumption == MaxOps \in Nat /\ MaxTime \in Nat \ {0}

VARIABLES
    file,       \* the file
    session,    \* what the commands of a split signing left on disk
    clock,      \* the time a command reads
    ops,        \* commands and edits so far
    sealed,     \* ghost: the contents somebody signed
    last        \* ghost: the last command, whether it is due to succeed, and did

vars == <<file, session, clock, ops, sealed, last>>
-----------------------------------------------------------------------------
(* The formats.                                                               *)
SplitFormats == {"nuget", "vsix", "clickonce", "appinstaller"}

PortableSign(f, req, now) ==
    CASE f.fmt = "pe" -> sign_pe(f, req)
      [] f.fmt = "cab" -> sign_cab(f, req)
      [] f.fmt = "msi" -> sign_msi(f, req)
      [] f.fmt = "script" -> sign_script(f, req)
      [] f.fmt = "zip" -> sign_zip(f, req)
      [] f.fmt = "msix" -> sign_msix(f, req)
      [] f.fmt = "nuget" -> sign_nuget(f, req, now)
      [] f.fmt = "vsix" -> sign_vsix(f, req, now)
      [] f.fmt = "clickonce" -> sign_clickonce_manifest(f, req)
      [] OTHER -> sign_appinstaller(f, req)

(* What the owner put into the file.                                          *)
Content(f) ==
    CASE f.fmt = "pe" -> PeContent(f)
      [] f.fmt = "cab" -> CabContent(f)
      [] f.fmt = "msi" -> MsiContent(f)
      [] f.fmt = "script" -> ScriptContent(f)
      [] f.fmt = "zip" -> ZipContent(f)
      [] f.fmt = "msix" -> MsixContent(f)
      [] f.fmt = "nuget" -> NuGetContent(f)
      [] f.fmt = "vsix" -> VsixContent(f)
      [] f.fmt = "clickonce" -> unsigned_clickonce_manifest(f.data)
      [] OTHER -> f.data

portable_clear_signature(f) ==
    CASE f.fmt = "pe" -> pe_remove(f)
      [] f.fmt = "script" -> remove_script_signature_block(f)
      [] OTHER -> {}
-----------------------------------------------------------------------------
(* Split signing: the prehash for the remote signer, and the document around  *)
(* the value it gives.  Both start from the file as it is then.               *)
SplitSigner == {s[1] : s \in load_signing_provider(SplitMaterial)}

(* The content of the CMS of a split signing, and its profile.                *)
SplitContent(f, alg) ==
    IF f.fmt = "nuget" THEN signature_content(canonical_unsigned_package(f.parts), alg)
    ELSE <<"data", f.data>>

SplitProfile(f) == IF f.fmt = "nuget" THEN "NuGetAuthorWithoutSigningTime" ELSE "Basic"

SplitAttrs(f, alg, signer, now) ==
    pkcs7_signed_attrs(SplitProfile(f), alg, SplitContent(f, alg), signer, now)

(* VsixSigningTime::FromPackage: the newest entry of the package as it was    *)
(* just rewritten, whose entries all have the first date a ZIP can hold.      *)
package_signature_time_value == 0

SplitPrehash(f, alg, signer, now) ==
    CASE f.fmt = "vsix" ->
            {Hash(alg, signed_info(t)) :
                t \in signature_template(f.parts, alg, package_signature_time_value)}
      [] f.fmt = "clickonce" ->
            {Hash(alg, clickonce_signed_info(unsigned_clickonce_manifest(f.data), alg))}
      [] OTHER -> {signed_attrs_digest(alg, SplitAttrs(f, alg, signer, now))}

SplitDocument(f, alg, signer, value, answer, now) ==
    IF f.fmt = "vsix"
    THEN {signature_xml(t, value, signer) :
            t \in signature_template(f.parts, alg, package_signature_time_value)}
    ELSE UNION {IF answer = "none" THEN {c}
                ELSE timestamp_pkcs7(c, IF f.fmt = "nuget" THEN "cms" ELSE "ms", answer, "sha256") :
            c \in create_pkcs7_with_signature(SplitContent(f, alg), f.fmt = "nuget", alg, signer, <<>>,
                                              SplitAttrs(f, alg, signer, now), value)}

SplitEmbed(f, doc, overwrite) ==
    CASE f.fmt = "nuget" -> {[f EXCEPT !.parts = e] : e \in nuget_embed(f.parts, doc, overwrite)}
      [] OTHER -> vsix_embed(f, doc, overwrite)
-----------------------------------------------------------------------------
(* What signing is meant for.  A script that has a signature block gets a     *)
(* second one, of which verification reads the first; a signed cabinet and a  *)
(* signed extension are refused; bytes behind a certificate table are lost    *)
(* when a signature is appended; a bundle cannot be signed with SHA-384.      *)
(* Only what picky reads, and XML, is verified with another digest algorithm  *)
(* than SHA-256.                                                              *)
Accepted(f, alg) ==
    \/ alg = "sha256" \/ f.fmt \in {"vsix", "clickonce"}
    \/ (IF f.fmt = "zip" THEN "script" ELSE f.fmt) \in PickyKinds

Signable(f, req) ==
    /\ Accepted(f, req.alg)
    /\ CASE f.fmt = "pe" -> req.append /\ HasTable(f) => AfterTable(f) = <<>> /\ Verify(f)
         [] f.fmt = "cab" -> ~f.reserve /\ f.cb = CabLength(f)
         [] f.fmt = "script" -> ~HasBlock(f)
         [] f.fmt = "zip" -> req.tsa = "none" \/ MaxComment > 2
         [] f.fmt = "msix" -> f.ext = "msixbundle" => req.alg # "sha384" /\ verify_bundle_child_packages(f)
         [] f.fmt = "vsix" -> Named(f.parts, SignatureParts) = <<>>
         [] OTHER -> TRUE

Answered(req) ==
    /\ req.tsa # "refused" /\ ~req.skip
    /\ load_signing_provider(req.material) # {}
    /\ \A s \in load_signing_provider(req.material) :
          s[1] = req.material.key /\ IsInjective(<<s[1]>> \o s[2])

-----------------------------------------------------------------------------
NoSession == [st |-> "none"]
NoCommand == [op |-> "none", due |-> FALSE, ok |-> FALSE]

Init ==
    /\ file \in Files
    /\ session = NoSession
    /\ clock = 1
    /\ ops = 0
    /\ sealed = {}
    /\ last = NoCommand

(* A command that writes the file, or reports an error and leaves it.         *)
Write(results, op, due) ==
    /\ ops < MaxOps /\ ops' = ops + 1
    /\ file' \in IF results = {} THEN {file} ELSE results
    /\ last' = [op |-> op, due |-> due, ok |-> results # {}]
    /\ UNCHANGED clock

(* A command that leaves something beside the file.                           *)
Leave(s) ==
    /\ ops < MaxOps /\ ops' = ops + 1
    /\ session' = s
    /\ last' = NoCommand
    /\ UNCHANGED <<file, clock>>

(* The one-shot commands: portable-sign and the sign-* commands.              *)
Sign(req) ==
    /\ Write(PortableSign(file, req, clock), "sign", Answered(req) /\ Signable(file, req))
    /\ sealed' = IF PortableSign(file, req, clock) = {} THEN sealed
                 ELSE sealed \cup {Content(file)}
    /\ UNCHANGED session

TimestampPe(index, answer) ==
    /\ file.fmt = "pe"
    /\ Write(timestamp_pe(file, index, answer), "stamp", FALSE)
    /\ UNCHANGED <<session, sealed>>

ClearSignature ==
    /\ file.fmt \in {"pe", "script"}
    /\ Write(portable_clear_signature(file), "clear", FALSE)
    /\ UNCHANGED <<session, sealed>>

(* A row of the certificate table is taken out, or put back into the image.   *)
ExtractPePkcs7(index) ==
    /\ file.fmt = "pe" /\ index \in DOMAIN pe_pkcs7(file)
    /\ Leave([st |-> "document", doc |-> pe_pkcs7(file)[index]])
    /\ UNCHANGED sealed

AppendPePkcs7 ==
    /\ file.fmt = "pe" /\ session.st = "document"
    /\ Write(pe_append(file, session.doc), "append", FALSE)
    /\ UNCHANGED <<session, sealed>>

Prehash(alg) ==
    /\ file.fmt \in SplitFormats
    /\ \E signer \in SplitSigner : \E d \in SplitPrehash(file, alg, signer, clock) :
          Leave([st |-> "hashed", alg |-> alg, signer |-> signer, digest |-> d,
                 contents |-> {Content(file)}])
    /\ UNCHANGED sealed

(* The remote signer signs the digest it is given.                            *)
RemoteSign ==
    /\ session.st = "hashed"
    /\ session' = [st |-> "signed", alg |-> session.alg, signer |-> session.signer,
                   value |-> ProviderSign(SplitMaterial, session.digest),
                   contents |-> session.contents]
    /\ sealed' = sealed \cup session.contents
    /\ UNCHANGED <<file, clock, ops, last>>

(* The *-from-signature commands of the packages leave a document.            *)
FromSignature(answer) ==
    /\ session.st = "signed" /\ file.fmt \in {"nuget", "vsix"}
    /\ \E d \in SplitDocument(file, session.alg, session.signer, session.value, answer, clock) :
          Leave([st |-> "document", doc |-> d,
                 contents |-> session.contents \cup {Content(file)}])
    /\ UNCHANGED sealed

Embed(overwrite) ==
    /\ session.st = "document" /\ file.fmt \in {"nuget", "vsix"}
    /\ Write(SplitEmbed(file, session.doc, overwrite), "embed",
             /\ session.contents = {Content(file)}
             /\ file.fmt = "nuget" => Accepted(file, session.doc.alg))
    /\ UNCHANGED <<session, sealed>>

(* Those of the XML documents write their output at once.                     *)
ClickOnceFromSignature ==
    /\ session.st = "signed" /\ file.fmt = "clickonce"
    /\ LET info == clickonce_signed_info(unsigned_clickonce_manifest(file.data), session.alg)
       IN Write(ClickOnceWith(file, info, session.value, session.signer),
                "embed", session.contents = {Content(file)})
    /\ UNCHANGED <<session, sealed>>

AppInstallerFromSignature(answer) ==
    /\ session.st = "signed" /\ file.fmt = "appinstaller"
    /\ Write({[file EXCEPT !.companion = <<d>>] :
                 d \in SplitDocument(file, session.alg, session.signer, session.value, answer, clock)},
             "embed", session.contents = {Content(file)} /\ Accepted(file, session.alg))
    /\ UNCHANGED <<session, sealed>>
-----------------------------------------------------------------------------
(* The owner's edits, and the commands that edit for the owner.               *)
Replaced(s, i, x) == [s EXCEPT ![i] = x]

DataWith(s, i, v) == Replaced(s, i, Cell("code", v))
DataMore(s, v) == Append(s, Cell("code", v))

EditedData(s) ==
    {DataWith(s, i, v) : i \in {j \in DOMAIN s : s[j][1] = "code"}, v \in Values} \cup
    {DataMore(s, v) : v \in Values}

PartsWith(s, i, v) == Replaced(s, i, [s[i] EXCEPT !.body[2] = v])
PartsMore(s, v) == <<Part("added", <<"data", v, "raw">>)>> \o Without(s, {"added"})

EditedParts(s) ==
    {PartsWith(s, i, v) : i \in {j \in DOMAIN s : s[j].name = "payload"}, v \in Values} \cup
    {PartsMore(s, v) : v \in Values}

(* A package does not declare a type of its own any more.                     *)
TypesWith(s, i, t) == Replaced(s, i, [s[i] EXCEPT !.body[2] = @ \ {t}])

EditedTypes(s) ==
    {TypesWith(s, i, t) : i \in {j \in DOMAIN s : s[j].name = "types"}, t \in {"blockMap", "signature"}}

(* A stream of an installer changes, or its end moves into the next one.      *)
StreamsWith(s, i, v) == Replaced(s, i, <<v>>)
StreamsShifted(s) == <<s[1] \o s[2]>> \o <<<<>>>> \o SubSeq(s, 3, Len(s))

EditedStreams(s) ==
    {StreamsWith(s, i, v) : i \in DOMAIN s, v \in Values} \cup {StreamsShifted(s)}

Edited(f) ==
    CASE f.fmt = "msi" -> {[f EXCEPT !.streams = s] : s \in EditedStreams(f.streams)}
      [] f.fmt = "msix" ->
            {[f EXCEPT !.parts = s] : s \in EditedParts(f.parts) \cup EditedTypes(f.parts)}
      [] f.fmt \in {"nuget", "vsix"} -> {[f EXCEPT !.parts = s] : s \in EditedParts(f.parts)}
      [] OTHER -> {[f EXCEPT !.data = s] : s \in EditedData(f.data)}

Edit ==
    /\ ops < MaxOps /\ ops' = ops + 1
    /\ file' \in Edited(file) \ {file}
    /\ last' = NoCommand
    /\ UNCHANGED <<session, clock, sealed>>

SetPublisher(publisher) ==
    /\ file.fmt = "msix"
    /\ Write(set_msix_manifest_publisher(file, publisher), "publisher", FALSE)
    /\ UNCHANGED <<session, sealed>>

Tick ==
    /\ clock < MaxTime /\ clock' = clock + 1
    /\ UNCHANGED <<file, session, ops, sealed, last>>

Next ==
    \/ \E req \in Requests : Sign(req)
    \/ \E index \in 1..2, answer \in {"granted", "refused"} : TimestampPe(index, answer)
    \/ ClearSignature
    \/ \E index \in 1..2 : ExtractPePkcs7(index)
    \/ AppendPePkcs7
    \/ \E alg \in {"sha256", "sha384"} : Prehash(alg)
    \/ RemoteSign
    \/ \E answer \in {"none", "granted"} : FromSignature(answer)
    \/ \E overwrite \in BOOLEAN : Embed(overwrite)
    \/ ClickOnceFromSignature
    \/ \E answer \in {"none", "granted"} : AppInstallerFromSignature(answer)
    \/ Edit
    \/ \E publisher \in Values : SetPublisher(publisher)
    \/ Tick

Spec == Init /\ [][Next]_vars
-----------------------------------------------------------------------------
(* A signature is somewhere in the file, whole or not.                        *)
Carries(f) ==
    CASE f.fmt = "pe" -> HasTable(f)
      [] f.fmt = "cab" -> f.reserve
      [] f.fmt = "msi" -> f.sig # <<>>
      [] f.fmt = "script" -> HasBlock(f)
      [] f.fmt = "zip" -> f.comment # <<>>
      [] f.fmt \in {"msix", "nuget", "vsix"} -> Has(f.parts, "signature")
      [] f.fmt = "clickonce" -> OfKind(f.data, "xml") # <<>>
      [] OTHER -> f.companion # <<>>

(* The content types of an app package lack its signature's.                  *)
Undeclared(f) ==
    f.fmt = "msix" /\ \E p \in ToSet(f.parts) : p.name = "types" /\ "signature" \notin p.body[2]

(* The variables have their types, the file keeps its format, and the         *)
(* certificate table of an image is in the file and in line, whatever rows    *)
(* were appended, stamped, taken out or removed.                              *)
TypeOK ==
    /\ file.fmt \in {f.fmt : f \in Files}
    /\ session.st \in {"none", "hashed", "signed", "document"}
    /\ clock \in 1..MaxTime /\ ops \in 0..MaxOps
    /\ file.fmt = "pe" => TableAligned(file) /\ (HasTable(file) => TableInFile(file))

(* What is signed verifies.  Signing a file that may be signed, with a         *)
(* certificate that is found, a timestamp that is granted and a digest         *)
(* algorithm that verification takes in this format, gives a file whose        *)
(* signature verifies, whatever was done to it before; and so does a split     *)
(* signing all of whose commands find the same content, however much time went *)
(* by and however often the file was signed in between (the sign_* functions,  *)
(* the *-prehash, *-from-signature and *-embed commands).                      *)
SignedVerifies ==
    /\ (last.op = "sign" /\ last.due) => last.ok /\ Verify(file)
    /\ (last.op = "embed" /\ last.ok /\ last.due) => Verify(file)

(* A file whose signature verifies has a content that was signed.  Signature   *)
(* documents are as the commands made them, but one may sit beside a content   *)
(* or in a file it was not made for: no edit of what the owner put into the    *)
(* file, of its streams and parts or of the types a package declares, and no   *)
(* command in between makes another content pass (trust_verify_*_bytes).       *)
TamperIsDetected == Verify(file) => Content(file) \in sealed

(* No command but the owner's edits changes the content: signing, stamping,   *)
(* clearing and embedding only add or remove signatures.  An image with bytes *)
(* behind its certificate table is left out: appending or stamping a          *)
(* signature cuts them off.                                                   *)
ContentIsKept ==
    [][last'.op \in {"sign", "stamp", "clear", "append", "embed"} /\ ops' # ops
       /\ (file.fmt = "pe" /\ HasTable(file) => AfterTable(file) = <<>>)
            => Content(file') = Content(file)]_vars

(* What a reader is told of the file is so.  A signature that verifies is      *)
(* Valid; a Valid file has a content somebody signed, except where only the    *)
(* presence of a signature is looked at, or a NuGet package whose document was *)
(* put together around the value of another content; NotSigned is said of a    *)
(* file without a signature, or of an app package that does not declare the    *)
(* type of the signature it carries, and of nothing else that is signed;       *)
(* HashMismatch is said of a signature that does not hold; and with anchors    *)
(* only a signature that verifies is Valid (portable_get_signature, which      *)
(* tells failures apart by their messages).                                    *)
StatusIsTrue ==
    LET status(trust) == portable_get_signature(file, trust)
    IN /\ Verify(file) => status("none") = "Valid"
       /\ status("none") = "Valid" /\ file.fmt \notin PresenceOnly \cup {"nuget"}
            => Content(file) \in sealed
       /\ status("none") = "NotSigned" => ~Carries(file) \/ Undeclared(file)
       /\ ~Carries(file) /\ file.fmt \notin {"cab", "msi", "msix"} => status("none") = "NotSigned"
       /\ status("none") = "HashMismatch" => Carries(file) /\ ~Verify(file)
       /\ status("anchored") = "Valid" => Verify(file)

(* A PowerShell script without a signature block verifies once it is signed   *)
(* (sign_script, verify_script_digest_consistency).                           *)
SignedScriptVerifies ==
    (file.fmt = "script" /\ last.op = "sign" /\ last.due) => Verify(file)
=============================================================================
