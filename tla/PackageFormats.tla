---------------------------- MODULE PackageFormats ----------------------------
(* Packages and documents signed as a whole: app packages and bundles, NuGet  *)
(* packages, VSIX extensions, ClickOnce manifests and App Installer           *)
(* descriptors.  An archive is the sequence of its parts, in the order of its *)
(* central directory, which is also the order of its local entries.           *)
EXTENDS FileFormats

Part(name, body) == [name |-> name, body |-> body]
Named(parts, names) == Only(parts, {p \in ToSet(parts) : p.name \in names})
Without(parts, names) == Only(parts, {p \in ToSet(parts) : p.name \notin names})
Has(parts, name) == Named(parts, {name}) # <<>>
BodyOf(parts, name) == Named(parts, {name})[1].body
Once(parts, name) == Len(Named(parts, {name})) = 1
-----------------------------------------------------------------------------
(* MSIX and APPX.  The signature part is "PKCX" alone until it is signed.     *)
Reserved == {"types", "blockMap", "signature"}
Unsealed == Part("signature", <<"p7x", <<>>>>)
PartWidth(p) == IF p.name = "signature" /\ p.body[2] # <<>> THEN 1 + Width(p.body[2][1]) ELSE 1

(* Where the local entry of a part starts.                                    *)
header_start(parts, i) ==
    LET end[j \in 0..(i - 1)] == IF j = 0 THEN 0 ELSE end[j - 1] + PartWidth(parts[j])
    IN end[i - 1]

manifest_name(ext) == IF ext = "msixbundle" THEN "bundleManifest" ELSE "manifest"

(* The names of the hash methods a block map may have.                        *)
parse_block_map_xml(body) == {body[2]} \cap {"sha256", "sha384", "sha512"}

(* A block map lists the hashes of the blocks of some parts.                  *)
block_map(method, alg, listed) ==
    <<"map", method, {<<p.name, Hash(alg, p.body)>> : p \in ToSet(listed)}>>

validate_block_map_file_hashes(parts, kind) ==
    \A entry \in BodyOf(parts, "blockMap")[3] :
        /\ entry[1] \notin Reserved
        /\ Has(parts, entry[1]) /\ Hash(kind, BodyOf(parts, entry[1])) = entry[2]

(* One of each part that is needed, and no part of the other family.          *)
validate_package_part_inventory(parts, ext) ==
    /\ \A i, j \in DOMAIN parts : i # j => parts[i].name # parts[j].name
    /\ \A name \in Reserved \cup {manifest_name(ext)} : Once(parts, name)
    /\ Named(parts, {"manifest", "bundleManifest"} \ {manifest_name(ext)}) = <<>>
    /\ ext = "msixbundle" => ~Has(parts, "encrypted")

validate_reserved_content_types(parts, ext) ==
    LET required == {"blockMap", "signature", manifest_name(ext)} \cup
                    (IF Has(parts, "codeIntegrity") THEN {"codeIntegrity"} ELSE {})
    IN required \subseteq BodyOf(parts, "types")[2]

(* AXPC: the local entries without the signature.                             *)
hash_zip_file_data(parts, kind) == Hash(kind, Without(parts, {"signature"}))

(* AXCD: the directory without the signature.  The other records keep the     *)
(* offsets they have in the file, so the signature must not be before them.   *)
hash_cd_and_eocd(parts, kind) ==
    LET kept == {i \in DOMAIN parts : parts[i].name # "signature"}
    IN Hash(kind, {<<parts[i].name, header_start(parts, i)>> : i \in kept})

(* The digests the signature holds, when the package may be signed at all.    *)
msix_pieces(f, kind) ==
    <<kind, [AXPC |-> hash_zip_file_data(f.parts, kind),
             AXCD |-> hash_cd_and_eocd(f.parts, kind),
             AXCT |-> Hash(kind, BodyOf(f.parts, "types")),
             AXBM |-> Hash(kind, BodyOf(f.parts, "blockMap")),
             AXCI |-> [i \in DOMAIN Named(f.parts, {"codeIntegrity"}) |->
                          Hash(kind, Named(f.parts, {"codeIntegrity"})[i].body)]]>>

flat_digest_blob(f) ==
    IF f.gap \/ ~validate_package_part_inventory(f.parts, f.ext) THEN {}
    ELSE {msix_pieces(f, kind) : kind \in
            {k \in parse_block_map_xml(BodyOf(f.parts, "blockMap")) :
                /\ validate_reserved_content_types(f.parts, f.ext)
                /\ validate_block_map_file_hashes(f.parts, k)}}

MsixSignature(f) == IF Has(f.parts, "signature") THEN BodyOf(f.parts, "signature")[2] ELSE <<>>

(* verify_msix_digest_consistency_bytes for a package that is no bundle.      *)
flat_digests_match(f) ==
    /\ MsixSignature(f) # <<>>
    /\ IsIndirect(MsixSignature(f)[1])
    /\ IndirectDigest(MsixSignature(f)[1]) \in flat_digest_blob(f)

verify_bundle_child_packages(f) ==
    \A p \in ToSet(f.parts) : p.name = "child" => flat_digests_match(p.body[2])

(* msix_authenticode_digest_blob: signing a bundle checks its children too.   *)
msix_authenticode_digest_blob(f) ==
    IF f.ext = "msixbundle" /\ ~verify_bundle_child_packages(f) THEN {} ELSE flat_digest_blob(f)

(* The types the signed package needs are added to those it declares.         *)
appx_content_types_for_signing(parts, payloads) ==
    <<"types", (IF Has(parts, "types") THEN BodyOf(parts, "types")[2] ELSE {}) \cup
               {p.name : p \in ToSet(payloads)} \cup {"blockMap", "signature"}>>

(* Bug: the signature goes in before the parts that are hashed.               *)
BugStage(f, alg) ==
    LET payloads == Without(f.parts, Reserved \cup {"dir", "codeIntegrity"})
    IN When(Has(payloads, "manifest"),
            [f EXCEPT !.gap = FALSE, !.parts = <<Unsealed>> \o payloads \o
                <<Part("blockMap", block_map(alg, alg, payloads)),
                  Part("types", appx_content_types_for_signing(f.parts, payloads))>>])

(* The payload as it was, a new block map over it, the types, and last the    *)
(* empty signature.                                                           *)
stage_flat_msix_for_signature(f, alg) ==
    LET payloads == Without(f.parts, Reserved \cup {"dir", "codeIntegrity"})
    IN When(Has(payloads, "manifest"),
            [f EXCEPT !.gap = FALSE, !.parts = payloads \o
                <<Part("blockMap", block_map(alg, alg, payloads)),
                  Part("types", appx_content_types_for_signing(f.parts, payloads)),
                  Unsealed>>])

(* The bundle's block map has the bundle manifest only, and spells SHA-384    *)
(* in a way its own reader does not know.                                     *)
build_msix_bundle_block_map(manifest, alg) ==
    block_map(IF alg = "sha384" THEN "sha384-2004" ELSE alg, alg, manifest)

stage_msix_bundle_for_signature(f, alg) ==
    LET manifest == Named(f.parts, {"bundleManifest"})
        children == Without(f.parts, Reserved \cup
                        {"dir", "codeIntegrity", "manifest", "bundleManifest"})
    IN When(manifest # <<>> /\ ~Has(children, "encrypted"),
            [f EXCEPT !.gap = FALSE, !.parts = children \o manifest \o
                <<Part("blockMap", build_msix_bundle_block_map(manifest, alg)),
                  Part("types", appx_content_types_for_signing(f.parts, children \o manifest)),
                  Unsealed>>])

stage_msix(f, alg) ==
    IF f.ext = "msixbundle" THEN stage_msix_bundle_for_signature(f, alg)
    ELSE stage_flat_msix_for_signature(f, alg)

replace_msix_signature_part(f, cms) ==
    [f EXCEPT !.parts = [i \in DOMAIN @ |-> IF @[i].name = "signature"
                                            THEN Part("signature", <<"p7x", <<cms>>>>) ELSE @[i]]]

(* msix_spc_indirect_data and sign_msix: the digest is of the staged package, *)
(* whose signature part is then filled.                                       *)
SignStagedMsix(f, req) ==
    UNION {UNION {{replace_msix_signature_part(f, t) : t \in maybe_timestamp_pkcs7(c, req.tsa)} :
        c \in create_authenticode_pkcs7(req.material, "msix", req.alg, d)} :
        d \in msix_authenticode_digest_blob(f)}

sign_msix(f, req) ==
    IF req.skip /\ Has(f.parts, "signature") THEN {f}
    ELSE UNION {SignStagedMsix(s, req) : s \in stage_msix(f, req.alg)}

verify_msix(f) ==
    /\ MsixSignature(f) # <<>> /\ IsIndirect(MsixSignature(f)[1])
    /\ \E d \in msix_authenticode_digest_blob(f) : verify_indirect(MsixSignature(f)[1], d)

MsixContent(f) ==
    ToSet(Without(f.parts, Reserved \cup {"dir", "codeIntegrity"} \cup
                           (IF f.ext = "msixbundle" THEN {"manifest"} ELSE {})))

(* set_msix_manifest_publisher: not once the package is signed.               *)
set_msix_manifest_publisher(f, publisher) ==
    When(~Has(f.parts, "signature") /\ Named(f.parts, {"manifest", "bundleManifest"}) # <<>>,
         [f EXCEPT !.parts = [i \in DOMAIN @ |->
             IF @[i].name \in {"manifest", "bundleManifest"}
             THEN Part(@[i].name, <<"data", publisher>>) ELSE @[i]]])
-----------------------------------------------------------------------------
(* NuGet.  The archive a signature is over has the parts in their order, with *)
(* the ZIP metadata every writer of packages gives them.                      *)
nuget_zip_options(p) == Part(p.name, <<"data", p.body[2], "normal">>)

canonical_unsigned_package(parts) ==
    LET kept == Without(parts, {"signature"})
    IN [i \in DOMAIN kept |-> nuget_zip_options(kept[i])]

signature_content(parts, alg) == <<"nuget", alg, Hash(alg, parts)>>

(* embed_signature: the package is written anew, the signature last.          *)
nuget_embed(parts, cms, overwrite) ==
    When(overwrite \/ ~Has(parts, "signature"),
         canonical_unsigned_package(parts) \o <<Part("signature", <<"p7s", cms>>)>>)

sign_nuget(f, req, now) ==
    LET unsigned == canonical_unsigned_package(f.parts)
    IN UNION {UNION {{[f EXCEPT !.parts = e] : e \in nuget_embed(unsigned, t, FALSE)} :
            t \in maybe_timestamp_pkcs7(c, req.tsa)} :
            c \in create_nuget_author_signature(req.material, req.alg,
                                                signature_content(unsigned, req.alg), now)}

(* signed_package_unsigned_bytes: the bytes of the package are cut before the *)
(* signature, which must be the last part; nothing is normalised.             *)
signed_package_unsigned(parts) ==
    When(Once(parts, "signature") /\ Last(parts).name = "signature", Front(parts))

verify_nuget(f) ==
    \E cut \in signed_package_unsigned(f.parts) :
        LET cms == BodyOf(f.parts, "signature")[2]
        IN verify_detached(cms, signature_content(cut, cms.alg))

NuGetContent(f) == canonical_unsigned_package(f.parts)
-----------------------------------------------------------------------------
(* VSIX.  The types are pairs of an extension and a content type.             *)
SignatureParts == {"origin", "originRels", "signature"}
ExtensionOf(name) ==
    CASE name \in {"rels", "originRels"} -> "rels"
      [] name = "origin" -> "psdsor"
      [] name = "signature" -> "psdsxs"
      [] OTHER -> "bin"

EnsureType(types, ext, type) ==
    IF \E t \in types : t[1] = ext THEN types ELSE types \cup {<<ext, type>>}

ensure_signature_content_types(types) ==
    EnsureType(EnsureType(EnsureType(types, "psdsor", "origin"), "psdsxs", "xml"), "rels", "rels")

(* The content types and the root relationships are changed where they are,   *)
(* or made when they are not there.                                           *)
InPlace(p) ==
    CASE p.name = "types" -> Part("types", <<"types", ensure_signature_content_types(p.body[2])>>)
      [] p.name = "rels" -> Part("rels", <<"rels", p.body[2] \cup {"origin"}>>)
      [] OTHER -> p

MissingParts(parts) ==
    (IF Has(parts, "types") THEN <<>> ELSE <<InPlace(Part("types", <<"types", {}>>))>>) \o
    (IF Has(parts, "rels") THEN <<>> ELSE <<InPlace(Part("rels", <<"rels", {}>>))>>)

(* The package with all a signature needs, and the signature when there is    *)
(* one.                                                                       *)
write_signed_package(parts, signature, overwrite) ==
    LET kept == Without(parts, SignatureParts)
    IN When(overwrite \/ kept = parts,
            [i \in DOMAIN kept |-> InPlace(kept[i])] \o MissingParts(kept) \o
            <<Part("origin", <<"empty">>), Part("originRels", <<"rels", {"signature"}>>)>>
            \o signature)

TypeOf(parts, name) ==
    {t[2] : t \in {u \in BodyOf(parts, "types")[2] : u[1] = ExtensionOf(name)}}

Covered(parts) == ToSet(Without(parts, {"types", "signature"}))

(* template_from_prepared: a reference for every part but the types and the   *)
(* signature, each of which must have a type.                                 *)
signature_template(parts, alg, time) ==
    UNION {When(\A p \in Covered(w) : TypeOf(w, p.name) # {},
                [alg |-> alg, time |-> time,
                 manifest |-> {<<p.name, TypeOf(w, p.name), Hash(alg, p.body)>> : p \in Covered(w)}]) :
           w \in write_signed_package(parts, <<>>, TRUE)}

signed_info(t) == <<t.alg, Hash(t.alg, <<t.time, t.manifest>>)>>

(* The Signature document around an RSA value made here or elsewhere.         *)
signature_xml(template, value, cert) ==
    [template |-> template, info |-> signed_info(template), value |-> value,
     cert |-> cert, stamp |-> <<>>]

sign_xml_signed_info(m, info) == ProviderSign(m, Hash(info[1], info))

(* add_signature_timestamp: a stamped document is refused.                    *)
add_signature_timestamp(xml, answer) ==
    CASE answer = "none" -> {xml}
      [] OTHER -> {[xml EXCEPT !.stamp = <<t>>] :
                      t \in {u \in request_rfc3161_token(answer, "sha256", xml.value) :
                                xml.stamp = <<>>}}

vsix_embed(f, xml, overwrite) ==
    {[f EXCEPT !.parts = w] :
        w \in write_signed_package(f.parts, <<Part("signature", <<"xml", xml>>)>>, overwrite)}

sign_vsix(f, req, now) ==
    UNION {UNION {UNION {vsix_embed(f, x, FALSE) :
        x \in add_signature_timestamp(
                 signature_xml(t, sign_xml_signed_info(req.material, signed_info(t)), s[1]), req.tsa)} :
        s \in load_signing_provider(req.material)} :
        t \in signature_template(f.parts, req.alg, now)}

XmlVerifies(xml) ==
    /\ xml.value = RsaSign(xml.cert, Hash(xml.info[1], xml.info))
    /\ xml.info = signed_info(xml.template)

(* verify_xml_signature: every reference is of a part that is there, and      *)
(* every part has one.                                                        *)
verify_vsix(f) ==
    /\ Once(f.parts, "signature") /\ Once(f.parts, "types")
    /\ LET xml == BodyOf(f.parts, "signature")[2]
           alg == xml.template.alg
       IN /\ XmlVerifies(xml)
          /\ xml.template.manifest =
                {<<p.name, TypeOf(f.parts, p.name), Hash(alg, p.body)>> : p \in Covered(f.parts)}

VsixContent(f) ==
    {<<p.name, IF Has(f.parts, "types") THEN TypeOf(f.parts, p.name) ELSE {}, p.body>> :
        p \in ToSet(Without(f.parts, SignatureParts \cup {"types", "rels"}))}
-----------------------------------------------------------------------------
(* ClickOnce manifests: elements, at most one Signature among them, and the   *)
(* end tag of the root.                                                       *)
Close == Cell("close", "")

unsigned_clickonce_manifest(data) ==
    LET at == {i \in DOMAIN data : data[i][1] = "xml"}
    IN IF at = {} THEN data ELSE SubSeq(data, 1, Min(at) - 1) \o SubSeq(data, Min(at) + 1, Len(data))

clickonce_signed_info(unsigned, alg) == <<alg, Hash(alg, unsigned)>>

insert_clickonce_signature(unsigned, xml) ==
    LET ends == {i \in DOMAIN unsigned : unsigned[i] = Close}
    IN When(ends # {}, SubSeq(unsigned, 1, Max(ends) - 1) \o <<Cell("xml", xml)>> \o
                       SubSeq(unsigned, Max(ends), Len(unsigned)))

ClickOnceWith(f, info, value, cert) ==
    {[f EXCEPT !.data = d] : d \in insert_clickonce_signature(unsigned_clickonce_manifest(f.data),
        [info |-> info, value |-> value, cert |-> cert])}

sign_clickonce_manifest(f, req) ==
    LET info == clickonce_signed_info(unsigned_clickonce_manifest(f.data), req.alg)
    IN UNION {ClickOnceWith(f, info, sign_xml_signed_info(req.material, info), s[1]) :
                s \in load_signing_provider(req.material)}

verify_clickonce(f) ==
    \E i \in DOMAIN f.data :
        /\ f.data[i][1] = "xml" /\ \A j \in 1..(i - 1) : f.data[j][1] # "xml"
        /\ LET xml == f.data[i][2]
           IN /\ xml.info = clickonce_signed_info(unsigned_clickonce_manifest(f.data), xml.info[1])
              /\ xml.value = RsaSign(xml.cert, Hash(xml.info[1], xml.info))

(* App Installer descriptors: a detached signature beside the file.           *)
sign_appinstaller(f, req) ==
    UNION {{[f EXCEPT !.companion = <<t>>] : t \in maybe_timestamp_pkcs7(c, req.tsa)} :
        c \in create_pkcs7(req.material, "Basic", FALSE, req.alg, <<"data", f.data>>, 0)}

verify_appinstaller(f) ==
    f.companion # <<>> /\ verify_detached(f.companion[1], <<"data", f.data>>)
=============================================================================
