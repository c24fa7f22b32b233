------------------------------ MODULE Inspection ------------------------------
(* What a reader is told of a file: whether its signature verifies, and the   *)
(* status that portable_get_signature reports.  A digest check ends in "ok"   *)
(* or in an error, of which the status is made from the words of its message: *)
(* "unsigned", "mismatch", or "other" for words nobody looks for.             *)
EXTENDS PackageFormats

(* trust_verify_*_bytes, the part that is about the file and not the chain.   *)
Verify(f) ==
    CASE f.fmt = "pe" -> verify_pe(f)
      [] f.fmt = "cab" -> verify_cab(f)
      [] f.fmt = "msi" -> verify_msi(f)
      [] f.fmt = "script" -> verify_script(f)
      [] f.fmt = "zip" -> verify_zip(f)
      [] f.fmt = "msix" -> verify_msix(f)
      [] f.fmt = "nuget" -> verify_nuget(f)
      [] f.fmt = "vsix" -> verify_vsix(f)
      [] f.fmt = "clickonce" -> verify_clickonce(f)
      [] OTHER -> verify_appinstaller(f)

-----------------------------------------------------------------------------
(* verify_*_digest_consistency, format by format.                             *)
check_pe(f) ==
    IF ~TableAligned(f) THEN "other"
    ELSE IF ~HasTable(f) THEN "unsigned"
    ELSE IF pe_pkcs7(f) = <<>> THEN "other"
    ELSE IF pe_digests_match(f) THEN "ok" ELSE "mismatch"

(* "CAB has no embedded Authenticode signature" and "MSI is missing ...       *)
(* stream" are not among the words.                                           *)
check_cab(f) ==
    LET found == cab_signature_pkcs7(f)
        computed == compute_cab_digest(f, IndirectDigest(found[1])[1])
    IN IF found = <<>> THEN "other"
       ELSE IF computed = {} THEN "other"
       ELSE IF IndirectDigest(found[1]) \in computed THEN "ok" ELSE "mismatch"

check_msi(f) ==
    LET alg == IndirectDigest(f.sig[1])[1]
    IN IF f.sig = <<>> THEN "other"
       ELSE IF IndirectDigest(f.sig[1]) # compute_msi_fingerprint(f, alg) THEN "mismatch"
       ELSE IF f.ex # <<>> /\ f.ex[1] # compute_prehash(f, alg) THEN "mismatch" ELSE "ok"

check_script(f) ==
    LET found == extract_pkcs7_from_script(f)
        stripped == strip_signature_region(UnitsToVerify(f))
    IN IF found = <<>> \/ stripped = {} THEN "unsigned"
       ELSE IF IndirectDigest(found[1]) \in
                   {script_digest(u, IndirectDigest(found[1])[1]) : u \in stripped}
       THEN "ok" ELSE "mismatch"

check_zip(f) ==
    IF f.comment = <<>> THEN "unsigned"
    ELSE IF f.comment[1].digest # zip_authenticode_digest(f) THEN "mismatch"
    ELSE check_script([ZipScript(f.comment[1].digest) EXCEPT
                          !.data = @ \o format_signature_block(f.comment[1].cms)])

(* A message that names AppxSignature.p7x, whatever it says of it, is taken   *)
(* for an unsigned package.                                                   *)
check_msix(f) ==
    LET kinds == parse_block_map_xml(BodyOf(f.parts, "blockMap"))
        blob == IndirectDigest(MsixSignature(f)[1])
        kind == CHOOSE k \in kinds : TRUE
    IN IF f.gap \/ ~Once(f.parts, "types") \/ ~Once(f.parts, "blockMap") THEN "other"
       ELSE IF MsixSignature(f) = <<>> THEN "unsigned"
       ELSE IF ~validate_package_part_inventory(f.parts, f.ext) \/ kinds = {} THEN "other"
       ELSE IF ~validate_reserved_content_types(f.parts, f.ext)
       THEN IF "blockMap" \in BodyOf(f.parts, "types")[2]
               /\ "signature" \notin BodyOf(f.parts, "types")[2] THEN "unsigned" ELSE "other"
       ELSE IF blob[1] # kind \/ (blob[2].AXCI = <<>>) = Has(f.parts, "codeIntegrity") THEN "other"
       ELSE IF blob # msix_pieces(f, kind) THEN "mismatch"
       ELSE IF msix_authenticode_digest_blob(f) = {} THEN "other" ELSE "ok"

check_nuget(f) ==
    LET cms == BodyOf(f.parts, "signature")[2]
        cut == signed_package_unsigned(f.parts)
    IN IF cut = {} THEN "other"
       ELSE IF cms.content[1] \in {signature_content(u, cms.content[1][2]) : u \in cut}
               /\ cms.attrs.messageDigest = Hash(cms.alg, cms.content[1])
       THEN "ok" ELSE "mismatch"
-----------------------------------------------------------------------------
(* Bug: a failure with other words is taken for an unsigned file.             *)
BugMapDigestError(check) ==
    CASE check = "ok" -> "Valid" [] check = "mismatch" -> "HashMismatch" [] OTHER -> "NotSigned"

map_digest_error(check) ==
    CASE check = "ok" -> "Valid"
      [] check = "unsigned" -> "NotSigned"
      [] check = "mismatch" -> "HashMismatch"
      [] OTHER -> "Incompatible"

(* A package is asked whether it has the part of a signature first.           *)
inspect_nuget(f) ==
    IF Has(f.parts, "signature") THEN map_digest_error(check_nuget(f)) ELSE "NotSigned"

inspect_vsix_opc(f) ==
    IF Named(f.parts, {"origin", "signature"}) = <<>> THEN "NotSigned"
    ELSE IF verify_vsix(f) THEN "Valid" ELSE "HashMismatch"

(* An element, or a file beside this one, is all these two look for.          *)
PresenceOnly == {"clickonce", "appinstaller"}

inspect_clickonce_manifest(f) ==
    IF OfKind(f.data, "xml") # <<>> THEN "Valid" ELSE "NotSigned"

inspect_appinstaller(f) == IF f.companion # <<>> THEN "Valid" ELSE "NotSigned"

inspect(f) ==
    CASE f.fmt = "pe" -> map_digest_error(check_pe(f))
      [] f.fmt = "cab" -> map_digest_error(check_cab(f))
      [] f.fmt = "msi" -> map_digest_error(check_msi(f))
      [] f.fmt = "script" -> map_digest_error(check_script(f))
      [] f.fmt = "zip" -> map_digest_error(check_zip(f))
      [] f.fmt = "msix" -> map_digest_error(check_msix(f))
      [] f.fmt = "nuget" -> inspect_nuget(f)
      [] f.fmt = "vsix" -> inspect_vsix_opc(f)
      [] f.fmt = "clickonce" -> inspect_clickonce_manifest(f)
      [] OTHER -> inspect_appinstaller(f)

(* Anchors are only asked about a signature that is Valid without them, and   *)
(* two formats have no trust verification.                                    *)
apply_trust_if_requested(f, trust, status) ==
    IF trust = "none" \/ status # "Valid" THEN status
    ELSE IF f.fmt \notin PresenceOnly /\ Verify(f) THEN "Valid" ELSE "NotTrusted"

(* trust: "none", or "anchored" for anchors the signer leads up to.           *)
portable_get_signature(f, trust) == apply_trust_if_requested(f, trust, inspect(f))
=============================================================================
