--------------------------------- MODULE Cms ---------------------------------
(* The PKCS#7 SignedData documents the portable core makes and checks: the    *)
(* content that names a digest, the signed attributes over it, the RSA value  *)
(* over the attributes, the certificates and the timestamp tokens.  A digest  *)
(* is the pair of its algorithm and what it was taken of, an RSA value the    *)
(* pair of its key and the digest.  An operator that can fail gives the set   *)
(* of its results: no element when the code returns an error.                 *)
EXTENDS Integers, Sequences, FiniteSets, SequencesExt

CONSTANTS
    Certs,      \* certificates; a certificate also names its key
    X509,       \* [Certs -> [subject, issuer, ca, code]]
    MaxBase64,  \* ARTIFACT_SIGNING_CERTIFICATE_MAX_BASE64_DEPTH
    PickyKinds  \* kinds of SpcIndirectDataContent that picky has a type for

(* An image, a cabinet, an installer, a script and an app package each have   *)
(* a kind of their own; a signed ZIP archive has that of a script.            *)
ASSUME PickyAssumption == PickyKinds \subseteq {"pe", "cab", "msi", "script", "msix"}

Hash(alg, x) == <<alg, x>>
RsaSign(key, digest) == <<key, digest>>

(* SpcIndirectDataContent: a digest of another length than its algorithm has  *)
(* is refused.                                                                *)
spc_indirect_data(kind, alg, digest) ==
    {c \in {<<"spc", kind, alg, digest>>} : digest[1] = alg}

IndirectDigest(cms) == cms.content[1][4]
IsIndirect(cms) == cms.content # <<>> /\ cms.content[1][1] = "spc"
-----------------------------------------------------------------------------
(* The attributes the signature is over.  Only the one-shot NuGet profile     *)
(* reads the clock.                                                           *)
NuGetProfiles == {"NuGetAuthor", "NuGetAuthorWithoutSigningTime"}

pkcs7_signed_attrs(profile, alg, content, signer, now) ==
    [type |-> content[1],
     messageDigest |-> Hash(alg, content),
     opus |-> profile = "Authenticode",
     signingTime |-> IF profile = "NuGetAuthor" THEN <<now>> ELSE <<>>,
     signingCertificate |-> IF profile \in NuGetProfiles THEN <<signer>> ELSE <<>>]

(* What a remote signer is given to sign.                                     *)
signed_attrs_digest(alg, attrs) == Hash(alg, attrs)

(* ContentInfo(SignedData) around an RSA value that was made elsewhere.  The  *)
(* certificates are a DER SET, which refuses a certificate a second time.     *)
create_pkcs7_with_signature(content, attached, alg, signer, chain, attrs, sigval) ==
    LET certs == <<signer>> \o chain
    IN IF Cardinality(ToSet(certs)) < Len(certs) THEN {}
       ELSE {[content |-> IF attached THEN <<content>> ELSE <<>>, alg |-> alg, sid |-> signer,
              certs |-> ToSet(certs), attrs |-> attrs, sigval |-> sigval, tokens |-> <<>>]}
-----------------------------------------------------------------------------
(* The signer among the certificates of a bag: a certificate that issued      *)
(* another of the bag is no leaf.                                             *)
cert_issues_another_cert(c, bag) == \E d \in bag \ {c} : X509[d].issuer = X509[c].subject
only_candidate(S) == IF Cardinality(S) = 1 THEN S ELSE {}

select_certificate_bag_signer(bag) ==
    LET leaves == {c \in bag : ~cert_issues_another_cert(c, bag)}
        ordered == <<IF Cardinality(bag) = 1 THEN bag ELSE {},
                     only_candidate({c \in leaves : X509[c].code}),
                     only_candidate(leaves),
                     only_candidate({c \in bag : ~X509[c].ca /\ X509[c].code})>>
    IN UNION {ordered[i] : i \in {i \in 1..4 : \A j \in 1..(i - 1) : ordered[j] = {}}}

(* The certificates an Artifact Signing service returns: one in DER, or a     *)
(* bag in PKCS#7 or PEM, in base64 as often as the service liked.             *)
parse_artifact_signing_certificates(m) ==
    {<<s, IF m.form = "der" THEN <<>> ELSE SetToSeq(m.bag \ {s})>> :
        s \in IF m.layers > MaxBase64 THEN {} ELSE select_certificate_bag_signer(m.bag)}
-----------------------------------------------------------------------------
(* Signing material m: the kinds of material the request names, the           *)
(* certificates and the key behind them, and a chain to put in besides.       *)
Local == {"pfx", "files"}
IsLocal(m) == m.given \subseteq Local

(* A cloud provider goes with nothing else.                                   *)
validate_signing_provider_selection(m) == \A kind \in m.given \ Local : m.given = {kind}

(* The certificate of a PFX is one its key belongs to.                        *)
load_pfx_cert_and_key(m) == m.bag \cap {m.key}

(* Either a PFX or files.  A certificate and a key from two files are not     *)
(* compared.                                                                  *)
load_signing_material(m) ==
    IF Cardinality(m.given) # 1 THEN {}
    ELSE {<<c, m.chain>> : c \in IF "pfx" \in m.given THEN load_pfx_cert_and_key(m) ELSE m.bag}

(* A vault has one certificate; Artifact Signing names it when it signs.      *)
load_remote_signing_provider(m) ==
    IF "vault" \in m.given THEN {<<c, m.chain>> : c \in m.bag}
    ELSE {<<s[1], s[2] \o m.chain>> : s \in parse_artifact_signing_certificates(m)}

load_signing_provider(m) ==
    IF ~validate_signing_provider_selection(m) THEN {}
    ELSE IF IsLocal(m) THEN load_signing_material(m) ELSE load_remote_signing_provider(m)

(* The provider signs with its key, whichever certificate it named.           *)
ProviderSign(m, digest) == RsaSign(m.key, digest)

(* SigningProvider::create_*: the whole document in one call.                 *)
create_pkcs7(m, profile, attached, alg, content, now) ==
    UNION {LET attrs == pkcs7_signed_attrs(profile, alg, content, s[1], now)
           IN create_pkcs7_with_signature(content, attached, alg, s[1], s[2], attrs,
                ProviderSign(m, signed_attrs_digest(alg, attrs))) :
               s \in load_signing_provider(m)}

create_authenticode_pkcs7(m, kind, alg, digest) ==
    UNION {create_pkcs7(m, "Authenticode", TRUE, alg, c, 0) :
               c \in spc_indirect_data(kind, alg, digest)}

(* A remote signer names its certificate only when it signs, too late for the *)
(* attributes of an author signature.                                         *)
create_nuget_author_signature(m, alg, content, now) ==
    create_pkcs7(m, IF IsLocal(m) THEN "NuGetAuthor" ELSE "Basic", TRUE, alg, content, now)
-----------------------------------------------------------------------------
(* TimeStampReq and TimeStampResp.  The token goes in as it comes: nobody     *)
(* compares its imprint with the request here.                                *)
request_rfc3161_token(answer, alg, stamped) ==
    {t \in {[imprint |-> Hash(alg, stamped)]} : answer = "granted"}

(* A token replaces the one its attribute held.                               *)
add_timestamp_token(cms, oid, token) ==
    [cms EXCEPT !.tokens = [o \in DOMAIN @ \cup {oid} |-> IF o = oid THEN token ELSE @[o]]]

timestamp_pkcs7(cms, oid, answer, alg) ==
    {add_timestamp_token(cms, oid, t) : t \in request_rfc3161_token(answer, alg, cms.sigval)}

(* maybe_timestamp_pkcs7: "none" is a request without a timestamp server.     *)
maybe_timestamp_pkcs7(cms, answer) ==
    IF answer = "none" THEN {cms} ELSE timestamp_pkcs7(cms, "ms", answer, "sha256")

(* What the document takes in a file, in units.                               *)
Width(cms) == 1 + 2 * Cardinality(DOMAIN cms.tokens)
-----------------------------------------------------------------------------
(* The RSA value is over the attributes, by the key of the certificate the    *)
(* document names and holds.  All keys here are RSA keys.                     *)
signature_verifies(cms) ==
    /\ cms.sid \in cms.certs
    /\ cms.sigval = RsaSign(cms.sid, signed_attrs_digest(cms.alg, cms.attrs))

(* picky compares the attribute messageDigest with the content.               *)
picky_verifies(cms) ==
    cms.attrs.messageDigest = Hash(cms.alg, cms.content[1]) /\ signature_verifies(cms)

(* The fallback does not, and refuses every digest algorithm but SHA-256.     *)
rsa_sha256_verifies(cms) == cms.alg = "sha256" /\ signature_verifies(cms)

(* The content names the digest of the file.  The fallback is only for what   *)
(* picky cannot parse.                                                        *)
verify_indirect(cms, digest) ==
    /\ IsIndirect(cms) /\ IndirectDigest(cms) = digest
    /\ IF cms.content[1][2] \in PickyKinds THEN picky_verifies(cms) ELSE rsa_sha256_verifies(cms)

(* The attribute messageDigest is the digest of content kept elsewhere: the   *)
(* fallback always.                                                           *)
verify_detached(cms, content) ==
    cms.attrs.messageDigest = Hash(cms.alg, content) /\ rsa_sha256_verifies(cms)
=============================================================================
