----------------------------- MODULE TrustVerify -----------------------------
(* Portable trust verification of one signed file at a time per client: the   *)
(* anchors are loaded (from files, from the AuthRoot cache, or pinned), then  *)
(* every signature of the file goes through its digest, the choice of the     *)
(* instant its certificates are judged at, the walk from the signer to an     *)
(* anchor with issuers fetched over AIA, the revocation policy with OCSP and  *)
(* CRL, and the verification of the chain.  A timestamp token takes the same  *)
(* walk with the certificate of its authority.  Responders answer at any      *)
(* time, with old answers too, while days pass and certificates are revoked.  *)
EXTENDS AuthRootCache, Sequences, SequencesExt

CONSTANTS
    Certs,
    X509,           \* [Certs -> fields of the certificate]
    Program,        \* [0..MaxDay -> what the CAB published that day holds]
    Pinned,         \* PUBLIC_TRUST_ROOTS
    Jobs,           \* pairs of a signed file and the TrustVerifyPeOptions for it
    Window,         \* days between thisUpdate and nextUpdate of an answer
    MaxChain,       \* 32
    None            \* no value: Option::None

Day == 0..MaxDay

(* A timestamp token, a signature with its unsigned attributes, the file, and *)
(* the options.  None among embedded certificates is one of another kind.     *)
TokenType == [time : Int, imprintMatches : BOOLEAN, signatureVerifies : BOOLEAN,
              leaf : Certs, embedded : Seq(Certs \cup {None})]
SignatureType ==
    [digestMatches : BOOLEAN, parses : BOOLEAN, signatureVerifies : BOOLEAN,
     leaf : Certs, embedded : Seq(Certs \cup {None}),
     attrs : Seq([known : BOOLEAN, token : TokenType \cup {None}]),
     signingTime : Int \cup {None}]
FileType == [format : STRING, entries : Seq(SignatureType)]
CabType == [certs : Seq(Certs), thumbs : SUBSET Certs]
PolicyType == [ids : SUBSET Int, privateRoots : SUBSET Certs, requireTimestamp : BOOLEAN]
OptionsType ==
    [anchors : SUBSET Certs, additional : SUBSET Certs, cabPin : CabType \cup {None},
     asOf : Int \cup {None}, strictEku : BOOLEAN, preferTimestamp : BOOLEAN,
     requireTimestamp : BOOLEAN, aia : BOOLEAN, aiaOverride : Seq(Certs), ocsp : BOOLEAN,
     revocation : {"off", "bestEffort", "require"}, artifact : PolicyType \cup {None}]

ASSUME TrustAssumption ==
    /\ IsFiniteSet(Certs) /\ None \notin Certs
    /\ \A c \in Certs : X509[c].aia \in Seq(Certs)
    /\ Program \in [Day -> CabType]
    /\ Pinned \subseteq Certs
    /\ Jobs \subseteq [file : FileType, opts : OptionsType]
    /\ Window \in Nat \ {0}     \* nextUpdate is after thisUpdate
    /\ MaxChain \in Nat

VARIABLES
    revokedOn,      \* the day each certificate was revoked
    v               \* the verification of each client

vars == <<cacheVars, revokedOn, v>>

Never == MaxDay + 1

SelfIssued(c) == X509[c].subject = X509[c].issuer
ValidAt(c, day) == X509[c].notBefore <= day /\ day <= X509[c].notAfter
SignedBy(c, d) == X509[c].signer = X509[d].key

(* Where a verification can be; None when there is none.                      *)
Steps == {"resolve", "load", "entry", "instant", "tsa", "signer", "walk", "aia",
          "anchor", "ocsp", "crl", "check", "report", "passed", "trusted", "rejected"}
Phases == Steps \cup {None}

ASSUME NoneIsNoStep == None \notin Steps

Fresh == [phase |-> None, file |-> None, opts |-> None, started |-> 0, entry |-> 0,
          anchors |-> {}, anchorCerts |-> <<>>, instant |-> 0, role |-> "signer",
          leaf |-> None, pool |-> <<>>, chain |-> <<>>, subject |-> 0]

TypeOK ==
    /\ CacheTypeOK
    /\ revokedOn \in [Certs -> 0..Never]
    /\ \A p \in Clients :
        /\ v[p].phase \in Phases
        /\ v[p].anchors \subseteq Certs /\ v[p].anchorCerts \in Seq(Certs)
        /\ v[p].pool \in Seq(Certs) /\ v[p].chain \in Seq(Certs)
        /\ v[p].leaf \in Certs \cup {None}
        /\ Len(v[p].chain) <= MaxChain
        /\ v[p].phase # None => \E j \in Jobs : j.file = v[p].file /\ j.opts = v[p].opts

Init ==
    /\ CacheInit
    /\ revokedOn = [c \in Certs |-> Never]
    /\ v = [p \in Clients |-> Fresh]

-----------------------------------------------------------------------------
Set(p, r) == v' = [v EXCEPT ![p] = r]
Become(p, ph) == Set(p, [v[p] EXCEPT !.phase = ph])
Reject(p) == Set(p, [Fresh EXCEPT !.phase = "rejected", !.file = v[p].file, !.opts = v[p].opts,
                                  !.started = v[p].started, !.entry = v[p].entry])
Local == UNCHANGED <<cacheVars, revokedOn>>
At(p, ph) == v[p].phase = ph

Opts(p) == v[p].opts
Entry(p) == v[p].file.entries[v[p].entry]
Artifact(p) == Opts(p).artifact # None
Vsix(p) == v[p].file.format = "vsix"

(* resolve_authroot_cab_for_shared: anchors given by name replace the cached  *)
(* AuthRoot CAB; the Artifact Signing policy replaces both.                   *)
UsesCache(o) == o.artifact = None /\ o.anchors = {}

(* timestamp_token_from_signer_unsigned_attrs: the attributes made for tokens *)
(* are tried before all others; one that holds no token is passed over.       *)
Token(p) ==
    LET attrs == Entry(p).attrs
        holding == {i \in DOMAIN attrs : attrs[i].token # None}
        known == {i \in holding : attrs[i].known}
    IN IF holding = {} THEN None
       ELSE attrs[Min(IF known # {} THEN known ELSE holding)].token

(* The signed attribute signing-time, which the signer may set as it likes.   *)
SigningTime(p) == Entry(p).signingTime

(* What is left of s when only its positions in I are kept.                   *)
Keep(s, I) ==
    LET left[i \in 0..Len(s)] ==
            IF i = 0 THEN <<>>
            ELSE IF i \in I THEN Append(left[i - 1], s[i]) ELSE left[i - 1]
    IN left[Len(s)]

(* Bug: certificates of other kinds are kept.                                *)
BugEmbeddedCerts(s) == s

(* The X.509 certificates of a CMS; other kinds in its set are skipped.       *)
embedded_certs(s) == Keep(s, {i \in DOMAIN s : s[i] \in Certs})

(* The EKUs of a certificate, without those whose OIDs are not canonical.     *)
has_code_signing_eku(c) == "code" \in X509[c].ekus
has_time_stamping_eku(c) == "time" \in X509[c].ekus

(* The identity EKU of an Artifact Signing certificate; two of them are an    *)
(* error.                                                                     *)
HasIdentity(c) == Cardinality(X509[c].ids) = 1
artifact_signing_identity(c) == CHOOSE id \in X509[c].ids : TRUE

Start(p) == \E j \in Jobs :
    /\ At(p, None) /\ pc[p] = "idle"
    /\ Set(p, [Fresh EXCEPT !.phase = IF UsesCache(j.opts) THEN "resolve" ELSE "load",
                            !.file = j.file, !.opts = j.opts, !.started = now])
    /\ Local

Resolve(p) ==
    /\ At(p, "resolve") /\ CacheStep(p)
    /\ UNCHANGED <<revokedOn, v>>

(* A resolution that failed: the verification is over.                        *)
ResolveFails(p) ==
    /\ At(p, "resolve") /\ pc[p] = "failed"
    /\ Forget(p) /\ Reject(p)
    /\ UNCHANGED revokedOn

(* ingest_authroot_cab_bytes: the certificates beside the CTL, and the        *)
(* thumbprints in it.                                                         *)
CabCerts(p) == Program[got[p].day].certs
CabThumbs(p) == Program[got[p].day].thumbs

(* AnchorStore: thumbprints, with or without the certificates they are of.    *)
AnchorStore(certs, thumbs) == [anchors |-> Range(certs) \cup thumbs, certs |-> certs]

public_trust_anchors == AnchorStore(SetToSeq(Pinned), {})

load_trust_material(p) ==
    LET named == SetToSeq(Opts(p).anchors) \o SetToSeq(Opts(p).additional)
    IN IF UsesCache(Opts(p)) THEN AnchorStore(named \o CabCerts(p), CabThumbs(p))
       ELSE AnchorStore(named, {})

trust_material_for(p) == IF Artifact(p) THEN public_trust_anchors ELSE load_trust_material(p)

(* --expect-authroot-cab-sha256                                               *)
PinDiffers(p) == UsesCache(Opts(p)) /\ Opts(p).cabPin \notin {None, Program[got[p].day]}

LoadTrust(p) ==
    /\ \/ At(p, "load") /\ UNCHANGED cacheVars
       \/ /\ At(p, "resolve") /\ pc[p] = "verify" /\ Goto(p, "idle")
          /\ UNCHANGED <<now, skew, cab, meta, tmp, got, stamp, fresh, held>>
    /\ LET t == trust_material_for(p)
       IN IF t.anchors = {} \/ v[p].file.entries = <<>> \/ PinDiffers(p)
          THEN Reject(p)
          ELSE Set(p, [v[p] EXCEPT !.phase = "entry", !.entry = 1,
                                   !.anchors = t.anchors, !.anchorCerts = t.certs])
    /\ UNCHANGED revokedOn
-----------------------------------------------------------------------------
(* checked_identity of the Artifact Signing policy.                           *)
checked_identity(p) ==
    LET c == Entry(p).leaf
        id == artifact_signing_identity(c)
        policy == Opts(p).artifact
    IN /\ HasIdentity(c)
       /\ id.kind # "ci"
       /\ id.kind = "public" => "marker" \in X509[c].ekus
       /\ has_code_signing_eku(c)
       /\ policy.ids # {} => id.publisher \in policy.ids

(* The digest recomputed over the file is compared before anything else.      *)
CheckDigest(p) ==
    /\ At(p, "entry")
    /\ IF Entry(p).digestMatches /\ (Artifact(p) => checked_identity(p))
       THEN Become(p, "instant") ELSE Reject(p)
    /\ Local

Judged(p, day) == Set(p, [v[p] EXCEPT !.phase = "signer", !.instant = day])

HasToken(p) == Token(p) # None

artifact_signing_instant(p) ==
    IF HasToken(p) THEN Become(p, "tsa")
    ELSE IF Opts(p).artifact.requireTimestamp THEN Reject(p) ELSE Judged(p, wall)

resolve_verification_instant_for_pkcs7_with_trust(p) ==
    IF ~Opts(p).preferTimestamp THEN Judged(p, wall)
    ELSE IF Opts(p).requireTimestamp
         THEN IF HasToken(p) THEN Become(p, "tsa") ELSE Reject(p)
         ELSE Judged(p, IF HasToken(p) THEN Token(p).time
                        ELSE IF SigningTime(p) # None THEN SigningTime(p) ELSE wall)

vsix_instant(p) ==
    IF ~Opts(p).preferTimestamp THEN Judged(p, wall)
    ELSE IF HasToken(p) THEN Become(p, "tsa")
    ELSE IF Opts(p).requireTimestamp THEN Reject(p) ELSE Judged(p, wall)

ChooseInstant(p) ==
    /\ At(p, "instant")
    /\ IF Opts(p).asOf # None THEN Judged(p, Opts(p).asOf)
       ELSE IF Artifact(p) THEN artifact_signing_instant(p)
       ELSE IF Vsix(p) THEN vsix_instant(p)
       ELSE resolve_verification_instant_for_pkcs7_with_trust(p)
    /\ Local

(* Bug: the imprint of the token is not compared.                            *)
BugTokenImprint(p) ==
    Token(p).signatureVerifies /\ has_time_stamping_eku(Token(p).leaf)

(* verify_timestamp_token: the imprint is of the signature it stands beside,  *)
(* the token is signed, its signer may sign timestamps.                       *)
token_is_genuine(p) ==
    /\ Token(p).imprintMatches /\ Token(p).signatureVerifies
    /\ has_time_stamping_eku(Token(p).leaf)

(* merge_unique_certs: by thumbprint, the first bag first.  (A certificate    *)
(* that one bag has twice stays so, which no search for an issuer tells.)     *)
merge_unique_certs(s, t) == s \o Keep(t, {i \in DOMAIN t : t[i] \notin Range(s)})

StartWalk(p, role, leaf, pool) ==
    Set(p, [v[p] EXCEPT !.phase = IF SelfIssued(leaf) THEN "anchor" ELSE "walk",
                        !.role = role, !.leaf = leaf, !.pool = pool, !.chain = <<>>])

VerifyToken(p) ==
    /\ At(p, "tsa")
    /\ IF token_is_genuine(p)
       THEN StartWalk(p, "tsa", Token(p).leaf,
                      merge_unique_certs(v[p].anchorCerts, embedded_certs(Token(p).embedded)))
       ELSE Reject(p)
    /\ Local

(* artifact_signing_anchors: subscriber roots for the other profiles, among   *)
(* which a Microsoft root does not count.                                     *)
SignerAnchors(p) ==
    IF ~Artifact(p) THEN v[p].anchors
    ELSE IF artifact_signing_identity(Entry(p).leaf).kind = "public" THEN Pinned
    ELSE Opts(p).artifact.privateRoots \ Pinned

SignerCerts(p) == IF Artifact(p) THEN SetToSeq(SignerAnchors(p)) ELSE v[p].anchorCerts

StrictEku(p) == Artifact(p) \/ Opts(p).strictEku

(* Bug: the anchors are not in the pool.                                     *)
BugSignerPool(p) == embedded_certs(Entry(p).embedded)

(* verify_authenticode_pkcs7_trust: the parser that reads the content takes   *)
(* the embedded certificates first; the fallback for content it cannot read,  *)
(* detached signatures and VSIX take the anchors first.                       *)
SignerPool(p) ==
    IF Entry(p).parses /\ ~Vsix(p)
    THEN merge_unique_certs(embedded_certs(Entry(p).embedded), SignerCerts(p))
    ELSE merge_unique_certs(SignerCerts(p), embedded_certs(Entry(p).embedded))

VerifySigner(p) ==
    /\ At(p, "signer")
    /\ IF /\ Entry(p).signatureVerifies
          /\ StrictEku(p) => has_code_signing_eku(Entry(p).leaf)
          /\ SignerAnchors(p) # {}
       THEN StartWalk(p, "signer", Entry(p).leaf, SignerPool(p))
       ELSE Reject(p)
    /\ Local
-----------------------------------------------------------------------------
(* The anchors in force for the walk under way.                               *)
Anchors(p) == IF v[p].role = "tsa" THEN v[p].anchors ELSE SignerAnchors(p)

Path(p) == <<v[p].leaf>> \o v[p].chain
Current(p) == Last(Path(p))

(* Where the pool has a certificate with the name of the issuer of c, and the *)
(* first of them.                                                             *)
Issuers(pool, c) == {i \in DOMAIN pool : X509[pool[i]].subject = X509[c].issuer}
Issuer(pool, c) == pool[Min(Issuers(pool, c))]

(* issuer_chain_excluding_leaf_online: the first certificate of the pool with *)
(* the name of the issuer, until an anchor or a self-issued one.              *)
Walk(p) ==
    /\ At(p, "walk")
    /\ LET parent == Issuer(v[p].pool, Current(p))
       IN IF Issuers(v[p].pool, Current(p)) = {} THEN Become(p, "aia")
          ELSE IF Len(v[p].chain) = MaxChain THEN Reject(p)
          ELSE Set(p, [v[p] EXCEPT
                    !.chain = Append(@, parent),
                    !.phase = IF parent \in Anchors(p) \/ SelfIssued(parent)
                              THEN "anchor" ELSE "walk"])
    /\ Local

(* issuer_candidates_from_aia: what the URLs serve, the override first.       *)
AiaServed(p) ==
    Opts(p).aiaOverride \o
    (IF Opts(p).aia \/ UsesCache(Opts(p)) THEN X509[Current(p)].aia ELSE <<>>)

FetchIssuers(p) ==
    /\ At(p, "aia")
    /\ IF AiaServed(p) = <<>> THEN Reject(p)
       ELSE Set(p, [v[p] EXCEPT !.pool = merge_unique_certs(@, AiaServed(p)), !.phase = "walk"])
    /\ Local

(* A URL that does not answer, or not with a certificate, ends it.            *)
FetchIssuersFails(p) ==
    /\ At(p, "aia") /\ AiaServed(p) # <<>>
    /\ Reject(p)
    /\ Local

(* Bug: any end of the walk will do.                                         *)
BugRequireAnchor(p) ==
    /\ At(p, "anchor")
    /\ Become(p, "check")
    /\ Local

RequireAnchor(p) ==
    /\ At(p, "anchor")
    /\ IF Current(p) \notin Anchors(p) THEN Reject(p)
       ELSE IF Opts(p).revocation = "off" THEN Become(p, "check")
       ELSE Set(p, [v[p] EXCEPT !.phase = "ocsp", !.subject = 1])
    /\ Local
-----------------------------------------------------------------------------
(* check_revocation_chain: every certificate that has an issuer in the chain. *)
Subject(p) == Path(p)[v[p].subject]
NextSubject(p) ==
    Set(p, [v[p] EXCEPT !.subject = @ + 1,
                        !.phase = IF v[p].subject + 1 < Len(Path(p)) THEN "ocsp" ELSE "check"])
HasIssuer(p) == v[p].subject < Len(Path(p))

(* An answer tells the status of the day it was made.  It may be an old one,  *)
(* and it may be signed by somebody else than the issuer.                     *)
Answers == [day : 0..now, authentic : BOOLEAN]
Revoked(c, a) == revokedOn[c] <= a.day

ensure_time_window_fresh(a) == a.day <= wall /\ wall <= a.day + Window

Usable(a) == a.authentic /\ ensure_time_window_fresh(a)

BestEffort(p) == Opts(p).revocation = "bestEffort"

OcspConfigured(p) == Opts(p).ocsp
HasOcspUrl(p) == X509[Subject(p)].ocsp

OcspAnswered(p) == \E a \in Answers :
    /\ At(p, "ocsp") /\ HasIssuer(p) /\ OcspConfigured(p) /\ HasOcspUrl(p)
    /\ Usable(a)
    /\ IF Revoked(Subject(p), a) THEN Reject(p) ELSE NextSubject(p)
    /\ Local

(* The responder does not know the certificate, does not answer, or answers   *)
(* with what cannot be used.                                                  *)
OcspUnknown(p) ==
    /\ At(p, "ocsp") /\ HasIssuer(p) /\ OcspConfigured(p)
    /\ IF BestEffort(p) THEN Become(p, "crl") ELSE Reject(p)
    /\ Local

OcspNotConfigured(p) ==
    /\ At(p, "ocsp") /\ HasIssuer(p) /\ ~OcspConfigured(p)
    /\ Become(p, "crl")
    /\ Local

NothingToRevoke(p) ==
    /\ At(p, "ocsp") /\ ~HasIssuer(p)
    /\ Become(p, "check")
    /\ Local

CrlAnswered(p) == \E a \in Answers :
    /\ At(p, "crl") /\ X509[Subject(p)].crl # "none"
    /\ Usable(a)
    /\ IF Revoked(Subject(p), a) THEN Reject(p) ELSE NextSubject(p)
    /\ Local

(* With best effort an error passes unless its text has the word revoked in   *)
(* it, be it in the URL.                                                      *)
CrlFails(p) ==
    /\ At(p, "crl")
    /\ IF BestEffort(p) /\ X509[Subject(p)].crl # "revoked" THEN NextSubject(p) ELSE Reject(p)
    /\ Local
-----------------------------------------------------------------------------
(* The verifier of the X.509 library: every certificate is valid at the       *)
(* instant and signed with the key of the next one.                           *)
ChainVerifies(p, day) ==
    /\ \A i \in 1..Len(Path(p)) : ValidAt(Path(p)[i], day)
    /\ \A i \in 1..Len(v[p].chain) : SignedBy(Path(p)[i], Path(p)[i + 1])

(* A self-issued signer that is itself the anchor is not verified further.    *)
AnchoredSigner(p) == v[p].role = "signer" /\ v[p].chain = <<>>

CheckChain(p) ==
    /\ At(p, "check")
    /\ IF v[p].role = "tsa"
       THEN IF ChainVerifies(p, Token(p).time) THEN Judged(p, Token(p).time) ELSE Reject(p)
       ELSE IF AnchoredSigner(p) \/ ChainVerifies(p, v[p].instant)
            THEN Become(p, IF Artifact(p) /\ ~Vsix(p) THEN "report" ELSE "passed")
            ELSE Reject(p)
    /\ Local

(* signer_terminal_root: the chain is walked again to report its root, without*)
(* the issuers that were fetched.                                             *)
Rewalkable(p) ==
    LET pool == merge_unique_certs(SignerCerts(p), embedded_certs(Entry(p).embedded))
        Ends(c) == SelfIssued(c) \/ c \in Anchors(p)
        at[n \in 0..MaxChain] ==
            IF n = 0 THEN v[p].leaf
            ELSE LET c == at[n - 1]
                 IN IF c = None \/ (n > 1 /\ Ends(c)) \/ SelfIssued(c) THEN c
                    ELSE IF Issuers(pool, c) = {} THEN None ELSE Issuer(pool, c)
    IN at[MaxChain] # None /\ Ends(at[MaxChain])

ReportRoot(p) ==
    /\ At(p, "report")
    /\ IF Rewalkable(p) THEN Become(p, "passed") ELSE Reject(p)
    /\ Local

(* Bug: the next signature is the same one.                                  *)
BugNextEntry(p) ==
    /\ At(p, "passed")
    /\ IF v[p].entry = Len(v[p].file.entries) THEN Become(p, "trusted") ELSE Become(p, "entry")
    /\ Local

NextEntry(p) ==
    /\ At(p, "passed")
    /\ IF v[p].entry = Len(v[p].file.entries) THEN Become(p, "trusted")
       ELSE Set(p, [v[p] EXCEPT !.phase = "entry", !.entry = @ + 1])
    /\ Local

Return(p) ==
    /\ v[p].phase \in {"trusted", "rejected"}
    /\ Set(p, Fresh) /\ Forget(p)
    /\ UNCHANGED revokedOn

Verify(p) ==
    \/ Resolve(p) \/ ResolveFails(p) \/ LoadTrust(p) \/ CheckDigest(p) \/ ChooseInstant(p)
    \/ VerifyToken(p) \/ VerifySigner(p) \/ Walk(p) \/ FetchIssuers(p) \/ FetchIssuersFails(p)
    \/ RequireAnchor(p) \/ OcspAnswered(p) \/ OcspUnknown(p) \/ OcspNotConfigured(p)
    \/ NothingToRevoke(p) \/ CrlAnswered(p) \/ CrlFails(p) \/ CheckChain(p) \/ ReportRoot(p)
    \/ NextEntry(p) \/ Return(p)

(* The authority revokes a certificate.                                       *)
Revoke == \E c \in Certs :
    /\ revokedOn[c] = Never /\ X509[c].revocable
    /\ revokedOn' = [revokedOn EXCEPT ![c] = now]
    /\ UNCHANGED <<cacheVars, v>>

World == (CacheWorld /\ UNCHANGED <<revokedOn, v>>) \/ Revoke

Next == (\E p \in Clients : Start(p) \/ Verify(p)) \/ World

(* Every step of a client is a call that returns, with an answer or an error: *)
(* requests have timeouts.  Nothing makes clients start, die, or days pass.   *)
Fairness == \A p \in Clients : WF_vars(Verify(p))

Spec == Init /\ [][Next]_vars /\ Fairness
-----------------------------------------------------------------------------
(* The certificates that really lead to one of A, over MaxChain issuers at    *)
(* most: names and signatures agree, and all of them are valid on the day.    *)
Below(S, day) ==
    {c \in Certs : /\ ValidAt(c, day)
                   /\ \E d \in S : SignedBy(c, d) /\ X509[c].issuer = X509[d].subject}

Leads(A, day) ==
    LET led[n \in 0..MaxChain] ==
            IF n = 0 THEN {c \in A : ValidAt(c, day)}
            ELSE LET S == led[n - 1] IN S \cup Below(S, day)
    IN led[MaxChain]

(* Whom the options let vouch for the signer, said without the steps.         *)
Vouchers(p) ==
    LET o == v[p].opts
        id == artifact_signing_identity(Entry(p).leaf)
    IN IF Artifact(p) THEN IF id.kind = "public" THEN Pinned ELSE o.artifact.privateRoots \ Pinned
       ELSE IF o.anchors # {} THEN o.anchors \cup o.additional
       ELSE o.additional \cup Range(Program[got[p].day].certs) \cup Program[got[p].day].thumbs

Days(p) == v[p].started..(now + Spread)

(* A signature that passed has a digest and a signature that verify, and its  *)
(* signer is, or is led by valid certificates to, somebody the options let    *)
(* vouch for it: for Artifact Signing the pinned roots for public profiles    *)
(* and never a pinned root for others (verify_pkcs7_entry,                    *)
(* artifact_signing_anchors).                                                 *)
TrustedIsSound == \A p \in Clients : At(p, "passed") =>
    /\ Entry(p).digestMatches /\ Entry(p).signatureVerifies
    /\ \/ Entry(p).leaf \in Vouchers(p)
       \/ Entry(p).leaf \in Leads(Vouchers(p), v[p].instant)

(* What the certificates of a signature that passed were judged at: the date  *)
(* of the caller, else a day of this verification, else, when a timestamp is  *)
(* required, the time of a token over this very signature whose authority is  *)
(* led to an anchor (resolve_verification_instant_for_pkcs7_with_trust,       *)
(* artifact_signing_instant).                                                 *)
ExpiredNeedsTimestamp == \A p \in Clients :
    LET o == v[p].opts
        insists == IF Artifact(p) THEN o.artifact.requireTimestamp
                   ELSE o.preferTimestamp /\ o.requireTimestamp
    IN At(p, "passed") /\ o.asOf = None =>
        /\ ~Artifact(p) /\ ~o.preferTimestamp => v[p].instant \in Days(p)
        /\ insists => /\ Token(p) # None /\ Token(p).imprintMatches
                      /\ Token(p).leaf \in Leads(v[p].anchors, Token(p).time)
                      /\ v[p].instant = Token(p).time

(* When revocation is required, no certificate of a signature that passed,    *)
(* but the anchor, had been revoked longer ago than an answer stays current,  *)
(* whatever responders replay (check_revocation_chain).                       *)
RevocationHolds == \A p \in Clients :
    At(p, "passed") /\ v[p].opts.revocation = "require" =>
        \A i \in 1..(Len(Path(p)) - 1) : revokedOn[Path(p)[i]] + Window > v[p].started

(* Time is on nobody's side: what passed was judged at an instant it has a    *)
(* right to, and no answer about revocation was too old to count.             *)
JudgedInTime == ExpiredNeedsTimestamp /\ RevocationHolds

(* What the signer of p may be led by: certificates from all to one of A, all *)
(* valid on the day.                                                          *)
GoodPath(p, all, A, day, path) ==
    /\ path[1] = Entry(p).leaf /\ path[Len(path)] \in A
    /\ \A i \in DOMAIN path : ValidAt(path[i], day)
    /\ \A i \in 1..(Len(path) - 1) : /\ SignedBy(path[i], path[i + 1])
                                    /\ X509[path[i]].issuer = X509[path[i + 1]].subject

(* A sound signature whose certificates are all at hand and have names of     *)
(* their own, valid on every day of the verification.  (A signer that is      *)
(* itself an anchor, but not self-issued, is no end of the walk.)             *)
Honest(p) ==
    LET o == v[p].opts
        e == Entry(p)
        given == o.anchors \cup o.additional
        all == Range(embedded_certs(e.embedded)) \cup given
    IN /\ o.anchors # {} /\ o.artifact = None /\ o.revocation = "off"
       /\ ~o.preferTimestamp /\ o.asOf = None
       /\ e.digestMatches /\ e.signatureVerifies /\ has_code_signing_eku(e.leaf)
       /\ e.leaf \in given => SelfIssued(e.leaf)
       /\ \A c, d \in all : X509[c].subject = X509[d].subject => c = d
       /\ \A day \in Days(p) :
            \E n \in 1..(MaxChain + 1) : \E path \in [1..n -> all] :
                GoodPath(p, all, given, day, path)

(* A sound signature is not turned down: not for certificates it does not     *)
(* need, nor for their order in the pool (verify_pkcs7_entry,                 *)
(* issuer_chain_excluding_leaf).                                              *)
NoFalseRejection == \A p \in Clients :
    At(p, "rejected") /\ v[p].entry > 0 => ~Honest(p)

(* The servers answer every request for the issuer with certificates that do  *)
(* not have its name: the loop has no count of its own for that.              *)
Misled(p) ==
    /\ v[p].phase \in {"walk", "aia"} /\ AiaServed(p) # <<>>
    /\ Issuers(v[p].pool \o AiaServed(p), Current(p)) = {}

(* Every verification that starts ends, with a verdict or an error, whatever  *)
(* names repeat among the certificates and whatever OCSP and CRL servers      *)
(* answer, unless AIA servers keep answering with other certificates than the *)
(* issuer's (issuer_chain_excluding_leaf_online, check_revocation_chain).     *)
EveryVerificationEnds == \A p \in Clients : ~At(p, None) ~> (At(p, None) \/ Misled(p))
=============================================================================
