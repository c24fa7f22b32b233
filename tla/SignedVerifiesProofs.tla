------------------------- MODULE SignedVerifiesProofs -------------------------
(***************************************************************************)
(* What the commands write is what verification reads: for every file of     *)
(* every format that may be signed, every request and every sequence of      *)
(* commands and edits, what is signed in one call verifies, and so does a    *)
(* split signing all of whose commands find the same content.                *)
(***************************************************************************)
EXTENDS SignedFileProofs

-----------------------------------------------------------------------------
(* What is signed verifies.  A document made for an answered request is there *)
(* and holds: its certificates are a set, and its key is that of the          *)
(* certificate it names.                                                      *)

GoodRequest(req) ==
    /\ req.alg \in {"sha256", "sha384", "sha512"}
    /\ req.tsa \in {"none", "granted", "refused"}
    /\ IsFiniteSet(req.material.bag) /\ IsSeq(req.material.chain)

(* What verification reads of a document of a kind, and of one kept apart from *)
(* its content.                                                               *)
Verifiable(kind, alg) == alg = "sha256" \/ kind \in PickyKinds

LEMMA Readable ==
    ASSUME NEW f, NEW alg, Accepted(f, alg)
    PROVE  /\ f.fmt \in {"pe", "cab", "msi", "script", "msix"} => Verifiable(f.fmt, alg)
           /\ f.fmt = "zip" => Verifiable("script", alg)
           /\ f.fmt \in {"nuget", "appinstaller"} => alg = "sha256"
<1>1. f.fmt = "zip" => Verifiable("script", alg)
  BY DEF Accepted, Verifiable
<1>2. f.fmt \in {"pe", "cab", "msi", "script", "msix"} => Verifiable(f.fmt, alg)
  BY DEF Accepted, Verifiable
<1>3. f.fmt \in {"nuget", "appinstaller"} => alg = "sha256"
  BY PickyAssumption DEF Accepted
<1> QED
  BY <1>1, <1>2, <1>3

(* A set put in a sequence is one.                                            *)
LEMMA SetInSeq ==
    ASSUME NEW S, IsFiniteSet(S)
    PROVE  IsSeq(SetToSeq(S))
<1>1. Cardinality(S) \in Nat /\ ExistsBijection(1..Cardinality(S), S)
  BY FS_CardinalityType
<1>2. PICK f \in Bijection(1..Cardinality(S), S) : TRUE
  BY <1>1 DEF ExistsBijection
<1>3. f \in [1..Cardinality(S) -> S] /\ IsInjective(f)
  BY <1>2 DEF Bijection, Injection, Surjection, IsInjective
<1>4. SetToSeq(S) \in [1..Cardinality(S) -> S]
  BY <1>3 DEF SetToSeq
<1> DEFINE s == SetToSeq(S)
<1> HIDE DEF s
<1>5. s \in Seq(S)
  BY <1>1, <1>4 DEF s
<1>6. IsSeq(s)
  BY <1>5, SeqOver
<1> QED
  BY <1>6 DEF s

(* As many elements as places.                                                *)
LEMMA AllDifferent ==
    ASSUME NEW s, IsSeq(s), IsInjective(s)
    PROVE  Cardinality(ToSet(s)) = Len(s)
<1>1. Len(s) \in Nat /\ DOMAIN s = 1..Len(s) /\ ToSet(s) = {s[i] : i \in 1..Len(s)}
  BY SeqFacts
<1>2. s \in [1..Len(s) -> ToSet(s)]
  <2>1. s \in Seq(ToSet(s))
    BY DEF IsSeq
  <2> QED
    BY <2>1, <1>1
<1>3. s \in Bijection(1..Len(s), ToSet(s))
  BY <1>1, <1>2 DEF Bijection, Injection, Surjection, IsInjective
<1>4. ExistsBijection(1..Len(s), ToSet(s))
  BY <1>3 DEF ExistsBijection
<1>5. IsFiniteSet(1..Len(s)) /\ Cardinality(1..Len(s)) = Len(s)
  <2> DEFINE n == Len(s)
  <2>1. n \in Nat /\ n \in Int /\ 1 \in Int
    BY <1>1
  <2> HIDE DEF n
  <2>2. IsFiniteSet(1..n) /\ Cardinality(1..n) = IF 1 > n THEN 0 ELSE n - 1 + 1
    BY <2>1, FS_Interval
  <2>3. IsFiniteSet(1..n) /\ Cardinality(1..n) = n
    BY <2>1, <2>2
  <2> QED
    BY <2>3 DEF n
<1> QED
  BY <1>4, <1>5, FS_Bijection

LEMMA ProvidedChain ==
    ASSUME NEW req, GoodRequest(req), NEW s \in load_signing_provider(req.material)
    PROVE  IsSeq(s[2])
<1> DEFINE m == req.material
<1>1. IsFiniteSet(m.bag) /\ IsSeq(m.chain)
  BY DEF GoodRequest
<1> HIDE DEF m
<1>2. s \in load_signing_material(m) \cup load_remote_signing_provider(m)
  BY DEF load_signing_provider, m
<1>3. CASE s \in load_signing_material(m)
  BY <1>1, <1>3 DEF load_signing_material
<1>4. CASE s \in load_remote_signing_provider(m)
  <2>1. CASE "vault" \in m.given
    BY <1>1, <1>4, <2>1 DEF load_remote_signing_provider
  <2>2. CASE "vault" \notin m.given
    <3>1. PICK t \in parse_artifact_signing_certificates(m) : s = <<t[1], t[2] \o m.chain>>
      BY <1>4, <2>2 DEF load_remote_signing_provider
    <3>2. IsSeq(t[2])
      <4>1. PICK c : t = <<c, IF m.form = "der" THEN <<>> ELSE SetToSeq(m.bag \ {c})>>
        BY <3>1 DEF parse_artifact_signing_certificates
      <4>2. IsFiniteSet(m.bag \ {c})
        BY <1>1, FS_Subset
      <4> QED
        BY <4>1, <4>2, SetInSeq, Empty
    <3> QED
      BY <3>1, <3>2, <1>1, Joined
  <2> QED
    BY <2>1, <2>2
<1> QED
  BY <1>2, <1>3, <1>4

LEMMA Provided ==
    ASSUME NEW req, GoodRequest(req), Answered(req)
    PROVE  /\ \E s \in load_signing_provider(req.material) : TRUE
           /\ \A s \in load_signing_provider(req.material) :
                 /\ s[1] = req.material.key
                 /\ s[1] \in ToSet(<<s[1]>> \o s[2])
                 /\ ~(Cardinality(ToSet(<<s[1]>> \o s[2])) < Len(<<s[1]>> \o s[2]))
<1>1. \A s \in load_signing_provider(req.material) :
         s[1] = req.material.key /\ IsInjective(<<s[1]>> \o s[2])
  BY DEF Answered
<1>2. \E s \in load_signing_provider(req.material) : TRUE
  BY DEF Answered
<1>3. ASSUME NEW s \in load_signing_provider(req.material)
      PROVE  /\ s[1] \in ToSet(<<s[1]>> \o s[2])
             /\ ~(Cardinality(ToSet(<<s[1]>> \o s[2])) < Len(<<s[1]>> \o s[2]))
  <2>1. IsSeq(s[2])
    BY <1>3, ProvidedChain
  <2>2. IsSeq(<<s[1]>> \o s[2]) /\ s[1] \in ToSet(<<s[1]>> \o s[2])
    BY <2>1, Joined, Single
  <2> DEFINE w == <<s[1]>> \o s[2]
  <2>3. IsInjective(w)
    BY <1>1, <1>3
  <2> HIDE DEF w
  <2>4. Cardinality(ToSet(w)) = Len(w) /\ Len(w) \in Nat
    BY <2>2, <2>3, AllDifferent, SeqFacts DEF w
  <2>5. ~(Cardinality(ToSet(w)) < Len(w))
    BY <2>4
  <2> QED
    BY <2>2, <2>5 DEF w
<1> QED
  BY <1>1, <1>2, <1>3

(* SigningProvider::create_* gives a document, and its signature is over its  *)
(* attributes by the key of the certificate it names.                         *)
LEMMA DocumentHolds ==
    ASSUME NEW req, GoodRequest(req), Answered(req), NEW profile, NEW attached, NEW alg, NEW x, NEW now
    PROVE  LET C == create_pkcs7(req.material, profile, attached, alg, x, now)
           IN C # {} /\ \A c \in C : signature_verifies(c)
<1> DEFINE m == req.material
           C == create_pkcs7(m, profile, attached, alg, x, now)
           a(s) == pkcs7_signed_attrs(profile, alg, x, s[1], now)
           M(s) == create_pkcs7_with_signature(x, attached, alg, s[1], s[2], a(s),
                       ProviderSign(m, signed_attrs_digest(alg, a(s))))
<1>1. C = UNION {M(s) : s \in load_signing_provider(m)}
  BY DEF create_pkcs7
<1>2. PICK s \in load_signing_provider(m) : TRUE
  BY Provided
<1>3. M(s) # {}
  BY <1>2, Provided DEF create_pkcs7_with_signature
<1>4. C # {}
  <2> HIDE DEF M
  <2> QED
    BY <1>1, <1>2, <1>3
<1>5. ASSUME NEW c \in C PROVE signature_verifies(c)
  <2>1. MadeBy(c, m)
    BY <1>5, DocumentMade
  <2>2. PICK z \in load_signing_provider(m) : c.sid = z[1] /\ c.certs = ToSet(<<z[1]>> \o z[2])
    BY <2>1 DEF MadeBy
  <2>3. z[1] = m.key /\ z[1] \in ToSet(<<z[1]>> \o z[2])
    BY <2>2, Provided
  <2>4. c.sigval = RsaSign(m.key, Hash(c.alg, c.attrs))
    BY <2>1 DEF MadeBy
  <2> QED
    BY <2>2, <2>3, <2>4 DEF signature_verifies, signed_attrs_digest
<1> QED
  BY <1>4, <1>5

(* create_authenticode_pkcs7, whose document verifies against the digest.     *)
LEMMA SpcHolds ==
    ASSUME NEW req, GoodRequest(req), Answered(req), NEW kind, NEW alg, Verifiable(kind, alg),
           NEW d, d[1] = alg
    PROVE  LET C == create_authenticode_pkcs7(req.material, kind, alg, d)
           IN C # {} /\ \A c \in C : IsCms(c) /\ IndirectDigest(c) = d /\ verify_indirect(c, d)
<1> DEFINE m == req.material
           C == create_authenticode_pkcs7(m, kind, alg, d)
           x == SpcContent(kind, alg, d)
           D == create_pkcs7(m, "Authenticode", TRUE, alg, x, 0)
<1>1. spc_indirect_data(kind, alg, d) = {x}
  BY DEF spc_indirect_data, SpcContent
<1>2. C = D
  <2> HIDE DEF x
  <2> QED
    BY <1>1 DEF create_authenticode_pkcs7
<1>3. D # {} /\ \A c \in D : signature_verifies(c)
  BY DocumentHolds
<1>4. ASSUME NEW c \in C PROVE IsCms(c) /\ IndirectDigest(c) = d /\ verify_indirect(c, d)
  <2>1. /\ IsCms(c) /\ SignedOver(c, alg, x) /\ c.content = <<x>>
        /\ IsIndirect(c) /\ IndirectDigest(c) = d
    BY <1>4, SpcMade
  <2>2. c.content[1] = x
    BY <2>1
  <2>3. c.attrs.messageDigest = Hash(c.alg, c.content[1])
    BY <2>1, <2>2 DEF SignedOver
  <2>4. signature_verifies(c)
    BY <1>2, <1>3, <1>4
  <2>5. c.alg = alg
    BY <2>1 DEF SignedOver
  <2>6. c.content[1][2] = kind
    BY <2>2 DEF SpcContent
  <2>7. picky_verifies(c)
    BY <2>3, <2>4 DEF picky_verifies
  <2>8. kind \notin PickyKinds => rsa_sha256_verifies(c)
    BY <2>4, <2>5 DEF rsa_sha256_verifies, Verifiable
  <2> QED
    BY <2>1, <2>6, <2>7, <2>8 DEF verify_indirect
<1> HIDE DEF D
<1> QED
  BY <1>2, <1>3, <1>4

(* A timestamp that is granted leaves the document what it was.               *)
LEMMA StampHolds ==
    ASSUME NEW req, GoodRequest(req), Answered(req), NEW c, IsCms(c)
    PROVE  LET T == maybe_timestamp_pkcs7(c, req.tsa)
           IN T # {} /\ \A t \in T : IsCms(t) /\ SameDocument(t, c)
<1> DEFINE T == maybe_timestamp_pkcs7(c, req.tsa)
<1>1. \A t \in T : IsCms(t) /\ SameDocument(t, c)
  BY MaybeStamped
<1>2. req.tsa \in {"none", "granted"}
  BY DEF GoodRequest, Answered
<1>3. T # {}
  BY <1>2 DEF maybe_timestamp_pkcs7, timestamp_pkcs7, request_rfc3161_token
<1> QED
  BY <1>1, <1>3

(* The two together, for the formats that embed a stamped document.           *)
Stamps(C, req) == UNION {maybe_timestamp_pkcs7(c, req.tsa) : c \in C}

LEMMA SpcStamped ==
    ASSUME NEW req, GoodRequest(req), Answered(req), NEW kind, NEW alg, Verifiable(kind, alg),
           NEW d, d[1] = alg
    PROVE  LET T == Stamps(create_authenticode_pkcs7(req.material, kind, alg, d), req)
           IN T # {} /\ \A t \in T : IsCms(t) /\ IndirectDigest(t) = d /\ verify_indirect(t, d)
<1> DEFINE C == create_authenticode_pkcs7(req.material, kind, alg, d)
           T == Stamps(C, req)
<1>1. C # {} /\ \A c \in C : IsCms(c) /\ IndirectDigest(c) = d /\ verify_indirect(c, d)
  BY SpcHolds
<1> HIDE DEF C
<1>2. \A c \in C : maybe_timestamp_pkcs7(c, req.tsa) # {}
  BY <1>1, StampHolds
<1>3. T # {}
  BY <1>1, <1>2 DEF Stamps
<1>4. ASSUME NEW t \in T PROVE IsCms(t) /\ IndirectDigest(t) = d /\ verify_indirect(t, d)
  <2>1. PICK c \in C : t \in maybe_timestamp_pkcs7(c, req.tsa)
    BY <1>4 DEF Stamps
  <2>2. IsCms(t) /\ SameDocument(t, c)
    BY <2>1, <1>1, StampHolds
  <2> QED
    BY <2>1, <2>2, <1>1, SameSaid
<1> QED
  BY <1>3, <1>4 DEF C

LEMMA DetachedStamped ==
    ASSUME NEW req, GoodRequest(req), Answered(req), NEW profile, NEW attached, NEW alg, alg = "sha256", NEW x, NEW now
    PROVE  LET T == Stamps(create_pkcs7(req.material, profile, attached, alg, x, now), req)
           IN T # {} /\ \A t \in T : t.alg = alg /\ verify_detached(t, x)
<1> DEFINE C == create_pkcs7(req.material, profile, attached, alg, x, now)
           T == Stamps(C, req)
<1>1. C # {} /\ \A c \in C : signature_verifies(c)
  BY DocumentHolds
<1>2. \A c \in C : IsCms(c) /\ SignedOver(c, alg, x)
  BY DocumentMade
<1> HIDE DEF C
<1>3. \A c \in C : maybe_timestamp_pkcs7(c, req.tsa) # {}
  BY <1>2, StampHolds
<1>4. T # {}
  BY <1>1, <1>3 DEF Stamps
<1>5. ASSUME NEW t \in T PROVE t.alg = alg /\ verify_detached(t, x)
  <2>1. PICK c \in C : t \in maybe_timestamp_pkcs7(c, req.tsa)
    BY <1>5 DEF Stamps
  <2>2. IsCms(t) /\ SameDocument(t, c)
    BY <2>1, <1>2, StampHolds
  <2>3. verify_detached(c, x)
    BY <2>1, <1>1, <1>2 DEF verify_detached, rsa_sha256_verifies, SignedOver
  <2> QED
    BY <2>1, <2>2, <2>3, <1>2, SameSaid DEF SignedOver, SameDocument
<1> QED
  BY <1>4, <1>5 DEF C

(* App Installer descriptors.                                                 *)
LEMMA AppHolds ==
    ASSUME NEW f, NEW S, AppInv(f, S), NEW req, GoodRequest(req), Answered(req), req.alg = "sha256"
    PROVE  sign_appinstaller(f, req) # {} /\ \A g \in sign_appinstaller(f, req) : verify_appinstaller(g)
<1> DEFINE x == <<"data", f.data>>
           C == create_pkcs7(req.material, "Basic", FALSE, req.alg, x, 0)
           T == Stamps(C, req)
<1>1. T # {} /\ \A t \in T : verify_detached(t, x)
  BY DetachedStamped
<1>2. sign_appinstaller(f, req) = UNION {{[f EXCEPT !.companion = <<t>>] :
                                    t \in maybe_timestamp_pkcs7(c, req.tsa)} : c \in C}
  BY DEF sign_appinstaller
<1> HIDE DEF C
<1>3. sign_appinstaller(f, req) = {[f EXCEPT !.companion = <<t>>] : t \in T}
  BY <1>2 DEF Stamps
<1>4. ASSUME NEW t \in T PROVE verify_appinstaller([f EXCEPT !.companion = <<t>>])
  <2>1. f = AppFile(f.data, f.companion)
    BY DEF AppInv
  <2> DEFINE g == [f EXCEPT !.companion = <<t>>]
  <2>2. g = AppFile(f.data, <<t>>)
    BY <2>1, AppUpdate
  <2> HIDE DEF g
  <2>3. g.data = f.data /\ g.companion = <<t>>
    BY <2>2, AppFields
  <2>4. g.companion # <<>> /\ g.companion[1] = t
    BY <2>3, Single
  <2>5. verify_detached(t, <<"data", g.data>>)
    BY <2>3, <1>1
  <2>6. verify_appinstaller(g)
    BY <2>4, <2>5 DEF verify_appinstaller
  <2> QED
    BY <2>6 DEF g
<1> HIDE DEF T
<1> QED
  BY <1>1, <1>3, <1>4

(* Installer packages.                                                        *)
LEMMA MsiHolds ==
    ASSUME NEW f, NEW S, MsiInv(f, S), NEW req, GoodRequest(req), Answered(req),
           Verifiable("msi", req.alg)
    PROVE  sign_msi(f, req) # {} /\ \A g \in sign_msi(f, req) : verify_msi(g)
<1> DEFINE p == prepare_msi(f, req.alg)
           d == compute_msi_fingerprint(p, req.alg)
           C == create_authenticode_pkcs7(req.material, "msi", req.alg, d)
           T == Stamps(C, req)
<1>1. p = MsiFile(f.meta, f.streams, <<compute_prehash(f, req.alg)>>, f.sig)
  BY MsiPrepared
<1>2. d[1] = req.alg
  BY DEF compute_msi_fingerprint, Hash
<1>3. sign_msi(f, req) = UNION {{msi_embed(p, t) : t \in maybe_timestamp_pkcs7(c, req.tsa)} : c \in C}
  BY DEF sign_msi
<1> HIDE DEF C, p
<1>4. sign_msi(f, req) = {msi_embed(p, t) : t \in T}
  BY <1>3 DEF Stamps
<1> HIDE DEF d
<1>5. T # {} /\ \A t \in T : IndirectDigest(t) = d /\ verify_indirect(t, d)
  BY <1>2, SpcStamped DEF C
<1>6. ASSUME NEW t \in T PROVE verify_msi(msi_embed(p, t))
  <2> DEFINE e == <<compute_prehash(f, req.alg)>>
             g == msi_embed(p, t)
  <2>0. p.meta = f.meta /\ p.streams = f.streams /\ p.ex = e /\ p.sig = f.sig
    <3> HIDE DEF e
    <3> QED
      BY <1>1, MsiFields DEF e
  <2>1. g = MsiFile(f.meta, f.streams, e, <<t>>)
    <3>1. p = MsiFile(p.meta, p.streams, p.ex, p.sig)
      BY <1>1, <2>0
    <3> HIDE DEF e
    <3> QED
      BY <3>1, <2>0, MsiUpdate DEF msi_embed
  <2> HIDE DEF e, g
  <2>2. g.meta = f.meta /\ g.streams = f.streams /\ g.ex = e /\ g.sig = <<t>>
    BY <2>1, MsiFields
  <2>3. g.sig # <<>> /\ g.sig[1] = t /\ e # <<>> /\ e[1] = compute_prehash(f, req.alg)
    BY <2>2, Single DEF e
  <2>4. \A a : compute_prehash(g, a) = compute_prehash(f, a) /\ compute_prehash(p, a) = compute_prehash(f, a)
    BY <2>0, <2>2 DEF compute_prehash
  <2>5. compute_msi_fingerprint(g, req.alg) = d
    BY <2>0, <2>2, <2>4 DEF compute_msi_fingerprint, d
  <2>6. IndirectDigest(g.sig[1])[1] = req.alg
    BY <2>3, <1>2, <1>5
  <2>7. verify_msi(g)
    BY <2>2, <2>3, <2>4, <2>5, <2>6, <1>5 DEF verify_msi
  <2> QED
    BY <2>7 DEF g
<1> HIDE DEF T
<1> QED
  BY <1>4, <1>5, <1>6

(* The block of a signature behind the first n cells.                         *)
EndsInBlock(u, s, n, t) ==
    /\ n \in Nat /\ IsSeq(u) /\ Len(u) = n + 7
    /\ \A i \in 1..n : u[i] = s[i]
    /\ u[n + 1] = Crlf /\ u[n + 2] = Begin /\ u[n + 3] = Crlf /\ u[n + 4] = Cell("cms", t)
    /\ u[n + 5] = Crlf /\ u[n + 6] = End /\ u[n + 7] = Crlf
    /\ \A i \in 1..(n + 7) : i > n /\ u[i] = Begin => i = n + 2

LEMMA BlockPlaces ==
    ASSUME NEW s, IsSeq(s), NEW t
    PROVE  EndsInBlock(s \o format_signature_block(t), s, Len(s), t)
<1> DEFINE z == format_signature_block(t)
           u == s \o z
           n == Len(s)
<1>1. IsSeq(z) /\ Len(z) = 7
  BY BlockCells
<1>2. z[1] = Crlf /\ z[2] = Begin /\ z[3] = Crlf /\ z[4] = Cell("cms", t)
      /\ z[5] = Crlf /\ z[6] = End /\ z[7] = Crlf
  BY BlockCells
<1>3. \A i \in 1..7 : z[i] = Begin => i = 2
  BY BlockCells
<1> HIDE DEF z
<1>4. n \in Nat
  BY SeqFacts
<1>5. IsSeq(u) /\ MadeOf(u, s, z)
  BY <1>1, Joined, JoinedMadeOf
<1> HIDE DEF u, n
<1>6. Len(u) = n + 7 /\ (\A i \in 1..n : u[i] = s[i]) /\ \A k \in 1..7 : u[n + k] = z[k]
  BY <1>1, <1>5 DEF MadeOf, n
<1>7. 1 \in 1..7 /\ 2 \in 1..7 /\ 3 \in 1..7 /\ 4 \in 1..7 /\ 5 \in 1..7 /\ 6 \in 1..7 /\ 7 \in 1..7
  OBVIOUS
<1>8. /\ u[n + 1] = Crlf /\ u[n + 2] = Begin /\ u[n + 3] = Crlf /\ u[n + 4] = Cell("cms", t)
      /\ u[n + 5] = Crlf /\ u[n + 6] = End /\ u[n + 7] = Crlf
  BY <1>2, <1>6, <1>7, Zenon
<1>9. ASSUME NEW i \in 1..(n + 7), i > n, u[i] = Begin PROVE i = n + 2
  <2>1. i - n \in 1..7 /\ i = n + (i - n)
    BY <1>4, <1>9
  <2>2. u[n + (i - n)] = z[i - n]
    BY <1>6, <2>1
  <2>3. i - n = 2
    BY <1>3, <1>9, <2>1, <2>2
  <2> QED
    BY <2>1, <2>3
<1>10. EndsInBlock(u, s, n, t)
  BY <1>4, <1>5, <1>6, <1>8, <1>9 DEF EndsInBlock
<1> QED
  BY <1>10 DEF u, n, z

IsCut(w, s, a, b) ==
    IsSeq(w) /\ Len(w) = b - a + 1 /\ \A i \in 1..(b - a + 1) : w[i] = s[a + i - 1]

LEMMA CutAt ==
    ASSUME NEW s, IsSeq(s), NEW a \in 1..(Len(s) + 1), NEW b \in (a - 1)..Len(s)
    PROVE  IsCut(SubSeq(s, a, b), s, a, b)
<1>1. /\ IsSeq(SubSeq(s, a, b)) /\ Len(SubSeq(s, a, b)) = b - a + 1
      /\ \A i \in 1..(b - a + 1) : SubSeq(s, a, b)[i] = s[a + i - 1]
  BY Cut
<1> QED
  BY <1>1 DEF IsCut

LEMMA OneIs ==
    ASSUME NEW s, IsSeq(s), Len(s) = 1, NEW x, s[1] = x
    PROVE  s = <<x>>
<1> DEFINE o == <<x>>
<1>1. IsSeq(o) /\ Len(o) = 1 /\ o[1] = x
  BY Single
<1> HIDE DEF o
<1>2. \A i \in 1..Len(s) : s[i] = o[i]
  BY <1>1
<1>3. s = o
  BY <1>1, <1>2, SameSeq
<1> QED
  BY <1>3 DEF o

(* Scripts: the only block is the one that was appended, and what is left     *)
(* without it is what was signed.                                             *)
LEMMA BlockReads ==
    ASSUME NEW s, IsSeq(s), \A i \in 1..Len(s) : s[i] # Begin, NEW t,
           NEW u, u = s \o format_signature_block(t)
    PROVE  /\ strip_signature_region(u) = {s}
           /\ \A g : g.data = u => extract_pkcs7_from_script(g) = <<t>>
<1>1. PICK n : n = Len(s)
  OBVIOUS
<1>0. EndsInBlock(u, s, n, t)
  BY <1>1, BlockPlaces
<1>2. /\ n \in Nat /\ IsSeq(u) /\ Len(u) = n + 7
      /\ \A i \in 1..n : u[i] = s[i]
  BY <1>0 DEF EndsInBlock
<1>3. /\ u[n + 1] = Crlf /\ u[n + 2] = Begin /\ u[n + 3] = Crlf /\ u[n + 4] = Cell("cms", t)
      /\ u[n + 5] = Crlf /\ u[n + 6] = End /\ u[n + 7] = Crlf
  BY <1>0, Zenon DEF EndsInBlock
<1>4. \A i \in 1..(n + 7) : u[i] = Begin => i = n + 2
  <2> SUFFICES ASSUME NEW i \in 1..(n + 7), u[i] = Begin PROVE i = n + 2
    OBVIOUS
  <2>1. i > n
    <3> SUFFICES ASSUME ~(i > n) PROVE FALSE
      OBVIOUS
    <3>1. i \in 1..n
      BY <1>2
    <3> QED
      BY <3>1, <1>1, <1>2
  <2> QED
    BY <1>0, <2>1, Zenon DEF EndsInBlock
<1>5. BlockAt(u, n + 2)
  <2>1. 2 <= n + 2 /\ n + 2 + 5 <= Len(u) /\ ~(n + 2 + 6 <= Len(u))
    BY <1>2
  <2>2. Cell("cms", t)[1] = "cms"
    BY CellFields
  <2>5. PICK i : i = n + 2
    OBVIOUS
  <2>6. 2 <= i /\ i + 5 <= Len(u) /\ ~(i + 6 <= Len(u))
    BY <2>1, <2>5
  <2>3. i - 1 = n + 1 /\ i + 1 = n + 3 /\ i + 2 = n + 4 /\ i + 3 = n + 5 /\ i + 4 = n + 6 /\ i + 5 = n + 7
    BY <2>5, <1>2
  <2>7. /\ u[i - 1] = Crlf /\ u[i + 1] = Crlf /\ u[i + 2][1] = "cms"
        /\ u[i + 3] = Crlf /\ u[i + 4] = End /\ u[i + 5] = Crlf
    BY <2>2, <2>3, <1>3, Zenon
  <2>8. BlockAt(u, i)
    BY <2>6, <2>7 DEF BlockAt
  <2> QED
    BY <2>5, <2>8
<1>6. Blocks(u)
  <2> SUFFICES ASSUME NEW i \in 1..Len(u), u[i] = Begin PROVE BlockAt(u, i)
    BY DEF Blocks
  <2>1. i = n + 2
    BY <1>2, <1>4
  <2> QED
    BY <2>1, <1>5
<1>7. Find(u, <<Begin>>) = n + 2
  <2> DEFINE i == Find(u, <<Begin>>)
  <2>1. i # 0 => i \in 1..Len(u) /\ u[i] = Begin
    BY <1>2, <1>6, FirstBegin
  <2>2. i = 0 => \A j \in 1..Len(u) : u[j] # Begin
    BY <1>2, <1>6, FirstBegin
  <2> HIDE DEF i
  <2>3. n + 2 \in 1..Len(u)
    BY <1>2
  <2>4. i # 0
    BY <2>2, <2>3, <1>3
  <2>5. i = n + 2
    BY <2>1, <2>4, <1>2, <1>4
  <2> QED
    BY <2>5 DEF i
<1>8. strip_signature_region(u) = {s}
  <2>1. strip_signature_region(u) = {SubSeq(u, 1, n) \o SubSeq(u, n + 8, Len(u))}
    <3> DEFINE i == Find(u, <<Begin>>)
    <3>1. i # 0 => strip_signature_region(u) = {SubSeq(u, 1, i - 2) \o SubSeq(u, i + 6, Len(u))}
      BY <1>2, <1>6, BlockStripped
    <3> HIDE DEF i
    <3>2. i # 0 /\ i - 2 = n /\ i + 6 = n + 8
      BY <1>2, <1>7 DEF i
    <3> QED
      BY <3>1, <3>2
  <2>2. SubSeq(u, n + 8, Len(u)) = <<>>
    <3>1. PICK w : w = SubSeq(u, n + 8, Len(u))
      OBVIOUS
    <3>2. n + 8 \in 1..(Len(u) + 1) /\ Len(u) \in (n + 8 - 1)..Len(u)
      BY <1>2
    <3>3. PICK a : a = n + 8
      OBVIOUS
    <3>5. PICK b : b = Len(u)
      OBVIOUS
    <3>6. a \in 1..(Len(u) + 1) /\ b \in (a - 1)..Len(u)
      BY <3>2, <3>3, <3>5
    <3>7. IsCut(w, u, a, b)
      BY <3>1, <3>3, <3>5, <3>6, <1>2, CutAt
    <3>8. b - a + 1 = 0
      BY <3>3, <3>5, <1>2
    <3>4. IsSeq(w) /\ Len(w) = 0
      BY <3>7, <3>8 DEF IsCut
    <3> QED
      BY <3>1, <3>4, SeqFacts
  <2>3. SubSeq(u, 1, n) = s
    <3>1. PICK w : w = SubSeq(u, 1, n)
      OBVIOUS
    <3>2. 1 \in 1..(Len(u) + 1) /\ n \in (1 - 1)..Len(u)
      BY <1>2
    <3>3. IsCut(w, u, 1, n)
      BY <3>1, <3>2, <1>2, CutAt
    <3>4. IsSeq(w) /\ Len(w) = Len(s) /\ \A i \in 1..Len(w) : w[i] = s[i]
      <4>1. IsSeq(w) /\ Len(w) = n
        BY <3>3, <1>2 DEF IsCut
      <4>2. \A i \in 1..n : w[i] = u[i]
        BY <3>3, <1>2 DEF IsCut
      <4> QED
        BY <4>1, <4>2, <1>1, <1>2
    <3> QED
      BY <3>1, <3>4, SameSeq
  <2> QED
    BY <2>1, <2>2, <2>3, NothingAround
<1>9. ASSUME NEW g, g.data = u PROVE extract_pkcs7_from_script(g) = <<t>>
  <2>1. Find(SubSeq(u, n + 2, Len(u)), <<End>>) = 5
    <3>1. n + 2 \in 1..Len(u)
      BY <1>2
    <3> QED
      BY <3>1, <1>2, <1>3, <1>5, EndOfBlock
  <2>2. PICK w : w = SubSeq(u, n + 2, n + 2 + 5 - 1)
    OBVIOUS
  <2>3. extract_pkcs7_from_script(g) = Signatures(w)
    <3> DEFINE i == Find(u, <<Begin>>)
               e == IF i = 0 THEN 0 ELSE Find(SubSeq(u, i, Len(u)), <<End>>)
    <3>1. extract_pkcs7_from_script(g) = IF e = 0 THEN <<>> ELSE Signatures(SubSeq(u, i, i + e - 1))
      BY <1>9 DEF extract_pkcs7_from_script, file_utf16_units
    <3>2. i = n + 2 /\ i # 0
      BY <1>2, <1>7
    <3>3. e = 5
      BY <3>2, <2>1
    <3> HIDE DEF i, e
    <3> QED
      BY <3>1, <3>2, <3>3, <2>2
  <2>4. IsSeq(w) /\ Len(w) = 5 /\ \A k \in 1..5 : w[k] = u[n + 2 + k - 1]
    <3>1. n + 2 \in 1..(Len(u) + 1) /\ n + 2 + 5 - 1 \in (n + 2 - 1)..Len(u)
      BY <1>2
    <3>2. n + 2 + 5 - 1 - (n + 2) + 1 = 5
      BY <1>2
    <3>3. PICK a : a = n + 2
      OBVIOUS
    <3>4. PICK b : b = n + 2 + 5 - 1
      OBVIOUS
    <3>5. a \in 1..(Len(u) + 1) /\ b \in (a - 1)..Len(u) /\ b - a + 1 = 5
      BY <3>1, <3>2, <3>3, <3>4
    <3>6. IsCut(w, u, a, b)
      BY <2>2, <3>3, <3>4, <3>5, <1>2, CutAt
    <3>7. IsSeq(w) /\ Len(w) = 5 /\ \A k \in 1..5 : w[k] = u[a + k - 1]
      BY <3>5, <3>6 DEF IsCut
    <3> QED
      BY <3>3, <3>7
  <2>5. w[1] = Begin /\ w[2] = Crlf /\ w[3] = Cell("cms", t) /\ w[4] = Crlf /\ w[5] = End
    <3>1. /\ n + 2 + 1 - 1 = n + 2 /\ n + 2 + 2 - 1 = n + 3 /\ n + 2 + 3 - 1 = n + 4
          /\ n + 2 + 4 - 1 = n + 5 /\ n + 2 + 5 - 1 = n + 6
      BY <1>2
    <3>2. 1 \in 1..5 /\ 2 \in 1..5 /\ 3 \in 1..5 /\ 4 \in 1..5 /\ 5 \in 1..5
      OBVIOUS
    <3>3. w[1] = u[n + 2] /\ w[2] = u[n + 3] /\ w[3] = u[n + 4] /\ w[4] = u[n + 5] /\ w[5] = u[n + 6]
      BY <3>1, <3>2, <2>4, Zenon
    <3> QED
      BY <3>3, <1>3
  <2>6. OfKind(w, "cms") = <<Cell("cms", t)>>
    <3> DEFINE K == {c \in ToSet(w) : c[1] = "cms"}
    <3>1. w[3] \in K
      BY <2>4, <2>5, CellFields, SeqFacts
    <3>2. \A i \in 1..Len(w) : i # 3 => w[i] \notin K
      BY <2>4, <2>5, Kinds
    <3>3. 3 \in 1..Len(w)
      BY <2>4
    <3> HIDE DEF K
    <3>4. Only(w, K) = <<w[3]>>
      BY <3>1, <3>2, <3>3, <2>4, OnlyLone
    <3> QED
      BY <3>4, <2>5 DEF OfKind, K
  <2>7. IsSeq(Signatures(w)) /\ Len(Signatures(w)) = 1 /\ Signatures(w)[1] = t
    BY <2>4, <2>6, Single, SignaturesFacts, CellFields
  <2>8. Signatures(w) = <<t>>
    BY <2>7, OneIs
  <2> QED
    BY <2>3, <2>8
<1> QED
  BY <1>8, <1>9

LEMMA ScriptVerifies ==
    ASSUME NEW s, IsSeq(s), \A i \in 1..Len(s) : s[i] # Begin, NEW t, NEW alg,
           IndirectDigest(t) = script_digest(s, alg), verify_indirect(t, script_digest(s, alg)),
           NEW g, g.enc # "utf16le", g.data = s \o format_signature_block(t)
    PROVE  verify_script(g)
<1> DEFINE d == script_digest(s, alg)
<1>1. PICK u : u = s \o format_signature_block(t)
  OBVIOUS
<1>2. strip_signature_region(u) = {s} /\ extract_pkcs7_from_script(g) = <<t>>
  BY <1>1, BlockReads
<1>3. IsSeq(u)
  BY <1>1, BlockPlaces DEF EndsInBlock
<1>4. UnitsToVerify(g) = u
  BY <1>1, <1>3, NothingAround DEF UnitsToVerify, file_utf16_units
<1>5. d[1] = alg
  BY DEF script_digest, Hash
<1>6. PICK found : found = <<t>>
  OBVIOUS
<1>7. found # <<>> /\ found[1] = t
  BY <1>6, Single
<1>8. script_digest(s, IndirectDigest(t)[1]) = d
  BY <1>5
<1> HIDE DEF d
<1>9. verify_indirect(found[1], script_digest(s, IndirectDigest(found[1])[1]))
  BY <1>7, <1>8 DEF d
<1> QED
  BY <1>2, <1>4, <1>6, <1>7, <1>9 DEF verify_script

LEMMA ScHolds ==
    ASSUME NEW f, NEW S, ScInv(f, S), f.enc # "utf16le", ~HasBlock(f),
           NEW req, GoodRequest(req), Answered(req), Verifiable("script", req.alg)
    PROVE  sign_script(f, req) # {} /\ \A g \in sign_script(f, req) : verify_script(g)
<1> DEFINE s == f.data
           d == script_digest(s, req.alg)
           C == create_authenticode_pkcs7(req.material, "script", req.alg, d)
           T == Stamps(C, req)
<1>1. f = ScFile(f.enc, f.data) /\ IsSeq(s)
  BY DEF ScInv, ScShape
<1>2. \A i \in 1..Len(s) : s[i] # Begin
  BY <1>1, OccursOne DEF HasBlock
<1>3. d[1] = req.alg
  BY DEF script_digest, Hash
<1>4. sign_script(f, req) = UNION {{append_script_signature_block(f, t) : t \in maybe_timestamp_pkcs7(c, req.tsa)} : c \in C}
  BY DEF sign_script, file_utf16_units
<1> HIDE DEF C
<1>5. sign_script(f, req) = {append_script_signature_block(f, t) : t \in T}
  BY <1>4 DEF Stamps
<1> HIDE DEF d
<1>6. T # {} /\ \A t \in T : IndirectDigest(t) = d /\ verify_indirect(t, d)
  BY <1>3, SpcStamped DEF C
<1> HIDE DEF T
<1>7. ASSUME NEW t \in T PROVE verify_script(append_script_signature_block(f, t))
  <2>1. PICK g : g = append_script_signature_block(f, t)
    OBVIOUS
  <2>2. g.data = s \o format_signature_block(t) /\ g.enc = f.enc
    BY <2>1, <1>1, ScUpdate DEF append_script_signature_block
  <2>3. IndirectDigest(t) = script_digest(s, req.alg) /\ verify_indirect(t, script_digest(s, req.alg))
    BY <1>6, <1>7 DEF d
  <2>4. verify_script(g)
    BY <2>2, <2>3, <1>1, <1>2, ScriptVerifies
  <2> QED
    BY <2>1, <2>4
<1> QED
  BY <1>5, <1>6, <1>7

LEMMA NoTokens ==
    ASSUME NEW m, NEW profile, NEW attached, NEW alg, NEW content, NEW now,
           NEW c \in create_pkcs7(m, profile, attached, alg, content, now)
    PROVE  c.tokens = <<>>
<1>1. PICK s \in load_signing_provider(m) : \E attrs, sigval :
        c \in create_pkcs7_with_signature(content, attached, alg, s[1], s[2], attrs, sigval)
  BY DEF create_pkcs7
<1>2. PICK attrs, sigval : c \in create_pkcs7_with_signature(content, attached, alg, s[1], s[2], attrs, sigval)
  BY <1>1
<1>3. PICK b, certs : c = [content |-> b, alg |-> alg, sid |-> s[1], certs |-> certs, attrs |-> attrs,
                           sigval |-> sigval, tokens |-> <<>>]
  BY <1>2 DEF create_pkcs7_with_signature
<1> QED
  BY <1>3

(* Signed archives: the comment has room for the document.                    *)
LEMMA ZipHolds ==
    ASSUME NEW f, NEW S, ZipInv(f, S), MaxComment \in Nat \ {0}, NEW req, GoodRequest(req), Answered(req),
           Verifiable("script", req.alg), req.tsa = "none" \/ MaxComment > 2
    PROVE  sign_zip(f, req) # {} /\ \A g \in sign_zip(f, req) : verify_zip(g)
<1> DEFINE h == zip_authenticode_digest(f)
           s == <<Cell("code", h)>>
           d == script_digest(s, req.alg)
           C == create_authenticode_pkcs7(req.material, "script", req.alg, d)
           T == Stamps(C, req)
<1>1. IsSeq(s) /\ Len(s) = 1 /\ \A i \in 1..Len(s) : s[i] # Begin
  <2>1. Cell("code", h)[1] = "code"
    BY CellFields
  <2>2. Cell("code", h) # Begin
    BY <2>1, Kinds
  <2>3. IsSeq(s) /\ Len(s) = 1 /\ s[1] = Cell("code", h)
    BY Single
  <2> HIDE DEF s
  <2> QED
    BY <2>2, <2>3
<1>2. d[1] = req.alg
  BY DEF script_digest, Hash
<1>3. ZipScript(h) = [enc |-> "utf8", data |-> s]
  BY DEF ZipScript
<1>4. file_utf16_units(ZipScript(h)) = s
  <2> HIDE DEF s
  <2> QED
    BY <1>3 DEF file_utf16_units
<1>5. sign_zip(f, req) = UNION {UNION {set_zip_comment(f, h, t) : t \in maybe_timestamp_pkcs7(c, req.tsa)} : c \in C}
  BY <1>4 DEF sign_zip
<1> HIDE DEF C, h
<1>6. sign_zip(f, req) = UNION {set_zip_comment(f, h, t) : t \in T}
  BY <1>5 DEF Stamps
<1> HIDE DEF d
<1>7. T # {} /\ \A t \in T : IsCms(t) /\ IndirectDigest(t) = d /\ verify_indirect(t, d)
  BY <1>2, SpcStamped DEF C
<1>8. \A t \in T : Width(t) <= MaxComment
  <2> SUFFICES ASSUME NEW t \in T PROVE Width(t) <= MaxComment
    OBVIOUS
  <2>1. PICK c \in C : t \in maybe_timestamp_pkcs7(c, req.tsa)
    BY DEF Stamps
  <2>2. DOMAIN c.tokens = {}
    <3>1. PICK x : c \in create_pkcs7(req.material, "Authenticode", TRUE, req.alg, x, 0)
      BY <2>1 DEF C, create_authenticode_pkcs7
    <3>2. c.tokens = <<>>
      BY <3>1, NoTokens
    <3> QED
      BY <3>2
  <2>3. CASE req.tsa = "none"
    <3>1. t = c
      BY <2>1, <2>3 DEF maybe_timestamp_pkcs7
    <3>2. Width(t) = 1
      BY <3>1, <2>2, FS_EmptySet DEF Width
    <3> QED
      BY <3>2
  <2>4. CASE req.tsa # "none"
    <3>1. PICK x : t = add_timestamp_token(c, "ms", x)
      BY <2>1, <2>4 DEF maybe_timestamp_pkcs7, timestamp_pkcs7
    <3>2. IsCms(c)
      BY <2>1, <1>2, SpcHolds DEF C
    <3>3. DOMAIN t.tokens = {"ms"}
      BY <3>1, <3>2, <2>2 DEF add_timestamp_token, IsCms
    <3>4. Cardinality({"ms"}) = 1
      BY FS_Singleton
    <3>5. Width(t) = 3
      BY <3>3, <3>4 DEF Width
    <3> QED
      BY <3>5, <2>4
  <2> QED
    BY <2>3, <2>4
<1>9. \A t \in T : set_zip_comment(f, h, t) = {[f EXCEPT !.comment = <<[digest |-> h, cms |-> t]>>]}
  BY <1>8 DEF set_zip_comment, When
<1>10. ASSUME NEW t \in T, NEW g, g = [f EXCEPT !.comment = <<[digest |-> h, cms |-> t]>>] PROVE verify_zip(g)
  <2> DEFINE r == [digest |-> h, cms |-> t]
             w == [ZipScript(h) EXCEPT !.data = @ \o format_signature_block(t)]
  <2>1. r.digest = h /\ r.cms = t
    OBVIOUS
  <2> HIDE DEF r
  <2>2. g = ZipFile(f.data, <<r>>)
    BY <1>10, ZipUpdate DEF r, ZipInv
  <2>3. g.data = f.data /\ g.comment = <<r>>
    BY <2>2, ZipFields
  <2>4. g.comment # <<>> /\ g.comment[1] = r
    BY <2>3, Single
  <2>5. h = zip_authenticode_digest(g)
    BY <2>3 DEF zip_authenticode_digest, h
  <2>6. w.enc = "utf8" /\ w.data = s \o format_signature_block(t)
    <3>1. PICK b : b = format_signature_block(t)
      OBVIOUS
    <3> HIDE DEF s
    <3>2. w = [[enc |-> "utf8", data |-> s] EXCEPT !.data = @ \o b]
      BY <3>1, <1>3
    <3> QED
      BY <3>1, <3>2
  <2> HIDE DEF w
  <2>7. w.enc # "utf16le"
    BY <2>6
  <2>8. IndirectDigest(t) = script_digest(s, req.alg) /\ verify_indirect(t, script_digest(s, req.alg))
    BY <1>7, <1>10 DEF d
  <2>9. verify_script(w)
    <3> HIDE DEF s
    <3> QED
      BY <1>1, <2>6, <2>7, <2>8, ScriptVerifies
  <2> QED
    BY <2>1, <2>4, <2>5, <2>9 DEF verify_zip, w
<1> DEFINE O(t) == [f EXCEPT !.comment = <<[digest |-> h, cms |-> t]>>]
<1>11. \A t \in T : set_zip_comment(f, h, t) = {O(t)}
  BY <1>9
<1>12. \A t \in T : verify_zip(O(t))
  BY <1>10
<1> HIDE DEF T, O
<1>13. sign_zip(f, req) = {O(t) : t \in T}
  <2> DEFINE Z(t) == set_zip_comment(f, h, t)
  <2>1. sign_zip(f, req) = UNION {Z(t) : t \in T} /\ \A t \in T : Z(t) = {O(t)}
    BY <1>6, <1>11
  <2> HIDE DEF Z
  <2> QED
    BY <2>1, SMT
<1> QED
  BY <1>7, <1>12, <1>13

(* A NuGet package is read as it was written: the parts before the signature, *)
(* which is the last part.                                                    *)
LEMMA LoneName ==
    ASSUME NEW w, IsSeq(w), NEW n \in 1..Len(w), NEW name, w[n].name = name,
           \A i \in 1..Len(w) : i # n => w[i].name # name
    PROVE  Named(w, {name}) = <<w[n]>> /\ Has(w, name) /\ Once(w, name) /\ BodyOf(w, name) = w[n].body
<1> DEFINE T == {p \in ToSet(w) : p.name \in {name}}
<1>1. w[n] \in T /\ \A i \in 1..Len(w) : i # n => w[i] \notin T
  BY SeqFacts
<1> HIDE DEF T
<1>2. Only(w, T) = <<w[n]>>
  BY <1>1, OnlyLone
<1>3. Named(w, {name}) = <<w[n]>>
  BY <1>2 DEF Named, T
<1>4. PICK r : r = w[n]
  OBVIOUS
<1>5. Named(w, {name}) = <<r>> /\ <<r>> # <<>> /\ Len(<<r>>) = 1 /\ <<r>>[1] = r
  BY <1>3, <1>4, Single
<1> QED
  BY <1>3, <1>4, <1>5 DEF Has, Once, BodyOf

LEMMA NuReads ==
    ASSUME NEW x, Canonical(x), NEW t, NEW g, g.parts = x \o <<Part("signature", <<"p7s", t>>)>>
    PROVE  verify_nuget(g) <=> verify_detached(t, signature_content(x, t.alg))
<1>1. PICK p : p = Part("signature", <<"p7s", t>>)
  OBVIOUS
<1>2. p.name = "signature" /\ p.body[2] = t
  BY <1>1, PartFields
<1>3. PICK w : w = x \o <<p>>
  OBVIOUS
<1>4. PICK n \in Nat : n = Len(x)
  BY SeqFacts DEF Canonical
<1>5. IsSeq(x) /\ IsSeq(w) /\ Len(w) = n + 1 /\ \A i \in 1..n : w[i] = x[i] /\ x[i].name # "signature"
  BY <1>3, <1>4, Joined, Single DEF Canonical
<1>6. w[n + 1] = p
  BY <1>3, <1>4, <1>5, JoinedMadeOf, Single DEF MadeOf
<1>7. Front(w) = x
  <2>1. PICK y : y = SubSeq(w, 1, n)
    OBVIOUS
  <2>2. IsSeq(y) /\ Len(y) = n /\ \A i \in 1..n : y[i] = w[i]
    BY <2>1, <1>5, CutAt DEF IsCut
  <2>3. y = x
    BY <2>2, <1>4, <1>5, SameSeq
  <2> QED
    BY <2>1, <2>3, <1>5 DEF Front
<1>8. Last(w) = p
  BY <1>5, <1>6 DEF Last
<1>9. Once(w, "signature") /\ BodyOf(w, "signature") = p.body
  <2>1. \A i \in 1..Len(w) : i # n + 1 => w[i].name # "signature"
    BY <1>5
  <2>2. PICK m : m = n + 1
    OBVIOUS
  <2>3. m \in 1..Len(w) /\ w[m] = p
    BY <1>5, <1>6, <2>2
  <2> QED
    BY <2>1, <2>2, <2>3, <1>2, <1>5, LoneName
<1>10. signed_package_unsigned(g.parts) = {x}
  BY <1>1, <1>2, <1>3, <1>7, <1>8, <1>9 DEF signed_package_unsigned, When
<1>11. BodyOf(g.parts, "signature")[2] = t
  BY <1>1, <1>2, <1>3, <1>9
<1> QED
  BY <1>10, <1>11 DEF verify_nuget

LEMMA NuWritten ==
    ASSUME NEW s, NEW x, Canonical(x), canonical_unsigned_package(s) = x, NEW t, NEW o,
           NEW e \in nuget_embed(s, t, o)
    PROVE  e = x \o <<Part("signature", <<"p7s", t>>)>>
<1> QED
  BY DEF nuget_embed, When

LEMMA NuHolds ==
    ASSUME NEW f, NEW S, NuInv(f, S), NEW req, GoodRequest(req), Answered(req), req.alg = "sha256", NEW now
    PROVE  sign_nuget(f, req, now) # {} /\ \A g \in sign_nuget(f, req, now) : verify_nuget(g)
<1> DEFINE x == canonical_unsigned_package(f.parts)
           profile == IF IsLocal(req.material) THEN "NuGetAuthor" ELSE "Basic"
           C == create_pkcs7(req.material, profile, TRUE, req.alg, signature_content(x, req.alg), now)
           T == Stamps(C, req)
           O(t) == [f EXCEPT !.parts = x \o <<Part("signature", <<"p7s", t>>)>>]
<1>1. Canonical(x)
  BY CanonicalPackage DEF NuInv, NuShape
<1>2. sign_nuget(f, req, now) =
        UNION {UNION {{[f EXCEPT !.parts = e] : e \in nuget_embed(x, t, FALSE)} :
            t \in maybe_timestamp_pkcs7(c, req.tsa)} : c \in C}
  BY DEF sign_nuget, create_nuget_author_signature
<1>3. T # {} /\ \A t \in T : t.alg = req.alg /\ verify_detached(t, signature_content(x, req.alg))
  BY DetachedStamped
<1> HIDE DEF x, C
<1>4. Without(x, {"signature"}) = x
  <2> DEFINE U == {p \in ToSet(x) : p.name \notin {"signature"}}
  <2>1. \A i \in 1..Len(x) : x[i] \in U
    BY <1>1, SeqFacts DEF Canonical
  <2> HIDE DEF U
  <2>2. Only(x, U) = x
    BY <2>1, <1>1, OnlyAll DEF Canonical
  <2> QED
    BY <2>2 DEF Without, U
<1>5. canonical_unsigned_package(x) = x
  BY <1>1, <1>4, CanonicalKept DEF Canonical
<1>6. ~Has(x, "signature")
  BY <1>1, HasFacts, SeqFacts DEF Canonical
<1>7. \A t : nuget_embed(x, t, FALSE) = {x \o <<Part("signature", <<"p7s", t>>)>>}
  BY <1>5, <1>6 DEF nuget_embed, When
<1>8. \A t : {[f EXCEPT !.parts = e] : e \in nuget_embed(x, t, FALSE)} = {O(t)}
  BY <1>7
<1>9. f = NuFile(f.parts)
  BY DEF NuInv, NuShape
<1>10. \A t \in T : verify_nuget(O(t))
  <2> SUFFICES ASSUME NEW t \in T PROVE verify_nuget(O(t))
    OBVIOUS
  <2>1. PICK e : e = x \o <<Part("signature", <<"p7s", t>>)>>
    OBVIOUS
  <2>2. O(t) = NuFile(e)
    BY <2>1, <1>9, NuUpdate
  <2>3. O(t).parts = e
    BY <2>2, NuFields
  <2> HIDE DEF O, T
  <2>4. verify_nuget(O(t)) <=> verify_detached(t, signature_content(x, t.alg))
    BY <2>1, <2>3, <1>1, NuReads
  <2> QED
    BY <2>4, <1>3
<1>11. sign_nuget(f, req, now) = {O(t) : t \in T}
  <2> DEFINE Z(t) == {[f EXCEPT !.parts = e] : e \in nuget_embed(x, t, FALSE)}
  <2>1. sign_nuget(f, req, now) = UNION {UNION {Z(t) : t \in maybe_timestamp_pkcs7(c, req.tsa)} : c \in C}
    BY <1>2
  <2>2. \A t : Z(t) = {O(t)}
    BY <1>8
  <2> HIDE DEF Z, O
  <2>3. sign_nuget(f, req, now) = UNION {Z(t) : t \in T}
    BY <2>1 DEF Stamps
  <2> HIDE DEF T
  <2> QED
    BY <2>2, <2>3, SMT
<1> HIDE DEF T, O
<1> QED
  BY <1>3, <1>10, <1>11

(* Cabinets: what is behind the content is the signature.                     *)
LEMMA CabHolds ==
    ASSUME NEW f, NEW S, CabInv(f, S), ~f.reserve, f.cb = CabLength(f),
           NEW req, GoodRequest(req), Answered(req), Verifiable("cab", req.alg)
    PROVE  sign_cab(f, req) # {} /\ \A g \in sign_cab(f, req) : verify_cab(g)
<1> DEFINE P(n) == CabSealed(f.hdr, Len(f.data) + 3, f.coffCabStart + 1, Len(f.data) + 3, n, f.data)
           D(alg) == Hash(alg, <<f.hdr, Len(f.data) + 3, 3, f.coffCabStart + 1, f.data>>)
           C == create_authenticode_pkcs7(req.material, "cab", req.alg, D(req.alg))
           T == Stamps(C, req)
           G(t) == CabSealed(f.hdr, Len(f.data) + 3, f.coffCabStart + 1, Len(f.data) + 3,
                             Width(t), f.data \o SignatureCells(t))
<1>1. IsSeq(f.data) /\ Len(f.data) \in Nat /\ CabShape(f) /\ f.coffFiles = 2
  BY SeqFacts DEF CabInv, CabHeaderEnd, CabHeader
<1>2. \A n : prepare_unsigned_cab(f, n) = {P(n)}
  <2> SUFFICES ASSUME NEW n PROVE prepare_unsigned_cab(f, n) = {P(n)}
    OBVIOUS
  <2>1. \E p : p \in prepare_unsigned_cab(f, n)
    BY <1>1 DEF prepare_unsigned_cab, When, CabHeader
  <2>2. \A p \in prepare_unsigned_cab(f, n) : p = P(n)
    BY CabReserved
  <2> HIDE DEF P
  <2> QED
    BY <2>1, <2>2
<1>3. compute_cab_digest(P(0), req.alg) = {D(req.alg)}
  <2>1. PICK n \in Nat : n = Len(f.data)
    BY <1>1
  <2>2. SubSeq(f.data, 1, n + 3 - 3) = f.data
    <3>1. n + 3 - 3 = n
      OBVIOUS
    <3> QED
      BY <1>1, <2>1, <3>1, PrefixFacts
  <2>3. PICK p : p = P(0)
    OBVIOUS
  <2>4. /\ p.hdr = f.hdr /\ p.cb = n + 3 /\ p.coffFiles = 3 /\ p.coffCabStart = f.coffCabStart + 1
        /\ p.sigpos = n + 3 /\ p.data = f.data /\ CabHeaderEnd(p) = 3
    BY <2>1, <2>3, CabSealedFields
  <2>5. PICK x : x = SubSeq(p.data, 1, p.sigpos - CabHeaderEnd(p))
    OBVIOUS
  <2>6. x = f.data
    BY <2>2, <2>4, <2>5
  <2>7. compute_cab_digest(p, req.alg) = {Hash(req.alg, <<p.hdr, p.cb, p.coffFiles, p.coffCabStart, x>>)}
    BY <2>4, <2>5 DEF compute_cab_digest, When
  <2> QED
    BY <2>1, <2>3, <2>4, <2>6, <2>7
<1>4. D(req.alg)[1] = req.alg
  BY DEF Hash
<1> HIDE DEF P, D
<1>5. T # {} /\ \A t \in T : IsCms(t) /\ IndirectDigest(t) = D(req.alg) /\ verify_indirect(t, D(req.alg))
  BY <1>4, SpcStamped
<1>6. \A t \in T : cab_append(f, t) = {G(t)}
  <2> SUFFICES ASSUME NEW t \in T PROVE cab_append(f, t) = {G(t)}
    OBVIOUS
  <2>1. cab_append(f, t) = {[p EXCEPT !.data = @ \o SignatureCells(t)] : p \in {P(Width(t))}}
    BY <1>2 DEF cab_append
  <2>2. PICK g : g = [P(Width(t)) EXCEPT !.data = @ \o SignatureCells(t)]
    OBVIOUS
  <2>3. cab_append(f, t) = {g}
    BY <2>1, <2>2
  <2>4. PICK W : CabTold(IndirectDigest(t)) \in W /\ S \subseteq W
    <3>1. PICK W : W = {CabTold(IndirectDigest(t))} \cup S
      OBVIOUS
    <3> QED
      BY <3>1
  <2> HIDE DEF T
  <2>5. IsCms(t) /\ g \in cab_append(f, t)
    BY <1>5, <2>3
  <2>6. g = G(t)
    BY <2>4, <2>5, CabAppended
  <2> QED
    BY <2>3, <2>6
<1>7. \A t \in T : verify_cab(G(t))
  <2> SUFFICES ASSUME NEW t \in T PROVE verify_cab(G(t))
    OBVIOUS
  <2>1. PICK n \in Nat : n = Len(f.data)
    BY <1>1
  <2>2. PICK c : c = SignatureCells(t)
    OBVIOUS
  <2>3. OneSignature(c, t) /\ Len(c) = Width(t) /\ Width(t) \in Nat \ {0}
    BY <1>5, <2>2, SignatureCellsFacts, CmsWidth
  <2>4. PICK m \in Nat : m = Width(t)
    BY <2>3
  <2>5. PICK u : u = f.data \o c
    OBVIOUS
  <2>6. IsSeq(u) /\ Len(u) = n + m /\ (\A i \in 1..n : u[i] = f.data[i]) /\ \A i \in 1..m : u[n + i] = c[i]
    <3>1. IsSeq(f.data) /\ IsSeq(c) /\ Len(c) = m
      BY <1>1, <2>3, <2>4 DEF OneSignature
    <3>2. MadeOf(u, f.data, c) /\ IsSeq(u)
      BY <2>5, <3>1, Joined, JoinedMadeOf
    <3> QED
      BY <2>1, <3>1, <3>2 DEF MadeOf
  <2>7. PICK g : g = G(t)
    OBVIOUS
  <2>8. /\ g.hdr = f.hdr /\ g.cb = n + 3 /\ g.coffFiles = 3 /\ g.coffCabStart = f.coffCabStart + 1
        /\ g.sigpos = n + 3 /\ g.siglen = m /\ g.data = u /\ CabHeaderEnd(g) = 3 /\ g.reserve
    <3>1. PICK a, b : a = n + 3 /\ b = f.coffCabStart + 1
      OBVIOUS
    <3>2. g = CabSealed(f.hdr, a, b, a, m, u)
      BY <2>1, <2>2, <2>4, <2>5, <2>7, <3>1
    <3> QED
      BY <3>1, <3>2, CabSealedFields
  <2>9. SubSeq(u, 1, n) = f.data
    <3>1. PICK y : y = SubSeq(u, 1, n)
      OBVIOUS
    <3>2. IsCut(y, u, 1, n)
      BY <2>6, <3>1, CutAt
    <3>3. IsSeq(y) /\ Len(y) = n /\ \A i \in 1..n : y[i] = f.data[i]
      BY <2>6, <3>2 DEF IsCut
    <3> QED
      BY <1>1, <2>1, <3>1, <3>3, SameSeq
  <2>10. SubSeq(u, n + 1, n + m) = c
    <3>1. PICK a, b : a = n + 1 /\ b = n + m
      OBVIOUS
    <3>2. PICK y : y = SubSeq(u, a, b)
      OBVIOUS
    <3>3. IsCut(y, u, a, b)
      BY <2>6, <3>1, <3>2, CutAt
    <3>4. IsSeq(y) /\ Len(y) = m /\ \A i \in 1..m : y[i] = u[n + i]
      BY <3>1, <3>3 DEF IsCut
    <3>5. IsSeq(c) /\ Len(c) = m /\ \A i \in 1..m : y[i] = c[i]
      BY <2>3, <2>4, <2>6, <3>4 DEF OneSignature
    <3>6. y = c
      BY <3>4, <3>5, SameSeq
    <3> QED
      BY <3>1, <3>2, <3>6
  <2>11. CabLength(g) = n + m + 3
    BY <2>6, <2>8 DEF CabLength
  <2>12. parse_cab_context(g)
    BY <2>3, <2>4, <2>8, <2>11 DEF parse_cab_context
  <2>13. PICK r : r = <<t>>
    OBVIOUS
  <2>14. cab_signature_pkcs7(g) = r
    <3>1. g.sigpos - CabHeaderEnd(g) + 1 = n + 1 /\ Len(g.data) = n + m
      BY <2>6, <2>8
    <3>2. SubSeq(g.data, g.sigpos - CabHeaderEnd(g) + 1, Len(g.data)) = c
      <4>1. g.data = u
        BY <2>8
      <4> QED
        BY <2>10, <3>1, <4>1
    <3> QED
      BY <2>3, <2>8, <2>12, <2>13, <3>2, NoCode DEF cab_signature_pkcs7
  <2>15. r # <<>> /\ r[1] = t
    BY <2>13, Single
  <2>16. IndirectDigest(t)[1] = req.alg
    BY <1>4, <1>5
  <2>17. compute_cab_digest(g, req.alg) = {D(req.alg)}
    <3>1. n + 3 - 3 = n
      OBVIOUS
    <3>2. PICK x : x = SubSeq(g.data, 1, g.sigpos - CabHeaderEnd(g))
      OBVIOUS
    <3>3. x = f.data
      BY <2>8, <2>9, <3>1, <3>2
    <3>4. compute_cab_digest(g, req.alg) = {Hash(req.alg, <<g.hdr, g.cb, g.coffFiles, g.coffCabStart, x>>)}
      BY <2>8, <3>2 DEF compute_cab_digest, When
    <3> QED
      BY <2>1, <2>8, <3>3, <3>4 DEF D
  <2>18. verify_indirect(t, D(req.alg))
    BY <1>5
  <2>19. verify_cab(g)
    BY <2>14, <2>15, <2>16, <2>17, <2>18 DEF verify_cab
  <2> QED
    BY <2>7, <2>19
<1>8. sign_cab(f, req) = {G(t) : t \in T}
  <2>1. sign_cab(f, req) =
          UNION {UNION {UNION {UNION {cab_append(f, t) : t \in maybe_timestamp_pkcs7(c, req.tsa)} :
              c \in create_authenticode_pkcs7(req.material, "cab", req.alg, d)} :
              d \in compute_cab_digest(p, req.alg)} : p \in {P(0)}}
    BY <1>2 DEF sign_cab
  <2>2. sign_cab(f, req) = UNION {UNION {cab_append(f, t) : t \in maybe_timestamp_pkcs7(c, req.tsa)} : c \in C}
    BY <1>3, <2>1
  <2> HIDE DEF C
  <2>3. sign_cab(f, req) = UNION {cab_append(f, t) : t \in T}
    BY <2>2 DEF Stamps
  <2> DEFINE Z(t) == cab_append(f, t)
  <2>4. sign_cab(f, req) = UNION {Z(t) : t \in T} /\ \A t \in T : Z(t) = {G(t)}
    BY <1>6, <2>3
  <2> HIDE DEF Z, G, T
  <2> QED
    BY <2>4, SMT
<1> HIDE DEF T, G
<1> QED
  BY <1>5, <1>7, <1>8

(* ClickOnce: the Signature stands before the end tag.                        *)
LEMMA CoReads ==
    ASSUME NEW f, NEW S, CoInv(f, S), Close \in ToSet(f.data), NEW alg, NEW cert, NEW info, NEW value,
           info = clickonce_signed_info(unsigned_clickonce_manifest(f.data), alg),
           value = RsaSign(cert, Hash(alg, info))
    PROVE  LET G == ClickOnceWith(f, info, value, cert)
           IN G # {} /\ \A g \in G : verify_clickonce(g) /\ Close \in ToSet(g.data)
<1> DEFINE u == unsigned_clickonce_manifest(f.data)
           xml == CoXml(info, value, cert)
           G == ClickOnceWith(f, info, value, cert)
<1>1. f = CoFile(f.data) /\ IsSeq(f.data)
  BY DEF CoInv
<1>2. /\ IsSeq(u) /\ (\A i \in 1..Len(u) : u[i][1] # "xml")
      /\ \A k \in 1..Len(f.data) : f.data[k][1] = "xml" => u = Dropped(f.data, k)
      /\ (\A i \in 1..Len(f.data) : f.data[i][1] # "xml") => u = f.data
  BY CoUnsigned DEF CoInv
<1>3. Close[1] = "close"
  BY CellFields DEF Close
<1> HIDE DEF u
<1>4. Close \in ToSet(u)
  <2>1. CASE \A i \in 1..Len(f.data) : f.data[i][1] # "xml"
    BY <1>2, <2>1
  <2>2. ASSUME NEW k \in 1..Len(f.data), f.data[k][1] = "xml" PROVE Close \in ToSet(u)
    <3>1. u = Dropped(f.data, k)
      BY <1>2, <2>2
    <3>2. PICK i \in 1..Len(f.data) : f.data[i] = Close
      BY <1>1, SeqFacts
    <3>3. i # k
      BY <1>3, <2>2, <3>2
    <3>4. ToSet(u) = {f.data[j] : j \in 1..Len(f.data) \ {k}}
      BY <1>1, <2>2, <3>1, DroppedFacts
    <3> QED
      BY <3>2, <3>3, <3>4
  <2> QED
    BY <2>1, <2>2
<1>5. CoTold(value[2]) \in {u}
  BY DEF CoTold, RsaSign, Hash, clickonce_signed_info, u
<1>6. G # {}
  <2>1. {i \in DOMAIN u : u[i] = Close} # {}
    BY <1>2, <1>4, SeqFacts
  <2>2. \E d : d \in insert_clickonce_signature(u, [info |-> info, value |-> value, cert |-> cert])
    BY <2>1 DEF insert_clickonce_signature, When
  <2> QED
    BY <2>2 DEF ClickOnceWith, u
<1>7. ASSUME NEW g \in G PROVE verify_clickonce(g) /\ Close \in ToSet(g.data)
  <2>1. CoInv(g, {u}) /\ unsigned_clickonce_manifest(g.data) = u /\ HasXml(g.data, xml)
    BY <1>5, <1>7, CoWith DEF u
  <2>2. PICK k \in 1..Len(g.data) : g.data[k] = Cell("xml", xml)
    BY <2>1 DEF HasXml
  <2>3. IsSeq(g.data) /\ \A i, j \in 1..Len(g.data) : g.data[i][1] = "xml" /\ g.data[j][1] = "xml" => i = j
    BY <2>1 DEF CoInv
  <2> HIDE DEF xml
  <2>4. g.data[k][1] = "xml" /\ g.data[k][2] = xml
    BY <2>2, CellFields
  <2>5. Len(g.data) \in Nat /\ DOMAIN g.data = 1..Len(g.data)
    BY <2>3, SeqFacts
  <2>6. \A j \in 1..(k - 1) : g.data[j][1] # "xml"
    BY <2>3, <2>4, <2>5
  <2>7. xml.info = info /\ xml.value = value /\ xml.cert = cert
    BY DEF xml, CoXml
  <2>8. info[1] = alg
    BY DEF clickonce_signed_info
  <2>9. verify_clickonce(g)
    BY <2>1, <2>4, <2>5, <2>6, <2>7, <2>8 DEF verify_clickonce, u
  <2>10. u = Dropped(g.data, k)
    BY <2>1, <2>3, <2>4, CoUnsigned
  <2>11. Close \in ToSet(g.data)
    <3>1. ToSet(u) = {g.data[i] : i \in 1..Len(g.data) \ {k}}
      BY <2>3, <2>10, DroppedFacts
    <3>2. ToSet(g.data) = {g.data[i] : i \in 1..Len(g.data)}
      BY <2>3, SeqFacts
    <3> QED
      BY <1>4, <3>1, <3>2
  <2> QED
    BY <2>9, <2>11
<1> QED
  BY <1>6, <1>7

LEMMA CoHolds ==
    ASSUME NEW f, NEW S, CoInv(f, S), Close \in ToSet(f.data), NEW req, GoodRequest(req), Answered(req)
    PROVE  sign_clickonce_manifest(f, req) # {} /\ \A g \in sign_clickonce_manifest(f, req) : verify_clickonce(g)
<1> DEFINE info == clickonce_signed_info(unsigned_clickonce_manifest(f.data), req.alg)
           L == load_signing_provider(req.material)
           V == sign_xml_signed_info(req.material, info)
           Z(s) == ClickOnceWith(f, info, V, s[1])
<1>1. sign_clickonce_manifest(f, req) = UNION {Z(s) : s \in L}
  BY DEF sign_clickonce_manifest
<1>2. info[1] = req.alg
  BY DEF clickonce_signed_info
<1>3. L # {} /\ \A s \in L : s[1] = req.material.key
  BY Provided
<1>4. \A s \in L : Z(s) # {} /\ \A g \in Z(s) : verify_clickonce(g)
  <2> SUFFICES ASSUME NEW s \in L PROVE Z(s) # {} /\ \A g \in Z(s) : verify_clickonce(g)
    OBVIOUS
  <2>1. V = RsaSign(s[1], Hash(req.alg, info))
    BY <1>2, <1>3 DEF sign_xml_signed_info, ProviderSign
  <2>2. PICK c : c = s[1]
    OBVIOUS
  <2>3. PICK i, v : i = info /\ v = V
    OBVIOUS
  <2>4. i = clickonce_signed_info(unsigned_clickonce_manifest(f.data), req.alg) /\ v = RsaSign(c, Hash(req.alg, i))
    BY <2>1, <2>2, <2>3
  <2> HIDE DEF info, V, L
  <2>5. ClickOnceWith(f, i, v, c) # {} /\ \A g \in ClickOnceWith(f, i, v, c) : verify_clickonce(g)
    BY <2>4, CoReads
  <2> QED
    BY <2>2, <2>3, <2>5
<1> HIDE DEF Z, L
<1> QED
  BY <1>1, <1>3, <1>4

(* PE images: the table is read at the end of the image, and the digest is of *)
(* what is before it.                                                         *)
PeLaid(g, hdr, b, r) ==
    /\ g = PeFile(hdr, Align + Len(b), Len(r), b \o r)
    /\ Plain(b) /\ Band(r) /\ Aligned(Len(b))

PeRow(c, hdr, b) ==
    LET d == Hash(IndirectDigest(c)[1], <<hdr, b>>)
    IN IndirectDigest(c) = d /\ verify_indirect(c, d)

LEMMA SignaturesJoined ==
    ASSUME NEW s, NEW t, IsSeq(s), IsSeq(t)
    PROVE  ToSet(Signatures(s \o t)) = ToSet(Signatures(s)) \cup ToSet(Signatures(t))
<1> DEFINE R(u) == {c[2] : c \in {x \in ToSet(u) : x[1] = "cms"}}
<1>1. ASSUME NEW u, IsSeq(u) PROVE ToSet(Signatures(u)) = R(u)
  <2> DEFINE k == OfKind(u, "cms")
             v == Signatures(u)
  <2>1. IsSeq(k) /\ ToSet(k) = {x \in ToSet(u) : x[1] = "cms"}
    BY <1>1, OfKindFacts
  <2>2. IsSeq(v) /\ Len(v) = Len(k) /\ \A i \in 1..Len(v) : v[i] = k[i][2]
    BY <1>1, SignaturesFacts
  <2> HIDE DEF k, v
  <2>3. ToSet(k) = {k[i] : i \in 1..Len(k)} /\ ToSet(v) = {v[i] : i \in 1..Len(v)}
    BY <2>1, <2>2, SeqFacts
  <2>4. ToSet(v) = {c[2] : c \in ToSet(k)}
    BY <2>2, <2>3
  <2> QED
    BY <2>1, <2>4 DEF v
<1>2. IsSeq(s \o t) /\ ToSet(s \o t) = ToSet(s) \cup ToSet(t)
  BY Joined
<1>3. R(s \o t) = R(s) \cup R(t)
  BY <1>2
<1> HIDE DEF R
<1> QED
  BY <1>1, <1>2, <1>3

LEMMA RowSigns ==
    ASSUME NEW c, IsCms(c)
    PROVE  ToSet(Signatures(wrap_win_certificate(c))) = {c}
<1> DEFINE s == SignatureCells(c)
           p == Padding(Width(c))
           b == Blank(p, "fill")
<1>1. OneSignature(s, c) /\ Width(c) \in Nat
  BY SignatureCellsFacts, CmsWidth
<1>2. Signatures(s) = <<c>> /\ IsSeq(s)
  BY <1>1, NoCode DEF OneSignature
<1>3. p \in Nat
  BY <1>1, PaddingFacts
<1> HIDE DEF s, p
<1>4. IsSeq(b) /\ Len(b) = p /\ \A i \in 1..p : b[i] = Cell("fill", "")
  BY <1>3, BlankFacts
<1> HIDE DEF b
<1>5. \A i \in 1..Len(b) : b[i][1] # "cms"
  <2>1. Cell("fill", "")[1] = "fill"
    BY CellFields
  <2> QED
    BY <1>4, <2>1
<1>6. ToSet(Signatures(b)) = {}
  <2>1. \A x \in ToSet(Signatures(b)) : FALSE
    BY <1>4, <1>5, SignaturesFacts
  <2> QED
    BY <2>1
<1>7. ToSet(Signatures(s)) = {c}
  BY <1>2, Single
<1>8. ToSet(Signatures(s \o b)) = {c}
  <2>1. IsSeq(s) /\ IsSeq(b)
    BY <1>2, <1>4
  <2>2. ToSet(Signatures(s \o b)) = ToSet(Signatures(s)) \cup ToSet(Signatures(b))
    BY <2>1, SignaturesJoined
  <2>3. ToSet(Signatures(s \o b)) = {c} \cup {}
    BY <1>6, <1>7, <2>2
  <2> QED
    BY <2>3
<1>9. wrap_win_certificate(c) = s \o b
  BY DEF wrap_win_certificate, s, p, b
<1> QED
  BY <1>8, <1>9

LEMMA PeReads ==
    ASSUME NEW g, NEW hdr, NEW b, NEW r, PeLaid(g, hdr, b, r)
    PROVE  /\ TableAligned(g) /\ pe_pkcs7(g) = Signatures(r)
           /\ \A alg : pe_authenticode_digest(g, alg) = Hash(alg, <<hdr, b>>)
<1>1. PICK n \in Nat, m \in Nat : n = Len(b) /\ m = Len(r)
  BY SeqFacts DEF PeLaid, Plain, Band
<1>2. IsSeq(b) /\ IsSeq(r) /\ m > 0 /\ r[1][1] = "cms" /\ Aligned(m) /\ Aligned(n)
  BY <1>1 DEF PeLaid, Plain, Band
<1>3. PICK u : u = b \o r
  OBVIOUS
<1>4. MadeOf(u, b, r) /\ IsSeq(u)
  BY <1>2, <1>3, Joined, JoinedMadeOf
<1>5. Len(u) = n + m /\ (\A i \in 1..n : u[i] = b[i]) /\ \A i \in 1..m : u[n + i] = r[i]
  BY <1>1, <1>4 DEF MadeOf
<1>6. PICK p : p = Align + n
  OBVIOUS
<1>7. g.hdr = hdr /\ g.ptr = p /\ g.size = m /\ g.data = u
  <2>1. g = PeFile(hdr, p, m, u)
    BY <1>1, <1>3, <1>6 DEF PeLaid
  <2> QED
    BY <2>1, PeFields
<1>8. Align \in Nat \ {0} /\ p \in Nat /\ Aligned(p)
  <2>1. Align \in Nat \ {0} /\ Aligned(Align)
    BY FilesAssumption, AlignItself
  <2>2. Aligned(Align + n)
    BY <1>2, <2>1, AlignedSum
  <2> QED
    BY <1>6, <2>1, <2>2
<1>9. HasTable(g) /\ TableAligned(g) /\ TableInFile(g)
  BY <1>2, <1>5, <1>6, <1>7, <1>8 DEF HasTable, TableAligned, TableInFile, PeLength
<1>10. Table(g) = r
  <2>1. PICK a, c : a = n + 1 /\ c = n + m
    OBVIOUS
  <2>2. PICK y : y = SubSeq(u, a, c)
    OBVIOUS
  <2>3. IsCut(y, u, a, c)
    BY <1>4, <1>5, <2>1, <2>2, CutAt
  <2>4. IsSeq(y) /\ Len(y) = m /\ \A i \in 1..m : y[i] = r[i]
    <3>1. Len(y) = m
      BY <2>1, <2>3 DEF IsCut
    <3>2. ASSUME NEW i \in 1..m PROVE y[i] = r[i]
      <4>1. y[i] = u[a + i - 1] /\ a + i - 1 = n + i
        BY <2>1, <2>3, <3>2 DEF IsCut
      <4> QED
        BY <1>5, <3>2, <4>1
    <3> QED
      BY <2>3, <3>1, <3>2 DEF IsCut
  <2>5. y = r
    BY <1>1, <1>2, <2>4, SameSeq
  <2>6. p - Align + 1 = a /\ p - Align + m = c
    BY <1>6, <1>8, <2>1
  <2> QED
    BY <1>7, <2>2, <2>5, <2>6 DEF Table
<1>11. \A alg : pe_authenticode_digest(g, alg) = Hash(alg, <<hdr, b>>)
  <2>1. PICK y : y = SubSeq(u, 1, n)
    OBVIOUS
  <2>2. IsCut(y, u, 1, n)
    BY <1>4, <1>5, <2>1, CutAt
  <2>3. IsSeq(y) /\ Len(y) = n /\ \A i \in 1..n : y[i] = b[i]
    BY <1>5, <2>2 DEF IsCut
  <2>4. y = b
    BY <1>1, <1>2, <2>3, SameSeq
  <2>5. Len(g.data) - g.size = n
    BY <1>5, <1>7
  <2>6. SubSeq(g.data, 1, Len(g.data) - g.size) = b
    BY <1>7, <2>1, <2>4, <2>5
  <2> QED
    BY <1>7, <2>6 DEF pe_authenticode_digest
<1> QED
  BY <1>2, <1>9, <1>10, <1>11 DEF pe_pkcs7

LEMMA PeVerifies ==
    ASSUME NEW g, NEW hdr, NEW b, NEW r, PeLaid(g, hdr, b, r)
    PROVE  verify_pe(g) <=> ToSet(Signatures(r)) # {} /\ \A c \in ToSet(Signatures(r)) : PeRow(c, hdr, b)
<1>1. /\ TableAligned(g) /\ pe_pkcs7(g) = Signatures(r)
      /\ \A alg : pe_authenticode_digest(g, alg) = Hash(alg, <<hdr, b>>)
  BY PeReads
<1>2. PICK rows : rows = Signatures(r)
  OBVIOUS
<1>3. IsSeq(rows)
  BY <1>2, SignaturesFacts DEF PeLaid, Band
<1>4. ToSet(rows) = {rows[i] : i \in DOMAIN rows} /\ (rows = <<>> <=> ToSet(rows) = {})
  <2>1. DOMAIN rows = 1..Len(rows) /\ ToSet(rows) = {rows[i] : i \in 1..Len(rows)}
    BY <1>3, SeqFacts
  <2>2. ToSet(rows) = {} => rows = <<>>
    BY <1>3, NoElement
  <2>3. rows = <<>> => ToSet(rows) = {}
    BY Empty
  <2> QED
    BY <2>1, <2>2, <2>3
<1>5. pe_digests_match(g) <=> \A i \in DOMAIN rows : IndirectDigest(rows[i]) = Hash(IndirectDigest(rows[i])[1], <<hdr, b>>)
  BY <1>1, <1>2 DEF pe_digests_match
<1>6. verify_pe(g) <=> /\ rows # <<>>
                       /\ \A i \in DOMAIN rows : PeRow(rows[i], hdr, b)
  BY <1>1, <1>2, <1>5 DEF verify_pe, PeRow
<1> QED
  BY <1>2, <1>4, <1>6

LEMMA AlignedRest ==
    ASSUME NEW n \in Nat, Aligned(Align + n)
    PROVE  Aligned(n)
<1>1. PICK q \in Nat : Align + n = q * Align
  BY AlignedFacts, FilesAssumption
<1>2. q # 0 /\ Align \in Nat \ {0}
  BY <1>1, FilesAssumption
<1>3. q - 1 \in Nat /\ n = (q - 1) * Align
  BY <1>1, <1>2
<1> QED
  BY <1>3, AlignedFacts

LEMMA PeTableLaid ==
    ASSUME NEW f, NEW S, PeInv(f, S), HasTable(f), AfterTable(f) = <<>>
    PROVE  PeLaid(f, f.hdr, BeforeTable(f), Table(f))
<1> DEFINE b == BeforeTable(f)
           r == Table(f)
<1>1. /\ Plain(b) /\ Len(b) = f.ptr - Align /\ Band(r) /\ Len(r) = f.size
      /\ f.data = (b \o r) \o AfterTable(f)
  BY PePieces
<1>2. /\ f = PeFile(f.hdr, f.ptr, f.size, f.data) /\ f.ptr \in Nat /\ f.ptr >= Align
      /\ Align \in Nat \ {0} /\ Aligned(f.ptr)
  BY FilesAssumption DEF PeInv, PeShape, TableAligned, HasTable
<1> HIDE DEF b, r
<1>3. PICK u : u = b \o r
  OBVIOUS
<1>4. IsSeq(u)
  BY <1>1, <1>3, Joined DEF Plain, Band
<1>5. f.data = u
  BY <1>1, <1>3, <1>4, NothingAround
<1>6. Len(b) \in Nat /\ f.ptr = Align + Len(b)
  BY <1>1, <1>2, SeqFacts DEF Plain
<1>7. Aligned(Len(b))
  BY <1>2, <1>6, AlignedRest
<1>8. f = PeFile(f.hdr, Align + Len(b), Len(r), u)
  BY <1>1, <1>2, <1>5, <1>6
<1> QED
  BY <1>1, <1>3, <1>7, <1>8 DEF PeLaid, b, r

(* An image with a table of rows that verify takes one more.                  *)
LEMMA PeAppendHolds ==
    ASSUME NEW p, NEW S, PeInv(p, S), HasTable(p) => AfterTable(p) = <<>> /\ verify_pe(p),
           ~HasTable(p) => Aligned(PeLength(p)), NEW t, IsCms(t), NEW alg,
           IndirectDigest(t) = pe_authenticode_digest(p, alg),
           verify_indirect(t, pe_authenticode_digest(p, alg))
    PROVE  pe_append(p, t) # {} /\ \A g \in pe_append(p, t) : verify_pe(g)
<1> DEFINE row == wrap_win_certificate(t)
           hdr == p.hdr
<1>1. Band(row) /\ ToSet(Signatures(row)) = {t} /\ IsSeq(row)
  BY RowMade, RowSigns DEF Band
<1>2. PeShape(p) /\ TableAligned(p) /\ IsSeq(p.data)
  BY DEF PeInv, PeShape
<1>3. ASSUME NEW b, \A a : pe_authenticode_digest(p, a) = Hash(a, <<hdr, b>>) PROVE PeRow(t, hdr, b)
  <2>1. IndirectDigest(t) = Hash(alg, <<hdr, b>>) /\ verify_indirect(t, Hash(alg, <<hdr, b>>))
    BY <1>3
  <2>2. IndirectDigest(t)[1] = alg
    BY <2>1 DEF Hash
  <2> QED
    BY <2>1, <2>2 DEF PeRow
<1> HIDE DEF row
<1>4. CASE ~HasTable(p)
  <2> DEFINE s == p.data
             x == p.data \o row
             z == Align + Len(p.data)
             k == Len(row)
  <2>1. Plain(s) /\ p.size = 0 /\ Len(s) \in Nat
    BY <1>2, <1>4, PeNoTable, SeqFacts
  <2>2. Aligned(Align + Len(s))
    BY <1>4 DEF PeLength
  <2>3. pe_append(p, t) = {Directory([p EXCEPT !.data = x], z, k)}
    BY <1>2, <1>4 DEF pe_append, When, PeLength, row
  <2> HIDE DEF x, z, k
  <2>4. Directory([p EXCEPT !.data = x], z, k) = PeFile(hdr, z, k, x)
    BY <1>2, PeDirected
  <2>5. PICK g : g = PeFile(hdr, z, k, x)
    OBVIOUS
  <2>6. PeLaid(g, hdr, s, row)
    BY <1>1, <2>1, <2>2, <2>5, AlignedRest DEF PeLaid, x, z, k
  <2>7. \A a : pe_authenticode_digest(p, a) = Hash(a, <<hdr, s>>)
    <3>1. Len(s) - p.size = Len(s)
      BY <2>1
    <3>2. SubSeq(p.data, 1, Len(p.data) - p.size) = s
      BY <1>2, <3>1, PrefixFacts
    <3> QED
      BY <3>2 DEF pe_authenticode_digest
  <2> HIDE DEF s, hdr
  <2>8. verify_pe(g)
    BY <1>1, <1>3, <2>6, <2>7, PeVerifies
  <2> QED
    BY <2>3, <2>4, <2>5, <2>8
<1>5. CASE HasTable(p)
  <2> DEFINE b == BeforeTable(p)
             r == Table(p)
             v == r \o row
             x == (b \o r) \o row
             z == p.ptr
             k == p.size + Len(row)
  <2>1. PeLaid(p, hdr, b, r) /\ verify_pe(p)
    BY <1>5, PeTableLaid
  <2>2. /\ TableAligned(p) /\ \A a : pe_authenticode_digest(p, a) = Hash(a, <<hdr, b>>)
    BY <2>1, PeReads
  <2>3. ToSet(Signatures(r)) # {} /\ \A c \in ToSet(Signatures(r)) : PeRow(c, hdr, b)
    BY <2>1, PeVerifies
  <2>4. TableInFile(p) /\ p.ptr \in Nat /\ p.ptr >= Align /\ Len(b) = p.ptr - Align /\ Len(r) = p.size
    BY <1>2, <1>5, PePieces DEF PeShape
  <2>5. pe_append(p, t) = {Directory([p EXCEPT !.data = x], z, k)}
    BY <1>2, <1>5, <2>4 DEF pe_append, When, row
  <2> HIDE DEF x, z, k
  <2>6. Directory([p EXCEPT !.data = x], z, k) = PeFile(hdr, z, k, x)
    BY <1>2, PeDirected
  <2>7. PICK g : g = PeFile(hdr, z, k, x)
    OBVIOUS
  <2> HIDE DEF b, r, hdr
  <2>8. Plain(b) /\ Band(r) /\ Aligned(Len(b)) /\ IsSeq(b) /\ IsSeq(r)
    BY <2>1 DEF PeLaid, Plain, Band
  <2>9. x = b \o v
    <3>1. (b \o r) \o row = b \o (r \o row)
      BY <1>1, <2>8, Associative, SMTT(60)
    <3> QED
      BY <3>1 DEF x
  <2>10. Band(v) /\ Len(v) = p.size + Len(row)
    BY <1>1, <2>4, <2>8, BandFacts, Joined
  <2>11. z = Align + Len(b) /\ k = Len(v)
    BY <2>4, <2>10, FilesAssumption DEF z, k
  <2>12. ToSet(Signatures(v)) = ToSet(Signatures(r)) \cup {t}
    <3>1. ToSet(Signatures(r \o row)) = ToSet(Signatures(r)) \cup ToSet(Signatures(row))
      BY <1>1, <2>8, SignaturesJoined
    <3> QED
      BY <1>1, <3>1
  <2> HIDE DEF v
  <2>13. PeLaid(g, hdr, b, v)
    BY <2>7, <2>8, <2>9, <2>10, <2>11 DEF PeLaid
  <2>14. PeRow(t, hdr, b)
    BY <1>3, <2>2 DEF hdr
  <2>15. verify_pe(g)
    BY <2>3, <2>12, <2>13, <2>14, PeVerifies
  <2> QED
    BY <2>5, <2>6, <2>7, <2>15
<1> QED
  BY <1>4, <1>5

LEMMA PePreparedLength ==
    ASSUME NEW f, NEW S, PeInv(f, S)
    PROVE  /\ pe_prepare(f) # {}
           /\ \A p \in pe_prepare(f) : ~HasTable(p) => Aligned(PeLength(p))
<1>1. TableAligned(f) /\ f.ptr \in Nat /\ f.size \in Nat /\ f = PeFile(f.hdr, f.ptr, f.size, f.data) /\ IsSeq(f.data)
  BY DEF PeInv, PeShape
<1>2. CASE f.ptr # 0
  <2>1. pe_prepare(f) = {f} /\ HasTable(f)
    BY <1>1, <1>2 DEF pe_prepare, TableAligned
  <2> QED
    BY <2>1
<1>3. CASE f.ptr = 0
  <2> DEFINE n == PeLength(f)
             pad == Blank(Padding(n), "pad")
             x == f.data \o pad
  <2>1. pe_prepare(f) = {[f EXCEPT !.data = x]}
    BY <1>1, <1>3 DEF pe_prepare
  <2>2. n \in Nat /\ n = Align + Len(f.data) /\ Len(f.data) \in Nat /\ Align \in Nat
    BY <1>1, SeqFacts, FilesAssumption DEF PeLength
  <2> HIDE DEF n
  <2>3. PICK m \in Nat : m = Padding(n) /\ Aligned(n + m)
    BY <2>2, PaddingFacts
  <2>4. IsSeq(Blank(m, "pad")) /\ Len(Blank(m, "pad")) = m
    BY <2>3, BlankFacts
  <2>5. IsSeq(pad) /\ Len(pad) = m
    BY <2>3, <2>4
  <2> HIDE DEF pad
  <2>6. Len(x) = Len(f.data) + m
    BY <1>1, <2>5, Joined
  <2> HIDE DEF x
  <2>7. PICK p : p = [f EXCEPT !.data = x]
    OBVIOUS
  <2>8. p.data = x
    BY <1>1, <2>7, PeUpdate, PeFields
  <2>9. PeLength(p) = n + m
    BY <2>2, <2>6, <2>8 DEF PeLength
  <2> QED
    BY <2>1, <2>3, <2>7, <2>9
<1> QED
  BY <1>2, <1>3

LEMMA PeHolds ==
    ASSUME NEW f, NEW S, PeInv(f, S), NEW req, GoodRequest(req), Answered(req),
           Verifiable("pe", req.alg), req.append /\ HasTable(f) => AfterTable(f) = <<>> /\ verify_pe(f)
    PROVE  sign_pe(f, req) # {} /\ \A g \in sign_pe(f, req) : verify_pe(g)
<1> DEFINE R == IF req.append THEN {f} ELSE pe_remove(f)
           U(r) == UNION {SignPreparedPe(p, req) : p \in pe_prepare(r)}
<1>1. sign_pe(f, req) = UNION {U(r) : r \in R}
  BY DEF sign_pe, Answered
<1>2. /\ R # {}
      /\ \A r \in R : PeInv(r, S) /\ (HasTable(r) => AfterTable(r) = <<>> /\ verify_pe(r))
  <2>1. CASE req.append
    BY <2>1
  <2>2. CASE ~req.append
    <3>1. HasTable(f) => TableInFile(f)
      BY DEF PeInv, PeShape
    <3>2. pe_remove(f) # {}
      BY <3>1 DEF pe_remove, When
    <3> QED
      BY <2>2, <3>2, PeRemoved
  <2> QED
    BY <2>1, <2>2
<1> HIDE DEF R
<1>3. ASSUME NEW r \in R PROVE U(r) # {} /\ \A g \in U(r) : verify_pe(g)
  <2>1. pe_prepare(r) # {} /\ \A p \in pe_prepare(r) : ~HasTable(p) => Aligned(PeLength(p))
    BY <1>2, <1>3, PePreparedLength
  <2>2. ASSUME NEW p \in pe_prepare(r)
        PROVE  SignPreparedPe(p, req) # {} /\ \A g \in SignPreparedPe(p, req) : verify_pe(g)
    <3> DEFINE d == pe_authenticode_digest(p, req.alg)
               C == create_authenticode_pkcs7(req.material, "pe", req.alg, d)
               T == Stamps(C, req)
               Z(t) == pe_append(p, t)
    <3>1. PeInv(p, S) /\ (HasTable(p) => AfterTable(p) = <<>> /\ verify_pe(p))
      BY <1>2, <1>3, <2>2, PePrepared
    <3>2. d[1] = req.alg
      BY DEF pe_authenticode_digest, Hash
    <3>3. SignPreparedPe(p, req) = UNION {UNION {Z(t) : t \in maybe_timestamp_pkcs7(c, req.tsa)} : c \in C}
      BY DEF SignPreparedPe
    <3> HIDE DEF d
    <3>4. T # {} /\ \A t \in T : IsCms(t) /\ IndirectDigest(t) = d /\ verify_indirect(t, d)
      BY <3>2, SpcStamped
    <3> HIDE DEF C, Z
    <3>5. SignPreparedPe(p, req) = UNION {Z(t) : t \in T}
      BY <3>3 DEF Stamps
    <3> HIDE DEF T
    <3>6. \A t \in T : Z(t) # {} /\ \A g \in Z(t) : verify_pe(g)
      <4> SUFFICES ASSUME NEW t \in T PROVE Z(t) # {} /\ \A g \in Z(t) : verify_pe(g)
        OBVIOUS
      <4>1. IsCms(t) /\ IndirectDigest(t) = pe_authenticode_digest(p, req.alg)
            /\ verify_indirect(t, pe_authenticode_digest(p, req.alg))
        BY <3>4 DEF d
      <4>2. ~HasTable(p) => Aligned(PeLength(p))
        BY <2>1, <2>2
      <4> QED
        BY <3>1, <4>1, <4>2, PeAppendHolds DEF Z
    <3> QED
      BY <3>4, <3>5, <3>6
  <2> DEFINE P == pe_prepare(r)
             Y(p) == SignPreparedPe(p, req)
  <2>3. U(r) = UNION {Y(p) : p \in P} /\ P # {} /\ \A p \in P : Y(p) # {} /\ \A g \in Y(p) : verify_pe(g)
    BY <2>1, <2>2
  <2> HIDE DEF P, Y, U
  <2> QED
    BY <2>3
<1> HIDE DEF U
<1> QED
  BY <1>1, <1>2, <1>3

(* Parts by name.  A package in order has one part of a name.                 *)
NoTwins(s) == \A i, j \in 1..Len(s) : i # j => s[i].name # s[j].name

LEMMA TheBody ==
    ASSUME NEW s, IsSeq(s), NoTwins(s), NEW p \in ToSet(s)
    PROVE  /\ Named(s, {p.name}) = <<p>> /\ Has(s, p.name) /\ Once(s, p.name) /\ BodyOf(s, p.name) = p.body
           /\ \A q \in ToSet(s) : q.name = p.name => q = p
<1>1. PICK n \in 1..Len(s) : s[n] = p
  BY SeqFacts
<1>2. \A i \in 1..Len(s) : i # n => s[i].name # p.name
  BY <1>1 DEF NoTwins
<1>3. Named(s, {p.name}) = <<s[n]>> /\ Has(s, p.name) /\ Once(s, p.name) /\ BodyOf(s, p.name) = s[n].body
  BY <1>1, <1>2, LoneName
<1>4. \A q \in ToSet(s) : q.name = p.name => q = p
  BY <1>1, <1>2, SeqFacts
<1> QED
  BY <1>1, <1>3, <1>4

LEMMA TwinsJoined ==
    ASSUME NEW s, NEW t, IsSeq(s), IsSeq(t), NoTwins(s), NoTwins(t),
           \A p \in ToSet(s), q \in ToSet(t) : p.name # q.name
    PROVE  NoTwins(s \o t)
<1>1. PICK n \in Nat, m \in Nat : n = Len(s) /\ m = Len(t)
  BY SeqFacts
<1>2. PICK u : u = s \o t
  OBVIOUS
<1>3. Len(u) = n + m /\ (\A i \in 1..n : u[i] = s[i]) /\ \A i \in 1..m : u[n + i] = t[i]
  BY <1>1, <1>2, JoinedMadeOf DEF MadeOf
<1>4. ASSUME NEW i \in 1..Len(u), NEW j \in 1..Len(u), i < j PROVE u[i].name # u[j].name
  <2>1. CASE j <= n
    <3>1. i \in 1..n /\ j \in 1..n /\ i # j
      BY <1>4, <2>1
    <3> QED
      BY <1>1, <1>3, <3>1 DEF NoTwins
  <2>2. CASE i > n
    <3>1. PICK a \in 1..m : i = n + a
      <4>1. i - n \in 1..m /\ i = n + (i - n)
        BY <1>3, <1>4, <2>2
      <4> QED
        BY <4>1
    <3>2. PICK b \in 1..m : j = n + b
      <4>1. j - n \in 1..m /\ j = n + (j - n)
        BY <1>3, <1>4, <2>2
      <4> QED
        BY <4>1
    <3>3. a # b
      BY <1>4, <3>1, <3>2
    <3>4. t[a].name # t[b].name
      BY <1>1, <3>3 DEF NoTwins
    <3> QED
      BY <1>3, <3>1, <3>2, <3>4
  <2>3. CASE ~(i > n) /\ ~(j <= n)
    <3>1. i \in 1..n
      BY <1>4, <2>3
    <3>2. PICK b \in 1..m : j = n + b
      <4>1. j - n \in 1..m /\ j = n + (j - n)
        BY <1>3, <1>4, <2>3
      <4> QED
        BY <4>1
    <3>3. s[i] \in ToSet(s) /\ t[b] \in ToSet(t)
      BY <1>1, <3>1, SeqFacts
    <3> QED
      BY <1>3, <3>1, <3>2, <3>3
  <2> QED
    BY <2>1, <2>2, <2>3
<1>5. ASSUME NEW i \in 1..Len(u), NEW j \in 1..Len(u), i # j PROVE u[i].name # u[j].name
  <2>1. i < j \/ j < i
    BY <1>3, <1>5
  <2> QED
    BY <1>4, <2>1
<1> QED
  BY <1>2, <1>5 DEF NoTwins

LEMMA TwinsOfOne == \A p : NoTwins(<<p>>)
<1> SUFFICES ASSUME NEW p PROVE NoTwins(<<p>>)
  OBVIOUS
<1>1. PICK s : s = <<p>>
  OBVIOUS
<1>2. Len(s) = 1
  BY <1>1, Single
<1>3. NoTwins(s)
  BY <1>2 DEF NoTwins
<1> QED
  BY <1>1, <1>3

LEMMA TwinsOnly ==
    ASSUME NEW s, IsSeq(s), NoTwins(s), NEW T
    PROVE  NoTwins(Only(s, T))
<1>1. PICK o : /\ o[0] = <<>> /\ o[Len(s)] = Only(s, T)
               /\ \A k \in 0..Len(s) : IsSeq(o[k])
               /\ \A k \in 1..Len(s) : o[k] = IF s[k] \in T THEN o[k - 1] \o <<s[k]>> ELSE o[k - 1]
  BY OnlyPrefix
<1>2. PICK n \in Nat : n = Len(s)
  BY SeqFacts
<1> DEFINE G == {k \in 0..n : NoTwins(o[k]) /\ \A p \in ToSet(o[k]) : \E i \in 1..k : p = s[i]}
<1>3. 0 \in G
  BY <1>1, Empty DEF NoTwins
<1>4. ASSUME NEW k \in 1..n, k - 1 \in G PROVE k \in G
  <2>1. CASE s[k] \notin T
    <3>0. k \in 1..n /\ k \in 1..Len(s) /\ k \in 0..n
      BY <1>2, <1>4
    <3>1. o[k] = o[k - 1]
      BY <1>1, <2>1, <3>0
    <3>2. NoTwins(o[k]) /\ \A p \in ToSet(o[k]) : \E i \in 1..k : p = s[i]
      BY <1>4, <3>0, <3>1
    <3> QED
      BY <3>0, <3>2
  <2>2. CASE s[k] \in T
    <3>1. PICK x : x = s[k]
      OBVIOUS
    <3>2. PICK u : u = o[k - 1] /\ IsSeq(u) /\ NoTwins(u) /\ \A p \in ToSet(u) : \E i \in 1..(k - 1) : p = s[i]
      BY <1>1, <1>2, <1>4
    <3>3. o[k] = u \o <<x>>
      BY <1>1, <1>2, <2>2, <3>1, <3>2
    <3>4. IsSeq(<<x>>) /\ ToSet(<<x>>) = {x}
      BY Single
    <3>5. \A p \in ToSet(u) : p.name # x.name
      BY <1>2, <3>1, <3>2 DEF NoTwins
    <3>6. NoTwins(u \o <<x>>)
      BY <3>2, <3>4, <3>5, TwinsOfOne, TwinsJoined
    <3>7. ToSet(u \o <<x>>) = ToSet(u) \cup {x}
      BY <3>2, <3>4, Joined
    <3>8. \A p \in ToSet(o[k]) : \E i \in 1..k : p = s[i]
      BY <3>1, <3>2, <3>3, <3>7
    <3>9. NoTwins(o[k]) /\ k \in 0..n
      BY <1>4, <3>3, <3>6
    <3> QED
      BY <3>8, <3>9
  <2> QED
    BY <2>1, <2>2
<1> HIDE DEF G
<1>5. n \in G
  <2>1. \A k \in 0..n : k \in G
    BY <1>3, <1>4, CountUp
  <2> QED
    BY <2>1
<1> QED
  BY <1>1, <1>2, <1>5 DEF G

(* The names stay, whatever becomes of the parts.                             *)
LEMMA TwinsRenamed ==
    ASSUME NEW s, NEW t, Len(t) = Len(s), \A i \in 1..Len(s) : t[i].name = s[i].name, NoTwins(s)
    PROVE  NoTwins(t)
BY DEF NoTwins

LEMMA TwinsEdited ==
    ASSUME NEW s, IsSeq(s), \A p \in ToSet(s) : IsPart(p), NoTwins(s), NEW x \in EditedParts(s)
    PROVE  NoTwins(x)
<1>1. ASSUME NEW n \in {j \in DOMAIN s : s[j].name = "payload"}, NEW v \in Values, x = PartsWith(s, n, v)
      PROVE NoTwins(x)
  <2>1. PICK y : y = [s[n] EXCEPT !.body[2] = v]
    OBVIOUS
  <2>2. n \in 1..Len(s) /\ IsPart(s[n])
    BY SeqFacts
  <2>3. y.name = s[n].name
    BY <2>1, <2>2, BodySet
  <2>4. x = Replaced(s, n, y)
    BY <1>1, <2>1 DEF PartsWith
  <2>5. Len(x) = Len(s) /\ \A i \in 1..Len(s) : x[i] = IF i = n THEN y ELSE s[i]
    BY <2>2, <2>4, ReplacedFacts
  <2>6. \A i \in 1..Len(s) : x[i].name = s[i].name
    BY <2>3, <2>5
  <2> QED
    BY <2>5, <2>6, TwinsRenamed
<1>2. ASSUME NEW v \in Values, x = PartsMore(s, v) PROVE NoTwins(x)
  <2>1. PICK p : p = Part("added", <<"data", v, "raw">>)
    OBVIOUS
  <2>2. PICK w : w = Without(s, {"added"})
    OBVIOUS
  <2>3. x = <<p>> \o w /\ p.name = "added"
    BY <1>2, <2>1, <2>2, PartFields DEF PartsMore
  <2>4. IsSeq(w) /\ ToSet(w) = {q \in ToSet(s) : q.name \notin {"added"}}
    BY <2>2, NamedFacts
  <2>5. NoTwins(w)
    BY <2>2, TwinsOnly DEF Without
  <2>6. IsSeq(<<p>>) /\ ToSet(<<p>>) = {p}
    BY Single
  <2> QED
    BY <2>3, <2>4, <2>5, <2>6, TwinsOfOne, TwinsJoined
<1>3. (\E n \in {j \in DOMAIN s : s[j].name = "payload"}, v \in Values : x = PartsWith(s, n, v))
      \/ \E v \in Values : x = PartsMore(s, v)
  BY DEF EditedParts
<1> QED
  BY <1>1, <1>2, <1>3

(* App packages: what the tool stages has all a reader asks for, and nothing  *)
(* of it depends on what the signature part holds.                            *)
MsixFront(K, alg, L, types) ==
    K \o <<Part("blockMap", block_map(alg, alg, L)), Part("types", types)>>

MsixMade(ext, K, alg, L, types) ==
    /\ IsSeq(K) /\ (\A p \in ToSet(K) : IsPart(p)) /\ NoTwins(K)
    /\ \A p \in ToSet(K) : p.name \notin Reserved \cup {"codeIntegrity"}
    /\ \E p \in ToSet(K) : p.name = manifest_name(ext)
    /\ \A p \in ToSet(K) : p.name \notin {"manifest", "bundleManifest"} \ {manifest_name(ext)}
    /\ ext = "msixbundle" => \A p \in ToSet(K) : p.name # "encrypted"
    /\ IsSeq(L) /\ ToSet(L) \subseteq ToSet(K)
    /\ alg \in {"sha256", "sha384", "sha512"}
    /\ {"blockMap", "signature", manifest_name(ext)} \subseteq types[2]

LEMMA HeaderStarts ==
    ASSUME NEW parts, NEW i \in Nat \ {0}, \A j \in 1..(i - 1) : PartWidth(parts[j]) = 1
    PROVE  header_start(parts, i) = i - 1
<1> DEFINE n == i - 1
           F(e) == [j \in 0..n |-> IF j = 0 THEN 0 ELSE e[j - 1] + PartWidth(parts[j])]
           chosen == CHOOSE e : e = F(e)
           id == [j \in 0..n |-> j]
<1>1. n \in Nat
  OBVIOUS
<1> HIDE DEF n
<1>2. id = F(id)
  <2>1. ASSUME NEW j \in 0..n PROVE id[j] = IF j = 0 THEN 0 ELSE id[j - 1] + PartWidth(parts[j])
    <3>1. CASE j = 0
      BY <3>1
    <3>2. CASE j # 0
      <4>1. j \in 1..n /\ j - 1 \in 0..n /\ j - 1 + 1 = j
        BY <1>1, <2>1, <3>2
      <4>2. PartWidth(parts[j]) = 1
        BY <4>1 DEF n
      <4> QED
        BY <2>1, <3>2, <4>1, <4>2
    <3> QED
      BY <3>1, <3>2
  <2>2. id = [j \in 0..n |-> id[j]]
    OBVIOUS
  <2> HIDE DEF id
  <2> QED
    BY <2>1, <2>2
<1>3. chosen = F(chosen)
  <2> HIDE DEF F, id
  <2> QED
    BY <1>2
<1>4. header_start(parts, i) = chosen[n]
  BY DEF header_start, n
<1> HIDE DEF chosen, id
<1> DEFINE G == {k \in 0..n : chosen[k] = k}
<1>5. chosen[0] = 0 /\ \A k \in 1..n : chosen[k] = chosen[k - 1] + PartWidth(parts[k])
  <2>1. \A k \in 0..n : chosen[k] = IF k = 0 THEN 0 ELSE chosen[k - 1] + PartWidth(parts[k])
    BY <1>3
  <2> HIDE DEF F
  <2> QED
    BY <1>1, <2>1
<1>6. 0 \in G
  BY <1>1, <1>5
<1>7. ASSUME NEW k \in 1..n, k - 1 \in G PROVE k \in G
  <2>1. chosen[k - 1] = k - 1 /\ PartWidth(parts[k]) = 1 /\ k \in 0..n
    BY <1>1, <1>7 DEF n
  <2>2. chosen[k] = k - 1 + 1
    BY <1>5, <1>7, <2>1
  <2> QED
    BY <1>1, <2>1, <2>2
<1>8. n \in G
  <2> HIDE DEF G
  <2>1. \A k \in 0..n : k \in G
    BY <1>1, <1>6, <1>7, CountUp
  <2> QED
    BY <1>1, <2>1
<1> QED
  BY <1>4, <1>8 DEF n

LEMMA MsixFrontFacts ==
    ASSUME NEW ext, NEW K, NEW alg, NEW L, NEW types, MsixMade(ext, K, alg, L, types)
    PROVE  LET X == MsixFront(K, alg, L, types)
           IN /\ IsSeq(X) /\ (\A p \in ToSet(X) : IsPart(p) /\ p.name # "signature") /\ NoTwins(X)
              /\ ToSet(X) = ToSet(K) \cup {Part("blockMap", block_map(alg, alg, L)), Part("types", types)}
<1> DEFINE X == MsixFront(K, alg, L, types)
<1>1. PICK a, b : a = Part("blockMap", block_map(alg, alg, L)) /\ b = Part("types", types)
  OBVIOUS
<1>2. a.name = "blockMap" /\ b.name = "types" /\ IsPart(a) /\ IsPart(b)
  BY <1>1, PartFields, PartIsPart
<1>3. PICK t : t = <<a, b>>
  OBVIOUS
<1>4. IsSeq(t) /\ ToSet(t) = {a, b} /\ Len(t) = 2 /\ t[1] = a /\ t[2] = b
  BY <1>3, Pair
<1>5. NoTwins(t)
  BY <1>2, <1>4 DEF NoTwins
<1>6. X = K \o t
  BY <1>1, <1>3 DEF MsixFront
<1>7. IsSeq(K) /\ NoTwins(K) /\ \A p \in ToSet(K) : IsPart(p) /\ p.name \notin {"types", "blockMap", "signature"}
  BY DEF MsixMade, Reserved
<1> HIDE DEF X
<1>8. IsSeq(X) /\ ToSet(X) = ToSet(K) \cup {a, b}
  BY <1>4, <1>6, <1>7, Joined
<1>9. NoTwins(X)
  <2>1. \A p \in ToSet(K), q \in ToSet(t) : p.name # q.name
    BY <1>2, <1>4, <1>7
  <2> QED
    BY <1>4, <1>5, <1>6, <1>7, <2>1, TwinsJoined
<1> QED
  BY <1>1, <1>2, <1>7, <1>8, <1>9 DEF X

(* A package with a signature part behind what staging made.                  *)
MsixWith(g, ext, X, body) ==
    g.fmt = "msix" /\ g.ext = ext /\ g.gap = FALSE /\ g.parts = X \o <<Part("signature", body)>>

LEMMA MsixReads ==
    ASSUME NEW ext, NEW K, NEW alg, NEW L, NEW types, MsixMade(ext, K, alg, L, types), NEW body,
           NEW g, MsixWith(g, ext, MsixFront(K, alg, L, types), body)
    PROVE  /\ flat_digest_blob(g) = {msix_pieces(g, alg)}
           /\ MsixSignature(g) = body[2] /\ NoTwins(g.parts) /\ IsSeq(g.parts)
           /\ ToSet(g.parts) = ToSet(MsixFront(K, alg, L, types)) \cup {Part("signature", body)}
<1>0. g.ext = ext /\ g.gap = FALSE /\ g.parts = MsixFront(K, alg, L, types) \o <<Part("signature", body)>>
  BY DEF MsixWith
<1> USE <1>0
<1>1. PICK X : X = MsixFront(K, alg, L, types)
  OBVIOUS
<1>2. PICK p : p = Part("signature", body)
  OBVIOUS
<1>3. p.name = "signature" /\ p.body = body
  BY <1>2, PartFields
<1>4. IsSeq(X) /\ (\A q \in ToSet(X) : IsPart(q) /\ q.name # "signature") /\ NoTwins(X)
      /\ ToSet(X) = ToSet(K) \cup {Part("blockMap", block_map(alg, alg, L)), Part("types", types)}
  BY <1>1, MsixFrontFacts
<1>5. PICK w : w = g.parts
  OBVIOUS
<1>6. IsSeq(w) /\ ToSet(w) = ToSet(X) \cup {p} /\ NoTwins(w)
  <2>1. w = X \o <<p>>
    BY <1>1, <1>2, <1>5
  <2>2. IsSeq(<<p>>) /\ ToSet(<<p>>) = {p} /\ NoTwins(<<p>>)
    BY Single, TwinsOfOne
  <2>3. IsSeq(w) /\ ToSet(w) = ToSet(X) \cup {p}
    BY <1>4, <2>1, <2>2, Joined
  <2>4. NoTwins(w)
    BY <1>3, <1>4, <2>1, <2>2, TwinsJoined
  <2> QED
    BY <2>3, <2>4
<1>7. PICK a, b : a = Part("blockMap", block_map(alg, alg, L)) /\ b = Part("types", types)
  OBVIOUS
<1>8. /\ a.name = "blockMap" /\ a.body = block_map(alg, alg, L)
      /\ b.name = "types" /\ b.body = types
  BY <1>7, PartFields
<1>9. ToSet(w) = ToSet(K) \cup {a, b, p}
  BY <1>4, <1>6, <1>7
<1>10. /\ Once(w, "signature") /\ Has(w, "signature") /\ BodyOf(w, "signature") = body
       /\ Once(w, "blockMap") /\ BodyOf(w, "blockMap") = block_map(alg, alg, L)
       /\ Once(w, "types") /\ BodyOf(w, "types") = types
  <2>1. ASSUME NEW q \in ToSet(w)
        PROVE  Has(w, q.name) /\ Once(w, q.name) /\ BodyOf(w, q.name) = q.body
    BY <1>6, TheBody
  <2>2. p \in ToSet(w) /\ a \in ToSet(w) /\ b \in ToSet(w)
    BY <1>9
  <2> QED
    BY <1>3, <1>8, <2>1, <2>2
<1>11. /\ \A q \in ToSet(K) : q.name \notin {"types", "blockMap", "signature", "codeIntegrity"}
       /\ \A q \in ToSet(K) : q.name \notin {"manifest", "bundleManifest"} \ {manifest_name(ext)}
       /\ ext = "msixbundle" => \A q \in ToSet(K) : q.name # "encrypted"
  BY DEF MsixMade, Reserved
<1>12. PICK m \in ToSet(K) : m.name = manifest_name(ext)
  BY DEF MsixMade
<1>13. Once(w, manifest_name(ext))
  <2>1. m \in ToSet(w)
    BY <1>9, <1>12
  <2>2. Once(w, m.name)
    BY <1>6, <2>1, TheBody
  <2> QED
    BY <1>12, <2>2
<1>14. Named(w, {"manifest", "bundleManifest"} \ {manifest_name(ext)}) = <<>>
  <2>1. \A q \in ToSet(w) : q.name \notin {"manifest", "bundleManifest"} \ {manifest_name(ext)}
    BY <1>3, <1>8, <1>9, <1>11
  <2> QED
    BY <1>6, <2>1, NamedFacts
<1>15. ext = "msixbundle" => ~Has(w, "encrypted")
  BY <1>3, <1>6, <1>8, <1>9, <1>11, HasFacts
<1>16. validate_package_part_inventory(w, ext)
  <2>1. \A i, j \in DOMAIN w : i # j => w[i].name # w[j].name
    BY <1>6, SeqFacts DEF NoTwins
  <2> QED
    BY <1>10, <1>13, <1>14, <1>15, <2>1 DEF validate_package_part_inventory, Reserved
<1>17. ~Has(w, "codeIntegrity")
  BY <1>3, <1>6, <1>8, <1>9, <1>11, HasFacts
<1>18. validate_reserved_content_types(w, ext)
  BY <1>10, <1>17 DEF validate_reserved_content_types, MsixMade
<1>19. validate_block_map_file_hashes(w, alg)
  <2>1. BodyOf(w, "blockMap")[3] = {<<q.name, Hash(alg, q.body)>> : q \in ToSet(L)}
    BY <1>10 DEF block_map
  <2>2. ASSUME NEW q \in ToSet(L)
        PROVE  q.name \notin Reserved /\ Has(w, q.name) /\ BodyOf(w, q.name) = q.body
    <3>1. q \in ToSet(K) /\ q \in ToSet(w)
      BY <1>9 DEF MsixMade
    <3> QED
      BY <1>6, <1>11, <3>1, TheBody DEF Reserved
  <2>3. ASSUME NEW e \in BodyOf(w, "blockMap")[3]
        PROVE  e[1] \notin Reserved /\ Has(w, e[1]) /\ Hash(alg, BodyOf(w, e[1])) = e[2]
    <3>1. PICK q \in ToSet(L) : e = <<q.name, Hash(alg, q.body)>>
      BY <2>1, <2>3
    <3>2. e[1] = q.name /\ e[2] = Hash(alg, q.body)
      BY <3>1
    <3> QED
      BY <2>2, <3>2
  <2> QED
    BY <2>3 DEF validate_block_map_file_hashes
<1>20. parse_block_map_xml(BodyOf(w, "blockMap")) = {alg}
  <2>1. BodyOf(w, "blockMap")[2] = alg
    BY <1>10 DEF block_map
  <2>2. alg \in {"sha256", "sha384", "sha512"}
    BY DEF MsixMade
  <2> QED
    BY <2>1, <2>2 DEF parse_block_map_xml
<1>21. flat_digest_blob(g) = {msix_pieces(g, alg)}
  BY <1>5, <1>16, <1>18, <1>19, <1>20 DEF flat_digest_blob
<1>22. MsixSignature(g) = body[2]
  BY <1>5, <1>10 DEF MsixSignature
<1> QED
  BY <1>1, <1>2, <1>5, <1>6, <1>21, <1>22

LEMMA MsixSamePieces ==
    ASSUME NEW ext, NEW K, NEW alg, NEW L, NEW types, MsixMade(ext, K, alg, L, types), NEW body,
           NEW g, MsixWith(g, ext, MsixFront(K, alg, L, types), body)
    PROVE  LET X == MsixFront(K, alg, L, types)
           IN msix_pieces(g, alg) =
                <<alg, [AXPC |-> Hash(alg, X),
                        AXCD |-> Hash(alg, {<<X[i].name, i - 1>> : i \in 1..Len(X)}),
                        AXCT |-> Hash(alg, types),
                        AXBM |-> Hash(alg, block_map(alg, alg, L)),
                        AXCI |-> <<>>]>>
<1>0. g.ext = ext /\ g.gap = FALSE /\ g.parts = MsixFront(K, alg, L, types) \o <<Part("signature", body)>>
  BY DEF MsixWith
<1> USE <1>0
<1>1. PICK X : X = MsixFront(K, alg, L, types)
  OBVIOUS
<1>2. PICK p : p = Part("signature", body)
  OBVIOUS
<1>3. p.name = "signature" /\ p.body = body
  BY <1>2, PartFields
<1>4. IsSeq(X) /\ (\A q \in ToSet(X) : IsPart(q) /\ q.name # "signature") /\ NoTwins(X)
      /\ ToSet(X) = ToSet(K) \cup {Part("blockMap", block_map(alg, alg, L)), Part("types", types)}
  BY <1>1, MsixFrontFacts
<1>5. PICK w : w = g.parts
  OBVIOUS
<1>6. PICK n \in Nat : n = Len(X)
  BY <1>4, SeqFacts
<1>7. w = X \o <<p>>
  BY <1>1, <1>2, <1>5
<1>8. IsSeq(w) /\ Len(w) = n + 1 /\ (\A i \in 1..n : w[i] = X[i]) /\ ToSet(w) = ToSet(X) \cup {p}
  BY <1>4, <1>6, <1>7, Joined, Single
<1>9. w[n + 1] = p
  BY <1>4, <1>6, <1>7, JoinedMadeOf, Single DEF MadeOf
<1>10. NoTwins(w)
  <2>1. IsSeq(<<p>>) /\ ToSet(<<p>>) = {p} /\ NoTwins(<<p>>)
    BY Single, TwinsOfOne
  <2> QED
    BY <1>3, <1>4, <1>7, <2>1, TwinsJoined
<1>11. \A i \in 1..n : X[i].name # "signature"
  BY <1>4, <1>6, SeqFacts
<1>12. hash_zip_file_data(w, alg) = Hash(alg, X)
  <2>1. Without(X \o <<p>>, {"signature"}) = X
    BY <1>3, <1>4, <1>6, <1>11, SignatureLast
  <2> QED
    BY <1>7, <2>1 DEF hash_zip_file_data
<1>13. hash_cd_and_eocd(w, alg) = Hash(alg, {<<X[i].name, i - 1>> : i \in 1..n})
  <2> DEFINE kept == {i \in DOMAIN w : w[i].name # "signature"}
  <2>1. kept = 1..n
    <3>1. DOMAIN w = 1..(n + 1)
      BY <1>8, SeqFacts
    <3> QED
      BY <1>3, <1>8, <1>9, <1>11, <3>1
  <2>2. ASSUME NEW i \in 1..n PROVE w[i].name = X[i].name /\ header_start(w, i) = i - 1
    <3>1. ASSUME NEW j \in 1..(i - 1) PROVE PartWidth(w[j]) = 1
      <4>1. j \in 1..n
        BY <2>2, <3>1
      <4> QED
        BY <1>8, <1>11, <4>1 DEF PartWidth
    <3> QED
      BY <1>8, <2>2, <3>1, HeaderStarts
  <2>3. hash_cd_and_eocd(w, alg) = Hash(alg, {<<w[i].name, header_start(w, i)>> : i \in kept})
    BY DEF hash_cd_and_eocd
  <2> HIDE DEF kept
  <2>4. {<<w[i].name, header_start(w, i)>> : i \in kept} = {<<X[i].name, i - 1>> : i \in 1..n}
    BY <2>1, <2>2
  <2> QED
    BY <2>3, <2>4
<1>14. PICK a, b : a = Part("blockMap", block_map(alg, alg, L)) /\ b = Part("types", types)
  OBVIOUS
<1>15. /\ a.name = "blockMap" /\ a.body = block_map(alg, alg, L)
       /\ b.name = "types" /\ b.body = types
  BY <1>14, PartFields
<1>16. BodyOf(w, "blockMap") = block_map(alg, alg, L) /\ BodyOf(w, "types") = types
  <2>1. a \in ToSet(w) /\ b \in ToSet(w)
    BY <1>4, <1>8, <1>14
  <2>2. BodyOf(w, a.name) = a.body /\ BodyOf(w, b.name) = b.body
    BY <1>8, <1>10, <2>1, TheBody
  <2> QED
    BY <1>15, <2>2
<1>17. Named(w, {"codeIntegrity"}) = <<>>
  <2>1. \A q \in ToSet(K) : q.name \notin {"codeIntegrity"}
    BY DEF MsixMade
  <2>2. \A q \in ToSet(w) : q.name \notin {"codeIntegrity"}
    BY <1>3, <1>4, <1>8, <1>14, <1>15, <2>1
  <2> QED
    BY <1>8, <2>2, NamedFacts
<1>18. [i \in DOMAIN Named(w, {"codeIntegrity"}) |-> Hash(alg, Named(w, {"codeIntegrity"})[i].body)] = <<>>
  <2>1. PICK e : e = Named(w, {"codeIntegrity"})
    OBVIOUS
  <2>2. e = <<>> /\ DOMAIN e = {}
    BY <1>17, <2>1
  <2>3. [i \in DOMAIN e |-> Hash(alg, e[i].body)] = <<>>
    BY <2>2
  <2> QED
    BY <2>1, <2>3
<1>19. PICK u, v, y, z, e :
          /\ u = hash_zip_file_data(w, alg) /\ v = hash_cd_and_eocd(w, alg)
          /\ y = Hash(alg, BodyOf(w, "types")) /\ z = Hash(alg, BodyOf(w, "blockMap"))
          /\ e = [i \in DOMAIN Named(w, {"codeIntegrity"}) |-> Hash(alg, Named(w, {"codeIntegrity"})[i].body)]
  OBVIOUS
<1>20. msix_pieces(g, alg) = <<alg, [AXPC |-> u, AXCD |-> v, AXCT |-> y, AXBM |-> z, AXCI |-> e]>>
  BY <1>5, <1>19 DEF msix_pieces
<1>21. /\ u = Hash(alg, X) /\ v = Hash(alg, {<<X[i].name, i - 1>> : i \in 1..Len(X)})
       /\ y = Hash(alg, types) /\ z = Hash(alg, block_map(alg, alg, L)) /\ e = <<>>
  BY <1>6, <1>12, <1>13, <1>16, <1>18, <1>19
<1> QED
  BY <1>1, <1>20, <1>21

(* What staging makes of a package that is complete.                          *)
InOrder(f) == NoTwins(f.parts) /\ Complete(f)

LEMMA TailOf ==
    ASSUME NEW K, IsSeq(K), NEW a, NEW b, NEW c
    PROVE  K \o <<a, b, c>> = (K \o <<a, b>>) \o <<c>>
<1>2. IsSeq(<<a, b>>) /\ IsSeq(<<c>>)
  BY Pair, Single
<1>1. <<a, b>> \o <<c>> = <<a, b, c>>
  <2>1. PICK x, y : x = <<a, b>> /\ y = <<c>>
    OBVIOUS
  <2>2. Len(x) = 2 /\ x[1] = a /\ x[2] = b /\ Len(y) = 1 /\ y[1] = c /\ IsSeq(x) /\ IsSeq(y)
    BY <1>2, <2>1
  <2>3. PICK u : u = x \o y
    OBVIOUS
  <2>4. IsSeq(u) /\ MadeOf(u, x, y)
    BY <2>2, <2>3, Joined, JoinedMadeOf
  <2>5. Len(u) = 3 /\ u[1] = a /\ u[2] = b /\ u[2 + 1] = c
    BY <2>2, <2>4 DEF MadeOf
  <2>6. PICK v : v = <<a, b, c>>
    OBVIOUS
  <2>7. IsSeq(v) /\ Len(v) = 3 /\ v[1] = a /\ v[2] = b /\ v[3] = c
    BY <2>6, Triple
  <2>8. \A i \in 1..Len(u) : u[i] = v[i]
    BY <2>5, <2>7
  <2>9. u = v
    BY <2>4, <2>5, <2>7, <2>8, SameSeq
  <2> QED
    BY <2>1, <2>3, <2>6, <2>9
<1>3. (K \o <<a, b>>) \o <<c>> = K \o (<<a, b>> \o <<c>>)
  BY <1>2, Associative
<1> QED
  BY <1>1, <1>3

(* The package with its signature part last.                                  *)
MsixBehind(ext, X, body) == MsixFile(ext, FALSE, X \o <<Part("signature", body)>>)

LEMMA MsixStages ==
    ASSUME NEW f, MsixShape(f), InOrder(f), NEW alg, alg \in {"sha256", "sha384", "sha512"},
           f.ext = "msixbundle" => alg # "sha384"
    PROVE  \E K, L, types :
             /\ MsixMade(f.ext, K, alg, L, types)
             /\ \A p \in ToSet(K) : p \in ToSet(f.parts)
             /\ stage_msix(f, alg) =
                  {MsixBehind(f.ext, MsixFront(K, alg, L, types), <<"p7x", <<>>>>)}
<1> DEFINE w == f.parts
<1>1. f.fmt = "msix" /\ IsSeq(w) /\ (\A p \in ToSet(w) : IsPart(p)) /\ NoTwins(w)
      /\ f = MsixFile(f.ext, f.gap, w)
  BY MsixFields DEF MsixShape, InOrder
<1>2. IF f.ext = "msixbundle" THEN Has(w, "bundleManifest") /\ ~Has(w, "encrypted")
      ELSE Has(w, "manifest") /\ ~Has(w, "bundleManifest")
  BY <1>1 DEF InOrder, Complete
<1>3. ASSUME NEW K, NEW types, IsSeq(K), NEW L PROVE
        [f EXCEPT !.gap = FALSE, !.parts = K \o
            <<Part("blockMap", block_map(alg, alg, L)), Part("types", types), Unsealed>>]
        = MsixBehind(f.ext, MsixFront(K, alg, L, types), <<"p7x", <<>>>>)
  <2>1. PICK a, b, c : a = Part("blockMap", block_map(alg, alg, L)) /\ b = Part("types", types) /\ c = Unsealed
    OBVIOUS
  <2>2. PICK u : u = K \o <<a, b, c>>
    OBVIOUS
  <2>3. u = MsixFront(K, alg, L, types) \o <<c>>
    <3>1. K \o <<a, b, c>> = (K \o <<a, b>>) \o <<c>>
      BY <1>3, TailOf
    <3>2. MsixFront(K, alg, L, types) = K \o <<a, b>>
      BY <2>1 DEF MsixFront
    <3> QED
      BY <2>2, <3>1, <3>2
  <2>4. [f EXCEPT !.gap = FALSE, !.parts = u] = MsixFile(f.ext, FALSE, u)
    BY <1>1, MsixUpdate
  <2>5. c = Part("signature", <<"p7x", <<>>>>)
    BY <2>1 DEF Unsealed
  <2> QED
    BY <2>1, <2>2, <2>3, <2>4, <2>5 DEF MsixBehind
<1> HIDE DEF w
<1>4. CASE f.ext # "msixbundle"
  <2> DEFINE K == Without(w, Reserved \cup {"dir", "codeIntegrity"})
             types == appx_content_types_for_signing(w, K)
  <2>1. IsSeq(K) /\ ToSet(K) = {p \in ToSet(w) : p.name \notin Reserved \cup {"dir", "codeIntegrity"}} /\ NoTwins(K)
    <3>1. NoTwins(K)
      BY <1>1, TwinsOnly DEF Without
    <3> QED
      BY <1>1, <3>1, NamedFacts
  <2>2. PICK m \in ToSet(w) : m.name = "manifest"
    BY <1>1, <1>2, <1>4, HasFacts
  <2>3. m \in ToSet(K)
    BY <2>1, <2>2 DEF Reserved
  <2> HIDE DEF K
  <2>4. Has(K, "manifest")
    BY <2>1, <2>2, <2>3, HasFacts
  <2>5. \A p \in ToSet(K) : p.name # "bundleManifest"
    BY <1>1, <1>2, <1>4, <2>1, HasFacts
  <2>6. {"blockMap", "signature", "manifest"} \subseteq types[2]
    <3>1. types[2] = (IF Has(w, "types") THEN BodyOf(w, "types")[2] ELSE {}) \cup
                     {p.name : p \in ToSet(K)} \cup {"blockMap", "signature"}
      BY DEF appx_content_types_for_signing
    <3> HIDE DEF types
    <3> QED
      BY <2>2, <2>3, <3>1
  <2> HIDE DEF types
  <2>7. MsixMade(f.ext, K, alg, K, types)
    <3>1. manifest_name(f.ext) = "manifest"
      BY <1>4 DEF manifest_name
    <3>2. \A p \in ToSet(K) : p.name \notin Reserved \cup {"codeIntegrity"}
      BY <2>1
    <3> QED
      BY <1>1, <1>4, <2>1, <2>2, <2>3, <2>5, <2>6, <3>1, <3>2 DEF MsixMade
  <2>8. stage_msix(f, alg) = {[f EXCEPT !.gap = FALSE, !.parts = K \o
            <<Part("blockMap", block_map(alg, alg, K)), Part("types", types), Unsealed>>]}
    BY <1>4, <2>4 DEF stage_msix, stage_flat_msix_for_signature, When, K, types, w
  <2> QED
    <3>1. stage_msix(f, alg) =
            {MsixBehind(f.ext, MsixFront(K, alg, K, types), <<"p7x", <<>>>>)}
      BY <1>3, <2>1, <2>8
    <3>2. \A p \in ToSet(K) : p \in ToSet(f.parts)
      BY <2>1 DEF w
    <3> QED
      BY <2>7, <3>1, <3>2
<1>5. CASE f.ext = "msixbundle"
  <2> DEFINE L == Named(w, {"bundleManifest"})
             C == Without(w, Reserved \cup {"dir", "codeIntegrity", "manifest", "bundleManifest"})
             K == C \o L
             types == appx_content_types_for_signing(w, K)
  <2>1. /\ IsSeq(L) /\ ToSet(L) = {p \in ToSet(w) : p.name \in {"bundleManifest"}} /\ NoTwins(L)
        /\ IsSeq(C) /\ NoTwins(C)
        /\ ToSet(C) = {p \in ToSet(w) : p.name \notin Reserved \cup {"dir", "codeIntegrity", "manifest", "bundleManifest"}}
    <3>1. NoTwins(L) /\ NoTwins(C)
      BY <1>1, TwinsOnly DEF Without, Named
    <3> QED
      BY <1>1, <3>1, NamedFacts
  <2>2. PICK m \in ToSet(w) : m.name = "bundleManifest"
    BY <1>1, <1>2, <1>5, HasFacts
  <2>3. m \in ToSet(L)
    BY <2>1, <2>2
  <2>4. \A p \in ToSet(w) : p.name # "encrypted"
    BY <1>1, <1>2, <1>5, HasFacts
  <2> HIDE DEF L, C
  <2>5. IsSeq(K) /\ ToSet(K) = ToSet(C) \cup ToSet(L) /\ NoTwins(K)
    <3>1. \A p \in ToSet(C), q \in ToSet(L) : p.name # q.name
      BY <2>1
    <3> QED
      BY <2>1, <3>1, Joined, TwinsJoined
  <2>6. L # <<>> /\ ~Has(C, "encrypted")
    BY <2>1, <2>3, <2>4, HasFacts, Empty
  <2>7. types[2] = (IF Has(w, "types") THEN BodyOf(w, "types")[2] ELSE {}) \cup
                   {p.name : p \in ToSet(K)} \cup {"blockMap", "signature"}
    BY DEF appx_content_types_for_signing
  <2>8. stage_msix(f, alg) = {[f EXCEPT !.gap = FALSE, !.parts = K \o
            <<Part("blockMap", build_msix_bundle_block_map(L, alg)), Part("types", types), Unsealed>>]}
    BY <1>5, <2>6 DEF stage_msix, stage_msix_bundle_for_signature, When, L, C, w
  <2>9. build_msix_bundle_block_map(L, alg) = block_map(alg, alg, L)
    BY <1>5 DEF build_msix_bundle_block_map
  <2> HIDE DEF K, types
  <2>10. {"blockMap", "signature", "bundleManifest"} \subseteq types[2]
    BY <2>2, <2>3, <2>5, <2>7
  <2>11. MsixMade(f.ext, K, alg, L, types)
    <3>1. manifest_name(f.ext) = "bundleManifest"
      BY <1>5 DEF manifest_name
    <3>2. \A p \in ToSet(K) : p.name \notin Reserved \cup {"codeIntegrity", "manifest", "encrypted"} /\ IsPart(p)
      BY <1>1, <2>1, <2>4, <2>5 DEF Reserved
    <3> QED
      BY <1>5, <2>1, <2>2, <2>3, <2>5, <2>10, <3>1, <3>2 DEF MsixMade
  <2>12. \A p \in ToSet(K) : p \in ToSet(f.parts)
    BY <2>1, <2>5 DEF w
  <2> QED
    <3>1. stage_msix(f, alg) =
            {MsixBehind(f.ext, MsixFront(K, alg, L, types), <<"p7x", <<>>>>)}
      BY <1>3, <2>5, <2>8, <2>9
    <3> QED
      BY <2>11, <2>12, <3>1
<1> QED
  BY <1>4, <1>5

LEMMA MsixRefilled ==
    ASSUME NEW ext, NEW K, NEW alg, NEW L, NEW types, MsixMade(ext, K, alg, L, types), NEW t
    PROVE  LET X == MsixFront(K, alg, L, types)
           IN replace_msix_signature_part(MsixBehind(ext, X, <<"p7x", <<>>>>), t)
              = MsixBehind(ext, X, <<"p7x", <<t>>>>)
<1>1. PICK X : X = MsixFront(K, alg, L, types)
  OBVIOUS
<1>2. PICK p, q : p = Part("signature", <<"p7x", <<>>>>) /\ q = Part("signature", <<"p7x", <<t>>>>)
  OBVIOUS
<1>3. p.name = "signature"
  BY <1>2, PartFields
<1>4. IsSeq(X) /\ \A y \in ToSet(X) : y.name # "signature"
  BY <1>1, MsixFrontFacts
<1>5. PICK w, v : w = X \o <<p>> /\ v = X \o <<q>>
  OBVIOUS
<1>6. PICK n \in Nat : n = Len(X)
  BY <1>4, SeqFacts
<1>7. IsSeq(w) /\ IsSeq(v) /\ MadeOf(w, X, <<p>>) /\ MadeOf(v, X, <<q>>)
  BY <1>4, <1>5, Single, Joined, JoinedMadeOf
<1>8. /\ Len(w) = n + 1 /\ Len(v) = n + 1 /\ w[n + 1] = p /\ v[n + 1] = q
      /\ \A i \in 1..n : w[i] = X[i] /\ v[i] = X[i] /\ X[i].name # "signature"
  <2>1. \A i \in 1..n : X[i].name # "signature"
    BY <1>4, <1>6, SeqFacts
  <2>2. Len(<<p>>) = 1 /\ <<p>>[1] = p /\ Len(<<q>>) = 1 /\ <<q>>[1] = q
    OBVIOUS
  <2>3. PICK a, b : a = <<p>> /\ b = <<q>>
    OBVIOUS
  <2>4. /\ Len(w) = n + 1 /\ w[n + 1] = a[1] /\ \A i \in 1..n : w[i] = X[i]
        /\ Len(v) = n + 1 /\ v[n + 1] = b[1] /\ \A i \in 1..n : v[i] = X[i]
    <3>1. MadeOf(w, X, a) /\ MadeOf(v, X, b) /\ Len(a) = 1 /\ Len(b) = 1
      BY <1>7, <2>2, <2>3
    <3> QED
      BY <1>6, <3>1 DEF MadeOf
  <2> QED
    BY <2>1, <2>2, <2>3, <2>4
<1>9. [i \in DOMAIN w |-> IF w[i].name = "signature" THEN q ELSE w[i]] = v
  <2>1. PICK r : r = [i \in DOMAIN w |-> IF w[i].name = "signature" THEN q ELSE w[i]]
    OBVIOUS
  <2>2. DOMAIN w = 1..(n + 1)
    BY <1>7, <1>8, SeqFacts
  <2>3. \A i \in DOMAIN w : r[i] = IF w[i].name = "signature" THEN q ELSE w[i]
    BY <2>1
  <2>4. IsSeq(r) /\ Len(r) = Len(w)
    <3>1. r = [i \in DOMAIN w |-> r[i]]
      BY <2>1
    <3> QED
      BY <1>7, <3>1, MappedSeq
  <2>5. ASSUME NEW i \in 1..(n + 1) PROVE r[i] = v[i]
    <3>1. CASE i = n + 1
      BY <1>3, <1>8, <2>2, <2>3, <3>1
    <3>2. CASE i # n + 1
      <4>1. i \in 1..n
        BY <2>5, <3>2
      <4> QED
        BY <1>8, <2>2, <2>3, <2>5, <4>1
    <3> QED
      BY <3>1, <3>2
  <2>6. r = v
    BY <1>7, <1>8, <2>4, <2>5, SameSeq
  <2> QED
    BY <2>1, <2>6
<1>10. PICK s : s = MsixFile(ext, FALSE, w)
  OBVIOUS
<1>11. s.ext = ext /\ s.gap = FALSE /\ s.parts = w
  <2>1. PICK no : no = FALSE
    OBVIOUS
  <2>2. s = MsixFile(ext, no, w)
    BY <1>10, <2>1
  <2>3. s.ext = ext /\ s.gap = no /\ s.parts = w
    BY <2>2, MsixFields
  <2> QED
    BY <2>1, <2>3
<1>12. replace_msix_signature_part(s, t) = [s EXCEPT !.parts = v]
  BY <1>2, <1>9, <1>11 DEF replace_msix_signature_part
<1>13. [s EXCEPT !.parts = v] = MsixFile(ext, FALSE, v)
  BY <1>10, <1>11, MsixUpdate
<1> QED
  BY <1>1, <1>2, <1>5, <1>10, <1>12, <1>13 DEF MsixBehind

GoodChildren(K) == \A p \in ToSet(K) : p.name = "child" => flat_digests_match(p.body[2])

LEMMA MsixWithReads ==
    ASSUME NEW ext, NEW K, NEW alg, NEW L, NEW types, MsixMade(ext, K, alg, L, types),
           NEW X, X = MsixFront(K, alg, L, types), NEW body, NEW g, MsixWith(g, ext, X, body),
           ext = "msixbundle" => GoodChildren(K)
    PROVE  /\ msix_authenticode_digest_blob(g) = {msix_pieces(g, alg)}
           /\ MsixSignature(g) = body[2] /\ InOrder(g)
<1>1. /\ g.fmt = "msix" /\ g.ext = ext /\ g.gap = FALSE
      /\ g.parts = MsixFront(K, alg, L, types) \o <<Part("signature", body)>>
  BY DEF MsixWith
<1>2. /\ flat_digest_blob(g) = {msix_pieces(g, alg)} /\ IsSeq(g.parts) /\ NoTwins(g.parts)
      /\ MsixSignature(g) = body[2]
      /\ ToSet(g.parts) = ToSet(X) \cup {Part("signature", body)}
  BY MsixReads
<1>3. ToSet(X) = ToSet(K) \cup {Part("blockMap", block_map(alg, alg, L)), Part("types", types)}
  BY MsixFrontFacts
<1>4. ASSUME NEW p \in ToSet(g.parts), p \notin ToSet(K) PROVE p.name \in {"blockMap", "types", "signature"}
  <2>1. p = Part("blockMap", block_map(alg, alg, L)) \/ p = Part("types", types) \/ p = Part("signature", body)
    BY <1>2, <1>3, <1>4
  <2> QED
    BY <2>1, PartFields
<1>5. ext = "msixbundle" => verify_bundle_child_packages(g)
  <2>1. ASSUME NEW p \in ToSet(g.parts), p.name = "child" PROVE p \in ToSet(K)
    BY <1>4, <2>1
  <2> QED
    BY <2>1 DEF verify_bundle_child_packages, GoodChildren
<1>6. msix_authenticode_digest_blob(g) = {msix_pieces(g, alg)}
  BY <1>1, <1>2, <1>5 DEF msix_authenticode_digest_blob
<1>7. InOrder(g)
  <2>1. PICK m \in ToSet(K) : m.name = manifest_name(ext)
    BY DEF MsixMade
  <2>2. m \in ToSet(g.parts)
    BY <1>2, <1>3, <2>1
  <2>3. Has(g.parts, manifest_name(ext))
    BY <1>2, <2>1, <2>2, HasFacts
  <2>4. PICK w : w = g.parts
    OBVIOUS
  <2>5. IsSeq(w)
    BY <1>2, <2>4
  <2>6. ASSUME NEW n \in {"manifest", "bundleManifest"} \ {manifest_name(ext)} PROVE ~Has(w, n)
    <3>1. ASSUME NEW p \in ToSet(w) PROVE p.name # n
      BY <1>4, <2>4, <2>6 DEF MsixMade
    <3> QED
      BY <2>5, <3>1, HasFacts
  <2>7. ext = "msixbundle" => ~Has(w, "encrypted")
    <3>1. ASSUME ext = "msixbundle", NEW p \in ToSet(w) PROVE p.name # "encrypted"
      BY <1>4, <2>4, <3>1 DEF MsixMade
    <3> QED
      BY <2>5, <3>1, HasFacts
  <2>8. Complete(g)
    BY <1>1, <2>3, <2>4, <2>6, <2>7 DEF Complete, manifest_name
  <2> QED
    BY <1>2, <2>8 DEF InOrder
<1> QED
  BY <1>2, <1>6, <1>7

LEMMA MsixWithSame ==
    ASSUME NEW ext, NEW K, NEW alg, NEW L, NEW types, MsixMade(ext, K, alg, L, types),
           NEW X, X = MsixFront(K, alg, L, types), NEW a, NEW b, NEW s, MsixWith(s, ext, X, a),
           NEW g, MsixWith(g, ext, X, b)
    PROVE  msix_pieces(s, alg) = msix_pieces(g, alg) /\ msix_pieces(s, alg)[1] = alg
<1>1. PICK u : u = <<alg, [AXPC |-> Hash(alg, X),
                    AXCD |-> Hash(alg, {<<X[i].name, i - 1>> : i \in 1..Len(X)}),
                    AXCT |-> Hash(alg, types),
                    AXBM |-> Hash(alg, block_map(alg, alg, L)),
                    AXCI |-> <<>>]>>
  OBVIOUS
<1>2. u[1] = alg
  BY <1>1
<1>3. ASSUME NEW h, NEW body, MsixWith(h, ext, X, body) PROVE msix_pieces(h, alg) = u
  <2>1. MsixWith(h, ext, MsixFront(K, alg, L, types), body)
    BY <1>3
  <2> QED
    BY <1>1, <2>1, MsixSamePieces
<1>4. msix_pieces(s, alg) = u /\ msix_pieces(g, alg) = u
  BY <1>3
<1> QED
  BY <1>2, <1>4

(* App packages and bundles.                                                  *)
LEMMA MsixHolds ==
    ASSUME NEW f, NEW S, MsixInv(f, S), InOrder(f), NEW req, GoodRequest(req), Answered(req),
           Verifiable("msix", req.alg),
           f.ext = "msixbundle" => req.alg # "sha384" /\ verify_bundle_child_packages(f)
    PROVE  sign_msix(f, req) # {} /\ \A g \in sign_msix(f, req) : verify_msix(g) /\ InOrder(g)
<1>1. req.alg \in {"sha256", "sha384", "sha512"} /\ ~req.skip
  BY DEF GoodRequest, Answered
<1>2. MsixShape(f)
  BY DEF MsixInv
<1>3. PICK alg : alg = req.alg
  OBVIOUS
<1>4. PICK K, L, types :
        /\ MsixMade(f.ext, K, alg, L, types)
        /\ \A p \in ToSet(K) : p \in ToSet(f.parts)
        /\ stage_msix(f, alg) =
             {MsixBehind(f.ext, MsixFront(K, alg, L, types), <<"p7x", <<>>>>)}
  BY <1>1, <1>2, <1>3, MsixStages
<1>5. PICK X : X = MsixFront(K, alg, L, types)
  OBVIOUS
<1>6. PICK s : s = MsixBehind(f.ext, X, <<"p7x", <<>>>>)
  OBVIOUS
<1>7. stage_msix(f, alg) = {s}
  BY <1>4, <1>5, <1>6
<1>8. f.ext = "msixbundle" => GoodChildren(K)
  BY <1>4 DEF GoodChildren, verify_bundle_child_packages
<1>9. ASSUME NEW body, NEW g, g = MsixBehind(f.ext, X, body)
      PROVE  MsixWith(g, f.ext, X, body)
  <2>1. PICK no : no = FALSE
    OBVIOUS
  <2>2. PICK x : x = X \o <<Part("signature", body)>>
    OBVIOUS
  <2>3. PICK e : e = f.ext
    OBVIOUS
  <2>4. g = MsixFile(e, no, x)
    BY <1>9, <2>1, <2>2, <2>3 DEF MsixBehind
  <2>5. g.ext = e /\ g.gap = no /\ g.parts = x /\ g.fmt = "msix"
    BY <2>4, MsixFields
  <2> QED
    BY <2>1, <2>2, <2>3, <2>5 DEF MsixWith
<1>10. MsixWith(s, f.ext, X, <<"p7x", <<>>>>)
  BY <1>6, <1>9
<1>11. PICK d : d = msix_pieces(s, alg)
  OBVIOUS
<1>12. msix_authenticode_digest_blob(s) = {d}
  BY <1>4, <1>5, <1>8, <1>10, <1>11, MsixWithReads
<1>13. d[1] = alg
  BY <1>4, <1>5, <1>10, <1>11, MsixWithSame
<1>14. PICK T : T = Stamps(create_authenticode_pkcs7(req.material, "msix", alg, d), req)
  OBVIOUS
<1>15. T # {} /\ \A t \in T : IsCms(t) /\ IndirectDigest(t) = d /\ verify_indirect(t, d)
  BY <1>3, <1>13, <1>14, SpcStamped
<1>16. SignStagedMsix(s, req) = {replace_msix_signature_part(s, t) : t \in T}
  <2> DEFINE O(t) == replace_msix_signature_part(s, t)
             C == create_authenticode_pkcs7(req.material, "msix", alg, d)
  <2>1. SignStagedMsix(s, req) = UNION {UNION {{O(t) : t \in maybe_timestamp_pkcs7(c, req.tsa)} :
            c \in create_authenticode_pkcs7(req.material, "msix", req.alg, e)} : e \in {d}}
    BY <1>12 DEF SignStagedMsix
  <2>2. SignStagedMsix(s, req) = UNION {{O(t) : t \in maybe_timestamp_pkcs7(c, req.tsa)} : c \in C}
    BY <1>3, <2>1
  <2>3. T = UNION {maybe_timestamp_pkcs7(c, req.tsa) : c \in C}
    BY <1>14 DEF Stamps
  <2> HIDE DEF O, C
  <2>4. SignStagedMsix(s, req) = {O(t) : t \in T}
    BY <2>2, <2>3
  <2> QED
    BY <2>4 DEF O
<1>17. sign_msix(f, req) = {replace_msix_signature_part(s, t) : t \in T}
  <2>1. sign_msix(f, req) = UNION {SignStagedMsix(x, req) : x \in {s}}
    BY <1>1, <1>3, <1>7 DEF sign_msix
  <2> QED
    BY <1>16, <2>1
<1>18. ASSUME NEW t \in T
       PROVE  LET g == replace_msix_signature_part(s, t) IN verify_msix(g) /\ InOrder(g)
  <2>1. PICK g : g = replace_msix_signature_part(s, t)
    OBVIOUS
  <2>2. PICK b : b = <<"p7x", <<t>>>>
    OBVIOUS
  <2>3. g = MsixBehind(f.ext, X, b)
    BY <1>4, <1>5, <1>6, <2>1, <2>2, MsixRefilled
  <2>4. MsixWith(g, f.ext, X, b)
    BY <1>9, <2>3
  <2>5. /\ msix_authenticode_digest_blob(g) = {msix_pieces(g, alg)}
        /\ MsixSignature(g) = b[2] /\ InOrder(g)
    BY <1>4, <1>5, <1>8, <2>4, MsixWithReads
  <2>6. msix_pieces(g, alg) = d
    BY <1>4, <1>5, <1>10, <1>11, <2>4, MsixWithSame
  <2>7. b[2] # <<>> /\ b[2][1] = t
    BY <2>2
  <2>8. IsIndirect(t) /\ verify_indirect(t, d)
    BY <1>15, <1>18 DEF verify_indirect
  <2>9. verify_msix(g)
    BY <2>5, <2>6, <2>7, <2>8 DEF verify_msix
  <2> QED
    BY <2>1, <2>5, <2>9
<1> QED
  BY <1>15, <1>17, <1>18

(* Extensions: what a signature refers to depends on the content, and on the  *)
(* types and the root relationships as signing makes them, which it does not  *)
(* change a second time.                                                      *)
RelsOf(P) == UNION {p.body[2] : p \in {q \in P : q.name = "rels"}}
TypesIn(P) == ensure_signature_content_types(TypesOf(P))
RelsIn(P) == RelsOf(P) \cup {"origin"}
RelsPart(P) == Part("rels", <<"rels", RelsIn(P)>>)
OneRels(P) == \A p, q \in P : p.name = "rels" /\ q.name = "rels" => p = q

LEMMA EnsuredTwice ==
    ASSUME NEW T
    PROVE  LET E == ensure_signature_content_types(T)
           IN /\ T \subseteq E /\ ensure_signature_content_types(E) = E
              /\ \A x \in {"psdsor", "psdsxs", "rels"} : \E t \in E : t[1] = x
<1>1. \A U, x, y : /\ U \subseteq EnsureType(U, x, y)
                   /\ (\E t \in U : t[1] = x) => EnsureType(U, x, y) = U
                   /\ \E t \in EnsureType(U, x, y) : t[1] = x
  <2> SUFFICES ASSUME NEW U, NEW x, NEW y
               PROVE  /\ U \subseteq EnsureType(U, x, y)
                      /\ (\E t \in U : t[1] = x) => EnsureType(U, x, y) = U
                      /\ \E t \in EnsureType(U, x, y) : t[1] = x
    OBVIOUS
  <2>1. PICK e : e = <<x, y>>
    OBVIOUS
  <2>2. e[1] = x
    BY <2>1
  <2>3. EnsureType(U, x, y) = IF \E t \in U : t[1] = x THEN U ELSE U \cup {e}
    BY <2>1 DEF EnsureType
  <2> QED
    BY <2>2, <2>3
<1>2. \A U : ensure_signature_content_types(U) =
        EnsureType(EnsureType(EnsureType(U, "psdsor", "origin"), "psdsxs", "xml"), "rels", "rels")
  BY DEF ensure_signature_content_types
<1>3. PICK A : A = EnsureType(T, "psdsor", "origin")
  OBVIOUS
<1>4. PICK B : B = EnsureType(A, "psdsxs", "xml")
  OBVIOUS
<1>5. PICK E : E = EnsureType(B, "rels", "rels")
  OBVIOUS
<1>6. E = ensure_signature_content_types(T)
  BY <1>2, <1>3, <1>4, <1>5
<1>7. T \subseteq A /\ A \subseteq B /\ B \subseteq E
  BY <1>1, <1>3, <1>4, <1>5
<1>8. (\E t \in E : t[1] = "psdsor") /\ (\E t \in E : t[1] = "psdsxs") /\ (\E t \in E : t[1] = "rels")
  <2>1. (\E t \in A : t[1] = "psdsor") /\ (\E t \in B : t[1] = "psdsxs") /\ (\E t \in E : t[1] = "rels")
    BY <1>1, <1>3, <1>4, <1>5
  <2> QED
    BY <1>7, <2>1
<1>9. ensure_signature_content_types(E) = E
  <2>1. EnsureType(E, "psdsor", "origin") = E /\ EnsureType(E, "psdsxs", "xml") = E
        /\ EnsureType(E, "rels", "rels") = E
    BY <1>1, <1>8
  <2> QED
    BY <1>2, <2>1
<1> QED
  BY <1>6, <1>7, <1>8, <1>9

LEMMA RelsInPlace ==
    ASSUME NEW P, OneRels(P), NEW p \in P, IsPart(p), p.name = "rels"
    PROVE  InPlace(p) = RelsPart(P)
<1>1. {q \in P : q.name = "rels"} = {p}
  BY DEF OneRels
<1>2. RelsOf(P) = p.body[2]
  BY <1>1 DEF RelsOf
<1>3. InPlace(p) = Part("rels", <<"rels", p.body[2] \cup {"origin"}>>)
  BY DEF InPlace
<1> QED
  BY <1>2, <1>3 DEF RelsPart, RelsIn

LEMMA RelsMade ==
    ASSUME NEW P, \A p \in P : p.name # "rels"
    PROVE  NewRels = RelsPart(P)
<1>1. {q \in P : q.name = "rels"} = {}
  OBVIOUS
<1>2. RelsOf(P) = {}
  BY <1>1 DEF RelsOf
<1>3. PICK b : b = <<"rels", {}>>
  OBVIOUS
<1>4. PICK p : p = Part("rels", b)
  OBVIOUS
<1>5. p.name = "rels" /\ p.body = b /\ b[2] = {}
  BY <1>3, <1>4, PartFields
<1>6. NewRels = InPlace(p)
  BY <1>3, <1>4 DEF NewRels
<1>7. InPlace(p) = Part("rels", <<"rels", p.body[2] \cup {"origin"}>>)
  BY <1>5 DEF InPlace
<1>8. p.body[2] \cup {"origin"} = RelsOf(P) \cup {"origin"}
  BY <1>2, <1>5
<1> QED
  BY <1>6, <1>7, <1>8 DEF RelsPart, RelsIn

LEMMA RelsPartFields ==
    ASSUME NEW P
    PROVE  RelsPart(P).name = "rels" /\ RelsPart(P).body[2] = RelsIn(P)
<1>1. PICK b : b = <<"rels", RelsIn(P)>>
  OBVIOUS
<1>2. b[2] = RelsIn(P)
  BY <1>1
<1>3. RelsPart(P) = Part("rels", b)
  BY <1>1 DEF RelsPart
<1> QED
  BY <1>2, <1>3, PartFields

(* A package that is written has no two parts of a name.                      *)
LEMMA VsTwins ==
    ASSUME NEW s, IsSeq(s), \A p \in ToSet(s) : IsPart(p), NoTwins(s),
           NEW g, IsSeq(g), NoTwins(g), \A p \in ToSet(g) : p.name = "signature",
           NEW o, NEW w \in write_signed_package(s, g, o)
    PROVE  NoTwins(w)
<1>1. PICK kept : kept = Without(s, SignatureParts)
  OBVIOUS
<1>2. IsSeq(kept) /\ NoTwins(kept)
      /\ \A p \in ToSet(kept) : IsPart(p) /\ p.name \notin {"origin", "originRels", "signature"}
  <2>1. IsSeq(kept) /\ ToSet(kept) = {p \in ToSet(s) : p.name \notin SignatureParts}
    BY <1>1, NamedFacts
  <2>2. NoTwins(kept)
    BY <1>1, TwinsOnly DEF Without
  <2> QED
    BY <2>1, <2>2 DEF SignatureParts
<1>3. PICK a : a = [i \in DOMAIN kept |-> InPlace(kept[i])]
  OBVIOUS
<1>4. IsSeq(a) /\ Len(a) = Len(kept) /\ ToSet(a) = {a[i] : i \in 1..Len(a)}
      /\ \A i \in 1..Len(kept) : a[i].name = kept[i].name /\ kept[i] \in ToSet(kept)
  <2>1. DOMAIN kept = 1..Len(kept) /\ \A i \in 1..Len(kept) : kept[i] \in ToSet(kept)
    BY <1>2, SeqFacts
  <2>2. a = [i \in DOMAIN kept |-> a[i]] /\ \A i \in 1..Len(kept) : a[i] = InPlace(kept[i])
    BY <1>3, <2>1
  <2>3. IsSeq(a) /\ Len(a) = Len(kept) /\ ToSet(a) = {a[i] : i \in 1..Len(kept)}
    BY <1>2, <2>2, MappedSeq
  <2>4. \A i \in 1..Len(kept) : a[i].name = kept[i].name
    BY <1>2, <2>1, <2>2, PutInPlace
  <2> QED
    BY <2>1, <2>3, <2>4
<1>5. NoTwins(a)
  BY <1>2, <1>4, TwinsRenamed
<1>6. \A p \in ToSet(a) : p.name \notin {"origin", "originRels", "signature"} /\ Has(kept, p.name)
  <2> SUFFICES ASSUME NEW p \in ToSet(a)
               PROVE  p.name \notin {"origin", "originRels", "signature"} /\ Has(kept, p.name)
    OBVIOUS
  <2>1. PICK i \in 1..Len(a) : p = a[i]
    BY <1>4
  <2>2. kept[i] \in ToSet(kept) /\ p.name = kept[i].name
    BY <1>4, <2>1
  <2> QED
    BY <1>2, <2>2, HasFacts
<1>7. PICK t, r, two : /\ t = IF Has(kept, "types") THEN <<>> ELSE <<NewTypes>>
                       /\ r = IF Has(kept, "rels") THEN <<>> ELSE <<NewRels>>
                       /\ two = <<Origin, OriginRels>>
  OBVIOUS
<1>8. w = a \o (t \o r) \o two \o g
  BY <1>1, <1>3, <1>7 DEF write_signed_package, When, MissingParts, NewTypes, NewRels, Origin, OriginRels
<1>9. IsSeq(<<>>) /\ NoTwins(<<>>) /\ ToSet(<<>>) = {}
  <2>1. PICK e : e = <<>>
    OBVIOUS
  <2>2. IsSeq(e) /\ Len(e) = 0 /\ ToSet(e) = {}
    BY <2>1, Empty
  <2>3. NoTwins(e)
    BY <2>2 DEF NoTwins
  <2> QED
    BY <2>1, <2>2, <2>3
<1>10. IsSeq(t) /\ NoTwins(t) /\ \A p \in ToSet(t) : p.name = "types" /\ ~Has(kept, "types")
  <2>1. IsSeq(<<NewTypes>>) /\ NoTwins(<<NewTypes>>) /\ ToSet(<<NewTypes>>) = {NewTypes}
    BY Single, TwinsOfOne
  <2> QED
    BY <1>7, <1>9, <2>1, NewParts
<1>11. IsSeq(r) /\ NoTwins(r) /\ \A p \in ToSet(r) : p.name = "rels" /\ ~Has(kept, "rels")
  <2>1. IsSeq(<<NewRels>>) /\ NoTwins(<<NewRels>>) /\ ToSet(<<NewRels>>) = {NewRels}
    BY Single, TwinsOfOne
  <2> QED
    BY <1>7, <1>9, <2>1, NewParts
<1>12. IsSeq(two) /\ NoTwins(two) /\ ToSet(two) = {Origin, OriginRels}
  <2>1. PICK x, y : x = Origin /\ y = OriginRels
    OBVIOUS
  <2>2. x.name = "origin" /\ y.name = "originRels"
    BY <2>1, NewParts
  <2>3. two = <<x, y>>
    BY <1>7, <2>1
  <2>4. Len(two) = 2 /\ two[1] = x /\ two[2] = y
    BY <2>3
  <2>5. NoTwins(two)
    BY <2>2, <2>4 DEF NoTwins
  <2> QED
    BY <2>1, <2>3, <2>5, Pair
<1>13. PICK m : m = t \o r
  OBVIOUS
<1>14. IsSeq(m) /\ NoTwins(m) /\ ToSet(m) = ToSet(t) \cup ToSet(r)
  <2>1. \A p \in ToSet(t), q \in ToSet(r) : p.name # q.name
    BY <1>10, <1>11
  <2> QED
    BY <1>10, <1>11, <1>13, <2>1, TwinsJoined, Joined
<1>15. PICK n : n = a \o m
  OBVIOUS
<1>16. IsSeq(n) /\ NoTwins(n) /\ ToSet(n) = ToSet(a) \cup ToSet(m)
  <2>1. \A p \in ToSet(a), q \in ToSet(m) : p.name # q.name
    BY <1>6, <1>10, <1>11, <1>14
  <2> QED
    BY <1>4, <1>5, <1>14, <1>15, <2>1, TwinsJoined, Joined
<1>17. PICK z : z = n \o two
  OBVIOUS
<1>18. IsSeq(z) /\ NoTwins(z) /\ ToSet(z) = ToSet(n) \cup ToSet(two)
  <2>1. \A p \in ToSet(n), q \in ToSet(two) : p.name # q.name
    BY <1>6, <1>10, <1>11, <1>12, <1>14, <1>16, NewParts
  <2> QED
    BY <1>12, <1>16, <1>17, <2>1, TwinsJoined, Joined
<1>19. NoTwins(z \o g)
  <2>1. \A p \in ToSet(z), q \in ToSet(g) : p.name # q.name
    BY <1>6, <1>10, <1>11, <1>12, <1>14, <1>16, <1>18, NewParts
  <2> QED
    BY <1>18, <2>1, TwinsJoined
<1>20. w = z \o g
  BY <1>8, <1>13, <1>15, <1>17
<1> QED
  BY <1>19, <1>20

(* The references of a signature of an extension: of the parts its content    *)
(* tells of, and of the three parts that signing makes.                       *)
RefType(T, name) == {t[2] : t \in {u \in T : u[1] = ExtensionOf(name)}}
VsMade(R) == {Part("rels", <<"rels", R>>), Origin, OriginRels}

VsRefs(alg, T, R, X) ==
    {<<x[1], x[2], Hash(alg, x[3])>> : x \in X} \cup
    {<<p.name, RefType(T, p.name), Hash(alg, p.body)>> : p \in VsMade(R)}

VsRefsOf(f, alg) ==
    LET P == ToSet(f.parts) IN VsRefs(alg, TypesIn(P), RelsIn(P), VsTells(P))

(* What the references depend on besides the content.                         *)
VsFrame(f) == <<TypesIn(ToSet(f.parts)), RelsIn(ToSet(f.parts))>>

LEMMA OneOfEach ==
    ASSUME NEW s, IsSeq(s), NoTwins(s)
    PROVE  OneTypes(ToSet(s)) /\ OneRels(ToSet(s))
BY TheBody DEF OneTypes, OneRels

LEMMA TypesAre ==
    ASSUME NEW s, IsSeq(s), OneTypes(ToSet(s)), Has(s, "types")
    PROVE  TypesOf(ToSet(s)) = BodyOf(s, "types")[2]
<1>1. PICK P : P = ToSet(s)
  OBVIOUS
<1>2. PICK p \in P : p.name = "types" /\ BodyOf(s, "types") = p.body
  BY <1>1, HasFacts
<1>3. {q \in P : q.name = "types"} = {p}
  BY <1>1, <1>2 DEF OneTypes
<1>4. TypesOf(P) = BodyOf(s, "types")[2]
  BY <1>2, <1>3 DEF TypesOf
<1> QED
  BY <1>1, <1>4

LEMMA VsCovered ==
    ASSUME NEW s, IsSeq(s), \A p \in ToSet(s) : IsPart(p), NoTwins(s),
           NEW g, \A p \in ToSet(g) : IsPart(p) /\ p.name = "signature",
           NEW W, W = Written(s, g)
    PROVE  /\ {p \in W : p.name \notin {"types", "signature"}} = Payload(ToSet(s)) \cup VsMade(RelsIn(ToSet(s)))
           /\ RelsOf(W) = RelsIn(ToSet(s))
<1>1. PICK P : P = ToSet(s)
  OBVIOUS
<1>2. PICK K : K = {p \in P : p.name \notin SignatureParts}
  OBVIOUS
<1>3. PICK T : T = IF \E p \in K : p.name = "types" THEN {} ELSE {NewTypes}
  OBVIOUS
<1>4. PICK R : R = IF \E p \in K : p.name = "rels" THEN {} ELSE {NewRels}
  OBVIOUS
<1>5. PICK G : G = ToSet(g)
  OBVIOUS
<1>6. PICK r : r = RelsPart(P)
  OBVIOUS
<1>7. W = {InPlace(p) : p \in K} \cup T \cup R \cup {Origin, OriginRels} \cup G
  BY <1>1, <1>2, <1>3, <1>4, <1>5 DEF Written
<1>8. OneTypes(P) /\ OneRels(P)
  BY <1>1, OneOfEach
<1>9. \A p \in K : /\ InPlace(p).name = p.name /\ (p.name \notin {"types", "rels"} => InPlace(p) = p)
                   /\ p \in P /\ p.name # "origin" /\ p.name # "originRels" /\ p.name # "signature"
  BY <1>1, <1>2, PutInPlace DEF SignatureParts
<1>10. \A p \in K : p.name = "rels" => InPlace(p) = r
  BY <1>1, <1>6, <1>8, <1>9, RelsInPlace
<1>11. (\A p \in K : p.name # "rels") => NewRels = r
  <2>1. ASSUME \A p \in K : p.name # "rels" PROVE \A p \in P : p.name # "rels"
    BY <1>2, <2>1 DEF SignatureParts
  <2> QED
    BY <1>6, <2>1, RelsMade
<1>12. r.name = "rels" /\ r.body[2] = RelsIn(P)
  BY <1>6, RelsPartFields
<1>13. r \in W
  <2>1. CASE \E p \in K : p.name = "rels"
    BY <1>7, <1>10, <2>1
  <2>2. CASE \A p \in K : p.name # "rels"
    BY <1>4, <1>7, <1>11, <2>2
  <2> QED
    BY <2>1, <2>2
<1>14. \A p \in W : \/ p.name \notin Around /\ p \in K
                    \/ p.name = "types"
                    \/ p = r
                    \/ p = Origin \/ p = OriginRels
                    \/ p.name = "signature"
  <2> SUFFICES ASSUME NEW p \in W
               PROVE  \/ p.name \notin Around /\ p \in K
                      \/ p.name = "types"
                      \/ p = r
                      \/ p = Origin \/ p = OriginRels
                      \/ p.name = "signature"
    OBVIOUS
  <2>1. CASE p \in T
    BY <1>3, <2>1, NewParts
  <2>2. CASE p \in R
    BY <1>4, <1>11, <2>2
  <2>3. CASE p \in G
    BY <1>5, <2>3
  <2>4. ASSUME NEW q \in K, p = InPlace(q)
        PROVE  (p.name \notin Around /\ p \in K) \/ p.name = "types" \/ p = r
    <3>1. CASE q.name \in {"types", "rels"}
      BY <1>9, <1>10, <2>4, <3>1
    <3>2. CASE q.name \notin {"types", "rels"}
      BY <1>9, <2>4, <3>2 DEF Around, SignatureParts
    <3> QED
      BY <3>1, <3>2
  <2> QED
    BY <1>7, <2>1, <2>2, <2>3, <2>4
<1>15. VsMade(RelsIn(P)) = {r, Origin, OriginRels}
  BY <1>6 DEF VsMade, RelsPart
<1>16. Payload(P) = {p \in K : p.name \notin Around}
  BY <1>2 DEF Payload, Around
<1>17. \A p : p.name \notin Around => p.name \notin {"types", "rels", "origin", "originRels", "signature"}
  BY DEF Around, SignatureParts
<1>18. {p \in W : p.name \notin {"types", "signature"}} = Payload(P) \cup {r, Origin, OriginRels}
  <2>1. ASSUME NEW p \in W, p.name \notin {"types", "signature"}
        PROVE  p \in Payload(P) \cup {r, Origin, OriginRels}
    BY <1>14, <1>16, <2>1
  <2>2. ASSUME NEW p \in Payload(P) PROVE p \in W /\ p.name \notin {"types", "signature"}
    BY <1>7, <1>9, <1>16, <1>17, <2>2
  <2>3. Origin \in W /\ OriginRels \in W /\ Origin.name = "origin" /\ OriginRels.name = "originRels"
    BY <1>7, NewParts
  <2> QED
    BY <1>12, <1>13, <2>1, <2>2, <2>3
<1>19. {p \in W : p.name = "rels"} = {r}
  <2>1. \A p \in W : p.name = "rels" => p = r
    BY <1>14, <1>17, NewParts
  <2> QED
    BY <1>12, <1>13, <2>1
<1>20. RelsOf(W) = RelsIn(P)
  BY <1>12, <1>19 DEF RelsOf
<1> QED
  BY <1>1, <1>15, <1>18, <1>20

(* Parts as an extension has them, none of them twice.                        *)
VsParts(s) == IsSeq(s) /\ (\A p \in ToSet(s) : IsPart(p)) /\ NoTwins(s)

LEMMA VsReferences ==
    ASSUME NEW s, VsParts(s), NEW g, \A p \in ToSet(g) : IsPart(p) /\ p.name = "signature",
           NEW w, IsSeq(w), ToSet(w) = Written(s, g), NEW alg, NEW P, P = ToSet(s)
    PROVE  /\ References(w, alg) = VsRefs(alg, TypesIn(P), RelsIn(P), VsTells(P))
           /\ Covered(w) = Payload(P) \cup VsMade(RelsIn(P))
           /\ \A p : TypeOf(w, p.name) = RefType(TypesIn(P), p.name)
           /\ Has(w, "types") /\ BodyOf(w, "types")[2] = TypesIn(P)
           /\ TypesIn(ToSet(w)) = TypesIn(P) /\ RelsIn(ToSet(w)) = RelsIn(P)
           /\ VsTells(ToSet(w)) = VsTells(P)
<1>1. PICK W : W = ToSet(w)
  OBVIOUS
<1>2. IsSeq(s) /\ (\A p \in P : IsPart(p)) /\ NoTwins(s) /\ OneTypes(P) /\ W = Written(s, g)
  BY <1>1, OneOfEach DEF VsParts
<1>3. /\ OneTypes(W) /\ (\E p \in W : p.name = "types") /\ VsTells(W) = VsTells(P)
      /\ TypesOf(W) = TypesIn(P) /\ Payload(W) = Payload(P)
  BY <1>2, VsWritten DEF TypesIn
<1>4. {p \in W : p.name \notin {"types", "signature"}} = Payload(P) \cup VsMade(RelsIn(P))
      /\ RelsOf(W) = RelsIn(P)
  BY <1>2, VsCovered
<1>5. Covered(w) = Payload(P) \cup VsMade(RelsIn(P))
  BY <1>1, <1>4, NamedFacts DEF Covered
<1>6. Has(w, "types")
  BY <1>1, <1>3, HasFacts
<1>7. BodyOf(w, "types")[2] = TypesIn(P)
  BY <1>1, <1>3, <1>6, TypesAre
<1>8. \A name : TypeOf(w, name) = RefType(TypesIn(P), name)
  BY <1>7 DEF TypeOf, RefType
<1>9. TypesIn(W) = TypesIn(P)
  <2>1. PICK E : E = TypesIn(P)
    OBVIOUS
  <2>2. ensure_signature_content_types(E) = E
    BY <2>1, EnsuredTwice DEF TypesIn
  <2> QED
    BY <1>3, <2>1, <2>2 DEF TypesIn
<1>10. RelsIn(W) = RelsIn(P)
  BY <1>4 DEF RelsIn
<1>11. References(w, alg) = VsRefs(alg, TypesIn(P), RelsIn(P), VsTells(P))
  <2> DEFINE T == TypesIn(P)
             M == VsMade(RelsIn(P))
             y(p) == RefType(T, p.name)
             h(p) == Hash(alg, p.body)
             a(p) == <<p.name, y(p), h(p)>>
             u(p) == <<p.name, y(p), p.body>>
             k(x) == Hash(alg, x[3])
             b(x) == <<x[1], x[2], k(x)>>
  <2>1. References(w, alg) = {a(p) : p \in Covered(w)}
    <3> DEFINE z(p) == TypeOf(w, p.name)
               c(p) == <<p.name, z(p), h(p)>>
    <3>1. \A p : z(p) = y(p)
      BY <1>8
    <3>2. References(w, alg) = {c(p) : p \in Covered(w)}
      BY DEF References
    <3> HIDE DEF z, y, h
    <3>3. \A p : c(p) = a(p)
      BY <3>1
    <3> HIDE DEF c, a
    <3> QED
      BY <3>2, <3>3
  <2>2. VsTells(P) = {u(p) : p \in Payload(P)}
    <3> DEFINE z(p) == VsType(W, p.name)
               c(p) == <<p.name, z(p), p.body>>
    <3>1. \A p : z(p) = y(p)
      BY <1>3 DEF VsType, RefType
    <3>2. VsTells(W) = {c(p) : p \in Payload(W)}
      BY DEF VsTells
    <3> HIDE DEF z, y
    <3>3. \A p : c(p) = u(p)
      BY <3>1
    <3> HIDE DEF c, u
    <3> QED
      BY <1>3, <3>2, <3>3
  <2>3. VsRefs(alg, T, RelsIn(P), VsTells(P)) = {b(x) : x \in VsTells(P)} \cup {a(p) : p \in M}
    BY DEF VsRefs
  <2>4. \A p : b(u(p)) = a(p)
    <3> HIDE DEF y
    <3>1. \A p : u(p)[1] = p.name /\ u(p)[2] = y(p) /\ u(p)[3] = p.body
      OBVIOUS
    <3> HIDE DEF u
    <3>2. \A p : k(u(p)) = h(p)
      BY <3>1
    <3> HIDE DEF k, h
    <3> QED
      BY <3>1, <3>2
  <2> HIDE DEF T, M, a, b, u
  <2>5. {b(x) : x \in VsTells(P)} = {a(p) : p \in Payload(P)}
    BY <2>2, <2>4
  <2>6. References(w, alg) = {a(p) : p \in Payload(P)} \cup {a(p) : p \in M}
    BY <1>5, <2>1 DEF M
  <2> QED
    BY <2>3, <2>5, <2>6 DEF T
<1> QED
  BY <1>1, <1>3, <1>5, <1>6, <1>7, <1>8, <1>9, <1>10, <1>11

(* Everything that is covered has a type.                                     *)
LEMMA VsTyped ==
    ASSUME NEW P, \E t \in TypesOf(P) : t[1] = "bin"
    PROVE  \A p \in Payload(P) \cup VsMade(RelsIn(P)) : RefType(TypesIn(P), p.name) # {}
<1>1. PICK E : E = TypesIn(P)
  OBVIOUS
<1>2. TypesOf(P) \subseteq E /\ \A x \in {"psdsor", "psdsxs", "rels"} : \E t \in E : t[1] = x
  BY <1>1, EnsuredTwice DEF TypesIn
<1>3. \A x \in {"bin", "psdsor", "rels"} : \E t \in E : t[1] = x
  BY <1>2
<1>4. ASSUME NEW p, ExtensionOf(p.name) \in {"bin", "psdsor", "rels"}
      PROVE  RefType(E, p.name) # {}
  BY <1>3, <1>4 DEF RefType
<1>5. \A p \in Payload(P) : ExtensionOf(p.name) = "bin"
  BY DEF Payload, Around, SignatureParts, ExtensionOf
<1>6. \A p \in VsMade(RelsIn(P)) : ExtensionOf(p.name) \in {"psdsor", "rels"}
  <2>1. VsMade(RelsIn(P)) = {RelsPart(P), Origin, OriginRels}
    BY DEF VsMade, RelsPart
  <2> QED
    BY <2>1, RelsPartFields, NewParts DEF ExtensionOf
<1> QED
  BY <1>1, <1>4, <1>5, <1>6

(* The template of an extension that has the types it needs.                  *)
VsPlan(f, alg, time) == [alg |-> alg, time |-> time, manifest |-> VsRefsOf(f, alg)]
VsOrdered(f) == VsShape(f) /\ InOrder(f)

LEMMA VsOrder ==
    ASSUME NEW f, VsOrdered(f)
    PROVE  /\ f.fmt = "vsix" /\ VsParts(f.parts) /\ OneTypes(ToSet(f.parts)) /\ Has(f.parts, "types")
           /\ \E t \in TypesOf(ToSet(f.parts)) : t[1] = "bin"
<1>1. f.fmt = "vsix" /\ VsParts(f.parts) /\ OneTypes(ToSet(f.parts))
  BY VsFields DEF VsOrdered, InOrder, VsShape, VsParts
<1>2. Has(f.parts, "types") /\ \E t \in BodyOf(f.parts, "types")[2] : t[1] = "bin"
  BY <1>1 DEF VsOrdered, InOrder, Complete
<1>3. TypesOf(ToSet(f.parts)) = BodyOf(f.parts, "types")[2]
  BY <1>1, <1>2, TypesAre DEF VsParts
<1> QED
  BY <1>1, <1>2, <1>3

LEMMA VsTemplate ==
    ASSUME NEW f, VsOrdered(f), NEW alg, NEW time
    PROVE  signature_template(f.parts, alg, time) = {VsPlan(f, alg, time)}
<1>1. PICK s, e, yes, P : s = f.parts /\ e = <<>> /\ yes = TRUE /\ P = ToSet(s)
  OBVIOUS
<1>2. VsParts(s) /\ (\E t \in TypesOf(P) : t[1] = "bin") /\ IsSeq(s)
  BY <1>1, VsOrder DEF VsParts
<1>3. IsSeq(e) /\ ToSet(e) = {}
  BY <1>1, Empty
<1>4. PICK w : write_signed_package(s, e, yes) = {w}
  BY <1>1 DEF write_signed_package, When
<1>5. IsSeq(w) /\ ToSet(w) = Written(s, e)
  BY <1>2, <1>3, <1>4, WrittenSet
<1>6. \A p \in ToSet(e) : IsPart(p) /\ p.name = "signature"
  BY <1>3
<1>7. /\ References(w, alg) = VsRefs(alg, TypesIn(P), RelsIn(P), VsTells(P))
      /\ Covered(w) = Payload(P) \cup VsMade(RelsIn(P))
      /\ \A p : TypeOf(w, p.name) = RefType(TypesIn(P), p.name)
  BY <1>1, <1>2, <1>5, <1>6, VsReferences
<1>8. \A p \in Covered(w) : TypeOf(w, p.name) # {}
  BY <1>2, <1>7, VsTyped
<1>9. References(w, alg) = VsRefsOf(f, alg)
  BY <1>1, <1>7 DEF VsRefsOf
<1> DEFINE t(v) == [alg |-> alg, time |-> time, manifest |-> References(v, alg)]
           U(v) == When(\A p \in Covered(v) : TypeOf(v, p.name) # {}, t(v))
<1>10. signature_template(s, alg, time) = UNION {U(v) : v \in write_signed_package(s, e, yes)}
  BY <1>1 DEF signature_template, References
<1>11. U(w) = {t(w)}
  BY <1>8 DEF When
<1>12. t(w) = VsPlan(f, alg, time)
  BY <1>9 DEF VsPlan
<1> HIDE DEF U, t
<1>13. UNION {U(v) : v \in write_signed_package(s, e, yes)} = U(w)
  BY <1>4
<1> QED
  BY <1>1, <1>10, <1>11, <1>12, <1>13

(* A document that holds, of the references of the extension, verifies in it. *)
LEMMA VsReads ==
    ASSUME NEW f, VsOrdered(f), NEW xml, NEW o, NEW g \in vsix_embed(f, xml, o)
    PROVE  /\ InOrder(g) /\ VsFrame(g) = VsFrame(f)
           /\ XmlVerifies(xml) /\ xml.template.manifest = VsRefsOf(f, xml.template.alg) => verify_vsix(g)
<1>1. PICK s, b : s = f.parts /\ b = <<"xml", xml>>
  OBVIOUS
<1>2. PICK p : p = Part("signature", b)
  OBVIOUS
<1>3. PICK e : e = <<p>>
  OBVIOUS
<1>4. PICK w \in write_signed_package(s, e, o) : g = [f EXCEPT !.parts = w]
  BY <1>1, <1>2, <1>3 DEF vsix_embed
<1>5. b[2] = xml
  BY <1>1
<1>6. p.name = "signature" /\ p.body = b /\ IsPart(p)
  BY <1>2, PartFields, PartIsPart
<1>7. IsSeq(e) /\ ToSet(e) = {p} /\ NoTwins(e)
  BY <1>3, Single, TwinsOfOne
<1>8. PICK P : P = ToSet(s)
  OBVIOUS
<1>9. VsParts(s) /\ (\E t \in TypesOf(P) : t[1] = "bin") /\ IsSeq(s)
      /\ (\A q \in ToSet(s) : IsPart(q)) /\ NoTwins(s)
  BY <1>1, <1>8, VsOrder DEF VsParts
<1>10. IsSeq(w) /\ ToSet(w) = Written(s, e)
  BY <1>4, <1>7, <1>9, WrittenSet
<1>11. \A q \in ToSet(e) : IsPart(q) /\ q.name = "signature"
  BY <1>6, <1>7
<1>12. NoTwins(w)
  BY <1>4, <1>7, <1>9, <1>11, VsTwins
<1>13. /\ \A alg : References(w, alg) = VsRefs(alg, TypesIn(P), RelsIn(P), VsTells(P))
       /\ Has(w, "types") /\ BodyOf(w, "types")[2] = TypesIn(P)
       /\ TypesIn(ToSet(w)) = TypesIn(P) /\ RelsIn(ToSet(w)) = RelsIn(P)
  BY <1>8, <1>9, <1>10, <1>11, VsReferences
<1>14. p \in ToSet(w)
  BY <1>7, <1>10 DEF Written
<1>15. Once(w, "signature") /\ BodyOf(w, "signature") = b
  BY <1>6, <1>10, <1>12, <1>14, TheBody
<1>16. Once(w, "types")
  <2>1. PICK q \in ToSet(w) : q.name = "types"
    BY <1>10, <1>13, HasFacts
  <2> QED
    BY <1>10, <1>12, <2>1, TheBody
<1>17. g.parts = w /\ g.fmt = "vsix"
  <2>1. g = VsFile(w)
    BY <1>4, VsUpdate DEF VsOrdered, VsShape
  <2> QED
    BY <2>1, VsFields
<1>18. \A alg : References(w, alg) = VsRefsOf(f, alg)
  BY <1>1, <1>8, <1>13 DEF VsRefsOf
<1>19. ASSUME XmlVerifies(xml), xml.template.manifest = VsRefsOf(f, xml.template.alg)
       PROVE  verify_vsix(g)
  <2>1. BodyOf(w, "signature")[2] = xml
    BY <1>5, <1>15
  <2>2. xml.template.manifest = References(w, xml.template.alg)
    BY <1>18, <1>19
  <2>3. verify_vsix(g) <=> /\ Once(w, "signature") /\ Once(w, "types") /\ XmlVerifies(xml)
                           /\ xml.template.manifest = References(w, xml.template.alg)
    BY <1>17, <2>1 DEF verify_vsix, References
  <2> QED
    BY <1>15, <1>16, <1>19, <2>2, <2>3
<1>20. InOrder(g)
  <2>1. TypesOf(P) \subseteq TypesIn(P)
    BY EnsuredTwice DEF TypesIn
  <2>2. \E t \in BodyOf(w, "types")[2] : t[1] = "bin"
    BY <1>9, <1>13, <2>1
  <2>3. Complete(g)
    BY <1>13, <1>17, <2>2 DEF Complete
  <2> QED
    BY <1>12, <1>17, <2>3 DEF InOrder
<1>21. VsFrame(g) = VsFrame(f)
  BY <1>1, <1>8, <1>13, <1>17 DEF VsFrame
<1> QED
  BY <1>19, <1>20, <1>21

LEMMA VsHolds ==
    ASSUME NEW f, NEW S, VsInv(f, S), InOrder(f), Named(f.parts, SignatureParts) = <<>>,
           NEW req, GoodRequest(req), Answered(req), NEW now
    PROVE  /\ sign_vsix(f, req, now) # {}
           /\ \A g \in sign_vsix(f, req, now) : verify_vsix(g) /\ InOrder(g) /\ VsFrame(g) = VsFrame(f)
<1>1. VsOrdered(f)
  BY DEF VsOrdered, VsInv
<1>2. PICK t : t = VsPlan(f, req.alg, now)
  OBVIOUS
<1>3. signature_template(f.parts, req.alg, now) = {t}
  BY <1>1, <1>2, VsTemplate
<1>4. t.alg = req.alg /\ t.manifest = VsRefsOf(f, req.alg)
  BY <1>2 DEF VsPlan
<1> DEFINE no == FALSE
<1>6. PICK value : value = sign_xml_signed_info(req.material, signed_info(t))
  OBVIOUS
<1> DEFINE A(s) == add_signature_timestamp(signature_xml(t, value, s[1]), req.tsa)
           V(s) == UNION {vsix_embed(f, x, no) : x \in A(s)}
           v(u) == sign_xml_signed_info(req.material, signed_info(u))
           B(u, s) == UNION {vsix_embed(f, x, no) :
                         x \in add_signature_timestamp(signature_xml(u, v(u), s[1]), req.tsa)}
           U(u) == UNION {B(u, s) : s \in load_signing_provider(req.material)}
<1>7. sign_vsix(f, req, now) = UNION {U(u) : u \in signature_template(f.parts, req.alg, now)}
  BY DEF sign_vsix
<1>8. U(t) = UNION {V(s) : s \in load_signing_provider(req.material)}
  BY <1>6
<1> HIDE DEF U, no
<1>9. sign_vsix(f, req, now) = UNION {V(s) : s \in load_signing_provider(req.material)}
  BY <1>3, <1>7, <1>8
<1>10. ASSUME NEW s \in load_signing_provider(req.material), NEW x \in A(s)
       PROVE  XmlVerifies(x) /\ x.template.manifest = VsRefsOf(f, x.template.alg)
  <2>1. PICK cert : cert = s[1]
    OBVIOUS
  <2>2. x \in add_signature_timestamp(signature_xml(t, value, cert), req.tsa)
    BY <1>10, <2>1
  <2>3. x.value = value /\ x.cert = cert /\ x.template = t /\ x.info = signed_info(t)
    BY <2>2, XmlStamped
  <2>4. cert = req.material.key
    BY <2>1, Provided
  <2>5. PICK i : i = signed_info(t)
    OBVIOUS
  <2>6. value = RsaSign(req.material.key, Hash(i[1], i))
    BY <1>6, <2>5 DEF sign_xml_signed_info, ProviderSign
  <2>7. XmlVerifies(x)
    BY <2>3, <2>4, <2>5, <2>6 DEF XmlVerifies
  <2> QED
    BY <1>4, <2>3, <2>7
<1>11. ASSUME NEW s \in load_signing_provider(req.material) PROVE A(s) # {}
  <2>1. PICK x : x = signature_xml(t, value, s[1])
    OBVIOUS
  <2>2. x.stamp = <<>>
    BY <2>1 DEF signature_xml
  <2>3. req.tsa \in {"none", "granted"}
    BY DEF GoodRequest, Answered
  <2>4. add_signature_timestamp(x, req.tsa) # {}
    BY <2>2, <2>3 DEF add_signature_timestamp, request_rfc3161_token
  <2> QED
    BY <2>1, <2>4
<1>12. ASSUME NEW x PROVE vsix_embed(f, x, no) # {}
  <2>1. IsSeq(f.parts)
    BY <1>1, VsOrder DEF VsParts
  <2>2. Without(f.parts, SignatureParts) = f.parts
    <3>1. \A p \in ToSet(f.parts) : p.name \notin SignatureParts
      BY <2>1, NamedFacts
    <3>2. \A i \in 1..Len(f.parts) : f.parts[i] \in ToSet(f.parts)
      BY <2>1, SeqFacts
    <3> QED
      BY <2>1, <3>1, <3>2, OnlyAll DEF Without
  <2>3. \A e : write_signed_package(f.parts, e, no) # {}
    BY <2>2 DEF write_signed_package, When, no
  <2> QED
    BY <2>3 DEF vsix_embed
<1> HIDE DEF A
<1>13. sign_vsix(f, req, now) # {}
  <2>1. PICK s \in load_signing_provider(req.material) : TRUE
    BY Provided
  <2>2. PICK x \in A(s) : TRUE
    BY <1>11, <2>1
  <2>3. V(s) # {}
    BY <1>12, <2>2
  <2> HIDE DEF V
  <2> QED
    BY <1>9, <2>1, <2>3
<1>14. ASSUME NEW g \in sign_vsix(f, req, now)
       PROVE  verify_vsix(g) /\ InOrder(g) /\ VsFrame(g) = VsFrame(f)
  <2> HIDE DEF V
  <2>1. PICK s \in load_signing_provider(req.material) : g \in V(s)
    BY <1>9, <1>14
  <2> USE DEF V
  <2>2. PICK x \in A(s) : g \in vsix_embed(f, x, no)
    BY <2>1
  <2> HIDE DEF V
  <2>3. XmlVerifies(x) /\ x.template.manifest = VsRefsOf(f, x.template.alg)
    BY <1>10, <2>2
  <2> QED
    BY <1>1, <2>2, <2>3, VsReads
<1> QED
  BY <1>13, <1>14

-----------------------------------------------------------------------------
(* Files stay as signing needs them, whatever is done to them.                *)
Proper(f) ==
    /\ f.fmt = "script" => f.enc # "utf16le"
    /\ f.fmt \in {"msix", "vsix"} => InOrder(f)
    /\ f.fmt = "clickonce" => Close \in ToSet(f.data)

LEMMA HasRenamed ==
    ASSUME NEW s, NEW t, IsSeq(s), IsSeq(t), Len(t) = Len(s), \A i \in 1..Len(s) : t[i].name = s[i].name
    PROVE  \A n : Has(t, n) <=> Has(s, n)
<1> SUFFICES ASSUME NEW n PROVE Has(t, n) <=> Has(s, n)
  OBVIOUS
<1>1. /\ Has(s, n) <=> \E p \in ToSet(s) : p.name = n
      /\ Has(t, n) <=> \E p \in ToSet(t) : p.name = n
  BY HasFacts
<1>2. ToSet(s) = {s[i] : i \in 1..Len(s)} /\ ToSet(t) = {t[i] : i \in 1..Len(s)}
  BY SeqFacts
<1> QED
  BY <1>1, <1>2

LEMMA MsixRenamed ==
    ASSUME NEW f, NEW g, f.fmt = "msix", g.fmt = "msix", g.ext = f.ext, InOrder(f),
           IsSeq(f.parts), IsSeq(g.parts), Len(g.parts) = Len(f.parts),
           \A i \in 1..Len(f.parts) : g.parts[i].name = f.parts[i].name
    PROVE  InOrder(g)
<1>1. NoTwins(g.parts)
  BY TwinsRenamed DEF InOrder
<1>2. \A n : Has(g.parts, n) <=> Has(f.parts, n)
  BY HasRenamed
<1> QED
  BY <1>1, <1>2 DEF InOrder, Complete

LEMMA MsixNamed ==
    ASSUME NEW f, MsixShape(f), InOrder(f), NEW x, x = [i \in DOMAIN f.parts |-> x[i]],
           \A i \in 1..Len(f.parts) : x[i].name = f.parts[i].name
    PROVE  InOrder([f EXCEPT !.parts = x])
<1>0. PICK g : g = [f EXCEPT !.parts = x]
  OBVIOUS
<1>1. PICK s : s = f.parts
  OBVIOUS
<1>2. IsSeq(s) /\ f.fmt = "msix" /\ f = MsixFile(f.ext, f.gap, f.parts)
  BY <1>1, MsixFields DEF MsixShape
<1>3. IsSeq(x) /\ Len(x) = Len(s)
  BY <1>1, <1>2, MappedSeq
<1>4. g = MsixFile(f.ext, f.gap, x)
  BY <1>0, <1>2, MsixUpdate
<1>5. g.fmt = "msix" /\ g.ext = f.ext /\ g.parts = x
  BY <1>4, MsixFields
<1> QED
  BY <1>0, <1>1, <1>2, <1>3, <1>5, MsixRenamed

LEMMA MsixStagedOrder ==
    ASSUME NEW f, MsixShape(f), InOrder(f), NEW kept, IsSeq(kept), NoTwins(kept),
           \A p \in ToSet(kept) : p \in ToSet(f.parts) /\ p.name \notin Reserved,
           \E p \in ToSet(kept) : p.name = manifest_name(f.ext),
           NEW map, NEW types, NEW y
    PROVE  InOrder([f EXCEPT !.gap = y, !.parts = kept \o MsixTail(map, types)])
<1>0. PICK g : g = [f EXCEPT !.gap = y, !.parts = kept \o MsixTail(map, types)]
  OBVIOUS
<1>1. PICK a, b, c : a = Part("blockMap", map) /\ b = Part("types", types) /\ c = Unsealed
  OBVIOUS
<1>2. a.name = "blockMap" /\ b.name = "types" /\ c.name = "signature"
  BY <1>1, PartFields DEF Unsealed
<1>3. PICK t : t = <<a, b, c>>
  OBVIOUS
<1>4. IsSeq(t) /\ ToSet(t) = {a, b, c} /\ Len(t) = 3 /\ t[1] = a /\ t[2] = b /\ t[3] = c
  BY <1>3, Triple
<1>5. NoTwins(t)
  BY <1>2, <1>4 DEF NoTwins
<1>6. PICK u : u = kept \o t
  OBVIOUS
<1>7. IsSeq(u) /\ ToSet(u) = ToSet(kept) \cup {a, b, c}
  BY <1>4, <1>6, Joined
<1>8. NoTwins(u)
  <2>1. \A p \in ToSet(kept), q \in ToSet(t) : p.name # q.name
    BY <1>2, <1>4 DEF Reserved
  <2> QED
    BY <1>4, <1>5, <1>6, <2>1, TwinsJoined
<1>9. g = MsixFile(f.ext, y, u)
  <2>1. g = [f EXCEPT !.gap = y, !.parts = u]
    BY <1>0, <1>1, <1>3, <1>6 DEF MsixTail
  <2> QED
    BY <2>1, MsixUpdate DEF MsixShape
<1>10. g.fmt = "msix" /\ g.ext = f.ext /\ g.parts = u /\ f.fmt = "msix" /\ IsSeq(f.parts)
  <2>1. g.fmt = "msix" /\ g.ext = f.ext /\ g.parts = u
    BY <1>9, MsixFields
  <2>2. f.fmt = "msix" /\ IsSeq(f.parts)
    BY MsixFields DEF MsixShape
  <2> QED
    BY <2>1, <2>2
<1>11. Has(u, manifest_name(f.ext))
  BY <1>7, HasFacts
<1>12. ASSUME NEW n, ~Has(f.parts, n), n \notin {"blockMap", "types", "signature"} PROVE ~Has(u, n)
  <2>1. \A p \in ToSet(f.parts) : p.name # n
    BY <1>10, <1>12, HasFacts
  <2>2. \A p \in ToSet(u) : p.name # n
    BY <1>2, <1>7, <1>12, <2>1
  <2> QED
    BY <1>7, <2>2, HasFacts
<1>13. ~Has(f.parts, "encrypted") => ~Has(u, "encrypted")
  BY <1>12
<1>14. ~Has(f.parts, "bundleManifest") => ~Has(u, "bundleManifest")
  BY <1>12
<1>15. Complete(g)
  BY <1>10, <1>11, <1>13, <1>14 DEF Complete, InOrder, manifest_name
<1> QED
  BY <1>0, <1>8, <1>10, <1>15 DEF InOrder

LEMMA MsixStageOrder ==
    ASSUME NEW f, MsixShape(f), InOrder(f), NEW alg, NEW g \in stage_msix(f, alg)
    PROVE  InOrder(g)
<1> DEFINE types(w) == appx_content_types_for_signing(f.parts, w)
<1>0. IsSeq(f.parts) /\ NoTwins(f.parts) /\ f.fmt = "msix"
  BY MsixFields DEF MsixShape, InOrder
<1>1. IF f.ext = "msixbundle" THEN Has(f.parts, "bundleManifest") ELSE Has(f.parts, "manifest")
  BY <1>0 DEF InOrder, Complete
<1>2. CASE f.ext # "msixbundle"
  <2> DEFINE N == Reserved \cup {"dir", "codeIntegrity"}
             w == Without(f.parts, N)
             map == block_map(alg, alg, w)
             no == FALSE
  <2>1. g = [f EXCEPT !.gap = no, !.parts = w \o MsixTail(map, types(w))]
    BY <1>2 DEF stage_msix, stage_flat_msix_for_signature, When, MsixTail
  <2>2. "manifest" \notin N
    BY DEF Reserved
  <2>3. Reserved \subseteq N
    OBVIOUS
  <2> HIDE DEF map, N, types, no
  <2>4. IsSeq(w) /\ ToSet(w) = {p \in ToSet(f.parts) : p.name \notin N}
    BY <1>0, NamedFacts
  <2>5. NoTwins(w)
    BY <1>0, TwinsOnly DEF Without
  <2> HIDE DEF w
  <2>6. \E p \in ToSet(w) : p.name = manifest_name(f.ext)
    <3>1. PICK p \in ToSet(f.parts) : p.name = "manifest"
      BY <1>0, <1>1, <1>2, HasFacts
    <3>2. p \in ToSet(w)
      BY <2>2, <2>4, <3>1
    <3> QED
      BY <1>2, <3>1, <3>2 DEF manifest_name
  <2> QED
    BY <2>1, <2>3, <2>4, <2>5, <2>6, MsixStagedOrder
<1>3. CASE f.ext = "msixbundle"
  <2> DEFINE N == Reserved \cup {"dir", "codeIntegrity", "manifest", "bundleManifest"}
             a == Without(f.parts, N)
             m == Named(f.parts, {"bundleManifest"})
             w == a \o m
             map == build_msix_bundle_block_map(m, alg)
             no == FALSE
  <2>1. g = [f EXCEPT !.gap = no, !.parts = w \o MsixTail(map, types(w))]
    BY <1>3 DEF stage_msix, stage_msix_bundle_for_signature, When, MsixTail
  <2>2. "bundleManifest" \notin Reserved
    BY DEF Reserved
  <2>3. Reserved \subseteq N /\ "bundleManifest" \in N
    OBVIOUS
  <2> HIDE DEF map, N, types, no
  <2>4. IsSeq(a) /\ ToSet(a) = {p \in ToSet(f.parts) : p.name \notin N}
    BY <1>0, NamedFacts
  <2>5. IsSeq(m) /\ ToSet(m) = {p \in ToSet(f.parts) : p.name \in {"bundleManifest"}}
    BY <1>0, NamedFacts
  <2>6. NoTwins(a) /\ NoTwins(m)
    BY <1>0, TwinsOnly DEF Without, Named
  <2> HIDE DEF a, m
  <2>7. IsSeq(a) /\ IsSeq(m)
    BY <2>4, <2>5
  <2>8. IsSeq(w) /\ ToSet(w) = ToSet(a) \cup ToSet(m)
    BY <2>7, Joined
  <2>9. NoTwins(w)
    <3>1. \A p \in ToSet(a), q \in ToSet(m) : p.name # q.name
      BY <2>3, <2>4, <2>5
    <3> QED
      BY <2>6, <2>7, <3>1, TwinsJoined
  <2> HIDE DEF w
  <2>10. \E p \in ToSet(w) : p.name = manifest_name(f.ext)
    <3>1. PICK p \in ToSet(f.parts) : p.name = "bundleManifest"
      BY <1>0, <1>1, <1>3, HasFacts
    <3>2. p \in ToSet(w)
      BY <2>5, <2>8, <3>1
    <3> QED
      BY <1>3, <3>1, <3>2 DEF manifest_name
  <2>11. \A p \in ToSet(w) : p \in ToSet(f.parts) /\ p.name \notin Reserved
    BY <2>2, <2>3, <2>4, <2>5, <2>8
  <2> QED
    BY <2>1, <2>8, <2>9, <2>10, <2>11, MsixStagedOrder
<1> QED
  BY <1>2, <1>3

LEMMA MsixKept ==
    ASSUME NEW f, NEW S, MsixInv(f, S), InOrder(f), NEW req, NEW g \in sign_msix(f, req)
    PROVE  InOrder(g)
<1>1. CASE g = f
  BY <1>1
<1>2. CASE g # f
  <2>1. PICK s \in stage_msix(f, req.alg) : g \in SignStagedMsix(s, req)
    BY <1>2, Zenon DEF sign_msix
  <2>2. PICK t : g = replace_msix_signature_part(s, t)
    BY <2>1 DEF SignStagedMsix
  <2>3. MsixShape(s) /\ InOrder(s)
    BY <2>1, MsixStaged, MsixStageOrder DEF MsixInv, Staged
  <2>4. PICK q : q = Part("signature", <<"p7x", <<t>>>>)
    OBVIOUS
  <2>5. q.name = "signature"
    BY <2>4, PartFields
  <2>6. PICK x : x = [i \in DOMAIN s.parts |-> IF s.parts[i].name = "signature" THEN q ELSE s.parts[i]]
    OBVIOUS
  <2>7. g = [s EXCEPT !.parts = x]
    BY <2>2, <2>4, <2>6 DEF replace_msix_signature_part
  <2>8. x = [i \in DOMAIN s.parts |-> x[i]]
    BY <2>6
  <2>9. \A i \in 1..Len(s.parts) : x[i].name = s.parts[i].name
    <3>1. DOMAIN s.parts = 1..Len(s.parts)
      BY <2>3, SeqFacts DEF MsixShape
    <3> QED
      BY <2>5, <2>6, <3>1
  <2> QED
    BY <2>3, <2>7, <2>8, <2>9, MsixNamed
<1> QED
  BY <1>1, <1>2

LEMMA MsixPublisherKept ==
    ASSUME NEW f, NEW S, MsixInv(f, S), InOrder(f), NEW v, NEW g \in set_msix_manifest_publisher(f, v)
    PROVE  InOrder(g)
<1>1. PICK N : N = {"manifest", "bundleManifest"}
  OBVIOUS
<1>2. PICK x : x = [i \in DOMAIN f.parts |->
                      IF f.parts[i].name \in N THEN Part(f.parts[i].name, <<"data", v>>) ELSE f.parts[i]]
  OBVIOUS
<1>3. g = [f EXCEPT !.parts = x]
  BY <1>1, <1>2 DEF set_msix_manifest_publisher, When
<1>4. x = [i \in DOMAIN f.parts |-> x[i]]
  BY <1>2
<1>5. \A i \in 1..Len(f.parts) : x[i].name = f.parts[i].name
  <2>1. DOMAIN f.parts = 1..Len(f.parts)
    BY SeqFacts DEF MsixInv, MsixShape
  <2>2. \A i \in 1..Len(f.parts) : Part(f.parts[i].name, <<"data", v>>).name = f.parts[i].name
    BY PartFields
  <2> QED
    BY <1>2, <2>1, <2>2
<1> QED
  BY <1>3, <1>4, <1>5, MsixNamed DEF MsixInv

LEMMA VsKept ==
    ASSUME NEW f, NEW S, VsInv(f, S), InOrder(f), NEW req, NEW now, NEW g \in sign_vsix(f, req, now)
    PROVE  InOrder(g) /\ VsFrame(g) = VsFrame(f)
<1> DEFINE no == FALSE
           value(t) == sign_xml_signed_info(req.material, signed_info(t))
           V(t, s) == UNION {vsix_embed(f, x, no) :
                         x \in add_signature_timestamp(signature_xml(t, value(t), s[1]), req.tsa)}
           U(t) == UNION {V(t, s) : s \in load_signing_provider(req.material)}
<1>1. sign_vsix(f, req, now) = UNION {U(t) : t \in signature_template(f.parts, req.alg, now)}
  BY DEF sign_vsix
<1> HIDE DEF U
<1>2. PICK t \in signature_template(f.parts, req.alg, now) : g \in U(t)
  BY <1>1
<1> HIDE DEF V
<1>3. PICK s \in load_signing_provider(req.material) : g \in V(t, s)
  BY <1>2 DEF U
<1> HIDE DEF no, value
<1>4. PICK x : g \in vsix_embed(f, x, no)
  BY <1>3 DEF V
<1>5. VsOrdered(f)
  BY DEF VsOrdered, VsInv
<1> QED
  BY <1>4, <1>5, VsReads

LEMMA CoKept ==
    ASSUME NEW f, NEW S, CoInv(f, S), Close \in ToSet(f.data), NEW info, NEW value, NEW cert,
           NEW g \in ClickOnceWith(f, info, value, cert)
    PROVE  Close \in ToSet(g.data)
<1>1. PICK T : T = {CoTold(value[2])}
  OBVIOUS
<1>2. PICK u : u = unsigned_clickonce_manifest(f.data)
  OBVIOUS
<1>3. CoInv(g, T) /\ unsigned_clickonce_manifest(g.data) = u
  BY <1>1, <1>2, CoWith
<1>4. Close[1] = "close"
  BY CellFields DEF Close
<1>5. IsSeq(f.data) /\ IsSeq(g.data)
      /\ \A s \in {f.data, g.data} :
           \A i, j \in 1..Len(s) : s[i][1] = "xml" /\ s[j][1] = "xml" => i = j
  BY <1>3 DEF CoInv
<1>6. ASSUME NEW s \in {f.data, g.data} PROVE Close \in ToSet(s) <=> Close \in ToSet(u)
  <2>1. IsSeq(s) /\ unsigned_clickonce_manifest(s) = u /\ ToSet(s) = {s[i] : i \in 1..Len(s)}
    BY <1>2, <1>3, <1>5, SeqFacts
  <2>2. CASE \A i \in 1..Len(s) : s[i][1] # "xml"
    BY <1>5, <2>1, <2>2, CoUnsigned
  <2>3. ASSUME NEW k \in 1..Len(s), s[k][1] = "xml" PROVE Close \in ToSet(s) <=> Close \in ToSet(u)
    <3>1. u = Dropped(s, k)
      BY <1>5, <2>1, <2>3, CoUnsigned
    <3>2. ToSet(u) = {s[i] : i \in 1..Len(s) \ {k}}
      BY <2>1, <3>1, DroppedFacts
    <3>3. s[k] # Close
      BY <1>4, <2>3
    <3> QED
      BY <2>1, <3>2, <3>3
  <2> QED
    BY <2>2, <2>3
<1> QED
  BY <1>6

LEMMA ScriptKept ==
    ASSUME NEW f, f = ScFile(f.enc, f.data), NEW req
    PROVE  /\ \A g \in sign_script(f, req) : g.enc = f.enc
           /\ \A g \in remove_script_signature_block(f) : g.enc = f.enc
<1>1. \A x : [f EXCEPT !.data = x].enc = f.enc
  BY ScUpdate
<1>2. ASSUME NEW g \in sign_script(f, req) PROVE g.enc = f.enc
  <2>1. PICK t : g = append_script_signature_block(f, t)
    BY <1>2 DEF sign_script
  <2>2. PICK x : x = f.data \o format_signature_block(t)
    OBVIOUS
  <2>3. g = [f EXCEPT !.data = x]
    BY <2>1, <2>2 DEF append_script_signature_block
  <2> QED
    BY <1>1, <2>3
<1>3. ASSUME NEW g \in remove_script_signature_block(f) PROVE g.enc = f.enc
  <2>1. g = f \/ \E x : g = [f EXCEPT !.data = x]
    BY <1>3 DEF remove_script_signature_block
  <2> QED
    BY <1>1, <2>1
<1> QED
  BY <1>2, <1>3

LEMMA OrderedAtFirst ==
    ASSUME NEW f \in Files, f.fmt = "script" => f.enc # "utf16le"
    PROVE  Proper(f)
<1>1. OwnerFile(f) /\ Complete(f)
  BY FilesAssumption, CompleteAssumption
<1>2. CASE f.fmt \in {"msix", "vsix"}
  <2>1. IsSeq(f.parts) /\ \A i, j \in DOMAIN f.parts : i # j => f.parts[i].name # f.parts[j].name
    BY <1>1, <1>2 DEF OwnerFile, OfParts
  <2>2. DOMAIN f.parts = 1..Len(f.parts)
    BY <2>1, SeqFacts
  <2>3. NoTwins(f.parts)
    BY <2>1, <2>2 DEF NoTwins
  <2> QED
    BY <1>1, <1>2, <2>3 DEF Proper, InOrder
<1>3. CASE f.fmt \notin {"msix", "vsix"}
  BY <1>1, <1>3 DEF Proper, Complete
<1> QED
  BY <1>2, <1>3

(* What an edit of the parts leaves as it is.                                 *)
LEMMA PartsKept ==
    ASSUME NEW s, IsSeq(s), \A p \in ToSet(s) : IsPart(p), NoTwins(s), NEW x \in EditedParts(s)
    PROVE  /\ IsSeq(x) /\ NoTwins(x)
           /\ \A n : n \notin Editable => (Has(x, n) <=> Has(s, n))
           /\ TypesOf(ToSet(x)) = TypesOf(ToSet(s)) /\ RelsOf(ToSet(x)) = RelsOf(ToSet(s))
<1>1. PartEdit(x, s) /\ NoTwins(x)
  BY PartsEdited, TwinsEdited
<1>2. PICK X, P : X = ToSet(x) /\ P = ToSet(s)
  OBVIOUS
<1>3. IsSeq(x) /\ (\A p \in X : p \in P \/ p.name \in Editable) /\ \A p \in P : p.name \notin Editable => p \in X
  BY <1>1, <1>2 DEF PartEdit
<1>4. ASSUME NEW n, n \notin Editable PROVE {p \in X : p.name = n} = {p \in P : p.name = n}
  BY <1>3, <1>4
<1>5. ASSUME NEW n, n \notin Editable PROVE Has(x, n) <=> Has(s, n)
  <2>1. {p \in X : p.name = n} = {p \in P : p.name = n}
    BY <1>4, <1>5
  <2>2. /\ Has(s, n) <=> \E p \in P : p.name = n
        /\ Has(x, n) <=> \E p \in X : p.name = n
    BY <1>2, <1>3, HasFacts
  <2> QED
    BY <2>1, <2>2
<1>6. "types" \notin Editable /\ "rels" \notin Editable
  BY DEF Editable
<1>7. {p \in X : p.name = "types"} = {p \in P : p.name = "types"}
      /\ {p \in X : p.name = "rels"} = {p \in P : p.name = "rels"}
  BY <1>4, <1>6
<1>8. TypesOf(X) = TypesOf(P) /\ RelsOf(X) = RelsOf(P)
  BY <1>7 DEF TypesOf, RelsOf
<1> QED
  BY <1>1, <1>2, <1>3, <1>5, <1>8

SameFrame(f, g) == f.fmt = "vsix" => VsFrame(g) = VsFrame(f)

LEMMA EditKept ==
    ASSUME NEW f, NEW S, FileInv(f, S), Proper(f), NEW g \in Edited(f)
    PROVE  Proper(g) /\ SameFrame(f, g)
<1>1. g.fmt = f.fmt
  BY FileEdited
<1>2. CASE f.fmt = "msix"
  <2>1. PICK x \in EditedParts(f.parts) \cup EditedTypes(f.parts) : g = [f EXCEPT !.parts = x]
    <3>1. Edited(f) = {[f EXCEPT !.parts = s] : s \in EditedParts(f.parts) \cup EditedTypes(f.parts)}
      BY <1>2 DEF Edited
    <3> QED
      BY <3>1, Zenon
  <2>2. MsixShape(f) /\ InOrder(f)
    BY <1>2 DEF FileInv, MsixInv, Proper
  <2>3. g = MsixFile(f.ext, f.gap, x)
    BY <2>1, <2>2, MsixUpdate DEF MsixShape
  <2>4. g.ext = f.ext /\ g.parts = x
    BY <2>3, MsixFields
  <2>5. PICK s : s = f.parts
    OBVIOUS
  <2>6. ASSUME x \in EditedParts(s) PROVE InOrder(g)
    <3>1. NoTwins(x) /\ \A n : n \notin Editable => (Has(x, n) <=> Has(s, n))
      BY <2>2, <2>5, <2>6, PartsKept DEF MsixShape, InOrder
    <3>2. (Has(x, "bundleManifest") <=> Has(s, "bundleManifest")) /\ (Has(x, "encrypted") <=> Has(s, "encrypted"))
          /\ (Has(x, "manifest") <=> Has(s, "manifest"))
      BY <3>1 DEF Editable
    <3>3. Complete(g)
      BY <1>1, <1>2, <2>2, <2>4, <2>5, <3>2 DEF InOrder, Complete
    <3> QED
      BY <2>4, <3>1, <3>3 DEF InOrder
  <2>7. ASSUME x \in EditedTypes(s) PROVE InOrder(g)
    <3>1. IsSeq(s) /\ \A p \in ToSet(s) : IsPart(p)
      BY <2>2, <2>5 DEF MsixShape
    <3>2. IsSeq(x) /\ Len(x) = Len(s) /\ \A i \in 1..Len(s) : x[i].name = s[i].name
      BY <2>7, <3>1, TypesEdited
    <3> QED
      BY <1>1, <1>2, <2>2, <2>4, <2>5, <3>1, <3>2, MsixRenamed
  <2>8. InOrder(g)
    BY <2>5, <2>6, <2>7
  <2> QED
    BY <1>1, <1>2, <2>8 DEF Proper, SameFrame
<1>3. CASE f.fmt = "vsix"
  <2>1. PICK x \in EditedParts(f.parts) : g = [f EXCEPT !.parts = x]
    <3>1. Edited(f) = {[f EXCEPT !.parts = s] : s \in EditedParts(f.parts)}
      BY <1>3 DEF Edited
    <3> QED
      BY <3>1, Zenon
  <2>2. VsShape(f) /\ InOrder(f) /\ VsOrdered(f)
    BY <1>3 DEF FileInv, VsInv, Proper, VsOrdered
  <2>3. g = VsFile(x)
    BY <2>1, <2>2, VsUpdate DEF VsShape
  <2>4. g.parts = x
    BY <2>3, VsFields
  <2>5. PICK s : s = f.parts
    OBVIOUS
  <2>6. /\ IsSeq(x) /\ NoTwins(x) /\ (\A n : n \notin Editable => (Has(x, n) <=> Has(s, n)))
        /\ TypesOf(ToSet(x)) = TypesOf(ToSet(s)) /\ RelsOf(ToSet(x)) = RelsOf(ToSet(s))
    BY <2>2, <2>5, PartsKept DEF VsShape, InOrder
  <2>7. Has(s, "types") /\ \E t \in TypesOf(ToSet(s)) : t[1] = "bin"
    BY <2>2, <2>5, VsOrder
  <2>8. Has(x, "types")
    BY <2>6, <2>7 DEF Editable
  <2>9. TypesOf(ToSet(x)) = BodyOf(x, "types")[2]
    BY <2>6, <2>8, OneOfEach, TypesAre
  <2>10. Complete(g)
    BY <1>1, <1>3, <2>4, <2>6, <2>7, <2>8, <2>9 DEF Complete
  <2>11. VsFrame(g) = VsFrame(f)
    BY <2>4, <2>5, <2>6 DEF VsFrame, TypesIn, RelsIn
  <2> QED
    BY <1>1, <1>3, <2>4, <2>6, <2>10, <2>11 DEF Proper, InOrder, SameFrame
<1>4. CASE f.fmt \in {"script", "clickonce"}
  <2>1. PICK x \in EditedData(f.data) : g = [f EXCEPT !.data = x]
    <3>1. Edited(f) = {[f EXCEPT !.data = s] : s \in EditedData(f.data)}
      BY <1>4 DEF Edited
    <3> QED
      BY <3>1, Zenon
  <2>2. CASE f.fmt = "script"
    <3>1. f = ScFile(f.enc, f.data)
      BY <2>2 DEF FileInv, ScInv, ScShape
    <3>2. g.enc = f.enc
      BY <2>1, <3>1, ScUpdate
    <3> QED
      BY <1>1, <2>2, <3>2 DEF Proper, SameFrame
  <2>3. CASE f.fmt = "clickonce"
    <3>1. f = CoFile(f.data) /\ IsSeq(f.data)
      BY <2>3 DEF FileInv, CoInv
    <3>2. g = CoFile(x)
      BY <2>1, <3>1, CoUpdate
    <3>3. g.data = x
      BY <3>2, CoFields
    <3>4. PICK s : s = f.data
      OBVIOUS
    <3>5. EditOf(x, s) /\ IsSeq(s)
      BY <2>1, <3>1, <3>4, DataEdited
    <3>6. Close[1] = "close"
      BY CellFields DEF Close
    <3>7. PICK i \in 1..Len(s) : s[i] = Close
      BY <2>3, <3>4, <3>5, SeqFacts DEF Proper
    <3>8. x[i] = Close /\ i \in 1..Len(x)
      <4>1. Len(s) \in Nat /\ Len(x) \in Nat
        BY <3>5, SeqFacts DEF EditOf
      <4> QED
        BY <3>5, <3>6, <3>7, <4>1 DEF EditOf
    <3>9. Close \in ToSet(x)
      BY <3>5, <3>8, SeqFacts DEF EditOf
    <3> QED
      BY <1>1, <2>3, <3>3, <3>9 DEF Proper, SameFrame
  <2> QED
    BY <1>4, <2>2, <2>3
<1>5. CASE f.fmt \notin {"msix", "vsix", "script", "clickonce"}
  BY <1>1, <1>5 DEF Proper, SameFrame
<1> QED
  BY <1>2, <1>3, <1>4, <1>5

LEMMA SignKept ==
    ASSUME NEW f, NEW S, FileInv(f, S), Proper(f), NEW req, NEW now, NEW g \in PortableSign(f, req, now)
    PROVE  Proper(g) /\ SameFrame(f, g)
<1>1. g.fmt = f.fmt
  BY FileSigned
<1>2. CASE f.fmt = "msix"
  <2>1. MsixInv(f, S) /\ InOrder(f) /\ g \in sign_msix(f, req)
    BY <1>2 DEF FileInv, Proper, PortableSign
  <2> QED
    BY <1>1, <1>2, <2>1, MsixKept DEF Proper, SameFrame
<1>3. CASE f.fmt = "vsix"
  <2>1. VsInv(f, S) /\ InOrder(f) /\ g \in sign_vsix(f, req, now)
    BY <1>3 DEF FileInv, Proper, PortableSign
  <2> QED
    BY <1>1, <1>3, <2>1, VsKept DEF Proper, SameFrame
<1>4. CASE f.fmt = "script"
  <2>1. f = ScFile(f.enc, f.data) /\ g \in sign_script(f, req)
    BY <1>4 DEF FileInv, ScInv, ScShape, PortableSign
  <2>2. g.enc = f.enc
    BY <2>1, ScriptKept
  <2> QED
    BY <1>1, <1>4, <2>2 DEF Proper, SameFrame
<1>5. CASE f.fmt = "clickonce"
  <2>1. CoInv(f, S) /\ g \in sign_clickonce_manifest(f, req) /\ Close \in ToSet(f.data)
    BY <1>5 DEF FileInv, PortableSign, Proper
  <2>2. PICK info, value, cert : g \in ClickOnceWith(f, info, value, cert)
    BY <2>1 DEF sign_clickonce_manifest
  <2>3. Close \in ToSet(g.data)
    BY <2>1, <2>2, CoKept
  <2> QED
    BY <1>1, <1>5, <2>3 DEF Proper, SameFrame
<1>6. CASE f.fmt \notin {"msix", "vsix", "script", "clickonce"}
  BY <1>1, <1>6 DEF Proper, SameFrame
<1> QED
  BY <1>2, <1>3, <1>4, <1>5, <1>6

(* Signing a file that may be signed gives a signature that verifies.         *)
LEMMA SignHolds ==
    ASSUME NEW f, NEW S, FileInv(f, S), Proper(f), NEW req \in Requests, Answered(req), Signable(f, req), NEW now
    PROVE  PortableSign(f, req, now) # {} /\ \A g \in PortableSign(f, req, now) : Verify(g)
<1>0. f.fmt \in Formats /\ GoodRequest(req) /\ MaxComment \in Nat \ {0}
  BY FormatIs, RequestsAssumption, CompleteAssumption DEF GoodRequest
<1>12. Accepted(f, req.alg)
  BY DEF Signable
<1>1. \A g \in PortableSign(f, req, now) : g.fmt = f.fmt
  BY FileSigned
<1>2. CASE f.fmt = "pe"
  <2>1. PeInv(f, S) /\ PortableSign(f, req, now) = sign_pe(f, req)
    BY <1>2 DEF FileInv, PortableSign
  <2>2. req.append /\ HasTable(f) => AfterTable(f) = <<>> /\ verify_pe(f)
    BY <1>2 DEF Signable, Verify
  <2>3. sign_pe(f, req) # {} /\ \A g \in sign_pe(f, req) : verify_pe(g)
    BY <1>0, <1>2, <2>1, <2>2, <1>12, Readable, PeHolds
  <2> QED
    BY <1>1, <1>2, <2>1, <2>3 DEF Verify
<1>3. CASE f.fmt = "cab"
  <2>1. CabInv(f, S) /\ PortableSign(f, req, now) = sign_cab(f, req)
    BY <1>3 DEF FileInv, PortableSign
  <2>2. ~f.reserve /\ f.cb = CabLength(f)
    BY <1>3 DEF Signable
  <2>3. sign_cab(f, req) # {} /\ \A g \in sign_cab(f, req) : verify_cab(g)
    BY <1>0, <1>3, <2>1, <2>2, <1>12, Readable, CabHolds
  <2> QED
    BY <1>1, <1>3, <2>1, <2>3 DEF Verify
<1>4. CASE f.fmt = "msi"
  <2>1. MsiInv(f, S) /\ PortableSign(f, req, now) = sign_msi(f, req)
    BY <1>4 DEF FileInv, PortableSign
  <2>3. sign_msi(f, req) # {} /\ \A g \in sign_msi(f, req) : verify_msi(g)
    BY <1>0, <1>4, <2>1, <1>12, Readable, MsiHolds
  <2> QED
    BY <1>1, <1>4, <2>1, <2>3 DEF Verify
<1>5. CASE f.fmt = "script"
  <2>1. ScInv(f, S) /\ PortableSign(f, req, now) = sign_script(f, req)
    BY <1>5 DEF FileInv, PortableSign
  <2>2. f.enc # "utf16le" /\ ~HasBlock(f)
    BY <1>5 DEF Signable, Proper
  <2>3. sign_script(f, req) # {} /\ \A g \in sign_script(f, req) : verify_script(g)
    BY <1>0, <1>5, <2>1, <2>2, <1>12, Readable, ScHolds
  <2> QED
    BY <1>1, <1>5, <2>1, <2>3 DEF Verify
<1>6. CASE f.fmt = "zip"
  <2>1. ZipInv(f, S) /\ PortableSign(f, req, now) = sign_zip(f, req)
    BY <1>6 DEF FileInv, PortableSign
  <2>2. req.tsa = "none" \/ MaxComment > 2
    BY <1>6 DEF Signable
  <2>3. sign_zip(f, req) # {} /\ \A g \in sign_zip(f, req) : verify_zip(g)
    BY <1>0, <1>6, <2>1, <2>2, <1>12, Readable, ZipHolds
  <2> QED
    BY <1>1, <1>6, <2>1, <2>3 DEF Verify
<1>7. CASE f.fmt = "msix"
  <2>1. MsixInv(f, S) /\ InOrder(f) /\ PortableSign(f, req, now) = sign_msix(f, req)
    BY <1>7 DEF FileInv, PortableSign, Proper
  <2>2. f.ext = "msixbundle" => req.alg # "sha384" /\ verify_bundle_child_packages(f)
    BY <1>7 DEF Signable
  <2>3. sign_msix(f, req) # {} /\ \A g \in sign_msix(f, req) : verify_msix(g)
    BY <1>0, <1>7, <2>1, <2>2, <1>12, Readable, MsixHolds
  <2> QED
    BY <1>1, <1>7, <2>1, <2>3 DEF Verify
<1>8. CASE f.fmt = "nuget"
  <2>1. NuInv(f, S) /\ PortableSign(f, req, now) = sign_nuget(f, req, now)
    BY <1>8 DEF FileInv, PortableSign
  <2>3. sign_nuget(f, req, now) # {} /\ \A g \in sign_nuget(f, req, now) : verify_nuget(g)
    BY <1>0, <1>8, <2>1, <1>12, Readable, NuHolds
  <2> QED
    BY <1>1, <1>8, <2>1, <2>3 DEF Verify
<1>9. CASE f.fmt = "vsix"
  <2>1. VsInv(f, S) /\ InOrder(f) /\ PortableSign(f, req, now) = sign_vsix(f, req, now)
    BY <1>9 DEF FileInv, PortableSign, Proper
  <2>2. Named(f.parts, SignatureParts) = <<>>
    BY <1>9 DEF Signable
  <2>3. sign_vsix(f, req, now) # {} /\ \A g \in sign_vsix(f, req, now) : verify_vsix(g)
    BY <1>0, <2>1, <2>2, VsHolds
  <2> QED
    BY <1>1, <1>9, <2>1, <2>3 DEF Verify
<1>10. CASE f.fmt = "clickonce"
  <2>1. CoInv(f, S) /\ Close \in ToSet(f.data) /\ PortableSign(f, req, now) = sign_clickonce_manifest(f, req)
    BY <1>10 DEF FileInv, PortableSign, Proper
  <2>3. sign_clickonce_manifest(f, req) # {} /\ \A g \in sign_clickonce_manifest(f, req) : verify_clickonce(g)
    BY <1>0, <2>1, CoHolds
  <2> QED
    BY <1>1, <1>10, <2>1, <2>3 DEF Verify
<1>11. CASE f.fmt = "appinstaller"
  <2>1. AppInv(f, S) /\ PortableSign(f, req, now) = sign_appinstaller(f, req)
    BY <1>11 DEF FileInv, PortableSign
  <2>3. sign_appinstaller(f, req) # {} /\ \A g \in sign_appinstaller(f, req) : verify_appinstaller(g)
    BY <1>0, <1>11, <2>1, <1>12, Readable, AppHolds
  <2> QED
    BY <1>1, <1>11, <2>1, <2>3 DEF Verify
<1> QED
  BY <1>0, <1>2, <1>3, <1>4, <1>5, <1>6, <1>7, <1>8, <1>9, <1>10, <1>11 DEF Formats

-----------------------------------------------------------------------------
(* What the remote signer is asked to sign of a content x: it depends on the  *)
(* format, the frame of the package, and the certificate, never on the clock. *)
Frame(f) == IF f.fmt = "vsix" THEN VsFrame(f) ELSE <<>>

SplitSigns(fmt, x, alg) == IF fmt = "nuget" THEN signature_content(x, alg) ELSE <<"data", x>>

SplitAsks(fmt, frame, alg, signer, x) ==
    CASE fmt = "vsix" ->
            Hash(alg, signed_info([alg |-> alg, time |-> 0, manifest |-> VsRefs(alg, frame[1], frame[2], x)]))
      [] fmt = "clickonce" -> Hash(alg, clickonce_signed_info(x, alg))
      [] OTHER ->
            signed_attrs_digest(alg, pkcs7_signed_attrs(
                IF fmt = "nuget" THEN "NuGetAuthorWithoutSigningTime" ELSE "Basic",
                alg, SplitSigns(fmt, x, alg), signer, 0))

(* A document that verifies in a file of the content x.                       *)
SplitHolds(fmt, frame, doc, x) ==
    IF fmt = "vsix"
    THEN XmlVerifies(doc) /\ doc.template.manifest = VsRefs(doc.template.alg, frame[1], frame[2], x)
    ELSE doc.alg = "sha256" => verify_detached(doc, SplitSigns(fmt, x, doc.alg))

LEMMA TimelessAttrs ==
    ASSUME NEW profile, profile # "NuGetAuthor", NEW alg, NEW x, NEW signer, NEW now
    PROVE  pkcs7_signed_attrs(profile, alg, x, signer, now) = pkcs7_signed_attrs(profile, alg, x, signer, 0)
BY DEF pkcs7_signed_attrs

(* What a split signing is over, and its attributes.                          *)
LEMMA SplitAttrsAre ==
    ASSUME NEW f, NEW S, FileInv(f, S), f.fmt \in {"nuget", "appinstaller"}, NEW alg, NEW signer, NEW now
    PROVE  LET a == SplitAttrs(f, alg, signer, now)
               y == SplitSigns(f.fmt, Content(f), alg)
           IN /\ SplitContent(f, alg) = y
              /\ signed_attrs_digest(alg, a) = SplitAsks(f.fmt, Frame(f), alg, signer, Content(f))
              /\ a.messageDigest = Hash(alg, y)
<1> DEFINE y == SplitSigns(f.fmt, Content(f), alg)
           r == IF f.fmt = "nuget" THEN "NuGetAuthorWithoutSigningTime" ELSE "Basic"
<1>1. SplitContent(f, alg) = y
  BY DEF SplitContent, SplitSigns, Content, NuGetContent
<1>2. SplitProfile(f) = r /\ r # "NuGetAuthor"
  BY DEF SplitProfile
<1>3. SplitAsks(f.fmt, Frame(f), alg, signer, Content(f)) =
          signed_attrs_digest(alg, pkcs7_signed_attrs(r, alg, y, signer, 0))
  BY DEF SplitAsks
<1> HIDE DEF y, r
<1>4. SplitAttrs(f, alg, signer, now) = pkcs7_signed_attrs(r, alg, y, signer, now)
  BY <1>1, <1>2 DEF SplitAttrs
<1>5. SplitAttrs(f, alg, signer, now) = pkcs7_signed_attrs(r, alg, y, signer, 0)
  BY <1>2, <1>4, TimelessAttrs
<1>6. SplitAttrs(f, alg, signer, now).messageDigest = Hash(alg, y)
  BY <1>4 DEF pkcs7_signed_attrs
<1> QED
  BY <1>1, <1>3, <1>5, <1>6 DEF y

(* What the plan of an extension asks.                                        *)
LEMMA VsPlanIs ==
    ASSUME NEW f, VsOrdered(f), NEW alg
    PROVE  /\ VsRefsOf(f, alg) = VsRefs(alg, VsFrame(f)[1], VsFrame(f)[2], VsixContent(f))
           /\ Hash(alg, signed_info(VsPlan(f, alg, 0))) = SplitAsks("vsix", VsFrame(f), alg, alg, VsixContent(f))
<1> DEFINE P == ToSet(f.parts)
<1>1. VsixContent(f) = VsTells(P)
  BY VsContentIs DEF VsOrdered
<1>2. PICK T, R : T = TypesIn(P) /\ R = RelsIn(P)
  OBVIOUS
<1>3. VsFrame(f) = <<T, R>>
  BY <1>2 DEF VsFrame
<1>4. VsFrame(f)[1] = T /\ VsFrame(f)[2] = R
  BY <1>3
<1>5. VsRefsOf(f, alg) = VsRefs(alg, T, R, VsTells(P))
  BY <1>2 DEF VsRefsOf
<1>6. VsRefsOf(f, alg) = VsRefs(alg, VsFrame(f)[1], VsFrame(f)[2], VsixContent(f))
  BY <1>1, <1>4, <1>5
<1> QED
  BY <1>6 DEF SplitAsks, VsPlan

LEMMA PrehashAsks ==
    ASSUME NEW f, NEW S, FileInv(f, S), Proper(f), f.fmt \in SplitFormats, NEW alg, NEW signer, NEW now,
           NEW d \in SplitPrehash(f, alg, signer, now)
    PROVE  d = SplitAsks(f.fmt, Frame(f), alg, signer, Content(f))
<1>1. CASE f.fmt = "vsix"
  <2>1. VsOrdered(f) /\ Content(f) = VsixContent(f) /\ Frame(f) = VsFrame(f)
    BY <1>1 DEF FileInv, VsInv, Proper, VsOrdered, Content, Frame
  <2>2. signature_template(f.parts, alg, 0) = {VsPlan(f, alg, 0)}
    BY <2>1, VsTemplate
  <2>3. d = Hash(alg, signed_info(VsPlan(f, alg, 0)))
    BY <1>1, <2>2 DEF SplitPrehash, package_signature_time_value
  <2>4. d = SplitAsks("vsix", VsFrame(f), alg, alg, VsixContent(f))
    BY <2>1, <2>3, VsPlanIs
  <2>5. SplitAsks("vsix", VsFrame(f), alg, alg, VsixContent(f)) = SplitAsks("vsix", VsFrame(f), alg, signer, VsixContent(f))
    BY DEF SplitAsks
  <2> QED
    BY <1>1, <2>1, <2>4, <2>5
<1>2. CASE f.fmt = "clickonce"
  BY <1>2 DEF SplitPrehash, SplitAsks, Content
<1>3. CASE f.fmt \in {"nuget", "appinstaller"}
  <2>1. d = signed_attrs_digest(alg, SplitAttrs(f, alg, signer, now))
    BY <1>3 DEF SplitPrehash
  <2> QED
    BY <1>3, <2>1, SplitAttrsAre
<1> QED
  BY <1>1, <1>2, <1>3 DEF SplitFormats

(* The document around the value of the content the file has.                 *)
LEMMA DocumentAround ==
    ASSUME NEW f, NEW S, FileInv(f, S), Proper(f), f.fmt \in {"nuget", "vsix", "appinstaller"},
           NEW alg, NEW signer, NEW value, NEW answer, NEW now,
           value = RsaSign(signer, SplitAsks(f.fmt, Frame(f), alg, signer, Content(f))),
           NEW d \in SplitDocument(f, alg, signer, value, answer, now)
    PROVE  SplitHolds(f.fmt, Frame(f), d, Content(f)) /\ (f.fmt # "vsix" => d.alg = alg)
<1>1. CASE f.fmt = "vsix"
  <2>1. VsOrdered(f) /\ Content(f) = VsixContent(f) /\ Frame(f) = VsFrame(f)
    BY <1>1 DEF FileInv, VsInv, Proper, VsOrdered, Content, Frame
  <2>2. signature_template(f.parts, alg, 0) = {VsPlan(f, alg, 0)}
    BY <2>1, VsTemplate
  <2>3. PICK t : t = VsPlan(f, alg, 0)
    OBVIOUS
  <2>4. d = signature_xml(t, value, signer)
    BY <1>1, <2>2, <2>3 DEF SplitDocument, package_signature_time_value
  <2>5. d.template = t /\ d.info = signed_info(t) /\ d.value = value /\ d.cert = signer
    BY <2>4 DEF signature_xml
  <2>6. t.alg = alg /\ t.manifest = VsRefsOf(f, alg)
    BY <2>3 DEF VsPlan
  <2>7. value = RsaSign(signer, Hash(alg, signed_info(t)))
    <3>1. Hash(alg, signed_info(t)) = SplitAsks("vsix", VsFrame(f), alg, alg, VsixContent(f))
      BY <2>1, <2>3, VsPlanIs
    <3>2. SplitAsks("vsix", VsFrame(f), alg, alg, VsixContent(f)) = SplitAsks("vsix", VsFrame(f), alg, signer, VsixContent(f))
      BY DEF SplitAsks
    <3> QED
      BY <1>1, <2>1, <3>1, <3>2
  <2>8. signed_info(t)[1] = alg
    BY <2>6 DEF signed_info
  <2>9. XmlVerifies(d)
    BY <2>5, <2>7, <2>8 DEF XmlVerifies
  <2>10. d.template.manifest = VsRefs(d.template.alg, VsFrame(f)[1], VsFrame(f)[2], VsixContent(f))
    BY <2>1, <2>5, <2>6, VsPlanIs
  <2> QED
    BY <1>1, <2>1, <2>9, <2>10 DEF SplitHolds
<1>2. CASE f.fmt \in {"nuget", "appinstaller"}
  <2> DEFINE x == SplitContent(f, alg)
             a == SplitAttrs(f, alg, signer, now)
             att == f.fmt = "nuget"
             oid == IF f.fmt = "nuget" THEN "cms" ELSE "ms"
             none == <<>>
             U(c) == IF answer = "none" THEN {c} ELSE timestamp_pkcs7(c, oid, answer, "sha256")
  <2>1. SplitDocument(f, alg, signer, value, answer, now) =
            UNION {U(c) : c \in create_pkcs7_with_signature(x, att, alg, signer, none, a, value)}
    BY <1>2 DEF SplitDocument
  <2>2. x = SplitSigns(f.fmt, Content(f), alg) /\ a.messageDigest = Hash(alg, x)
        /\ value = RsaSign(signer, signed_attrs_digest(alg, a))
    BY <1>2, SplitAttrsAre
  <2>3. none = <<>>
    OBVIOUS
  <2> HIDE DEF x, a, att, oid, none, U
  <2>4. PICK c \in create_pkcs7_with_signature(x, att, alg, signer, none, a, value) : d \in U(c)
    BY <2>1
  <2>5. /\ IsCms(c) /\ c.content = (IF att THEN <<x>> ELSE <<>>)
        /\ c.alg = alg /\ c.sid = signer /\ c.attrs = a
        /\ c.sigval = value
        /\ c.certs = ToSet(<<signer>> \o none)
    <3>1. c \in create_pkcs7_with_signature(x, att, alg, signer, none, a, value)
      BY <2>4
    <3> QED
      BY <3>1, Assembled
  <2>6. signer \in ToSet(<<signer>> \o none)
    <3>1. IsSeq(none) /\ IsSeq(<<signer>>)
      BY <2>3, Empty, Single
    <3> QED
      BY <3>1, Joined, Single
  <2>7. alg = "sha256" => verify_detached(c, x)
    BY <2>2, <2>5, <2>6 DEF verify_detached, rsa_sha256_verifies, signature_verifies
  <2>8. SameDocument(d, c)
    <3>1. CASE answer = "none"
      BY <2>4, <3>1 DEF U, SameDocument
    <3>2. CASE answer # "none"
      BY <2>4, <2>5, <3>2, Stamped DEF U
    <3> QED
      BY <3>1, <3>2
  <2>9. d.alg = alg /\ (alg = "sha256" => verify_detached(d, x))
    BY <2>5, <2>7, <2>8, SameSaid DEF SameDocument
  <2> QED
    BY <1>2, <2>2, <2>9 DEF SplitHolds
<1> QED
  BY <1>1, <1>2

(* A document that holds for the content a package has verifies in it.        *)
LEMMA EmbedHolds ==
    ASSUME NEW f, NEW S, FileInv(f, S), Proper(f), f.fmt \in {"nuget", "vsix"}, NEW c, NEW o,
           NEW g \in SplitEmbed(f, c, o), g.fmt = f.fmt
    PROVE  /\ Proper(g) /\ SameFrame(f, g)
           /\ SplitHolds(f.fmt, Frame(f), c, Content(f)) /\ (f.fmt = "nuget" => c.alg = "sha256") => Verify(g)
<1>1. CASE f.fmt = "nuget"
  <2>1. PICK e \in nuget_embed(f.parts, c, o) : g = [f EXCEPT !.parts = e]
    <3>1. SplitEmbed(f, c, o) = {[f EXCEPT !.parts = e] : e \in nuget_embed(f.parts, c, o)}
      BY <1>1 DEF SplitEmbed
    <3> QED
      BY <3>1, Zenon
  <2>2. PICK x : x = canonical_unsigned_package(f.parts)
    OBVIOUS
  <2>3. Canonical(x) /\ f = NuFile(f.parts) /\ Content(f) = x
    BY <1>1, <2>2, CanonicalPackage DEF FileInv, NuInv, NuShape, Content, NuGetContent
  <2>4. PICK s : s = f.parts
    OBVIOUS
  <2>5. e \in nuget_embed(s, c, o) /\ canonical_unsigned_package(s) = x
    BY <2>1, <2>2, <2>4
  <2>6. e = x \o <<Part("signature", <<"p7s", c>>)>>
    BY <2>3, <2>5, NuWritten
  <2>7. g = NuFile(e)
    BY <2>1, <2>3, NuUpdate
  <2>8. g.parts = x \o <<Part("signature", <<"p7s", c>>)>>
    BY <2>6, <2>7, NuFields
  <2>9. verify_nuget(g) <=> verify_detached(c, signature_content(x, c.alg))
    BY <2>3, <2>8, NuReads
  <2>10. SplitHolds(f.fmt, Frame(f), c, Content(f)) /\ c.alg = "sha256" => verify_detached(c, signature_content(x, c.alg))
    BY <1>1, <2>3 DEF SplitHolds, SplitSigns
  <2> QED
    BY <1>1, <2>9, <2>10 DEF Verify, Proper, SameFrame
<1>2. CASE f.fmt = "vsix"
  <2>1. g \in vsix_embed(f, c, o)
    BY <1>2 DEF SplitEmbed
  <2>2. VsOrdered(f) /\ Content(f) = VsixContent(f) /\ Frame(f) = VsFrame(f)
    BY <1>2 DEF FileInv, VsInv, Proper, VsOrdered, Content, Frame
  <2>3. /\ InOrder(g) /\ VsFrame(g) = VsFrame(f)
        /\ XmlVerifies(c) /\ c.template.manifest = VsRefsOf(f, c.template.alg) => verify_vsix(g)
    BY <2>1, <2>2, VsReads
  <2>4. ASSUME SplitHolds(f.fmt, Frame(f), c, Content(f)) PROVE verify_vsix(g)
    <3>1. XmlVerifies(c) /\ c.template.manifest = VsRefs(c.template.alg, VsFrame(f)[1], VsFrame(f)[2], VsixContent(f))
      BY <1>2, <2>2, <2>4 DEF SplitHolds
    <3>2. PICK a : a = c.template.alg
      OBVIOUS
    <3>3. VsRefsOf(f, a) = VsRefs(a, VsFrame(f)[1], VsFrame(f)[2], VsixContent(f))
      BY <2>2, VsPlanIs
    <3> QED
      BY <2>3, <3>1, <3>2, <3>3
  <2> QED
    BY <1>2, <2>3, <2>4 DEF Verify, Proper, SameFrame
<1> QED
  BY <1>1, <1>2

(* What a split signing left on disk is over the content it says: the digest  *)
(* the remote signer is given, the value it gives, and a document that was    *)
(* put together while the package had that content all along.                 *)
SplitInv(f, s) ==
    f.fmt \in SplitFormats =>
        /\ s.st = "hashed" =>
              \E x : /\ s.contents = {x} /\ s.signer = SplitMaterial.key
                     /\ s.digest = SplitAsks(f.fmt, Frame(f), s.alg, s.signer, x)
        /\ s.st = "signed" =>
              \E x : /\ s.contents = {x}
                     /\ s.value = RsaSign(s.signer, SplitAsks(f.fmt, Frame(f), s.alg, s.signer, x))
        /\ s.st = "document" =>
              \A x : s.contents = {x} => SplitHolds(f.fmt, Frame(f), s.doc, x)

(* The inductive invariant of what is signed.                                 *)
WInv == Proper(file) /\ SplitInv(file, session) /\ SignedVerifies

LEMMA SplitMoved ==
    ASSUME NEW f, NEW s, SplitInv(f, s), NEW g, g.fmt = f.fmt, SameFrame(f, g)
    PROVE  SplitInv(g, s)
<1>1. Frame(g) = Frame(f)
  BY DEF Frame, SameFrame
<1>2. PICK m, r : m = f.fmt /\ r = Frame(f)
  OBVIOUS
<1> QED
  BY <1>1, <1>2 DEF SplitInv

(* A command that leaves the session alone.                                   *)
LEMMA FileOnlyHolds ==
    ASSUME WInv, Proper(file'), SameFrame(file, file'), file'.fmt = file.fmt, session' = session,
           SignedVerifies'
    PROVE  WInv'
<1>1. SplitInv(file, session)
  BY DEF WInv
<1>2. SplitInv(file', session)
  BY <1>1, SplitMoved
<1> QED
  BY <1>2 DEF WInv

LEMMA SameFrameSame == \A f : SameFrame(f, f)
BY DEF SameFrame

LEMMA SignTrue ==
    ASSUME IInv, WInv, NEW req \in Requests, Sign(req)
    PROVE  WInv'
<1>1. PICK R : R = PortableSign(file, req, clock)
  OBVIOUS
<1>2. PICK due : due = (Answered(req) /\ Signable(file, req))
  OBVIOUS
<1>3. /\ session' = session /\ file' \in IF R = {} THEN {file} ELSE R
      /\ last'.op = "sign" /\ (last'.due <=> due) /\ (last'.ok <=> R # {})
  BY <1>1, <1>2 DEF Sign, Write
<1>4. FileInv(file, sealed) /\ Proper(file)
  BY DEF IInv, WInv
<1>5. due => R # {} /\ \A g \in R : Verify(g)
  BY <1>1, <1>2, <1>4, SignHolds
<1>6. SignedVerifies'
  BY <1>3, <1>5 DEF SignedVerifies
<1>7. Proper(file') /\ SameFrame(file, file') /\ file'.fmt = file.fmt
  <2>1. CASE R = {}
    BY <1>3, <1>4, <2>1, SameFrameSame
  <2>2. CASE R # {}
    <3>1. file' \in PortableSign(file, req, clock)
      BY <1>1, <1>3, <2>2
    <3> QED
      BY <1>4, <3>1, SignKept, FileSigned
  <2> QED
    BY <2>1, <2>2
<1> QED
  BY <1>3, <1>6, <1>7, FileOnlyHolds

LEMMA EmbedTrue ==
    ASSUME IInv, WInv, NEW overwrite, Embed(overwrite)
    PROVE  WInv'
<1>1. PICK R : R = SplitEmbed(file, session.doc, overwrite)
  OBVIOUS
<1>2. PICK due : due = (session.contents = {Content(file)} /\ (file.fmt = "nuget" => Accepted(file, session.doc.alg)))
  OBVIOUS
<1>3. /\ session' = session /\ file' \in IF R = {} THEN {file} ELSE R
      /\ last'.op = "embed" /\ (last'.due <=> due) /\ (last'.ok <=> R # {})
      /\ file.fmt \in {"nuget", "vsix"} /\ session.st = "document"
  BY <1>1, <1>2 DEF Embed, Write
<1>4. FileInv(file, sealed) /\ Proper(file) /\ DocumentInv(file.fmt, session, sealed)
  BY <1>3 DEF IInv, WInv, SessionInv
<1>5. /\ due => SplitHolds(file.fmt, Frame(file), session.doc, Content(file))
      /\ due => (file.fmt = "nuget" => session.doc.alg = "sha256")
  <2>1. due => SplitHolds(file.fmt, Frame(file), session.doc, Content(file))
    BY <1>2, <1>3 DEF WInv, SplitInv, SplitFormats
  <2>2. due => (file.fmt = "nuget" => session.doc.alg = "sha256")
    BY <1>2, Readable
  <2> QED
    BY <2>1, <2>2
<1>6. ASSUME NEW g \in R
      PROVE  Proper(g) /\ SameFrame(file, g) /\ g.fmt = file.fmt /\ (due => Verify(g))
  <2>1. g \in SplitEmbed(file, session.doc, overwrite)
    BY <1>1, <1>6
  <2>2. g.fmt = file.fmt
    BY <1>3, <1>4, <2>1, FileEmbedded DEF DocumentInv
  <2> QED
    BY <1>3, <1>4, <1>5, <2>1, <2>2, EmbedHolds
<1>7. SignedVerifies'
  BY <1>3, <1>6 DEF SignedVerifies
<1>8. Proper(file') /\ SameFrame(file, file') /\ file'.fmt = file.fmt
  BY <1>3, <1>4, <1>6, SameFrameSame
<1> QED
  BY <1>3, <1>7, <1>8, FileOnlyHolds

LEMMA ClickOnceTrue ==
    ASSUME IInv, WInv, ClickOnceFromSignature
    PROVE  WInv'
<1>1. PICK info, alg, v, c : /\ info = clickonce_signed_info(unsigned_clickonce_manifest(file.data), alg)
                             /\ alg = session.alg /\ v = session.value /\ c = session.signer
  OBVIOUS
<1>2. PICK R : R = ClickOnceWith(file, info, v, c)
  OBVIOUS
<1>3. PICK due : due = (session.contents = {Content(file)})
  OBVIOUS
<1>4. /\ session' = session /\ file' \in IF R = {} THEN {file} ELSE R
      /\ last'.op = "embed" /\ (last'.due <=> due) /\ (last'.ok <=> R # {})
      /\ file.fmt = "clickonce" /\ session.st = "signed"
  BY <1>1, <1>2, <1>3 DEF ClickOnceFromSignature, Write
<1>5. CoInv(file, sealed) /\ Close \in ToSet(file.data) /\ CoTold(v[2]) \in sealed
  <2>1. FileInv(file, sealed) /\ Proper(file) /\ SignedInv(file.fmt, session, sealed)
    BY <1>4 DEF IInv, WInv, SessionInv
  <2> QED
    BY <1>1, <1>4, <2>1 DEF FileInv, Proper, SignedInv, Told
<1>6. due => v = RsaSign(c, Hash(alg, info))
  <2>1. PICK x : session.contents = {x} /\ v = RsaSign(c, SplitAsks(file.fmt, Frame(file), alg, c, x))
    BY <1>1, <1>4 DEF WInv, SplitInv, SplitFormats
  <2>2. due => x = unsigned_clickonce_manifest(file.data)
    BY <1>3, <1>4, <2>1 DEF Content
  <2>3. SplitAsks(file.fmt, Frame(file), alg, c, x) = Hash(alg, clickonce_signed_info(x, alg))
    BY <1>4 DEF SplitAsks
  <2> QED
    BY <1>1, <2>1, <2>2, <2>3
<1>7. ASSUME NEW g \in R
      PROVE  Proper(g) /\ SameFrame(file, g) /\ g.fmt = file.fmt /\ (due => Verify(g))
  <2>1. g \in ClickOnceWith(file, info, v, c)
    BY <1>2, <1>7
  <2>2. CoInv(g, sealed)
    BY <1>5, <2>1, CoWith
  <2>3. g.fmt = "clickonce"
    BY <2>2, FormatOf
  <2>4. Close \in ToSet(g.data)
    BY <1>5, <2>1, CoKept
  <2>5. due => verify_clickonce(g)
    BY <1>1, <1>5, <1>6, <2>1, CoReads
  <2> QED
    BY <1>4, <2>3, <2>4, <2>5 DEF Proper, SameFrame, Verify
<1>8. SignedVerifies'
  BY <1>4, <1>7 DEF SignedVerifies
<1>9. Proper(file') /\ SameFrame(file, file') /\ file'.fmt = file.fmt
  BY <1>4, <1>7, SameFrameSame DEF WInv
<1> QED
  BY <1>4, <1>8, <1>9, FileOnlyHolds

LEMMA AppInstallerTrue ==
    ASSUME IInv, WInv, NEW answer, AppInstallerFromSignature(answer)
    PROVE  WInv'
<1>1. PICK alg, v, c : alg = session.alg /\ v = session.value /\ c = session.signer
  OBVIOUS
<1>2. PICK D : D = SplitDocument(file, alg, c, v, answer, clock)
  OBVIOUS
<1>3. PICK R : R = {[file EXCEPT !.companion = <<d>>] : d \in D}
  OBVIOUS
<1>4. PICK due : due = (session.contents = {Content(file)} /\ Accepted(file, alg))
  OBVIOUS
<1>5. /\ session' = session /\ file' \in IF R = {} THEN {file} ELSE R
      /\ last'.op = "embed" /\ (last'.due <=> due) /\ (last'.ok <=> R # {})
      /\ file.fmt = "appinstaller" /\ session.st = "signed"
  BY <1>1, <1>2, <1>3, <1>4 DEF AppInstallerFromSignature, Write
<1>12. due => alg = "sha256"
  BY <1>4, <1>5, Readable
<1>6. FileInv(file, sealed) /\ Proper(file) /\ AppInv(file, sealed)
  BY <1>5 DEF IInv, WInv, FileInv
<1>7. due => v = RsaSign(c, SplitAsks(file.fmt, Frame(file), alg, c, Content(file)))
  <2>1. PICK x : session.contents = {x} /\ v = RsaSign(c, SplitAsks(file.fmt, Frame(file), alg, c, x))
    BY <1>1, <1>5 DEF WInv, SplitInv, SplitFormats
  <2>2. due => x = Content(file)
    BY <1>4, <2>1
  <2> QED
    BY <2>1, <2>2
<1>8. ASSUME NEW g \in R
      PROVE  g.fmt = "appinstaller" /\ (due => verify_appinstaller(g))
  <2>1. PICK d \in D : g = [file EXCEPT !.companion = <<d>>]
    BY <1>3, <1>8
  <2>2. PICK s : s = <<d>>
    OBVIOUS
  <2>3. g = [file EXCEPT !.companion = s]
    BY <2>1, <2>2
  <2>4. g = AppFile(file.data, s)
    BY <1>6, <2>3, AppUpdate DEF AppInv
  <2>5. g.fmt = "appinstaller" /\ g.data = file.data /\ g.companion = s
    BY <2>4, AppFields
  <2>6. due => verify_detached(d, <<"data", file.data>>)
    <3> SUFFICES ASSUME due PROVE verify_detached(d, <<"data", file.data>>)
      OBVIOUS
    <3>1. d \in SplitDocument(file, alg, c, v, answer, clock)
      BY <1>2, <2>1
    <3>2. SplitHolds(file.fmt, Frame(file), d, Content(file)) /\ d.alg = "sha256"
      BY <1>12, <1>5, <1>6, <1>7, <3>1, DocumentAround
    <3>3. Content(file) = file.data
      BY <1>5 DEF Content
    <3> QED
      BY <1>5, <3>2, <3>3 DEF SplitHolds, SplitSigns
  <2>7. g.companion # <<>> /\ g.companion[1] = d
    BY <2>2, <2>5, Single
  <2>8. due => verify_appinstaller(g)
    BY <2>5, <2>6, <2>7 DEF verify_appinstaller
  <2> QED
    BY <2>5, <2>8
<1>9. \A g \in R : Proper(g) /\ SameFrame(file, g) /\ g.fmt = file.fmt /\ (due => Verify(g))
  BY <1>5, <1>8 DEF Proper, SameFrame, Verify
<1>10. SignedVerifies'
  BY <1>5, <1>9 DEF SignedVerifies
<1>11. Proper(file') /\ SameFrame(file, file') /\ file'.fmt = file.fmt
  BY <1>5, <1>6, <1>9, SameFrameSame
<1> QED
  BY <1>5, <1>10, <1>11, FileOnlyHolds

(* A command that leaves something beside the file.                           *)
LEMMA SessionOnlyHolds ==
    ASSUME WInv, NEW STATE s, Leave(s), SplitInv(file, s)
    PROVE  WInv'
<1>1. session' = s /\ file' = file /\ last'.op = "none"
  BY DEF Leave, NoCommand
<1>2. SignedVerifies'
  BY <1>1 DEF SignedVerifies
<1>3. SplitInv(file', session')
  BY <1>1
<1> QED
  BY <1>1, <1>2, <1>3 DEF WInv

LEMMA ExtractTrue ==
    ASSUME WInv, NEW index, ExtractPePkcs7(index)
    PROVE  WInv'
<1> DEFINE s == [st |-> "document", doc |-> pe_pkcs7(file)[index]]
<1>1. file.fmt = "pe" /\ Leave(s)
  BY DEF ExtractPePkcs7
<1> HIDE DEF s
<1>2. SplitInv(file, s)
  BY <1>1 DEF SplitInv, SplitFormats
<1> QED
  BY <1>1, <1>2, SessionOnlyHolds

LEMMA PrehashTrue ==
    ASSUME IInv, WInv, NEW alg, Prehash(alg)
    PROVE  WInv'
<1>1. PICK signer \in SplitSigner : \E d \in SplitPrehash(file, alg, signer, clock) :
          Leave([st |-> "hashed", alg |-> alg, signer |-> signer, digest |-> d,
                 contents |-> {Content(file)}])
  BY DEF Prehash
<1>2. PICK d \in SplitPrehash(file, alg, signer, clock) :
          Leave([st |-> "hashed", alg |-> alg, signer |-> signer, digest |-> d,
                 contents |-> {Content(file)}])
  BY <1>1
<1>3. file.fmt \in SplitFormats /\ FileInv(file, sealed) /\ Proper(file)
  BY DEF Prehash, IInv, WInv
<1>4. d = SplitAsks(file.fmt, Frame(file), alg, signer, Content(file))
  BY <1>2, <1>3, PrehashAsks
<1>5. signer = SplitMaterial.key
  BY SplitAssumption DEF SplitSigner
<1> DEFINE x == Content(file)
           X == {x}
           s == [st |-> "hashed", alg |-> alg, signer |-> signer, digest |-> d, contents |-> X]
<1>6. Leave(s)
  BY <1>2
<1> HIDE DEF x, X
<1>7. s.st = "hashed" /\ s.alg = alg /\ s.signer = signer /\ s.digest = d /\ s.contents = X
  OBVIOUS
<1> HIDE DEF s
<1>8. X = {x} /\ d = SplitAsks(file.fmt, Frame(file), alg, signer, x)
  BY <1>4 DEF X, x
<1>9. SplitInv(file, s)
  BY <1>5, <1>7, <1>8 DEF SplitInv
<1> QED
  BY <1>6, <1>9, SessionOnlyHolds

LEMMA RemoteSignTrue ==
    ASSUME WInv, RemoteSign
    PROVE  WInv'
<1>1. /\ session.st = "hashed" /\ file' = file /\ last' = last
      /\ session'.st = "signed" /\ session'.value = ProviderSign(SplitMaterial, session.digest)
      /\ session'.contents = session.contents /\ session'.alg = session.alg
      /\ session'.signer = session.signer
  BY DEF RemoteSign
<1>2. session'.value = RsaSign(SplitMaterial.key, session.digest)
  BY <1>1 DEF ProviderSign
<1>3. SplitInv(file, session')
  <2> SUFFICES ASSUME file.fmt \in SplitFormats
               PROVE  SplitInv(file, session')
    BY DEF SplitInv
  <2>1. PICK x : /\ session.contents = {x} /\ session.signer = SplitMaterial.key
                 /\ session.digest = SplitAsks(file.fmt, Frame(file), session.alg, session.signer, x)
    BY <1>1 DEF WInv, SplitInv
  <2>2. session'.value = RsaSign(session'.signer, SplitAsks(file.fmt, Frame(file), session'.alg, session'.signer, x))
    BY <1>1, <1>2, <2>1
  <2> QED
    BY <1>1, <2>1, <2>2 DEF SplitInv
<1>4. SignedVerifies'
  BY <1>1 DEF WInv, SignedVerifies
<1> QED
  BY <1>1, <1>3, <1>4 DEF WInv

LEMMA FromSignatureTrue ==
    ASSUME IInv, WInv, NEW answer, FromSignature(answer)
    PROVE  WInv'
<1>1. PICK alg, v, c : alg = session.alg /\ v = session.value /\ c = session.signer
  OBVIOUS
<1>2. session.st = "signed" /\ file.fmt \in {"nuget", "vsix"} /\ FileInv(file, sealed) /\ Proper(file)
  BY DEF FromSignature, IInv, WInv
<1>3. PICK d \in SplitDocument(file, alg, c, v, answer, clock) :
          Leave([st |-> "document", doc |-> d, contents |-> session.contents \cup {Content(file)}])
  BY <1>1 DEF FromSignature
<1>4. PICK x : session.contents = {x} /\ v = RsaSign(c, SplitAsks(file.fmt, Frame(file), alg, c, x))
  BY <1>1, <1>2 DEF WInv, SplitInv, SplitFormats
<1> DEFINE X == session.contents \cup {Content(file)}
           s == [st |-> "document", doc |-> d, contents |-> X]
<1>5. Leave(s)
  BY <1>3
<1>6. \A y : X = {y} => y = Content(file) /\ x = y
  BY <1>4
<1> HIDE DEF X
<1>7. s.st = "document" /\ s.doc = d /\ s.contents = X
  OBVIOUS
<1> HIDE DEF s
<1>8. ASSUME NEW y, s.contents = {y} PROVE SplitHolds(file.fmt, Frame(file), s.doc, y)
  <2>1. y = Content(file) /\ x = Content(file)
    BY <1>6, <1>7, <1>8
  <2>2. v = RsaSign(c, SplitAsks(file.fmt, Frame(file), alg, c, Content(file)))
    BY <1>4, <2>1
  <2>3. SplitHolds(file.fmt, Frame(file), d, Content(file))
    BY <1>2, <1>3, <2>2, DocumentAround
  <2> QED
    BY <1>7, <2>1, <2>3
<1>9. SplitInv(file, s)
  BY <1>7, <1>8 DEF SplitInv
<1> QED
  BY <1>5, <1>9, SessionOnlyHolds

LEMMA StampTrue ==
    ASSUME IInv, WInv, NEW index, NEW answer, TimestampPe(index, answer)
    PROVE  WInv'
<1>1. /\ session' = session /\ last'.op = "stamp" /\ file.fmt = "pe" /\ PeInv(file, sealed)
      /\ file' = file \/ file' \in timestamp_pe(file, index, answer)
  BY DEF TimestampPe, Write, IInv, FileInv
<1>2. PeInv(file', sealed)
  BY <1>1, PeStamped
<1>3. file'.fmt = "pe"
  BY <1>2, FormatOf
<1>4. Proper(file') /\ SameFrame(file, file') /\ SignedVerifies'
  BY <1>1, <1>3 DEF Proper, SameFrame, SignedVerifies
<1> QED
  BY <1>1, <1>3, <1>4, FileOnlyHolds

LEMMA AppendTrue ==
    ASSUME IInv, WInv, AppendPePkcs7
    PROVE  WInv'
<1>1. /\ session' = session /\ last'.op = "append" /\ file.fmt = "pe" /\ PeInv(file, sealed)
      /\ (file' = file \/ file' \in pe_append(file, session.doc)) /\ session.st = "document"
  BY DEF AppendPePkcs7, Write, IInv, FileInv
<1>2. PeVouched(session.doc, sealed)
  BY <1>1 DEF AppendPePkcs7, IInv, SessionInv, DocumentInv
<1>3. PeInv(file', sealed)
  BY <1>1, <1>2, PeAppended
<1>4. file'.fmt = "pe"
  BY <1>3, FormatOf
<1>5. Proper(file') /\ SameFrame(file, file') /\ SignedVerifies'
  BY <1>1, <1>4 DEF Proper, SameFrame, SignedVerifies
<1> QED
  BY <1>1, <1>4, <1>5, FileOnlyHolds

LEMMA ClearTrue ==
    ASSUME IInv, WInv, ClearSignature
    PROVE  WInv'
<1>1. /\ session' = session /\ last'.op = "clear" /\ file.fmt \in {"pe", "script"}
      /\ file' = file \/ file' \in portable_clear_signature(file)
      /\ FileInv(file, sealed) /\ Proper(file)
  BY DEF ClearSignature, Write, IInv, WInv
<1>2. file'.fmt = file.fmt /\ Proper(file')
  <2>1. CASE file' = file
    BY <1>1, <2>1
  <2>2. CASE file' # file /\ file.fmt = "pe"
    <3>1. PeInv(file, sealed) /\ file' \in pe_remove(file)
      BY <1>1, <2>2 DEF portable_clear_signature, FileInv
    <3>2. PeInv(file', sealed)
      BY <3>1, PeRemoved
    <3>3. file'.fmt = "pe"
      BY <3>2, FormatOf
    <3> QED
      BY <2>2, <3>3 DEF Proper
  <2>3. CASE file' # file /\ file.fmt = "script"
    <3>1. ScInv(file, sealed) /\ file' \in remove_script_signature_block(file)
      BY <1>1, <2>3 DEF portable_clear_signature, FileInv
    <3>2. ScInv(file', sealed) /\ file = ScFile(file.enc, file.data)
      BY <3>1, ScRemoved DEF ScInv, ScShape
    <3>3. file'.fmt = "script" /\ file'.enc = file.enc
      BY <3>1, <3>2, FormatOf, ScriptKept
    <3> QED
      BY <1>1, <2>3, <3>3 DEF Proper
  <2> QED
    BY <1>1, <2>1, <2>2, <2>3
<1>3. SameFrame(file, file') /\ SignedVerifies'
  BY <1>1 DEF SameFrame, SignedVerifies
<1> QED
  BY <1>1, <1>2, <1>3, FileOnlyHolds

LEMMA EditTrue ==
    ASSUME IInv, WInv, Edit
    PROVE  WInv'
<1>1. /\ session' = session /\ last'.op = "none" /\ file' \in Edited(file)
      /\ FileInv(file, sealed) /\ Proper(file)
  BY DEF Edit, NoCommand, IInv, WInv
<1>2. Proper(file') /\ SameFrame(file, file') /\ file'.fmt = file.fmt
  BY <1>1, EditKept, FileEdited
<1>3. SignedVerifies'
  BY <1>1 DEF SignedVerifies
<1> QED
  BY <1>1, <1>2, <1>3, FileOnlyHolds

LEMMA PublisherTrue ==
    ASSUME IInv, WInv, NEW publisher, SetPublisher(publisher)
    PROVE  WInv'
<1>1. /\ session' = session /\ last'.op = "publisher" /\ file.fmt = "msix"
      /\ MsixInv(file, sealed) /\ InOrder(file)
      /\ file' = file \/ file' \in set_msix_manifest_publisher(file, publisher)
  BY DEF SetPublisher, Write, IInv, WInv, FileInv, Proper
<1>2. MsixInv(file', sealed) /\ InOrder(file')
  BY <1>1, MsixPublished, MsixPublisherKept
<1>3. file'.fmt = "msix"
  BY <1>2, FormatOf
<1>4. Proper(file') /\ SameFrame(file, file') /\ SignedVerifies'
  BY <1>1, <1>2, <1>3 DEF Proper, SameFrame, SignedVerifies
<1> QED
  BY <1>1, <1>3, <1>4, FileOnlyHolds

LEMMA TickTrue ==
    ASSUME WInv, file' = file, session' = session, last' = last
    PROVE  WInv'
BY DEF WInv, SignedVerifies

LEMMA NextTrue ==
    ASSUME IInv, WInv, [Next]_vars
    PROVE  WInv'
<1>1. ASSUME NEW req \in Requests, Sign(req) PROVE WInv'
  BY <1>1, SignTrue
<1>2. ASSUME NEW index \in 1..2, NEW answer \in {"granted", "refused"}, TimestampPe(index, answer)
      PROVE  WInv'
  BY <1>2, StampTrue
<1>3. CASE ClearSignature
  BY <1>3, ClearTrue
<1>4. ASSUME NEW index \in 1..2, ExtractPePkcs7(index) PROVE WInv'
  BY <1>4, ExtractTrue
<1>5. CASE AppendPePkcs7
  BY <1>5, AppendTrue
<1>6. ASSUME NEW alg \in {"sha256", "sha384"}, Prehash(alg) PROVE WInv'
  BY <1>6, PrehashTrue
<1>7. CASE RemoteSign
  BY <1>7, RemoteSignTrue
<1>8. ASSUME NEW answer \in {"none", "granted"}, FromSignature(answer) PROVE WInv'
  BY <1>8, FromSignatureTrue
<1>9. ASSUME NEW overwrite \in BOOLEAN, Embed(overwrite) PROVE WInv'
  BY <1>9, EmbedTrue
<1>10. CASE ClickOnceFromSignature
  BY <1>10, ClickOnceTrue
<1>11. ASSUME NEW answer \in {"none", "granted"}, AppInstallerFromSignature(answer) PROVE WInv'
  BY <1>11, AppInstallerTrue
<1>12. CASE Edit
  BY <1>12, EditTrue
<1>13. ASSUME NEW publisher \in Values, SetPublisher(publisher) PROVE WInv'
  BY <1>13, PublisherTrue
<1>14. CASE Tick
  <2>1. file' = file /\ session' = session /\ last' = last
    BY <1>14 DEF Tick
  <2> QED
    BY <2>1, TickTrue
<1>15. CASE UNCHANGED vars
  <2>1. file' = file /\ session' = session /\ last' = last
    BY <1>15 DEF vars
  <2> QED
    BY <2>1, TickTrue
<1> QED
  BY <1>1, <1>2, <1>3, <1>4, <1>5, <1>6, <1>7, <1>8, <1>9, <1>10, <1>11, <1>12, <1>13, <1>14, <1>15
     DEF Next

(* What is signed verifies: whatever was done to the file before, a file that *)
(* may be signed is signed, and its signature holds; and a split signing all  *)
(* of whose commands find the same content gives a signature that holds,      *)
(* whatever happened in between, the file being edited and edited back        *)
(* included (the sign_* and verify_* functions and the split commands).  The  *)
(* assumption leaves out UTF-16LE scripts, whose signatures never verify.     *)
THEOREM WhatIsSigned ==
    ASSUME \A f \in Files : f.fmt = "script" => f.enc # "utf16le"
    PROVE  Spec => []SignedVerifies
<1>1. Init => WInv
  <2> SUFFICES ASSUME Init PROVE WInv
    OBVIOUS
  <2>1. file \in Files /\ session.st = "none" /\ last.op = "none"
    BY DEF Init, NoSession, NoCommand
  <2>2. Proper(file)
    BY <2>1, OrderedAtFirst
  <2> QED
    BY <2>1, <2>2 DEF WInv, SplitInv, SignedVerifies
<1>2. IInv /\ WInv /\ [Next]_vars => WInv'
  BY NextTrue
<1>3. WInv => SignedVerifies
  BY DEF WInv
<1> QED
  BY <1>1, <1>2, <1>3, Sealed, PTL DEF Spec
=============================================================================
