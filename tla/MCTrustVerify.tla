---------------------------- MODULE MCTrustVerify ----------------------------
(* A small public key infrastructure: a root of the program, an authority     *)
(* under it with a short-lived signer, a timestamp authority under another    *)
(* root, a namesake of the authority with another key, a self-issued signer,  *)
(* and a pinned root with two Artifact Signing profiles.                      *)
EXTENDS TrustVerify

CONSTANTS t1, root, kept, ca, namesake, leaf, tsa, self, ms, public, private

Cert(s, i, k, g, to, ekus, aia) ==
    [subject |-> s, issuer |-> i, key |-> k, signer |-> g, notBefore |-> 0, notAfter |-> to,
     ekus |-> ekus, aia |-> aia, ocsp |-> FALSE, crl |-> "url", revocable |-> FALSE,
     ids |-> {}]

Profile(k, c) == [c EXCEPT !.ids = {[kind |-> k, publisher |-> 7]}, !.ekus = @ \cup {"marker"}]

MCCerts == {root, kept, ca, namesake, leaf, tsa, self, ms, public, private}

MCX509 ==
    root :> Cert("R", "R", 1, 1, 9, {}, <<>>)
    @@ kept :> Cert("K", "K", 2, 2, 9, {}, <<>>)
    @@ ca :> [Cert("A", "R", 3, 1, 9, {}, <<root>>) EXCEPT !.crl = "revoked"]
    @@ namesake :> Cert("A", "K", 4, 2, 9, {}, <<kept>>)
    @@ leaf :> [Cert("L", "A", 5, 3, 1, {"code"}, <<ca>>) EXCEPT !.revocable = TRUE, !.ocsp = TRUE]
    @@ tsa :> Cert("T", "K", 6, 2, 9, {"time"}, <<>>)
    @@ self :> Cert("S", "S", 7, 7, 0, {"code"}, <<>>)
    @@ ms :> Cert("M", "M", 8, 8, 9, {}, <<>>)
    @@ public :> Profile("public", Cert("P", "M", 9, 8, 1, {"code"}, <<ms>>))
    @@ private :> Profile("private", Cert("Q", "R", 10, 1, 1, {"code"}, <<root>>))

MCPinned == {ms}

MCRosters == {{t1}}

OldCab == [certs |-> <<kept>>, thumbs |-> {root}]
NewCab == [certs |-> <<>>, thumbs |-> {root}]

MCProgram == [d \in 0..MaxDay |-> IF d = 0 THEN OldCab ELSE NewCab]

Sig(c, embedded) ==
    [digestMatches |-> TRUE, parses |-> TRUE, signatureVerifies |-> TRUE, leaf |-> c,
     embedded |-> embedded, attrs |-> <<>>, signingTime |-> None]

Attr(k, t) == [known |-> k, token |-> t]

Stamp(day) == [time |-> day, imprintMatches |-> TRUE, signatureVerifies |-> TRUE,
               leaf |-> tsa, embedded |-> <<None, tsa>>]

Opt == [anchors |-> {}, additional |-> {}, cabPin |-> None, asOf |-> None, strictEku |-> TRUE,
        preferTimestamp |-> FALSE, requireTimestamp |-> FALSE, aia |-> FALSE,
        aiaOverride |-> <<>>, ocsp |-> FALSE, revocation |-> "off", artifact |-> None]

Job(format, entries, opts) == [file |-> [format |-> format, entries |-> entries], opts |-> opts]

(* Signatures with and without a timestamp, a forged one, one beside another. *)
Stamped == [Sig(leaf, <<leaf, ca>>) EXCEPT !.attrs = <<Attr(FALSE, Stamp(2)), Attr(TRUE, None), Attr(TRUE, Stamp(1))>>]
Backdated == [Sig(leaf, <<leaf, ca>>) EXCEPT
                !.attrs = <<Attr(TRUE, [Stamp(0) EXCEPT !.imprintMatches = FALSE])>>, !.signingTime = 0]

Policy(ids, roots, required) ==
    [ids |-> ids, privateRoots |-> roots, requireTimestamp |-> required]

Cached == {
    Job("pe", <<Sig(leaf, <<leaf, ca>>)>>, Opt),
    Job("pe", <<Sig(tsa, <<tsa>>)>>, [Opt EXCEPT !.cabPin = OldCab, !.strictEku = FALSE])}

Given(o) == [o EXCEPT !.anchors = {root}]

Offline == {
    Job("pe", <<>>, Given(Opt)),
    Job("pe", <<Sig(leaf, <<leaf, ca>>), [Sig(leaf, <<leaf, ca>>) EXCEPT !.digestMatches = FALSE]>>,
        Given(Opt)),
    Job("cab", <<[Sig(leaf, <<leaf, namesake, ca>>) EXCEPT !.parses = FALSE]>>, Given(Opt)),
    Job("cab", <<[Sig(leaf, <<leaf, ca>>) EXCEPT !.signatureVerifies = FALSE]>>, Given(Opt)),
    Job("cab", <<Sig(self, <<self>>)>>, [Opt EXCEPT !.anchors = {self}]),
    Job("cab", <<Sig(self, <<self>>)>>, Given(Opt)),
    Job("msi", <<Sig(leaf, <<leaf>>)>>, Given([Opt EXCEPT !.aia = TRUE])),
    Job("msi", <<Sig(leaf, <<leaf>>)>>, Given([Opt EXCEPT !.aiaOverride = <<kept>>])),
    Job("msi", <<Sig(leaf, <<leaf>>)>>, [Opt EXCEPT !.anchors = {ca}, !.asOf = 0])}

Timed == {
    Job(f, <<s>>, [Given(Opt) EXCEPT !.additional = {kept}, !.preferTimestamp = TRUE,
                                     !.requireTimestamp = r]) :
        f \in {"pe", "vsix"}, s \in {Stamped, Backdated, Sig(leaf, <<leaf, ca>>)}, r \in BOOLEAN}

Online == {
    Job("pe", <<Sig(leaf, <<leaf, ca>>)>>, [Given(Opt) EXCEPT !.revocation = m, !.ocsp = o, !.asOf = d]) :
        m \in {"bestEffort", "require"}, o \in BOOLEAN, d \in {None, 0}}
    \cup {Job("cab", <<Sig(self, <<self>>)>>, [Opt EXCEPT !.anchors = {self}, !.revocation = "require"])}

Azure == {
    Job(f, <<Sig(c, e)>>, [Opt EXCEPT !.artifact = Policy(ids, {root, ms}, FALSE), !.aia = TRUE]) :
        f \in {"msi", "vsix"}, ids \in {{}, {8}}, <<c, e>> \in {<<public, <<public>>>>, <<private, <<private>>>>}}
    \cup {Job("msi", <<Sig(leaf, <<leaf, ca>>)>>, [Opt EXCEPT !.artifact = Policy({}, {root}, TRUE)]),
          Job("msi", <<Sig(public, <<public, ms>>)>>, [Opt EXCEPT !.artifact = Policy({}, {}, TRUE)])}

MCJobs == Cached \cup Offline \cup Timed \cup Online \cup Azure
=============================================================================
