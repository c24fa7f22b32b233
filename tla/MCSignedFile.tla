----------------------------- MODULE MCSignedFile -----------------------------
(* One small file of every format, three certificates and a handful of          *)
(* requests for SignedFile.                                                   *)
EXTENDS SignedFile

CONSTANTS leaf, ca, other

MCX509 ==
    leaf :> [subject |-> "leaf", issuer |-> "ca", ca |-> FALSE, code |-> TRUE] @@
    ca :> [subject |-> "ca", issuer |-> "ca", ca |-> TRUE, code |-> TRUE] @@
    other :> [subject |-> "other", issuer |-> "ca", ca |-> FALSE, code |-> TRUE]

Material(given, form, layers, bag, chain) ==
    [given |-> {given}, form |-> form, layers |-> layers, bag |-> bag, chain |-> chain,
     key |-> leaf]

Der == Material("pfx", "der", 0, {leaf, ca}, <<>>)
Bag == Material("artifact", "pkcs7", 1, {leaf, ca}, <<>>)
Vault == Material("vault", "der", 0, {leaf}, <<ca>>)
TwoLeaves == Material("artifact", "pem", 0, {leaf, other, ca}, <<>>)

(* The service returns a certificate that the request names as well; the      *)
(* certificate file is not of the key; a vault and a key file at once.        *)
Doubled == Material("artifact", "pkcs7", 0, {leaf, ca}, <<ca>>)
Mistaken == Material("files", "der", 0, {other}, <<>>)
Both == [Vault EXCEPT !.given = {"vault", "files"}]

Request(alg, append, skip, tsa, material) ==
    [alg |-> alg, append |-> append, skip |-> skip, tsa |-> tsa, material |-> material]

MCRequests ==
    {Request("sha256", FALSE, FALSE, "none", Der),
     Request("sha256", TRUE, FALSE, "granted", Bag),
     Request("sha384", FALSE, FALSE, "none", Vault),
     Request("sha384", TRUE, FALSE, "refused", Der),
     Request("sha256", FALSE, TRUE, "none", Bag)} \cup
    {Request("sha256", FALSE, FALSE, "none", m) : m \in {TwoLeaves, Doubled, Mistaken, Both}}

Code(x) == Cell("code", x)
Data(x) == <<"data", x, "raw">>

(* An image whose length is not a multiple of the alignment.                  *)
Pe == [fmt |-> "pe", hdr |-> "mz", ptr |-> 0, size |-> 0, data |-> <<Code("a"), Code("b"), Code("a")>>]
Cab == [fmt |-> "cab", hdr |-> "mscf", cb |-> 4, coffFiles |-> 2, coffCabStart |-> 3,
        reserve |-> FALSE, sigpos |-> 0, siglen |-> 0, data |-> <<Code("a"), Code("b")>>]
Msi == [fmt |-> "msi", meta |-> "clsid", streams |-> <<<<"a">>, <<"b">>, <<"a">>>>,
        ex |-> <<>>, sig |-> <<>>]
Script(enc) == [fmt |-> "script", enc |-> enc, data |-> <<Code("a"), Crlf, Code("b")>>]
Archive == [fmt |-> "zip", data |-> <<Code("a"), Code("b")>>, comment |-> <<>>]

FlatMsix ==
    [fmt |-> "msix", ext |-> "msix", gap |-> TRUE,
     parts |-> <<Part("types", <<"types", {"payload"}>>), Part("payload", Data("a")),
                 Part("dir", <<"dir">>), Part("manifest", Data("p")),
                 Part("codeIntegrity", Data("c"))>>]
SignedMsix == CHOOSE f \in sign_msix(FlatMsix, Request("sha256", FALSE, FALSE, "none", Der)) : TRUE
Bundle(child) ==
    [fmt |-> "msix", ext |-> "msixbundle", gap |-> FALSE,
     parts |-> <<Part("bundleManifest", Data("p")), Part("child", <<"pkg", child>>),
                 Part("manifest", Data("p"))>>]

NuGet ==
    [fmt |-> "nuget",
     parts |-> <<Part("nuspec", Data("n")), Part("payload", Data("a"))>>]
Vsix ==
    [fmt |-> "vsix",
     parts |-> <<Part("payload", Data("a")), Part("types", <<"types", {<<"bin", "octets">>}>>)>>]
ClickOnce == [fmt |-> "clickonce", data |-> <<Code("a"), Code("b"), Close>>]
AppInstaller == [fmt |-> "appinstaller", data |-> <<Code("a"), Code("b")>>, companion |-> <<>>]

MCFiles ==
    {Pe, Cab, Msi, Script("utf8"), Script("utf16be"), Archive, FlatMsix, Bundle(SignedMsix),
     Bundle(FlatMsix), NuGet, Vsix, ClickOnce, AppInstaller}

(* Scripts saved as UTF-16LE with a byte order mark.                          *)
MCUtf16Files == {Script("utf16le")}
=============================================================================
