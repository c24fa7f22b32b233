----------------------------- MODULE FileFormats -----------------------------
(* Files that carry their Authenticode signature inside: PE images, cabinets, *)
(* installer packages, PowerShell scripts and signed ZIP archives.  A file is *)
(* a record of the fields its format is read by and a sequence of cells, each *)
(* one unit long: content, padding, or the start of a signature.              *)
EXTENDS Cms

CONSTANTS
    Align,          \* ATTRIBUTE_CERTIFICATE_ALIGNMENT, in cells
    MaxComment      \* MAX_ZIP_COMMENT_LEN, in cells

(* The result of a step that an unmet condition fails.                        *)
When(cond, result) == IF cond THEN {result} ELSE {}

(* The elements of s that are in T, in their order.                           *)
Only(s, T) ==
    LET left[i \in 0..Len(s)] ==
            IF i = 0 THEN <<>>
            ELSE IF s[i] \in T THEN Append(left[i - 1], s[i]) ELSE left[i - 1]
    IN left[Len(s)]

Cell(kind, x) == <<kind, x>>
OfKind(s, kind) == Only(s, {c \in ToSet(s) : c[1] = kind})
Blank(n, kind) == [i \in 1..n |-> Cell(kind, "")]

(* A signature as cells of its width.                                         *)
SignatureCells(cms) == <<Cell("cms", cms)>> \o Blank(Width(cms) - 1, "fill")
Signatures(s) == [i \in 1..Len(OfKind(s, "cms")) |-> OfKind(s, "cms")[i][2]]
Aligned(n) == n % Align = 0
Padding(n) == (Align - (n % Align)) % Align
-----------------------------------------------------------------------------
(* PE: a header of Align cells with the security directory (ptr, size), then  *)
(* the sections, whatever follows them, and the certificate table.            *)
PeLength(f) == Align + Len(f.data)
HasTable(f) == f.ptr # 0 /\ f.size # 0
Directory(f, ptr, size) == [f EXCEPT !.ptr = ptr, !.size = size]

(* Bug: the certificate is written without its padding.                       *)
BugWinCertificate(cms) == SignatureCells(cms)

wrap_win_certificate(cms) == SignatureCells(cms) \o Blank(Padding(Width(cms)), "fill")

TableAligned(f) ==
    \/ f.ptr = 0 /\ f.size = 0
    \/ HasTable(f) /\ Aligned(f.ptr) /\ Aligned(f.size)

TableInFile(f) == f.ptr + f.size <= PeLength(f)
Table(f) == SubSeq(f.data, f.ptr - Align + 1, f.ptr - Align + f.size)
BeforeTable(f) == SubSeq(f.data, 1, f.ptr - Align)
AfterTable(f) == SubSeq(f.data, f.ptr - Align + f.size + 1, Len(f.data))

(* pe_prepare_for_authenticode_signing: the padding will be hashed, so it     *)
(* comes before the digest.                                                   *)
pe_prepare(f) ==
    CASE ~TableAligned(f) -> {}
      [] TableAligned(f) /\ f.ptr # 0 -> {f}
      [] OTHER -> {[f EXCEPT !.data = @ \o Blank(Padding(PeLength(f)), "pad")]}

(* A new row after the table; what was behind the table is cut off.           *)
pe_append(f, cms) ==
    LET row == wrap_win_certificate(cms)
    IN CASE ~TableAligned(f) -> {}
         [] TableAligned(f) /\ ~HasTable(f) ->
                When(Aligned(PeLength(f)),
                     Directory([f EXCEPT !.data = @ \o row], PeLength(f), Len(row)))
         [] OTHER ->
                When(TableInFile(f),
                     Directory([f EXCEPT !.data = BeforeTable(f) \o Table(f) \o row],
                               f.ptr, f.size + Len(row)))

(* One row of the table by another, the table where it was, the rest cut off. *)
pe_replace_at(f, index, cms) ==
    LET rows == Signatures(Table(f))
        rebuilt == FlattenSeq([i \in 1..Len(rows) |->
                      wrap_win_certificate(IF i = index THEN cms ELSE rows[i])])
    IN IF ~HasTable(f) \/ ~TableInFile(f) \/ index \notin DOMAIN rows THEN {}
       ELSE {Directory([f EXCEPT !.data = BeforeTable(f) \o rebuilt], f.ptr, Len(rebuilt))}

(* Bug: the directory still points where the table was.                       *)
BugRemove(f) == IF HasTable(f) THEN {[f EXCEPT !.data = BeforeTable(f) \o AfterTable(f)]} ELSE {f}

(* pe_remove_authenticode_certificates: what is behind the table moves up.    *)
pe_remove(f) ==
    IF ~HasTable(f) THEN {f}
    ELSE When(TableInFile(f), Directory([f EXCEPT !.data = BeforeTable(f) \o AfterTable(f)], 0, 0))

(* The digest leaves out the directory and as many cells as the table has,    *)
(* from the end.                                                              *)
pe_authenticode_digest(f, alg) == Hash(alg, <<f.hdr, SubSeq(f.data, 1, Len(f.data) - f.size)>>)

(* The rows a reader of the table finds; none when the directory does not     *)
(* point at a table.                                                          *)
pe_pkcs7(f) ==
    IF HasTable(f) /\ TableInFile(f) /\ Table(f)[1][1] = "cms" THEN Signatures(Table(f)) ELSE <<>>

pe_digests_match(f) ==
    LET rows == pe_pkcs7(f)
    IN /\ TableAligned(f)
       /\ \A i \in DOMAIN rows :
            IndirectDigest(rows[i]) = pe_authenticode_digest(f, IndirectDigest(rows[i])[1])

verify_pe(f) ==
    LET rows == pe_pkcs7(f)
    IN /\ pe_digests_match(f) /\ rows # <<>>
       /\ \A i \in DOMAIN rows :
            verify_indirect(rows[i], pe_authenticode_digest(f, IndirectDigest(rows[i])[1]))

(* sign_pe: the digest is taken of the prepared image, which the certificate  *)
(* is then appended to.                                                       *)
SignPreparedPe(f, req) ==
    UNION {UNION {pe_append(f, t) : t \in maybe_timestamp_pkcs7(c, req.tsa)} :
        c \in create_authenticode_pkcs7(req.material, "pe", req.alg,
                                        pe_authenticode_digest(f, req.alg))}

sign_pe(f, req) ==
    CASE req.skip /\ ~pe_digests_match(f) -> {}
      [] req.skip /\ pe_digests_match(f) /\ pe_pkcs7(f) # <<>> -> {f}
      [] OTHER -> UNION {UNION {SignPreparedPe(p, req) : p \in pe_prepare(r)} :
                            r \in IF req.append THEN {f} ELSE pe_remove(f)}

(* timestamp_pe: one row gets a token.                                        *)
timestamp_pe(f, index, answer) ==
    IF index \notin DOMAIN pe_pkcs7(f) THEN {}
    ELSE UNION {pe_replace_at(f, index, t) : t \in timestamp_pkcs7(pe_pkcs7(f)[index], "ms", answer, "sha256")}

PeContent(f) == <<f.hdr, OfKind(f.data, "code")>>
-----------------------------------------------------------------------------
(* CAB: a header of CabHeader cells, one more when it has the reserve block   *)
(* with the extent of the signature, then the folders' data.                  *)
CabHeader == 2
CabHeaderEnd(f) == CabHeader + IF f.reserve THEN 1 ELSE 0
CabLength(f) == CabHeaderEnd(f) + Len(f.data)

(* parse_cab_context: a reserve block must point at a signature that ends the *)
(* file.                                                                      *)
parse_cab_context(f) ==
    f.reserve => /\ f.sigpos > 0 /\ f.siglen > 0
                 /\ f.sigpos < CabLength(f) /\ f.sigpos + f.siglen = CabLength(f)

(* The reserve block moves all that is behind it.                             *)
prepare_unsigned_cab(f, siglen) ==
    When(~f.reserve /\ f.cb = CabLength(f) /\ CabHeader <= f.coffFiles,
         [f EXCEPT !.reserve = TRUE, !.sigpos = CabLength(f) + 1, !.siglen = siglen,
                   !.cb = CabLength(f) + 1, !.coffFiles = @ + 1, !.coffCabStart = @ + 1])

(* The extent of the signature is not hashed: its length is not known when    *)
(* the digest for signing is taken.                                           *)
compute_cab_digest(f, alg) ==
    When(f.coffFiles = CabHeaderEnd(f),
         Hash(alg, <<f.hdr, f.cb, f.coffFiles, f.coffCabStart,
                     SubSeq(f.data, 1, f.sigpos - CabHeaderEnd(f))>>))

cab_append(f, cms) ==
    {[p EXCEPT !.data = @ \o SignatureCells(cms)] : p \in prepare_unsigned_cab(f, Width(cms))}

sign_cab(f, req) ==
    UNION {UNION {UNION {UNION {cab_append(f, t) : t \in maybe_timestamp_pkcs7(c, req.tsa)} :
        c \in create_authenticode_pkcs7(req.material, "cab", req.alg, d)} :
        d \in compute_cab_digest(p, req.alg)} :
        p \in prepare_unsigned_cab(f, 0)}

cab_signature_pkcs7(f) ==
    IF ~f.reserve \/ ~parse_cab_context(f) THEN <<>>
    ELSE Signatures(SubSeq(f.data, f.sigpos - CabHeaderEnd(f) + 1, Len(f.data)))

verify_cab(f) ==
    /\ cab_signature_pkcs7(f) # <<>>
    /\ LET cms == cab_signature_pkcs7(f)[1]
       IN \E d \in compute_cab_digest(f, IndirectDigest(cms)[1]) : verify_indirect(cms, d)

CabContent(f) == <<f.hdr, OfKind(f.data, "code")>>
-----------------------------------------------------------------------------
(* MSI: streams in the order of their names, the metadata of their entries,   *)
(* and the two root streams of a signature.                                   *)
compute_prehash(f, alg) == Hash(alg, <<f.meta, [i \in DOMAIN f.streams |-> Len(f.streams[i])]>>)

(* The contents are hashed end to end: only the metadata digest, there when   *)
(* its stream is, tells where one stream ends.                                *)
compute_msi_fingerprint(f, alg) ==
    Hash(alg, <<IF f.ex # <<>> THEN <<compute_prehash(f, alg)>> ELSE <<>>, FlattenSeq(f.streams)>>)

(* Bug: the stream with the metadata digest is not written.                   *)
BugPrepareMsi(f, alg) == [f EXCEPT !.ex = <<>>]

(* prepare_msi_for_authenticode_signing: the stream with the metadata digest  *)
(* goes in before the digest is taken.                                        *)
prepare_msi(f, alg) == [f EXCEPT !.ex = <<compute_prehash(f, alg)>>]

msi_embed(f, cms) == [f EXCEPT !.sig = <<cms>>]

sign_msi(f, req) ==
    LET p == prepare_msi(f, req.alg)
    IN UNION {{msi_embed(p, t) : t \in maybe_timestamp_pkcs7(c, req.tsa)} :
        c \in create_authenticode_pkcs7(req.material, "msi", req.alg,
                                        compute_msi_fingerprint(p, req.alg))}

verify_msi(f) ==
    /\ f.sig # <<>>
    /\ LET alg == IndirectDigest(f.sig[1])[1]
       IN /\ verify_indirect(f.sig[1], compute_msi_fingerprint(f, alg))
          /\ f.ex # <<>> => f.ex[1] = compute_prehash(f, alg)

MsiContent(f) == <<f.meta, f.streams>>
-----------------------------------------------------------------------------
(* PowerShell-class scripts: lines, line ends, and the markers of a signature *)
(* block, in UTF-8 or in UTF-16 with a byte order mark.                       *)
Crlf == Cell("crlf", "")
Begin == Cell("begin", "")
End == Cell("end", "")
LineEnds == {"crlf", "lf"}

Occurrences(s, pattern) ==
    {i \in 1..(Len(s) - Len(pattern) + 1) : SubSeq(s, i, i + Len(pattern) - 1) = pattern}
Find(s, pattern) == IF Occurrences(s, pattern) = {} THEN 0 ELSE Min(Occurrences(s, pattern))

(* The first of several patterns that occurs, with its length.                *)
FindFirstOf(s, p, q) ==
    CASE Find(s, p) # 0 -> <<Find(s, p), Len(p)>>
      [] Find(s, p) = 0 /\ Find(s, q) # 0 -> <<Find(s, q), Len(q)>>
      [] OTHER -> <<0, 0>>

(* The code units of a file, without the byte order mark of UTF-16.           *)
file_utf16_units(f) == f.data

(* A reader of a signature puts the mark of UTF-16LE back.                    *)
UnitsToVerify(f) ==
    (IF f.enc = "utf16le" THEN <<Cell("bom", "")>> ELSE <<>>) \o file_utf16_units(f)

strip_signature_region(units) ==
    LET b == FindFirstOf(units, <<Crlf, Begin, Crlf>>, <<Begin>>)
        tail == SubSeq(units, b[1], Len(units))
        e == FindFirstOf(tail, <<End, Crlf>>, <<End>>)
    IN CASE b[1] = 0 -> {}
         [] b[1] # 0 /\ e[1] = 0 -> {}
         [] OTHER -> {SubSeq(units, 1, b[1] - 1) \o
                      SubSeq(units, b[1] + e[1] + e[2] - 1, Len(units))}

(* The base64 lines between the first two markers.                            *)
extract_pkcs7_from_script(f) ==
    LET units == file_utf16_units(f)
        b == Find(units, <<Begin>>)
        e == IF b = 0 THEN 0 ELSE Find(SubSeq(units, b, Len(units)), <<End>>)
    IN IF e = 0 THEN <<>> ELSE Signatures(SubSeq(units, b, b + e - 1))

script_digest(units, alg) == Hash(alg, units)

format_signature_block(cms) == <<Crlf, Begin, Crlf, Cell("cms", cms), Crlf, End, Crlf>>

append_script_signature_block(f, cms) == [f EXCEPT !.data = @ \o format_signature_block(cms)]

sign_script(f, req) ==
    UNION {{append_script_signature_block(f, t) : t \in maybe_timestamp_pkcs7(c, req.tsa)} :
        c \in create_authenticode_pkcs7(req.material, "script", req.alg,
                                        script_digest(file_utf16_units(f), req.alg))}

verify_script(f) ==
    LET found == extract_pkcs7_from_script(f)
    IN /\ found # <<>>
       /\ \E u \in strip_signature_region(UnitsToVerify(f)) :
            verify_indirect(found[1], script_digest(u, IndirectDigest(found[1])[1]))

(* remove_script_signature_block: the last block, when only line ends follow  *)
(* it, with the line ends around it.  A file without one is left alone.       *)
remove_script_signature_block(f) ==
    LET s == f.data
        b == IF Occurrences(s, <<Begin>>) = {} THEN 0 ELSE Max(Occurrences(s, <<Begin>>))
        e == IF b = 0 THEN 0 ELSE Find(SubSeq(s, b, Len(s)), <<End>>)
        last == b + e - 1
        blank == \A i \in (last + 1)..Len(s) : s[i][1] \in LineEnds
        before == IF b > 1 /\ s[b - 1][1] \in LineEnds THEN b - 2 ELSE b - 1
        after == IF last < Len(s) THEN last + 2 ELSE last + 1
    IN IF e = 0 \/ ~blank \/ Signatures(SubSeq(s, b, last)) = <<>> THEN {f}
       ELSE {[f EXCEPT !.data = SubSeq(s, 1, before) \o SubSeq(s, after, Len(s))]}

HasBlock(f) == Occurrences(f.data, <<Begin>>) # {}
ScriptContent(f) == OfKind(f.data, "code")
-----------------------------------------------------------------------------
(* Signed ZIP archives: the comment holds the digest of the archive without   *)
(* its comment, and the CMS of a script that would hold that digest.          *)
zip_authenticode_digest(f) == Hash("sha256", f.data)

ZipScript(digest) == [enc |-> "utf8", data |-> <<Cell("code", digest)>>]

set_zip_comment(f, digest, cms) ==
    When(Width(cms) <= MaxComment, [f EXCEPT !.comment = <<[digest |-> digest, cms |-> cms]>>])

sign_zip(f, req) ==
    LET digest == zip_authenticode_digest(f)
    IN UNION {UNION {set_zip_comment(f, digest, t) : t \in maybe_timestamp_pkcs7(c, req.tsa)} :
        c \in create_authenticode_pkcs7(req.material, "script", req.alg,
                script_digest(file_utf16_units(ZipScript(digest)), req.alg))}

verify_zip(f) ==
    /\ f.comment # <<>>
    /\ f.comment[1].digest = zip_authenticode_digest(f)
    /\ LET s == ZipScript(f.comment[1].digest)
       IN verify_script([s EXCEPT !.data = @ \o format_signature_block(f.comment[1].cms)])

ZipContent(f) == f.data
=============================================================================
