----------------------------- MODULE FileCatalog -----------------------------
(* File catalogs: a list of files and their digests, made of a directory or   *)
(* of named files, signed or not, and later compared with what is on disk.    *)
(* A path is the sequence of its names under one root; a member of a catalog  *)
(* is a file's path relative to the directory that was listed, or its bare    *)
(* name when several paths were.  Names are compared without regard to case.  *)
EXTENDS FileFormats, Functions

CONSTANTS
    Dirs,           \* the directories, the root <<>> among them
    Cwd,            \* the directory of a request without paths
    CatPath,        \* where the catalog is written
    ToLower,        \* [names -> names], to_ascii_lowercase
    Tree,           \* [paths -> files], the disk at first
    Texts,          \* files an edit may put in the place of another
    PathLists,      \* sequences of paths of a request
    SkipLists,      \* sets of paths of a request to skip
    Requests,       \* [alg, append, skip, tsa, material] of signing
    MaxEdits        \* changes of the disk and of the catalog

(* A path is a sequence of names, a file has nothing below it and is no       *)
(* directory.                                                                 *)
ASSUME CatalogAssumption ==
    /\ Align \in Nat \ {0} /\ MaxEdits \in Nat
    /\ \A p \in DOMAIN Tree :
          /\ p \in Seq(ToSet(p)) /\ p \notin Dirs
          /\ \A q \in DOMAIN Tree : IsPrefix(p, q) => p = q
    /\ \A paths \in PathLists : paths \in Seq(ToSet(paths))

VARIABLES
    disk,           \* [paths -> files], without the catalog
    cat,            \* the catalog file: <<>> or <<[content, alg, signers]>>
    edits,          \* changes so far
    made            \* ghost: [content, listed, disk, paths] of the last catalog

catalogVars == <<disk, cat, edits, made>>

(* A file of the disk as its reader sees it, the catalog among them.          *)
Existing == DOMAIN disk \cup (IF cat = <<>> THEN {} ELSE {CatPath})
Read(p) == IF p = CatPath /\ cat # <<>> THEN [fmt |-> "cat", data |-> cat[1]] ELSE disk[p]
-----------------------------------------------------------------------------
(* normalize_catalog_member_key.                                              *)
Key(name) == [i \in DOMAIN name |-> ToLower[name[i]]]
catalog_file_name(p) == <<Last(p)>>
catalog_relative_name(base, p) == SubSeq(p, Len(base) + 1, Len(p))

(* Bug: the catalog that is there already is listed like any other file.      *)
BugSamePath(p) == FALSE

is_same_existing_path(p) == p = CatPath /\ p \in Existing

(* The walk of a directory, and a file that is named.  The same file named    *)
(* twice is two subjects.                                                     *)
SubjectsOf(paths, i) ==
    LET single == Len(paths) = 1
        found == {p \in Existing : IsPrefix(paths[i], p) /\ ~is_same_existing_path(p)}
    IN {[path |-> p, at |-> i,
         name |-> IF single /\ paths[i] \in Dirs THEN catalog_relative_name(paths[i], p)
                  ELSE catalog_file_name(p)] : p \in found}

(* Bug: names are compared letter by letter.                                  *)
BugRejectDuplicates(subjects) == \E s, t \in subjects : s # t /\ s.name = t.name

(* An error when a path is not there, when two subjects have one name, or     *)
(* when there is no subject.                                                  *)
reject_duplicate_catalog_member_names(subjects) ==
    \E s, t \in subjects : s # t /\ Key(s.name) = Key(t.name)

collect_catalog_subjects(request) ==
    LET paths == IF request = <<>> THEN <<Cwd>> ELSE request
        subjects == UNION {SubjectsOf(paths, i) : i \in DOMAIN paths}
    IN When(/\ ToSet(paths) \subseteq Dirs \cup Existing
            /\ ~reject_duplicate_catalog_member_names(subjects)
            /\ subjects # {},
            subjects)
-----------------------------------------------------------------------------
(* An image is listed by its Authenticode digest, any other file by the       *)
(* digest of its bytes.                                                       *)
Bytes(f) == <<f.fmt, f>>

catalog_subject_digest(f, kind, alg) ==
    IF kind = "pe" THEN pe_authenticode_digest(f, alg) ELSE Hash(alg, Bytes(f))

(* catalog_subject_indirect_data, catalog_ctl_entry_der.                      *)
catalog_ctl_entry(name, f, alg) ==
    LET kind == IF f.fmt = "pe" THEN "pe" ELSE "flat"
    IN [name |-> name, kind |-> kind, alg |-> alg, digest |-> catalog_subject_digest(f, kind, alg)]

(* create_catalog_ctl_econtent_der_with_hash.  The disk, and with it the      *)
(* names, are those of the moment of the command.                             *)
catalog_ctl(subjects, alg) ==
    <<"ctl", {catalog_ctl_entry(s.name, Read(s.path), alg) : s \in subjects}>>

create_unsigned_catalog_pkcs7(subjects, alg) ==
    [content |-> catalog_ctl(subjects, alg), alg |-> alg, signers |-> <<>>]

effective_catalog_version(version) ==
    CASE version = 0 -> {2} [] version \in {1, 2} -> {version} [] OTHER -> {}

catalog_hash_algorithm_for_version(version) == IF version = 1 THEN "sha1" ELSE "sha256"

(* sign-catalog: the list as attached content.                                *)
create_catalog_pkcs7(subjects, req) ==
    UNION {{[content |-> c.content[1], alg |-> req.alg, signers |-> <<t>>] :
                t \in maybe_timestamp_pkcs7(c, req.tsa)} :
              c \in create_pkcs7(req.material, "Basic", TRUE, req.alg,
                                 catalog_ctl(subjects, req.alg), 0)}
-----------------------------------------------------------------------------
(* The entries of a list; catalog_members_bytes, of the list of a catalog.    *)
collect_catalog_members(ctl) == ctl[2]
catalog_members(c) == collect_catalog_members(c.content)

(* A member that was an image when it was listed must be one still.           *)
catalog_member_digest_for_subject(member, f) ==
    When(member.kind = "pe" => f.fmt = "pe",
         catalog_subject_digest(f, member.kind, member.alg))

(* verify-catalog-member: any member of that digest will do.                  *)
verify_catalog_member(c, f) ==
    \E m \in catalog_members(c) : m.digest \in catalog_member_digest_for_subject(m, f)

pkcs9_message_digest_matches(attrs, computed) == attrs.messageDigest = computed

(* verify-catalog: every signer's messageDigest is the digest of the list.    *)
verify_catalog_digest_consistency(c) ==
    /\ c.signers # <<>>
    /\ \A i \in DOMAIN c.signers :
          /\ c.signers[i].alg = c.alg
          /\ pkcs9_message_digest_matches(c.signers[i].attrs, Hash(c.alg, c.content))

trust_verify_catalog(c) ==
    verify_catalog_digest_consistency(c) /\ verify_detached(c.signers[1], c.content)

(* portable_get_signature of the catalog.  Without anchors a signer is all    *)
(* that inspect_pkcs7_file looks for.                                         *)
catalog_signature(c, trust) ==
    CASE c.signers = <<>> -> "NotSigned"
      [] c.signers # <<>> /\ trust = "none" -> "Valid"
      [] OTHER -> IF trust_verify_catalog(c) THEN "Valid" ELSE "NotTrusted"
-----------------------------------------------------------------------------
(* A path to skip also skips every file of its name, wherever it is.          *)
catalog_skip_keys(skips) == UNION {{Key(s), <<Last(Key(s))>>} : s \in skips}

IsSkipped(s, skips) ==
    {Key(s.name), Key(s.path), Key(catalog_file_name(s.path))} \cap catalog_skip_keys(skips) # {}

MembersOf(c, key) == {m \in catalog_members(c) : Key(m.name) = key}

(* The item of a subject, and of a member that no subject was seen of.        *)
PathItem(c, s) ==
    LET members == MembersOf(c, Key(s.name))
        right == {m \in members : m.digest \in catalog_member_digest_for_subject(m, Read(s.path))}
    IN <<Key(s.name), CASE members = {} -> "NotInCatalog"
                        [] right # {} -> "Valid"
                        [] OTHER -> "HashMismatch">>

(* Bug: a member whose file is gone is passed over.                           *)
BugMissingKeys(c, seen, skips) == {}

MissingKeys(c, seen, skips) ==
    {Key(m.name) : m \in catalog_members(c)} \ (seen \cup catalog_skip_keys(skips))

(* An image that is no image any more ends the test with an error.            *)
Unreadable(c, s) ==
    \E m \in MembersOf(c, Key(s.name)) : catalog_member_digest_for_subject(m, Read(s.path)) = {}

portable_test_file_catalog(c, paths, skips) ==
    {LET checked == {s \in subjects : ~IsSkipped(s, skips)}
         items == {PathItem(c, s) : s \in checked} \cup
                  {<<k, "Missing">> : k \in MissingKeys(c, {Key(s.name) : s \in checked}, skips)}
     IN [status |-> IF \A i \in items : i[2] = "Valid" THEN "Valid" ELSE "ValidationFailed",
         items |-> items, skipped |-> {s \in subjects : IsSkipped(s, skips)},
         checked |-> checked] :
        subjects \in {t \in collect_catalog_subjects(paths) :
                        /\ catalog_members(c) # {}
                        /\ \A s \in t : IsSkipped(s, skips) \/ ~Unreadable(c, s)}}
-----------------------------------------------------------------------------
CatalogInit ==
    /\ disk = Tree
    /\ cat = <<>>
    /\ edits = 0
    /\ made = [content |-> <<>>, listed |-> <<>>, disk |-> disk, paths |-> <<>>]

(* The files of a new catalog, by the keys of their members.                  *)
Listed(subjects) ==
    [k \in {Key(s.name) : s \in subjects} |-> Read((CHOOSE s \in subjects : Key(s.name) = k).path)]

Made(c, subjects, paths) ==
    /\ cat' = <<c>>
    /\ made' = [content |-> c.content, listed |-> Listed(subjects), disk |-> disk, paths |-> paths]
    /\ UNCHANGED <<disk, edits>>

(* portable_new_file_catalog.                                                 *)
NewFileCatalog(paths, version) ==
    \E v \in effective_catalog_version(version), subjects \in collect_catalog_subjects(paths) :
        Made(create_unsigned_catalog_pkcs7(subjects, catalog_hash_algorithm_for_version(v)),
             subjects, paths)

(* sign-catalog takes the files it is given and looks for no directory.       *)
NamedSubjects(files) ==
    LET subjects == {[path |-> files[i], at |-> i, name |-> catalog_file_name(files[i])] :
                        i \in DOMAIN files}
    IN When(/\ files # <<>> /\ ToSet(files) \subseteq Existing
            /\ ~reject_duplicate_catalog_member_names(subjects),
            subjects)

SignCatalog(files, req) ==
    \E subjects \in NamedSubjects(files) :
        \E c \in create_catalog_pkcs7(subjects, req) : Made(c, subjects, files)

(* The disk and the catalog change under the commands: a file gets another    *)
(* content, goes or comes back, an image is signed, and a member is taken     *)
(* out of the list.                                                           *)
Change == edits < MaxEdits /\ edits' = edits + 1

EditFile(p, f) ==
    /\ Change /\ p \in DOMAIN Tree
    /\ disk' = [q \in DOMAIN disk \cup {p} |-> IF q = p THEN f ELSE disk[q]]
    /\ disk' # disk
    /\ UNCHANGED <<cat, made>>

RemoveFile(p) ==
    /\ Change /\ p \in DOMAIN disk
    /\ disk' = Restrict(disk, DOMAIN disk \ {p})
    /\ UNCHANGED <<cat, made>>

SignFile(p, req) ==
    /\ Change /\ p \in DOMAIN disk /\ disk[p].fmt = "pe"
    /\ \E f \in sign_pe(disk[p], req) : disk' = [disk EXCEPT ![p] = f]
    /\ UNCHANGED <<cat, made>>

EditCatalog ==
    /\ Change /\ cat # <<>>
    /\ \E m \in catalog_members(cat[1]) :
          cat' = <<[cat[1] EXCEPT !.content = <<"ctl", catalog_members(cat[1]) \ {m}>>]>>
    /\ UNCHANGED <<disk, made>>

CatalogNext ==
    \/ \E paths \in PathLists, version \in 0..3 : NewFileCatalog(paths, version)
    \/ \E files \in PathLists, req \in Requests : SignCatalog(files, req)
    \/ \E p \in DOMAIN Tree, f \in Texts : EditFile(p, f)
    \/ \E p \in DOMAIN Tree : RemoveFile(p)
    \/ \E p \in DOMAIN Tree, req \in Requests : SignFile(p, req)
    \/ EditCatalog

CatalogSpec == CatalogInit /\ [][CatalogNext]_catalogVars
-----------------------------------------------------------------------------
Tests(c) ==
    {t \in PathLists \X SkipLists : portable_test_file_catalog(c, t[1], t[2]) # {}}
Outcome(c, t) == CHOOSE r \in portable_test_file_catalog(c, t[1], t[2]) : TRUE

(* What a file holds, whatever its signatures.                                *)
Cells(f, kind) == {<<i, f.data[i]>> : i \in {j \in DOMAIN f.data : f.data[j][1] = kind}}
Held(f) == IF f.fmt = "pe" THEN <<"pe", f.hdr, Cells(f, "code")>> ELSE Bytes(f)

(* An image as its format has it: content and padding, and behind them, to    *)
(* the end of the file, as many cells as the security directory says.         *)
IsImage(f) ==
    /\ f.fmt = "pe"
    /\ f = [fmt |-> "pe", hdr |-> f.hdr, ptr |-> f.ptr, size |-> f.size, data |-> f.data]
    /\ f.data \in Seq(ToSet(f.data))
    /\ f.ptr \in Nat /\ f.size \in 0..Len(f.data)
    /\ HasTable(f) => f.ptr + f.size = PeLength(f)
    /\ \A i \in DOMAIN f.data :
          f.data[i][1] \in {"code", "pad"} <=> i <= Len(f.data) - f.size

(* What a digest can tell of two files.  With bytes behind the table of an    *)
(* image the digest leaves out those at the end in place of the table.        *)
SameHeld(f, g) ==
    \/ Held(f) = Held(g)
    \/ /\ f.fmt = "pe" /\ g.fmt = "pe" /\ f.hdr = g.hdr
       /\ ~(IsImage(f) /\ IsImage(g))

(* A list nobody changed since it was made, or one its signer vouches for.    *)
Genuine(c) == c.content = made.content \/ verify_catalog_digest_consistency(c)

(* The variables have their types, and a catalog that was made has a member,  *)
(* and one member only, for every file it lists.                              *)
CatalogTypeOK ==
    /\ DOMAIN disk \subseteq DOMAIN Tree
    /\ Len(cat) <= 1
    /\ edits \in 0..MaxEdits
    /\ cat # <<>> => /\ DOMAIN made.listed # {}
                     /\ {Key(m.name) : m \in made.content[2]} = DOMAIN made.listed
                     /\ \A m, n \in made.content[2] : Key(m.name) = Key(n.name) => m = n

(* Valid can be relied on.  A catalog whose digest is consistent holds the    *)
(* list it was made with; and when a test says Valid, every file that was     *)
(* looked at holds what the file of that name held when it was listed, and    *)
(* no file that was listed is gone, unless it is skipped, however the tree    *)
(* is walked and whatever was signed or edited (portable_test_file_catalog).  *)
(* Of an image the test is to be relied on only when its table is at the end  *)
(* of the file, now and when it was listed (pe_authenticode_digest).          *)
CatalogIsHonest ==
    \A c \in ToSet(cat) : Genuine(c) =>
        /\ c.content = made.content
        /\ \A t \in Tests(c) : Outcome(c, t).status = "Valid" =>
              LET checked == Outcome(c, t).checked
                  listed == made.listed
              IN /\ \A s \in checked :
                        Key(s.name) \in DOMAIN listed /\ SameHeld(Read(s.path), listed[Key(s.name)])
                 /\ DOMAIN listed \ {Key(s.name) : s \in checked} \subseteq catalog_skip_keys(t[2])
        /\ catalog_signature(c, "anchored") = "Valid" =>
              \A p \in DOMAIN disk : verify_catalog_member(c, disk[p]) =>
                  \E f \in Range(made.listed) : SameHeld(disk[p], f)

(* What a listed file may have become: the same bytes, or an image, with its  *)
(* table at the end, with a signature more or less whose length was in line.  *)
Unchanged(f, g) ==
    \/ f = g
    \/ /\ IsImage(f) /\ IsImage(g) /\ Held(f) = Held(g)
       /\ Cells(f, "pad") = Cells(g, "pad")

(* A tree that is as it was listed passes: a test with the paths the catalog  *)
(* was made of says Valid when no file changed since, or only by a signature  *)
(* in an image whose length was in line, and also when the catalog was made   *)
(* anew over an older one in the tree (collect_catalog_subjects).  Only the   *)
(* catalog itself must not have been named: a test never looks at it.         *)
UnchangedIsValid ==
    \A c \in ToSet(cat) :
        /\ c.content = made.content
        /\ CatPath \notin ToSet(made.paths)
        /\ DOMAIN disk = DOMAIN made.disk
        /\ \A p \in DOMAIN disk : Unchanged(disk[p], made.disk[p])
        => \E r \in portable_test_file_catalog(c, made.paths, {}) : r.status = "Valid"
=============================================================================
