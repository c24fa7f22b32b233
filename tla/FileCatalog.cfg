SPECIFICATION CatalogSpec
CONSTANTS
    leaf = leaf
    ca = ca
    Certs = {leaf, ca}
    X509 <- MCX509
    MaxBase64 = 2
    PickyKinds = {"pe"}
    Align = 2
    MaxComment = 2
    Dirs <- MCDirs
    Cwd <- MCCwd
    CatPath <- MCCatPath
    ToLower <- MCToLower
    Tree <- MCTree
    Texts <- MCTexts
    PathLists <- MCPathLists
    SkipLists <- MCSkipLists
    Requests <- MCRequests
    MaxEdits = 3
INVARIANTS
    CatalogTypeOK
    CatalogIsHonest
    UnchangedIsValid
CHECK_DEADLOCK FALSE
