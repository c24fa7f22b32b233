SPECIFICATION Spec
CONSTANTS
    pack = pack
    inner = inner
    payload = payload
    loose = loose
    second = second
    third = third
    Node = {pack, inner, payload, loose, second, third}
    NoNode = NoNode
    Parent <- MCParent
    Rank <- MCRank
    Inputs <- MCInputs
    Options <- MCOptions
CHECK_DEADLOCK FALSE
INVARIANT PlanIsCarriedOut
