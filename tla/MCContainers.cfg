CONSTANTS
    Heads = {h1, h2}
    Entries = {e1, e2, e3}
    NoNode = NoNode
    k1 = k1
    k2 = k2
    k3 = k3
    k4 = k4
    Keys = {k1, k2, k3, k4}
    Values = {v}
    Hash <- MCHash
    MinSize = 1
    NoKey = NoKey
    Objs = {o1, o2, o3}
    Unit = 2
    InitSize = 1
    Bound = 8
    Nothing = Nothing
SPECIFICATION MCSpec
INVARIANTS
    RingIsItsList
    HtableIsMap
    WalkIsWhole
PROPERTIES
    ArrayIsList
    
