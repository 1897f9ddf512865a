SPECIFICATION Spec
CONSTANTS
    i1 = i1  i2 = i2  i3 = i3  x = x  y = y  none = none  m1 = m1  m2 = m2  v1 = v1  v2 = v2
    Ids = {i1, i2}
    Texts = {x, y}
    Times = {1, 2}
    Models = {none, m1}
    Vecs = {v1, v2}
    NoVec = NoVec
    States <- MCStates
    Absent = Absent
    Damaged = Damaged
    Drafts <- MCDrafts
    DimOf <- MCDimOf
    ListMax = 1
    MaxLists = 3
    MaxBatch = 1
    MaxDamage = 1
    DamageKinds = {"row", "entry", "centroid"}
    NoTx = NoTx
SYMMETRY Symmetry
INVARIANTS IndexesMatchRows CountersExact CentroidCacheCurrent
PROPERTY ImplementsStorage
CHECK_DEADLOCK FALSE
