SPECIFICATION Spec
CONSTANTS
    a = a
    b = b
    c1 = c1
    c2 = c2
    Nil = Nil
    Empty = Empty
    Panic = Panic
    Addr = {a, b}
    Code = {c1, c2}
    CodeHash <- MCCodeHash
    Amount = {1, 2}
    List = {al}
    al = al
    Worker = {w1, w2}
    Key = {1, 2}
    Sources <- MCSources
    MaxCrash = 1
INVARIANTS
    NoDanglingCode
    CopyReadsAsSource
PROPERTIES
    Returns
    ImplementsMap
CHECK_DEADLOCK FALSE
