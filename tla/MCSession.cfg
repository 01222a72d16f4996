CONSTANTS
    t1 = t1  t2 = t2  a1 = a1  a2 = a2  in = in  code = code
    Tab = {t1, t2}
    Request = {a1, a2, in}
    TabOf <- MCTabOf
    Kind <- MCKind
    MaxToken = 2
    MaxLeaves = 1
SPECIFICATION Spec

INVARIANTS OneRefresh ExpiryInvisible
CHECK_DEADLOCK FALSE
PROPERTY EverySettles
