CONSTANTS
    o1 = o1
    o2 = o2
    o3 = o3
    Objects = {o1, o2, o3}
    Threads = {t1, t2}
    Null = Null
    Order <- MCOrder
    MaxCalls = 5
SPECIFICATION Spec
INVARIANTS SlotsAndLinksAgree
PROPERTIES EveryCallReturns
CHECK_DEADLOCK FALSE
