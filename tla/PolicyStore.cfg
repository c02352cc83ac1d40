SPECIFICATION Spec
CONSTANTS
    Ids = {p1, p2}
    Objs = {o1, o2}
    Absent = Absent
    Torn = Torn
    MaxIndex = 3
    MaxFaults = 2
INVARIANTS TypeOK Durable Listed FlushFindsId
PROPERTIES ReaderTold
SYMMETRY Symmetry
