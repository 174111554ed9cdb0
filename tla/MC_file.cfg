SPECIFICATION SerialSpec
CONSTANTS
    Writers = {w1, w2}
    Values = {v1, v2}
    Inodes = {i1, i2, i3, i4}
    None = None
    Partial = Partial
    Faults = {"io", "kill", "power"}
SYMMETRY Symmetry
INVARIANTS TypeOK OkIsStable
PROPERTIES ImplementsAtomicFile
