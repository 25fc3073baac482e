SPECIFICATION Spec
CONSTANTS
    Rows = {r1, r2, r3}
    MaxDepth = 3
    Programs <- AllPrograms
SYMMETRY RowSymmetry
INVARIANTS TypeOK NoRefusedRowLands RemembersThisTransaction CauseIsKept
PROPERTIES CallsAreAtomic
