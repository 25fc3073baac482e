SPECIFICATION Spec
CONSTANTS
    Schemas <- MCSchemas
    Names <- MCNames
    OwnerOf <- MCOwnerOf
    BodyOf <- MCBodyOf
    Starts <- MCStarts
    MaxAccesses = 2
    MaxBehind = 1
INVARIANTS TypeOK ChangesReachTheAnswer NothingForeign DirectionsAgree
