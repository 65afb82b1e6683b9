CONSTANTS
    ann = ann
    ben = ben
    cat = cat
    None = None
    Fp <- People
    Requested <- Limits
    MinRoom = 2
    MaxRoom = 4
    MaxEntries = 4
    MaxRooms = 2
SPECIFICATION Spec
INVARIANTS
    TypeOK
    ActiveWithinLimit
    OwnerStays
PROPERTIES
    RevocationIsFinal
SYMMETRY PeopleSymmetry
