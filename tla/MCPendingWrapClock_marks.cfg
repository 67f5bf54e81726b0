SPECIFICATION Spec
CONSTANTS
    Groups = {g1, g2, g3}
    Users = {a, b}
    MaxTime = 1
    Floor = 0
    MaxEntries = 2
    Unreadable = Unreadable
    None = None
SYMMETRY Symmetry
INVARIANTS TypeOK StoredMarksOwned CapHolds Durable
PROPERTY FirstMarkWins
