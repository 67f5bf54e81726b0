SPECIFICATION Spec
CONSTANTS
    Groups = {g1, g2, g3}
    Users = {a, b}
    MaxTime = 2
    Floor = 1
    MaxEntries = 2
    Unreadable = Unreadable
    None = None
SYMMETRY Symmetry
PROPERTY NeverRestarted
