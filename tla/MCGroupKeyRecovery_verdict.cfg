SPECIFICATION Spec
CONSTANTS
    Groups = {g1}
    Attempts = {a1}
    PerGroupDemoteCap = 2
    SessionDemoteCap = 4
    MaxSession = 4
    None = None
PROPERTY CooldownRepeatsLastVerdict
