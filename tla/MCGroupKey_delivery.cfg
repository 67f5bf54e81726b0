SPECIFICATION Spec
CONSTANTS
    Groups = {g1}
    Fetches = {f1, f2}
    Readers = {r1, r2}
    None = None
PROPERTY DeliveryReachesServer
