SPECIFICATION Spec
CONSTANTS
    Callers = {gateway, cli1}
    KeyIds = {k1, k2}
    NoKey = NoKey
    Nobody = Nobody
    Torn = Torn
    NoFile = NoFile
INVARIANTS
    DiscardedKeysRevoked
