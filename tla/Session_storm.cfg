SPECIFICATION Spec
CONSTANTS
    c1 = c1
    c2 = c2
    Client <- MCClient
    Nobody = Nobody
    Retries = 1
    MaxToken = 2
INVARIANTS
    NoLoginStorm
