CONSTANTS
    c1 = c1
    c2 = c2
    m1 = m1
    m2 = m2
    Clients <- MCClients
    Ids <- MCIds
    Scopes <- NoScopes
    Payloads <- MCPayloads
    Patches <- MCPatches
    Unused = Unused
    Gone = Gone
    Nobody = Nobody
    MaxVersion = 3
SPECIFICATION Spec
SYMMETRY Symmetry
INVARIANT ForgottenNeverRetrieved
