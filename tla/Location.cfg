\* One address, two devices, two contacts per request.
SPECIFICATION Spec
CONSTANTS
    Aor = {a1}
    Bid = {b1, b2}
    CallId = {k1, k2}
    CSeq = {1, 2}
    Expires <- MCExpires
    DefaultExpires = 2
    MinExpires = 2
    MaxExpires = 3
    Handler = {h1}
    MaxContacts = 2
    MaxTime = 4
    None = None
SYMMETRY Symmetry
CHECK_DEADLOCK FALSE
INVARIANTS
    TypeOK
    EntryCovers
PROPERTIES
    ImplementsRegistrar
