\* Two browsers, one desk, two links; one crash.
SPECIFICATION Spec
CONSTANTS
    root = root
    guest = guest
    Guest = Guest
    other = other
    Other = Other
    None = None
    Browsers = {b1, b2}
    Desks = {d1}
    Addresses = {root, guest, other}
    Spellings = {Guest, Other}
    Lower <- SmallLower
    Tokens = {t1, t2}
    SeedAddress = root
    Mailer = TRUE
    MaxFaults = 1
INVARIANTS
    BurnedMeansRegistered
    VerifiedMeansProven
    ClosedMeansAdmin
SYMMETRY
    Interchangeable
