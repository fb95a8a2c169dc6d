SPECIFICATION Spec
CONSTANTS
    Web = {w1, w2}
    Workers = {c1}
    Addresses = {main, test}
    Passwords = {secret}
    NoPassword = NoPassword
    EnvPassword = env
    StartAddress = main
    TestAddress = test
    TestPassword = NoPassword
    Templates = {t1, t2}
    Scopes = {general}
    NoRow = NoRow
    NoLink = NoLink
    MaxRekeys = 1
SYMMETRY Symmetry
INVARIANTS
    TypeOK
    ServedAsSaved
PROPERTIES
    NoTakeover
