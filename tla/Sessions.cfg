SPECIFICATION SessionsSpec
CONSTANTS
    Browsers = {b1, b2}
    b1 = b1
    b2 = b2
    Callbacks = {c1, c2}
    c1 = c1
    c2 = c2
    s1 = s1
    s2 = s2
    None = None
    Logins <- MCLogins
    Lower <- MCLower
    Configs <- MCConfigs
    kOauthStateTtl = 1
    MaxLogins = 2
    MaxClock = 1
SYMMETRY Symmetry
INVARIANTS
    SessionFromOwnLogin
    MeMatchesGuard
    StateUsedOnce
