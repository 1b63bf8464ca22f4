SPECIFICATION Spec
CONSTANTS
    Repo = {r1, r2, r3}
    User = {u1, u2}
    Admin = Admin
    Token = {t1}
    Req = {q1, q2}
    None = None
    Quota = 1
    MaxMade = 3
    MaxOrphans = 1
SYMMETRY Symmetry
INVARIANTS MakersHoldTokens QuotaBounded RotationKills OwnedWhenQuiet
