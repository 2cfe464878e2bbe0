SPECIFICATION Spec
CONSTANTS
    Token = {t1, t2, t3}
    Request = {r1, r2}
    Role = {Owner, staff}
    Owner = Owner
    SuperAdmin = TRUE
    NoRole = NoRole
    NoToken = NoToken
SYMMETRY Symmetric
INVARIANTS
    RevokedFamilyIsDead
