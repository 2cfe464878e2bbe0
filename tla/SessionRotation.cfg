SPECIFICATION Spec
CONSTANTS
    Token = {t1, t2, t3}
    Request = {r1, r2}
    Role = {Owner}
    Owner = Owner
    SuperAdmin = TRUE
    NoRole = NoRole
    NoToken = NoToken
SYMMETRY Symmetric
INVARIANTS
    AuthorityIsRecent
    TypeOK
    OneUnusedToken
    QuietRevocationIsFinal
