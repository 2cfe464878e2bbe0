CONSTANTS
    Request = {r1, r2, r3}
    ann = ann
    Ann = Ann
    Email <- Addresses
    toLowerCase <- LowerCase
    Sub = {s1, s2}
    Slug = {salon, shop}
    Role = {owner, staff}
    Owner = owner
    Seed = seed
    NoOne = none
    MaxFaults = 1
SYMMETRY Symmetric
SPECIFICATION Spec
INVARIANTS
    TypeOK
    SignInsAgree
    InviteNotWasted
    AuditTells
    AnswersHold
