SPECIFICATION Spec
CONSTANTS
    Admin = admin
    Emails = {admin, u1}
    FirstOrg = o1
    Orgs = {o1, o2}
    SeedName = hq
    Names = {hq, n1}
    Threads = {t1, t2}
    Created = {"DIRECTOR"}
    MAX_BRANCHES = 4
SYMMETRY Symmetry
INVARIANTS
    TypeOK
    KeptApart
    AdminStays
    HeadOfficesBounded
