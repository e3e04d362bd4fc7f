SPECIFICATION FairSpec
CONSTANTS
    r1 = r1
    r2 = r2
    v1 = v1
    v2 = v2
    Address = {"ana"}
    Id = {i1, i2}
    Handler = {r1, r2, v1, v2}
    KindsOf <- Roles
    Failures = TRUE
    Blank = Blank
INVARIANTS
    OnboardingTypeOK
PROPERTIES
    NotReactivated
    LinkDelivered
