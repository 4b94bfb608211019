SPECIFICATION FairSpec
CONSTANTS
    admin = admin
    Users = {admin}
    Handlers = {h1, h2}
    Roles = {"System Administrator", "Security Administrator"}
    Permissions = {"APPROVE_ACCESS", "GRANT_REVOKE", "ROLE_MANAGE", "BREAKGLASS_ELIGIBLE", "BREAKGLASS_REVIEW", "PAM_CHECKOUT"}
    InitialGrants <- SeedGrants
    InitialPermissions <- SeedRoles
    RoleEdits <- NoCheckout
    Approvals <- OneHour
    Eligible <- AdminOnly
    CheckoutRole = "System Administrator"
    TTL = 2
    EmergencyHours = 1
    ExtensionCap = 2
    Nothing = Nothing
    MaxTime = 2
    MaxRequests = 3
INVARIANTS
    TypeOK
    AuthorityIsRecent
    CheckoutNeedsLiveGrant
    ReturnedIsRotated
    EmergencyIsReviewed
PROPERTIES
    EndedIsSwept
CHECK_DEADLOCK FALSE
