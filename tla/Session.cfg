SPECIFICATION Spec
CONSTANTS
    t1 = t1
    t2 = t2
    operator = operator
    guest = guest
    admin = admin
    None = None
    Tab = {t1, t2}
    MaxLogins = 2
    MaxSessions = 2
    User = {operator, guest}
    RolesOf <- Roles
    RequiredRoles = {admin}
    Expiries = {1}
    MaxTime = 2
    GCInterval = 2
    MaxRestarts = 1
INVARIANTS
    SessionInv
    LoginsAreMatched
    SessionsAreEarned
PROPERTIES
    AnsweredInForce
    ForceIsHonoured
    RolesSurvive
